# VlessPanel in TLA+

This directory holds the verification project of VlessPanel, the web panel that
manages VLESS keys of several 3X-UI panels and publishes them as subscription
files. It contains TLA+ models of the backend's state and concurrency, the TLC
configurations that check them, and theorems checked by TLAPS.

Paths below are relative to the repository; Go files are in `backend/`.

## 1. Inventory

### 1.1 Components, state, operations

| component | state | operations that change it | where |
|---|---|---|---|
| Storage: panels | `panels.json` | AddPanel, UpdatePanelName, DeletePanel | `storage.go:83-223` |
| Storage: KeySources | `key-sources.json` | AddKeySource (dedup), UpdateKeySource (whole record), UpdateKeySourceCaches (batch), DeleteKeySource | `storage.go:228-382` |
| Storage: subscriptions | `subscriptions.json` and the files `configs-<name>.txt` | UpsertSubMeta, DeleteSubMeta, WriteSubscriptionFile, RenameSubscriptionFile, RemoveSubscriptionFile; ListSubscriptions merges both stores | `storage.go:384-839` |
| Storage: tokens | `tokens.json` | AddToken, DeleteToken | `storage.go:480-548` |
| SubscriptionService | none of its own | Create, Update (rename, regenerate, add references, remove key, replace keys), Delete, RegenerateAll | `service_subscription.go` |
| KeySourceService | none of its own | Create, GetKey, Test, Delete with its cascade | `service_keysource.go` |
| SyncState, SyncService | one atomic flag in memory | Mark, Clear, Run (90 s limit) | `syncstate.go`, `service_sync.go`, `aggregator.go` |
| PanelService, PanelAPI | state of the remote panels | clients: create, attach, detach, flow, expiry; live key lookup | `service_panel.go`, `panelapi*.go` |
| TokenService, TokenAuth | `tokens.json` and a set of hashes in memory | Create, Delete, load at start | `service_token.go`, `auth.go`, `middleware.go` |
| MetricsCollector | last timestamps, traffic baselines, cursor of the test runs | three loops: telemetry, runs, retention | `metrics/collector.go` |
| MetricsDB | SQLite tables | inserts with replacement or dedup | `metrics/db.go` |
| AlertManager | table `alert_states` | fire and recover with a cooldown | `metrics/alerts.go` |
| Metrics API | none | aggregation of rows into buckets | `metrics/api.go` |
| Frontend hook | view state | loads, mutations, selection | `frontend/src/hooks/useVlessPanel.js` |
| handlers, configuration, DTOs, UI components, scripts | none | routing, decoding, rendering | rest |

### 1.2 How they interact

* Every HTTP request runs in its own goroutine. A service calls the storage
  several times for one request. Each storage call is atomic under one
  `sync.RWMutex`, but **nothing is held between two calls**, and many handlers
  wait for a panel or for the test daemon between a read and the write that
  depends on it.
* A subscription lives in two stores: the published file (links only) and its
  metadata (keys with ids and KeySource references). Nothing in the file tells
  which key a line belongs to; `ListSubscriptions` pairs them **by position**.
* Subscriptions refer to KeySources by id, KeySources to panels by id. Deleting
  a KeySource rewrites every subscription that uses it; deleting a panel does
  not touch its KeySources.
* Every change of a file is followed by `Mark`; `SyncService.Run` runs the
  script that copies the files to the aggregator and then lowers the flag.
* Nothing is transactional. A process that stops between two calls leaves what
  was done; at the next start the flag is raised and all requests are lost.
* The collector polls panels and writes to SQLite; after each cycle it calls
  the alert manager, which keeps its own state in the same database.

### 1.3 What is hard, and what makes each component correct

| component | hard behaviour | correct means |
|---|---|---|
| KeySource registry | late writes of records read before a network wait, Delete in between | one record per identity; an id never changes its meaning or returns; a cached link is the source's own |
| subscriptions | two stores, many calls, positional pairing, stale listings, key lists a client sends unchecked | file and status agree; a generated link is shown under its own KeySource; no reference to a deleted source; nothing deleted comes back; an interrupted request can be repaired |
| sync flag | changes while the script runs, restart | flag down means that the aggregator has the files |
| panels | ids derived from names, writes cut off | no two panels share an id; a KeySource reaches its own panel; a broken file is not replaced |
| tokens | disk and memory in two steps | a revoked token stops working, also after a restart |
| collector | windows across cycles, partial failures, restart, counter resets, a silent daemon | no window is skipped; no traffic is invented; every test run arrives, once |
| alerts | send may fail, restart, flapping, slow cycles | not more than one message per cooldown; a lasting condition is announced again and again; an end is noticed; no alarm about what answers |
| panel clients | several requests with a read in between, answers that are lost | an edit of one field does not undo another; a key leads where it was asked for |
| frontend | answers out of order | what is shown belongs to what is selected |

`PROJECT.json` lists each hazard with its line and the properties that cover it.

## 2. Modules

| module | what it is |
|---|---|
| `KeySourceRegistry` | `key-sources.json` and every handler that reads or writes it |
| `KeySourceRegistry_proofs` | its theorems |
| `SubStore` | pure operators: the two stores of a subscription and `ListSubscriptions` |
| `Subscriptions` | SubscriptionService, the cascade of KeySourceService.Delete, SyncService, restarts |
| `Subscriptions_proofs` | its theorems about status and flag |
| `SubscriptionKeys_proofs` | its theorems about types and about regenerate |
| `SubscriptionContent_proofs` | its theorems about keys, lines and references |
| `SubscriptionBook` | abstract specification: every request is one atomic change of a book of subscriptions |
| `SubscriptionsRefinement` | the mapping from `Subscriptions` to `SubscriptionBook` |
| `Collector` | the telemetry loop of MetricsCollector for one panel, up to the rows of `panel_snapshots` |
| `Collector_proofs` | its theorems |
| `PanelClients` | PanelAPI and PanelService against a panel that others use too |
| `PanelClients_proofs` | its theorems |
| `Alerts` | AlertManager and the telemetry loop that calls it, for one row of `alert_states` |
| `Alerts_proofs` | its theorems |
| `TrafficCounters` | `writeTraffic`, its two tables and the readers of the metrics API |
| `RunsCursor` | `runsLoop`: the test runs of the daemon and the cursor over them |
| `Panels` | `panels.json`: ids, renames, deletions, writes that are cut off |
| `Tokens` | `tokens.json`, the issued hashes in memory, and TokenService between them |
| `SmallStores_proofs` | the theorems of `Panels`, `Tokens`, `RunsCursor` and `TrafficCounters` |
| `MCSubscriptions`, `MCRefinement`, `MCCollector`, `MCPanelClients`, `MCAlerts`, `MCMetrics`, `MCConfigFiles` | instances for TLC |

`MCMetrics` holds `TrafficCounters` and `RunsCursor`, `MCConfigFiles` holds `KeySourceRegistry`,
`Panels` and `Tokens`: the parts have no state in common and no call between them, so a
variable `part` says which of them a behaviour follows.

### 2.1 KeySourceRegistry

`sources` is the content of `key-sources.json` as a partial function of the id;
`job[w]` is the request worker `w` serves, with the copies of records it holds
in memory; `identity` is a history variable: what an id was issued for.
A record keeps its identity (`target`: panel, e-mail and inbound, or the pasted
link), the cached link and the result of the last test. A link is a pair of the
identity it was fetched for and a generation, so the model can tell links of
different clients apart.

One action is one storage call with the computation next to it: `Create`
(AddKeySource checks and appends under one lock), `StartFetch`/`SaveFetched`
(GetKey, and the resolution of one key in Create and regenerate),
`StartTest`/`TestGotLink`/`SaveTested`, `StartBatch`/`SaveBatch` (RegenerateAll,
with UpdateKeySourceCaches), `StartDelete`/`FinishDelete`, `GiveUp` (an answer
with an error) and `Restart`. The goroutines that RegenerateAll starts, one per panel, put
what they resolved into one map under a mutex, each under ids of its own, and are waited for
before the one write of the batch: `SaveBatch` gives every source an answer of its own, in one step. The id of a new record is any id never issued
before: `randID` is 6 random bytes and collisions are left out.

### 2.2 Subscriptions

`files` and `metas` are the two stores as partial functions of the name;
`sources` says of every KeySource whether it is unborn, live or gone; `needed`
is the sync flag; `stale` is a history variable: some file changed since the
script copied them. A handler first decides (name taken, not found, unknown
reference), may resolve keys one after the other (`ResolveKey`) or all at once
from a listing (`Collecting`, `PanelsAnswered`), and then has a fixed list of
storage calls: `job[w].todo`. One step executes one call, so any other request
or a restart may come between any two calls, and what a handler writes is what
it computed from the listing it read, however old. That is how the code behaves:
`Update` copies the listing into `meta` and never reads it again.

The link of a KeySource stands for the source itself (`LinkFor(ref) == ref`): the
published line then tells which source it came from, which is what the pairing
properties need. Links of keys without a source are members of `LegacyLinks`.

The keys a client sends (Create and Update with `keys`) are decoded and stored as they are:
several keys, ids that repeat, blank links, references to any KeySource or to one that is gone.
`ClientLists` is any set of such lists. What the service promises of the pairing and of the
references, it promises of what it generated itself, so the history variable `own` notes the names a
client has filled; a regenerate that leaves every key with a link takes the name off again, a rename carries it
along. A link is one line: a client's link that contains line breaks or blanks at its ends would
make a file of other lines, and is left out.

RegenerateAll reads the listing **and the KeySources** before it asks the panels (`Collecting`);
what it writes afterwards is computed from these two readings, however old.

Two details of the format are kept because the behaviour depends on them
(`FileLines`, `PairWithLines`): a key without a link writes an empty line,
readers cut empty lines at the end and skip the others while pairing, and an
empty file still has one (empty) line.

### 2.3 SubscriptionBook and the refinement

`SubscriptionBook` has no files, no metadata and no intermediate steps: a book
maps names to status and keys, and each request relates the book before and
after. The mapping completes the calls a request still has to make (`Completed`):
a request takes effect at the step that fixes its list of calls. The abstract
specification admits one weakness of the code: an active subscription none of whose
keys was ever generated may lose its first key (`IsKept`). A client's keys are replaced by the
list it sent, references and links included (`IsReplaced`). The book is a promise to clients whose lists have
no key without a link before one with a link (assumption `BlanksLast` of the mapping): the file cannot hold
the blank line, and what the code does with such a list is in section 5.

### 2.4 Collector

`published` are the minutes the panel has in its history, `asOf[m]` says when
metric `m` answered (the metrics are asked in parallel, so their answers may end
at different minutes), `batch` holds the points newer than `lastSeen` and `left`
the windows of them that have no row yet, `rows[w]` is the set of points the row
of window `w` aggregates (`{}`: no row), `lastTS` the entry of the map of that
name. `used` is a history variable: the points that were ever part of a row.
The values of the points and the status fields are left out.

`telemetryLoop` is `tick`, `untilTick`, `Start`, `BeginCycle` and `EndCycle`: it
collects once, creates its ticker after that, and the channel of the ticker
holds one tick. `ServerStatus`, `ServerHistory(m)` and `RequestFails` are the
requests, `Aggregate` is `lastSeen` with the grouping of `writeSnapshots`,
`InsertSnapshot` one turn of its loop over the windows and `InsertFails` its
early return. `Stop` may happen anywhere; memory is lost, rows stay. What
`collectPanel` does with other tables comes after the rows; see 2.6 and 2.7.

### 2.5 PanelClients

`client` and `port` are the panel's own state: a partial function of the e-mail
with the expiry, the enable flag and the flow on every attached inbound, and the port of
every inbound. The panel is external; what it does is taken from the comments
of `panelapi.go`: attach derives the flow from what the client has
(`EffectiveFlow`), update replaces the client wholesale and strips the flow where an
inbound keeps none. `PanelSide` is what happens without VlessPanel: a client
is disabled, its expiry is changed, it is deleted, an inbound moves to another port.

`job[a]` is the request administrator `a` waits for; one step is one HTTP request.
Attaching is `AttachClient`, `ListClientsDirect` (or, when that endpoint does not
answer, `ListClientsFromInbounds`, which has no expiry) and `SetClientFlow`. A key for
one inbound is `ListForPort`, `ListForKeys` and `Links`; the keys of one listing begin
with `ListForKeys`. `Unanswered` is a request whose answer is lost, `MayBeLost` the
answer lost after the panel did its work. `owed` is a history variable: attachments
that were reported as failed although the panel made them.

### 2.6 Alerts

Rows of `alert_states` do not depend on each other, so one row is followed,
of one of three kinds: a panel that is down, a threshold, a silent tester. Times
are kept as ages, counted in collection intervals and capped beyond the longest limit;
a comparison at exactly the limit may come out either way (`Reaches`), because an age
of n stands for anything around n intervals.

`Time` is the clock: an interval begins, and the ticker's channel takes the tick
if it is empty. A cycle is `BeginCycle`, `CheckPanel` or `PanelsDone`,
`TouchTesterHeartbeats`, `CheckTesters`; `Fire` and `Recover` read the row, decide and
send, `Store` writes it back and may fail. A message may also be delivered and its answer be
an error, as after a timeout (`Outcomes`): the code then takes it as not sent. `RunsContact` is the heartbeat written by
the other goroutine. The thresholds themselves (RAM, load, traffic against its mean)
are the world's `condition`: bad, good, or not to be told.

### 2.7 TrafficCounters and RunsCursor

`TrafficCounters`: `total` and `used` are the counters of the panel's inbounds and of
one client on each; they grow, start again from zero or go. `cycle` is a run of
`writeTraffic` over the list it was given: an inbound's row, then its client's
difference to `baselines`, inbound by inbound; `InsertTrafficFails` is its early return,
after which the old baselines stay. `ticked` is the interval of the tick that waits in the
ticker's channel; a cycle dates its rows by it, not by the clock. (A tick during the first cycle of a process is
possible in the model; the code makes the ticker after that cycle.) The readers are operators: rows of a range, the
differences of neighbouring rows, buckets. `moved` is a history variable, the
traffic there really was.

`RunsCursor`: `filed` are the runs in the daemon's answers with the age of the time
they are filed under, `lastRuns` the cursor as an age, `now` the moment the collection
began. A collection is `DaemonAnswers` (the half-open interval of `ListRuns`) or
`DaemonDown`, then `InsertRun` one by one, then `RunsStored`, which moves the cursor to
the moment the collection **began**. `NextRunsTick` and `due` are the timer.

### 2.8 Panels and Tokens

`Panels`: a panel has an id made from its name, a name and, as a history, a number
that is its identity. An id is a sequence, the base and the numbers appended to it, so
that a panel named "x-1" and the second panel named "x" want the same id. Every write
may be cut off (`Truncated`), after which every request and every start fails to read.
`refs` are the KeySources made for a panel of the list.

`Tokens`: Create is `AddToken` and `AddIssued`, Delete is `DeleteToken` and
`RemoveIssued`; another request, a stop or a stop in the middle of a write may come
between. `Boot` loads the hashes, or none if the file cannot be parsed.

## 3. Runs

Every run finishes within about two and a half minutes with two workers of TLC.

| run | instance | what it shows |
|---|---|---|
| `subs_serial` | 2 names, 1 panel and 1 manual source, up to 2 keys, 3 lists of a client, one request at a time | the contract of every handler, from every state the others can leave; `Subscriptions` implements `SubscriptionBook` |
| `subs_crash` | 2 names, a client's list with a blank link in the middle, one request at a time, restart between any two calls | the flag survives, regenerate repairs |
| `collector` | 2 metrics, windows of 2 minutes, 5 minutes of history, 2 faults | no recorded minute is skipped, and each gets a row in the end |
| `clients` | 1 client, 2 inbounds, 3 ports, 2 moves, 2 requests at a time, any answer lost | flow, expiry and keys survive crossing requests |
| `alerts` | cooldown of 2 intervals, tester overdue after 3, a cycle of up to 2 intervals, 1 database fault, restarts | distance of messages, honest alarms, alarms that repeat and end |
| `metrics` | traffic: 2 inbounds, 3 slots, 2 units of traffic, 1 reset, 1 failing insert; runs: 2 runs, 1 failing insert, restarts | no traffic invented; runs arrive, once |
| `config_files` | sources: 3 ids, 2 panel identities, 1 manual, 2 requests at a time, restarts; panels: up to 3 of 4 over 3 names; tokens: 2, 2 requests at a time; stops in writes | identities, ids and references; accepted tokens are those of the file |

Five runs are expected to be violated (`subs_ungenerated`, `subs_sync`, `subs_returns`, `subs_dangling`,
`collector_poorer`): each checks one property that a document, comment or test of the
repository states and shows a behaviour of the code that breaks it (section 5). Two of the
properties are checked by a passing run as well, for one request at a time: `FlagCoversChange` and
`NoDanglingRefs`.

Properties:

* `UniqueTargets`, `CachedLinkIsOwn`, `IdNeverRebound`, and `RecordsMatchIssue`,
  the strengthening that makes them inductive.
* `StatusMatchesFile`: a stored status is "active" exactly when there is a file.
* `LinksMatchRefs`: a key with a KeySource and a link shows the link of that source.
* `NoDanglingRefs`: no listed key refers to a deleted source.
  These three are stated for names about which no request is running, the last two of them for names
  whose keys the service generated (not in `own`): a client can store any link with any reference.
* `FlagCoversChange`: flag down and files changed only while the request that
  changed them is about to raise it.
* `RegenerateRepairs`: a regenerate that completes leaves file, status and
  links consistent, whatever interrupted requests left before.
* `NoResurrection` (violated): a subscription with keys enters the listing only through
  Create or a rename, never through a write computed from an old listing.
* `ImplementsBook`: the refinement.
* `NothingSkipped`: the place where the next cycle begins, be it `lastTS` or, after
  a restart, the newest row, has no recorded minute before it that was never stored.
* `EveryMinuteGetsARow`: liveness; a recorded minute is followed by a row of its window.
* `FlowWhereNeeded`: an attached inbound that needs the flow has it, unless its
  attachment is under way or was reported as failed.
* `KeyIsOfItsInbound`: a key given for an inbound leads there, although port, settings
  and links come from different answers. Two inbounds that both move while the request
  runs are excluded: when the second takes the port the first has left, the code gives
  the key of the wrong inbound (the run fails without the exclusion).
* `AttachKeepsExpiry`: attaching leaves the expiry alone. Excluded is what the code
  cannot see: an expiry changed while the attachment runs, and the listing
  through the inbounds, which has none.
* `MessagesAreSpaced`: two messages of one kind are a cooldown apart, over flapping,
  lost messages and restarts. Excluded: a message whose time was not recorded, because its
  answer or the row was lost.
* `TesterAlarmIsHonest`: a tester is reported only if its last contact is as old as the
  limit, less what a cycle may be late (`Lateness`: the tick is written as the heartbeat,
  and may itself have waited in the channel while a long cycle ran).
* `NewPanelIsQuiet`: no alert about a panel that never gave data.
* `AlarmRepeats`, `AlarmEnds`: liveness; a condition that lasts is announced infinitely
  often while the sender works (but see section 5 for `panel_down`), one that is over is over in the table.
* `InboundTrafficIsReal`, `ClientTrafficIsReal`: for every range and bucket length, what
  the readers show is no more than what there was; for inbounds without a reset it is
  exactly the difference of the outer rows. Excluded for clients: a failed cycle
  (section 5).
* `CursorPassesStoredRuns`, `RunsStoredOnce`, `RunsArrive`: the cursor leaves no run behind
  but those whose own insert failed or that were older than the backfill at a start; no run
  is stored twice; each arrives if the process stays up.
* `PanelIdsAreUnique`, `SourcesReachTheirPanel`: ids are unique; a KeySource reaches the panel
  it was made for, and no other unless a deleted panel's id was given again.
* `UnreadableStays`: a `panels.json` that cannot be parsed is left as it is.
* `AcceptedTokensAreListed`: with authentication on, the accepted tokens are those of the file.

### Bounds, and why they are enough

* Two requests at a time where requests cross (sources, panel clients, tokens and the violated
  runs): every hazard of this code is a race of two requests, one that writes late what it read early.
  `subs_serial` and `subs_crash` serve one request at a time; what two do to each other is shown by the violated
  runs, and the theorems of section 4 cover any number that are about different names.
* Three ids over three identities: an identity can be created, deleted and
  created again while both workers still hold copies.
* Two names (`NameOrder`): needed for renames and for RegenerateAll and the
  cascade, which visit several subscriptions in order.
* One panel and one manual source and `MaxKeys = 2`: pairs that can be swapped,
  shifted or shortened; a panel source can fail, a manual one cannot.
* `ClientLists`: in `subs_serial` a key pasted by hand, a reference with the link of another, and two keys of
  one id, the second without a link; in `subs_crash` a blank link before the link of another source.
  A client can name a KeySource that is live or gone, not one that is yet to be made: it cannot
  guess its random id (`Sendable`).
* `LegacyLinks` with one link: keys without a source, and a file that no
  metadata describes, which the first name may have at the start.
* `Crashes` switches restarts on. With restarts the instance serves fewer
  handlers (`CrashOps`) to stay small: no references are added without being
  generated, no deletion of keys or sources, no RegenerateAll, no file from before.
* `addKeySourceIds` takes lists of one or two ids.
* Symmetry is used in `clients` (ports, administrators) and `config_files` (ids, workers, hashes,
  requests); no property of these runs is a liveness property.

* `MaxMinute = 6` with windows of two minutes: three windows, so that a catch-up has
  a first, a middle and a last row. The clock goes on after the last recorded
  minute. `MaxFaults = 2` counts failing requests, failing inserts and stops
  together: an insert that fails and then a stop is among them. The
  depth of a panel's history, six hours, is longer than every run of the model: a
  collector that is away for longer loses minutes, and `lastSeen` of a first contact
  (six hours back) is before the first minute, here 0. The reads of the database
  do not fail.

* `clients`: two requests of administrators and the panel's own changes between any two
  HTTP requests. One inbound keeps flows, one strips them; one date and "never" tell a
  kept expiry from a lost one. Two moves are what it takes for a port to pass from one
  inbound to another.
* `alerts`: a cooldown of two and a limit of three intervals are the smallest that differ
  and have an age strictly between two events. `MaxCycle = 1`: a cycle may run into the
  next interval, not into the one after it; panels are asked one after the other with a
  time limit per request, so a cycle of more than ten minutes takes several
  panels that hang. The theorem about `TesterAlarmIsHonest` holds for every `MaxCycle`;
  what longer cycles mean for the alert is in section 5.
* `metrics`: three slots give a row before, at and after a reset; two inbounds let a cycle
  fail after the first. Of up and down, which the code treats alike, one is kept. Periods
  of two units with one unit as the quarter of an hour, a backfill of two units and
  `MaxOutage = 3`: the daemon may be silent for longer than a period and longer than the
  backfill. `MaxOutage` also bounds liveness: the daemon answers again.
* `config_files`: three names, two of which give one id and one that looks like a numbered
  one, and three panels at a time are enough for every chain of two suffixes. A fourth panel
  comes after a deletion.

Fairness: `collector`, `alerts` and `metrics` (the part of the runs) state it; all
other runs check safety only. `alerts` assumes weak fairness of the clock and of the
steps of the loop; the sender is not assumed to work, `AlarmRepeats` asks for it in its
premise, as it asks that the process stays up. `metrics` assumes weak fairness of the
clock and of the collection, which includes that the daemon, within `MaxOutage`, answers.
`collector` assumes weak fairness of the clock, of the start of the
process (the container has `restart: unless-stopped`) and of every step of the
goroutine whose request is answered; faults are not fair and their number is
bounded.
The run `config_files` does not check deadlock: an id is never issued twice, so with all
ids of the instance used and deleted there is nothing left to do. Neither do the violated runs with
two requests, which serve a few handlers only.

## 4. Proofs

`KeySourceRegistry_proofs` proves for any sets of ids, identities, links and
workers (assumptions: the identities of panels are identities, `None` is neither
a link nor a test result):

* `RegistryInvariant`: `Spec => []RegistryInv`,
* `TypeCorrect`, `DedupHolds`, `CachedLinksAreOwn`: the invariants of the run,
* `IdsAreStable`: the action property `IdNeverRebound`.

`UniqueTargets` is not inductive by itself: a handler writes back a record it
read earlier, and only if that record still carries the identity its id was
issued for is the write harmless. `RegistryInv` therefore says of every record,
in the file **and in the memory of every handler**, that its identity is the
one `identity` records for the id, and that a cached link belongs to it
(`RecordsMatchIssue`). The proof has one lemma per operation
(`CreatePreserves`, `StartPreserves`, `SaveFetchedPreserves`, ...); the shared
part, writing one record back, is `UpdatePreserves`. Uniqueness then follows
because every write leaves identities of existing ids alone and only `Create`,
which checks for duplicates under the same lock, adds one.

`Collector_proofs` proves for any set of metrics, length of the windows and number
of minutes and faults:

* `CollectorTypes`, `NothingIsSkipped`: the invariants of the run `collector` (of the types, what matters is that
  a row aggregates points of its own window only), from
* `CollectorInvariant`: `Spec => []CollectorInv`.

`NothingSkipped` speaks of the place where the next cycle *would* begin and breaks
while rows are being inserted unless one knows what the batch holds.
`CollectorInv` therefore says four more things: nothing is known of minutes that
have not ended (`PastOnly`); everything up to `lastTS` is stored
(`MemoryCovers`); everything up to the beginning of any stored window is stored
(`RowsCover`, what a restart relies on); and during the inserts the batch has
no gap after `lastTS` and whatever is not in a window that is left is
stored (`BatchCovers`). `InsertKeeps` is where the order of the windows matters.

`SmallStores_proofs` proves of `Tokens`, for any sets of hashes and requests (assumption
`TokensAssumption`: the mark of a file that cannot be parsed is neither a hash nor a set
of hashes):

* `RevokedAndIssued`: `AcceptedTokensAreListed` of the run `config_files`, from
* `TokensInvariant`: `TokensSpec => []TokensInv`.

`AcceptedTokensAreListed` says nothing of a token whose request is between its two steps,
so it does not survive the second step by itself. `TokensInv` adds what such a request
knows of the file (`RequestsMatchFile`): the token it is about to remember is still listed,
or was deleted meanwhile (`crossed`); the one it is about to forget is not listed, and
never returns, because every hash is made once. `EndPreserves` is the part the two
second steps share.

`Subscriptions_proofs` proves, for any names, KeySources, links, handlers and number of
keys, two properties of the two stores and the flag:

* `StatusFollowsFile`: `StatusMatchesFile`, from `StatusInvariant`: `Spec => []StatusInv`.
  Hypotheses: `Apart`, requests at the same time are about different names and the handlers
  that touch every subscription come alone; and no restart. Both are needed: two edits of one
  name may leave the file of one with the metadata of the other (section 5), and a request cut off between the
  file and the metadata leaves them apart until the next regenerate.
* `BannerTellsTheTruth`: `FlagCoversChange`, from `FlagInvariant`: `Spec => []FlagInv`.
  Hypothesis: `OneAtATime`. Restarts between any two calls, failing scripts and failing
  renames are included. A second request may write between the script's copy and `Clear`
  (run `subs_sync`), so the hypothesis cannot be dropped.

`StatusMatchesFile` speaks of names about which no request runs. `StatusInv` says what makes
it true when a request ends: of the calls a request still has to make, at most one touches
the file of a name and at most one its record, the record comes later, and the status it
stores is "active" exactly if the file will be there (`Settles`); a request that has not
yet fixed its calls finds the two in agreement. One lemma per handler shows that
the calls it computes settle its names; `TailSettles` and `CallSettles` that executing the first call
keeps the rest settled; `OthersSettle` that requests about other names are not disturbed.
RegenerateAll and the cascade concatenate the calls of many names (`FlattenSeq`), which
needs facts about that operator proved by a least counterexample (`FlattenStays`,
`FlattenOne`, `ConcatFacts`). `FlagInv` says that every call on a file is followed by `Mark` in its
own request, and what is known between the script and `Clear`.

`SubscriptionKeys_proofs` proves, for the same constants:

* `SubscriptionTypes`: `TypeOK`, for any requests at a time, crossing and cut off, from
  `TypesInvariant`: `Spec => []TypeInv`, which types every list of keys, calls and records
  that a request holds in memory. Two facts in it are not about types alone: a new key always finds
  an id (`AddRefs` chooses one), because fewer than `MaxKeys` are in use; and no file is without a
  line, because an empty list of keys removes the file.
* `RegenerationRepairs`: the action property `RegenerateRepairs`, from `RegenerateInvariant`.
  Hypothesis: `OneAtATime`. It is about states that an interrupted request left, so nothing is
  assumed of the stores: `RegenerateInv` says that the keys in memory have the links of their own
  sources and that, once the file is written, it holds exactly these (`Repairs`).

`SubscriptionContent_proofs` proves, with the hypotheses of `StatusFollowsFile` (`Apart`, no restart):

* `LinksFollowRefs`: `LinksMatchRefs`, and `RefsStayLive`: `NoDanglingRefs`, from
* `ContentInvariant`: `Spec => []ContentInv`.

`ClientLists` is any set of lists of keys here, so a client may store what it likes; what is proved is that nothing
of it spreads: a name the client has filled is in `own` until a regenerate has given every key a link, and every
other name keeps both properties through every handler, RegenerateAll and the cascade included. The hypothesis
`Apart` excludes the race of the run `subs_dangling`.

Both properties are about the listing, which pairs two stores by position, and both are false while a
request is between its calls. `ContentInv` states them of what the stores **will be** when the
calls that are pending have run (`LinesAfter`, `KeysAfter`, `LiveAfter`): key i has line i and its line is the link
of its own source; keys without line come last and were never generated (`Matches`); and the keys
that the listing will show refer to sources that will be there (`Fits`). Two things
are needed beside it: a listing of stores that fit is in order (`InOrder`, what
RegenerateAll carries across its wait for the panels, with the sources it read before, all of them still live), and removing keys or resolving them again keeps
that order (`WithoutFits`, `RefreshedInOrder`). `Yields(t, n, lines, keys)` says what a list of calls leaves of one
name; every handler has a lemma that its list yields something that fits, the lists
of RegenerateAll and of the cascade are put together name by name (`ListYields`), and
`TailYields` shows that making the first call leaves what the rest yields as it was. The run
`subs_ungenerated` (section 5) shows why `Matches` cannot ask that every stored key be listed.

`PanelClients_proofs` proves for any clients, inbounds, ports, administrators and number of
moves (`PanelAssumption`: there is a port for every inbound):

* `PanelClientsTypes`, `NeededFlowIsThere`, `KeysLeadToTheirInbound`, the invariants of the run
  `clients`, and `AttachingKeepsExpiry`, its action property, from
* `PanelClientsInvariant`: `Spec => []PanelClientsInv`.

`PanelClientsInv` adds what a request carries in each phase (`JobFits`). For the keys that is:
a port noted in an earlier answer still tells the inbound from all others as long as at most
one inbound has moved since (`TellsInbound`), in the panel and in the listing taken later.

`Alerts_proofs` proves for any cooldown, limit, length of a cycle and number of
faults:

* `AlertsTypes`, `NewPanelsAreQuiet`, and the action properties `MessagesKeepDistance` and
  `TesterAlarmsAreHonest`, from
* `AlertsInvariant`: `Spec => []AlertsInv`.

A row stored tells little of messages sent, because it is stored after them and the
process may stop in between. `AlertsInv` therefore relates three things: the times in the row, or in the
row about to be stored, are no older than the messages they stand for unless storing
failed (`RowCovers`); a heartbeat is at most `Lateness` older than the contact it stands for
(`HeartbeatFollows`); the tick in the channel is not older than the cycle that runs (`LoopInv`).

`SmallStores_proofs` proves of `RunsCursor` and `TrafficCounters` for any periods, backfill, outages and faults:

* `RunsTypes`, `NoRunIsPassed`, `NoRunIsDoubled`, from `RunsInvariant`: `RunsSpec => []RunsInv`. What
  is missing from the invariants of the run is what the answer of the daemon holds while it
  is stored: every run older than the beginning of the collection is stored, in the rest of
  the answer, or excused (`FetchCovers`).
* `TrafficTypes`: `TrafficTypeOK`, from `TrafficInvariant` (`TrafficSpec` is the traffic part alone): no
  difference that is stored is negative.
* `SlotsAreInOrder`: rows, the cycle and the tick that waits follow each other in time (`SlotsInOrder`), which
  the next two need: a cycle dates its rows by its tick, and a late cycle must not date one before a row that is there.
* `InboundTraffic` and `ClientTraffic`: `InboundTrafficIsReal` and `ClientTrafficIsReal`, for any number
  of inbounds and intervals, every range and every bucket length. The invariant behind them is
  `TrafficDated` (`DatedInvariant`): the counters start again, so a reading says nothing by itself;
  but every reading that is kept, in a row, in the baselines or in the cycle, has a **place** in the
  traffic there was. Between two readings the counter grew by no more than lies between their places,
  and by exactly that if no counter started again (`Follows`); the rows' places are in the order of
  their intervals, and the one the cycle is about to store comes last. A client's rows add up to no
  more than the place of its baseline, or of the cycle's reading once the cycle has stored its row,
  unless the client is `torn`. A row written twice is replaced, so the sum only loses by it.
  The readers' side: what is shown up to a row is no more than what lies between the places of the
  first row and of that one (`ShownUpToIsDated`, by the least row for which it fails), and grouping
  by buckets keeps a sum (`BucketsKeepTheSum`). The sums of the model are `MapThenSumSet`, which takes the
  elements in an order `CHOOSE` decides; the lemmas from `PartsOf` to `SumOfGroups` prove, from
  the definition, that it has a value for every finite set (`AddsExists`), that any element may be
  taken first (`SumTakes`), and that sums are monotonic. Assumption: `AbsentIsNoCycle`, the mark of
  what is missing is not a record.

`SmallStores_proofs` proves of `Panels`, for any names and bases of ids:

* `PanelIdsUnique`, `SourcesReach` and the action property `UnreadableFileStays`, from
* `PanelsInvariant`: `PanelsSpec => []PanelsInv`, which adds that the numbers of panels differ and
  that ids and numbers in use have been given before.

Model-checked only:

* liveness (`EveryMinuteGetsARow`, `AlarmRepeats`, `AlarmEnds`, `RunsArrive`), which with fairness
  and ENABLED is out of the prover's reach;
* `ImplementsBook`: the abstract specification selects keys with `SelectSeq`, which the prover
  cannot see into, and the mapping runs the pending calls with a recursive function; the theorems
  about `Subscriptions` prove the hardest parts of it directly.

## 5. Where the code departs from what it says

Each has a run that finds it; `PROJECT.json` quotes the sentence.

1. `subs_ungenerated`: a subscription has a file from before and no metadata. Add a reference,
   then remove the key of the file: the file gets an empty line, and the reference is not listed although
   it is stored. Any later request that stores the listing loses it for good. (`storage.go:707`)
2. `subs_sync`: a request changes a file and raises the flag between the script's copy and `Clear`, which
   lowers it over the change. (`service_sync.go:41`)
3. `subs_returns`: a regenerate that waits for its panels writes a subscription back that was deleted
   meanwhile; RegenerateAll, Update and the cascade work from their listing in the same way.
   (`service_subscription.go:303`, `service_subscription_test.go:117`)
4. `subs_dangling`: an edit has checked a KeySource; the KeySource is deleted with its cascade; the edit
   stores the reference, which now refers to nothing. (`README.md:231`)
5. `collector_poorer`: a window that two cycles share is written twice. The
   second row replaces the first and aggregates the later points only; since the
   ticker is not aligned with the windows, this is the normal case. (`collector.go:386`)

Seen while modelling, without a run of its own:

* GetKey reads a KeySource, asks the panel and writes the whole record back: a Test that
  finished in between loses the result that `service_keysource.go:261` says it stores.
* Two edits of one name, or two Creates that both found it free, interleave their calls: the file of one stays
  with the metadata of the other and keys show links of other sources. No text says what two
  such requests promise.
* A client's list is stored unchecked. One request at a time is enough for a reference beside the link
  of another source, or to a source that is gone: read a subscription, delete its KeySource, send the keys back.
* A client's list with a blank link before another cannot be kept in the file: the next request that
  stores the listing (adding a reference, a rename) shifts the pairing or loses a key. The assumption
  `BlanksLast` keeps such lists out of the refinement; the run `subs_crash` has one, and a regenerate repairs it.
* `alerts.go:25` says that a panel that is down is reported once, on the transition, and that the dedup covers
  it; `CheckPanelDown` repeats the alarm after every cooldown (`alerts.go:223`, `273`). `AlarmRepeats` leaves
  that kind out.
* A message that was delivered but not answered is sent again in the next cycle.
* `Delete` of a draft raises the flag although no file changes, against `syncstate.go:6`.
* An expired client's key is generated although `spec/keysource-redesign.md:65` says it is
  not included: nothing on the generation path looks at the expiry.
* A cycle of traffic that fails after a client's row was stored counts that difference
  again in the next cycle, against `collector.go:74`; `ClientTrafficIsReal` excepts those
  clients (`torn`).
* A tester that answered may be reported after a cycle of more than two intervals: the tick
  that waited in the channel makes the heartbeat of the next cycle old, against
  `collector.go:173`, which calls the alert honest because of that heartbeat. The limit of
  `telemetryMu.TryLock` can never be met, since the loop calls `collectTelemetry` itself.
* The attachment of a client through the fallback listing loses its expiry (no field to take
  it from), against `panelapi.go:653`; `UpdateClient` and `SetClientFlow` also enable a client
  the panel has disabled.
* A deleted panel's id is given to the next panel of that name (`reused`), whose clients
  the old KeySources then refer to.
* A token deleted while its own Create is between its two steps stays in memory until the
  next start (`crossed`).

## 6. Abstractions, and what is not modelled

* Errors of the file system that are reported (a full disk). Writes that are cut off by a
  stop are modelled for `panels.json` and `tokens.json`; the other files are written by the
  same code, and in their models a storage call happens as a whole or not at all.
* Reads of several stores that no network wait separates are one step: they only
  decide an early return. The decision and the writes are different steps.
* Line breaks and blanks within a client's link.
* A panel is a nondeterministic answer: the client's link or an error. That a panel
  may hand out different links over time is modelled in `KeySourceRegistry` only.
* Timestamps, labels, reports, the order of keys in JSON, and the display fields of
  KeySources.
* The sync script: an atomic copy at one moment, or a failure.
* The panel of `PanelClients` is external: a different version of 3X-UI may behave
  differently. `ListClientsAndInbounds` enriches the display of KeySources, changes
  nothing and is left out, as is the telemetry of `panelapi_telemetry.go` beyond the two
  requests in `Collector`.
* The test daemon files a run under one time and shows it from then on. If it filed a run
  under its start but showed it after its end, the cursor could pass it; the daemon is not
  part of the repository. The limit of 1000 runs per answer, times rounded to seconds and
  runs that begin in the same second are left out.
* The removal of rows older than three months, migrations and SQL text.
* `aggregateSnapshots` (a weighted mean per column), the matching of test results with keys
  by remark, and the mirror of `panels.json` in the database.
* The frontend: view state of one browser tab, rendering and texts. HTTP routing, DTO
  decoding and deployment have no behaviour beyond single calls.

## 7. Plan

Done: all modules of section 2, model-checked, with proofs about `KeySourceRegistry`,
`Subscriptions`, `Collector`, `PanelClients`, `Alerts`, `RunsCursor`, `TrafficCounters`, `Panels` and
`Tokens`: every safety property that the passing runs check is a theorem, but for the refinement; those about
subscriptions under the hypotheses section 4 names.

Left, in this order: the proofs below; then `PanelView`, the frontend hook with answers
out of order; then `MetricsAggregation`, the buckets of snapshots against a reference definition.

Theorems worth proving next: steps of the refinement.
