# Verification of the ebishrimp sensing platform

TLA+ specifications of the programs in `src/`, the TLC configurations that check
them on small instances, and theorems about them checked by TLAPS.

The platform collects readings of home sensors: devices (a mock publisher in this
phase) publish over MQTT to a rumqttd broker; an *ingester* receives, batches and
inserts them into ClickHouse; materialized views aggregate them by minute and day;
a *dashboard* renders the result.

    mock-publisher --MQTT QoS 1--> rumqttd --sensors/#--> ingester --INSERT--> ClickHouse
                                                                                  |
                                              browser <--SSR, htmx polling-- dashboard

## 1. Inventory

| Component | State | Operations | What is hard | What makes it correct |
|---|---|---|---|---|
| ingester, receive path (`services/ingester/src/main.rs`) | MQTT event loop, back-off, message blocked in `tx.send` | `mqtt_loop`: ConnAck, Publish, other, error | acknowledged before stored; blocked send stops polling; death of the batcher is noticed late | every message that parses reaches the batcher once, or its loss is bounded |
| ingester, batcher (same file) | channel of 65536, three buffers, ticker, attempt counter, metrics | `batch_loop` recv and tick, `flush`, `insert_retry`, `try_insert` | interleaving with the receive path, ambiguous failures, retries, late commits, one table failing, crashes, time window | no row forgotten or counted twice; counted rows are stored; bounded duplicates; bounded delay; every row gets an outcome |
| ingester, parser (`parse.rs`) | none | `parse_message`, `get_i64` | integer widths, odd JSON values, routing by topic and key | routed by the contract, columns in range, errors counted |
| ingester, metrics endpoint (`metrics_server.rs`) | shared counters | `/metrics`, `/healthz` | health does not depend on the batcher | counters add up |
| mock publisher (`services/mock-publisher`) | per device: queue of 64, two tickers, last will | data tick, status tick, event-loop task | broker away: blocked ticks then bursts; last will against first status; a clean session forgets what was queued | a device that publishes is shown online |
| rumqttd (`apps/rumqttd`, third party) | sessions, bounded in-memory log, retained messages | connect, publish, acknowledge, restart | restart loses everything; log truncation; same client id twice | QoS 1 within the log's bound |
| ClickHouse schema (`apps/clickhouse/schema`) | `sensor_raw`, `sensor_1m`, `sensor_1d`, `as7341_raw`, `device_status`, their TTLs | create if missing, alter TTL, insert triggers | tables of an older file, views missing while rows already arrive, duplicate blocks in aggregates | every table has the TTL of the file; a stored block is in each aggregate |
| schema job (`apps/clickhouse/schema-job.yaml`) | statement reached, failed containers | wait, apply, alter the inner table, restart, re-creation | a container or the server dies between two statements; ingester running before it | a complete job has applied everything; it ends |
| dashboard queries (`db.rs`, `range.rs`) | none | overview, series, latest status | range boundaries, ties of `argMax` | the right table for each range, one series per device |
| dashboard pages (`web.rs`) | what an open page polls | page, fragment | metrics appear and disappear while a page is open | an open page converges to the data |
| dashboard charts (`echarts.rs`) | none | `chart_option` | the band is drawn by stacking two series | the band spans minimum and maximum |
| device liveness (`util.rs`, `db.rs`, `web.rs`) | last status per device | `is_online` | status period, delays, will | online iff recently heard and not declared off |
| deployment (`apps/*`, `clusters`, `scripts`) | manifests, secrets | Flux, k3s | rotation of credentials | no mixture of credentials |

The hazards found in this code, each at its line, are listed in `PROJECT.json`.

## 2. Modules

| Module | Models | Role |
|---|---|---|
| `Ingester` | `main.rs` 118-321 without time | two tasks, channel, batcher, ClickHouse, crashes |
| `RowFate` | | abstract specification: what the ingester promises about a row |
| `IngesterProofs` | | theorems of `Ingester`: types, accounting, refinement |
| `IngesterCopiesProofs` | | theorems of `Ingester`: what reaches the server, counters and buffer limit |
| `FlushWindow` | `main.rs` 222-309 with time | ticker, retry sleeps, ages of rows |
| `FlushWindowProofs` | | theorems of `FlushWindow` |
| `Parse` | `parse.rs`, `main.rs` 176-190 | routing and conversions of one message |
| `ParseProofs` | | theorems of `Parse` |
| `MqttLink` | `main.rs` 145-199, and what it relies on in rumqttc and rumqttd | a message from the broker's log to `tx.send`, over connections that break |
| `MqttLinkProofs` | | theorems of `MqttLink` |
| `Dashboard` | `db.rs`, `range.rs`, `echarts.rs` 26-85, `web.rs` 94-378 | the overview and chart pages of a browser while rows arrive |
| `DashboardProofs` | | theorems of `Dashboard` |
| `DeviceHealth` | mock publisher 96-168, `util.rs` 65-69, `db.rs` 121-134, `web.rs` 384-447 | a device's status from its ticker to the devices page |
| `DeviceHealthProofs` | | theorems of `DeviceHealth` |
| `Schema` | `01_schema.sql`, `schema-job.yaml`, `main.rs` 276-321 | the schema job, and a block inserted while it runs |
| `SchemaProofs` | | theorems of `Schema` |
| `MCFlushWindow`, `MCParse`, `MCMqttLink`, `MCDashboard` | | instances for TLC |

Operators whose comment says *mutant* are plausible bugs of the operator that
follows them. Nothing uses them; putting one in place of its operator makes the
property named in `PROJECT.json` fail, which shows that the property can.

### Ingester

One action is the code of a task from one `await` to the next.

| Variable | Code |
|---|---|
| `held` | the `Parsed` that `mqtt_loop` is blocked on in `tx.send` (main.rs:181) |
| `chan` | the mpsc channel (135) |
| `buf` | `Buffers` (203-220) |
| `stage`, `phase`, `attempt` | where `batch_loop` is: in its `select`, or in `flush` on a table, awaiting `try_insert` or the sleep of an attempt (269-299); `dead` after a panic |
| `batch` | the vectors `mem::take` moved out of the buffers and that have no outcome yet (265-267) |
| `metrics` | `Metrics` (65-74) without `mqtt_reconnects` |
| `open`, `parts` | insert requests on their way or in the server, and committed blocks |
| `up` | the process runs |
| `session`, `inserted`, `dropped`, `lost` | history: no guard reads the last three to decide what the code does; `PublishParsed` uses them only to draw rows that are new |
| `failures` | history: of each row, how many inserts of it returned an error. The code keeps no such count: `metrics` counts the errors of all slices together |

`PublishParsed` is main.rs:176-185 with its three outcomes (sent, blocked, channel
closed: `mqtt_loop` returns and the process ends). `Recv` and `Tick` are the two
arms of the `select`, each with `flush` up to its first `await`; `InsertOk`,
`InsertErr`, `SleepRetry` and `SleepDrop` are the rest of `flush` and
`insert_retry`. The `None` arm of `rx.recv` is not modelled because it cannot be
taken: the only sender lives in `mqtt_loop`, which returns only after the receiver
is gone. `BatcherPanic` stands for a panic of the clickhouse crate (main.rs:181-184
is written for the channel being closed, and nothing else closes it).

ClickHouse is external: it gets a request (`open`), and commits it as one block or
not at all, before, after or without the client getting its answer. `InsertOk`
needs the block to be committed; `InsertErr` may happen at any time. Requests
outlive the process that sent them.

Rows are identities, and each delivery of a message makes new ones (redelivery is
the subject of `MqttLink`). The sort in `flush` orders rows inside a block and is
left out. The ConnAck and error arms of `mqtt_loop` touch none of this state and
are in `MqttLink`. `ChanCap`, `MaxRows`, `InsertRetries` are the
code's constants; `MaxKeys` and `MaxBad` are bounds of the model.

### RowFate

Pending rows get one final outcome (inserted, dropped, lost); a row is reported
inserted only if it is stored. `Ingester` implements it with
`pending <- Pending` (the blocked message, the channel, the buffers and the batch)
and `stored` the rows of the committed blocks. Moving rows between those places is
a stuttering step: that is what the refinement shows, together with the finality of
outcomes.

### FlushWindow

The same control as `Ingester` with a clock. Rows are reduced to the number of
sensor rows buffered, the set of tables with rows, and marked rows whose place and
age are followed. `Elapse` lets one unit pass and waits for everything that is due,
as tokio does when it is not overloaded. `Delay` makes the next deadline one period
after the late tick; a size flush resets it when it ends, a tick flush does not.
A marked row that has an outcome is `done`, whichever it is: time does not tell them
apart. `MaxAnswer` is an assumption: the code sets no timeout on inserts.

### Parse

`HandlePublish` is one message through `parse_message`. Integer ranges are
constants, so that small ones put every boundary within reach; floats are counted
in halves so that `as i64` is seen to truncate. The model handles one message and
stops, hence `CHECK_DEADLOCK FALSE` in its configurations.

### MqttLink

| Variable | Code |
|---|---|
| `pc`, `held` | where `mqtt_loop` is (main.rs:167-199): polling, in the back-off sleep, blocked in `tx.send` with a message, or its process is off |
| `net`, `events`, `queue`, `pending` | the rumqttc event loop it polls: its connection, messages read but not yet returned, the request channel of `AsyncClient::new(opts, 100)`, requests saved across a connection |
| `toClient`, `toBroker` | the connection, one queue per direction |
| `alive`, `session`, `subscribed`, `due`, `cursor`, `conn`, `published` | rumqttd: its log as the set of messages not yet acknowledged, how far this connection has been served, who is connected |
| `gone`, `forgotten`, `unheard` | history of what was lost: pushed out of the log or held by an ingester process that died; still owed by a broker that ended; accepted while nothing was subscribed. No counter of the program shows any of it |
| `copies`, `drops`, `crashes` | history and the counters behind the bounds |

Three facts about rumqttc decide the outcome and are modelled: it acknowledges a
PUBLISH when it reads it, before `poll` returns it and so before `mqtt_loop` sees
it; what it has read stays in `events` when the connection breaks and is returned
afterwards; requests not yet sent are kept for a session that the broker still
knows. Of rumqttd: the log is in memory and drops its oldest entries
(rumqttd.toml), a restart forgets sessions, and a second connection with the same
client id ends the first. The last is what a rolling update does
(`apps/ingester/deployment.yaml` names no `strategy`, and the client id is fixed), so
`Client` may have two members.

rumqttc and rumqttd are outside `src/`; `PROJECT.json` marks their definitions as
external. The log drops one message where rumqttd drops a segment, a SUBACK never
refuses, and times (keep-alive, the length of the back-off) are left out: a
connection may drop at any moment, which covers the keep-alive that expires while
`tx.send` blocks the loop.

### Dashboard

The server keeps no state. `page` is what the browser has: the kind of page, the
`ChartSelection` in its form and in the address it polls (`sel`), the options of its
form (`metrics`, `devices`) and the fragment it shows (`body`). `rows` is
`sensor_raw`; the minute and day tables are derived from it by `StartOf`, as the
materialized views derive them from each inserted block. `LoadChart` is `chart_page`
with its three queries, each of which may fail on its own; `OpenChart`, `FollowCard`
and `Submit` are the ways to reach it. `PollChart` is `chart_fragment`, which only
replaces the body. The queries of one request read one state of the tables.

A point carries the minimum and maximum of its bucket. `Band` is the part of
`chart_option` with an algorithm: the two stacked series that shade the area between
them behind the line of a single device. `Stacked` is what ECharts makes of them; its
default stacking rule was read in the vendored `echarts.min.js`.

Left out: averages, colours and axes, wording; the ranges "6h" and "30d", which use
the tables of "24h" and "7d"; addresses typed by hand; the devices page, which is in
`DeviceHealth`. `Grouped` is one operator for `group_series` and for the sections of
`overview_grid`, which are the same algorithm: a loop over the rows, hence a recursive
function, with `Joined` for its body. `Ordered` is any order of the rows that the
ORDER BY of the query allows (`Before`).

### DeviceHealth

| Variable | Code |
|---|---|
| `proc`, `owed`, `left`, `queued` | `run_device` (mock publisher 96-159): it runs, `status_tick` has fired, time to its next tick, a status is in the request channel of `AsyncClient` (120) |
| `net`, `link`, `cut`, `broken` | the connection as the device and as the broker see it, and for how long they have disagreed |
| `wills`, `retained`, `sub`, `log` | rumqttd: last wills to be published, the retained status, the ingester's session and what is logged for it |
| `ing`, `buffer`, `seen` | the ingester is connected; its status rows; the newest rows of `device_status` |
| `lost`, `calm` | history: whether the last message was lost behind the broker, and time since the last fault |

One action is one event of the device's tasks, of the broker, of the ingester or of
the network, then time passes by `Elapse` once nothing can be done at once. The
ingester is the interface of the other modules: `Latency` stands for the bound that
`FlushWindow` gives, `LogCap` for the log of `MqttLink`, and every row gets the time
of its receipt (parse.rs:36). `Newest` and `Merged` are `argMax(online, ts)`: among
rows of the same second it may take any, so `seen.says` is a set and `Shown` is the
set of what a poll of the page may show.

Three external facts matter. A device's session is clean (rumqttc's default), so what
is queued when its connection ends is forgotten. A new connection with the same client
id ends the old one, whose will is published before or after what the new one sends:
no order is assumed. rumqttd may or may not send a retained message to a
new subscription; both are modelled, since phase1-verification.md:58 says that it
does so incompletely. rssi, uptime and the readings are left out.

### Schema

`File` is `01_schema.sql` in its order; `Script` adds the last statement of the job's
script, for the inner table of `sensor_1m`, which is left out when there is none
(`Inner`; this never happens after the file's second statement: `InnerFound`). A table stands for its TTL (of the present file,
of an older one, or no table). `step` is where the shell script is; `bash -e` makes the
first failing statement end the container, and the next one starts from the beginning
(`NextStep`), until `backoffLimit` of them have failed. `StatementCutOff` is the hard case: the connection
ends and the statement may have been executed. `Redeploy` is the header of
schema-job.yaml, with or without new TTLs in the files.

One block stands for all that the ingester inserts into `sensor_raw`: begun at any
moment, retried as `insert_retry` does, feeding the views that exist when an insert
begins. `copies` says how often each table has it. `planned` remembers whether its
first attempt came after a complete job.

## 3. Runs

| Run | Question | Bounds |
|---|---|---|
| `ingester_rows` | is a row forgotten, doubled in memory, or miscounted? what do retries and late commits do to the tables? does the ingester implement `RowFate`, and does every row get an outcome? | 2 sensor rows, 1 AS7341 row, 1 rejected message, channel of 1, size threshold 2, up to 2 keys a message, 2 attempts. Enough for: a full channel with a blocked sender while a flush runs, both ways to flush, a flush of two tables of which one fails, two flushes with errors in both, a slice of two rows. A message that overshoots the threshold needs a third sensor row, and the third attempt a larger run: both are left to the proofs. Crashes and panics are unbounded; no symmetry, since two properties are temporal. 1.0 million states |
| `window_bounds` | how long can a row wait? | window 4, answers up to 1, 2 attempts (sleeps 1 and 2), two tables, the marked row in the last one; ages saturate above the bound checked |
| `link_faults` | in which ways is an accepted message lost, and what does a delivery twice cost? | two processes with one client id, 3 messages through a log of 2 (one overrun), 3 ended connections, 1 ingester crash, a request channel of one slot, so that a single forgotten subscribe fills it. 5.8 million states |
| `link_live` | does a connection that lasts end up subscribed, does a logged message arrive, are first arrivals in order? | the same with one process. With two, order is not kept: the second may handle newer messages while the first still holds an older one |
| `parse_columns` | what of a payload reaches its columns: what saturates, what wraps, what is exact? | every subset of three keys, 20 values |
| `dashboard_pages` | does an open page show what is stored for its selection, and keep that selection? does the band span minimum and maximum? | 2 metrics, 2 devices, 2 values, 2 rows stored up to one unit late; a minute of 2, an hour of 3, a day of 4 and seven days of 5 units: the order of the real times, with every bucket cut by the start of a range at some moment |
| `device_health` | once the last fault is long enough ago, is what the devices page shows right, for a device that lives and for one that is gone? does the last message win? | status period 3, threshold 6, a broken connection noticed within 1, latency 1, a log of 3: the order of the real times (300 s, 900 s, 15 to 30 s, about a minute), with a log that a will and two statuses fill. Faults are unbounded: ages saturate at the threshold. 3.5 million states |
| `schema` | does a complete job mean that everything is applied, does a block inserted later reach every aggregate, does the job end? | the real script and 3 attempts, a backoffLimit of 3 so that it is reached, 3 faults, every set of older tables to begin with. 0.86 million states |

Runs that must fail, each showing a disagreement between the code and a text of the
repository:

| Run | The text | The code |
|---|---|---|
| `ingester_exact_count` | spec §9 (line 349): `sensor_raw` has as many rows as were published | a retry after an ambiguous error stores rows twice |
| `link_restart` | spec §9 (354) and §6.1 (153): what is missing after the rumqttd pod is deleted stays within what QoS 1 sends again | the log is in memory: what was acknowledged to its publisher and not yet delivered is gone with the pod, and nobody sends it again |
| `dashboard_stuck` | web.rs:374: the address the chart polls always carries a metric | a page loaded before there was one, or when the list query failed, polls without it and never recovers |
| `dashboard_band` | echarts.rs:30: a shaded band from minimum to maximum is added behind the line | ECharts stacks only values of the same sign, so below zero the band is drawn from 0 to max - min |

The ingester, the dashboard, the devices and the schema job (which may always be
re-created) never stop. `MqttLink` becomes quiet once every message
is published and handled and the bounds on faults are used up, so its
configurations set `CHECK_DEADLOCK FALSE`; so do those of `Parse`.

Spec §6.3 (240) says "60 s or 5,000 rows" without saying which rows; the header of
main.rs (line 4) and the code count rows of `sensor_raw` only, and the model does
as they do (`SensorBufferBounded`).

Fairness in `ingester_rows`: weak fairness of the tasks' steps, because
tokio runs a ready task, sleeps end and the ticker keeps firing; and of "some answer
to the current insert", which is an assumption about ClickHouse and the network.
Nothing is assumed of the server's commits, of new messages, or of restarts.

Fairness in `link_live`: weak fairness of what the tasks, the broker and Kubernetes
do when they can (the Deployments restart dead processes), and of `Unblock`, which
is the batcher's progress (it always leaves a flush: `insert_retry` gives up after
three attempts). `Connect` is strongly fair: each attempt may fail, but a client
that retries for ever is let in sooner or later. Nothing is assumed of new
messages or of faults.

Fairness in `schema`: weak fairness of the job's own steps, because the shell goes on
while the server answers and a container that failed is started again, and of
`ServerStart`, because Kubernetes restarts the server. `JobCompletes` also depends on
`MaxFaults`: a server that dies at every attempt keeps the job from its end, by failing
containers until `backoffLimit` or by never answering `SELECT 1`, for which the script
waits without a limit. Nothing is assumed of inserts or of `Redeploy`.

`DeviceHealth` needs no fairness: its properties are bounds on time, and `Elapse` waits
for whatever can be done at once.

## 4. Proofs

`IngesterProofs` proves, for every finite set of rows and all values of the
constants allowed by the assumptions in `Ingester`:

- `TypeCorrect`: `Spec => []TypeOK`.
- `AccountingHolds`: `Spec => []Accounting`. Accounting is not inductive alone:
  `flush` overwrites `batch`, so it must be empty in the select; a dead batcher must
  hold nothing, or its rows would be lost and pending; this is `Quiet`.
  `RequestsSeen` says the server only has rows that were parsed. Their conjunction
  `AccountingInv` is inductive together with `TypeOK`. There is one lemma per
  action, which also says what the action does to `Pending`.
- `RefinesRowFate`: `Spec => Fate!Spec`, from the same lemmas.

`IngesterCopiesProofs`, on top of it, follows the requests (`Sent`: open or committed):

- `CopiesBoundedHolds`: `Spec => []CopiesBounded`. `OneBatch` says that two requests
  that share a row are for the same slice, so the copies of a row differ in their
  attempt only and inject into `1 .. InsertRetries`. It is inductive with `InFlight`: a
  request for a row without an outcome is for the slice being inserted, so what a
  flush or the next table sends for the first time was never sent before.
  `AttemptsFailed` bounds the attempts of a request by the errors of its own rows
  (`failures`), and `ErrorsCounted` those by `insert_errors`.
- `DropsAfterRetriesHolds`: `Spec => []DropsAfterRetries`. `SliceFailures` says how often
  each row of a flush has failed: those of the slice in progress once per attempt made,
  those of the tables behind it never, since `flush` awaits one table after the other
  and each starts at its first attempt. `NotTried` says that rows no flush has taken
  have not failed, so a new flush begins that way (`FlushUntried`).
- `InsertedLandedHolds`: an acknowledged request is for the slice that is counted.
- `NoResubmissionHolds`: an action property; a step sends only rows of the batch it
  leaves behind, and by `Accounting` those have no outcome.

The same module adds up sizes of finite sets:

- `CountersAddUpHolds`: each step lemma of `IngesterProofs` says what `Pending` gains
  or loses; the counters gain or lose as much.
- `SensorBufferBoundedHolds`, for `MaxRows # 0`: a limit of 0 makes every message
  flush, and then a batch may be as large as `MaxRows + MaxKeys`.

`FlushWindowProofs` proves, for all periods, limits, retries and answer times:

- `BufferedWithinWindowHolds`: `Spec => []BufferedWithinWindow`. While a flush runs
  nothing is buffered (`NoneBufferedInFlush`), so time that passes without the interval
  ages no buffered row; a tick that finds nothing to flush has no buffered row
  (`BufferedInFilled`).
- `WindowTypeCorrect`: `Spec => []TypeOK`. The timer is bounded by the longest sleep
  only because the exponent of a sleep is below `InsertRetries` (`BatcherTyped`), and
  because powers of two grow (`TwoPowGrows`).
- `ResolvedInTimeHolds`: `Spec => []ResolvedInTime`. `FlushLeft` is the longest the flush
  in progress can still take; each step of a flush takes from it what it used
  (`TryShortens`, `AdvanceShortens`, `ElapseShortens`). A message at place *p* of the
  channel has before it that flush, and one table more for each table in the buffers
  and each message ahead (`Ahead`). `OnTime` says for each place of a row that its age
  and what is ahead of it stay within a budget that does not grow: time takes from one
  what it adds to the other, and a size flush moves tables from what is buffered to
  what is being flushed.

`ParseProofs` proves, for all integer widths and payload values:

- `ColumnsTyped`, `ChannelsSaturateHolds`, `OnlineOnlyIfSaidHolds`,
  `StatusExactInRangeHolds`: what `as` wraps lands in its type (`WrapBounds`), what
  is clamped is the nearest value there is (`ClampNearest`), and truncation gives 0
  only for what is less than one away from it (`FloatTruncates`). That a value which fits
  its column is stored exactly needs that wrapping leaves it alone (`WrapIdentity`) and
  that a float denotes one whole number, the one `as i64` gives (`FloatDenotes`).

`MqttLinkProofs` proves, for any number of processes, messages and faults:

- `LinkTypeCorrect`: `Spec => []TypeOK`.
- `LossHasCauseHolds`: `Spec => []LossHasCause`. The broker forgets a message when
  its acknowledgement arrives, so the invariant needs `AcksTaken`: every
  acknowledgement on its way is of a message that a process holds, has handled, or
  died with. It holds because `Read` puts the messages in `events` in the same step
  as it sends the acknowledgements, and what is taken stays taken (`TakenStays`).
  That the log drops a message of its own (`OldestMember`) rests on the
  well-foundedness of the naturals.
- `SubscribeNeverBlocksHolds`: `Spec => []SubscribeNeverBlocks`. Every way to lose the
  network empties the request channel (`NoneQueued`).
- `DeliveriesBoundedHolds`: `Spec => []DeliveriesBounded`. `CopiesCounted` counts more
  than the copies: for each message the copies delivered, the processes that have it in
  hand (`Holders`) and one if the present connection can still bring it (`CanCome`) are
  together at most `1 + drops`. Sending, reading and passing on move a message from one
  of these to the next; only the loss of a connection, which is counted, makes it
  possible again. That the queues increase (`LinkOrder`) is what makes each move a
  message of its own: on one connection nothing is sent twice, and nothing that a
  process has in hand is in its events.
- `FirstArrivalsInOrderHolds`: `Spec => FirstArrivalsInOrder`, for one process
  (`OneProcess`); with two the property is false, since what one of them still holds
  does not hold up the other. `InLine` says that a message that has been delivered has
  not overtaken one that is due or on its way.

`DeviceHealthProofs` proves, for all periods, thresholds, delays and log sizes:

- `HealthTypeCorrect`: `Spec => []TypeOK`.
- `GoneNotReplayedHolds`: `Spec => []GoneNotReplayed`, which is inductive with `TypeOK`.
- `DeadShownOfflineHolds`: `Spec => []DeadShownOffline`. A device that is gone may leave
  an "online" in the request channel, the log, the buffer or the tables. `NewsIsOld`
  says that each is at least as old as the last fault (`calm`), since nothing without
  a fault, start or connection can make one fresher, and that time does not pass while
  the log has one and the ingester is connected.
- `LastMessageShownHolds`: `Spec => []LastMessageShown`. `LastIsNewest` says where the
  last message is: at the end of the log, or, when the log is empty, among the rows
  that no other row in the buffer or the table is newer than.
- `AliveShownOnlineHolds`: `Spec => []AliveShownOnline`. An "off" that could still be
  shown is older than the calm (`OffIsOld`), so the newest stored row must be an "on"
  and young enough. `NewsSoon` says that the newest row on its way, or the begin of the
  calm, is followed by another within one status period; `StoredSoon` says the same of
  the newest stored row, which one on its way may follow. Together they bound its age
  by `StatusPeriod + Latency`, which `TimesAssumption` puts below the threshold.

`DashboardProofs` proves, for all finite sets of metrics and devices, all values, all
widths of buckets and any number of rows:

- `DashboardTypeCorrect`: `Spec => []TypeOK`, and `OneGroupPerKeyHolds`:
  `Spec => []OneGroupPerKey`. They hold together (`PageInv`), since what is grouped is
  typed. A sorted sequence of the rows exists (`SortedExists`), and grouping rows whose
  keys never decrease gives groups whose keys increase and that hold exactly the rows
  (`GroupedFacts`); the queries order by the key first (`GroupsOfSet`).
- `BandShowsSpreadHolds`, from `ChartBodyFacts`: what is stacked on the minimum ends at
  the maximum. It assumes `Values \subseteq Nat`; the run `dashboard_band` shows it
  false for values below zero.
- `ChartCompleteHolds`, `FormKeepsChoiceHolds`, `CardLeadsToDataHolds`: action
  properties. A row lies in its bucket (`PointFacts`), so the points of a range leave out
  only rows of the bucket in which the range begins; `Selection` keeps what was asked
  for, and the form offers it.

`SchemaProofs` proves, for all limits:

- `SchemaTypeCorrect`: `Spec => []TypeOK`.
- `CompleteMeansAppliedHolds`: `Spec => []CompleteMeansApplied`. `DoneSoFar` says that
  every statement before `step` has had its effect, which later statements, restarts
  and lost answers keep (the ninth because it finds the table of the second,
  `InnerFound`), and that `sensor_1d`, which no statement alters, is never of
  an older file.
- `AggregatedAfterJobHolds`: `Spec => []AggregatedAfterJob`. Tables never disappear, so
  after a complete job every insert feeds all three (`Attempts`); the copies in a table
  are at most the attempts, and fewer while one is being made.

Lemmas about the channel (`ChanAppend`, `ChanTail`) and the buffers (`AllRowsAdd`,
`AllRowsClear`) carry the reasoning about sequences and per-table sets.

The library's induction theorems cannot be instantiated by the provers. What the
recursive functions `TwoPow` and `Grouped` compute is proved instead from the smallest
argument that is wrong: the naturals are well-founded (`SmallestNat`), so functions that
satisfy the equations up to an argument exist and agree (`PowersExist`, `PowersUnique`,
`StepsExist`). `OldestMember`, `NewestMember` and `SortedExists` rest on the same fact.
`Ordered` is a CHOOSE among the sequences of a set because the sort of the community
modules is opaque to the provers.

Every safety invariant and action property that a run checks is proved. Only
model-checked: liveness (`RowsResolved`, `Resubscribed`, `Arrives`, `JobCompletes`),
which is out of reach of the prover, and the properties that a run shows to be false.

## 5. What no run shows

Texts of the repository that the models contradict, without a run of their own:

- Spec §6.3 (line 242): a crash loses at most one minute. The window ends when the
  flush starts; rows that are being inserted or retried, one table after the other,
  are older, and meanwhile new rows queue. `ResolvedInTime` is the exact bound.
- Spec §6.3 (244) and parse.rs:66: values that are not numbers are counted as errors.
  `ParseMessage` shows that only a message without any numeric value is.

Observed while reading, outside what the models cover:

- The chart fragment replaces its own element (`hx-swap="innerHTML"`), so the script in
  it finds no chart on the new element to dispose of, and the instances of earlier polls
  stay; build-log line 92 says that they are disposed of.
- The command in the header of schema-job.yaml reconciles the Kustomization but does
  not fetch the source, so the new job may run with the ConfigMap of the old revision
  (`Redeploy` without new TTLs).
- Deleting a job that still runs may leave its pod for a moment beside the new one; the
  model re-creates only a job that has ended.

## 6. Plan

Done so far: the ingester (untimed and timed), its parser, its MQTT link, the
overview, chart and devices pages, the mock publisher's status, the schema job.
Next, in order of importance:

1. `EndToEnd`: `MqttLink` and `Ingester` composed; abstract specification: a bounded
   lossy queue with duplicates; what of QoS 1 survives.
2. `Rollout`: rotation of credentials (rumqttd/deployment.yaml:17), which involves only
   Kubernetes controllers and the annotation of the three deployments.

What the dashboard's form does to a metric that has been silent for a day is stated
as an exception in `FormKeepsChoice`: the option is gone, so changing the range also
changes the metric.

Not modelled and not planned: the text of the metrics endpoint, text rendering, colours
and axes, CSS, configuration, monitoring rules, manifests and shell scripts without
state of their own, and the insides of rumqttd and ClickHouse beyond what the programs
rely on.
