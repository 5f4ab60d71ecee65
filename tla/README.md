# SmokeGuard: TLA+ models and proofs

SmokeGuard recognises smoking from Wi-Fi channel state information (CSI). An
ESP32 sends frames, a second one measures the channel for each of them and
publishes what it measured over MQTT, a Python backend receives, stores and
forwards the measurements and raises alerts, and a browser shows them. This
directory models the parts of it where something can go wrong between two
actors, checks them with TLC and proves the safety results with TLAPS. All
paths below are relative to the repository; `app/` is
`smokeguard_application/app/`.

## 1. Inventory

| Component | State | Operations | Talks to |
| --- | --- | --- | --- |
| Receiver, capture queue (`csi_recv_mqtt/main/main.c`) | `s_csi_q`, the heap buffers, the counters | `csi_rx_cb`, `publisher_task` | Wi-Fi driver (callback), esp-mqtt (publish) |
| Receiver, broker link (same file) | `s_mqtt`, `s_broker_uri`, `s_uri_dirty`, `s_broker_conn`, the retained status at the broker | housekeeping of `publisher_task`, `refresh_broker_uri`, `mqtt_start`, `mqtt_event_handler`, `publish_online`, `publish_heartbeat`, `wifi_event_handler` | resolver, esp-mqtt, broker |
| Receiver, clock and time stamps | wall clock, `s_ntp_synced`, the driver's 32-bit counter; in the reader `_unix_start_time`, `_offset_time`, `_prev_local_ts`, `_ts_overflow` | SNTP callback, stamping in `csi_rx_cb`, `_compute_timestamp` | every frame, the rolling buffer |
| MQTT reader (`app/mqtt_reader.py`) | `MqttStatus`, `_stopping`, the two queues | paho callbacks, checks of the rows, `_safe_enqueue`, replay thread, `start`, `stop` | broker, event loop (`call_soon_threadsafe`) |
| Pipeline and lifespan (`app/main.py`) | two queues, five tasks | `consume_queue`, `consume_smoke_queue`, `broadcast_status`, `cleanup_old_readings`, `on_shutdown` | InfluxDB, WebSocket fan-out, detection |
| InfluxDB client (`app/influxdb_client.py`), export scripts | client, write API's batch and retries, bucket | `connect`, `write_*`, `delete_older_than`, `query_*`, `flush`, `close`; `export_*_to_parquet.py` | InfluxDB |
| WebSocket fan-out (`app/websocket_manager.py`, `app/routes/ws.py`) | a queue and a sender task per connection | `connect`, `disconnect`, `broadcast`, `_sender`, `websocket_endpoint` | browsers |
| Detection (`app/detection.py`, `app/detection_store.py`, `app/routes/detection.py`) | rolling buffers, SQLite events and toggle | `add_csi`, `run_trigger_loop`, `trigger`, simulate, config, delete | SQLite, fan-out |
| Authentication (`app/auth*.py`, `app/routes/auth.py`) | user table, tokens | login, reset | browser session |
| REST queries (`app/routes/api.py`), models and parsers (`app/models.py`) | none of their own | read only; pure functions | InfluxDB |
| Browser (`smokeguard_application/frontend/src`) | socket and timers, bounded histories, toasts, session, toggle | reconnect with backoff, `pushFrame`, `pushAlert`, views | REST, WebSocket |
| Sender, serial receiver, MAC tool, `gen_config.py`, `mqtt_subscribe.py`, scripts, notebook, prototype | little or none | loops and one-shot programs | |

What is hard in each, and what makes it correct:

- **Capture queue.** Two tasks on two cores share a FreeRTOS queue and nothing
  protects the sequence *send, evict, send again*. Every buffer has one owner,
  every frame is counted once, frames leave in capture order, the newest frame
  always finds room.
- **Broker link.** Disconnects arrive on another task during a lookup that
  takes seconds; the broker moves; the device reboots; acknowledgements are
  lost. No disconnect is forgotten, the client always has the last address, a
  status "online" is never left without a will, heartbeats do not pile up in a
  client that is not connected, and the device comes back.
- **Clock.** Time stamps wrap, jump at the first synchronisation and restart
  with the device. Estimated times keep pace with the captures, and the rolling
  buffer holds the whole window it is asked for.
- **Reader.** Callbacks on paho's thread against `stop()` on the event loop's,
  and exceptions that would end the thread. Every row is counted once, the
  status tells the truth about the link, browsers see the receiver's state.
- **InfluxDB client.** Retries that may repeat what was stored, cleanups in
  between, a server and a process that fail. What was accepted is kept until it
  is old, what is old goes, a query that returns points has the latest of each
  series.
- **Pipeline.** Three threads and a shutdown at any moment. Frames stay in
  order, drop-oldest; the shutdown ends and closes nothing still in use.
- **Fan-out.** Endpoint and sender discover a closed connection independently.
  Registrations and senders agree; slow clients lose their oldest messages
  only; closed connections are forgotten.
- **Detection.** SQLite statements raise, one shared connection is never rolled
  back, the process dies between commit and broadcast. Alerts are durable, ids
  are never reused, the toggle in force is the acknowledged one.
- **Browser.** Timers against unmounts and late answers.

`PROJECT.json` lists every such hazard with its line.

## 2. Plan

| # | Modules | Status |
| --- | --- | --- |
| 1 | `DropOldest` (abstract), `CaptureQueue` | done, proved |
| 2 | `RollingWindow`, `Detection` | done, proved |
| 3 | `BrokerLink` | done, proved |
| 4 | `ConnectionManager` | done, proved |
| 5 | `Pipeline`, both queues and the shutdown | done, proved |
| 6 | `RecordTime`: device clock, SNTP, reboot, `_compute_timestamp`, composed with `RollingWindow` | done, proved |
| 7 | `Reader`: `MqttStatus`, paho callbacks, row checks, replay thread, status broadcast | done, proved |
| 8 | `Storage`: writes, retries, retention, queries, exports | done, proved |
| 9 | `Browser` (`useWebSocket`, stores, toasts), `Views` and `Session` (toggle, history, login) | later |
| 10 | pure functions: the parsers, `gen_config.py`, the header mapping of `mqtt_subscribe.py` | later |

"Proved" means: every invariant and every refinement that the passing runs of
the module check is a theorem. Liveness is model-checked only (section 5).
`RollingWindow` (the buffer of records no older than a span) is shared by
`Detection` and `RecordTime`, `DropOldest` by `CaptureQueue`,
`ConnectionManager` and `Pipeline`.

## 3. The modules

`DropOldest` is the promise that three implementations share: a bounded queue
whose content is always an interval `lo .. hi - 1` of the items' numbers and
which discards an item only for one that found it full, and then the oldest.
`CaptureQueue`, `ConnectionManager` (once per connection) and `Pipeline` each
instantiate it with a refinement mapping and check `ImplementsDropOldest`.

### CaptureQueue (`main.c`: `csi_rx_cb`, `publisher_task`)

A frame is named by its number, and so is its buffer. `wifiAt` and `pubAt` are
the program counters of the two tasks; each FreeRTOS call and each free is a
step of its own. `RxDropped` (malloc failed or the line overflowed),
`RxFormatted`, then `SendOk` or `SendFull`, `Evict` or `EvictEmpty` (the
publisher was faster), `Resend`. The branch in which the second send fails is
unreachable (one producer) and `NewestGetsRoom` says so. The publisher:
`Receive`, `PublishOk`, `PublishFailed`, `FreeMsg`, `Housekeep` (queue peak).
`seen` is a counter of the model in the place of `s_seen`; the counters do not
wrap (the bound is below 2^32).

### BrokerLink (`main.c`: lookup, client, events)

`pub` is where `publisher_task` stands between two receives. A lookup is three
steps (`BeginLookup`, `LookupOk` or `LookupFails`, `ApplyAnswer`), because the
world may change while the resolver waits and before its answer is used.
`mqtt_event_handler` runs on esp-mqtt's task, so what it does is apart from what
happened to the connection: `link` is "hello" between `Connect` and
`OnConnected` (`s_broker_conn = true`), "greet" until `PublishOnline`, "lost"
between `ConnectFails` or `LinkLost` and `OnDisconnected` (`s_broker_conn =
false`), "cleared" until `AskForLookup` (`s_uri_dirty = true`). In the meantime
`publisher_task` sees the old flags, and a heartbeat is two steps
(`HeartbeatDue` tests the flag, `Heartbeat` publishes). `host` is the configured
broker: a name, or an address, which `resolve_host` returns as it is, with Wi-Fi
or without. `owed` and `late` are history variables: a disconnect after which no
lookup has begun, and the heartbeats handed to esp-mqtt while it waits to
connect again. External and modelled from their use: esp-mqtt (its outbox is
resent in any order), the resolver, the broker (retained message, session,
will).
A failed `ESP_ERROR_CHECK` aborts: `Reboot`.

### Detection, RollingWindow (`app/detection.py`, `app/detection_store.py`)

`view` is what the shared SQLite connection reads, `disk` what a restart
finds. A commit that raises leaves the transaction open or rolled back; both
are possible outcomes; `GetEvent` opens an event through `view`. `trigger` is
one step per statement so that a crash or an exception may come between them;
no other handler runs in between, because nothing in it suspends. A record is
a time stamp and a subcarrier count; `SnapshotRaises` is the out-of-range
index of a frame narrower than the first.

### ConnectionManager (`app/websocket_manager.py`, `app/routes/ws.py`)

A step goes from one `await` to the next. Messages are numbered per connection.
`SenderFails` (a send raises), `SenderCancelled` and `ReceiveFails` all call
`Disconnect`. `ReceiveFails` may also come while the connection is open (a
message that is not text makes `receive_text` raise); the server closes the
connection then (`ServerCloses`). `Greet` and `GreetFails` are outside the endpoint's `try`: a
connection that closes there is forgotten only when a broadcast's send fails.
Left out: the branches of `broadcast` that catch exceptions nothing raises, and
the order of the welcome message relative to the first broadcasts.

### Pipeline (`app/mqtt_reader.py`, `app/main.py`)

paho's thread hands frames and smoke readings over in order (`Receive`); the
event loop runs `_safe_enqueue` and `_safe_smoke_enqueue` (`SafeEnqueue`) and
rounds of the two consumers (`Consume`, `TakeSentinel`); the write API's thread
writes batches (`WriteBatch`). Every action but the shutdown's is parameterised
by the queue's kind. The items of a queue are numbered in the order in which
they were put on it, and the sentinel is one of them: `PutSentinel` waits for
room in the queue of frames, `PutSmokeSentinel` in that of readings, and
meanwhile the first sentinel may be taken (the consumer returns by itself) or
be dropped as the oldest item. `on_shutdown` is one step per `await`, and its
synchronous tail one step per thing it closes. `batch` is a Boolean: there are
accepted records not yet written; what becomes of them is in `Storage`.
`DetectionDies` is the exception of the violated `LoopOutlivesTriggers`. The
status task is in `Reader`, the cleanup task in `Storage`.

### RecordTime, RollingWindow (`main.c`: clock and stamp; `_compute_timestamp`, `_process_row`; `app/detection.py`: `add_csi`)

The device has a true time (`now`), the driver's counter that wraps, and a wall
clock that counts from boot until SNTP sets it. `Capture` stamps a line as
`csi_rx_cb` does; lines are under way for at most `MaxDelay`, in order, and may
get lost. The backend takes a positive stamp (`ReceiveStamped`) or estimates
(`ReceiveBare`), the estimate being reset by `Reconnect`, and feeds the
rolling buffer. Recordings of `csi_recv` have no stamp (`stamping = FALSE`).
`base`, `last`, `steady`, `heard` and `calm` are history variables: they say
what the estimate can be expected to know, and which frames a window should
hold. The smoke window uses the same operators and decides nothing.

### Reader (`app/mqtt_reader.py`; `broadcast_status` in `app/main.py`, the greeting in `app/routes/ws.py`)

paho's callbacks are one action each. A message is described by which check it
fails (`Row`, `Smoke`), in the order in which `_on_message`, `_process_line` and
`_process_row` look; `Outcome` says whether it is queued, dropped, passed over,
or raises. `_on_message` catches what is raised, `_run_replay` does not
(`ReplayRow`): a replay that meets such a row ends with `connected` still true.
A missing recording shows as "reconnecting" for good. `stop()` is three steps,
between which callbacks run. The browsers' status is put together from
`snapshot()` and `transport_state()`, each under the lock, and so two steps.
External: the broker, its retained status and the subscriptions, which go with
the connection. `BrokerLink` is the other end of the status topic.

### Storage (`app/influxdb_client.py`, `app/routes/api.py`, `app/main.py`, `scripts/export_*_to_parquet.py`)

A point is known by its measurement, its tags and its time; a second one with
these adds its fields (`Store`). The write API tries a point again
(`SendFails`, which covers the lost answer of a write that was stored) and gives
it up after the last try. `_ensure_bucket` may fail and is swallowed: writes are
then refused for good. `connect()` is tried once, and a client that failed says
"not connected" until the backend is restarted. Time is counted in days; the
bucket's own retention (30 days; the log line says 24 h) is `Expire`. A point of
a device whose clock was never set (first of January 1970) is accepted by the
write API and refused by the retention.

The queries are operators over the stored points. Flux sorts and limits every
table, that is every set of tags, by itself, so a request for `n` readings may
return `n` of each series, one series after another: "Return the N most recent
CSI readings" (`app/routes/api.py:107`, `app/influxdb_client.py:262`) is true of
each series by itself, and `QueriesFindTheLatest` says just that.
`_execute_history_query` swallows the failure of a query (InfluxDB fails after
the ping, times out, or refuses the Flux, as for a start without time zone):
`ExecuteHistoryQuery` is the set of its outcomes, and an empty answer with code
200 is always one of them, so the property speaks of answers with points. The
503 that the routes declare stands only for a ping that fails. A narrow frame in
a table with a wider one among the rows queried makes `int(None)` raise and the
answer a 500 (`AnswerRaises`). `query_latest` looks back 30 days (`Rows`),
`query_range` as far as it is asked to (`Between`). The exports merge the tables,
sort, cut and write row groups (`ExportsLatest`).

`owed` is a history variable: the accepted readings that nothing the code
documents has given up (last retry, no bucket, crash, age).

### Proof modules

Each `*_proofs` module holds the proofs about the module it is named after, with
the lemmas on sequences they need: what putting and taking do to a drop-oldest
queue (`Shaped`, in `ConnectionManager_proofs` and `Pipeline_proofs`), what
pruning keeps (`DropExpiredSuffix`, `AddSuffix`, in `RecordTime_proofs`;
`AddBounded`, in `Detection_proofs`), and what a limit leaves of a table and how
rows are listed in order and cut into groups (`Storage_proofs`). The `MC*` modules hold the constants for TLC.
Operators named `X_Something` with a comment "Faulty variant" are plausible
bugs of `X`; no specification uses them. They show that each property can fail.

## 4. The runs

| Run | Bounds | Distinct states | Shows |
| --- | --- | --- | --- |
| `capture_queue` | queue of 2, 6 frames | 20,372 | ownership, accounting, order, drop-oldest; every buffer comes back |
| `broker_link` | 2 addresses, host by name or address, 4 disruptions | 253,372 | no disconnect forgotten; at most one late heartbeat; reconnects and is shown online for good |
| `broker_header` (violated) | same | | a heartbeat overwrites the retained message with the header |
| `detection` | 2 times, 2 widths, 2 buffered, 3 firings, all failures and crashes | 1,928,226 | alerts, ids and toggle are durable and unambiguous |
| `detection_loop` (violated) | same, SQLite never fails | | mixed widths end the trigger loop |
| `connection_manager` | 2 connections, queue of 2, 4 broadcasts | 189,054 | senders and registrations agree, slow clients, closed clients |
| `pipeline` | queues of 2 and 1, 4 frames, 3 readings | 276,450 | order in both queues, sentinels, shutdown, nothing used after it was closed |
| `pipeline_dead` (violated) | same | | a dead task makes `on_shutdown` skip the clean-up |
| `reader` | 3 messages, 4 changes of the link or the status | 419,096 | counts, status during connects, stops and replays; browsers see the receiver |
| `record_time` | counter of 6 units, window 1, held 2, delay 1, 3 buffered, 7 units of time, 1 reboot | 6,942,369 | estimates over wraps and losses, complete windows |
| `record_time_unset` (violated) | same | | the uptime of an unset clock passes for a capture time |
| `storage` | 2 series, 3 readings, old after 1 day, bucket of 2, 1 retry, row groups of 2, days 3 to 6, 2 faults | 967,150 | what was accepted is kept, what is old goes, queries that return points and exports find the latest |

Why the bounds are enough. A queue of two tells the oldest from the newest item
and can be full, half full and empty; with more than twice as many items it
overflows repeatedly and wraps through every state. Two addresses and four
disruptions let the broker move away and back during one lookup, or a reboot
fall between two moves. Two time stamps on either side of the window and two
widths give expired, excess and mixed windows; three firings let an id be
deleted, lost in a failed commit and given out again. Two connections show that
one does not disturb the other. Queues of different sizes in `pipeline` let one be
full while the other has room, and both sentinels be taken, dropped and left.
Four changes in `reader` are a broker that goes twice, or once while the status
changes. Seven units in `record_time` hold two wraps, a reboot, a reconnect and
frames that are a half period apart or less. Three readings in `storage` put
the latest two in one series or in two, with equal or different widths; two
faults are a failed write and a crash, or a shutdown during an outage. The
safety results of every module are proved for every value.

Four runs do not check for deadlock, because their model really stops at its
bounds: `connection_manager` when all broadcasts are delivered, `record_time`
(and `record_time_unset`) at the end of time, `reader` when it was stopped,
`storage` when its days, readings and faults are used up and InfluxDB has
expired everything.

**Fairness.** `CaptureQueue`: both tasks are scheduled (weak fairness of each).
`BrokerLink`: weak fairness of the tasks, the handlers among them, of every
connection attempt's end, of deliveries, of the broker's keep-alive and of the
return of Wi-Fi; strong fairness of what is retried periodically and may be
interrupted (`TickNoClient`, `LookupOk`, `HeartbeatDue`, `Heartbeat`, `Connect`):
the resolver answers, the interval elapses, esp-mqtt accepts and a reachable
broker is reached some time. Both liveness properties ask of a broker that was
configured by an address that it be there in the end. Disruptions are bounded, so the liveness
properties speak of what follows the last one. `ConnectionManager`, `Pipeline`:
the event loop runs what is ready, and there is always something to broadcast
(the status every 5 s); an open connection need not fail, and the server closes
one whose endpoint has returned. In `Pipeline` the wait for room before a sentinel is
weakly fair only, and the queue may be refilled meanwhile: that it ends rests on
the bounded number of arrivals and on the consumers' being fair, as on a loop
that is fast enough. `Reader`: paho's thread runs its callbacks and retries the
connection, a broker that is down comes back, the status task keeps
broadcasting. `Storage`: the cleanup task runs every half hour (weak fairness of
`Cleanup`, which needs InfluxDB to answer); nothing is assumed of the server or
of the write API's retries. `Detection` and `RecordTime` need none; they state
no liveness.

### Findings

1. `broker_header`: from the first heartbeat on, the retained status has no
   `csv_header`, although the README promises it to late subscribers
   (`csi_recv_mqtt/README.md:242`, `:227`).
2. `detection_loop`: a window with frames of two widths makes `_snapshot_csi`
   raise `IndexError`, which ends `run_trigger_loop` for good
   (`app/detection.py:207`), while detection stays enabled.
3. `pipeline_dead`: `on_shutdown` catches only `CancelledError` when it awaits a
   task (`app/main.py:256`); a task that had died re-raises, and the reader, the
   stores and InfluxDB are not closed.
4. `record_time_unset`: `_process_row` estimates only for stamps that are not
   positive, because "The ESP32 sends 0.000000 until its first NTP sync"
   (`app/mqtt_reader.py:414`, `main.c:692`). `gettimeofday` counts from boot
   until SNTP sets the clock, so a device that is not yet synchronised sends its
   uptime, and the backend takes that for the capture time (1970).

## 5. The proofs

Every theorem holds for all values of the constants that satisfy the module's
named assumption (`CaptureAssumption`, `LinkAssumption`, `DetectionAssumption`,
`ManagerAssumption`, `PipelineAssumption`, `ReaderAssumption`,
`RecordTimeAssumption`, `StorageAssumption`). These say of what kind a constant
is, and that the days of `Storage` do not end before its first one.
`SlackAssumption` is more: what the rolling buffer holds beyond the window is at
least the longest delay of a line (`_WINDOW_SLACK` of 1.2, so 20 % of the
window); `WindowIsComplete` depends on it.

- **CaptureQueue**: all safety properties of the run and the refinement. The
  inductive invariant ties the two program counters to the ownership of
  buffers: the queue, the buffer the callback holds and the one the publisher
  holds are disjoint and together are the heap; the queue is an interval of
  numbers ending where the next frame goes; and while the callback is between
  eviction and second send, there is room.
- **Detection**: `AlertsAreDurable`, `IdsNameOneDetection`, `ToggleInForce`,
  `QuietAfterDisable`. The invariant says of both databases that their ids are
  at most their `lastId`, and the disk's `lastId` at most the view's; that an
  event the connection sees and the disk does not has an id beyond the disk's
  `lastId`, while clients know no id beyond it; and that between commit and
  broadcast the new event is on disk. So whatever a later commit takes along
  cannot give a known id to another detection. `TypeOK` has an invariant of its
  own, since it includes the buffer: adding and pruning keep it a bounded
  sequence of records (`AddBounded`).
- **BrokerLink**: all five invariants of the run. Their conjunction is
  inductive with three additions. An answer that is about to be applied is an
  address; without it a client could be started on no address. `s_broker_conn`
  is set only while there is a connection or its loss has not been handled yet
  (`FlagNeedsLink`). And after a late heartbeat no other is on its way and the
  flag is clear until the client is connected again (`LateIsTheLast`); that is
  why `AtMostOneLateHeartbeat` holds however long the client waits and however
  often its attempts fail.
- **ConnectionManager**: `TypeOK`, `SendersServeTheRegistered` (registrations
  and senders agree, and a sender that waits with an empty queue has sent the
  latest message), and the refinement for every connection. The invariant: a
  queue holds the last messages pushed on it, in order (`Shaped`), and a sender
  that left nothing on it took the latest of them and has sent what it took
  (`LatestSent`). That what was taken is the latest is read off the queue's
  shape at the moment it was taken.
- **Pipeline**: `TypeOK`, `NothingUsesWhatIsClosed`, and the refinement for
  both queues. The invariant has `Shaped` for each queue, whose last number is
  `Items`, with the sentinel among them, and for each stage of the shutdown what
  it has already cancelled or ended, and which sentinel was put (`Stages`); the
  property alone does not say why the tasks are over. `RoomIsMade` is the safety
  half of `ShutdownEnds`: while `on_shutdown` waits for room on a queue, that
  queue's consumer runs. It needs that items are numbered from 1, so that no
  consumer takes a record for a sentinel that was not put.
- **RecordTime**: `TypeOK`, `EstimatesKeepPace`, `WindowIsComplete`. The
  invariant (`Inv`) has five parts: types (`Typed`) and bounds (`Bounded`);
  `Aged`: the latest estimated frame, the lines under way and the device are in
  the order of capture, within one boot the counters differ by the time between
  captures, no line is older than `MaxDelay`, and a stamp of a set clock is the
  capture time; `Estimated`: while the estimate is steady, the unwrapped counter
  keeps pace from the base frame on and the estimate is late by at most
  `MaxDelay`; `Windowed`: while everything is calm, each record's timestamp is
  its capture time plus at most `MaxDelay`, and what was heard and is missing
  was evicted by count. A record that pruning drops is therefore outside the
  window, although timestamps of two connections are not ordered; this is
  where `SlackAssumption` is used.
- **Reader**: `TypeOK`, `RowsAccountedFor`, `StatusTellsTheLink`. The invariant
  adds which states belong to which mode (`Modes`): only a replay's thread can
  die, and a replay has no link. That a subscribed reader shows of the receiver
  what the broker retains, or will when the messages under way are handled, is
  a part of its own (`ReceiverTold`), kept by each status message, loss of the
  connection and subscription.
- **Storage**: `TypeOK`, `ReadingsKeptUntilOld`, `QueriesFindTheLatest`. The
  invariant (`Inv`) adds that what is owed is not old, that what is stored is
  finite, and that there is one point for a key (`OnePointPerKey`), however often
  it was sent. A deletion looks at the measurement and the time only, which the
  stored point shares with the reading it stands for, so it never takes a point
  that still stands for one that is owed, whichever write or retry stored it.
  That a table yields exactly n rows, or all, rests on `OnePointPerKey`: no two
  rows of a table are of one time, so the number of rows before a row is its
  place, and a limit leaves places 0 to n - 1 (`LimitLeavesN`); with two points
  of one time it could leave more. A row with fewer than n others before it in
  all tables has fewer before it in its own, so it is in the answer
  (`LatestOfEach`, `EarliestOfEach`). For exports, any finite set of rows can be
  listed in the order of time (`RowsCanBeListed`), so the merged tables are such
  a list (`MergedListsTheRows`), and the row groups, one after another, are that
  list again (`RowGroupsHoldTheRows`).

No proof uses an induction theorem. Where a fact is about sequences or sets of
every size, the proof takes the least number for which it fails (`LeastNumber`,
from the well-foundedness of the natural numbers) and refutes it.

Only model-checked: liveness (`BuffersComeBack`, `ReconnectsForGood`,
`ShownOnlineForGood`, `ClosedIsForgotten`, `LatestArrives`, `ShutdownEnds`,
`FramesReachConsumer`, `BrowsersSeeTheReceiver`, `OldReadingsArePurged`), since
liveness under fairness and `ENABLED` are outside the prover's reach; and the
four violated properties, for which a counterexample is the result.

## 6. Not modelled

See the components with status `not_modelled` in `PROJECT.json`. In short:

- the browser (sockets, timers, views) is planned (section 2); what it requests
  is in `Detection` and `Storage`, its socket's other end in `ConnectionManager`;
- authentication reads or writes one row in one step and shares no state;
- `/health` and `/status` display what `Reader` and `Storage` have;
- Wi-Fi, CSI and ESP-NOW set-up runs once before any task; the senders are a
  loop at a fixed rate; the serial receiver prints from one callback;
- `gen_config.py`, `mqtt_subscribe.py`, the set-up scripts, the notebook and the
  prototype parser are pure functions, one-shot programs or plots;
- drawing and signal processing are floating-point code.

Time, other than in `RecordTime` and `Storage`, is left out: a timeout is a step
that may be taken, and that a synchronous ping blocks the event loop
(`app/main.py:121`) is not visible. The `hazards` of `PROJECT.json` that no
property covers say why.
