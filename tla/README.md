# Verification of the smart-city telemetry backend

TLA+ modules, TLC runs and TLAPS proofs for the vehicle-tracking platform of
this repository: the TCP server that Teltonika trackers connect to and its
parser, the worker that stores their records, raises alerts, computes days and
predicts arrivals, the API with its WebSocket and its GTFS-Realtime feeds, the
web pages that show all this, and the importer of the routes. Paths are relative
to `src/`. `PROJECT.json` lists components, runs, mutants, hazards, findings and
theorems, and maps every definition to the lines it models.

## 1. The system

```
tracker --TCP--> tcp-server --Redis SET/PUBLISH--> api --WebSocket--> clients
                  (parser)                          |  |
                     |                    PostgreSQL+  +--GTFS-RT (Redis cache)
                     |                       |   +--Next.js endpoints--> web pages
                     +--BullMQ telemetry--> worker
                                             |  ^
                                  BullMQ alerts  +-- maintenance (every 5 min, nightly)
```

| Part | State it keeps | Operations | What is hard | What makes it correct |
|---|---|---|---|---|
| **Connection registry** `apps/tcp-server/src/connection-manager.ts` | Map key → Connection, Map IMEI → key, per connection: state, IMEI, buffer, last activity | create, setImei (takeover), append, consume, remove, cleanup | an entry is reached by reference *and* by key; removal happens after awaits | the two maps agree; an open socket finds its own connection; each device has one connection |
| **TCP handlers** `apps/tcp-server/src/server.ts` | sockets, calls suspended at an await, commands in flight to Redis | connection, data (IMEI phase, data phase), close, timeout, cleanup tick, stop | `handleData` is not serialised per socket; late close against takeover; bytes cut anywhere; partial failure of parallel commands | acknowledged means that each record was settled (queued, or rejected and logged); each packet is taken up once; everything received is answered; Redis ends with the status of the connections there are |
| **Teltonika parser** `packages/teltonika-parser` | none | IMEI, packet length, AVL packet, records, IO elements, CRC | the whole buffer is parsed, only its end bounds a read; chunks cut anywhere; two codecs; 8-byte integers | what is undamaged decodes exactly, whatever came before; a packet is begun at its first byte |
| **Telemetry jobs** `apps/worker/src/processors/telemetry.processor.ts` | rows of devices and telemetry, job state | find or create device, mark online, store, enqueue checks, route pipeline | ten jobs at once, retry of a half-done job, restarts | no record is lost; a race for the device row costs no record |
| **Alert jobs** `.../alert.processor.ts` | alert rows | overspeed, geofence, offline; each select-then-insert | five jobs at once, single attempt, late jobs | duplicates bounded; alerts are raised; status not falsified |
| **Offline check, retention** `.../cleanup.processor.ts` | devices' `isOnline`, `lastSeen` | every 5 min mark stale devices; nightly deletes | a value read once is used after many awaits | silent devices go offline, others do not |
| **Daily statistics** `.../analytics.processor.ts` | one row per device and day | nightly upsert | records inserted out of order and twice; a failure per device | times fit in the day, distance covers the way |
| **Route matching, ETA, adherence, speed learning** `apps/worker/src/services/*` | module caches, predictions, segment speeds, last stop times | reload cache, match, predict, check, learn | caches replaced around awaits, delete+insert, read-average-write | matches use recent routes; predictions are neither lost nor piled up and in order; a bus keeps its route; samples are counted once |
| **WebSocket fan-out** `apps/api/src/websocket/*` | sockets, the rooms of each client, the Redis subscription | connect, subscribe, leave, break, Redis message | several sockets of a user; messages between close and clean-up; outages | a socket hears its rooms, each message once and in order, and nothing else |
| **API services** `apps/api/src/services/*` | PostgreSQL rows | create, update, delete, acknowledge, log in | select, then write, without a transaction, beside the worker | each request takes effect at one moment or is refused for a reason |
| **GTFS-RT feeds** `apps/api/src/routes/gtfs-rt.ts` | three cached feeds in Redis | get, query, set with a time to live | two requests miss at once, the slower stores last | an answer is as recent as the time to live says |
| **OSM import, GTFS export** `packages/database/src/scripts` | routes, shapes, stops | upserts per relation, cleared and rebuilt with `--force` | no transaction; lookups by an incomplete key; failures between statements | a complete forced run repairs everything; an unforced one keeps stops, tags and associations (it rewrites shapes and lengths) |
| **Web applications** `apps/dashboard`, `apps/passenger` | what is selected, requests under way, what is shown | select, fetch, poll, abort, save | answers late, out of order or failed; closures of timers | what is shown at rest belongs to the selection; views that poll come right |

Interactions: the TCP server calls the registry synchronously and Redis/BullMQ
asynchronously; the worker's three queues share one process and one database;
telemetry jobs and the offline check feed the alert queue; the importer and the
jobs share the tables of routes, which the jobs see through a cache; the column `isOnline`
has four writers (telemetry job twice, offline check, `handleDeviceOffline`).

## 2. Modules

### ConnectionManager, TcpServer, DeviceSessions

`ConnectionManager` has one operator per method of the class. A `Connection`
object is named by its socket; `connections` and `imeiToSocketId` are the two
maps, keyed by "address:port" and by IMEI. Fields of the object (`imei`,
`delivered`/`consumed` for the buffer, `stale` for an old `lastActivity`) belong
to the socket, because a handler that captured the object still sees them after
the map entry is gone.

`TcpServer` composes it with the handlers. One action is the code of a handler
from one await to the next:

| Action | Code |
|---|---|
| `Accept`, `CloseEvent` (`HandleDisconnect`), `SocketTimeout`, `DataEvent` | `handleConnection` and its events |
| `HandleImeiPhase` | `handleImeiPhase`, synchronous in full |
| `HandleDataPhase`, `Take`, `ProcessRecord` | the loop up to the await in `processTelemetry`; bad preambles and unparsable packets are skipped within the step |
| `RecordSettled` (`LastRecord`, `LoopAgain`) | the continuation: next record, or acknowledge and loop |
| `SetReply`, `PublishReply` (`AfterPublish`) | the two awaits of `updateDeviceStatus`, then the end of `handleDisconnect` |
| `CleanupTick` (`SweepStale`) | the cleanup interval |
| `Stop`, `ProcessEnd` | `stop()`; exit, crash or unhandled rejection, followed by a restart |

`sets` and `pubs` are FIFO because each ioredis connection executes its commands
in order; the two are independent of each other. `inflight` holds the calls of
`processTelemetry` that wait. Two variables are history: `lost`, the records whose
`add()` rejected, and `unannounced`, the devices whose last connection was swept away
or went down with the process, which tells nobody; a device that logs in again is
taken out of it. Bytes are fragments: fragment 1 is the IMEI frame
(it arrives whole), packet p is fragments 2p and 2p+1. A packet has at least one
record. CRC does not matter to control: `crcValid` is only logged.

`DeviceSessions` is the abstract promise: a connection serves one device during
one period and never comes back. `ImplementsSessions` is the refinement, with
`getConnectionByImei` as the session.

### TelemetryJobs, AlertJobs, Worker

`TelemetryJobs` is `processTelemetryJob`: each action ends with the statement an
await waits for (`Find`, `Create`, `Touch`, `Store`, `StoreCan`, the two
`Enqueue…`, `MatchRoute`), `Throw` is a failed attempt under the queue's retry
policy, `ApiCreate` the competing `DeviceService.create`. `AlertJobs` is
`processAlertJob` with its three checks, run in `Slots` (one for each job the
worker runs at a time), and `checkOfflineDevices`, split at its awaits. `Worker`
composes them with time (`Tick`) and `Restart`, after which BullMQ puts the
interrupted jobs back. `silent` is a history variable: devices that were ever
silent for longer than the threshold. Ages are in ticks and saturate where the
code no longer tells them apart; a statement takes less than a tick. A telemetry
job that failed comes back in no particular order, so waiting telemetry jobs are
a set; the alert queue is a sequence. The route pipeline is a step that only
takes time: it writes other columns and its errors are caught. Publishing an
alert is caught as well and left out.

### RoutePipeline

The end of a telemetry job, `MatchRoute` in `TelemetryJobs`, in detail: `Start`,
`ReadRoutes`, `ReadShapes`, `ReadStops` are `loadRouteCache` split at its awaits
(the module variables are replaced one after the other, and every job runs it),
`FindCandidates` and `Match` are `matchGpsToRoute` before and after its await,
`ReadSpeeds`, `Delete`, `Insert` are `predictETAs`, `Rest` is what follows. The
content of the tables is a version number that `Import` increases; `past` is the
history of versions by age, `floor[r]` the version that was current one TTL before
the pipeline of r began. `predictions[d]` counts sets of rows, since a job inserts
and deletes whole sets. Rows of Redis, adherence and segment speeds are not read by
this part and only take time (`Rest`).

### OsmImport

The importer: one action for each write with the reads before it. Tables are
functions or sets of rows; the tag of a route stands for its columns, a geometry
is a model value that names the polyline (`resolveWayGeometry` is not modelled),
and `along` stands for the distances that are computed from it. `Datasets` are
answers of the Overpass API, a different one for each run if need be. `RouteFails`
is the `catch` around a route, `Abort` the one around `main`, `Killed` the end of
the process at any moment; nothing is rolled back, as nothing is in a transaction.

### IoElements, Crc16, AvlFormat, AvlParser

`AvlParser` is `parser.ts` on the bytes of a connection, driven by the loop of
`server.ts`. A stream is what a client sends; `connection.buffer` is its part from
`pos` to `arrived`, and every read of the code (`readUInt16BE(offset)`, …) is a read
at `pos + offset` that throws behind `arrived`. The actions are the parts of a
packet: `ParseHeader`, `ParseRecord` (time, priority, GPS element), `ReadCount`,
`ReadElement`, `NextGroup`, the group of variable length of codec 8E, `EndRecord`,
`ParseTrailer` (second count and CRC), and `Settle(Null)` for whatever throws.
`AvlFormat` is the other side, what a device sends, as a relation between bytes and
records that reads nothing in sequence: a layout names the position of every record,
group and element of variable length, and each part is encoded at its place.
`EncodingAssumption` says that the intact packets of a stream obey it.
`IoElements` is the table `IO_ELEMENTS` with `recordToTelemetry`: values are words
of 16 bits and numbers keep their multiplier and offset, so that nothing is
rounded. `Crc16` is the table-driven checksum; `MCAvlParser` checks it against a
bitwise division, since its streams carry the checksum that the division yields.
`TcpServer` uses the same framing abstracted to fragments.

### RouteMatcher, DailyStats, SpeedLearner, Statistics

`RouteMatcher` has the computations of `route-matcher.ts`, `progress-calculator.ts`
and `eta-predictor.ts` on a plane with shapes along the axes, where projections are
exact; distances are metres, and the score of a candidate is multiplied by 900 to
be a whole number. `DailyStats` is the telemetry job up to its inserts with the
distance from the latest row, and `computeDailyStats`; `SpeedLearner` the rest of
the job: `Match`, `Predict` with `checkAdherence`, `Learn`, `Select` and `Write`
of `recordSegmentSpeed`, `UpdateDevice`. Each action is the code from one await to
the next. `Statistics` composes both and lets statements fail. History variables:
`counted` (rows a day was computed from), `taken` (samples per segment) and
`contested` (segments at which two jobs were between select and write together).

### Tables, AtomicStore, Services, Feeds, Api

`Tables` describes what requests tell rows of a table apart by: the column looked
up (`key`), one further column (`mark`), a flag. `Services` has one request as one
or two statements with an await between: `Select`, then `Insert`, `Update` or
`Delete`, and the handler's answer. `Feeds` are the three GTFS-Realtime
endpoints: look in the cache, query, read the latest record of each vehicle, store
with a time to live, send. `Api` composes them with the worker's writes to the
same rows and with time. A behaviour has one table and its feed, as the services
share no rows.

`AtomicStore` is what clients are promised: a request takes effect in one step,
or is refused for a reason that holds in that step. `ImplementsStore` is the
refinement; its mapping drops what clients do not see and the code's answers
become verdicts.

### Views, Hub, Clients

`Views` takes the pages of the two web applications apart into views: what one
request fetches and shows, or several that are awaited together (`Promise.all`). A
page with independent requests has several: the dispatch center repeats the vehicles
and fetches the alerts once, the arrival board repeats the arrivals and fetches the
header of the stop once for each stop. Each view is an instance of one machine, with
five traits that are read off its source: what is selected at first, whether the user
selects, whether a timer repeats the request, whether a new selection aborts the one
before, whether an error empties it. An answer has the selection it was asked for and
the version of the database it was read at. `Hub` is the
WebSocket server: the map of clients and their rooms, the close and error events
and the Redis subscriber, whose message handler is attached only after
`psubscribe` has been answered. `Clients` puts them side by side; they share no
state, since no page of the repository opens the WebSocket.

The `MC…` modules hold the instances for TLC, the `…Proofs` modules the proofs.

## 3. Runs

| Run | Question | Instance | Result |
|---|---|---|---|
| `tcp_registry` | do the maps, the sessions and Redis' status stay right under takeover, idle sweeps, late closes, stop and restart? | 3 sockets, 3 keys, 2 IMEIs, no packets, 1 end of the process; 0.66 M states | all hold |
| `tcp_data` | are packets acknowledged and taken up correctly under overlapping handlers? | 2 sockets of 1 device, 4 packets of 2 records sent ahead, one garbled, one unparsable, one whose records the queue rejects; 4.2 M states | all hold |
| `tcp_live` | is everything answered, is every closed connection forgotten? | 2 sockets, 2 well-formed packets sent ahead; 0.42 M states | both hold under `FairSpec` |
| `tcp_reprocess` | `server.ts:258` "Process all complete packets in buffer": once each? | 2 sockets, 2 packets of 2 records | **violated**: after its entry is removed the handler consumes nothing and takes the same packet up again, for ever |
| `worker_jobs` | how many duplicates, and is the status right for devices that report? | 2 records, 2 geofences, 2 slots, statements and queue may fail, 1 restart; 3.4 M states | all hold |
| `worker_live` | is every record stored once, every silent device marked, all speeding reported? | 2 speeding records of an unknown device at concurrency 2, 2 attempts, the API competing | all hold under `FairSpec` |
| `route_pipeline` | how old may the routes be that a position is matched with, what becomes of the predictions? | 3 records of 2 devices at concurrency 2, TTL of 2 ticks, 2 imports, failures, 1 restart; 2.7 M states | all hold |
| `osm_import` | what is left after runs that fail, are killed, are forced or not? | 2 routes, 3 stops, 3 data sets, 3 runs; 0.31 M states | all hold |
| `avl` | is what is undamaged decoded exactly, whatever a damaged packet before it does? | a login, two of four packets of both codecs, seven kinds of damage to the first, noise behind, chunks that end at any of four places; 14 k states | both hold |
| `statistics` | what becomes of records, days, learned speeds and predictions under overlapping jobs? | 4 records of one bus on a town of 3 shapes, 2 jobs at a time, 2 attempts, 1 statement that fails, the daily job; 0.79 M states | all hold |
| `api` | do services without transactions behave as if requests were atomic, and how old is a feed? | any 2 requests to any of the tables, 2 readers of its feed, one row of the worker, 4 units of time; 2.1 M states | both hold |
| `clients` | what does a view show at rest, and what does a socket hear? | all 30 views, 3 selections, 3 requests under way, 1 failure; 2 sockets of one user, 3 messages, 1 outage; 2.7 M states | all hold, one of them under fairness |

Four further configurations are kept beside these and are run by hand: `tcp_ack`,
`worker_offline`, `worker_alerts` and `osm_shapes`. TLC refutes the property of each;
they show disagreements with documents that section 5 lists.

*What each property says* is written above it in the module. In short, for the
passing runs: `RegistryAgrees`, `OpenSocketsAreKnown`, `ConnectedReadsOnline`
and `OnlineReadsConnected` relate the two maps, the sockets and Redis (a device that
reads "online" without a connection is one whose *last* connection was swept away or
went down with the process; `unannounced` is withdrawn by its next login);
`AckedIsSettled` says what an acknowledgment means, with rejections in the run: each
record was queued, or its rejection was logged; that all are queued, as the plan has
it, is refuted (section 5). `RegisteredTakesUpOnce` and
`LatestGoesBackOnlyByOverlap` state how far the unserialised handlers can go wrong; `AlertBurstBounded` bounds duplicates by the concurrency,
`NeverSilentStaysOnline` bounds the damage of the stale offline marks,
`RaceCostsNoRecord` says the unique constraint plus a retry is enough;
`MatchUsesRecentRoutes` says that `cacheLoadedAt`, taken before the statements,
keeps its promise however reloads overlap; `PredictionSetsBounded` and
`PredictionsSurvive` bound what the missing transaction in `predictETAs` costs;
`ForcedImportIsExact` says that a forced run ends in exactly the fetched stops,
tags and associations from any tables that earlier runs may have left, unless an
insert of one of these failed silently; `OneWayShapeIsCurrent` that after any run without errors a
route whose ways are all of one direction has one shape, the one just fetched (for
two directions this is wrong, section 5; without ways a route keeps what it had);
`IntactDecoded` compares every undamaged packet with what its sender encoded,
written independently of the parser, and `Aligned` says that damage does not
spread; `SamplesCounted` says exactly when read-average-write loses a sample;
`ArrivalsInOrder` that predictions increase by the dwell time whatever was
learned; `SharedStreetKeepsRoute` that an assignment does not pull a bus off the
route it was last matched with; `DayRowsAreSound` bounds the sums of a day however
its records were inserted; `FeedsAreRecent` bounds the age of what a feed says by its
time to live plus a request; `QuietViewIsRight` says under which excuses alone a
view at rest may show something else than what is selected (its last request failed,
or a later one had ended before it), and `ViewsSettle` that a view whose request a
timer repeats comes right all the same, and that the search bar does unless its last
request failed. Views that fetch once have no such promise.

**Bounds.** Three sockets are what a takeover of a takeover needs, two IMEIs show
that a takeover touches no other device. Four packets allow a garbled, an unparsable
and a rejected one beside a good one, and a window of four the overlap of handlers
at any cut. `tcp_live` has well-formed packets only, cut anywhere: a damaged one is
skipped without an answer, so nothing would be promised about it. One restart suffices because a second one of the worker fails the
job (BullMQ's stall limit) and those of the TCP server are independent. In
`worker_jobs` one record lies in two geofences and, with the restart, its job may
run twice, so four alerts are possible where two are allowed; Attempts is 1 there
(every failure is final), retries are the subject of `worker_live`, with two
attempts where the code has three. `worker_live` has one alert slot, since the
concurrency of alert jobs is the subject of `worker_jobs`. In `route_pipeline` a TTL
of two ticks lets a reload begin, wait and end at three different ages of the
cache, and with two imports shapes, stops and database may be at three versions;
two of the records belong to one device, so that its jobs overlap each other.
Three runs of the importer are one that leaves something behind, one that makes it
worse and one that repairs it; the data sets differ in the order of stops, in a
route and a stop that are gone, in two stops that exchange their codes and in a
missing geometry; a route has its geometry outbound, inbound, in both directions or
in none. `OfflineAge` and the
windows are one tick: younger, or not. In `avl` the first packet may be read past
its end into an undamaged second one, which must then decode on its own, so two
packets and one damage are enough; every template has groups the others lack. In
`statistics` the four records pass two stops, stand, and leave every route, so that
a sample, a contested segment and an unmatched position occur; two stop times are
kept where the code keeps ten, so that the clean-up happens. In `api` two requests
are what a check-then-act needs, with the worker as a third, and time is longer than
every time to live of the instance (5, 15 and 60 seconds as 1, 2 and 3 units). In
`clients` three requests allow an answer that is overtaken by one that is itself
overtaken; two sockets of one user are what the map of clients could confuse.

**Symmetry** is used in safety runs only; in `route_pipeline` it exchanges the two
records of one device, the only values of the instance that are interchangeable, in
`api` the requests and the readers.

**Deadlock checking is off**: in every instance the sockets, records, requests or
runs of the bounded set may be used up, after which nothing is left to do.

**Fairness.** TCP server: the event loop emits `close`, TCP delivers bytes that
were sent one at a time at least, Redis answers. Peers, timers and failures owe
nothing. Worker: a job that may run takes its next step, the maintenance queue
repeats the offline check, time passes. Liveness runs have no failures and no
restarts; with them a job may use up its attempts, which is what the code does.
Web pages: an endpoint serves the request that has waited longest, an answer
arrives, the interval of a view that polls fires; users, the database and failures owe
nothing, and `setInterval` goes on after a failed request. Nothing is assumed fair
about sockets.

**Mutants.** Every property of a passing run has a mutant, next to the definition
it changes and marked as such; none is part of a specification.

## 4. Proofs

`TcpServerProofs` (for all sockets, keys, IMEIs, packets, windows):

- `TypeCorrect`: `Spec => []TypeOK`. Inductive invariant `TypeInv` = `TypeOK` ∧
  `BufferBounds` (what is consumed was delivered, what is delivered was sent) ∧
  `KeyAssigned` (an accepted socket has a key) ∧ `LiveOps` (what is in flight was
  issued for accepted sockets, an "offline" for a socket that is not open).
  Without the bounds a packet number could leave `Packets`; without `LiveOps` the
  continuation of a handler would look up an undefined key.
- `RegistryCorrect`, `OpenSocketsKnown`, `SessionsImplemented`: the two registry
  invariants and the refinement of `DeviceSessions`, under `~PortReuse`. The
  invariant `RegistryInv` adds to `TypeInv` that keys are not shared (`OwnKeys`),
  that a socket that was not accepted has no trace in the registry
  (`NewIsBlank`), and both properties at once: neither is inductive alone, since
  the removal after the await of `handleDisconnect` is only harmless if the key is
  still the own one *and* the IMEI map agrees.
- `ConnectedReads`, `OnlineReads` (under `~PortReuse`): `StatusInv` is about the two
  queues of Redis commands read as one (`Updates`). Until its close event a registered
  connection has the last word on its device (`LastWord`); after it, its "offline" is
  under way as long as it is registered (`ClosedAnnounced`), and no "online" of the
  device follows that (`NoneFollows`), so removing the connection when the PUBLISH is
  answered leaves nothing that reads "online" unserved (`OnlineServed`). The value in
  Redis alone is not inductive: it says nothing of the commands that are on the way.
  What is removed without an announcement, by the sweep or the restart, is what
  `unannounced` names.
- `AcknowledgedIsSettled`, whatever the queue rejects: `QueueInv` adds that a record
  under way follows on records of its packet that were settled.
- `TakenUpOnceRegistered`, also when ports come back: `TakeInv` adds that records under
  way belong to authenticated connections, that nothing is taken up before the login,
  and that a packet of a registered connection that was taken up lies before the start
  of its buffer (`OnceBelow`).
- `LatestGoesBack`: `LatestInv` is `TakeInv` ∧ the last call in flight of a device
  wrote its position, unless the queue rejected a record of it (`LastLatest` on
  `Unharmed`) ∧ that position is of a packet taken up on a connection of the device ∧
  packets taken up begin at the start of the buffer at the latest. The property has
  to name the rejection: a packet one of whose records is rejected may be done before
  an earlier one, whose next record then takes the position back with nothing else in
  flight.

`WorkerProofs` (for all devices, records, geofences, slots, concurrency, attempts,
limits and windows, with failures and restarts):

- `WorkerTypeCorrect`: `TypeInv` = `TypeOK` ∧ `AttemptsLeft` ∧ `MarksOffline`.
- `StatusCorrect`: `Spec => []NeverSilentStaysOnline`. `StatusInv` says that
  everything that may yet mark a device offline – found by the check, marked and
  about to be queued, queued, running in a slot – concerns a device that was
  silent; without it a stale mark could hit any device.
- `RaceHarmless`: under `~DbMayFail`, no restarts and at least two attempts,
  `RaceCostsNoRecord`. `RaceInv`: a job with a failed attempt finds the row, so
  it never comes to the insert again, and a record has a row exactly when its job
  is past the insert.
- `BurstBounded`: `Spec => []AlertBurstBounded`, with failures and restarts.
  `BurstInv` counts, for each device and type, the recent alerts *and* the slots
  whose job found none and is about to insert (`Inserting`): together they are at
  most the slots. A job claims its place only when nothing is recent, and gives it up
  with the insert, so the sum does not grow; the recent alerts alone are not inductive.
  Recent alerts are the cardinality of a set of (age, number) pairs, so what one tick
  and one insert do to the count follows from the theorems on finite sets.

`RoutePipelineProofs` (for all devices, records, concurrency, TTL, imports and
restarts, with failures):

- `PipelineTypeCorrect`: `Spec => []TypeOK`.
- `MatchRecent`: `Spec => MatchUsesRecentRoutes`. The invariant says that `past`
  never decreases with time, that what a job has loaded is at least as new as the
  version its `now` is from, and hence that the cached shapes and stops are at least
  as new as the age of the cache claims, whichever job wrote them last.
- `PredictionsBounded`: the sets a device has and the jobs about to insert one are
  together at most the concurrency; counting the sets alone is not inductive.
- `PredictionsKept`: `PredictionsSurvive`.

`AvlParserProofs` (for all streams, cuts and checksums):

- `InvariantHolds`, `TypesHold`, `AlignmentHolds`: `Inv` = `TypeOK` ∧ `InPacket` ∧
  `Aligned`. `InPacket` says that while records are read the packet of the announced
  length has arrived and the fixed part of the record lies in the buffer; without it
  the reads after the bounds check could leave the stream. It assumes that the
  packets of a stream lie end to end by their announced lengths
  (`StreamsAssumption`), and nothing about what is in them.
- `IntactIsDecoded`: `Spec => []IntactDecoded`, for any number of records, elements
  and packets. `DecodingInv` says of the local variables of `parseAvlPacket` in the
  midst of an intact packet that `extended` and `declared` are those of its header,
  the records and elements so far are the first ones of the packet and of the record,
  and the offset is where the layout has what comes next (`InRecord`): the count of a
  group, its next element with `left` of them to come, or an element of variable
  length. From it every bounds check succeeds, so the packet is not rejected, and at
  the end nothing is missing. Of a damaged packet nothing is said but that the parser
  leaves it where it should (`Aligned`): that is why an intact packet after it is
  decoded nevertheless. `TelemetryOf` is the lemma about `recordToTelemetry`: the
  last element of an id decides. The assumption is `EncodingAssumption`, which TLC evaluates
  on the packets that the independent encoder of `MCAvlParser` makes; the checksum
  stays a parameter, and that the table computes the CRC of the protocol is TLC's to
  check, as is the table `IO_ELEMENTS` against the expected values of the templates.

`StatisticsProofs` (for all records, shapes, jobs and failures). For what the model
computes by recursion and summation the module first proves its own induction: a set
of natural numbers has a least element (`LeastNatural`, from the library's
`NatLessThanWellFounded` and `WFMin`), hence a set of numbers that is closed under
successors holds all up to n (`InductionUpTo`), and a set of finite sets that holds one
whenever it holds its proper subsets holds all (`SubsetInduction`). The set on which
each induction runs is written out, so that no operator has to be instantiated. The
invariants are:

- `SamplesAreCounted`: `StatsInv` = `TracksTyped` ∧ `JobsInv` ∧ `SegmentsInv`.
  `SegmentInv(k)` says that no job between its select and its write of k has read a
  higher count than was taken, and that as long as k was never contested the only such
  job has read what is there. The count of the row alone is not inductive. What a job
  keeps of its match is typed by `ProjectionType`: that a distance is a whole number,
  `Root` by the least number whose square is greater, the nearest segment as the least
  element of a finite set.
- `StreetKeepsRoute`: `SharedStreetKeepsRoute` as an action property: the last match
  stays, even against an assignment, when no other route is nearer or better aligned
  with the heading. It gets a bonus of 20 points; a candidate that is no nearer and no
  better aligned gets at most as many for distance and heading, and 15 if it is
  assigned. So the score of the last match is strictly the greatest, and the best
  candidate is that one.
- `ArrivalsAreInOrder`: `ArrivalInv` = `PacesInv` ∧ `EtasInv`. `PacesInv` follows a
  speed through the three places where it is kept, a sample under way, a row read by a
  job, and the row in the table: the weighted average of two values within the bounds
  lies within them (`AverageInBounds`, from the defining property of `\div`).
  Then each travel time is a natural number, and the chain of arrival times is ordered
  by `InductionUpTo` over the stops ahead (`ChainTyped`, `PredictionInOrder`).
- `DayRowsSound`: `RowsInv` = `StoredInv` ∧ `LinkInv` ∧ `DaysInv`. Each attempt of a
  job stores one row at most; a row with a distance is linked to an earlier stored row,
  and some row of the device lacks one; and a daily row is `DayStats` of rows that are
  still there. From that, by induction over the rows: the gaps between consecutive
  rows, driving or standing, add up to no more than the time between the first and the
  last (`RowsInTime`, removing the last row, which changes no other row's predecessor),
  and the distances add up to at least the way between any two rows (`WayType`,
  `DistanceGrows`, by following the links to the row without a distance and the triangle inequality).
  `RecordsAssumption` states what this needs of the records: those of one device differ
  in time (a record that is sent or stored twice is two rows of one record), and
  rounded distances obey the triangle inequality.

`ApiProofs` (for all requests, rows, keys, readers, times to live):

- `RowsStayConsistent`: `ServicesInv` = `TypeOK` ∧ `Consistent` ∧ `Linked`. `Linked`
  ties a request between its statements to its row: one that will insert has no row
  yet, one that will update or delete has found the row it was asked about.
- `FeedsStayRecent`: `FeedsInv` says of each entity in an answer under way that it
  was so when the request began (`Fresh`), and of what is in the cache that it was so
  one request before it was stored. It assumes that no request takes longer than
  `RequestTime`: the code has no such limit, and without one a feed may be as old as
  its slowest request. Alerts need that a row is never deleted and the
  acknowledgment notes the time (`AlertsStay`).
- `StoreImplemented`: `Spec => ImplementsStore`. Every step of the services, the
  worker and the feeds is a step of the store or a stutter: the write is where a
  request takes effect, the select where it is refused; an update of a row that was
  deleted meanwhile takes no effect. Needs `ServicesInv`.

`ClientsProofs` (for all views, selections, sockets, messages):

- `QuietViewsAreRight`: `QuietViewIsRight` with its two excuses, that the last request
  failed or that a later one had ended before it. `ViewsInv` adds `LastIsRight` (the last request under way,
  unless a later one has ended, asks for what is selected) and `OneAtATime` (the
  search bar has one request at most). `closure = key` at all times is what the
  dependencies of the effects are for.
- `SocketsHear`: `HubInv` adds `InStep`: while a socket is open, the server's rooms
  are those the client was told of; a closed one has no entry.

`OsmImportProofs` (for all data, runs and failures):

- `ImportTypeCorrect`: `TypeInv` = `TypeOK` ∧ `RunInv`, which says that the stops of
  the fetched data have rows once the loop over the stops has ended, and the route
  being imported has one.
- `SequencesUnique`: with `NumberedBelow`, a route in a forced loop only has stops
  that this loop added, with smaller numbers. It needs the deletion at
  `import-osm-routes.ts:321` to come before the loop.
- `UnforcedImportKeeps`: `UnforcedKeeps`, by one step per action.
- `OneWayShapesCurrent`: `ShapeInv` adds that a route has one shape at most
  (`OneShape`), that a one-direction route whose import is past both upserts has the
  geometry fetched (`ImportedCurrent`), and that between the two the outbound one is
  the only one (`OutboundCurrent`).
- `ForcedImportExact`: `ExactInv` follows the run: the stops once their loop has ended,
  the tags of each route that was imported, its associations when its loop has ended,
  and inside that loop (`LoopExact`) the associations of the members before `next`,
  `addedStops` as the known ones among them, and `sequence` as their number plus one.

Assumptions are the named `ASSUME`s of the modules, which TLC evaluates in the
runs, and the hypotheses above. `~PortReuse` is a real restriction: the key is
the remote address and port, and a client that comes back from the same port
before the old entry is removed gets its entry removed by the late close of the
old socket. Set to TRUE, TLC refutes `OpenSocketsAreKnown` and `RegistryAgrees`.

Model-checked only: all liveness (`ClosedIsForgotten`, `ReceivedIsAnswered`,
`EveryRecordStored`, `SilentGoesOffline`, `SpeedingIsAlerted`, `ViewsSettle`; fairness
and ENABLED are out of the prover's reach). Every invariant and every action property
of the runs is a theorem. What the proofs take as given and only TLC compares is the
arithmetic of tables: the CRC and the conversions of IO values.

## 5. Findings

One run is refuted, `tcp_reprocess`: a handler whose connection was removed while it
waited consumes nothing any more and takes the same packet up again, for ever.
`PROJECT.json` quotes the lines.

Disagreements with documents that the configurations run by hand show:

- `tcp_ack`: `BACKEND_IMPLEMENTATION_PLAN.md:522` has "BullMQ ADD" before "Send
  ACK"; when the queue rejects, the error is logged and the packet acknowledged.
- `worker_offline`: `DEPLOY.md:124`, offline after ten silent minutes; a `lastSeen`
  read earlier, or a late `device_offline` job, marks a device that just reported.
- `worker_alerts`: `alert.processor.ts:66`, no duplicate overspeed alert; two jobs
  select before either inserts.
- `osm_shapes`: `schema/routes.ts:63`, a shape per direction; `upsertShape` writes the
  inbound geometry into the outbound row.

Observations. *TCP server and parser*

- with port reuse the registry loses a live connection (section 4);
- a handler of a removed connection that meets an unparsable packet loops without
  an await, and the event loop hangs: `consumeBuffer` finds no entry to shorten;
- nothing announces a device whose last connection was swept away by `cleanup()` or
  died with the process: Redis keeps "online" (`unannounced`);
- `parseAvlPacket` is given the whole buffer: a packet whose counts are damaged is
  read on into the next one and may be answered with records that are made up; a
  wrong CRC or second count is only a warning. The next packet is not lost
  (`Aligned`);
- the digits of an IMEI lose their highest bit by the 'ascii' decoding.

*Worker*

- the check for 200 m off the route never fires, since a match lies within 100 m,
  although `docs/plan/phase-08-schedule-adherence.md:290` and `:389` count on a
  ROUTE_DEVIATION alert; nobody reads `adherence:<d>`;
- `route_assignments` is queried with the device's id as `vehicleId`, and inactive
  assignments count;
- `recordSegmentSpeed` samples a segment again with every record after the stop, with
  a growing time (`speed-learner.ts:24`); with three jobs a stale read may lower
  `sampleCount`, and the loser of two first inserts loses its sample;
- a job that runs late overwrites a later time at a stop (`speed-learner.ts:90`);
- a daily row is never computed again, an outage of the GPS loses distance, and the
  date is the UTC date of the local midnight;
- members of `stop:<id>:etas` are never removed; a match overwrites the
  `assignedRouteId` the dispatcher set;
- "keep only latest per device+stop" (`eta-predictor.ts:126`): overlapping jobs of a
  device leave several sets, at most as many as jobs may run (`PredictionSetsBounded`).

*API and web pages*

- an update of a row that was deleted meanwhile is answered with 200 and an empty
  body, a unique violation with 500; a second operator overwrites who acknowledged
  an alert (`ImplementsStore` allows it: the last one wins);
- `informed_entity.route_id` of the alerts feed carries the id of a device;
- messages are lost between `psubscribe` and the attaching of the handler, and
  during an outage; the comment at `redis-subscriber.ts:65` says that status goes to
  fleet and device subscribers, only the fleet gets it; no page uses the WebSocket;
- pages that fetch once keep whatever answer came last (`RouteList` per keystroke,
  analytics, schedules); the search bar may show a part of the results after the text
  was cleared; the header of the arrival board may stay that of the stop before, since
  its request is not repeated (`ArrivalBoard.tsx:29`); the dispatch center never
  refreshes its alerts (`DispatchCenter.tsx:70`); `MapDashboard` never asks again for a first list that failed;
- the arrivals of a stop are limited to 20 before past ones are filtered out
  (`apps/passenger/src/app/api/stops/[id]/arrivals/route.ts`), so expired predictions
  may hide upcoming ones; an assignment is written without a transaction and earlier
  ones are not deactivated.

*Importer and export*

- without `--force` the importer gives a new route its first stop only, because the
  check for an existing route stop (`import-osm-routes.ts:348`) looks at the route
  alone; `UnforcedKeeps` and `ForcedImportIsExact` say what does hold;
- two stops that exchange their codes end every forced run at the unique constraint,
  before any route is imported (`import-osm-routes.ts:220`);
- the GTFS export may repeat a `trip_id` for two schedules of one departure time,
  takes headsigns without the direction and exports schedules of inactive routes.

## 6. Not modelled

- `archiveOldTelemetry`: two independent deletes by date.
- Lists, single reads and statistics of the API, its metrics and rate limits: they
  change nothing. Tokens of `auth.service.ts` beyond the log-in's write.
- Encoding of the GTFS-Realtime messages, the limit of 50 alerts, the static
  GTFS file and its export script (`generate-gtfs.ts`): one sequential pass that
  formats rows; there is nothing in it that another actor could disturb except
  that its selects are not one transaction.
- Bearings and distances on the sphere: the models compute on a plane.
- `stationaryTracker` and `adherence:<d>`: nothing but the log reads them.
- Rendering, favourites, exports to files and the passenger application's service
  worker; the dashboard's Next.js endpoints, except what they answer.
- Two importers at the same time, or edits of routes by the API during a run.
- `stop()` is modelled up to the destruction of the sockets; the order in which it
  then closes Redis, the queue and the server is covered by `ProcessEnd`, which
  may come at any moment after it.

## 7. Order of work, and what is left

The modules were written in this order: registry and TCP server, worker, route
pipeline, importer, parser, statistics, API, clients; each with its run first and
its proofs after. What would come next:

1. the registry with port reuse restricted to closed entries;
2. `calculateCRC16` against the bitwise division, as a lemma about all messages;
3. retention and the export, if they are ever run beside each other.

