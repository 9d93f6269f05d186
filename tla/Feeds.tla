---------------------------------- MODULE Feeds ----------------------------------
(***************************************************************************)
(* The GTFS-Realtime endpoints (apps/api/src/routes/gtfs-rt.ts).  A request *)
(* looks in the Redis cache; on a miss it reads the database, and for each  *)
(* vehicle its latest record, stores the encoded feed with a time to live   *)
(* and sends it.  Nothing keeps two requests from missing at once.          *)
(* The three feeds have their own cache keys and read one table each, so a  *)
(* behaviour has one of them: the feed of the table the services write.     *)
(***************************************************************************)
EXTENDS Services

CONSTANTS
    Readers,        \* requests for the feed
    Ttl,            \* 'EX': time to live by table
    ActiveFor,      \* five minutes: a vehicle not seen for longer is left out
    AlertsFor,      \* a day: alerts older than that are left out
    RequestTime     \* assumption: no request takes longer

VARIABLES
    records,    \* devices with a telemetry record
    cache,      \* the feed in Redis and when it expires, or None
    reader      \* the requests for the feed

feedVars == <<records, cache, reader>>

Entity == [id: Ids, time: Nat]
Feed == [body: SUBSET Entity, until: Nat]
Idle == [at |-> "idle", begun |-> 0, todo |-> {}, body |-> {}, served |-> 0]

ASSUME FeedsAssumption ==
    /\ Ttl \in [TableNames -> Nat]
    /\ ActiveFor \in Nat /\ AlertsFor \in Nat /\ RequestTime \in Nat
    /\ None \notin Feed

FeedsTypeOK ==
    /\ records \subseteq Ids
    /\ cache \in Feed \cup {None}
    /\ reader \in [Readers -> [at: {"idle", "get", "query", "latest", "set", "sent", "failed"},
                               begun: Nat, todo: SUBSET Ids, body: SUBSET Entity, served: Nat]]

FeedsInit ==
    /\ records = {}
    /\ cache = None
    /\ reader = [g \in Readers |-> Idle]

HasFeed == table \in {"devices", "alerts", "etaPredictions"}

Request(g) ==
    /\ HasFeed /\ reader[g].at = "idle"
    /\ reader' = [reader EXCEPT ![g] = [Idle EXCEPT !.at = "get", !.begun = now]]
    /\ UNCHANGED <<records, cache>>

\* Redis gives up a key at its time.
Cached == cache # None /\ now < cache.until

\* redis.getBuffer: a hit is sent as it is.
Hit(g) ==
    /\ reader[g].at = "get" /\ Cached
    /\ reader' = [reader EXCEPT ![g] = [@ EXCEPT !.at = "sent", !.body = cache.body, !.served = now]]
    /\ UNCHANGED <<records, cache>>

Miss(g) ==
    /\ reader[g].at = "get" /\ ~Cached
    /\ reader' = [reader EXCEPT ![g].at = "query"]
    /\ UNCHANGED <<records, cache>>

Present == {i \in Ids: rows[i] # None}

\* Mutant: every device that reads online is active.
OnlineDevices == {i \in Present: rows[i].on /\ rows[i].time > 0}

\* Online and seen within five minutes.
VehiclePositions == {i \in Present: rows[i].on /\ rows[i].time > 0 /\ rows[i].time + ActiveFor > now}

\* predictedArrival is not past.
TripUpdates == {i \in Present: rows[i].time >= now}

\* Not acknowledged, and of the last day.
ServiceAlerts == {i \in Present: rows[i].mark = None /\ rows[i].time + AlertsFor >= now}

Shown ==
    CASE table = "devices" -> VehiclePositions
      [] table = "etaPredictions" -> TripUpdates
      [] OTHER -> ServiceAlerts

\* The select.  Vehicles still need their latest positions, one query each.
Query(g) ==
    /\ reader[g].at = "query"
    /\ reader' = [reader EXCEPT ![g] = [@ EXCEPT
                    !.at = IF table = "devices" THEN "latest" ELSE "set",
                    !.todo = IF table = "devices" THEN Shown ELSE {},
                    !.body = {[id |-> i, time |-> rows[i].time]: i \in Shown}]]
    /\ UNCHANGED <<records, cache>>

\* One of the parallel queries; a device without a record is left out.
Latest(g) ==
    /\ reader[g].at = "latest"
    /\ \E i \in reader[g].todo:
         reader' = [reader EXCEPT ![g] = [@ EXCEPT
                      !.at = IF reader[g].todo = {i} THEN "set" ELSE "latest",
                      !.todo = reader[g].todo \ {i},
                      !.body = {e \in reader[g].body: e.id = i => i \in records}]]
    /\ UNCHANGED <<records, cache>>

\* Promise.all of no vehicles.
NoVehicles(g) ==
    /\ reader[g].at = "latest" /\ reader[g].todo = {}
    /\ reader' = [reader EXCEPT ![g].at = "set"]
    /\ UNCHANGED <<records, cache>>

\* redis.set(key, buffer, 'EX', ttl), then the answer.
Publish(g) ==
    /\ reader[g].at = "set"
    /\ cache' = [body |-> reader[g].body, until |-> now + Ttl[table]]
    /\ reader' = [reader EXCEPT ![g] = [@ EXCEPT !.at = "sent", !.served = now]]
    /\ UNCHANGED records

\* Redis or the database rejects: the error handler answers 500.
FeedFails(g) ==
    /\ reader[g].at \in {"get", "query", "latest", "set"}
    /\ errors < MaxErrors
    /\ errors' = errors + 1
    /\ reader' = [reader EXCEPT ![g] = [@ EXCEPT !.at = "failed", !.todo = {}, !.body = {}]]
    /\ UNCHANGED <<records, cache>>

FeedStep(g) == Request(g) \/ Hit(g) \/ Miss(g) \/ Query(g) \/ Latest(g) \/ NoVehicles(g) \/ Publish(g)

\* A request under way is younger than RequestTime.
Timely == \A g \in Readers:
    reader[g].at \in {"get", "query", "latest", "set"} => now < reader[g].begun + RequestTime
=============================================================================
