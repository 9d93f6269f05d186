----------------------------- MODULE RoutePipeline -----------------------------
(***************************************************************************)
(* The end of a telemetry job (telemetry.processor.ts:177-224, the step    *)
(* MatchRoute of TelemetryJobs): the position is matched to a route by a   *)
(* cache that the jobs of the process share and reload                     *)
(* (route-matcher.ts), and the arrival times predicted for the device      *)
(* replace its earlier ones (eta-predictor.ts).                            *)
(*                                                                         *)
(* Each action is the code from one await to the next, with the statement  *)
(* that the await completes.  A version is the content of route_shapes and *)
(* route_stops after so many imports; version 0 is empty tables.           *)
(***************************************************************************)
EXTENDS Integers, FiniteSets

CONSTANTS
    Devices,
    Records,               \* telemetry records with a valid position
    DeviceOf,              \* DeviceOf[r]: the device that sent r
    TelemetryConcurrency,  \* jobs the telemetry worker runs at a time
    CacheTTL,              \* CACHE_TTL in ticks
    DbMayFail,             \* whether statements may fail
    MaxVersion,            \* bound: imports
    MaxRestarts            \* bound: restarts

ASSUME PipelineAssumption ==
    /\ DeviceOf \in [Records -> Devices]
    /\ TelemetryConcurrency \in Nat \ {0}
    /\ CacheTTL \in Nat \ {0}
    /\ DbMayFail \in BOOLEAN
    /\ MaxVersion \in Nat /\ MaxRestarts \in Nat

VARIABLES
    pc,           \* pc[r]: what the job of r waits for
    cachedShapes, \* version of the module variable cachedShapes
    cachedStops,  \* version of the module variable cachedStops
    cacheAge,     \* now - cacheLoadedAt in ticks, CacheTTL and more are one
    loadAge,      \* loadAge[r]: now - the local variable now of loadRouteCache
    predictions,  \* predictions[d]: sets of rows of eta_predictions d has
    version,      \* version the database has
    past,         \* history: past[a] is the version of a ticks ago
    candidates,   \* candidates[r]: version of the shapes in the local variable
    floor,        \* history: floor[r] was current CacheTTL before r began
    saved,        \* history: devices with predictions, now or before
    lost,         \* history: devices with a failure between delete and insert
    restarts

cacheVars == <<cachedShapes, cachedStops, cacheAge, loadAge>>
timeVars == <<version, past, restarts>>
etaVars == <<predictions, saved, lost>>
matchVars == <<candidates, floor>>
vars == <<pc, cacheVars, timeVars, etaVars, matchVars>>

LoadStages == {"routes", "shapes", "stops"}
ActiveStages == LoadStages \cup {"assignment", "speeds", "delete", "insert", "rest"}

Init ==
    /\ pc = [r \in Records |-> "ready"]
    /\ cachedShapes = 0 /\ cachedStops = 0
    /\ cacheAge = CacheTTL
    /\ loadAge = [r \in Records |-> 0]
    /\ predictions = [d \in Devices |-> 0]
    /\ version \in 0..MaxVersion
    /\ past = [a \in 0..CacheTTL |-> version]
    /\ candidates = [r \in Records |-> 0]
    /\ floor = [r \in Records |-> 0]
    /\ saved = {} /\ lost = {}
    /\ restarts = 0

Goto(r, stage) == pc' = [pc EXCEPT ![r] = stage]

-----------------------------------------------------------------------------
\* matchGpsToRoute looks for candidates in the shapes of version v: there are
\* none without shapes, and need not be any.
FindCandidates(r, v) ==
    \/ Goto(r, "done") /\ UNCHANGED candidates
    \/ /\ v # 0
       /\ Goto(r, "assignment")
       /\ candidates' = [candidates EXCEPT ![r] = v]

Fresh == cacheAge < CacheTTL /\ cachedShapes # 0

\* loadRouteCache returns at once while the cache is fresh.
Start(r) ==
    /\ pc[r] = "ready"
    /\ Cardinality({q \in Records : pc[q] \in ActiveStages}) < TelemetryConcurrency
    /\ floor' = [floor EXCEPT ![r] = past[CacheTTL]]
    /\ IF Fresh
       THEN FindCandidates(r, cachedShapes) /\ UNCHANGED loadAge
       ELSE /\ Goto(r, "routes")
            /\ loadAge' = [loadAge EXCEPT ![r] = 0]
            /\ UNCHANGED candidates
    /\ UNCHANGED <<cachedShapes, cachedStops, cacheAge, timeVars, etaVars>>

ReadRoutes(r) ==
    /\ pc[r] = "routes"
    /\ Goto(r, "shapes")
    /\ UNCHANGED <<cacheVars, timeVars, etaVars, matchVars>>

ReadShapes(r) ==
    /\ pc[r] = "shapes"
    /\ cachedShapes' = version
    /\ Goto(r, "stops")
    /\ UNCHANGED <<cachedStops, cacheAge, loadAge, timeVars, etaVars, matchVars>>

\* Mutant: cacheLoadedAt is the time when the load has ended.
ReadStopsNow(r) ==
    /\ pc[r] = "stops"
    /\ cachedStops' = version
    /\ cacheAge' = 0
    /\ loadAge' = [loadAge EXCEPT ![r] = 0]
    /\ FindCandidates(r, cachedShapes)
    /\ UNCHANGED <<cachedShapes, floor, timeVars, etaVars>>

\* Mutant: cacheLoadedAt is the time when the cache expires.
ReadStopsExpiry(r) ==
    /\ pc[r] = "stops"
    /\ cachedStops' = version
    /\ cacheAge' = loadAge[r] - CacheTTL
    /\ loadAge' = [loadAge EXCEPT ![r] = 0]
    /\ FindCandidates(r, cachedShapes)
    /\ UNCHANGED <<cachedShapes, floor, timeVars, etaVars>>

\* The shapes may meanwhile be those of another job that loads as well.
ReadStops(r) ==
    /\ pc[r] = "stops"
    /\ cachedStops' = version
    /\ cacheAge' = loadAge[r]
    /\ loadAge' = [loadAge EXCEPT ![r] = 0]
    /\ FindCandidates(r, cachedShapes)
    /\ UNCHANGED <<cachedShapes, floor, timeVars, etaVars>>

\* The best candidate is chosen and its stops are taken from the cache.  With
\* no stop ahead predictETAs returns before it touches the database.
Match(r) ==
    /\ pc[r] = "assignment"
    /\ \/ Goto(r, "rest")
       \/ cachedStops # 0 /\ Goto(r, "speeds")
    /\ candidates' = [candidates EXCEPT ![r] = 0]
    /\ floor' = [floor EXCEPT ![r] = 0]
    /\ UNCHANGED <<cacheVars, timeVars, etaVars>>

ReadSpeeds(r) ==
    /\ pc[r] = "speeds"
    /\ Goto(r, "delete")
    /\ UNCHANGED <<cacheVars, timeVars, etaVars, matchVars>>

\* Mutants: nothing is deleted, or the predictions of every device.
DeleteNone(r) == predictions
DeleteEverything(r) == [d \in Devices |-> 0]

DeleteOwn(r) == [predictions EXCEPT ![DeviceOf[r]] = 0]

Delete(r) ==
    /\ pc[r] = "delete"
    /\ predictions' = DeleteOwn(r)
    /\ Goto(r, "insert")
    /\ UNCHANGED <<cacheVars, timeVars, saved, lost, matchVars>>

Insert(r) ==
    /\ pc[r] = "insert"
    /\ predictions' = [predictions EXCEPT ![DeviceOf[r]] = @ + 1]
    /\ saved' = saved \cup {DeviceOf[r]}
    /\ Goto(r, "rest")
    /\ UNCHANGED <<cacheVars, timeVars, lost, matchVars>>

\* Redis, segment speeds and the columns of the device: not read here.
Rest(r) ==
    /\ pc[r] = "rest"
    /\ Goto(r, "done")
    /\ UNCHANGED <<cacheVars, timeVars, etaVars, matchVars>>

\* Errors of the two statements on predictions are caught in predictETAs, that
\* of the assignments gives an empty set, others end the pipeline.
Fails(r) ==
    /\ DbMayFail
    /\ pc[r] \in ActiveStages \ {"assignment"}
    /\ Goto(r, IF pc[r] \in {"delete", "insert"} THEN "rest" ELSE "done")
    /\ lost' = IF pc[r] = "insert" THEN lost \cup {DeviceOf[r]} ELSE lost
    /\ UNCHANGED <<predictions, saved, cacheVars, timeVars, matchVars>>

-----------------------------------------------------------------------------
Older(a) == IF a < CacheTTL THEN a + 1 ELSE a

Tick ==
    /\ cacheAge' = Older(cacheAge)
    /\ loadAge' = [r \in Records |-> IF pc[r] \in LoadStages
                                     THEN Older(loadAge[r]) ELSE loadAge[r]]
    /\ past' = [a \in 0..CacheTTL |-> IF a = 0 THEN version ELSE past[a - 1]]
    /\ UNCHANGED <<pc, cachedShapes, cachedStops, version, restarts, etaVars, matchVars>>

\* The importer, or the API, changes shapes and stops.
Import ==
    /\ version < MaxVersion
    /\ version' = version + 1
    /\ past' = [past EXCEPT ![0] = version + 1]
    /\ UNCHANGED <<pc, cacheVars, restarts, etaVars, matchVars>>

\* The process ends; the jobs it ran are run again from their beginning.
Restart ==
    /\ restarts < MaxRestarts
    /\ restarts' = restarts + 1
    /\ pc' = [r \in Records |-> IF pc[r] \in ActiveStages THEN "ready" ELSE pc[r]]
    /\ cachedShapes' = 0 /\ cachedStops' = 0
    /\ cacheAge' = CacheTTL
    /\ lost' = lost \cup {DeviceOf[r] : r \in {q \in Records : pc[q] = "insert"}}
    /\ candidates' = [r \in Records |-> 0]
    /\ loadAge' = [r \in Records |-> 0]
    /\ UNCHANGED <<version, past, predictions, saved, floor>>

JobStep(r) ==
    \/ Start(r)
    \/ ReadRoutes(r) \/ ReadShapes(r) \/ ReadStops(r)
    \/ Match(r)
    \/ ReadSpeeds(r) \/ Delete(r) \/ Insert(r)
    \/ Rest(r)

Next ==
    \/ \E r \in Records : JobStep(r) \/ Fails(r)
    \/ Tick
    \/ Import
    \/ Restart

Spec == Init /\ [][Next]_vars

-----------------------------------------------------------------------------
CacheTyped ==
    /\ cachedShapes \in 0..version /\ cachedStops \in 0..version
    /\ cacheAge \in 0..CacheTTL
    /\ loadAge \in [Records -> 0..CacheTTL]

TimeTyped ==
    /\ version \in 0..MaxVersion
    /\ past \in [0..CacheTTL -> 0..version]
    /\ floor \in [Records -> 0..version]
    /\ candidates \in [Records -> 0..version]
    /\ restarts \in 0..MaxRestarts

TypeOK ==
    /\ pc \in [Records -> {"ready", "done"} \cup ActiveStages]
    /\ CacheTyped
    /\ TimeTyped
    /\ predictions \in [Devices -> Nat]
    /\ saved \subseteq Devices /\ lost \subseteq Devices

\* However the reloads of concurrent jobs overlap, fail or wait, a position is
\* matched with shapes and stops that were current at most CACHE_TTL before
\* its pipeline began (route-matcher.ts:50-101).
MatchUsesRecentRoutes ==
    [][\A r \in Records :
           pc[r] = "assignment" /\ pc'[r] \in {"speeds", "rest"} =>
               candidates[r] >= floor[r] /\ cachedStops >= floor[r]]_vars

\* Jobs of one device that overlap leave several sets of predictions behind,
\* but never more than jobs may run at a time (eta-predictor.ts:126-145).
PredictionSetsBounded ==
    \A d \in Devices : predictions[d] <= TelemetryConcurrency

\* A device that had predictions is without them only while one of its jobs is
\* between the delete and the insert, or after a failure exactly there.
PredictionsSurvive ==
    \A d \in saved : \/ predictions[d] > 0
                     \/ d \in lost
                     \/ \E r \in Records : DeviceOf[r] = d /\ pc[r] = "insert"
=============================================================================
