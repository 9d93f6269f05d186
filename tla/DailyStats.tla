------------------------------- MODULE DailyStats -------------------------------
(***************************************************************************)
(* The rows of telemetry_records and what is summed up from them: a job of *)
(* the telemetry queue stores its record with the distance from the latest *)
(* one (telemetry.processor.ts), and the daily job computes for each       *)
(* device a row of device_daily_stats (analytics.processor.ts).            *)
(*                                                                         *)
(* Times are seconds of one week that begins on a Sunday.  The counts of   *)
(* alerts that the daily job copies into its row are left out.             *)
(***************************************************************************)
EXTENDS RouteMatcher, Functions

CONSTANTS
    Devices,
    Records,               \* telemetry records, each a job of the queue
    DeviceOf,              \* DeviceOf[r]: the device that sent r
    Report,                \* Report[r]: [at, heading, ts, speed, moving, ignition, valid, can]
    TelemetryConcurrency,  \* jobs the telemetry worker runs at a time
    Attempts,              \* defaultJobOptions.attempts
    MaxErrors,             \* bound: statements that fail
    UtcOffset              \* hours by which the worker's time zone is ahead of UTC

ASSUME StatsAssumption ==
    /\ DeviceOf \in [Records -> Devices]
    /\ \A r \in Records : /\ Report[r].at \in Places /\ Report[r].ts \in Nat \ {0}
                           /\ Report[r].heading \in Nat /\ Report[r].speed \in Nat
    /\ TelemetryConcurrency \in Nat \ {0} /\ Attempts \in Nat \ {0}
    /\ MaxErrors \in Nat /\ UtcOffset \in Int

\* What a device sends: its records differ in time, and no place is further
\* from another than by a third (up to the rounding of distances).
ASSUME RecordsAssumption ==
    /\ \A q, r \in Records : q # r /\ DeviceOf[q] = DeviceOf[r] => Report[q].ts # Report[r].ts
    /\ \A p, q, o \in Places : Distances[p][o] <= Distances[p][q] + Distances[q][o]

VARIABLES
    pc,        \* pc[r]: what the job of r waits for
    failures,  \* failed attempts of the job of r
    errors,    \* statements that failed so far
    distance,  \* distance[r]: local variable distanceFromLast, None: undefined
    rows,      \* telemetry_records: [rec, attempt, distance]
    daily,     \* the daily job, which runs once: [day, left] with the devices that
               \* are left
    dayRows,   \* device_daily_stats: dayRows[d][date], None: no row
    counted    \* history: the rows that dayRows[d][date] was computed from

storeVars == <<failures, distance, rows>>
dailyVars == <<daily, dayRows, counted>>

Days == 0..6
Dates == -1..7
DayOf(r) == Report[r].ts \div 86400
RowsOf(d) == {x \in rows : DeviceOf[x.rec] = d}

StatsInit ==
    /\ pc = [r \in Records |-> "waiting"]
    /\ failures = [r \in Records |-> 0]
    /\ errors = 0
    /\ distance = [r \in Records |-> None]
    /\ rows = {}
    /\ \E r \in Records : daily = [day |-> DayOf(r), left |-> Devices]
    /\ dayRows = [d \in Devices |-> [date \in Dates |-> None]]
    /\ counted = [d \in Devices |-> [date \in Dates |-> {}]]

Goto(r, stage) == pc' = [pc EXCEPT ![r] = stage]

StoreStages == {"find", "store", "can"}
MatchStages == {"match", "predict", "setex", "select", "write", "device"}
ActiveStages == StoreStages \cup MatchStages

-----------------------------------------------------------------------------
\* The queue is in the order in which the records were made; a job that is tried
\* again comes back at any place.
Start(r) ==
    /\ pc[r] = "waiting"
    /\ failures[r] = 0 => \A q \in Records : pc[q] = "waiting" /\ failures[q] = 0 =>
                                              Report[r].ts <= Report[q].ts
    /\ Cardinality({q \in Records : pc[q] \in ActiveStages}) < TelemetryConcurrency
    /\ Goto(r, "find")
    /\ UNCHANGED <<storeVars, dailyVars>>

\* The latest row of the device, by the time of the record.
FindPrevious(r) ==
    /\ pc[r] = "find"
    /\ LET own == RowsOf(DeviceOf[r])
           latest == {x \in own : \A y \in own : Report[y.rec].ts <= Report[x.rec].ts}
       IN  IF own = {} \/ ~Report[r].valid
           THEN distance' = [distance EXCEPT ![r] = None]
           ELSE \E x \in latest : distance' =
                    [distance EXCEPT ![r] = Distances[Report[x.rec].at][Report[r].at]]
    /\ Goto(r, "store")
    /\ UNCHANGED <<failures, rows, dailyVars>>

\* What follows the inserts: the route pipeline, for a valid position.
AfterStore(r) == IF Report[r].valid THEN "match" ELSE "done"

Store(r) ==
    /\ pc[r] = "store"
    /\ rows' = rows \cup {[rec |-> r, attempt |-> failures[r], distance |-> distance[r]]}
    /\ distance' = [distance EXCEPT ![r] = None]
    /\ Goto(r, IF Report[r].can THEN "can" ELSE AfterStore(r))
    /\ UNCHANGED <<failures, dailyVars>>

StoreCan(r) ==
    /\ pc[r] = "can"
    /\ Goto(r, AfterStore(r))
    /\ UNCHANGED <<storeVars, dailyVars>>

\* The job is tried again from its beginning, whatever it has stored.
StoreFails(r) ==
    /\ pc[r] \in StoreStages
    /\ failures' = [failures EXCEPT ![r] = @ + 1]
    /\ distance' = [distance EXCEPT ![r] = None]
    /\ Goto(r, IF failures[r] + 1 < Attempts THEN "waiting" ELSE "failed")
    /\ UNCHANGED <<rows, dailyVars>>

-----------------------------------------------------------------------------
\* The loop of computeDailyStats over the rows of a day in the order of time;
\* the rows of one record are alike.
Earlier(x, S) == {y \in S : \/ Report[y.rec].ts < Report[x.rec].ts
                            \/ y.rec = x.rec /\ y.attempt < x.attempt}
Followers(S) == {x \in S : Earlier(x, S) # {}}
PreviousRow(x, S) == CHOOSE y \in Earlier(x, S) : Earlier(x, S) \ {y} = Earlier(y, S)
Moving(x) == Report[x.rec].moving \/ Report[x.rec].speed > 2000

\* dt, capped at ten minutes.
Gap(x, S) == LeastOf({600, Report[x.rec].ts - Report[PreviousRow(x, S).rec].ts})

\* Mutant: only rows of moving vehicles add to the distance.
DistanceWhileMoving(S) ==
    SumFunction([x \in {y \in S : y.distance # None /\ Moving(y)} |-> x.distance])

TotalDistance(S) == SumFunction([x \in {y \in S : y.distance # None} |-> x.distance])

DayStats(S) ==
    LET driving == {x \in Followers(S) : Moving(x)}
        idle == {x \in Followers(S) : ~Moving(x) /\ Report[x.rec].ignition}
        speeds == SumFunction([x \in S |-> Report[x.rec].speed])
    IN  [totalDistance |-> TotalDistance(S),
         tripCount     |-> Cardinality({x \in driving : PreviousRow(x, S) \notin driving}),
         drivingTime   |-> SumFunction([x \in driving |-> Gap(x, S)]),
         idleTime      |-> SumFunction([x \in idle |-> Gap(x, S)]),
         avgSpeed      |-> speeds \div Cardinality(S),
         maxSpeed      |-> GreatestOf({Report[x.rec].speed : x \in S})]

\* dayStart is midnight in the time zone of the worker, its date that in UTC.
DateKey(day) == (24 * day - UtcOffset) \div 24

Leave(d) ==
    /\ d \in daily.left
    /\ daily' = [daily EXCEPT !.left = @ \ {d}]

\* The row of the next device, or none for one without records of that day.
\* Nothing else writes the row between the select and the upsert.
ComputeDay(d) ==
    LET found == {x \in RowsOf(d) : DayOf(x.rec) = daily.day} IN
    /\ Leave(d)
    /\ IF found = {} THEN UNCHANGED <<dayRows, counted>>
       ELSE /\ dayRows' = [dayRows EXCEPT ![d][DateKey(daily.day)] = DayStats(found)]
            /\ counted' = [counted EXCEPT ![d][DateKey(daily.day)] = found]
    /\ UNCHANGED <<pc, storeVars>>

\* An error skips the device.
DayFails(d) ==
    /\ Leave(d)
    /\ UNCHANGED <<pc, storeVars, dayRows, counted>>
=============================================================================
