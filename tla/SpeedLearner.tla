------------------------------ MODULE SpeedLearner ------------------------------
(***************************************************************************)
(* What a telemetry job does with a position: it is matched to a route,    *)
(* arrival times are predicted from learned speeds, adherence is checked,  *)
(* and the time since the last stop becomes a sample of the speed between  *)
(* the two (telemetry.processor.ts:176-225, speed-learner.ts,              *)
(* adherence-checker.ts).                                                  *)
(*                                                                         *)
(* Each action is the code from one await to the next, with the statement  *)
(* that the await completes.  stationaryTracker, which only leads to lines *)
(* of the log, and the key adherence:<d>, which nothing reads, are left    *)
(* out; the statements of loadRouteCache and the storing of predictions    *)
(* are steps of RoutePipeline.                                             *)
(***************************************************************************)
EXTENDS DailyStats

CONSTANTS
    Assigned,    \* Assigned[d]: routes of route_assignments with vehicleId d
    KeepStops    \* number of stops of a trip whose times are kept

ASSUME LearnerAssumption == KeepStops \in Nat \ {0}

VARIABLES
    matched,    \* matched[r]: the local variable match and what checkAdherence
                \* finds: None or [shape, nearest, deviation]
    lastMatch,  \* deviceLastMatch: None or a shape; None after two minutes, when
                \* it counts no more
    etas,       \* etas[d]: what was predicted last, a function on indices of RouteStops
    offRoute,   \* offRouteDurations: None, or whether a minute has passed since
    stopTimes,  \* deviceStopTimestamps: stopTimes[d][s][seq], 0: no entry
    sample,     \* sample[r]: None or [key, speed], taken for that segment
    reading,    \* reading[r]: the row existing[0], None: no row
    speeds,     \* segment_speeds: None or [avg, count]
    place,      \* devices.assignedRouteId, currentDirection, currentStopSequence
    taken,      \* history: taken[k] samples were written for k
    contested   \* history: segments at which two jobs were at the same time

matchVars == <<matched, lastMatch>>
learnVars == <<stopTimes, sample, reading, speeds, taken, contested>>
trackVars == <<matchVars, etas, offRoute, learnVars, place>>

\* hourOfDay and dayType of a time.
DayType(ts) == LET day == (ts \div 86400) % 7 IN
               IF day = 0 THEN "sunday" ELSE IF day = 6 THEN "saturday" ELSE "weekday"
SlotOf(ts) == <<(ts \div 3600) % 24, DayType(ts)>>
TimeSlots == {SlotOf(Report[r].ts) : r \in Records}

\* The unique key of segment_speeds; a shape stands for route and direction.
Segments == [shape : ShapeIds, from : StopNumbers, to : StopNumbers, slot : TimeSlots]

\* undefined is no object.
ASSUME UndefinedAssumption ==
    /\ None \notin [avg : Int, count : Nat]
    /\ None \notin [key : Segments, speed : Int]
    /\ None \notin [shape : ShapeIds, nearest : StopNumbers, deviation : BOOLEAN]

LearnerInit ==
    /\ matched = [r \in Records |-> None]
    /\ lastMatch = [d \in Devices |-> None]
    /\ etas = [d \in Devices |-> <<>>]
    /\ offRoute = [d \in Devices |-> None]
    /\ stopTimes = [d \in Devices |-> [s \in ShapeIds |-> [n \in StopNumbers |-> 0]]]
    /\ sample = [r \in Records |-> None]
    /\ reading = [r \in Records |-> None]
    /\ speeds = [k \in Segments |-> None]
    /\ place = [d \in Devices |-> None]
    /\ taken = [k \in Segments |-> 0]
    /\ contested = {}

-----------------------------------------------------------------------------
\* The assignments arrive; when their select fails there are none.
Match(r, selected) ==
    LET d == DeviceOf[r]
        best(assigned) ==
            BestCandidates(Report[r].at, Report[r].heading, assigned, lastMatch[d])
    IN
    /\ pc[r] = "match"
    /\ IF Candidates(Report[r].at) = {}
       THEN Goto(r, "done") /\ UNCHANGED matchVars
       ELSE \E s \in best(IF selected THEN Assigned[d] ELSE {}) :
            \E nearest \in nearestStopSequences(s, Projections[Report[r].at][s].along) :
                /\ matched' = [matched EXCEPT ![r] =
                       [shape |-> s, nearest |-> nearest, deviation |-> FALSE]]
                /\ lastMatch' = [lastMatch EXCEPT ![d] = s]
                /\ Goto(r, "predict")
    /\ UNCHANGED <<etas, offRoute, learnVars, place>>

\* The learned speeds of the hour arrive; the bus is followed.
Deviates(r) == Projections[Report[r].at][matched[r].shape].distance > 200

CheckAdherence(r) ==
    LET d == DeviceOf[r] IN
    /\ matched' = [matched EXCEPT ![r].deviation =
                      Deviates(r) /\ offRoute[d] = TRUE]
    /\ offRoute' = [offRoute EXCEPT ![d] = IF ~Deviates(r) THEN None
                                           ELSE @ = TRUE]

Predict(r) ==
    LET d == DeviceOf[r]  s == matched[r].shape  along == Projections[Report[r].at][s].along IN
    /\ pc[r] = "predict"
    /\ \E slot \in TimeSlots :
           LET learned == [a \in StopNumbers |-> [b \in StopNumbers |->
                  LET row == speeds[[shape |-> s, from |-> a, to |-> b, slot |-> slot]] IN
                  IF row = None THEN None ELSE row.avg]]
               ahead == predictETAs(s, along, matched[r].nearest, learned, Report[r].speed)
           IN  etas' = [etas EXCEPT ![d] = IF DOMAIN ahead = {} THEN @ ELSE ahead]
    /\ CheckAdherence(r)
    /\ Goto(r, "setex")
    /\ UNCHANGED <<lastMatch, learnVars, place>>

\* estimateSpeedFromTime: 500 m in so many seconds.
estimateSpeedFromTime(seconds) == 1800000 \div seconds

\* The stop before number n that was passed last.
findPreviousRecordedSequence(times, n) ==
    LET before == {m \in StopNumbers : m < n /\ times[m] > 0} IN
    {m \in before : \A k \in before : times[k] <= times[m]}

\* Record the time at the stop and forget the oldest above the limit.
RecordTime(r) ==
    LET d == DeviceOf[r]  s == matched[r].shape
        n == matched[r].nearest
        times == [stopTimes[d][s] EXCEPT ![n] = Report[r].ts]
        kept == {m \in StopNumbers : times[m] > 0}
        oldest == {m \in kept : \A k \in kept : times[m] <= times[k]}
    IN  IF Cardinality(kept) <= KeepStops
        THEN stopTimes' = [stopTimes EXCEPT ![d][s] = times]
        ELSE \E m \in oldest : stopTimes' = [stopTimes EXCEPT ![d][s] = [times EXCEPT ![m] = 0]]

Plausible(seconds) == seconds > 5 /\ seconds < 1800

\* The reply of Redis arrives, whatever it is, and learning begins.
Learn(r) ==
    LET d == DeviceOf[r]  s == matched[r].shape
        n == matched[r].nearest
        previous == findPreviousRecordedSequence(stopTimes[d][s], n)
        since(m) == Report[r].ts - stopTimes[d][s][m]
    IN
    /\ pc[r] = "setex"
    /\ \/ \E m \in previous :
              /\ Plausible(since(m))
              /\ sample' = [sample EXCEPT ![r] =
                     [key   |-> [shape |-> s, from |-> m, to |-> n, slot |-> SlotOf(Report[r].ts)],
                      speed |-> estimateSpeedFromTime(since(m))]]
              /\ Goto(r, "select")
              /\ UNCHANGED stopTimes
       \/ /\ \A m \in previous : ~Plausible(since(m))
          /\ RecordTime(r)
          /\ Goto(r, "device")
          /\ UNCHANGED sample
    /\ UNCHANGED <<matchVars, etas, offRoute, reading, speeds, place, taken, contested>>

Select(r) ==
    LET k == sample[r].key IN
    /\ pc[r] = "select"
    /\ reading' = [reading EXCEPT ![r] = speeds[k]]
    /\ contested' = contested \cup
           {sample[q].key : q \in {p \in Records : pc[p] = "write" /\ sample[p].key = k}}
    /\ Goto(r, "write")
    /\ UNCHANGED <<matchVars, etas, offRoute, stopTimes, sample, speeds, place, taken>>

\* Mutant: a sample is counted twice.
CountTwice(row, speed) ==
    [avg |-> (row.avg * row.count + speed) \div (row.count + 1), count |-> row.count + 2]

\* The running average.
Average(row, speed) ==
    [avg |-> (row.avg * row.count + speed) \div (row.count + 1), count |-> row.count + 1]

\* The update, or the insert, which the unique key rejects when another job
\* has inserted the row meanwhile.
Write(r) ==
    LET k == sample[r].key IN
    /\ pc[r] = "write"
    /\ speeds' = [speeds EXCEPT ![k] =
           IF reading[r] # None THEN Average(reading[r], sample[r].speed)
           ELSE IF @ = None THEN [avg |-> sample[r].speed, count |-> 1] ELSE @]
    /\ taken' = [taken EXCEPT ![k] = @ + 1]
    /\ RecordTime(r)
    /\ Goto(r, "device")
    /\ UNCHANGED <<matchVars, etas, offRoute, sample, reading, place, contested>>

\* A statement of recordSegmentSpeed fails: the sample is lost.
LearnFails(r) ==
    /\ pc[r] \in {"select", "write"}
    /\ RecordTime(r)
    /\ Goto(r, "device")
    /\ UNCHANGED <<matchVars, etas, offRoute, sample, reading, speeds, place, taken, contested>>

\* The columns of the device: the last step, whether it succeeds or not.  The
\* local variables are gone.
UpdateDevice(r, updated) ==
    /\ pc[r] = "device"
    /\ place' = [place EXCEPT ![DeviceOf[r]] = IF ~updated THEN @ ELSE
           <<matched[r].shape, matched[r].nearest>>]
    /\ matched' = [matched EXCEPT ![r] = None]
    /\ sample' = [sample EXCEPT ![r] = None]
    /\ reading' = [reading EXCEPT ![r] = None]
    /\ Goto(r, "done")
    /\ UNCHANGED <<lastMatch, etas, offRoute, stopTimes, speeds, taken, contested>>

\* The select of the learned speeds fails: the pipeline ends.
PipelineFails(r) ==
    /\ pc[r] = "predict"
    /\ upcomingStops(matched[r].shape, Projections[Report[r].at][matched[r].shape].along) # {}
    /\ matched' = [matched EXCEPT ![r] = None]
    /\ Goto(r, "done")
    /\ UNCHANGED <<lastMatch, etas, offRoute, learnVars, place>>

\* Two minutes pass: matches do not count any more.
TwoMinutes ==
    /\ lastMatch' = [d \in Devices |-> None]
    /\ offRoute' = [d \in Devices |-> IF offRoute[d] = None THEN None ELSE TRUE]
    /\ UNCHANGED <<matched, etas, learnVars, place>>
=============================================================================
