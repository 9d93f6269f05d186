------------------------------- MODULE Statistics -------------------------------
(***************************************************************************)
(* What the worker derives from the positions of a bus: the distance of    *)
(* each record and the sums of its day, its place on a route, the speeds   *)
(* between stops, and the arrival times predicted from them; telemetry     *)
(* jobs run at the same time, and the daily job beside them.               *)
(***************************************************************************)
EXTENDS SpeedLearner

vars == <<pc, errors, storeVars, dailyVars, trackVars>>

Init == StatsInit /\ LearnerInit

StoreStep(r) ==
    \/ Start(r)
    \/ FindPrevious(r)
    \/ Store(r)
    \/ StoreCan(r)

TrackStep(r) ==
    \/ Match(r, TRUE)
    \/ Predict(r)
    \/ Learn(r)
    \/ Select(r)
    \/ Write(r)
    \/ UpdateDevice(r, TRUE)

TrackFails(r) ==
    \/ Match(r, FALSE)
    \/ PipelineFails(r)
    \/ LearnFails(r)
    \/ UpdateDevice(r, FALSE)

\* A statement of the database, or a call of Redis, fails.
Fails ==
    /\ errors < MaxErrors
    /\ errors' = errors + 1
    /\ \/ \E r \in Records : StoreFails(r) /\ UNCHANGED trackVars
       \/ \E r \in Records : TrackFails(r) /\ UNCHANGED <<storeVars, dailyVars>>
       \/ \E d \in Devices : DayFails(d) /\ UNCHANGED trackVars

Next ==
    \/ \E r \in Records : StoreStep(r) /\ UNCHANGED <<errors, trackVars>>
    \/ \E r \in Records : TrackStep(r) /\ UNCHANGED <<errors, storeVars, dailyVars>>
    \/ \E d \in Devices : ComputeDay(d) /\ UNCHANGED <<errors, trackVars>>
    \/ Fails
    \/ TwoMinutes /\ UNCHANGED <<pc, errors, storeVars, dailyVars>>

Spec == Init /\ [][Next]_vars

-----------------------------------------------------------------------------
RowOrNone == [avg : Nat, count : Nat \ {0}] \cup {None}

JobsTyped ==
    /\ pc \in [Records -> {"waiting", "done", "failed"} \cup ActiveStages]
    /\ failures \in [Records -> 0..Attempts]
    /\ sample \in [Records -> [key : Segments, speed : Nat] \cup {None}]
    /\ reading \in [Records -> RowOrNone]
    /\ \A r \in Records : pc[r] \in {"select", "write"} => sample[r] # None

SpeedsTyped ==
    /\ speeds \in [Segments -> RowOrNone]
    /\ taken \in [Segments -> Nat]
    /\ contested \subseteq Segments

MatchTyped ==
    /\ matched \in [Records -> {None} \cup
                       [shape : ShapeIds, nearest : StopNumbers, deviation : BOOLEAN]]
    /\ \A r \in Records : pc[r] \in MatchStages \ {"match"} =>
           matched[r] # None /\ matched[r].shape \in Candidates(Report[r].at)
    /\ stopTimes \in [Devices -> [ShapeIds -> [StopNumbers -> Nat]]]

TypeOK == JobsTyped /\ SpeedsTyped /\ MatchTyped

Count(k) == IF speeds[k] = None THEN 0 ELSE speeds[k].count

\* The average of a segment never counts a sample twice, and it counts every
\* sample unless two jobs were between the read and the write of that segment
\* at the same time (speed-learner.ts:38-77).
SamplesCounted ==
    \A k \in Segments : /\ Count(k) <= taken[k]
                        /\ k \notin contested => Count(k) = taken[k]

\* Whatever was learned, in whatever order: a bus is predicted to reach the
\* stops ahead one after the other, each after its dwell time at the one
\* before, and no average is faster or slower than a sample may be
\* (eta-predictor.ts:61-124, speed-learner.ts:31).
ArrivalsInOrder ==
    /\ \A d \in Devices : \A i, j \in DOMAIN etas[d] :
           i < j => etas[d][i] + DwellSeconds <= etas[d][j]
    /\ \A k \in Segments : speeds[k] # None => 1000 <= speeds[k].avg /\ speeds[k].avg <= 360000

\* A bus that was matched in the last two minutes keeps its route where another
\* runs along the same street, assigned or not, as long as no candidate is closer
\* or fits its heading better (route-matcher.ts:165).
SharedStreetKeepsRoute ==
    [][\A r \in Records : pc[r] = "match" /\ pc'[r] = "predict" =>
           LET at == Report[r].at  last == lastMatch[DeviceOf[r]]
               off(s) == Projections[at][s].distance
               turn(s) == LET i == Projections[at][s].segment  points == Shapes[s].points IN
                   angleDiff(Report[r].heading, segmentBearing(points[i], points[i + 1]))
           IN  /\ last # None
               /\ last \in Candidates(at)
               /\ \A s \in Candidates(at) :
                      off(last) <= off(s) /\ turn(last) <= turn(s)
               => matched'[r].shape = last]_vars

TimesOf(S) == {Report[x.rec].ts : x \in S}

\* The row of a day counts no more driving and standing than the day was long;
\* and when all rows of the device are of one day and one of those counted at
\* most lacks a distance, at least the way between any two of them, in whatever
\* order their jobs ran and however often they were tried
\* (telemetry.processor.ts:87-102, analytics.processor.ts:54-95).
DayRowsAreSound ==
    \A d \in Devices, date \in Dates : dayRows[d][date] # None =>
        LET row == dayRows[d][date]
            S == counted[d][date]
            linked == /\ \A x, y \in RowsOf(d) : DayOf(x.rec) = DayOf(y.rec)
                      /\ Cardinality({x \in S : x.distance = None}) <= 1
        IN  /\ row.drivingTime + row.idleTime <= GreatestOf(TimesOf(S)) - LeastOf(TimesOf(S))
            /\ linked => \A x, y \in S :
                   Distances[Report[x.rec].at][Report[y.rec].at] <= row.totalDistance
=============================================================================
