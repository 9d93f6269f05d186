------------------------------ MODULE RouteMatcher ------------------------------
(***************************************************************************)
(* Where a bus is on which route, and when it reaches its next stops: the  *)
(* computations of apps/worker/src/services/route-matcher.ts,              *)
(* progress-calculator.ts and eta-predictor.ts.                            *)
(*                                                                         *)
(* Points are <<east, north>> in metres, and the segments of a shape run   *)
(* along the axes, so that a projection is exact.  Distances are rounded   *)
(* down to metres, times to seconds; speeds are in metres per hour.        *)
(***************************************************************************)
EXTENDS Integers, Sequences, FiniteSets

CONSTANTS
    Places,       \* points at which positions are reported
    Shapes,       \* cachedShapes: sequence of [route, direction, points]
    RouteStops,   \* cachedStops: sequence of [route, direction, sequence, from],
                  \* from being distanceFromStart
    None

ShapeIds == DOMAIN Shapes

\* Sequence numbers of stops; 0 is the position before the first stop.
StopNumbers == {0} \cup {RouteStops[i].sequence : i \in DOMAIN RouteStops}

ASSUME MatcherAssumption ==
    /\ None \notin Nat
    /\ Places \subseteq Int \X Int
    /\ \A s \in ShapeIds : /\ Shapes[s].points \in Seq(Int \X Int)
                           /\ Len(Shapes[s].points) >= 2
    /\ StopNumbers \subseteq Nat
    /\ Len(RouteStops) \in Nat /\ DOMAIN RouteStops = 1..Len(RouteStops)
    /\ \A i \in DOMAIN RouteStops : RouteStops[i].from \in Int

LeastOf(S) == CHOOSE n \in S : \A m \in S : n <= m
GreatestOf(S) == CHOOSE n \in S : \A m \in S : n >= m

-----------------------------------------------------------------------------
\* Geometry.
Root(n) == CHOOSE k \in 0..n : k * k <= n /\ n < (k + 1) * (k + 1)

haversine(p, q) ==
    LET dx == p[1] - q[1]  dy == p[2] - q[2] IN Root(dx * dx + dy * dy)

Clamp(v, a, b) == LET low == LeastOf({a, b})  high == GreatestOf({a, b}) IN
    LeastOf({high, GreatestOf({low, v})})

pointToSegmentDistance(p, a, b) ==
    LET foot == <<Clamp(p[1], a[1], b[1]), Clamp(p[2], a[2], b[2])>> IN
    [distance |-> haversine(p, foot), travelled |-> haversine(a, foot)]

\* The first of the closest segments; travelled is the way along the shape.
pointToPolylineDistance(p, points) ==
    LET segments == 1..(Len(points) - 1)
        on == [i \in segments |-> pointToSegmentDistance(p, points[i], points[i + 1])]
        least == LeastOf({on[i].distance : i \in segments})
        best == LeastOf({i \in segments : on[i].distance = least})
        start[i \in segments] == IF i = 1 THEN 0
            ELSE LET before == start[i - 1] IN before + haversine(points[i - 1], points[i])
    IN  [distance |-> least, along |-> start[best] + on[best].travelled, segment |-> best]

segmentBearing(a, b) == IF a[1] = b[1] THEN (IF b[2] >= a[2] THEN 0 ELSE 180)
                        ELSE (IF b[1] > a[1] THEN 90 ELSE 270)

angleDiff(a, b) == LET diff == (IF a > b THEN a - b ELSE b - a) % 360 IN
    LeastOf({diff, 360 - diff})

-----------------------------------------------------------------------------
\* The way between two places, and each place on each shape, computed once.
Distances == [p \in Places |-> [q \in Places |-> haversine(p, q)]]

Projections == [p \in Places |-> [s \in ShapeIds |->
                   pointToPolylineDistance(p, Shapes[s].points)]]

Candidates(p) == {s \in ShapeIds : Projections[p][s].distance <= 100}

\* Mutant: an assignment weighs more than the route of last time.
BonusForAssigned(s, assigned, recent) ==
    (IF Shapes[s].route \in assigned THEN 22500 ELSE 0) + (IF s = recent THEN 18000 ELSE 0)

Bonus(s, assigned, recent) ==
    (IF Shapes[s].route \in assigned THEN 13500 ELSE 0) + (IF s = recent THEN 18000 ELSE 0)

\* The score of matchGpsToRoute, times 900: up to 40 for proximity, up to 25
\* for the heading, 15 for an assigned route, 20 for the route of last time.
Score(p, heading, assigned, recent, s) ==
    LET on == Projections[p][s]
        points == Shapes[s].points
        diff == angleDiff(heading, segmentBearing(points[on.segment], points[on.segment + 1]))
    IN  360 * GreatestOf({0, 100 - on.distance})
        + (IF diff < 45 THEN 500 * (45 - diff) ELSE 0)
        + Bonus(s, assigned, recent)

\* The candidate of the highest score, the first of several (one at most).
BestCandidates(p, heading, assigned, recent) ==
    LET score == [s \in Candidates(p) |-> Score(p, heading, assigned, recent, s)] IN
    {s \in Candidates(p) : \A t \in Candidates(p) :
         score[s] > score[t] \/ (score[s] = score[t] /\ s <= t)}

\* The number of the last stop that lies behind (one element), 0 when none does.
nearestStopSequences(s, along) ==
    LET behind == {i \in DOMAIN RouteStops :
                       /\ RouteStops[i].route = Shapes[s].route
                       /\ RouteStops[i].direction = Shapes[s].direction
                       /\ RouteStops[i].from <= along}
    IN  IF behind = {} THEN {0}
        ELSE {RouteStops[i].sequence : i \in {k \in behind : \A j \in behind : j <= k}}

-----------------------------------------------------------------------------
\* calculateProgress: the stops of the route that lie ahead, as indices of
\* RouteStops, which are in their order.
upcomingStops(s, along) ==
    {i \in DOMAIN RouteStops : /\ RouteStops[i].route = Shapes[s].route
                               /\ RouteStops[i].direction = Shapes[s].direction
                               /\ RouteStops[i].from > along}

DefaultSpeed == 20000
DwellSeconds == 30

\* historical is a learned speed or None; 0 stands for a standing bus.
getEstimatedSpeed(historical, current) ==
    LET effective == IF current > 0 THEN current ELSE DefaultSpeed IN
    IF historical # None
    THEN (6 * historical + 3 * effective + DefaultSpeed) \div 10
    ELSE IF current > 0 THEN (7 * current + 3 * DefaultSpeed) \div 10 ELSE DefaultSpeed

\* Mutant: the bus does not stop.
LeavesAtOnce(arrival) == arrival

\* The time at which the bus leaves a stop.
Leaves(arrival) == arrival + DwellSeconds

\* predictETAs: seconds from now to each upcoming stop.  learned[a][b] is the
\* learned speed from stop a to stop b, or None; 0 is the stop before the first.
predictETAs(s, along, nearest, learned, current) ==
    LET ahead == upcomingStops(s, along)
        before(i) == {j \in ahead : j < i}
        last(i) == IF before(i) = {} THEN 0 ELSE GreatestOf(before(i))
        previous(i) == IF last(i) = 0 THEN nearest ELSE RouteStops[last(i)].sequence
        segment(i) == RouteStops[i].from -
                          (IF last(i) = 0 THEN along ELSE RouteStops[last(i)].from)
        travel(i) == GreatestOf({0, (segment(i) * 3600) \div
                         getEstimatedSpeed(learned[previous(i)][RouteStops[i].sequence], current)})
        arrival[i \in ahead] == IF last(i) = 0 THEN travel(i)
                                ELSE LET left == arrival[last(i)] IN Leaves(left) + travel(i)
    IN  arrival
=============================================================================
