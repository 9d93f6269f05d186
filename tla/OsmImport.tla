------------------------------- MODULE OsmImport -------------------------------
(***************************************************************************)
(* The OpenStreetMap importer                                              *)
(* (packages/database/src/scripts/import-osm-routes.ts), a script that is  *)
(* run by hand, one run at a time: it fetches stops and routes and writes  *)
(* them to the tables stops, routes, route_shapes and route_stops without  *)
(* a transaction.                                                          *)
(*                                                                         *)
(* Each action is one write with the reads before it; a run may end        *)
(* between any two of them.  A dry run writes nothing and is left out.     *)
(***************************************************************************)
EXTENDS Integers, Sequences, FiniteSets

CONSTANTS
    Relations,    \* OSM ids of routes
    Nodes,        \* OSM ids of stops
    Codes,        \* values of the tag ref of a stop
    Geometries,   \* what resolveWayGeometry makes of the ways of a direction
    Datasets,     \* answers the Overpass API may give
    DbMayFail,    \* whether statements may fail besides conflicts
    MaxRuns,      \* bound: runs of the script
    None

\* A stop is its code, and a route its tags, which stand for their other
\* columns.  None is an empty geometry and a missing code.
Route == [tags : {"old", "new"}, members : Seq(Nodes),
          out : Geometries \cup {None}, in : Geometries \cup {None}]
Dataset == [stops : UNION {[S -> Codes \cup {None}] : S \in SUBSET Nodes},
            routes : UNION {[R -> Route] : R \in SUBSET Relations}]

ASSUME ImportAssumption ==
    /\ None \notin Codes \cup Geometries \cup Datasets \cup Relations \cup Nodes
    /\ \A d \in Datasets :
           /\ DOMAIN d = {"stops", "routes"}
           /\ DOMAIN d.stops \subseteq Nodes
           /\ \A s \in DOMAIN d.stops : d.stops[s] \in Codes \cup {None}
           /\ DOMAIN d.routes \subseteq Relations
           /\ \A r \in DOMAIN d.routes : d.routes[r] \in Route
    /\ DbMayFail \in BOOLEAN
    /\ MaxRuns \in Nat

VARIABLES
    stops,       \* rows of stops: codes by OSM id
    routes,      \* rows of routes: tags and length by OSM id
    shapes,      \* rows of route_shapes
    routeStops,  \* rows of route_stops, all of them OUTBOUND
    pc,          \* where the script is
    data,        \* what it fetched
    FORCE,       \* the flag --force
    todo,        \* stops, then routes, not yet imported
    route,       \* the route being imported
    next,        \* index of the next member in the list of its stops
    sequence,    \* the counter of the same name
    addedStops,  \* the set of the same name
    errors,      \* whether the script or a route was given up
    missed,      \* history: whether a failed insert was ignored
    runs         \* runs of the script so far

tables == <<stops, routes, shapes, routeStops>>
loopVars == <<next, sequence, addedStops>>
runVars == <<data, FORCE, runs>>
outcome == <<errors, missed>>
vars == <<tables, pc, todo, route, loopVars, outcome, runVars>>

Places == {"idle", "stops", "routes", "outbound", "inbound", "distance", "clear", "members"}

Init ==
    /\ stops = <<>> /\ routes = <<>>
    /\ shapes = {} /\ routeStops = {}
    /\ pc = "idle"
    /\ data = None /\ FORCE = FALSE /\ todo = {} /\ route = None
    /\ next = 1 /\ sequence = 1 /\ addedStops = {}
    /\ errors = FALSE /\ missed = FALSE
    /\ runs = 0

\* f with y at x, which may be new.
Put(f, x, y) == [z \in DOMAIN f \cup {x} |-> IF z = x THEN y ELSE f[z]]

-----------------------------------------------------------------------------
\* The script is started and has both answers of the Overpass API.
Fetch(d, force) ==
    /\ pc = "idle" /\ runs < MaxRuns
    /\ data' = d /\ FORCE' = force
    /\ pc' = "stops" /\ todo' = DOMAIN d.stops
    /\ errors' = FALSE /\ missed' = FALSE
    /\ runs' = runs + 1
    /\ UNCHANGED <<tables, route, loopVars>>

\* The script ends: rejected by the database outside a route, or killed.
Abort == /\ pc' = "idle" /\ todo' = {} /\ route' = None
         /\ errors' = TRUE
         /\ UNCHANGED loopVars

Conflict(s, code) == code # None /\ \E t \in DOMAIN stops \ {s} : stops[t] = code

\* Stops are inserted; those already there are updated if forced.  A code that
\* another stop has ends the script.
ImportStop(s) ==
    /\ pc = "stops" /\ s \in todo
    /\ IF s \in DOMAIN stops /\ ~FORCE
       THEN /\ todo' = todo \ {s}
            /\ UNCHANGED <<stops, pc, route, loopVars, errors>>
       ELSE IF Conflict(s, data.stops[s])
       THEN Abort /\ UNCHANGED stops
       ELSE /\ stops' = Put(stops, s, data.stops[s])
            /\ todo' = todo \ {s}
            /\ UNCHANGED <<pc, route, loopVars, errors>>
    /\ UNCHANGED <<routes, shapes, routeStops, missed, runVars>>

StopsDone ==
    /\ pc = "stops" /\ todo = {}
    /\ pc' = "routes" /\ todo' = DOMAIN data.routes
    /\ UNCHANGED <<tables, route, loopVars, outcome, runVars>>

\* The row of the route is inserted, or updated if forced.
ImportRoute(r) ==
    /\ pc = "routes" /\ r \in todo
    /\ route' = r /\ todo' = todo \ {r}
    /\ pc' = "outbound"
    /\ routes' = IF r \notin DOMAIN routes
                 THEN Put(routes, r, [tags |-> data.routes[r].tags, length |-> None])
                 ELSE IF FORCE THEN [routes EXCEPT ![r].tags = data.routes[r].tags]
                 ELSE routes
    /\ UNCHANGED <<stops, shapes, routeStops, loopVars, outcome, runVars>>

\* Mutant: the update misses its WHERE clause.
UpdateEveryShape(r, direction, geometry) ==
    IF \E row \in shapes : row.route = r
    THEN shapes' = {[row EXCEPT !.geometry = geometry] : row \in shapes}
    ELSE shapes' = shapes \cup {[route |-> r, direction |-> direction, geometry |-> geometry]}

\* The row to update is looked up by the route alone.
upsertShape(r, direction, geometry) ==
    LET mine == {row \in shapes : row.route = r} IN
    IF mine = {}
    THEN shapes' = shapes \cup {[route |-> r, direction |-> direction, geometry |-> geometry]}
    ELSE \E existing \in mine :
             shapes' = (shapes \ {existing}) \cup {[existing EXCEPT !.geometry = geometry]}

Outbound ==
    /\ pc = "outbound"
    /\ pc' = "inbound"
    /\ IF data.routes[route].out # None
       THEN upsertShape(route, "OUTBOUND", data.routes[route].out)
       ELSE UNCHANGED shapes
    /\ UNCHANGED <<stops, routes, routeStops, todo, route, loopVars, outcome, runVars>>

Inbound ==
    /\ pc = "inbound"
    /\ pc' = "distance"
    /\ IF data.routes[route].in # None
       THEN upsertShape(route, "INBOUND", data.routes[route].in)
       ELSE UNCHANGED shapes
    /\ UNCHANGED <<stops, routes, routeStops, todo, route, loopVars, outcome, runVars>>

\* The length of the route is that of its outbound geometry.
Distance ==
    /\ pc = "distance"
    /\ pc' = "clear"
    /\ routes' = IF data.routes[route].out # None
                 THEN [routes EXCEPT ![route].length = data.routes[route].out]
                 ELSE routes
    /\ UNCHANGED <<stops, shapes, routeStops, todo, route, loopVars, outcome, runVars>>

StopsOf(r) == {row \in routeStops : row.route = r}

\* Mutants: nothing, or in every run the route's associations are cleared.
ClearedNever == {}
ClearedAlways == StopsOf(route)

Cleared == IF FORCE THEN StopsOf(route) ELSE {}

\* Mutant: the counter goes on from the route before.
GoOn == next' = 1 /\ addedStops' = {} /\ UNCHANGED sequence

StartOver == next' = 1 /\ sequence' = 1 /\ addedStops' = {}

ClearStops ==
    /\ pc = "clear"
    /\ pc' = "members"
    /\ routeStops' = routeStops \ Cleared
    /\ StartOver
    /\ UNCHANGED <<stops, routes, shapes, todo, route, outcome, runVars>>

Members == data.routes[route].members

\* A member that is no known stop, or was added before, does not count.
SkipMember ==
    /\ pc = "members" /\ next <= Len(Members)
    /\ Members[next] \notin DOMAIN data.stops \ addedStops
    /\ next' = next + 1
    /\ UNCHANGED <<tables, pc, todo, route, sequence, addedStops, outcome, runVars>>

\* The insert, which takes the place of a row of the same route and stop.
Associate(s) ==
    routeStops' = {row \in routeStops : ~(row.route = route /\ row.stop = s)}
                      \cup {[route |-> route, stop |-> s, sequence |-> sequence,
                             along |-> data.routes[route].out]}

\* Mutant: the existing row is looked up by route and stop.
MayAddMissing(s) == FORCE \/ \A row \in StopsOf(route) : row.stop # s

\* Without the flag a stop is added only to a route without any.
MayAdd(s) == FORCE \/ StopsOf(route) = {}

\* An insert that fails is ignored.
AddMember ==
    /\ pc = "members" /\ next <= Len(Members)
    /\ Members[next] \in DOMAIN data.stops \ addedStops
    /\ addedStops' = addedStops \cup {Members[next]}
    /\ IF MayAdd(Members[next])
       THEN \/ Associate(Members[next]) /\ UNCHANGED missed
            \/ DbMayFail /\ missed' = TRUE /\ UNCHANGED routeStops
       ELSE UNCHANGED <<routeStops, missed>>
    /\ sequence' = sequence + 1
    /\ next' = next + 1
    /\ UNCHANGED <<stops, routes, shapes, pc, todo, route, errors, runVars>>

RouteDone ==
    /\ pc = "members" /\ next > Len(Members)
    /\ pc' = "routes" /\ route' = None
    /\ UNCHANGED <<tables, todo, loopVars, outcome, runVars>>

\* An error within a route is reported and the next route tried.
RouteFails ==
    /\ DbMayFail
    /\ \/ /\ pc = "routes" /\ \E r \in todo : todo' = todo \ {r}
       \/ /\ pc \in {"outbound", "inbound", "distance", "clear", "members"}
          /\ UNCHANGED todo
    /\ pc' = "routes" /\ route' = None
    /\ errors' = TRUE
    /\ UNCHANGED <<tables, missed, loopVars, runVars>>

Finish ==
    /\ pc = "routes" /\ todo = {}
    /\ pc' = "idle"
    /\ UNCHANGED <<tables, todo, route, loopVars, outcome, runVars>>

Killed ==
    /\ pc # "idle"
    /\ Abort
    /\ UNCHANGED <<tables, missed, runVars>>

Next ==
    \/ \E d \in Datasets, force \in BOOLEAN : Fetch(d, force)
    \/ \E s \in Nodes : ImportStop(s)
    \/ StopsDone
    \/ \E r \in Relations : ImportRoute(r)
    \/ Outbound \/ Inbound \/ Distance
    \/ ClearStops \/ SkipMember \/ AddMember \/ RouteDone
    \/ RouteFails
    \/ Finish
    \/ Killed

Spec == Init /\ [][Next]_vars
-----------------------------------------------------------------------------
TablesTyped ==
    /\ DOMAIN stops \subseteq Nodes
    /\ \A s \in DOMAIN stops : stops[s] \in Codes \cup {None}
    /\ DOMAIN routes \subseteq Relations
    /\ \A r \in DOMAIN routes : routes[r] \in [tags : {"old", "new"},
                                              length : Geometries \cup {None}]
    /\ shapes \subseteq [route : DOMAIN routes, direction : {"OUTBOUND", "INBOUND"},
                        geometry : Geometries]
    /\ routeStops \subseteq [route : DOMAIN routes, stop : DOMAIN stops,
                            sequence : Nat \ {0}, along : Geometries \cup {None}]

ScriptTyped ==
    /\ pc \in Places
    /\ data \in Datasets \cup {None} /\ FORCE \in BOOLEAN
    /\ todo \subseteq Nodes \cup Relations
    /\ route \in Relations \cup {None}
    /\ next \in Nat \ {0} /\ sequence \in 1..next /\ addedStops \subseteq Nodes
    /\ errors \in BOOLEAN /\ missed \in BOOLEAN
    /\ runs \in 0..MaxRuns

TypeOK == TablesTyped /\ ScriptTyped

\* The last run came to its end and reported no error.
Clean == pc = "idle" /\ runs > 0 /\ ~errors

\* The associations a list of members stands for: known stops in the order in
\* which they come first, numbered from 1.
Expected(r) ==
    LET m == data.routes[r].members
        counted == {n \in DOMAIN m : /\ m[n] \in DOMAIN data.stops
                                     /\ \A k \in 1..(n - 1) : m[k] # m[n]}
    IN  {[route |-> r, stop |-> m[n],
          sequence |-> Cardinality({k \in counted : k <= n}),
          along |-> data.routes[r].out] : n \in counted}

\* A forced run that reports no error, and ignored no failed insert, leaves the
\* stops, tags and associations of every route exactly as they were fetched,
\* whatever runs that were killed, failed or not forced left behind.
ForcedImportIsExact ==
    Clean /\ FORCE /\ ~missed =>
        /\ \A s \in DOMAIN data.stops : s \in DOMAIN stops /\ stops[s] = data.stops[s]
        /\ \A r \in DOMAIN data.routes :
               /\ routes[r].tags = data.routes[r].tags
               /\ StopsOf(r) = Expected(r)

OneWay(r) == (data.routes[r].out = None) # (data.routes[r].in = None)
GeometriesOf(r) == {row.geometry : row \in {x \in shapes : x.route = r}}

\* After any run that reports no error a route whose ways are all of one
\* direction has a shape, the one just fetched and no other, whatever earlier
\* imports stored or left undone (upsertShape finds its row by the route alone).
\* Nothing is said of the direction the row names, which stays that of its first
\* import, nor of routes with both directions, where the second takes the row of
\* the first (ShapePerDirection), nor of routes without ways, which keep theirs.
OneWayShapeIsCurrent ==
    Clean => \A r \in DOMAIN data.routes :
        OneWay(r) => GeometriesOf(r) = {data.routes[r].out, data.routes[r].in} \ {None}

\* Stops of a route have different sequence numbers, at any moment and after any
\* number of incomplete runs: the worker orders stops and names segments by them
\* (route-matcher.ts:87, speed-learner.ts:70).
SequencesAreUnique ==
    \A a, b \in routeStops :
        a.route = b.route /\ a.sequence = b.sequence => a = b

\* Without --force, a route that has stops keeps them as they are, and stops and
\* tags are not changed: what was corrected by hand is not undone.
UnforcedKeeps ==
    [][~FORCE =>
        /\ \A s \in DOMAIN stops : s \in DOMAIN stops' /\ stops'[s] = stops[s]
        /\ \A r \in DOMAIN routes :
               /\ r \in DOMAIN routes' /\ routes'[r].tags = routes[r].tags
               /\ StopsOf(r) # {} => StopsOf(r)' = StopsOf(r)]_vars

\* What the comment on the table says: a shape for each direction of a route.
ShapePerDirection ==
    Clean => \A r \in DOMAIN data.routes :
        LET d == data.routes[r]
            has(dir, g) == g # None =>
                [route |-> r, direction |-> dir, geometry |-> g] \in shapes
        IN  has("OUTBOUND", d.out) /\ has("INBOUND", d.in)
=============================================================================
