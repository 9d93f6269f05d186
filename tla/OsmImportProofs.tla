---------------------------- MODULE OsmImportProofs ----------------------------
(***************************************************************************)
(* Proofs about OsmImport, for any data the Overpass API may give, any     *)
(* number of runs with and without --force, and failures between any two   *)
(* statements.                                                             *)
(***************************************************************************)
EXTENDS OsmImport, FiniteSetTheorems, TLAPS

\* Places at which one route is being imported.
RoutePlaces == {"outbound", "inbound", "distance", "clear", "members"}

\* What the variables of a run refer to at each place.
RunInv ==
    /\ pc # "idle" => data \in Datasets
    /\ pc = "stops" => todo \subseteq DOMAIN data.stops
                       /\ DOMAIN data.stops \ todo \subseteq DOMAIN stops
    /\ pc \in RoutePlaces \cup {"routes"} => todo \subseteq DOMAIN data.routes
                                            /\ DOMAIN data.stops \subseteq DOMAIN stops
    /\ pc \in RoutePlaces => route \in DOMAIN data.routes /\ route \in DOMAIN routes

TypeInv == TypeOK /\ RunInv

\* What the assumption says of one answer.
LEMMA DatasetTyped ==
    ASSUME NEW d \in Datasets
    PROVE  /\ d # None
           /\ DOMAIN d.stops \subseteq Nodes /\ DOMAIN d.routes \subseteq Relations
           /\ \A s \in DOMAIN d.stops : d.stops[s] \in Codes \cup {None}
           /\ \A r \in DOMAIN d.routes :
                  /\ d.routes[r].tags \in {"old", "new"}
                  /\ d.routes[r].members \in Seq(Nodes)
                  /\ d.routes[r].out \in Geometries \cup {None}
                  /\ d.routes[r].in \in Geometries \cup {None}
  BY ImportAssumption DEF ImportAssumption, Route

-----------------------------------------------------------------------------
\* The initial states are typed.
LEMMA InitTyped == Init => TypeInv
<1> SUFFICES ASSUME Init PROVE TypeInv
  OBVIOUS
<1>1. TablesTyped
  BY DEF Init, TablesTyped
<1>2. ScriptTyped
  <2>1. MaxRuns \in Nat
    BY ImportAssumption DEF ImportAssumption
  <2>2. 1 \in Nat \ {0} /\ 1 \in 1..1 /\ 0 \in 0..MaxRuns
    BY <2>1
  <2> QED
    BY <2>2 DEF Init, ScriptTyped, Places
<1>3. RunInv
  BY DEF Init, RunInv, RoutePlaces
<1> QED
  BY <1>1, <1>2, <1>3 DEF TypeInv, TypeOK

\* Stops: rows are added or updated, no other table is touched.
LEMMA StopsTyped ==
    ASSUME TypeInv, NEW s \in Nodes, ImportStop(s)
    PROVE  TypeInv'
<1>1. TablesTyped /\ ScriptTyped /\ RunInv
  BY DEF TypeInv, TypeOK
<1>2. data \in Datasets /\ s \in DOMAIN data.stops /\ data.stops[s] \in Codes \cup {None}
  BY <1>1, DatasetTyped DEF ImportStop, RunInv
<1>3. CASE stops' = Put(stops, s, data.stops[s])
  <2>1. DOMAIN stops' = DOMAIN stops \cup {s}
        /\ \A t \in DOMAIN stops' : stops'[t] \in Codes \cup {None}
    BY <1>1, <1>2, <1>3 DEF TablesTyped, Put
  <2>2. TablesTyped'
    BY <1>1, <1>2, <2>1 DEF ImportStop, TablesTyped
  <2>3. ScriptTyped'
    BY <1>1, <1>3 DEF ImportStop, Abort, ScriptTyped, Places, loopVars, runVars
  <2>4. RunInv'
    BY <1>1, <1>2, <1>3, <2>1 DEF ImportStop, Abort, RunInv, RoutePlaces, loopVars, runVars
  <2> QED
    BY <2>2, <2>3, <2>4 DEF TypeInv, TypeOK
<1>4. CASE s \in DOMAIN stops /\ todo' = todo \ {s} /\ UNCHANGED <<stops, pc, route, loopVars, errors>>
  <2>1. TablesTyped'
    BY <1>1, <1>4 DEF ImportStop, TablesTyped
  <2>2. ScriptTyped'
    BY <1>1, <1>4 DEF ImportStop, ScriptTyped, loopVars, runVars
  <2>3. RunInv'
    BY <1>1, <1>2, <1>4 DEF ImportStop, RunInv, RoutePlaces, runVars
  <2> QED
    BY <2>1, <2>2, <2>3 DEF TypeInv, TypeOK
<1>5. CASE Abort /\ UNCHANGED stops
  <2>1. TablesTyped'
    BY <1>1, <1>5 DEF ImportStop, TablesTyped
  <2>2. ScriptTyped'
    BY <1>1, <1>5 DEF ImportStop, Abort, ScriptTyped, Places, loopVars, runVars
  <2>3. RunInv'
    BY <1>5 DEF Abort, RunInv, RoutePlaces
  <2> QED
    BY <2>1, <2>2, <2>3 DEF TypeInv, TypeOK
<1> QED
  BY <1>3, <1>4, <1>5 DEF ImportStop

\* Shapes: an upsert keeps them typed.
LEMMA UpsertTyped ==
    ASSUME TablesTyped, NEW r \in DOMAIN routes, NEW dir \in {"OUTBOUND", "INBOUND"},
           NEW g \in Geometries, upsertShape(r, dir, g)
    PROVE  shapes' \subseteq [route : DOMAIN routes, direction : {"OUTBOUND", "INBOUND"},
                            geometry : Geometries]
<1>1. CASE {row \in shapes : row.route = r} = {}
  BY <1>1 DEF TablesTyped, upsertShape
<1>2. CASE {row \in shapes : row.route = r} # {}
  <2>1. PICK existing \in shapes :
            shapes' = (shapes \ {existing}) \cup {[existing EXCEPT !.geometry = g]}
    BY <1>2 DEF upsertShape
  <2> QED
    BY <2>1 DEF TablesTyped
<1> QED
  BY <1>1, <1>2

\* The steps that write shapes.
LEMMA ShapesTyped == ASSUME TypeInv, Outbound \/ Inbound PROVE TypeInv'
<1>1. TablesTyped /\ ScriptTyped /\ RunInv
  BY DEF TypeInv, TypeOK
<1>2. /\ data \in Datasets /\ route \in DOMAIN data.routes /\ route \in DOMAIN routes
      /\ data.routes[route].out \in Geometries \cup {None}
      /\ data.routes[route].in \in Geometries \cup {None}
  BY <1>1, DatasetTyped DEF Outbound, Inbound, RunInv, RoutePlaces
<1>3. UNCHANGED <<stops, routes, routeStops>> /\ UNCHANGED <<todo, route, loopVars, outcome, runVars>>
  BY DEF Outbound, Inbound
<1>4. shapes' \subseteq [route : DOMAIN routes, direction : {"OUTBOUND", "INBOUND"},
                        geometry : Geometries]
  <2>1. CASE UNCHANGED shapes
    BY <1>1, <2>1 DEF TablesTyped
  <2>2. CASE data.routes[route].out # None /\ upsertShape(route, "OUTBOUND", data.routes[route].out)
    BY <1>1, <1>2, <2>2, UpsertTyped
  <2>3. CASE data.routes[route].in # None /\ upsertShape(route, "INBOUND", data.routes[route].in)
    BY <1>1, <1>2, <2>3, UpsertTyped
  <2> QED
    BY <2>1, <2>2, <2>3 DEF Outbound, Inbound
<1>5. TablesTyped'
  BY <1>1, <1>3, <1>4 DEF TablesTyped
<1>6. ScriptTyped'
  BY <1>1, <1>3 DEF Outbound, Inbound, ScriptTyped, Places, loopVars, runVars, outcome
<1>7. RunInv'
  BY <1>1, <1>3 DEF Outbound, Inbound, RunInv, RoutePlaces, runVars
<1> QED
  BY <1>5, <1>6, <1>7 DEF TypeInv, TypeOK

\* The steps that write routes.
LEMMA RoutesTyped ==
    ASSUME TypeInv, Distance \/ \E r \in Relations : ImportRoute(r)
    PROVE  TypeInv'
<1>1. TablesTyped /\ ScriptTyped /\ RunInv
  BY DEF TypeInv, TypeOK
<1>2. ASSUME NEW r \in Relations, ImportRoute(r) PROVE TypeInv'
  <2>1. data \in Datasets /\ r \in DOMAIN data.routes /\ data.routes[r].tags \in {"old", "new"}
    BY <1>1, <1>2, DatasetTyped DEF ImportRoute, RunInv
  <2>2. /\ DOMAIN routes' = DOMAIN routes \cup {r}
        /\ \A q \in DOMAIN routes' : routes'[q] \in [tags : {"old", "new"},
                                                    length : Geometries \cup {None}]
    BY <1>1, <1>2, <2>1 DEF ImportRoute, TablesTyped, Put
  <2>3. TablesTyped'
    BY <1>1, <1>2, <2>2 DEF ImportRoute, TablesTyped
  <2>4. ScriptTyped'
    BY <1>1, <1>2 DEF ImportRoute, ScriptTyped, Places, loopVars, runVars, outcome
  <2>5. RunInv'
    BY <1>1, <1>2, <2>1, <2>2 DEF ImportRoute, RunInv, RoutePlaces, runVars
  <2> QED
    BY <2>3, <2>4, <2>5 DEF TypeInv, TypeOK
<1>3. ASSUME Distance PROVE TypeInv'
  <2>1. /\ data \in Datasets /\ route \in DOMAIN data.routes /\ route \in DOMAIN routes
        /\ data.routes[route].out \in Geometries \cup {None}
    BY <1>1, <1>3, DatasetTyped DEF Distance, RunInv, RoutePlaces
  <2>2. /\ DOMAIN routes' = DOMAIN routes
        /\ \A q \in DOMAIN routes' : routes'[q] \in [tags : {"old", "new"},
                                                    length : Geometries \cup {None}]
    BY <1>1, <1>3, <2>1 DEF Distance, TablesTyped
  <2>3. TablesTyped'
    BY <1>1, <1>3, <2>2 DEF Distance, TablesTyped
  <2>4. ScriptTyped'
    BY <1>1, <1>3 DEF Distance, ScriptTyped, Places, loopVars, runVars, outcome
  <2>5. RunInv'
    BY <1>1, <1>3, <2>2 DEF Distance, RunInv, RoutePlaces, runVars
  <2> QED
    BY <2>3, <2>4, <2>5 DEF TypeInv, TypeOK
<1> QED
  BY <1>2, <1>3

\* The loop over the stops of a route.
LEMMA LoopTyped ==
    ASSUME TypeInv, ClearStops \/ SkipMember \/ AddMember \/ RouteDone
    PROVE  TypeInv'
<1>1. TablesTyped /\ ScriptTyped /\ RunInv
  BY DEF TypeInv, TypeOK
<1>2. /\ data \in Datasets /\ route \in DOMAIN data.routes /\ route \in DOMAIN routes
      /\ DOMAIN data.stops \subseteq DOMAIN stops
      /\ data.routes[route].out \in Geometries \cup {None}
  BY <1>1, DatasetTyped DEF ClearStops, SkipMember, AddMember, RouteDone, RunInv, RoutePlaces
<1>3. UNCHANGED <<stops, routes, shapes, todo, errors, runVars>>
  BY DEF ClearStops, SkipMember, AddMember, RouteDone, tables, outcome
<1>4. next \in Nat \ {0} /\ sequence \in 1..next
  BY <1>1 DEF ScriptTyped
<1>5. routeStops' \subseteq [route : DOMAIN routes, stop : DOMAIN stops,
                            sequence : Nat \ {0}, along : Geometries \cup {None}]
  <2>1. CASE routeStops' \subseteq routeStops
    BY <1>1, <2>1 DEF TablesTyped
  <2>2. CASE AddMember /\ Associate(Members[next])
    BY <1>1, <1>2, <1>4, <2>2 DEF AddMember, Associate, TablesTyped
  <2> QED
    BY <2>1, <2>2 DEF ClearStops, SkipMember, AddMember, RouteDone, tables
<1>6. TablesTyped'
  BY <1>1, <1>3, <1>5 DEF TablesTyped
<1>7. next' \in Nat \ {0} /\ sequence' \in 1..next' /\ addedStops' \subseteq Nodes
      /\ missed' \in BOOLEAN
  <2>1. CASE ClearStops
    BY <1>1, <2>1 DEF ClearStops, StartOver, ScriptTyped, outcome
  <2>2. CASE SkipMember \/ RouteDone
    BY <1>1, <1>4, <2>2 DEF SkipMember, RouteDone, ScriptTyped, loopVars, outcome
  <2>3. CASE AddMember
    <3>1. Members[next] \in Nodes
      BY <1>2, <2>3, DatasetTyped DEF AddMember
    <3>2. missed' \in BOOLEAN
      BY <1>1, <2>3 DEF AddMember, ScriptTyped
    <3> QED
      BY <1>1, <1>4, <2>3, <3>1, <3>2 DEF AddMember, ScriptTyped
  <2> QED
    BY <2>1, <2>2, <2>3
<1>8. ScriptTyped'
  BY <1>1, <1>3, <1>7 DEF ClearStops, SkipMember, AddMember, RouteDone, ScriptTyped, Places, runVars
<1>9. RunInv'
  BY <1>1, <1>2, <1>3 DEF ClearStops, SkipMember, AddMember, RouteDone, RunInv, RoutePlaces, runVars
<1> QED
  BY <1>6, <1>8, <1>9 DEF TypeInv, TypeOK

\* The steps that write nothing.
LEMMA ControlTyped ==
    ASSUME TypeInv,
           \/ \E d \in Datasets, force \in BOOLEAN : Fetch(d, force)
           \/ StopsDone \/ RouteFails \/ Finish \/ Killed \/ UNCHANGED vars
    PROVE  TypeInv'
<1>1. TablesTyped /\ ScriptTyped /\ RunInv
  BY DEF TypeInv, TypeOK
<1>2. UNCHANGED tables
  BY DEF Fetch, StopsDone, RouteFails, Finish, Killed, vars
<1>3. TablesTyped'
  BY <1>1, <1>2 DEF tables, TablesTyped
<1>4. ASSUME NEW d \in Datasets, NEW force \in BOOLEAN, Fetch(d, force) PROVE TypeInv'
  <2>1. ScriptTyped'
    <3>1. runs' \in 0..MaxRuns
      BY <1>1, <1>4, ImportAssumption DEF ImportAssumption, Fetch, ScriptTyped
    <3>2. todo' \subseteq Nodes
      BY <1>4, DatasetTyped DEF Fetch
    <3>3. /\ pc' \in Places /\ data' \in Datasets /\ FORCE' \in BOOLEAN
          /\ errors' \in BOOLEAN /\ missed' \in BOOLEAN
          /\ UNCHANGED <<route, next, sequence, addedStops>>
      BY <1>4 DEF Fetch, Places, loopVars
    <3>4. route' \in Relations \cup {None} /\ next' \in Nat \ {0}
          /\ sequence' \in 1..next' /\ addedStops' \subseteq Nodes
      BY <1>1, <3>3 DEF ScriptTyped
    <3> QED
      BY <3>1, <3>2, <3>3, <3>4 DEF ScriptTyped
  <2>2. RunInv'
    BY <1>4 DEF Fetch, RunInv, RoutePlaces
  <2> QED
    BY <1>3, <2>1, <2>2 DEF TypeInv, TypeOK
<1>5. CASE StopsDone
  <2>1. DOMAIN data.routes \subseteq Relations
    BY <1>1, <1>5, DatasetTyped DEF StopsDone, RunInv
  <2>2. ScriptTyped'
    BY <1>1, <1>5, <2>1 DEF StopsDone, ScriptTyped, Places, loopVars, outcome, runVars
  <2>3. RunInv'
    BY <1>1, <1>2, <1>5 DEF StopsDone, RunInv, RoutePlaces, runVars, tables
  <2> QED
    BY <1>3, <2>2, <2>3 DEF TypeInv, TypeOK
<1>6. CASE RouteFails \/ Finish \/ Killed \/ UNCHANGED vars
  <2>1. ScriptTyped'
    BY <1>1, <1>6 DEF RouteFails, Finish, Killed, Abort, ScriptTyped, Places,
                      loopVars, outcome, runVars, vars
  <2>2. RunInv'
    BY <1>1, <1>2, <1>6 DEF RouteFails, Finish, Killed, Abort, RunInv, RoutePlaces,
                            runVars, tables, vars
  <2> QED
    BY <1>3, <2>1, <2>2 DEF TypeInv, TypeOK
<1> QED
  BY <1>4, <1>5, <1>6

\* Every step keeps the types.
LEMMA NextTyped == TypeInv /\ [Next]_vars => TypeInv'
  BY StopsTyped, ShapesTyped, RoutesTyped, LoopTyped, ControlTyped DEF Next

\* Every variable keeps its type: rows of shapes and associations name routes and
\* stops there are, although no foreign key asks for it.
THEOREM ImportTypeCorrect == Spec => []TypeOK
<1>1. TypeInv => TypeOK
  BY DEF TypeInv
<1> QED
  BY <1>1, InitTyped, NextTyped, PTL DEF Spec

-----------------------------------------------------------------------------
\* While a forced run adds the stops of a route, those the route has were added
\* by the same loop and have smaller numbers than the next one gets.
NumberedBelow ==
    pc = "members" /\ FORCE => \A row \in StopsOf(route) : row.sequence < sequence

NumberInv == SequencesAreUnique /\ NumberedBelow

\* A stop that is added gets a number that no other stop of the route has.
LEMMA AddNumbered ==
    ASSUME TypeInv, NumberInv, AddMember
    PROVE  NumberInv'
<1>1. /\ sequence \in Nat /\ FORCE \in BOOLEAN
      /\ \A row \in routeStops : row.sequence \in Nat
  BY DEF TypeInv, TypeOK, ScriptTyped, TablesTyped
<1>2. UNCHANGED <<pc, route, FORCE>> /\ sequence' = sequence + 1 /\ pc = "members"
  BY DEF AddMember, runVars
<1>3. CASE UNCHANGED routeStops
  BY <1>1, <1>2, <1>3 DEF NumberInv, SequencesAreUnique, NumberedBelow, StopsOf
<1>4. CASE MayAdd(Members[next]) /\ Associate(Members[next])
  <2> DEFINE s == Members[next]
             new == [route |-> route, stop |-> s, sequence |-> sequence,
                     along |-> data.routes[route].out]
             kept == {row \in routeStops : ~(row.route = route /\ row.stop = s)}
  <2>1. routeStops' = kept \cup {new}
    BY <1>4 DEF Associate
  <2>2. new.route = route /\ new.sequence = sequence
    OBVIOUS
  <2>3. \A row \in kept : row \in routeStops /\ (row.route = route => row.sequence < sequence)
    BY <1>1, <1>2, <1>4 DEF NumberInv, NumberedBelow, MayAdd, StopsOf
  <2> HIDE DEF new, kept
  <2>4. SequencesAreUnique'
    <3> SUFFICES ASSUME NEW a \in kept \cup {new}, NEW b \in kept \cup {new},
                        a.route = b.route, a.sequence = b.sequence
                 PROVE  a = b
      BY <2>1 DEF SequencesAreUnique
    <3>1. CASE a \in kept /\ b \in kept
      BY <2>3, <3>1 DEF NumberInv, SequencesAreUnique
    <3>2. CASE a = new /\ b \in kept
      BY <1>1, <2>2, <2>3, <3>2
    <3>3. CASE a \in kept /\ b = new
      BY <1>1, <2>2, <2>3, <3>3
    <3> QED
      BY <3>1, <3>2, <3>3
  <2>5. NumberedBelow'
    <3>1. \A row \in kept \cup {new} : row.route = route => row.sequence < sequence + 1
      BY <1>1, <2>2, <2>3
    <3> QED
      BY <1>2, <2>1, <3>1 DEF NumberedBelow, StopsOf
  <2> QED
    BY <2>4, <2>5 DEF NumberInv
<1> QED
  BY <1>3, <1>4 DEF AddMember

\* Every step keeps the numbers of the stops of a route apart.
LEMMA NextNumbered == TypeInv /\ NumberInv /\ [Next]_vars => NumberInv'
<1> SUFFICES ASSUME TypeInv, NumberInv, [Next]_vars
             PROVE  NumberInv'
  OBVIOUS
<1>1. CASE AddMember
  BY <1>1, AddNumbered
<1>2. CASE ClearStops
  <2>1. /\ routeStops' \subseteq routeStops /\ route' = route /\ FORCE' = FORCE
        /\ FORCE => routeStops' = routeStops \ StopsOf(route)
    BY <1>2 DEF ClearStops, Cleared, runVars
  <2> QED
    BY <2>1 DEF NumberInv, SequencesAreUnique, NumberedBelow, StopsOf
<1>3. ASSUME UNCHANGED routeStops,
             pc' = "members" => UNCHANGED <<pc, route, FORCE, sequence>>
      PROVE  NumberInv'
  BY <1>3 DEF NumberInv, SequencesAreUnique, NumberedBelow, StopsOf
<1>4. ASSUME NEW d \in Datasets, NEW force \in BOOLEAN, Fetch(d, force) PROVE NumberInv'
  BY <1>3, <1>4 DEF Fetch, tables
<1>5. ASSUME NEW s \in Nodes, ImportStop(s) PROVE NumberInv'
  BY <1>3, <1>5 DEF ImportStop, Abort, loopVars, runVars
<1>6. ASSUME NEW r \in Relations, ImportRoute(r) PROVE NumberInv'
  BY <1>3, <1>6 DEF ImportRoute
<1>7. CASE StopsDone \/ Outbound \/ Inbound \/ Distance
  BY <1>3, <1>7 DEF StopsDone, Outbound, Inbound, Distance, tables
<1>8. CASE SkipMember \/ RouteDone
  BY <1>3, <1>8 DEF SkipMember, RouteDone, tables, runVars
<1>9. CASE RouteFails \/ Finish \/ Killed \/ UNCHANGED vars
  BY <1>3, <1>9 DEF RouteFails, Finish, Killed, Abort, tables, loopVars, runVars, vars
<1> QED
  BY <1>1, <1>2, <1>4, <1>5, <1>6, <1>7, <1>8, <1>9 DEF Next

\* Stops of a route never share a sequence number, whatever runs, with and
\* without --force, were killed or lost statements.
THEOREM SequencesUnique == Spec => []SequencesAreUnique
<1>1. Init => NumberInv
  BY DEF Init, NumberInv, SequencesAreUnique, NumberedBelow
<1>2. NumberInv => SequencesAreUnique
  BY DEF NumberInv
<1> QED
  BY <1>1, <1>2, InitTyped, NextTyped, NextNumbered, PTL DEF Spec

-----------------------------------------------------------------------------
\* What UnforcedKeeps says of one step.
Kept ==
    /\ \A s \in DOMAIN stops : s \in DOMAIN stops' /\ stops'[s] = stops[s]
    /\ \A r \in DOMAIN routes :
           /\ r \in DOMAIN routes' /\ routes'[r].tags = routes[r].tags
           /\ StopsOf(r) # {} => StopsOf(r)' = StopsOf(r)

\* Without the flag no step changes a stop, a tag, or the stops a route has.
LEMMA UnforcedStep ==
    ASSUME TypeInv, ~FORCE, [Next]_vars
    PROVE  Kept
<1>1. ASSUME UNCHANGED <<stops, routes, routeStops>> PROVE Kept
  BY <1>1 DEF Kept, StopsOf
<1>2. ASSUME NEW s \in Nodes, ImportStop(s) PROVE Kept
  <2>1. CASE UNCHANGED stops
    BY <1>1, <1>2, <2>1 DEF ImportStop
  <2>2. CASE s \notin DOMAIN stops /\ stops' = Put(stops, s, data.stops[s])
    <3>1. \A t \in DOMAIN stops : t \in DOMAIN stops' /\ stops'[t] = stops[t]
      BY <2>2 DEF Put
    <3> QED
      BY <1>2, <3>1 DEF ImportStop, Kept, StopsOf
  <2> QED
    BY <1>2, <2>1, <2>2 DEF ImportStop, Abort
<1>3. ASSUME NEW r \in Relations, ImportRoute(r) PROVE Kept
  <2>1. CASE UNCHANGED routes
    BY <1>1, <1>3, <2>1 DEF ImportRoute
  <2>2. CASE r \notin DOMAIN routes
             /\ routes' = Put(routes, r, [tags |-> data.routes[r].tags, length |-> None])
    <3>1. \A q \in DOMAIN routes : q \in DOMAIN routes' /\ routes'[q] = routes[q]
      BY <2>2 DEF Put
    <3> QED
      BY <1>3, <3>1 DEF ImportRoute, Kept, StopsOf
  <2> QED
    BY <1>3, <2>1, <2>2 DEF ImportRoute
<1>4. CASE Distance
  <2>1. \A r \in DOMAIN routes : r \in DOMAIN routes' /\ routes'[r].tags = routes[r].tags
    BY <1>4 DEF Distance, TypeInv, TypeOK, TablesTyped
  <2> QED
    BY <1>4, <2>1 DEF Distance, Kept, StopsOf
<1>5. CASE ClearStops
  BY <1>1, <1>5 DEF ClearStops, Cleared
<1>6. CASE AddMember
  <2>1. CASE UNCHANGED routeStops
    BY <1>1, <1>6, <2>1 DEF AddMember
  <2>2. CASE StopsOf(route) = {} /\ Associate(Members[next])
    <3>1. \A r : StopsOf(r) # {} => StopsOf(r)' = StopsOf(r)
      <4> SUFFICES ASSUME NEW r, r # route
                   PROVE  StopsOf(r)' = StopsOf(r)
        BY <2>2
      <4> QED
        BY <2>2 DEF Associate, StopsOf
    <3> QED
      BY <1>6, <3>1 DEF AddMember, Kept
  <2> QED
    BY <1>6, <2>1, <2>2 DEF AddMember, MayAdd
<1>7. ASSUME NEW d \in Datasets, NEW force \in BOOLEAN, Fetch(d, force) PROVE Kept
  BY <1>1, <1>7 DEF Fetch, tables
<1>8. CASE \/ StopsDone \/ Outbound \/ Inbound \/ SkipMember \/ RouteDone
           \/ RouteFails \/ Finish \/ Killed \/ UNCHANGED vars
  BY <1>1, <1>8 DEF StopsDone, Outbound, Inbound, SkipMember, RouteDone, RouteFails,
                    Finish, Killed, tables, vars
<1> QED
  BY <1>2, <1>3, <1>4, <1>5, <1>6, <1>7, <1>8 DEF Next

\* A run without --force changes no stop and no tag there is, and no stop of a
\* route that has stops.
THEOREM UnforcedImportKeeps == Spec => UnforcedKeeps
<1>1. TypeInv /\ [Next]_vars => [~FORCE => Kept]_vars
  BY UnforcedStep
<1>2. [][~FORCE => Kept]_vars => UnforcedKeeps
  BY DEF Kept, UnforcedKeeps
<1> QED
  BY <1>1, <1>2, InitTyped, NextTyped, PTL DEF Spec

-----------------------------------------------------------------------------
\* A route has one shape at most: a row is only inserted where there is none.
OneShape == \A a, b \in shapes : a.route = b.route => a = b

Fetched(r) == {data.routes[r].out, data.routes[r].in} \ {None}

\* The routes of which the run has come past both upserts.
Imported ==
    DOMAIN data.routes \ (todo \cup (IF pc \in {"outbound", "inbound"} THEN {route} ELSE {}))

ImportedCurrent ==
    pc \in RoutePlaces \cup {"routes"} /\ ~errors =>
        \A r \in Imported : OneWay(r) => GeometriesOf(r) = Fetched(r)

\* Between the two upserts the outbound geometry is the only one.
OutboundCurrent ==
    pc = "inbound" /\ ~errors /\ data.routes[route].out # None =>
        GeometriesOf(route) = {data.routes[route].out}

ShapeInv == OneShape /\ ImportedCurrent /\ OutboundCurrent /\ OneWayShapeIsCurrent

\* After an upsert the route has the geometry given and no other, and other routes
\* keep theirs.
LEMMA UpsertOne ==
    ASSUME OneShape, TablesTyped, NEW r, NEW dir, NEW g, upsertShape(r, dir, g)
    PROVE  /\ OneShape'
           /\ GeometriesOf(r)' = {g}
           /\ \A q : q # r => GeometriesOf(q)' = GeometriesOf(q)
<1>1. CASE {row \in shapes : row.route = r} = {}
  <2> DEFINE new == [route |-> r, direction |-> dir, geometry |-> g]
  <2>1. shapes' = shapes \cup {new} /\ new.route = r /\ new.geometry = g
    BY <1>1 DEF upsertShape
  <2>2. \A row \in shapes : row.route # r
    BY <1>1
  <2> HIDE DEF new
  <2> QED
    BY <2>1, <2>2 DEF OneShape, GeometriesOf
<1>2. CASE {row \in shapes : row.route = r} # {}
  <2>1. PICK existing \in shapes :
            existing.route = r
            /\ shapes' = (shapes \ {existing}) \cup {[existing EXCEPT !.geometry = g]}
    BY <1>2 DEF upsertShape
  <2> DEFINE new == [existing EXCEPT !.geometry = g]
  <2>2. new.route = r /\ new.geometry = g
    BY <2>1 DEF TablesTyped
  <2>3. shapes' = (shapes \ {existing}) \cup {new}
    BY <2>1
  <2>4. \A row \in shapes \ {existing} : row.route # r
    BY <2>1 DEF OneShape
  <2> HIDE DEF new
  <2>5. OneShape'
    BY <2>2, <2>3, <2>4 DEF OneShape
  <2>6. GeometriesOf(r)' = {g}
    BY <2>2, <2>3, <2>4 DEF GeometriesOf
  <2>7. \A q : q # r => GeometriesOf(q)' = GeometriesOf(q)
    BY <2>1, <2>2, <2>3 DEF GeometriesOf
  <2> QED
    BY <2>5, <2>6, <2>7
<1> QED
  BY <1>1, <1>2

\* The steps that write shapes; x is the route at hand.
LEMMA ShapesCurrent ==
    ASSUME TypeInv, ShapeInv, Outbound \/ Inbound, NEW x, x = route
    PROVE  ShapeInv'
<1> DEFINE out == data.routes[x].out
           in == data.routes[x].in
<1>1. /\ TablesTyped /\ OneShape /\ ImportedCurrent /\ OutboundCurrent
      /\ x \in DOMAIN data.routes
  BY DEF TypeInv, TypeOK, RunInv, RoutePlaces, ShapeInv, Outbound, Inbound
<1>2. /\ data' = data /\ todo' = todo /\ route' = x /\ errors' = errors
      /\ pc' \in {"inbound", "distance"}
  BY DEF Outbound, Inbound, outcome, runVars
<1>3. OneWayShapeIsCurrent'
  BY <1>2 DEF OneWayShapeIsCurrent, Clean
<1>4. ASSUME ~errors, NEW r \in DOMAIN data.routes \ todo, r # x, OneWay(r)
      PROVE  GeometriesOf(r) = Fetched(r)
  BY <1>1, <1>4 DEF ImportedCurrent, Imported, RoutePlaces, Outbound, Inbound
<1>5. ASSUME OneShape', \A q : q # x => GeometriesOf(q)' = GeometriesOf(q),
             ~errors /\ OneWay(x) /\ pc' = "distance" => GeometriesOf(x)' = Fetched(x),
             ~errors /\ out # None /\ pc' = "inbound" => GeometriesOf(x)' = {out}
      PROVE  ShapeInv'
  <2>1. ASSUME ~errors, NEW r \in DOMAIN data.routes \ todo, OneWay(r),
               r # x \/ pc' = "distance"
        PROVE  GeometriesOf(r)' = Fetched(r)
    BY <1>4, <1>5, <2>1
  <2>2. ImportedCurrent'
    BY <1>2, <2>1 DEF ImportedCurrent, Imported, OneWay, Fetched
  <2>3. OutboundCurrent'
    BY <1>2, <1>5 DEF OutboundCurrent, GeometriesOf
  <2> QED
    BY <1>3, <1>5, <2>2, <2>3 DEF ShapeInv
<1>6. ASSUME NEW dir, NEW g, upsertShape(x, dir, g)
      PROVE  /\ OneShape'
             /\ GeometriesOf(x)' = {g}
             /\ \A q : q # x => GeometriesOf(q)' = GeometriesOf(q)
  BY <1>1, <1>6, UpsertOne
<1>7. CASE Outbound
  <2>1. pc' = "inbound" /\ IF out # None THEN upsertShape(x, "OUTBOUND", out) ELSE shapes' = shapes
    BY <1>7 DEF Outbound
  <2>2. CASE out # None
    <3>1. PICK h : h = out
      OBVIOUS
    <3>2. upsertShape(x, "OUTBOUND", h)
      BY <2>1, <2>2, <3>1
    <3> QED
      BY <1>5, <1>6, <2>1, <3>1, <3>2
  <2>3. CASE out = None
    <3>1. shapes' = shapes
      BY <2>1, <2>3
    <3>2. OneShape' /\ \A q : GeometriesOf(q)' = GeometriesOf(q)
      BY <1>1, <3>1 DEF OneShape, GeometriesOf
    <3> QED
      BY <1>5, <2>1, <2>3, <3>2
  <2> QED
    BY <2>2, <2>3
<1>8. CASE Inbound
  <2>1. /\ pc = "inbound" /\ pc' = "distance"
        /\ IF in # None THEN upsertShape(x, "INBOUND", in) ELSE shapes' = shapes
    BY <1>8 DEF Inbound
  <2>2. CASE in # None
    <3>1. PICK h : h = in
      OBVIOUS
    <3>2. upsertShape(x, "INBOUND", h)
      BY <2>1, <2>2, <3>1
    <3>3. OneWay(x) => Fetched(x) = {h}
      BY <2>2, <3>1 DEF OneWay, Fetched
    <3> QED
      BY <1>5, <1>6, <2>1, <3>2, <3>3
  <2>3. CASE in = None
    <3>1. shapes' = shapes
      BY <2>1, <2>3
    <3>2. OneShape' /\ \A q : GeometriesOf(q)' = GeometriesOf(q)
      BY <1>1, <3>1 DEF OneShape, GeometriesOf
    <3>3. ASSUME ~errors, OneWay(x) PROVE GeometriesOf(x) = Fetched(x)
      <4>1. out # None
        BY <2>3, <3>3 DEF OneWay
      <4>2. GeometriesOf(x) = {out}
        BY <1>1, <2>1, <3>3, <4>1 DEF OutboundCurrent
      <4> QED
        BY <2>3, <4>1, <4>2 DEF Fetched
    <3> QED
      BY <1>5, <2>1, <3>2, <3>3
  <2> QED
    BY <2>2, <2>3
<1> QED
  BY <1>7, <1>8

\* Every step keeps the shapes of the imported routes current.
LEMMA NextCurrent == TypeInv /\ ShapeInv /\ [Next]_vars => ShapeInv'
<1> SUFFICES ASSUME TypeInv, ShapeInv, [Next]_vars
             PROVE  ShapeInv'
  OBVIOUS
<1>0. /\ errors \in BOOLEAN
      /\ OneShape /\ ImportedCurrent /\ OutboundCurrent /\ OneWayShapeIsCurrent
  BY DEF TypeInv, TypeOK, ScriptTyped, ShapeInv
<1>1. CASE Outbound \/ Inbound
  BY <1>1, ShapesCurrent
<1>2. ASSUME UNCHANGED <<shapes, data, errors>>, pc # "idle", pc' \notin {"idle", "inbound"},
             pc' \in RoutePlaces \cup {"routes"} =>
                 pc \in RoutePlaces \cup {"routes"} /\ Imported' \subseteq Imported
      PROVE  ShapeInv'
  BY <1>0, <1>2 DEF ShapeInv, OneShape, ImportedCurrent, OutboundCurrent, OneWay, Fetched,
                    GeometriesOf, OneWayShapeIsCurrent, Clean
<1>3. ASSUME UNCHANGED shapes, errors' = TRUE
      PROVE  ShapeInv'
  BY <1>0, <1>3 DEF ShapeInv, OneShape, ImportedCurrent, OutboundCurrent, OneWayShapeIsCurrent,
                    Clean
<1>4. ASSUME NEW d \in Datasets, NEW force \in BOOLEAN, Fetch(d, force) PROVE ShapeInv'
  <2>1. shapes' = shapes /\ pc' = "stops"
    BY <1>4 DEF Fetch, tables
  <2> QED
    BY <1>0, <2>1 DEF ShapeInv, OneShape, ImportedCurrent, OutboundCurrent,
                      OneWayShapeIsCurrent, Clean, RoutePlaces
<1>5. ASSUME NEW s \in Nodes, ImportStop(s) PROVE ShapeInv'
  <2>1. CASE Abort
    BY <1>3, <1>5, <2>1 DEF ImportStop, Abort
  <2>2. CASE UNCHANGED <<pc, errors>>
    BY <1>2, <1>5, <2>2 DEF ImportStop, runVars, RoutePlaces
  <2> QED
    BY <1>5, <2>1, <2>2 DEF ImportStop
<1>6. CASE StopsDone
  <2>1. shapes' = shapes /\ pc' = "routes" /\ todo' = DOMAIN data'.routes
    BY <1>6 DEF StopsDone, tables, runVars
  <2> QED
    BY <1>0, <2>1 DEF ShapeInv, OneShape, ImportedCurrent, OutboundCurrent, Imported,
                      OneWayShapeIsCurrent, Clean
<1>7. ASSUME NEW r \in Relations, ImportRoute(r) PROVE ShapeInv'
  BY <1>2, <1>7 DEF ImportRoute, runVars, outcome, Imported, RoutePlaces
<1>8. CASE Distance \/ ClearStops \/ SkipMember \/ AddMember \/ RouteDone
  BY <1>2, <1>8 DEF Distance, ClearStops, SkipMember, AddMember, RouteDone, tables, runVars,
                    outcome, Imported, RoutePlaces
<1>9. CASE RouteFails \/ Killed
  BY <1>3, <1>9 DEF RouteFails, Killed, Abort, tables
<1>10. CASE Finish
  <2>1. UNCHANGED <<shapes, data, errors>> /\ pc' = "idle" /\ pc = "routes" /\ todo = {}
    BY <1>10 DEF Finish, tables, runVars, outcome
  <2>2. ~errors => \A r \in DOMAIN data.routes : OneWay(r) => GeometriesOf(r) = Fetched(r)
    BY <1>0, <2>1 DEF ImportedCurrent, Imported
  <2> QED
    BY <1>0, <2>1, <2>2 DEF ShapeInv, OneShape, ImportedCurrent, OutboundCurrent, RoutePlaces,
                            OneWayShapeIsCurrent, Clean, OneWay, Fetched, GeometriesOf
<1>11. CASE UNCHANGED vars
  BY <1>0, <1>11 DEF vars, tables, runVars, outcome, ShapeInv, OneShape, ImportedCurrent, Imported,
                     OutboundCurrent, OneWay, Fetched, GeometriesOf, OneWayShapeIsCurrent, Clean
<1> QED
  BY <1>1, <1>4, <1>5, <1>6, <1>7, <1>8, <1>9, <1>10, <1>11 DEF Next

\* After any run that reports no error, a route whose ways are all of one direction
\* has a shape, the one just fetched and no other.
THEOREM OneWayShapesCurrent == Spec => []OneWayShapeIsCurrent
<1>1. Init => ShapeInv
  BY DEF Init, ShapeInv, OneShape, ImportedCurrent, OutboundCurrent, RoutePlaces,
         OneWayShapeIsCurrent, Clean
<1>2. ShapeInv => OneWayShapeIsCurrent
  BY DEF ShapeInv
<1> QED
  BY <1>1, <1>2, InitTyped, NextTyped, NextCurrent, PTL DEF Spec

-----------------------------------------------------------------------------
\* The members of a route that count, and the association each stands for.
Counted(r) ==
    {n \in DOMAIN data.routes[r].members :
        /\ data.routes[r].members[n] \in DOMAIN data.stops
        /\ \A k \in 1..(n - 1) : data.routes[r].members[k] # data.routes[r].members[n]}

UpTo(r, n) == {k \in Counted(r) : k <= n}

Association(r, n) ==
    [route |-> r, stop |-> data.routes[r].members[n],
     sequence |-> Cardinality(UpTo(r, n)), along |-> data.routes[r].out]

\* What the loop over the members has added so far is what the data asks for.
LEMMA ExpectedAssociations ==
    ASSUME NEW r
    PROVE  Expected(r) = {Association(r, n) : n \in Counted(r)}
  BY DEF Expected, Association, Counted, UpTo

\* A forced run that has met no error and ignored no failed insert.
Exacting == pc # "idle" /\ FORCE /\ ~errors /\ ~missed

StopsExact ==
    pc # "idle" /\ FORCE /\ ~errors =>
        \A s \in DOMAIN data.stops \ (IF pc = "stops" THEN todo ELSE {}) :
            s \in DOMAIN stops /\ stops[s] = data.stops[s]

TagsExact ==
    pc \in RoutePlaces \cup {"routes"} /\ FORCE /\ ~errors =>
        \A r \in DOMAIN data.routes \ todo :
            r \in DOMAIN routes /\ routes[r].tags = data.routes[r].tags

\* The routes the run is through with.
Finished == DOMAIN data.routes \ (todo \cup (IF pc \in RoutePlaces THEN {route} ELSE {}))

FinishedExact ==
    pc \in RoutePlaces \cup {"routes"} /\ Exacting =>
        \A r \in Finished : StopsOf(r) = Expected(r)

\* Within a route, what was associated is what the members before the next one
\* stand for, and the stops added are those among them that are known.
LoopExact ==
    pc = "members" /\ Exacting =>
        LET done == UpTo(route, next - 1) IN
        /\ StopsOf(route) = {Association(route, n) : n \in done}
        /\ addedStops = {Members[n] : n \in {k \in 1..(next - 1) : Members[k] \in DOMAIN data.stops}}
        /\ sequence = Cardinality(done) + 1

ExactInv == StopsExact /\ TagsExact /\ FinishedExact /\ LoopExact /\ ForcedImportIsExact

\* Of the members up to the next one: the next one counts or it does not.
LEMMA UpToNext ==
    ASSUME TypeInv, pc = "members", next <= Len(Members)
    PROVE  /\ next \in Nat \ {0} /\ next \in DOMAIN Members /\ Len(Members) \in Nat
           /\ UpTo(route, next - 1) \subseteq 1..(next - 1)
           /\ Cardinality(UpTo(route, next - 1)) \in Nat
           /\ next \in Counted(route) =>
                  /\ UpTo(route, next) = UpTo(route, next - 1) \cup {next}
                  /\ Cardinality(UpTo(route, next)) = Cardinality(UpTo(route, next - 1)) + 1
           /\ next \notin Counted(route) => UpTo(route, next) = UpTo(route, next - 1)
<1>1. /\ next \in Nat \ {0} /\ next \in DOMAIN Members
      /\ Counted(route) \subseteq 1..Len(Members) /\ Len(Members) \in Nat
  <2>1. data \in Datasets /\ route \in DOMAIN data.routes /\ next \in Nat \ {0}
    BY DEF TypeInv, TypeOK, ScriptTyped, RunInv, RoutePlaces
  <2>2. Members \in Seq(Nodes)
    BY <2>1, DatasetTyped DEF Members
  <2>3. DOMAIN Members = 1..Len(Members) /\ Len(Members) \in Nat
    BY <2>2
  <2> QED
    BY <2>1, <2>3 DEF Counted, Members
<1>2. UpTo(route, next - 1) \subseteq 1..(next - 1)
  BY <1>1 DEF UpTo
<1>3. IsFiniteSet(UpTo(route, next - 1)) /\ Cardinality(UpTo(route, next - 1)) \in Nat
  <2>1. IsFiniteSet(1..(next - 1))
    BY <1>1, FS_Interval
  <2> QED
    BY <1>2, <2>1, FS_Subset, FS_CardinalityType
<1>4. /\ next \in Counted(route) => UpTo(route, next) = UpTo(route, next - 1) \cup {next}
      /\ next \notin Counted(route) => UpTo(route, next) = UpTo(route, next - 1)
      /\ next \notin UpTo(route, next - 1)
  BY <1>1 DEF UpTo
<1>5. next \in Counted(route) =>
          Cardinality(UpTo(route, next)) = Cardinality(UpTo(route, next - 1)) + 1
  BY <1>3, <1>4, FS_AddElement
<1> QED
  BY <1>1, <1>2, <1>3, <1>4, <1>5

\* The next member counts exactly if it is known and was not added.
LEMMA NextCounts ==
    ASSUME TypeInv, LoopExact, Exacting, pc = "members", next <= Len(Members)
    PROVE  next \in Counted(route) <=> Members[next] \in DOMAIN data.stops \ addedStops
<1>1. /\ next \in DOMAIN Members
      /\ addedStops = {Members[n] : n \in {k \in 1..(next - 1) : Members[k] \in DOMAIN data.stops}}
  BY UpToNext DEF LoopExact
<1> QED
  BY <1>1 DEF Counted, Members

\* What a step leaves alone while it changes no data.
LEMMA SameData ==
    ASSUME UNCHANGED data
    PROVE  /\ \A r : Counted(r)' = Counted(r) /\ Expected(r)' = Expected(r)
           /\ \A r, n : UpTo(r, n)' = UpTo(r, n) /\ Association(r, n)' = Association(r, n)
  BY DEF Counted, Expected, UpTo, Association

\* A member that is unknown or was already added changes nothing that is expected.
LEMMA SkipExact ==
    ASSUME TypeInv, ExactInv, SkipMember, Exacting
    PROVE  LoopExact'
<1>1. /\ pc = "members" /\ next <= Len(Members) /\ next' = next + 1
      /\ UNCHANGED <<data, route, routeStops, sequence, addedStops>>
      /\ Members[next] \notin DOMAIN data.stops \ addedStops /\ LoopExact
  BY DEF SkipMember, ExactInv, tables, runVars
<1>2. next \notin Counted(route) /\ UpTo(route, next) = UpTo(route, next - 1)
  BY <1>1, NextCounts, UpToNext
<1>3. next \in Nat \ {0} /\ Len(Members) \in Nat /\ next \in DOMAIN Members
  BY <1>1, UpToNext
<1>4. UpTo(route, next - 1)' = UpTo(route, next - 1)
  BY <1>1, <1>2, <1>3, SameData DEF UpTo
<1>5. StopsOf(route)' = {Association(route, n)' : n \in UpTo(route, next - 1)'}
  <2>1. StopsOf(route) = {Association(route, n) : n \in UpTo(route, next - 1)}
    BY <1>1 DEF LoopExact
  <2>2. StopsOf(route)' = StopsOf(route)
    BY <1>1 DEF StopsOf
  <2> QED
    BY <1>1, <1>4, <2>1, <2>2, SameData
<1>6. addedStops = {Members[n] : n \in {k \in 1..next : Members[k] \in DOMAIN data.stops}}
  <2>1. addedStops = {Members[n] : n \in {k \in 1..(next - 1) : Members[k] \in DOMAIN data.stops}}
    BY <1>1 DEF LoopExact
  <2>2. 1..next = 1..(next - 1) \cup {next}
    BY <1>3
  <2>3. Members[next] \in DOMAIN data.stops => Members[next] \in addedStops
    BY <1>1
  <2> DEFINE known == {k \in 1..(next - 1) : Members[k] \in DOMAIN data.stops}
             now == {k \in 1..next : Members[k] \in DOMAIN data.stops}
  <2>4. Members[next] \in DOMAIN data.stops => now = known \cup {next}
    BY <2>2
  <2>5. Members[next] \notin DOMAIN data.stops => now = known
    BY <2>2
  <2>6. addedStops = {Members[n] : n \in known}
    BY <2>1
  <2> HIDE DEF known, now
  <2>7. addedStops = {Members[n] : n \in now}
    BY <2>3, <2>4, <2>5, <2>6
  <2> QED
    BY <2>7 DEF now
<1>7. addedStops' = {Members[n] : n \in {k \in 1..(next - 1) : Members[k] \in DOMAIN data.stops}}'
  <2>1. next' - 1 = next
    BY <1>1, <1>3
  <2> QED
    BY <1>1, <1>6, <2>1 DEF Members
<1>8. sequence' = Cardinality(UpTo(route, next - 1)') + 1
  BY <1>1, <1>4 DEF LoopExact
<1> QED
  BY <1>5, <1>7, <1>8 DEF LoopExact

\* A known stop that was not yet added adds the one association expected for it.
LEMMA AddExact ==
    ASSUME TypeInv, ExactInv, AddMember, Exacting, UNCHANGED missed
    PROVE  LoopExact'
<1> DEFINE s == Members[next]
           done == UpTo(route, next - 1)
           new == Association(route, next)
<1>1. /\ pc = "members" /\ next <= Len(Members) /\ next' = next + 1 /\ sequence' = sequence + 1
      /\ UNCHANGED <<data, route>> /\ addedStops' = addedStops \cup {s}
      /\ s \in DOMAIN data.stops \ addedStops /\ LoopExact /\ FORCE
  BY DEF AddMember, ExactInv, runVars, Exacting
<1>2. next \in Counted(route) /\ UpTo(route, next) = done \cup {next}
      /\ Cardinality(UpTo(route, next)) = Cardinality(done) + 1
      /\ done \subseteq 1..(next - 1) /\ Cardinality(done) \in Nat
  BY <1>1, NextCounts, UpToNext
<1>3. next \in Nat \ {0} /\ Len(Members) \in Nat
  BY <1>1, UpToNext
<1>4. UpTo(route, next - 1)' = done \cup {next}
  BY <1>1, <1>2, <1>3, SameData DEF UpTo
<1>5. sequence = Cardinality(done) + 1 /\ sequence = Cardinality(UpTo(route, next))
  BY <1>1, <1>2 DEF LoopExact
<1>6. Associate(s)
  BY <1>1 DEF AddMember, Exacting, MayAdd
<1>7. StopsOf(route)' = StopsOf(route) \cup {new}
  <2>1. new = [route |-> route, stop |-> s, sequence |-> sequence, along |-> data.routes[route].out]
    BY <1>5 DEF Association, Members
  <2>2. routeStops' = {row \in routeStops : ~(row.route = route /\ row.stop = s)} \cup {new}
    BY <1>6, <2>1 DEF Associate
  <2>3. \A row \in StopsOf(route) : row.stop # s
    <3>1. \A n \in done : Association(route, n).stop \in addedStops
      BY <1>1, <1>2 DEF LoopExact, UpTo, Counted, Association, Members
    <3> QED
      BY <1>1, <3>1 DEF LoopExact
  <2>4. new.route = route
    BY <2>1
  <2> HIDE DEF new
  <2> QED
    BY <1>1, <2>2, <2>3, <2>4 DEF StopsOf
<1>8. StopsOf(route)' = {Association(route, n)' : n \in UpTo(route, next - 1)'}
  <2>1. StopsOf(route) = {Association(route, n) : n \in done}
    BY <1>1 DEF LoopExact
  <2>2. StopsOf(route)' = {Association(route, n) : n \in done \cup {next}}
    BY <1>7, <2>1
  <2> HIDE DEF done
  <2> QED
    BY <1>1, <1>4, <2>2, SameData
<1>9. addedStops' = {Members[n] : n \in {k \in 1..next : Members[k] \in DOMAIN data.stops}}
  <2> DEFINE known == {k \in 1..(next - 1) : Members[k] \in DOMAIN data.stops}
             now == {k \in 1..next : Members[k] \in DOMAIN data.stops}
  <2>1. addedStops = {Members[n] : n \in known}
    BY <1>1 DEF LoopExact
  <2>2. now = known \cup {next}
    BY <1>1, <1>3
  <2>3. addedStops' = addedStops \cup {Members[next]}
    BY <1>1
  <2> HIDE DEF known, now
  <2>4. addedStops' = {Members[n] : n \in now}
    BY <2>1, <2>2, <2>3
  <2> QED
    BY <2>4 DEF now
<1>10. addedStops' = {Members[n] : n \in {k \in 1..(next - 1) : Members[k] \in DOMAIN data.stops}}'
  <2>1. next' - 1 = next
    BY <1>1, <1>3
  <2> QED
    BY <1>1, <1>9, <2>1 DEF Members
<1>11. sequence' = Cardinality(UpTo(route, next - 1)') + 1
  BY <1>1, <1>2, <1>4, <1>5
<1> QED
  BY <1>8, <1>10, <1>11 DEF LoopExact

\* Every step keeps the stops exact.
LEMMA StopsStep ==
    ASSUME TypeInv, StopsExact, [Next]_vars
    PROVE  StopsExact'
<1>1. CASE errors' = TRUE
  BY <1>1 DEF StopsExact
<1>2. ASSUME UNCHANGED <<stops, data, FORCE, errors>>, pc \notin {"idle", "stops"}, pc' # "stops"
      PROVE  StopsExact'
  BY <1>2 DEF StopsExact
<1>3. ASSUME NEW d \in Datasets, NEW force \in BOOLEAN, Fetch(d, force) PROVE StopsExact'
  BY <1>3 DEF Fetch, StopsExact
<1>4. ASSUME NEW s \in Nodes, ImportStop(s) PROVE StopsExact'
  <2>1. CASE Abort
    BY <1>1, <2>1 DEF Abort
  <2>2. CASE /\ stops' = Put(stops, s, data.stops[s])
             /\ todo' = todo \ {s} /\ UNCHANGED <<pc, errors>>
    <3>1. s \in DOMAIN stops' /\ stops'[s] = data.stops[s]
          /\ \A t \in DOMAIN stops \ {s} : t \in DOMAIN stops' /\ stops'[t] = stops[t]
      BY <2>2 DEF Put
    <3> QED
      BY <1>4, <2>2, <3>1 DEF ImportStop, StopsExact, runVars
  <2>3. CASE ~FORCE
    BY <1>4, <2>3 DEF ImportStop, StopsExact, runVars
  <2> QED
    BY <1>4, <2>1, <2>2, <2>3 DEF ImportStop
<1>5. CASE StopsDone
  BY <1>5 DEF StopsDone, StopsExact, tables, runVars, outcome
<1>6. CASE (\E r \in Relations : ImportRoute(r)) \/ Outbound \/ Inbound \/ Distance
  BY <1>2, <1>6 DEF ImportRoute, Outbound, Inbound, Distance, runVars, outcome
<1>7. CASE ClearStops \/ SkipMember \/ AddMember \/ RouteDone \/ Finish
  BY <1>2, <1>7 DEF ClearStops, SkipMember, AddMember, RouteDone, Finish, tables, runVars, outcome
<1>8. CASE RouteFails \/ Killed
  BY <1>1, <1>8 DEF RouteFails, Killed, Abort
<1>9. CASE UNCHANGED vars
  BY <1>9 DEF vars, tables, runVars, outcome, StopsExact
<1> QED
  BY <1>3, <1>4, <1>5, <1>6, <1>7, <1>8, <1>9 DEF Next

\* Every step keeps the tags of imported routes exact.
LEMMA TagsStep ==
    ASSUME TypeInv, TagsExact, [Next]_vars
    PROVE  TagsExact'
<1> DEFINE Importing == pc \in RoutePlaces \cup {"routes"}
<1>1. CASE errors' = TRUE
  BY <1>1 DEF TagsExact
<1>2. ASSUME UNCHANGED <<routes, data, FORCE, errors, todo>>, Importing
      PROVE  TagsExact'
  BY <1>2 DEF TagsExact
<1>3. ASSUME pc' \notin RoutePlaces \cup {"routes"} PROVE TagsExact'
  BY <1>3 DEF TagsExact
<1>4. CASE (\E d \in Datasets, force \in BOOLEAN : Fetch(d, force)) \/ Finish
  BY <1>3, <1>4 DEF Fetch, Finish, RoutePlaces
<1>5. ASSUME NEW s \in Nodes, ImportStop(s) PROVE TagsExact'
  BY <1>3, <1>5 DEF ImportStop, Abort, RoutePlaces
<1>6. CASE StopsDone
  BY <1>6 DEF StopsDone, TagsExact, runVars
<1>7. ASSUME NEW r \in Relations, ImportRoute(r) PROVE TagsExact'
  <2>1. /\ pc = "routes" /\ r \in todo /\ todo' = todo \ {r}
        /\ UNCHANGED <<data, FORCE, errors>>
    BY <1>7 DEF ImportRoute, runVars, outcome
  <2>2. FORCE => /\ r \in DOMAIN routes' /\ routes'[r].tags = data.routes[r].tags
                 /\ \A q \in DOMAIN routes \ {r} : q \in DOMAIN routes' /\ routes'[q] = routes[q]
    <3>1. CASE r \notin DOMAIN routes
      BY <1>7, <3>1 DEF ImportRoute, Put
    <3>2. CASE r \in DOMAIN routes /\ FORCE
      BY <1>7, <3>2 DEF ImportRoute, TypeInv, TypeOK, TablesTyped
    <3> QED
      BY <3>1, <3>2
  <2> QED
    BY <2>1, <2>2 DEF TagsExact, RoutePlaces
<1>8. CASE Distance
  <2>1. \A r \in DOMAIN routes : r \in DOMAIN routes' /\ routes'[r].tags = routes[r].tags
    BY <1>8 DEF Distance, TypeInv, TypeOK, TablesTyped
  <2> QED
    BY <1>8, <2>1 DEF Distance, TagsExact, RoutePlaces, runVars, outcome
<1>9. CASE Outbound \/ Inbound \/ ClearStops \/ SkipMember \/ AddMember \/ RouteDone
  BY <1>2, <1>9 DEF Outbound, Inbound, ClearStops, SkipMember, AddMember, RouteDone,
                    tables, runVars, outcome, RoutePlaces
<1>10. CASE RouteFails \/ Killed
  BY <1>1, <1>10 DEF RouteFails, Killed, Abort
<1>11. CASE UNCHANGED vars
  BY <1>11 DEF vars, tables, runVars, outcome, TagsExact
<1> QED
  BY <1>4, <1>5, <1>6, <1>7, <1>8, <1>9, <1>10, <1>11 DEF Next

\* Only the steps of its loop change the associations of a route, and other
\* routes keep theirs.
LEMMA OthersKeepStops ==
    ASSUME ClearStops \/ AddMember, NEW r, r # route
    PROVE  StopsOf(r)' = StopsOf(r)
<1>1. CASE ClearStops
  BY <1>1 DEF ClearStops, Cleared, StopsOf
<1>2. CASE AddMember
  <2>1. CASE UNCHANGED routeStops
    BY <2>1 DEF StopsOf
  <2>2. CASE Associate(Members[next])
    BY <2>2 DEF Associate, StopsOf
  <2> QED
    BY <1>2, <2>1, <2>2 DEF AddMember
<1> QED
  BY <1>1, <1>2

\* Every step keeps the routes that are finished exact.
LEMMA FinishedStep ==
    ASSUME TypeInv, ExactInv, [Next]_vars
    PROVE  FinishedExact'
<1>0. FinishedExact /\ LoopExact /\ missed \in BOOLEAN
  BY DEF ExactInv, TypeInv, TypeOK, ScriptTyped
<1>1. CASE errors' = TRUE
  BY <1>1 DEF FinishedExact, Exacting
<1>2. ASSUME pc' \notin RoutePlaces \cup {"routes"} PROVE FinishedExact'
  BY <1>2 DEF FinishedExact
<1>3. ASSUME pc \in RoutePlaces \cup {"routes"}, Exacting' => Exacting,
             UNCHANGED data, Finished' \subseteq Finished,
             \A r \in Finished : StopsOf(r)' = StopsOf(r)
      PROVE  FinishedExact'
  <2>1. \A r \in Finished' : Expected(r)' = Expected(r)
    BY <1>3, SameData
  <2> QED
    BY <1>0, <1>3, <2>1 DEF FinishedExact
<1>4. CASE (\E d \in Datasets, force \in BOOLEAN : Fetch(d, force)) \/ Finish
  BY <1>2, <1>4 DEF Fetch, Finish, RoutePlaces
<1>5. ASSUME NEW s \in Nodes, ImportStop(s) PROVE FinishedExact'
  BY <1>2, <1>5 DEF ImportStop, Abort, RoutePlaces
<1>6. CASE StopsDone
  BY <1>6 DEF StopsDone, FinishedExact, Finished, runVars
<1>7. ASSUME NEW r \in Relations, ImportRoute(r) PROVE FinishedExact'
  BY <1>3, <1>7 DEF ImportRoute, Finished, Exacting, RoutePlaces, StopsOf, runVars, outcome
<1>8. CASE Outbound \/ Inbound \/ Distance \/ SkipMember
  BY <1>3, <1>8 DEF Outbound, Inbound, Distance, SkipMember, Finished, Exacting, RoutePlaces,
                    StopsOf, tables, runVars, outcome
<1>9. CASE ClearStops \/ AddMember
  <2>1. \A r \in Finished : StopsOf(r)' = StopsOf(r)
    BY <1>9, OthersKeepStops DEF ClearStops, AddMember, Finished, RoutePlaces
  <2>2. Exacting' => Exacting
    BY <1>0, <1>9 DEF ClearStops, AddMember, Exacting, runVars, outcome
  <2> QED
    BY <1>3, <1>9, <2>1, <2>2 DEF ClearStops, AddMember, Finished, RoutePlaces, runVars
<1>10. CASE RouteDone
  <2>1. /\ pc = "members" /\ pc' = "routes" /\ next > Len(Members)
        /\ UNCHANGED <<data, todo, routeStops, FORCE, errors, missed>>
    BY <1>10 DEF RouteDone, tables, runVars, outcome
  <2>2. ASSUME Exacting PROVE StopsOf(route) = Expected(route)
    <3>1. UpTo(route, next - 1) = Counted(route)
      <4>1. next \in Nat /\ Members \in Seq(Nodes)
        BY <1>10, DatasetTyped DEF RouteDone, TypeInv, TypeOK, ScriptTyped, RunInv, RoutePlaces,
                                   Members
      <4>2. Counted(route) \subseteq 1..Len(Members) /\ Len(Members) \in Nat
        BY <4>1 DEF Counted, Members
      <4> QED
        BY <2>1, <4>1, <4>2 DEF UpTo
    <3>2. StopsOf(route) = {Association(route, n) : n \in UpTo(route, next - 1)}
      BY <1>0, <2>1, <2>2 DEF LoopExact
    <3> QED
      BY <3>1, <3>2, ExpectedAssociations
  <2>3. ASSUME Exacting', NEW r \in Finished' PROVE StopsOf(r)' = Expected(r)'
    <3>1. Exacting
      BY <2>1, <2>3 DEF Exacting
    <3>2. StopsOf(r) = Expected(r)
      <4>1. CASE r = route
        BY <2>2, <3>1, <4>1
      <4>2. CASE r # route
        BY <1>0, <2>1, <2>3, <3>1, <4>2 DEF FinishedExact, Finished, RoutePlaces
      <4> QED
        BY <4>1, <4>2
    <3>3. StopsOf(r)' = StopsOf(r) /\ Expected(r)' = Expected(r)
      BY <2>1, SameData DEF StopsOf
    <3> QED
      BY <3>2, <3>3
  <2> QED
    BY <2>3 DEF FinishedExact
<1>11. CASE RouteFails \/ Killed
  BY <1>1, <1>11 DEF RouteFails, Killed, Abort
<1>12. CASE UNCHANGED vars
  <2>1. UNCHANGED <<pc, data, todo, route, routeStops, FORCE, errors, missed>>
    BY <1>12 DEF vars, tables, runVars, outcome
  <2>2. CASE pc \in RoutePlaces \cup {"routes"}
    BY <1>3, <2>1, <2>2 DEF Finished, Exacting, StopsOf
  <2>3. CASE pc \notin RoutePlaces \cup {"routes"}
    BY <1>2, <2>1, <2>3
  <2> QED
    BY <2>2, <2>3
<1> QED
  BY <1>4, <1>5, <1>6, <1>7, <1>8, <1>9, <1>10, <1>11, <1>12 DEF Next

\* Every step keeps the invariant of the loop over the members.
LEMMA LoopStep ==
    ASSUME TypeInv, ExactInv, [Next]_vars
    PROVE  LoopExact'
<1>0. LoopExact /\ missed \in BOOLEAN
  BY DEF ExactInv, TypeInv, TypeOK, ScriptTyped
<1>1. ASSUME pc' # "members" PROVE LoopExact'
  BY <1>1 DEF LoopExact
<1>2. CASE ClearStops
  <2>1. UNCHANGED <<route, data, FORCE>> /\ next' = 1 /\ sequence' = 1 /\ addedStops' = {}
        /\ routeStops' = routeStops \ Cleared
    BY <1>2 DEF ClearStops, StartOver, runVars
  <2>2. FORCE => StopsOf(route)' = {}
    BY <2>1 DEF Cleared, StopsOf
  <2>3. UpTo(route, next - 1)' = {}
    <3>1. data \in Datasets /\ route \in DOMAIN data.routes
      BY <1>2 DEF ClearStops, TypeInv, RunInv, RoutePlaces
    <3>2. Counted(route) \subseteq Nat \ {0}
      <4>1. data.routes[route].members \in Seq(Nodes)
        BY <3>1, DatasetTyped
      <4> QED
        BY <4>1 DEF Counted
    <3>3. UpTo(route, next - 1)' = {k \in Counted(route) : k <= 1 - 1}
      BY <2>1, SameData DEF UpTo
    <3> QED
      BY <3>2, <3>3
  <2>4. Cardinality(UpTo(route, next - 1)') = 0
    BY <2>3, FS_EmptySet
  <2>5. Exacting' => FORCE
    BY <2>1 DEF Exacting
  <2>6. 1..(next' - 1) = {}
    BY <2>1
  <2> QED
    BY <2>1, <2>2, <2>3, <2>4, <2>5, <2>6 DEF LoopExact
<1>3. CASE SkipMember
  <2>1. Exacting' => Exacting
    BY <1>3 DEF SkipMember, Exacting, runVars, outcome
  <2> QED
    BY <1>3, <2>1, SkipExact DEF LoopExact
<1>4. CASE AddMember
  <2>1. Exacting' => Exacting /\ UNCHANGED missed
    BY <1>0, <1>4 DEF AddMember, Exacting, runVars
  <2> QED
    BY <1>4, <2>1, AddExact DEF LoopExact
<1>5. CASE UNCHANGED vars
  <2>1. UNCHANGED <<pc, data, route, routeStops, next, sequence, addedStops, FORCE, errors, missed>>
    BY <1>5 DEF vars, tables, runVars, outcome, loopVars
  <2>2. UNCHANGED <<Exacting, Members, StopsOf(route), UpTo(route, next - 1)>>
    BY <2>1 DEF Exacting, Members, StopsOf, UpTo, Counted
  <2>3. \A n : Association(route, n)' = Association(route, n)
    BY <2>1 DEF Association, UpTo, Counted
  <2> QED
    BY <1>0, <2>1, <2>2, <2>3 DEF LoopExact
<1>6. CASE (\E d \in Datasets, force \in BOOLEAN : Fetch(d, force)) \/ StopsDone
           \/ \E s \in Nodes : ImportStop(s)
  BY <1>1, <1>6 DEF Fetch, StopsDone, ImportStop, Abort
<1>7. CASE (\E r \in Relations : ImportRoute(r)) \/ Outbound \/ Inbound \/ Distance
           \/ RouteDone \/ RouteFails \/ Finish \/ Killed
  BY <1>1, <1>7 DEF ImportRoute, Outbound, Inbound, Distance, RouteDone, RouteFails, Finish,
                    Killed, Abort
<1> QED
  BY <1>2, <1>3, <1>4, <1>5, <1>6, <1>7 DEF Next

\* The end of a run makes of what it kept what the property asks for.
LEMMA EndExact ==
    ASSUME TypeInv, ExactInv, [Next]_vars
    PROVE  ForcedImportIsExact'
<1>1. CASE pc' # "idle" \/ errors' = TRUE
  BY <1>1 DEF ForcedImportIsExact, Clean
<1>2. CASE Finish
  <2>1. /\ pc = "routes" /\ todo = {}
        /\ UNCHANGED <<stops, routes, routeStops, data, FORCE, errors, missed>>
    BY <1>2 DEF Finish, tables, runVars, outcome
  <2>2. ASSUME FORCE, ~errors, ~missed
        PROVE  /\ \A s \in DOMAIN data.stops : s \in DOMAIN stops /\ stops[s] = data.stops[s]
               /\ \A r \in DOMAIN data.routes :
                      routes[r].tags = data.routes[r].tags /\ StopsOf(r) = Expected(r)
    <3>1. StopsExact /\ TagsExact /\ FinishedExact
      BY DEF ExactInv
    <3> QED
      BY <2>1, <2>2, <3>1 DEF StopsExact, TagsExact, FinishedExact, Finished, Exacting, RoutePlaces
  <2>3. \A r : StopsOf(r)' = StopsOf(r) /\ Expected(r)' = Expected(r)
    BY <2>1, SameData DEF StopsOf
  <2> SUFFICES ASSUME FORCE, ~errors, ~missed
               PROVE  (/\ \A s \in DOMAIN data.stops : s \in DOMAIN stops /\ stops[s] = data.stops[s]
                       /\ \A r \in DOMAIN data.routes :
                              routes[r].tags = data.routes[r].tags /\ StopsOf(r) = Expected(r))'
    BY <2>1 DEF ForcedImportIsExact, Clean
  <2>4. (\A s \in DOMAIN data.stops : s \in DOMAIN stops /\ stops[s] = data.stops[s])'
    BY <2>1, <2>2
  <2>5. ASSUME NEW r \in DOMAIN data.routes
        PROVE  routes'[r].tags = data'.routes[r].tags /\ StopsOf(r)' = Expected(r)'
    BY <2>1, <2>2, <2>3
  <2> QED
    BY <2>1, <2>4, <2>5
<1>3. CASE UNCHANGED vars
  <2>1. ForcedImportIsExact
    BY DEF ExactInv
  <2>2. UNCHANGED <<stops, routes, routeStops, pc, data, FORCE, errors, missed, runs>>
    BY <1>3 DEF vars, tables, runVars, outcome
  <2>3. \A r : StopsOf(r)' = StopsOf(r) /\ Expected(r)' = Expected(r)
    BY <2>2, SameData DEF StopsOf
  <2> QED
    BY <2>1, <2>2, <2>3 DEF ForcedImportIsExact, Clean
<1>4. CASE (\E d \in Datasets, force \in BOOLEAN : Fetch(d, force)) \/ StopsDone
           \/ \E s \in Nodes : ImportStop(s)
  BY <1>1, <1>4 DEF Fetch, StopsDone, ImportStop, Abort
<1>5. CASE (\E r \in Relations : ImportRoute(r)) \/ Outbound \/ Inbound \/ Distance
           \/ ClearStops \/ SkipMember \/ AddMember \/ RouteDone \/ RouteFails \/ Killed
  BY <1>1, <1>5 DEF ImportRoute, Outbound, Inbound, Distance, ClearStops, SkipMember, AddMember,
                    RouteDone, RouteFails, Killed, Abort
<1> QED
  BY <1>2, <1>3, <1>4, <1>5 DEF Next

\* Every step keeps what a forced run has imported exact.
LEMMA NextExact == TypeInv /\ ExactInv /\ [Next]_vars => ExactInv'
  BY StopsStep, TagsStep, FinishedStep, LoopStep, EndExact DEF ExactInv

\* A forced run that reports no error and ignored no failed insert leaves stops,
\* tags and associations exactly as fetched, whatever earlier runs left behind.
THEOREM ForcedImportExact == Spec => []ForcedImportIsExact
<1>1. Init => ExactInv
  BY DEF Init, ExactInv, StopsExact, TagsExact, FinishedExact, LoopExact, ForcedImportIsExact,
         RoutePlaces, Clean
<1>2. ExactInv => ForcedImportIsExact
  BY DEF ExactInv
<1> QED
  BY <1>1, <1>2, InitTyped, NextTyped, NextExact, PTL DEF Spec
=============================================================================
