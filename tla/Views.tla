---------------------------------- MODULE Views ----------------------------------
(***************************************************************************)
(* The pages of the dashboard and of the passenger application, as far as   *)
(* they keep data, taken apart into views: what one request of a page, or   *)
(* the requests it awaits together, fetches and shows.  A view holds what   *)
(* the user selected, sends requests to the Next.js endpoints and shows     *)
(* what an answer says.  No request has an identity; an answer replaces     *)
(* what is shown whenever it comes.  The data are abstracted to the         *)
(* selection they were asked for and the version of the database they were  *)
(* read from.                                                               *)
(***************************************************************************)
EXTENDS Naturals, Sequences, SequencesExt

CONSTANTS
    Pages,          \* the views of this instance, of DOMAIN Page
    Keys,           \* what can be selected: a device and hours, a stop, a period, a text
    None,
    MaxInFlight,    \* bound: requests under way
    MaxSelections,  \* bound: selections by the user
    MaxWorld,       \* bound: versions of the database
    MaxFailures     \* bound: failed requests

VARIABLES
    page,       \* the view looked at
    key,        \* what is selected, None before or without a selection
    closure,    \* what the callback of the timer fetches
    requests,   \* requests under way, in the order they were sent
    shown,      \* what the page shows: an answer, or None
    loading,    \* the loading flag
    world,      \* version of the database
    post,       \* the form of the assignments page: "none", "sent" or "written"
    wrote,      \* version of the database the page's own last write was seen at
    selections, failures,
    overtaken,  \* history: the last request that ended, ended after a later one
    failed      \* history: the last request that ended failed

ASSUME ViewsAssumption ==
    /\ Keys # {} /\ None \notin Keys
    /\ None \notin [key: Keys, read: Nat]

viewVars == <<page, key, closure, requests, shown, loading, world, post, wrote,
              selections, failures, overtaken, failed>>

(***************************************************************************)
(* The views.  chooses: the user selects what is shown; opens: selected at  *)
(* first (None: the view waits for a selection, for the list of devices or  *)
(* for the browser); polls: a timer repeats the request; aborts: a new      *)
(* selection aborts the request before it; clears: a failed request empties *)
(* the view.                                                                *)
(***************************************************************************)
Kind(chooses, opens, polls, aborts, clears) ==
    [chooses |-> chooses, opens |-> opens, polls |-> polls, aborts |-> aborts, clears |-> clears]

All == CHOOSE k \in Keys: TRUE

\* What is requested when the page is opened and never again, when a timer fires,
\* and when something else is selected.
Once == Kind(FALSE, All, FALSE, FALSE, FALSE)
Repeated == Kind(FALSE, All, TRUE, FALSE, FALSE)
Selected == Kind(TRUE, All, FALSE, FALSE, FALSE)

MapTelemetry == Kind(TRUE, None, TRUE, FALSE, TRUE)
MapDevices == Selected
MapOverlay == Kind(FALSE, None, FALSE, FALSE, FALSE)
DispatchVehicles == Repeated
DispatchAlerts == Once
AdminHealthPage == Repeated
AssignmentsPage == Once
AdminStopsPage == Once
AdminRoutesPage == Once
ScheduleRoutes == Once
SchedulesPage == Kind(TRUE, None, FALSE, FALSE, FALSE)
ReportDevices == Once
DashboardRouteList == Selected
DashboardRouteDetail == Kind(FALSE, All, FALSE, FALSE, TRUE)
AlertAnalytics == Selected
FleetAnalytics == Selected
RouteAnalytics == Once
VehicleDetail == Selected
VehicleList == Selected
LiveMapVehicles == Repeated
LiveMapStops == Once
BoardArrivals == Kind(TRUE, All, TRUE, FALSE, FALSE)
BoardStop == Selected
NearbyStops == Kind(FALSE, None, FALSE, FALSE, FALSE)
SearchedStops == Once
HomeNearby == Kind(FALSE, None, FALSE, FALSE, FALSE)
HomeFavourites == Once
PassengerRouteList == Once
PassengerRouteDetail == Once
SearchBar == Kind(TRUE, None, FALSE, TRUE, TRUE)

Page == [
    map |-> MapTelemetry, devices |-> MapDevices, overlay |-> MapOverlay,
    dispatch |-> DispatchVehicles, dispatchAlerts |-> DispatchAlerts, health |-> AdminHealthPage,
    assignments |-> AssignmentsPage, adminStops |-> AdminStopsPage, adminRoutes |-> AdminRoutesPage,
    scheduleRoutes |-> ScheduleRoutes, schedules |-> SchedulesPage, reports |-> ReportDevices,
    routeList |-> DashboardRouteList, routeDetail |-> DashboardRouteDetail,
    alertAnalytics |-> AlertAnalytics, fleetAnalytics |-> FleetAnalytics,
    routeAnalytics |-> RouteAnalytics, vehicleDetail |-> VehicleDetail, vehicleList |-> VehicleList,
    liveMap |-> LiveMapVehicles, liveMapStops |-> LiveMapStops,
    arrivals |-> BoardArrivals, boardStop |-> BoardStop,
    nearby |-> NearbyStops, searched |-> SearchedStops,
    home |-> HomeNearby, favourites |-> HomeFavourites,
    passengerRoutes |-> PassengerRouteList, passengerRoute |-> PassengerRouteDetail,
    searchBar |-> SearchBar]

ASSUME PagesAssumption == Pages \subseteq DOMAIN Page

kind == Page[page]

\* late: a later request has been answered, or has failed, already.
Sent(k) == [key |-> k, read |-> 0, late |-> FALSE]

Fetch(rs, k) == IF k = None THEN rs ELSE Append(rs, Sent(k))

ViewsInit ==
    /\ page \in Pages
    /\ key = kind.opens /\ closure = key
    /\ requests = Fetch(<<>>, key)
    /\ shown = None
    /\ loading = (key # None)
    /\ world = 1
    /\ post = "none" /\ wrote = 0
    /\ selections = 0 /\ failures = 0
    /\ overtaken = FALSE /\ failed = FALSE

\* Mutant: the effect of the timer does not name the selection among its
\* dependencies, so its callback stays that of the first selection.
StaleClosure(k) == IF closure = None THEN k ELSE closure

\* The effect clears the timer and starts one with the new callback.
Recaptured(k) == k

\* Mutant: no abort when the effect is cleaned up.
NotAborted == requests

\* Requests left when the selection changes: ctrl.abort().
Kept == IF kind.aborts THEN <<>> ELSE requests

\* SearchBar asks for routes and stops; when one part is there and the other is
\* aborted, the part is shown, after the empty list of a text that is too short.
AfterAbort == {None} \cup {[key |-> requests[p].key, read |-> requests[p].read]:
                           p \in {q \in DOMAIN requests: requests[q].read > 0}}

\* setSelectedDevice, setHours, setDays, setSearch, setQuery, another stop.  The list
\* of devices is fetched again with every device selected.
Choose(k) ==
    /\ kind.chooses /\ k # key
    /\ key # None \/ page # "map"
    /\ k = None => page \in {"searchBar", "schedules"}
    /\ selections < MaxSelections /\ Len(Kept) < MaxInFlight
    /\ key' = k
    /\ closure' = Recaptured(k)
    /\ requests' = Fetch(Kept, k)
    /\ loading' = (k # None)
    /\ IF kind.aborts
         THEN shown' \in IF requests # <<>> THEN AfterAbort ELSE {IF k = None THEN None ELSE shown}
         ELSE UNCHANGED shown
    /\ overtaken' = (overtaken \/ (kind.aborts /\ shown' # None))
    /\ selections' = selections + 1
    /\ UNCHANGED <<page, world, post, wrote, failures, failed>>

\* The list of devices is there and its first one selected, the browser has found
\* the position, or the overlay is turned on.
Located ==
    /\ page \in {"map", "nearby", "home", "overlay"} /\ key = None
    /\ \E k \in Keys:
         /\ key' = k /\ closure' = k
         /\ requests' = Fetch(requests, k)
    /\ loading' = TRUE
    /\ UNCHANGED <<page, shown, world, post, wrote, selections, failures, overtaken, failed>>

\* setInterval
Timer ==
    /\ kind.polls /\ closure # None
    /\ Len(requests) < MaxInFlight
    /\ requests' = Fetch(requests, closure)
    /\ loading' = TRUE
    /\ UNCHANGED <<page, key, closure, shown, world, post, wrote, selections, failures, overtaken, failed>>

\* The Refresh button; on the map it is disabled while loading.
Refresh ==
    /\ page \in {"map", "health"} /\ key # None
    /\ page = "map" => ~loading
    /\ Len(requests) < MaxInFlight
    /\ requests' = Fetch(requests, key)
    /\ loading' = TRUE
    /\ UNCHANGED <<page, key, closure, shown, world, post, wrote, selections, failures, overtaken, failed>>

\* The endpoint reads the database.
Serve(p) ==
    /\ p \in DOMAIN requests /\ requests[p].read = 0
    /\ requests' = [requests EXCEPT ![p].read = world]
    /\ UNCHANGED <<page, key, closure, shown, loading, world, post, wrote, selections, failures, overtaken, failed>>

\* Requests sent before p are late from now on.
Without(p) == RemoveAt([q \in DOMAIN requests |->
    IF q < p THEN [requests[q] EXCEPT !.late = TRUE] ELSE requests[q]], p)

\* The answer comes, in any order.
Deliver(p) ==
    /\ p \in DOMAIN requests /\ requests[p].read > 0
    /\ shown' = [key |-> requests[p].key, read |-> requests[p].read]
    /\ overtaken' = requests[p].late
    /\ failed' = FALSE
    /\ requests' = Without(p)
    /\ loading' = FALSE
    /\ UNCHANGED <<page, key, closure, world, post, wrote, selections, failures>>

\* The request fails, or its answer is an error.
Fails(p) ==
    /\ p \in DOMAIN requests /\ failures < MaxFailures
    /\ failures' = failures + 1
    /\ shown' = IF kind.clears THEN None ELSE shown
    /\ failed' = TRUE
    /\ overtaken' = requests[p].late
    /\ requests' = Without(p)
    /\ loading' = FALSE
    /\ UNCHANGED <<page, key, closure, world, post, wrote, selections>>

\* The worker and other users write.
WorldWrites ==
    /\ world < MaxWorld
    /\ world' = world + 1
    /\ UNCHANGED <<page, key, closure, requests, shown, loading, post, wrote, selections, failures, overtaken, failed>>

\* handleCreate of the assignments page.
Submit ==
    /\ page = "assignments" /\ post = "none" /\ selections < MaxSelections
    /\ post' = "sent"
    /\ selections' = selections + 1
    /\ UNCHANGED <<page, key, closure, requests, shown, loading, world, wrote, failures, overtaken, failed>>

\* POST: the assignment is inserted, then the device of the vehicle updated.
Insert ==
    /\ post = "sent" /\ world < MaxWorld
    /\ world' = world + 1
    /\ post' = "written"
    /\ UNCHANGED <<page, key, closure, requests, shown, loading, wrote, selections, failures, overtaken, failed>>

\* fetchAll() after the answer to POST.
Refetched(rs) == Fetch(rs, key)

Created ==
    /\ post = "written" /\ Len(requests) < MaxInFlight
    /\ post' = "none"
    /\ wrote' = world
    /\ requests' = Refetched(requests)
    /\ UNCHANGED <<page, key, closure, shown, loading, world, selections, failures, overtaken, failed>>

\* One of the three statements fails: whatever was written before stays, and the
\* page does not fetch again.
CreateFails ==
    /\ post \in {"sent", "written"} /\ failures < MaxFailures
    /\ post' = "none"
    /\ failures' = failures + 1
    /\ UNCHANGED <<page, key, closure, requests, shown, loading, world, wrote, selections, overtaken, failed>>

ViewsNext ==
    \/ \E k \in Keys \cup {None}: Choose(k)
    \/ Located \/ Timer \/ Refresh
    \/ \E p \in 1..MaxInFlight: Serve(p) \/ Deliver(p) \/ Fails(p)
    \/ WorldWrites \/ Submit \/ Insert \/ Created \/ CreateFails

-----------------------------------------------------------------------------
\* What a view that polls should come to, and what the search bar should unless
\* its last request failed.
Settled ==
    /\ kind.polls => key = None \/ shown = [key |-> key, read |-> world]
    /\ kind.aborts => key = None \/ failed \/ (shown # None /\ shown.key = key)

\* When nothing is under way, a view shows the answer to what is selected, and
\* its own last write, unless the answer to an earlier request overtook it or the
\* last request failed; aborting, the search bar needs no excuse for the former.
QuietViewIsRight ==
    requests = <<>> /\ key # None /\ ~failed /\ (overtaken => kind.aborts) =>
        shown # None /\ shown.key = key /\ shown.read >= wrote
=============================================================================
