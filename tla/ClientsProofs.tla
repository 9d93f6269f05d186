------------------------------ MODULE ClientsProofs ------------------------------
(***************************************************************************)
(* Proofs about Clients, for any number of pages, selections, requests      *)
(* under way, sockets and messages.                                         *)
(***************************************************************************)
EXTENDS Clients, SequenceTheorems, TLAPS

\* What a sequence is after the removal of its element k.
LEMMA RemoveAtElements ==
    ASSUME NEW T, NEW q \in Seq(T), NEW k \in 1..Len(q)
    PROVE  /\ RemoveAt(q, k) \in Seq(T)
           /\ Len(RemoveAt(q, k)) = Len(q) - 1
           /\ \A j \in 1..Len(q) - 1: RemoveAt(q, k)[j] = IF j < k THEN q[j] ELSE q[j + 1]
<1> DEFINE front == SubSeq(q, 1, k - 1)
           rest == SubSeq(q, k + 1, Len(q))
<1>1. Len(q) \in Nat
  OBVIOUS
<1>2. front \in Seq(T) /\ Len(front) = k - 1 /\ \A j \in 1..k - 1: front[j] = q[j]
  OBVIOUS
<1>3. rest \in Seq(T) /\ Len(rest) = Len(q) - k /\ \A j \in 1..Len(q) - k: rest[j] = q[k + j]
  OBVIOUS
<1> HIDE DEF front, rest
<1>4. /\ front \o rest \in Seq(T)
      /\ Len(front \o rest) = Len(q) - 1
      /\ \A j \in 1..Len(q) - 1: (front \o rest)[j] = IF j <= k - 1 THEN front[j] ELSE rest[j - (k - 1)]
  <2>1. Len(front) + Len(rest) = Len(q) - 1
    BY <1>1, <1>2, <1>3
  <2>2. \A j \in 1..Len(front) + Len(rest): (front \o rest)[j] = IF j <= Len(front) THEN front[j] ELSE rest[j - Len(front)]
    BY <1>2, <1>3, ConcatProperties
  <2>3. front \o rest \in Seq(T) /\ Len(front \o rest) = Len(front) + Len(rest)
    BY <1>2, <1>3, ConcatProperties
  <2> QED
    BY <1>2, <2>1, <2>2, <2>3
<1>5. RemoveAt(q, k) = front \o rest
  BY DEF RemoveAt, front, rest
<1>6. ASSUME NEW j \in 1..Len(q) - 1 PROVE (front \o rest)[j] = IF j < k THEN q[j] ELSE q[j + 1]
  <2>1. CASE j < k
    BY <1>1, <1>2, <1>4, <2>1
  <2>2. CASE ~(j < k)
    <3>1. j - (k - 1) \in 1..Len(q) - k /\ k + (j - (k - 1)) = j + 1
      BY <1>1, <2>2
    <3> QED
      BY <1>1, <1>3, <1>4, <2>2, <3>1
  <2> QED
    BY <2>1, <2>2
<1> QED
  BY <1>4, <1>5, <1>6

-----------------------------------------------------------------------------
(***************************************************************************)
(* The pages.                                                               *)
(***************************************************************************)
\* Only the search bar aborts its requests, and only it is emptied and chosen from
\* before anything is selected.
LEMMA Kinds ==
    ASSUME NEW p \in DOMAIN Page
    PROVE  /\ Page[p].aborts \in BOOLEAN
           /\ Page[p].aborts <=> p = "searchBar"
           /\ Page[p].opens \in Keys \cup {None}
           /\ p = "searchBar" => Page[p].opens = None /\ ~Page[p].polls
<1>1. All \in Keys
  BY ViewsAssumption DEF All
<1> HIDE DEF All
<1> USE DEF Page, Kind
<1> USE DEF Once, Repeated, Selected
<1>2. CASE p = "map"
  BY <1>1, <1>2 DEF MapTelemetry
<1>3. CASE p = "devices"
  BY <1>1, <1>3 DEF MapDevices
<1>4. CASE p = "overlay"
  BY <1>1, <1>4 DEF MapOverlay
<1>5. CASE p = "dispatch"
  BY <1>1, <1>5 DEF DispatchVehicles
<1>6. CASE p = "dispatchAlerts"
  BY <1>1, <1>6 DEF DispatchAlerts
<1>7. CASE p = "health"
  BY <1>1, <1>7 DEF AdminHealthPage
<1>8. CASE p = "assignments"
  BY <1>1, <1>8 DEF AssignmentsPage
<1>9. CASE p = "adminStops"
  BY <1>1, <1>9 DEF AdminStopsPage
<1>10. CASE p = "adminRoutes"
  BY <1>1, <1>10 DEF AdminRoutesPage
<1>11. CASE p = "scheduleRoutes"
  BY <1>1, <1>11 DEF ScheduleRoutes
<1>12. CASE p = "schedules"
  BY <1>1, <1>12 DEF SchedulesPage
<1>13. CASE p = "reports"
  BY <1>1, <1>13 DEF ReportDevices
<1>14. CASE p = "routeList"
  BY <1>1, <1>14 DEF DashboardRouteList
<1>15. CASE p = "routeDetail"
  BY <1>1, <1>15 DEF DashboardRouteDetail
<1>16. CASE p = "alertAnalytics"
  BY <1>1, <1>16 DEF AlertAnalytics
<1>17. CASE p = "fleetAnalytics"
  BY <1>1, <1>17 DEF FleetAnalytics
<1>18. CASE p = "routeAnalytics"
  BY <1>1, <1>18 DEF RouteAnalytics
<1>19. CASE p = "vehicleDetail"
  BY <1>1, <1>19 DEF VehicleDetail
<1>20. CASE p = "vehicleList"
  BY <1>1, <1>20 DEF VehicleList
<1>21. CASE p = "liveMap"
  BY <1>1, <1>21 DEF LiveMapVehicles
<1>22. CASE p = "liveMapStops"
  BY <1>1, <1>22 DEF LiveMapStops
<1>23. CASE p = "arrivals"
  BY <1>1, <1>23 DEF BoardArrivals
<1>24. CASE p = "boardStop"
  BY <1>1, <1>24 DEF BoardStop
<1>25. CASE p = "nearby"
  BY <1>1, <1>25 DEF NearbyStops
<1>26. CASE p = "searched"
  BY <1>1, <1>26 DEF SearchedStops
<1>27. CASE p = "home"
  BY <1>1, <1>27 DEF HomeNearby
<1>28. CASE p = "favourites"
  BY <1>1, <1>28 DEF HomeFavourites
<1>29. CASE p = "passengerRoutes"
  BY <1>1, <1>29 DEF PassengerRouteList
<1>30. CASE p = "passengerRoute"
  BY <1>1, <1>30 DEF PassengerRouteDetail
<1>31. CASE p = "searchBar"
  BY <1>1, <1>31 DEF SearchBar
<1> QED
  BY <1>2, <1>3, <1>4, <1>5, <1>6, <1>7, <1>8, <1>9, <1>10, <1>11, <1>12, <1>13,
     <1>14, <1>15, <1>16, <1>17, <1>18, <1>19, <1>20, <1>21, <1>22, <1>23, <1>24, <1>25,
     <1>26, <1>27, <1>28, <1>29, <1>30, <1>31

Requested == [key: Keys, read: Nat, late: BOOLEAN]

\* The last request under way, as long as no later one has ended, asks for what is
\* selected, and was not read before the page's own write.
LastIsRight ==
    LET last == requests[Len(requests)] IN
    requests # <<>> /\ key # None /\ ~last.late =>
        last.key = key /\ (last.read = 0 \/ last.read >= wrote)

ViewsTyped ==
    /\ page \in DOMAIN Page
    /\ key \in Keys \cup {None} /\ closure = key
    /\ requests \in Seq(Requested)
    /\ shown \in [key: Keys, read: Nat] \cup {None}
    /\ world \in Nat \ {0} /\ wrote \in Nat /\ wrote <= world
    /\ post # "none" => page = "assignments"
    /\ overtaken \in BOOLEAN /\ failed \in BOOLEAN

\* The search bar has one request under way, of which nothing else is known.
OneAtATime ==
    kind.aborts => Len(requests) <= 1 /\ \A p \in 1..Len(requests): ~requests[p].late

ViewsInv == ViewsTyped /\ LastIsRight /\ OneAtATime /\ QuietViewIsRight

\* The requests that are left when request p is over.
LEMMA WithoutLeaves ==
    ASSUME ViewsTyped, NEW p \in DOMAIN requests
    PROVE  /\ Without(p) \in Seq(Requested)
           /\ Len(Without(p)) = Len(requests) - 1
           /\ Len(requests) > 1 =>
                IF p = Len(requests)
                  THEN Without(p)[Len(requests) - 1].late
                  ELSE Without(p)[Len(requests) - 1] = requests[Len(requests)]
<1> DEFINE n == Len(requests)
           marked == [q \in DOMAIN requests |-> IF q < p THEN [requests[q] EXCEPT !.late = TRUE] ELSE requests[q]]
<1>1. requests \in Seq(Requested) /\ n \in Nat /\ DOMAIN requests = 1..n /\ p \in 1..n
  BY DEF ViewsTyped
<1>2. ASSUME NEW q \in 1..n PROVE marked[q] \in Requested
  <2>1. requests[q] \in Requested
    BY <1>1, <1>2, ElementOfSeq
  <2>2. [requests[q] EXCEPT !.late = TRUE] \in Requested
    BY <2>1 DEF Requested
  <2> QED
    BY <1>1, <1>2, <2>1, <2>2
<1>3. marked \in Seq(Requested) /\ Len(marked) = n
  BY <1>1, <1>2
<1>4. Without(p) = RemoveAt(marked, p)
  BY DEF Without
<1>5. n > 1 /\ p = n => marked[n - 1].late
  BY <1>1 DEF Requested
<1>6. p < n => marked[n] = requests[n]
  BY <1>1
<1> HIDE DEF marked, n
<1>7. /\ RemoveAt(marked, p) \in Seq(Requested) /\ Len(RemoveAt(marked, p)) = n - 1
      /\ \A j \in 1..n - 1: RemoveAt(marked, p)[j] = IF j < p THEN marked[j] ELSE marked[j + 1]
  BY <1>1, <1>3, RemoveAtElements
<1>8. n > 1 => n - 1 \in 1..n - 1 /\ (n - 1) + 1 = n /\ (n - 1 < p <=> p = n)
  BY <1>1
<1> QED
  BY <1>1, <1>4, <1>5, <1>6, <1>7, <1>8 DEF n

\* Sending a request for what is selected keeps the invariant, with nothing else
\* but the page's own write or its flags changed.
LEMMA FetchKeeps ==
    ASSUME ViewsInv, requests' = Fetch(requests, key'), key' \in Keys \cup {None}, closure' = key',
           key' # key => key' \in Keys,
           kind.aborts => requests = <<>> /\ key' # None,
           UNCHANGED <<page, shown, world, overtaken, failed>>, wrote' \in {wrote, world}, key' = None => wrote' = wrote,
           post' # "none" => page = "assignments"
    PROVE  ViewsInv'
<1>1. ViewsTyped /\ requests \in Seq(Requested) /\ Len(requests) \in Nat /\ kind' = kind
  BY DEF ViewsInv, ViewsTyped, kind
<1>2. CASE key' = None
  <2>1. requests' = requests /\ key' = key /\ wrote' = wrote
    BY <1>2, ViewsAssumption DEF Fetch
  <2>2. ViewsTyped' /\ LastIsRight' /\ OneAtATime' /\ QuietViewIsRight'
    BY <1>1, <1>2, <2>1 DEF ViewsInv, ViewsTyped, LastIsRight, OneAtATime, QuietViewIsRight
  <2> QED
    BY <2>2 DEF ViewsInv
<1>3. CASE key' # None
  <2> DEFINE n == Len(requests) + 1
  <2>1. Sent(key') \in Requested /\ ~Sent(key').late /\ Sent(key').key = key' /\ Sent(key').read = 0
    BY <1>3, ViewsAssumption DEF Sent, Requested
  <2>2. requests' = Append(requests, Sent(key'))
    BY <1>3 DEF Fetch
  <2> DEFINE e == Sent(key')
  <2> HIDE DEF e
  <2>3. requests' \in Seq(Requested) /\ Len(requests') = n /\ requests'[n] = e /\ requests' # <<>>
    BY <1>1, <2>1, <2>2 DEF e
  <2>4. ViewsTyped'
    BY <1>1, <2>3 DEF ViewsTyped
  <2>5. LastIsRight' /\ QuietViewIsRight'
    BY <2>1, <2>3 DEF LastIsRight, QuietViewIsRight, e
  <2>6. OneAtATime'
    <3>1. ASSUME kind.aborts PROVE Len(requests') <= 1 /\ \A p \in 1..Len(requests'): ~requests'[p].late
      <4>1. n = 1
        BY <3>1
      <4> QED
        BY <2>1, <2>3, <4>1 DEF e
    <3> QED
      BY <1>1, <3>1 DEF OneAtATime
  <2> QED
    BY <2>4, <2>5, <2>6 DEF ViewsInv
<1> QED
  BY <1>2, <1>3

\* The end of request p: with an answer, which is shown, or without one.
LEMMA EndKeeps ==
    ASSUME ViewsInv, NEW p \in DOMAIN requests, requests' = Without(p),
           overtaken' = requests[p].late,
           UNCHANGED <<page, key, closure, world, post, wrote>>,
           \/ /\ requests[p].read > 0 /\ failed' = FALSE
              /\ shown' = [key |-> requests[p].key, read |-> requests[p].read]
           \/ failed' = TRUE /\ shown' \in {shown, None}
    PROVE  ViewsInv'
<1> DEFINE n == Len(requests)
<1>1. /\ ViewsTyped /\ requests \in Seq(Requested) /\ n \in Nat /\ p \in 1..n /\ kind' = kind
      /\ requests[p] \in Requested
  BY ElementOfSeq DEF ViewsInv, ViewsTyped, kind
<1>2. /\ requests' \in Seq(Requested) /\ Len(requests') = n - 1
      /\ n > 1 => IF p = n THEN requests'[n - 1].late ELSE requests'[n - 1] = requests[n]
  BY <1>1, WithoutLeaves
<1>3. ViewsTyped'
  <2>1. overtaken' \in BOOLEAN /\ failed' \in BOOLEAN
    BY <1>1, Zenon DEF Requested
  <2>2. shown' \in [key: Keys, read: Nat] \cup {None}
    BY <1>1 DEF ViewsTyped, Requested
  <2> QED
    BY <1>1, <1>2, <2>1, <2>2 DEF ViewsTyped
<1>4. LastIsRight'
  <2>1. CASE n = 1
    BY <1>2, <2>1 DEF LastIsRight
  <2>2. CASE n > 1
    <3>1. requests # <<>>
      BY <1>1, <2>2
    <3> QED
      BY <1>2, <2>2, <3>1 DEF LastIsRight, ViewsInv
  <2> QED
    <3> HIDE DEF n
    <3>1. n = 1 \/ n > 1
      <4>1. n \in Nat /\ p \in 1..n
        BY <1>1
      <4> QED
        BY <4>1
    <3> QED
      BY <2>1, <2>2, <3>1
<1>5. OneAtATime'
  <2>1. ASSUME kind.aborts PROVE Len(requests') = 0
    BY <1>1, <1>2, <2>1 DEF OneAtATime, ViewsInv
  <2> QED
    BY <1>1, <2>1 DEF OneAtATime
<1>6. QuietViewIsRight'
  <2> SUFFICES ASSUME requests' = <<>>, key # None, ~failed', overtaken' => kind.aborts
               PROVE  shown' # None /\ shown'.key = key /\ shown'.read >= wrote
    BY <1>1 DEF QuietViewIsRight
  <2>1. n = 1 /\ p = 1
    BY <1>1, <1>2
  <2>2. ~requests[1].late
    BY <1>1, <2>1 DEF OneAtATime, ViewsInv
  <2>3. requests[1].key = key /\ (requests[1].read = 0 \/ requests[1].read >= wrote)
    BY <2>1, <2>2 DEF LastIsRight, ViewsInv
  <2>4. requests[1].read \in Nat /\ requests[1].key \in Keys
    BY <1>1, <2>1 DEF Requested
  <2>5. requests[1].read > 0 /\ shown' = [key |-> requests[1].key, read |-> requests[1].read]
    BY <2>1
  <2>6. shown' # None
    BY <2>4, <2>5, ViewsAssumption
  <2> QED
    BY <2>3, <2>4, <2>5, <2>6
<1> QED
  BY <1>3, <1>4, <1>5, <1>6 DEF ViewsInv

\* A new selection.
LEMMA ChooseKeeps ==
    ASSUME ViewsInv, NEW k \in Keys \cup {None}, Choose(k)
    PROVE  ViewsInv'
<1>1. ViewsTyped /\ kind' = kind /\ page \in DOMAIN Page /\ (kind.aborts <=> page = "searchBar")
  BY Kinds DEF ViewsInv, ViewsTyped, Choose, kind
<1>2. /\ key' = k /\ closure' = k
      /\ requests' = Fetch(Kept, k)
      /\ UNCHANGED <<page, world, post, wrote, failed>>
  BY DEF Choose, Recaptured
<1>3. Kept \in Seq(Requested) /\ Len(Kept) \in Nat
  BY <1>1 DEF Kept, ViewsTyped
<1>4. overtaken' \in BOOLEAN
  BY <1>1 DEF Choose, ViewsTyped
<1>5. shown' \in [key: Keys, read: Nat] \cup {None}
  <2>1. AfterAbort \subseteq [key: Keys, read: Nat] \cup {None}
    <3>1. ASSUME NEW q \in DOMAIN requests PROVE [key |-> requests[q].key, read |-> requests[q].read] \in [key: Keys, read: Nat]
      <4>1. requests[q] \in Requested
        BY <1>1, ElementOfSeq DEF ViewsTyped
      <4> QED
        BY <4>1 DEF Requested
    <3> QED
      BY <3>1 DEF AfterAbort
  <2>2. shown' \in AfterAbort \cup {None, shown}
    BY DEF Choose
  <2> QED
    BY <1>1, <2>1, <2>2 DEF ViewsTyped
<1>6. CASE k = None
  <2>1. requests' = Kept
    BY <1>2, <1>6 DEF Fetch
  <2>2. ViewsTyped'
    BY <1>1, <1>2, <1>3, <1>4, <1>5, <2>1 DEF ViewsTyped
  <2>3. LastIsRight' /\ QuietViewIsRight'
    BY <1>2, <1>6 DEF LastIsRight, QuietViewIsRight
  <2>4. OneAtATime'
    BY <1>1, <2>1 DEF OneAtATime, Kept
  <2> QED
    BY <2>2, <2>3, <2>4 DEF ViewsInv
<1>7. CASE k # None
  <2> DEFINE e == Sent(k)
             n == Len(Kept) + 1
  <2>1. e \in Requested /\ ~e.late /\ e.key = k /\ e.read = 0
    BY <1>7 DEF Sent, Requested
  <2>2. requests' = Append(Kept, e)
    BY <1>2, <1>7 DEF Fetch
  <2> HIDE DEF e
  <2>3. requests' \in Seq(Requested) /\ Len(requests') = n /\ requests'[n] = e /\ requests' # <<>>
    BY <1>3, <2>1, <2>2
  <2>4. ViewsTyped'
    BY <1>1, <1>2, <1>4, <1>5, <2>3 DEF ViewsTyped
  <2>5. LastIsRight' /\ QuietViewIsRight'
    BY <1>2, <2>1, <2>3 DEF LastIsRight, QuietViewIsRight
  <2>6. OneAtATime'
    <3>1. ASSUME kind.aborts PROVE n = 1
      BY <3>1 DEF Kept
    <3> QED
      BY <1>1, <2>1, <2>3, <3>1 DEF OneAtATime
  <2> QED
    BY <2>4, <2>5, <2>6 DEF ViewsInv
<1> QED
  BY <1>6, <1>7

\* The endpoint reads the database as it is now.
LEMMA ServeKeeps ==
    ASSUME ViewsInv, NEW p \in DOMAIN requests, Serve(p)
    PROVE  ViewsInv'
<1> DEFINE n == Len(requests)
           e == [requests[p] EXCEPT !.read = world]
<1>1. /\ ViewsTyped /\ requests \in Seq(Requested) /\ n \in Nat /\ p \in 1..n /\ kind' = kind
      /\ requests[p] \in Requested /\ world \in Nat /\ wrote <= world /\ wrote \in Nat
  BY ElementOfSeq DEF ViewsInv, ViewsTyped, kind, Serve
<1>2. /\ requests' = [requests EXCEPT ![p].read = world]
      /\ UNCHANGED <<page, key, closure, shown, world, post, wrote, overtaken, failed>>
  BY DEF Serve
<1>3. e \in Requested /\ e.key = requests[p].key /\ e.late = requests[p].late /\ e.read = world
  BY <1>1 DEF Requested
<1>4. requests' = [requests EXCEPT ![p] = e]
  BY <1>2
<1> HIDE DEF e
<1>5. requests' \in Seq(Requested) /\ Len(requests') = n /\ \A q \in 1..n: requests'[q] = IF q = p THEN e ELSE requests[q]
  BY <1>1, <1>3, <1>4, ExceptSeq
<1>6. ViewsTyped'
  BY <1>1, <1>2, <1>5 DEF ViewsTyped
<1>7. n \in 1..n /\ requests # <<>> /\ requests' # <<>>
  BY <1>1, <1>5
<1>8. LastIsRight'
  <2>1. CASE p = n
    BY <1>1, <1>2, <1>3, <1>5, <1>7, <2>1 DEF LastIsRight, ViewsInv
  <2>2. CASE p # n
    BY <1>1, <1>2, <1>5, <1>7, <2>2 DEF LastIsRight, ViewsInv
  <2> QED
    BY <2>1, <2>2
<1>9. OneAtATime'
  BY <1>1, <1>3, <1>5 DEF OneAtATime, ViewsInv
<1>10. QuietViewIsRight'
  BY <1>7 DEF QuietViewIsRight
<1> QED
  BY <1>6, <1>8, <1>9, <1>10 DEF ViewsInv

\* Steps that leave the page's data alone.
LEMMA OutsideKeeps ==
    ASSUME ViewsInv, UNCHANGED <<page, key, closure, requests, shown, wrote, overtaken, failed>>,
           world' \in {world, world + 1}, post' # "none" => page = "assignments"
    PROVE  ViewsInv'
<1>1. ViewsTyped /\ kind' = kind
  BY DEF ViewsInv, kind
<1>2. ViewsTyped'
  BY <1>1 DEF ViewsTyped
<1>3. LastIsRight' /\ OneAtATime' /\ QuietViewIsRight'
  BY <1>1 DEF ViewsInv, LastIsRight, OneAtATime, QuietViewIsRight
<1> QED
  BY <1>2, <1>3 DEF ViewsInv

\* The invariant of the pages holds at the start.
LEMMA InitViews == ViewsInit => ViewsInv
<1> SUFFICES ASSUME ViewsInit PROVE ViewsInv
  OBVIOUS
<1>1. /\ key = kind.opens /\ closure = key /\ requests = Fetch(<<>>, key) /\ shown = None
      /\ world = 1 /\ wrote = 0 /\ post = "none" /\ overtaken = FALSE /\ failed = FALSE
  BY DEF ViewsInit
<1>2. page \in DOMAIN Page /\ kind = Page[page]
  BY PagesAssumption DEF ViewsInit, kind
<1>3. key \in Keys \cup {None} /\ (kind.aborts => key = None)
  BY <1>1, <1>2, Kinds
<1>6. overtaken \in BOOLEAN /\ failed \in BOOLEAN
  BY <1>1, Zenon
<1>4. CASE key = None
  <2>1. requests = <<>>
    BY <1>1, <1>4 DEF Fetch
  <2>2. ViewsTyped
    <3>1. shown \in [key: Keys, read: Nat] \cup {None}
      BY <1>1
    <3>2. requests \in Seq(Requested)
      BY <2>1
    <3>3. world \in Nat \ {0} /\ wrote \in Nat /\ wrote <= world
      BY <1>1
    <3>4. key \in Keys \cup {None} /\ closure = key
      BY <1>1, <1>3
    <3>5. post # "none" => page = "assignments"
      BY <1>1
    <3> QED
      BY <1>2, <1>6, <3>1, <3>2, <3>3, <3>4, <3>5, Zenon DEF ViewsTyped
  <2>3. LastIsRight /\ OneAtATime /\ QuietViewIsRight
    BY <1>4, <2>1 DEF LastIsRight, OneAtATime, QuietViewIsRight
  <2> QED
    BY <2>2, <2>3 DEF ViewsInv
<1>5. CASE key # None
  <2> DEFINE e == Sent(key)
  <2>1. e \in Requested /\ ~e.late /\ e.key = key /\ e.read = 0
    BY <1>3, <1>5 DEF Sent, Requested
  <2>2. requests = Append(<<>>, e)
    BY <1>1, <1>5 DEF Fetch
  <2> HIDE DEF e
  <2>3. requests \in Seq(Requested) /\ Len(requests) = 1 /\ requests[1] = e /\ requests # <<>>
    BY <2>1, <2>2
  <2>4. ViewsTyped
    BY <1>1, <1>2, <1>3, <1>6, <2>3 DEF ViewsTyped
  <2>5. LastIsRight /\ OneAtATime /\ QuietViewIsRight
    BY <1>3, <1>5, <2>1, <2>3 DEF LastIsRight, OneAtATime, QuietViewIsRight
  <2> QED
    BY <2>4, <2>5 DEF ViewsInv
<1> QED
  BY <1>4, <1>5

\* Every step of a page keeps the invariant.
LEMMA ViewsKeep ==
    ASSUME ViewsInv, ViewsNext
    PROVE  ViewsInv'
<1>1. /\ ViewsTyped /\ page \in DOMAIN Page /\ closure = key /\ kind = Page[page]
      /\ key \in Keys \cup {None} /\ requests \in Seq(Requested)
      /\ (kind.aborts <=> page = "searchBar") /\ (page = "searchBar" => ~kind.polls)
      /\ (post # "none" => page = "assignments")
  BY Kinds DEF ViewsInv, ViewsTyped, kind
<1>2. ASSUME NEW k \in Keys \cup {None}, Choose(k) PROVE ViewsInv'
  BY <1>2, ChooseKeeps
<1>3. CASE Located
  <2>1. PICK k \in Keys: key' = k /\ closure' = k /\ requests' = Fetch(requests, k)
    BY <1>3 DEF Located
  <2>2. UNCHANGED <<page, shown, world, wrote, overtaken, failed, post>> /\ ~kind.aborts
    BY <1>1, <1>3 DEF Located
  <2> QED
    BY <1>1, <2>1, <2>2, FetchKeeps
<1>4. CASE Timer
  <2>1. /\ UNCHANGED <<page, key, closure, shown, world, wrote, overtaken, failed, post>>
        /\ requests' = Fetch(requests, key) /\ ~kind.aborts
    BY <1>1, <1>4 DEF Timer
  <2> QED
    BY <1>1, <2>1, FetchKeeps
<1>5. CASE Refresh
  <2>1. /\ UNCHANGED <<page, key, closure, shown, world, wrote, overtaken, failed, post>>
        /\ requests' = Fetch(requests, key) /\ ~kind.aborts
    BY <1>1, <1>5 DEF Refresh
  <2> QED
    BY <1>1, <2>1, FetchKeeps
<1>6. ASSUME NEW p \in 1..MaxInFlight, Serve(p) PROVE ViewsInv'
  <2>1. p \in DOMAIN requests
    BY <1>6 DEF Serve
  <2> QED
    BY <1>6, <2>1, ServeKeeps
<1>7. ASSUME NEW p \in 1..MaxInFlight, Deliver(p) PROVE ViewsInv'
  <2>1. /\ p \in DOMAIN requests /\ requests' = Without(p) /\ overtaken' = requests[p].late
        /\ UNCHANGED <<page, key, closure, world, post, wrote>>
        /\ requests[p].read > 0 /\ failed' = FALSE
        /\ shown' = [key |-> requests[p].key, read |-> requests[p].read]
    BY <1>7 DEF Deliver
  <2> QED
    BY <2>1, EndKeeps
<1>8. ASSUME NEW p \in 1..MaxInFlight, Fails(p) PROVE ViewsInv'
  <2>1. /\ p \in DOMAIN requests /\ requests' = Without(p) /\ overtaken' = requests[p].late
        /\ UNCHANGED <<page, key, closure, world, post, wrote>>
        /\ failed' = TRUE /\ shown' \in {shown, None}
    BY <1>8 DEF Fails
  <2> QED
    BY <2>1, EndKeeps
<1>9. CASE WorldWrites
  BY <1>1, <1>9, OutsideKeeps DEF WorldWrites
<1>10. CASE Submit
  BY <1>1, <1>10, OutsideKeeps DEF Submit
<1>11. CASE Insert
  BY <1>1, <1>11, OutsideKeeps DEF Insert
<1>12. CASE CreateFails
  BY <1>1, <1>12, OutsideKeeps DEF CreateFails
<1>13. CASE Created
  <2>1. /\ page = "assignments" /\ post' = "none" /\ wrote' = world
        /\ requests' = Fetch(requests, key)
        /\ UNCHANGED <<page, key, closure, shown, world, overtaken, failed>>
    BY <1>1, <1>13 DEF Created, Refetched
  <2>2. CASE key # None
    BY <1>1, <2>1, <2>2, FetchKeeps
  <2>3. CASE key = None
    <3>1. requests' = requests
      BY <2>1, <2>3 DEF Fetch
    <3>2. ViewsTyped' /\ LastIsRight' /\ OneAtATime' /\ QuietViewIsRight'
      BY <1>1, <2>1, <2>3, <3>1 DEF ViewsInv, ViewsTyped, LastIsRight, OneAtATime, QuietViewIsRight, kind
    <3> QED
      BY <3>2 DEF ViewsInv
  <2> QED
    BY <2>2, <2>3
<1> QED
  BY <1>2, <1>3, <1>4, <1>5, <1>6, <1>7, <1>8, <1>9, <1>10, <1>11, <1>12, <1>13 DEF ViewsNext

\* A step that leaves the pages alone keeps their invariant.
LEMMA ViewsStay ==
    ASSUME ViewsInv, UNCHANGED viewVars
    PROVE  ViewsInv'
<1>1. UNCHANGED <<page, key, closure, requests, shown, wrote, overtaken, failed, world, post>>
  BY DEF viewVars
<1> QED
  BY <1>1, OutsideKeeps DEF ViewsInv, ViewsTyped

-----------------------------------------------------------------------------
(***************************************************************************)
(* The sockets.                                                             *)
(***************************************************************************)
Subscriptions == (SUBSET Rooms) \cup {Nothing}

HubTyped ==
    /\ ready \in [Sockets -> {"none", "open", "closing", "closed"}]
    /\ clients \in [Sockets -> Subscriptions]
    /\ inbox \in [Sockets -> Seq(Commands)]
    /\ acked \in [Sockets -> SUBSET Rooms]
    /\ DOMAIN heard = Sockets /\ DOMAIN handled = Sockets

\* While a socket is open the server knows it as the client knows itself.
InStep(s) ==
    /\ ready[s] = "none" => acked[s] = {} /\ heard[s] = handled[s]
    /\ ready[s] \in {"none", "closed"} => clients[s] = Nothing
    /\ ready[s] = "open" => clients[s] = acked[s] /\ heard[s] = handled[s]

HubInv ==
    /\ HubTyped
    /\ heard = [s \in Sockets |-> heard[s]] /\ handled = [s \in Sockets |-> handled[s]]
    /\ \A s \in Sockets: InStep(s)

\* No room and any set of rooms are subscriptions.
LEMMA SubscriptionsTyped == Nothing \in Subscriptions /\ SUBSET Rooms \subseteq Subscriptions
  BY DEF Subscriptions

\* The invariant of the sockets holds at the start.
LEMMA InitHub == HubInit => HubInv
<1> SUFFICES ASSUME HubInit PROVE HubInv
  OBVIOUS
<1>1. HubTyped
  <2>1. clients \in [Sockets -> Subscriptions]
    BY SubscriptionsTyped DEF HubInit
  <2>2. inbox \in [Sockets -> Seq(Commands)]
    BY DEF HubInit
  <2>3. acked \in [Sockets -> SUBSET Rooms]
    BY DEF HubInit
  <2> QED
    BY <2>1, <2>2, <2>3 DEF HubInit, HubTyped
<1>2. \A s \in Sockets: InStep(s)
  BY DEF HubInit, InStep
<1> QED
  BY <1>1, <1>2 DEF HubInv, HubInit

\* What a command makes of the rooms are rooms.
LEMMA AppliedTyped ==
    ASSUME NEW rooms \in SUBSET Rooms, NEW m \in Commands
    PROVE  Applied(rooms, m) \in SUBSET Rooms
  BY DEF Applied, Commands

\* Every step of the hub keeps the invariant.
LEMMA HubKeeps ==
    ASSUME HubInv, HubNext
    PROVE  HubInv'
<1>1. /\ HubTyped /\ (\A s \in Sockets: InStep(s)) /\ Nothing \notin SUBSET Rooms
      /\ heard = [s \in Sockets |-> heard[s]] /\ handled = [s \in Sockets |-> handled[s]]
  BY HubAssumption DEF HubInv
<1>2. ASSUME NEW s \in Sockets, Connect(s) PROVE HubInv'
  <2>1. HubTyped'
    BY <1>1, <1>2, SubscriptionsTyped DEF HubTyped, Connect, Added
  <2>2. ASSUME NEW t \in Sockets PROVE InStep(t)'
    BY <1>1, <1>2 DEF HubTyped, InStep, Connect, Added
  <2> QED
    BY <1>1, <1>2, <2>1, <2>2 DEF HubInv, Connect
<1>3. ASSUME NEW s \in Sockets, Send(s) PROVE HubInv'
  <2>1. PICK m \in Commands: inbox' = [inbox EXCEPT ![s] = Append(@, m)]
    BY <1>3 DEF Send
  <2>2. UNCHANGED <<ready, clients, acked, heard, handled>>
    BY <1>3 DEF Send
  <2>3. HubTyped'
    BY <1>1, <2>1, <2>2 DEF HubTyped
  <2> QED
    BY <1>1, <2>2, <2>3 DEF HubInv, InStep
<1>4. ASSUME NEW s \in Sockets, Message(s) PROVE HubInv'
  <2> DEFINE m == Head(inbox[s])
  <2>1. m \in Commands /\ Tail(inbox[s]) \in Seq(Commands) /\ ready[s] = "open"
    BY <1>1, <1>4 DEF Message, HubTyped
  <2>2. /\ clients' = [clients EXCEPT ![s] = IF @ = Nothing THEN Nothing ELSE Applied(@, m)]
        /\ acked' = [acked EXCEPT ![s] = Applied(@, m)]
        /\ heard' = [heard EXCEPT ![s] = Restarted(@, m)]
        /\ handled' = [handled EXCEPT ![s] = Restarted(@, m)]
        /\ inbox' = [inbox EXCEPT ![s] = Tail(@)]
        /\ ready' = ready
    BY <1>4 DEF Message
  <2> HIDE DEF m
  <2>3. clients[s] = acked[s] /\ heard[s] = handled[s] /\ acked[s] \in SUBSET Rooms
    BY <1>1, <2>1 DEF InStep, HubTyped
  <2>4. Applied(acked[s], m) \in SUBSET Rooms /\ clients[s] # Nothing
    BY <1>1, <2>1, <2>3, AppliedTyped
  <2>5. HubTyped'
    BY <1>1, <2>1, <2>2, <2>3, <2>4, SubscriptionsTyped DEF HubTyped
  <2>6. ASSUME NEW t \in Sockets PROVE InStep(t)'
    BY <1>1, <2>1, <2>2, <2>3, <2>4 DEF InStep, HubTyped
  <2> QED
    BY <1>1, <2>2, <2>5, <2>6 DEF HubInv
<1>5. ASSUME NEW s \in Sockets, Leave(s) PROVE HubInv'
  <2>1. HubTyped'
    BY <1>1, <1>5 DEF HubTyped, Leave
  <2>2. ASSUME NEW t \in Sockets PROVE InStep(t)'
    BY <1>1, <1>5 DEF HubTyped, InStep, Leave
  <2> QED
    BY <1>1, <1>5, <2>1, <2>2 DEF HubInv, Leave
<1>6. ASSUME NEW s \in Sockets, Error(s) PROVE HubInv'
  <2>1. HubTyped'
    <3>1. clients' = [clients EXCEPT ![s] = Nothing]
      BY <1>6 DEF Error
    <3>2. clients' \in [Sockets -> Subscriptions]
      BY <1>1, <3>1, SubscriptionsTyped DEF HubTyped
    <3> QED
      BY <1>1, <1>6, <3>2 DEF HubTyped, Error
  <2>2. ASSUME NEW t \in Sockets PROVE InStep(t)'
    BY <1>1, <1>6 DEF HubTyped, InStep, Error
  <2> QED
    BY <1>1, <1>6, <2>1, <2>2 DEF HubInv, Error
<1>7. ASSUME NEW s \in Sockets, Close(s) PROVE HubInv'
  <2>1. HubTyped'
    <3>1. clients' = [clients EXCEPT ![s] = Nothing]
      BY <1>7 DEF Close
    <3>2. clients' \in [Sockets -> Subscriptions]
      BY <1>1, <3>1, SubscriptionsTyped DEF HubTyped
    <3> QED
      BY <1>1, <1>7, <3>2 DEF HubTyped, Close
  <2>2. ASSUME NEW t \in Sockets PROVE InStep(t)'
    BY <1>1, <1>7 DEF HubTyped, InStep, Close
  <2> QED
    BY <1>1, <1>7, <2>1, <2>2 DEF HubInv, Close
<1>8. ASSUME UNCHANGED <<ready, clients, inbox, acked, heard, handled>> PROVE HubInv'
  BY <1>1, <1>8 DEF HubInv, HubTyped, InStep
<1>9. CASE Start \/ Subscribe \/ Attach \/ Lose \/ \E c \in Channels: Publish(c)
  BY <1>8, <1>9 DEF Start, Subscribe, Attach, Lose, Publish
<1>10. CASE HandleMessage
  <2> DEFINE c == Head(arriving).channel
             k == Head(arriving).number
             to == Receivers(RoomOf(c))
             due == {s \in Sockets: ready[s] = "open" /\ RoomOf(c) \in acked[s]}
  <2>1. UNCHANGED <<ready, clients, inbox, acked>>
    BY <1>10 DEF HandleMessage
  <2>2. CASE ~attached
    BY <1>8, <1>10, <2>1, <2>2 DEF HandleMessage
  <2>3. CASE attached
    <3>1. heard' = Heard(heard, c, k, to) /\ handled' = Heard(handled, c, k, due)
      BY <1>10, <2>3 DEF HandleMessage
    <3>2. ASSUME NEW s \in Sockets, ready[s] \in {"open", "none"} PROVE s \in to <=> s \in due
      <4>1. ready[s] = "open" => clients[s] = acked[s] /\ clients[s] # Nothing
        BY <1>1 DEF InStep, HubTyped
      <4> HIDE DEF c
      <4> QED
        BY <4>1 DEF Receivers
    <3> HIDE DEF c, k, to, due
    <3>3. /\ heard' = [s \in Sockets |-> IF s \in to THEN [heard[s] EXCEPT ![c] = Append(@, k)] ELSE heard[s]]
          /\ handled' = [s \in Sockets |-> IF s \in due THEN [handled[s] EXCEPT ![c] = Append(@, k)] ELSE handled[s]]
      BY <3>1 DEF Heard
    <3>4. HubTyped'
      BY <1>1, <2>1, <3>3 DEF HubTyped
    <3>5. ASSUME NEW s \in Sockets PROVE InStep(s)'
      <4>1. ready[s] \in {"open", "none"} /\ heard[s] = handled[s] => heard'[s] = handled'[s]
        BY <3>2, <3>3
      <4> QED
        BY <1>1, <2>1, <4>1 DEF InStep
    <3> QED
      BY <3>3, <3>4, <3>5 DEF HubInv
  <2> QED
    BY <2>2, <2>3
<1> QED
  BY <1>2, <1>3, <1>4, <1>5, <1>6, <1>7, <1>9, <1>10 DEF HubNext

\* A step that leaves the sockets alone keeps their invariant.
LEMMA HubStays ==
    ASSUME HubInv, UNCHANGED hubVars
    PROVE  HubInv'
  BY DEF HubInv, HubTyped, InStep, hubVars

-----------------------------------------------------------------------------
\* The invariants of pages and sockets hold together.
LEMMA ClientsInvariant == Spec => [](ViewsInv /\ HubInv)
<1>1. Init => ViewsInv /\ HubInv
  BY InitViews, InitHub DEF Init
<1>2. (ViewsInv /\ HubInv) /\ [Next]_vars => (ViewsInv /\ HubInv)'
  BY ViewsKeep, ViewsStay, HubKeeps, HubStays DEF Next, Paging, Listening, vars
<1> QED
  BY <1>1, <1>2, PTL DEF Spec

\* When nothing is under way, every view shows the answer to what is selected, and
\* its own last write, unless an answer to an earlier request overtook it or
\* the last request failed; the search bar needs no excuse for the former.
THEOREM QuietViewsAreRight == Spec => []QuietViewIsRight
<1>1. ViewsInv => QuietViewIsRight
  BY DEF ViewsInv
<1> QED
  BY <1>1, ClientsInvariant, PTL

\* Every open socket hears exactly what the server handled for the rooms its client
\* was told it is subscribed to.
THEOREM SocketsHear == Spec => []HearsWhatItAsked
<1>1. HubInv => HearsWhatItAsked
  BY DEF HubInv, InStep, HearsWhatItAsked
<1> QED
  BY <1>1, ClientsInvariant, PTL
=============================================================================
