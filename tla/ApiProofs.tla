------------------------------- MODULE ApiProofs -------------------------------
(***************************************************************************)
(* Proofs about Api, for every set of requests, rows, keys and readers and *)
(* every time to live: its invariants, and that it implements AtomicStore. *)
(***************************************************************************)
EXTENDS Api, Integers, TLAPS

\* What each table can be asked.
LEMMA Asks ==
    ASSUME NEW t \in TableNames, NEW q \in Questions(t)
    PROVE  /\ q # None
           /\ q.op \in {"create", "update", "delete", "acknowledge", "login"}
           /\ q.op = "create" =>
                /\ t \notin {"alerts", "etaPredictions"}
                /\ q.key \in Keys /\ q.mark \in Marks \cup {None}
           /\ q.op \in {"update", "delete", "acknowledge"} => q.id \in Ids /\ t # "users"
           /\ q.op = "delete" => t # "alerts"
           /\ q.op = "acknowledge" => t = "alerts" /\ q.mark \in Marks
           /\ q.op = "login" => t = "users" /\ q.key \in Keys /\ q.valid \in BOOLEAN
           /\ q.op = "update" =>
                /\ t # "alerts"
                /\ IF t = "devices"
                     THEN q \in [op: {"update"}, id: Ids, mark: Marks \cup {None}]
                     ELSE q \in [op: {"update"}, id: Ids, key: Keys]
<1> USE DEF Questions, DeviceRequests, VehicleRequests, RouteRequests, GeofenceRequests,
            AlertRequests, AuthRequests, Creation, Renaming, Deletion
<1>1. q # None
  BY NoneAssumption
<1>2. CASE t = "devices"
  BY <1>1, <1>2
<1>3. CASE t = "vehicles"
  BY <1>1, <1>3
<1>4. CASE t = "routes"
  BY <1>1, <1>4
<1>5. CASE t = "geofences"
  BY <1>1, <1>5
<1>6. CASE t = "alerts"
  BY <1>1, <1>6
<1>7. CASE t = "users"
  BY <1>1, <1>7
<1>8. CASE t = "etaPredictions"
  BY <1>1, <1>8
<1> QED
  BY <1>2, <1>3, <1>4, <1>5, <1>6, <1>7, <1>8 DEF TableNames, Schema

\* A change keeps the columns of a row in their types.
LEMMA ChangedTyped ==
    ASSUME NEW t \in TableNames, NEW q \in Questions(t), NEW row \in Row
    PROVE  /\ Changed(row, q) \in Row
           /\ Changed(row, q).on = row.on
           /\ Changed(row, q).time = row.time
           /\ Changed(row, q).at = row.at
           /\ q.op # "acknowledge" /\ t = "alerts" => Changed(row, q) = row
           /\ q.op = "login" => Changed(row, q) = row
           /\ q.op = "acknowledge" => Changed(row, q).mark = q.mark
<1>1. CASE q.op = "update"
  <2>1. q \in [op: {"update"}, id: Ids, mark: Marks \cup {None}] \/ q \in [op: {"update"}, id: Ids, key: Keys]
    BY <1>1, Asks
  <2>2. t # "alerts"
    BY <1>1, Asks
  <2>3. CASE q \in [op: {"update"}, id: Ids, mark: Marks \cup {None}]
    <3>1. "key" \notin DOMAIN q /\ "mark" \in DOMAIN q
      BY <2>3
    <3>2. Changed(row, q) = [row EXCEPT !.mark = q.mark]
      BY <3>1, <1>1 DEF Changed
    <3> QED
      BY <3>2, <2>2, <2>3, <1>1 DEF Row
  <2>4. CASE q \in [op: {"update"}, id: Ids, key: Keys]
    <3>1. "key" \in DOMAIN q /\ "mark" \notin DOMAIN q
      BY <2>4
    <3>2. Changed(row, q) = [row EXCEPT !.key = q.key]
      BY <3>1, <1>1 DEF Changed
    <3> QED
      BY <3>2, <2>2, <2>4, <1>1 DEF Row
  <2> QED
    BY <2>1, <2>3, <2>4
<1>2. CASE q.op = "acknowledge"
  <2>1. t = "alerts" /\ q.mark \in Marks
    BY <1>2, Asks
  <2>2. q \in [op: {"acknowledge"}, id: Ids, mark: Marks]
    BY <2>1 DEF Questions, AlertRequests
  <2>3. "mark" \in DOMAIN q
    BY <2>2
  <2>4. Changed(row, q) = [row EXCEPT !.mark = q.mark]
    BY <1>2, <2>3 DEF Changed
  <2> QED
    BY <2>4, <2>1, <1>2 DEF Row
<1>3. CASE q.op \notin {"update", "acknowledge"}
  BY <1>3 DEF Changed
<1> QED
  BY <1>1, <1>2, <1>3

\* Stamping changes the time of acknowledgement only.
LEMMA StampedTyped ==
    ASSUME TypeOK, NEW q \in Questions(table), NEW row \in Row
    PROVE  /\ Stamped(row, q) \in Row
           /\ Stamped(row, q) = [Changed(row, q) EXCEPT
                                   !.at = IF q.op = "acknowledge" THEN now ELSE @]
  BY ChangedTyped DEF Stamped, TypeOK, Row

-----------------------------------------------------------------------------
(***************************************************************************)
(* What links the statements of a request to the rows.                      *)
(***************************************************************************)
\* The row of a request that is not through is still to come; a request that
\* writes looks for a row as its question says; nobody takes a user away.
Linked(r) ==
    /\ pc[r] = "idle" <=> request[r] = None
    /\ pc[r] = "done" <=> result[r] # None
    /\ pc[r] # "done" => rows[r] = None
    /\ pc[r] = "select" /\ request[r].op = "create" => Schema[table].uniqueKey
    /\ pc[r] = "insert" => request[r].op = "create"
    /\ pc[r] = "delete" => request[r].op = "delete" /\ found[r] = request[r].id
    /\ pc[r] = "update" =>
         /\ request[r].op \in {"update", "acknowledge", "login"}
         /\ found[r] \in Ids
         /\ request[r].op # "login" => found[r] = request[r].id
         /\ request[r].op = "login" => rows[found[r]] # None /\ rows[found[r]].key = request[r].key

ServicesInv == TypeOK /\ Consistent /\ \A r \in Requests: Linked(r)

\* The statements of each service function.
LEMMA Statements ==
    ASSUME TypeOK, NEW q \in Questions(table)
    PROVE  /\ q.op = "create" =>
                /\ Function(q).write = "insert"
                /\ Function(q).first = "insert" \/
                     (Function(q).first = "select" /\ Function(q).refusal = "exists" /\ Schema[table].uniqueKey)
           /\ q.op \in {"update", "acknowledge"} =>
                Function(q) = [first |-> "select", write |-> "update", refusal |-> "absent"]
           /\ q.op = "delete" =>
                Function(q) = [first |-> "select", write |-> "delete", refusal |-> "absent"]
           /\ q.op = "login" =>
                Function(q) = [first |-> "select", write |-> "update", refusal |-> "unauthorized"]
<1> USE DEF Questions, DeviceRequests, VehicleRequests, RouteRequests, GeofenceRequests,
            AlertRequests, AuthRequests, Creation, Renaming, Deletion, Function, Plain, Checked,
            Schema, Table
<1>2. CASE table = "devices"
  BY <1>2 DEF DeviceService, Devices
<1>3. CASE table = "vehicles"
  BY <1>3 DEF VehicleService, Vehicles
<1>4. CASE table = "routes"
  BY <1>4 DEF RouteService
<1>5. CASE table = "geofences"
  BY <1>5 DEF GeofenceService
<1>6. CASE table = "alerts"
  BY <1>6 DEF AlertService
<1>7. CASE table = "users"
  BY <1>7 DEF AuthService, Users
<1>8. CASE table = "etaPredictions"
  BY <1>8
<1> QED
  BY <1>2, <1>3, <1>4, <1>5, <1>6, <1>7, <1>8 DEF TypeOK, TableNames

\* A create that looks first is refused for what exists.
LEMMA ExistsRefusal ==
    ASSUME TypeOK, NEW q \in Questions(table), q.op = "create", Schema[table].uniqueKey
    PROVE  Function(q).refusal = "exists"
<1>1. table \in {"devices", "vehicles", "users"}
  BY DEF TypeOK, TableNames, Schema, Table, Devices, Vehicles, Users, Routes, Geofences, Alerts, EtaPredictions
<1> QED
  BY <1>1 DEF Function, Checked, DeviceService, VehicleService, AuthService

\* Initially the invariant holds.
LEMMA InitLinked == Init => ServicesInv
<1> SUFFICES ASSUME Init PROVE ServicesInv
  OBVIOUS
<1> USE DEF Init, ServicesInit
<1>1. TypeOK
  <2>1. ASSUME NEW i \in Ids PROVE rows[i] \in Row \cup {None}
    <3> DEFINE flag == IF table = "users" THEN BOOLEAN ELSE {FALSE}
    <3>1. flag \subseteq BOOLEAN
      OBVIOUS
    <3>2. rows[i] \in [key: Keys, mark: {None}, on: flag, time: {0}, at: {0}] \cup {None}
      OBVIOUS
    <3> HIDE DEF flag, Init
    <3> QED
      BY <3>1, <3>2 DEF Row
  <2>2. rows = [i \in Ids |-> rows[i]]
    OBVIOUS
  <2>3. rows \in [Ids -> Row \cup {None}]
    BY <2>1, <2>2
  <2> QED
    BY <2>3 DEF TypeOK
<1>2. Consistent
  OBVIOUS
<1>3. ASSUME NEW r \in Requests PROVE Linked(r)
  BY <1>3 DEF Linked
<1> QED
  BY <1>1, <1>2, <1>3 DEF ServicesInv

\* Arrive keeps the invariant.
LEMMA ArriveLinked ==
    ASSUME ServicesInv, NEW r \in Requests, Arrive(r)
    PROVE  ServicesInv'
<1> USE DEF Arrive
<1>1. PICK q \in Questions(table):
        /\ request' = [request EXCEPT ![r] = q]
        /\ pc' = [pc EXCEPT ![r] = Function(q).first]
  OBVIOUS
<1>2. q # None /\ Function(q).first \in {"select", "insert"}
      /\ (Function(q).first = "insert" => q.op = "create")
      /\ (Function(q).first = "select" /\ q.op = "create" => Schema[table].uniqueKey)
  <2>1. TypeOK /\ table \in TableNames
    BY DEF ServicesInv, TypeOK
  <2> QED
    BY <2>1, Statements, Asks
<1>3. TypeOK'
  BY <1>1, <1>2 DEF ServicesInv, TypeOK
<1>4. Consistent'
  BY DEF ServicesInv, Consistent, Free
<1>5. ASSUME NEW s \in Requests PROVE Linked(s)'
  <2>1. Linked(s) /\ TypeOK
    BY DEF ServicesInv
  <2>2. CASE s = r
    BY <1>1, <1>2, <2>1, <2>2 DEF Linked, TypeOK
  <2>3. CASE s # r
    BY <1>1, <2>1, <2>3 DEF Linked, TypeOK
  <2> QED
    BY <2>2, <2>3
<1> QED
  BY <1>3, <1>4, <1>5 DEF ServicesInv

\* The rows stay as they are: so do their constraints.
LEMMA RowsStay ==
    ASSUME Consistent, UNCHANGED <<table, rows>>
    PROVE  Consistent'
  BY DEF Consistent, Free

\* Finishing without a write keeps the invariant.
LEMMA FinishLinked ==
    ASSUME ServicesInv, NEW r \in Requests, pc[r] \in {"select", "insert", "update", "delete"},
           NEW v \in Results, Finish(r, v), UNCHANGED <<table, rows, now, request, found>>, errors' \in Nat
    PROVE  ServicesInv'
<1> USE DEF Finish
<1>1. TypeOK'
  BY DEF ServicesInv, TypeOK
<1>2. Consistent'
  BY RowsStay DEF ServicesInv
<1>3. ASSUME NEW s \in Requests PROVE Linked(s)'
  <2>1. Linked(s) /\ TypeOK
    BY DEF ServicesInv
  <2>2. CASE s = r
    BY <2>1, <2>2, ServicesAssumption DEF Linked, TypeOK, ServicesInv
  <2>3. CASE s # r
    BY <2>1, <2>3 DEF Linked, TypeOK
  <2> QED
    BY <2>2, <2>3
<1> QED
  BY <1>1, <1>2, <1>3 DEF ServicesInv

\* Going on to the write keeps the invariant.
LEMMA ProceedLinked ==
    ASSUME ServicesInv, NEW r \in Requests, pc[r] = "select", NEW i \in Ids \cup {None},
           Proceed(r, i), UNCHANGED <<table, rows, now, request, errors>>,
           i = None <=> request[r].op = "create",
           i # None => Matches(request[r], i)
    PROVE  ServicesInv'
<1> DEFINE q == request[r]
<1>1. TypeOK /\ Linked(r) /\ q \in Questions(table) /\ q # None
  BY DEF ServicesInv, TypeOK, Linked
<1>2. /\ pc' = [pc EXCEPT ![r] = Function(q).write]
      /\ found' = [found EXCEPT ![r] = i]
      /\ result' = result
  BY DEF Proceed
<1>3. table \in TableNames
  BY <1>1 DEF TypeOK
<1>4. /\ q.op \in {"create", "update", "delete", "acknowledge", "login"}
      /\ q.op = "create" => Function(q).write = "insert"
      /\ q.op \in {"update", "acknowledge", "login"} => Function(q).write = "update"
      /\ q.op = "delete" => Function(q).write = "delete"
  BY <1>1, <1>3, Asks, Statements
<1>5. TypeOK'
  BY <1>1, <1>2, <1>4 DEF TypeOK
<1>6. Consistent'
  BY RowsStay DEF ServicesInv
<1>7. ASSUME NEW s \in Requests PROVE Linked(s)'
  <2>1. Linked(s)
    BY DEF ServicesInv
  <2>2. CASE s = r
    <3>1. i # None => rows[i] # None /\ IF q.op \in {"create", "login"} THEN rows[i].key = q.key ELSE i = q.id
      BY DEF Matches
    <3>2. pc'[r] = Function(q).write /\ found'[r] = i /\ result'[r] = result[r]
      BY <1>1, <1>2 DEF TypeOK
    <3> QED
      BY <1>1, <1>2, <1>4, <3>1, <3>2, <2>1, <2>2 DEF Linked
  <2>3. CASE s # r
    BY <1>1, <1>2, <2>1, <2>3 DEF Linked, TypeOK
  <2> QED
    BY <2>2, <2>3
<1> QED
  BY <1>5, <1>6, <1>7 DEF ServicesInv

\* The alternatives of a select.
LEMMA SelectCases ==
    ASSUME ServicesInv, NEW r \in Requests, Select(r)
    PROVE  \/ /\ request[r].op = "create" /\ \A i \in Ids: ~Matches(request[r], i)
              /\ Proceed(r, None)
           \/ /\ request[r].op # "create" /\ \A i \in Ids: ~Matches(request[r], i)
              /\ Finish(r, IF request[r].op = "login" THEN "unauthorized" ELSE "absent")
              /\ UNCHANGED found
           \/ \E i \in Ids:
                /\ Matches(request[r], i)
                /\ \/ request[r].op = "create" /\ Finish(r, "exists") /\ UNCHANGED found
                   \/ request[r].op = "login" /\ ~rows[i].on /\ Finish(r, "inactive") /\ UNCHANGED found
                   \/ request[r].op = "login" /\ ~request[r].valid /\ Finish(r, "unauthorized") /\ UNCHANGED found
                   \/ request[r].op # "create" /\ Proceed(r, i)
<1> DEFINE q == request[r]
<1>1. TypeOK /\ Linked(r) /\ q \in Questions(table) /\ q # None /\ table \in TableNames
  BY DEF ServicesInv, TypeOK, Linked, Select
<1>2. /\ q.op \in {"create", "update", "delete", "acknowledge", "login"}
      /\ q.op = "create" => Function(q).refusal = "exists"
      /\ q.op = "login" => Function(q).refusal = "unauthorized"
      /\ q.op \in {"update", "acknowledge", "delete"} => Function(q).refusal = "absent"
  <2>1. q.op \in {"create", "update", "delete", "acknowledge", "login"}
    BY <1>1, Asks
  <2>2. q.op # "create" => Function(q).refusal = IF q.op = "login" THEN "unauthorized" ELSE "absent"
    BY <1>1, <2>1, Statements
  <2>3. q.op = "create" => Function(q).refusal = "exists"
    BY <1>1, ExistsRefusal DEF Linked, Select
  <2> QED
    BY <2>1, <2>2, <2>3
<1>3. CASE \A i \in Ids: ~Matches(q, i)
  BY <1>2, <1>3 DEF Select
<1>4. CASE ~\A i \in Ids: ~Matches(q, i)
  <2>1. PICK i \in Ids:
        /\ Matches(q, i)
        /\ CASE q.op = "create" -> Finish(r, Function(q).refusal) /\ UNCHANGED found
             [] q.op = "login" /\ ~rows[i].on -> Finish(r, "inactive") /\ UNCHANGED found
             [] q.op = "login" /\ rows[i].on /\ ~q.valid -> Finish(r, Function(q).refusal) /\ UNCHANGED found
             [] OTHER -> Proceed(r, i)
    BY <1>4 DEF Select
  <2> QED
    BY <2>1, <1>2
<1> QED
  BY <1>3, <1>4

\* Select keeps the invariant.
LEMMA SelectLinked ==
    ASSUME ServicesInv, NEW r \in Requests, Select(r)
    PROVE  ServicesInv'
<1>1. /\ pc[r] = "select"
      /\ UNCHANGED <<table, rows, now, request, errors>>
      /\ errors' \in Nat
  BY DEF Select, ServicesInv, TypeOK
<1>2. ASSUME NEW v \in Results, Finish(r, v), UNCHANGED found PROVE ServicesInv'
  BY <1>1, <1>2, FinishLinked
<1>3. {"unauthorized", "absent", "exists", "inactive"} \subseteq Results
  BY DEF Results
<1>4. CASE request[r].op = "create" /\ Proceed(r, None)
  BY <1>1, <1>4, ProceedLinked
<1>5. CASE /\ request[r].op # "create"
           /\ Finish(r, IF request[r].op = "login" THEN "unauthorized" ELSE "absent")
           /\ UNCHANGED found
  BY <1>2, <1>3, <1>5
<1>6. ASSUME NEW i \in Ids, Matches(request[r], i), request[r].op # "create", Proceed(r, i)
      PROVE  ServicesInv'
  <2>1. i # None
    BY TablesAssumption DEF Ids
  <2> QED
    BY <1>1, <1>6, <2>1, ProceedLinked
<1>7. CASE \E v \in {"unauthorized", "exists", "inactive"}: Finish(r, v) /\ UNCHANGED found
  BY <1>2, <1>3, <1>7
<1> QED
  BY <1>4, <1>5, <1>6, <1>7, SelectCases

-----------------------------------------------------------------------------
(***************************************************************************)
(* The writes.  A row that a request does not write stays what it was, and  *)
(* the rows a request waits for are not written by others.                  *)
(***************************************************************************)
\* Writing a row that its constraints allow keeps them.
LEMMA WriteConsistent ==
    ASSUME TypeOK, Consistent, NEW i \in Ids, NEW row, row = None \/ Free(table, rows, i, row),
           rows' = [rows EXCEPT ![i] = row], table' = table
    PROVE  Consistent'
<1>1. ASSUME NEW j \in Ids, rows'[j] # None, NEW k \in Ids \ {j}, rows'[k] # None
      PROVE  /\ Schema[table].uniqueKey => rows'[k].key # rows'[j].key
             /\ Schema[table].uniqueMark => rows'[j].mark = None \/ rows'[k].mark # rows'[j].mark
  <2>1. CASE j = i
    BY <1>1, <2>1 DEF Free, TypeOK
  <2>2. CASE k = i
    BY <1>1, <2>2 DEF Free, TypeOK
  <2>3. CASE i \notin {j, k}
    BY <1>1, <2>3 DEF Consistent, Free, TypeOK
  <2> QED
    BY <2>1, <2>2, <2>3
<1> QED
  BY <1>1 DEF Consistent, Free

\* A write by request r to a row it may write, finished with v.
LEMMA WriteLinked ==
    ASSUME ServicesInv, NEW r \in Requests, pc[r] \in {"insert", "update", "delete"},
           NEW v \in Results, Finish(r, v), UNCHANGED <<table, now, request, found, errors>>,
           NEW i \in Ids, NEW row \in Row \cup {None}, row = None \/ Free(table, rows, i, row),
           rows' = [rows EXCEPT ![i] = row],
           i \in Requests \ {r} => rows[i] # None,
           table = "users" /\ rows[i] # None => row # None /\ row.key = rows[i].key
    PROVE  ServicesInv'
<1> USE DEF Finish
<1>1. TypeOK'
  BY DEF ServicesInv, TypeOK
<1>2. Consistent'
  BY WriteConsistent DEF ServicesInv
<1>3. ASSUME NEW s \in Requests PROVE Linked(s)'
  <2>1. Linked(s) /\ TypeOK
    BY DEF ServicesInv
  <2>2. CASE s = r
    BY <2>1, <2>2, ServicesAssumption DEF Linked, TypeOK
  <2>3. CASE s # r
    <3>1. pc'[s] = pc[s] /\ result'[s] = result[s] /\ s \in Ids
      BY <2>1, <2>3 DEF TypeOK, Ids
    <3>2. pc[s] # "done" => rows'[s] = None
      BY <2>1, <2>3, <3>1 DEF Linked, TypeOK
    <3>3. pc[s] = "update" /\ request[s].op = "login" => rows'[found[s]] # None /\ rows'[found[s]].key = request[s].key
      <4> SUFFICES ASSUME pc[s] = "update", request[s].op = "login"
                   PROVE  rows'[found[s]] # None /\ rows'[found[s]].key = request[s].key
        OBVIOUS
      <4>1. request[s] \in Questions(table) /\ table \in TableNames
        BY <2>1 DEF Linked, TypeOK
      <4>2. table = "users"
        BY <4>1, Asks
      <4>3. /\ found[s] \in Ids
            /\ rows[found[s]] # None
            /\ rows[found[s]].key = request[s].key
        BY <2>1 DEF Linked
      <4> QED
        BY <2>1, <4>2, <4>3 DEF TypeOK
    <3> QED
      BY <2>1, <3>1, <3>2, <3>3 DEF Linked
  <2> QED
    BY <2>2, <2>3
<1> QED
  BY <1>1, <1>2, <1>3 DEF ServicesInv

\* Insert keeps the invariant.
LEMMA InsertLinked ==
    ASSUME ServicesInv, NEW r \in Requests, Insert(r)
    PROVE  ServicesInv'
<1> DEFINE row == Inserted(request[r])
<1>1. /\ pc[r] = "insert" /\ TypeOK /\ Linked(r) /\ table \in TableNames
      /\ UNCHANGED <<table, now, request, found, errors>>
      /\ errors' \in Nat /\ r \in Ids
  BY DEF Insert, ServicesInv, TypeOK, Ids
<1>2. request[r].op = "create" /\ request[r] \in Questions(table)
  BY <1>1 DEF Linked, TypeOK
<1>3. row \in Row
  <2>1. request[r].key \in Keys /\ request[r].mark \in Marks \cup {None}
    BY <1>1, <1>2, Asks
  <2> QED
    BY <2>1 DEF Inserted, Row
<1>4. CASE Free(table, rows, r, row) /\ rows' = [rows EXCEPT ![r] = row] /\ Finish(r, "created")
  <2>1. rows[r] = None /\ "created" \in Results
    BY <1>1 DEF Linked, Results
  <2> HIDE DEF row
  <2> QED
    BY <1>1, <1>3, <1>4, <2>1, WriteLinked
<1>5. CASE UNCHANGED rows /\ Finish(r, "conflict")
  <2>1. "conflict" \in Results
    BY DEF Results
  <2> QED
    BY <1>1, <1>5, <2>1, FinishLinked
<1> QED
  BY <1>4, <1>5 DEF Insert

\* What an update writes.
LEMMA UpdateWrites ==
    ASSUME ServicesInv, NEW r \in Requests, pc[r] = "update"
    PROVE  /\ found[r] \in Ids /\ request[r] \in Questions(table)
           /\ Updated(request[r], found[r], rows) =
                [rows EXCEPT ![found[r]] = IF rows[found[r]] = None THEN None ELSE Stamped(rows[found[r]], request[r])]
           /\ rows[found[r]] # None =>
                /\ Stamped(rows[found[r]], request[r]) \in Row
                /\ Stamped(rows[found[r]], request[r]) # None
                /\ table = "users" => Stamped(rows[found[r]], request[r]).key = rows[found[r]].key
<1> DEFINE i == found[r]
           q == request[r]
<1>1. TypeOK /\ Linked(r) /\ table \in TableNames /\ rows \in [Ids -> Row \cup {None}]
  BY DEF ServicesInv, TypeOK
<1>2. i \in Ids /\ q \in Questions(table)
  BY <1>1 DEF Linked, TypeOK
<1>3. Updated(q, i, rows) = [rows EXCEPT ![i] = IF rows[i] = None THEN None ELSE Stamped(rows[i], q)]
  BY <1>1, <1>2 DEF Updated
<1>4. ASSUME rows[i] # None
      PROVE  /\ Stamped(rows[i], q) \in Row
             /\ Stamped(rows[i], q) # None
             /\ table = "users" => Stamped(rows[i], q).key = rows[i].key
  <2>1. rows[i] \in Row
    BY <1>1, <1>2, <1>4
  <2>2. /\ Stamped(rows[i], q) \in Row
        /\ Stamped(rows[i], q) = [Changed(rows[i], q) EXCEPT !.at = IF q.op = "acknowledge" THEN now ELSE @]
    BY <1>1, <1>2, <2>1, StampedTyped
  <2>3. Changed(rows[i], q) \in Row
    BY <1>1, <1>2, <2>1, ChangedTyped
  <2>4. ASSUME table = "users" PROVE Changed(rows[i], q) = rows[i]
    <3>1. q.op \in {"update", "acknowledge", "login"}
      BY <1>1 DEF Linked
    <3>2. q.op = "login"
      BY <1>1, <1>2, <2>4, <3>1, Asks
    <3> QED
      BY <1>1, <1>2, <2>1, <3>2, ChangedTyped
  <2> QED
    BY <2>2, <2>3, <2>4, ServicesAssumption DEF Row
<1> QED
  BY <1>2, <1>3, <1>4

\* Update keeps the invariant.
LEMMA UpdateLinked ==
    ASSUME ServicesInv, NEW r \in Requests, Update(r)
    PROVE  ServicesInv'
<1> DEFINE i == found[r]
           row == IF rows[i] = None THEN None ELSE Stamped(rows[i], request[r])
           after == Updated(request[r], i, rows)
<1>1. /\ pc[r] = "update" /\ TypeOK /\ rows \in [Ids -> Row \cup {None}]
      /\ UNCHANGED <<table, now, request, found, errors>>
      /\ errors' \in Nat
  BY DEF Update, ServicesInv, TypeOK
<1>2. /\ i \in Ids
      /\ after = [rows EXCEPT ![i] = row]
      /\ row \in Row \cup {None}
      /\ row = None <=> rows[i] = None
      /\ table = "users" /\ rows[i] # None => row.key = rows[i].key
  BY <1>1, UpdateWrites
<1> HIDE DEF row
<1>3. CASE (after[i] # None => Free(table, rows, i, after[i])) /\ rows' = after
           /\ Finish(r, IF rows[i] = None THEN "empty" ELSE "ok")
  <2>1. after[i] = row
    BY <1>1, <1>2
  <2>2. i \in Requests \ {r} => rows[i] # None \/ rows' = rows
    BY <1>1, <1>2, <1>3
  <2>3. {"empty", "ok"} \subseteq Results
    BY DEF Results
  <2>4. CASE rows[i] # None
    BY <1>1, <1>2, <1>3, <2>1, <2>3, <2>4, WriteLinked
  <2>5. CASE rows[i] = None
    <3>1. rows' = rows
      BY <1>1, <1>2, <1>3, <2>5
    <3> QED
      BY <1>1, <1>3, <2>3, <2>5, <3>1, FinishLinked
  <2> QED
    BY <2>4, <2>5
<1>4. CASE UNCHANGED rows /\ Finish(r, "conflict")
  <2>1. "conflict" \in Results
    BY DEF Results
  <2> QED
    BY <1>1, <1>4, <2>1, FinishLinked
<1> QED
  BY <1>3, <1>4 DEF Update

\* Delete keeps the invariant.
LEMMA DeleteLinked ==
    ASSUME ServicesInv, NEW r \in Requests, Delete(r)
    PROVE  ServicesInv'
<1> DEFINE i == found[r]
<1>1. /\ pc[r] = "delete" /\ TypeOK /\ Linked(r) /\ table \in TableNames
      /\ UNCHANGED <<table, now, request, found, errors>>
      /\ rows' = [rows EXCEPT ![i] = None] /\ Finish(r, "ok")
      /\ errors' \in Nat /\ rows \in [Ids -> Row \cup {None}] /\ "ok" \in Results
  BY DEF Delete, ServicesInv, TypeOK, Results
<1>2. request[r].op = "delete" /\ i = request[r].id /\ request[r] \in Questions(table)
  BY <1>1 DEF Linked, TypeOK
<1>3. i \in Ids /\ table # "users"
  BY <1>1, <1>2, Asks
<1>4. CASE rows[i] # None
  BY <1>1, <1>3, <1>4, WriteLinked
<1>5. CASE rows[i] = None
  <2>1. rows' = rows
    BY <1>1, <1>3, <1>5
  <2> QED
    BY <1>1, <2>1, FinishLinked
<1> QED
  BY <1>4, <1>5

\* Fail keeps the invariant.
LEMMA FailLinked ==
    ASSUME ServicesInv, NEW r \in Requests, Fail(r)
    PROVE  ServicesInv'
<1>1. pc[r] \in {"select", "insert", "update", "delete"} /\ errors' \in Nat /\ Finish(r, "failed")
      /\ UNCHANGED <<table, rows, now, request, found>> /\ "failed" \in Results
  BY DEF Fail, ServicesInv, TypeOK, Results
<1> QED
  BY <1>1, FinishLinked

\* Every step of a service keeps the invariant.
LEMMA ServiceLinked ==
    ASSUME ServicesInv, Service
    PROVE  ServicesInv'
  BY ArriveLinked, SelectLinked, InsertLinked, UpdateLinked, DeleteLinked, FailLinked
     DEF Service, ServiceStep

\* The worker writes rows that no request creates, and never users.
LEMMA WorkerWritesLinked ==
    ASSUME ServicesInv, NEW i \in Known, NEW row \in Row \cup {None}, table # "users",
           row = None \/ Free(table, rows, i, row),
           WorkerWrites(i, row)
    PROVE  ServicesInv'
<1>1. /\ i \in Ids /\ i \notin Requests
      /\ rows' = [rows EXCEPT ![i] = row]
      /\ UNCHANGED <<table, now, request, pc, found, result, errors>>
  BY TablesAssumption DEF WorkerWrites, Ids
<1>2. TypeOK'
  BY <1>1 DEF ServicesInv, TypeOK
<1>3. Consistent'
  BY <1>1, WriteConsistent DEF ServicesInv
<1>4. ASSUME NEW s \in Requests PROVE Linked(s)'
  <2>1. Linked(s) /\ TypeOK /\ s \in Ids /\ rows'[s] = rows[s]
    BY <1>1 DEF ServicesInv, TypeOK, Ids
  <2>2. ~(pc[s] = "update" /\ request[s].op = "login")
    <3> SUFFICES ASSUME pc[s] = "update", request[s].op = "login" PROVE FALSE
      OBVIOUS
    <3>1. request[s] \in Questions(table) /\ table \in TableNames
      BY <2>1 DEF Linked, TypeOK
    <3> QED
      BY <3>1, Asks
  <2> QED
    BY <1>1, <2>1, <2>2 DEF Linked
<1> QED
  BY <1>2, <1>3, <1>4 DEF ServicesInv

\* What the worker writes of a table that it writes: a row of a known identifier,
\* on a table other than users.
LEMMA WorkWrites ==
    ASSUME TypeOK, Consistent, Work
    PROVE  \/ UNCHANGED serviceVars
           \/ \E i \in Known, row \in Row \cup {None}:
                /\ table # "users"
                /\ row = None \/ Free(table, rows, i, row)
                /\ WorkerWrites(i, row)
<1>1. PICK i \in Known:
        Provision(i) \/ MarkOnline(i) \/ StoreRecord(i) \/ GoesOffline(i) \/ Alert(i) \/ DropPrediction(i) \/ Predict(i)
  BY DEF Work
<1>2. i \in Ids /\ now \in Nat /\ (rows[i] # None => rows[i] \in Row /\ Free(table, rows, i, rows[i]))
  BY DEF Ids, TypeOK, Consistent
<1>3. CASE Provision(i)
  <2>1. PICK k \in Keys:
          LET row == [key |-> k, mark |-> None, on |-> TRUE, time |-> now, at |-> 0] IN
          Free(table, rows, i, row) /\ WorkerWrites(i, row)
    BY <1>3 DEF Provision
  <2>2. [key |-> k, mark |-> None, on |-> TRUE, time |-> now, at |-> 0] \in Row
    BY <1>2 DEF Row
  <2> QED
    BY <1>3, <2>1, <2>2 DEF Provision
<1>4. CASE MarkOnline(i)
  <2> DEFINE row == [rows[i] EXCEPT !.on = TRUE, !.time = now]
  <2>1. rows[i] \in Row /\ row \in Row /\ row.key = rows[i].key /\ row.mark = rows[i].mark
    BY <1>2, <1>4 DEF MarkOnline, Row
  <2>2. Free(table, rows, i, row)
    BY <1>2, <1>4, <2>1 DEF Free, MarkOnline
  <2>3. table # "users" /\ WorkerWrites(i, row)
    BY <1>4 DEF MarkOnline
  <2> HIDE DEF row
  <2> QED
    BY <2>1, <2>2, <2>3
<1>5. CASE StoreRecord(i)
  BY <1>5 DEF StoreRecord
<1>6. CASE GoesOffline(i)
  <2> DEFINE row == [rows[i] EXCEPT !.on = FALSE]
  <2>1. rows[i] \in Row /\ row \in Row /\ row.key = rows[i].key /\ row.mark = rows[i].mark
    BY <1>2, <1>6 DEF GoesOffline, Row
  <2>2. Free(table, rows, i, row)
    BY <1>2, <1>6, <2>1 DEF Free, GoesOffline
  <2>3. table # "users" /\ WorkerWrites(i, row)
    BY <1>6 DEF GoesOffline
  <2> HIDE DEF row
  <2> QED
    BY <2>1, <2>2, <2>3
<1>7. CASE Alert(i)
  <2>1. PICK k \in Keys: WorkerWrites(i, [key |-> k, mark |-> None, on |-> FALSE, time |-> now, at |-> 0])
    BY <1>7 DEF Alert
  <2>2. [key |-> k, mark |-> None, on |-> FALSE, time |-> now, at |-> 0] \in Row
    BY <1>2 DEF Row
  <2>3. Free(table, rows, i, [key |-> k, mark |-> None, on |-> FALSE, time |-> now, at |-> 0])
    BY <1>7 DEF Alert, Free, Schema, Alerts, Table
  <2> QED
    BY <1>7, <2>1, <2>2, <2>3 DEF Alert
<1>8. CASE DropPrediction(i)
  BY <1>8 DEF DropPrediction
<1>9. CASE Predict(i)
  <2>1. PICK k \in Keys, t \in {now, now + 1}:
          WorkerWrites(i, [key |-> k, mark |-> None, on |-> FALSE, time |-> t, at |-> 0])
    BY <1>9 DEF Predict
  <2>2. [key |-> k, mark |-> None, on |-> FALSE, time |-> t, at |-> 0] \in Row
    BY <1>2 DEF Row
  <2>3. Free(table, rows, i, [key |-> k, mark |-> None, on |-> FALSE, time |-> t, at |-> 0])
    BY <1>9 DEF Predict, Free, Schema, EtaPredictions, Table
  <2> QED
    BY <1>9, <2>1, <2>2, <2>3 DEF Predict
<1> QED
  BY <1>1, <1>3, <1>4, <1>5, <1>6, <1>7, <1>8, <1>9

\* Steps that leave the services and their rows alone keep the invariant.
LEMMA OthersLinked ==
    ASSUME ServicesInv, now' \in Nat, errors' \in Nat,
           UNCHANGED <<table, rows, request, pc, found, result>>
    PROVE  ServicesInv'
<1>1. TypeOK'
  BY DEF ServicesInv, TypeOK
<1>2. Consistent'
  BY RowsStay DEF ServicesInv
<1>3. ASSUME NEW s \in Requests PROVE Linked(s)'
  BY DEF ServicesInv, Linked
<1> QED
  BY <1>1, <1>2, <1>3 DEF ServicesInv

\* Every step keeps the invariant.
LEMMA NextLinked == ServicesInv /\ [Next]_vars => ServicesInv'
<1> SUFFICES ASSUME ServicesInv, [Next]_vars PROVE ServicesInv'
  OBVIOUS
<1>1. TypeOK /\ Consistent /\ now \in Nat /\ errors \in Nat
  BY DEF ServicesInv, TypeOK
<1>2. CASE Service
  BY <1>2, ServiceLinked
<1>3. CASE Read
  <2>1. UNCHANGED <<table, rows, request, pc, found, result>> /\ now' = now /\ errors' \in Nat
    <3>1. CASE UNCHANGED serviceVars
      BY <1>1, <3>1 DEF serviceVars
    <3>2. CASE (\E g \in Readers: FeedFails(g)) /\ UNCHANGED <<table, rows, now, request, pc, found, result>>
      <4>1. errors' = errors + 1
        BY <3>2 DEF FeedFails
      <4> QED
        BY <1>1, <3>2, <4>1
    <3> QED
      BY <1>3, <3>1, <3>2 DEF Read
  <2> QED
    BY <1>1, <2>1, OthersLinked
<1>4. CASE Tick
  BY <1>1, <1>4, OthersLinked DEF Tick
<1>5. CASE Work
  <2>1. CASE UNCHANGED serviceVars
    BY <1>1, <2>1, OthersLinked DEF serviceVars
  <2> QED
    BY <1>1, <1>5, <2>1, WorkWrites, WorkerWritesLinked
<1>6. CASE UNCHANGED vars
  BY <1>1, <1>6, OthersLinked DEF vars, serviceVars
<1> QED
  BY <1>2, <1>3, <1>4, <1>5, <1>6 DEF Next

\* The rows of a table always satisfy its unique columns, and every statement of a
\* request finds what the statement before it left: in particular, the account that a
\* login has checked is still there, under the same e-mail, when the login is noted.
THEOREM RowsStayConsistent == Spec => []ServicesInv
<1> QED
  BY InitLinked, NextLinked, PTL DEF Spec

-----------------------------------------------------------------------------
(***************************************************************************)
(* The feeds.  What a request read is so at the time it began, what is in   *)
(* the cache was so at most a request before it was stored.                 *)
(***************************************************************************)
\* What the feed says of an entity was so at time t, or later.
Fresh(e, t) ==
    /\ table = "devices" => e.time + ActiveFor > t
    /\ table = "etaPredictions" => e.time >= t
    /\ table = "alerts" => rows[e.id] # None /\ (rows[e.id].mark # None => rows[e.id].at >= t)

Running(g) == reader[g].at \in {"get", "query", "latest", "set"}

Slack == Ttl[table] + RequestTime

ReaderInv(g) ==
    /\ reader[g].at # "idle" => HasFeed
    /\ Running(g) =>
         /\ reader[g].begun <= now /\ now <= reader[g].begun + RequestTime
         /\ \A e \in reader[g].body: Fresh(e, reader[g].begun)
    /\ reader[g].at \in {"get", "query"} => reader[g].body = {}
    /\ reader[g].at = "sent" =>
         /\ reader[g].served <= now
         /\ \A e \in reader[g].body: Fresh(e, reader[g].served - Slack)

CacheInv ==
    cache # None =>
        /\ HasFeed
        /\ cache.until - Ttl[table] <= now
        /\ \A e \in cache.body: Fresh(e, cache.until - Slack)

FeedsInv == FeedsTypeOK /\ CacheInv /\ \A g \in Readers: ReaderInv(g)

\* What an alert's row says can only become later: alerts are not deleted and
\* acknowledging one notes the time.
LEMMA AlertsStay ==
    ASSUME ServicesInv, Next, table = "alerts", NEW i \in Ids, rows[i] # None, NEW t \in Int, t <= now,
           rows[i].mark # None => rows[i].at >= t
    PROVE  rows'[i] # None /\ (rows'[i].mark # None => rows'[i].at >= t)
<1>1. TypeOK /\ table \in TableNames /\ rows \in [Ids -> Row \cup {None}] /\ now \in Nat
  BY DEF ServicesInv, TypeOK
<1>2. CASE UNCHANGED rows
  BY <1>2
<1>3. ASSUME NEW r \in Requests, Insert(r) PROVE FALSE
  <2>1. pc[r] = "insert" /\ Linked(r)
    BY <1>3 DEF Insert, ServicesInv
  <2>2. request[r].op = "create" /\ request[r] \in Questions(table)
    BY <1>1, <2>1 DEF Linked, TypeOK
  <2> QED
    BY <1>1, <2>2, Asks
<1>4. ASSUME NEW r \in Requests, Delete(r) PROVE FALSE
  <2>1. pc[r] = "delete" /\ Linked(r)
    BY <1>4 DEF Delete, ServicesInv
  <2>2. request[r].op = "delete" /\ request[r] \in Questions(table)
    BY <1>1, <2>1 DEF Linked, TypeOK
  <2> QED
    BY <1>1, <2>2, Asks
<1>5. ASSUME NEW r \in Requests, Update(r), ~UNCHANGED rows
      PROVE  rows'[i] # None /\ (rows'[i].mark # None => rows'[i].at >= t)
  <2>1. pc[r] = "update" /\ rows' = Updated(request[r], found[r], rows) /\ Linked(r)
    BY <1>5 DEF Update, ServicesInv
  <2>2. /\ found[r] \in Ids /\ request[r] \in Questions(table)
        /\ Updated(request[r], found[r], rows) =
             [rows EXCEPT ![found[r]] = IF rows[found[r]] = None THEN None ELSE Stamped(rows[found[r]], request[r])]
    BY <2>1, UpdateWrites
  <2>3. CASE found[r] # i
    BY <1>1, <2>1, <2>2, <2>3
  <2>4. CASE found[r] = i
    <3>1. request[r].op \in {"update", "acknowledge", "login"}
      BY <2>1 DEF Linked
    <3>2. request[r].op = "acknowledge"
      BY <1>1, <2>2, <3>1, Asks
    <3>3. rows[i] \in Row /\ Changed(rows[i], request[r]) \in Row
      BY <1>1, <2>2, ChangedTyped
    <3>4. Stamped(rows[i], request[r]) = [Changed(rows[i], request[r]) EXCEPT !.at = now]
      BY <3>2 DEF Stamped
    <3>5. rows'[i] = Stamped(rows[i], request[r])
      BY <1>1, <2>1, <2>2, <2>4
    <3>6. rows'[i].at = now /\ rows'[i] \in Row
      BY <1>1, <3>3, <3>4, <3>5 DEF Row
    <3> QED
      BY <1>1, <3>6, ServicesAssumption
  <2> QED
    BY <2>3, <2>4
<1>6. CASE Service
  <2>1. PICK r \in Requests: ServiceStep(r)
    BY <1>6 DEF Service
  <2>2. CASE Arrive(r) \/ Select(r) \/ Fail(r)
    BY <1>2, <2>2 DEF Arrive, Select, Fail
  <2> QED
    BY <1>2, <1>3, <1>4, <1>5, <2>1, <2>2 DEF ServiceStep
<1>7. CASE Read \/ Tick
  BY <1>2, <1>7 DEF Read, Tick, serviceVars
<1>8. CASE Work
  <2>1. PICK j \in Known:
          Provision(j) \/ MarkOnline(j) \/ StoreRecord(j) \/ GoesOffline(j) \/ Alert(j) \/ DropPrediction(j) \/ Predict(j)
    BY <1>8 DEF Work
  <2>2. CASE StoreRecord(j)
    BY <1>2, <2>2 DEF StoreRecord, serviceVars
  <2>3. CASE Alert(j)
    <3>1. j # i
      BY <2>3 DEF Alert
    <3>2. rows'[i] = rows[i]
      BY <1>1, <2>3, <3>1 DEF Alert, WorkerWrites
    <3> QED
      BY <3>2
  <2> QED
    BY <2>1, <2>2, <2>3 DEF Provision, MarkOnline, GoesOffline, DropPrediction, Predict
<1> QED
  BY <1>6, <1>7, <1>8 DEF Next

\* A step leaves the table as it is, and time does not run back.
LEMMA StepsForward ==
    ASSUME ServicesInv, [Next]_vars
    PROVE  table' = table /\ now \in Nat /\ now' \in Nat /\ now <= now'
<1>1. TypeOK /\ now \in Nat
  BY DEF ServicesInv, TypeOK
<1>2. CASE Service
  BY <1>1, <1>2 DEF Service, ServiceStep, Arrive, Select, Insert, Update, Delete, Fail
<1>3. CASE Read
  BY <1>1, <1>3 DEF Read, serviceVars
<1>4. CASE Tick
  BY <1>1, <1>4 DEF Tick
<1>5. CASE Work
  <2>1. UNCHANGED <<table, now>>
    BY <1>5, WorkWrites DEF ServicesInv, WorkerWrites, serviceVars
  <2> QED
    BY <1>1, <2>1
<1>6. CASE UNCHANGED vars
  BY <1>1, <1>6 DEF vars, serviceVars
<1> QED
  BY <1>2, <1>3, <1>4, <1>5, <1>6 DEF Next

\* What was so once stays so.
LEMMA FreshStays ==
    ASSUME ServicesInv, [Next]_vars, NEW e \in Entity, NEW t \in Int, t <= now, Fresh(e, t)
    PROVE  Fresh(e, t)'
<1>1. table' = table /\ e.id \in Ids
  BY StepsForward DEF Entity
<1>2. CASE UNCHANGED vars
  BY <1>2 DEF Fresh, vars, serviceVars
<1>3. CASE Next /\ table = "alerts"
  <2>1. rows'[e.id] # None /\ (rows'[e.id].mark # None => rows'[e.id].at >= t)
    BY <1>1, <1>3, AlertsStay DEF Fresh
  <2> QED
    BY <1>1, <1>3, <2>1 DEF Fresh
<1>4. CASE table # "alerts"
  BY <1>1, <1>4 DEF Fresh
<1> QED
  BY <1>2, <1>3, <1>4

\* What was so at a time was so before.
LEMMA FreshBefore ==
    ASSUME ServicesInv, NEW e \in Entity, NEW t \in Int, NEW u \in Int, u <= t, Fresh(e, t)
    PROVE  Fresh(e, u)
<1>1. e.id \in Ids /\ e.time \in Nat /\ ActiveFor \in Nat
  BY FeedsAssumption DEF Entity
<1>2. table = "alerts" => (rows[e.id] # None => rows[e.id].at \in Nat)
  BY <1>1 DEF ServicesInv, TypeOK, Row
<1> QED
  BY <1>1, <1>2 DEF Fresh

\* The constants of the feed.
LEMMA SlackTyped ==
    ASSUME TypeOK
    PROVE  Slack \in Nat /\ Ttl[table] \in Nat /\ Ttl[table] <= Slack /\ RequestTime \in Nat
           /\ Slack = Ttl[table] + RequestTime
  BY FeedsAssumption DEF TypeOK, Slack

\* A reader and the cache keep their promises in a step that leaves them alone,
\* provided that time does not run past the reader.
LEMMA ReaderStays ==
    ASSUME ServicesInv, [Next]_vars, FeedsTypeOK, NEW g \in Readers, ReaderInv(g),
           reader'[g] = reader[g], now' = now \/ Tick
    PROVE  ReaderInv(g)'
<1>1. /\ table' = table /\ now \in Nat /\ now' \in Nat /\ now <= now'
      /\ Slack \in Nat /\ Slack' = Slack
      /\ reader[g].begun \in Nat /\ reader[g].served \in Nat /\ reader[g].body \subseteq Entity
      /\ HasFeed' = HasFeed /\ Running(g)' = Running(g) /\ RequestTime \in Nat
  BY StepsForward, SlackTyped DEF ServicesInv, FeedsTypeOK, Slack, HasFeed, Running
<1>2. ASSUME Running(g) PROVE now' <= reader[g].begun + RequestTime
  BY <1>1, <1>2 DEF ReaderInv, Running, Tick, Timely
<1>3. ASSUME Running(g), NEW e \in reader[g].body PROVE Fresh(e, reader[g].begun)'
  <2>1. PICK t \in Int: t = reader[g].begun
    BY <1>1
  <2>2. e \in Entity /\ t <= now /\ Fresh(e, t)
    BY <1>1, <1>3, <2>1 DEF ReaderInv
  <2>3. Fresh(e, t)'
    BY <2>2, FreshStays
  <2> QED
    BY <2>1, <2>3 DEF Fresh
<1>4. ASSUME reader[g].at = "sent", NEW e \in reader[g].body PROVE Fresh(e, reader[g].served - Slack)'
  <2>1. PICK t \in Int: t = reader[g].served - Slack
    BY <1>1
  <2>2. e \in Entity /\ t <= now /\ Fresh(e, t)
    BY <1>1, <1>4, <2>1 DEF ReaderInv
  <2>3. Fresh(e, t)'
    BY <2>2, FreshStays
  <2> QED
    BY <1>1, <2>1, <2>3 DEF Fresh
<1> QED
  BY <1>1, <1>2, <1>3, <1>4 DEF ReaderInv, Running

\* A step that leaves the feeds alone keeps what is cached recent enough.
LEMMA CacheStays ==
    ASSUME ServicesInv, [Next]_vars, FeedsTypeOK, CacheInv, cache' = cache
    PROVE  CacheInv'
<1> SUFFICES ASSUME cache # None PROVE CacheInv'
  BY DEF CacheInv
<1>1. /\ table' = table /\ now \in Nat /\ now' \in Nat /\ now <= now'
      /\ Slack \in Nat /\ Slack' = Slack /\ Ttl[table] \in Nat /\ Ttl[table] <= Slack
      /\ cache.until \in Nat /\ cache.body \subseteq Entity
      /\ HasFeed' = HasFeed
  BY StepsForward, SlackTyped DEF ServicesInv, FeedsTypeOK, Slack, HasFeed, Feed
<1>2. ASSUME NEW e \in cache.body PROVE Fresh(e, cache.until - Slack)'
  <2>1. PICK t \in Int: t = cache.until - Slack
    BY <1>1
  <2>2. e \in Entity /\ t <= now /\ Fresh(e, t)
    BY <1>1, <1>2, <2>1 DEF CacheInv
  <2>3. Fresh(e, t)'
    BY <2>2, FreshStays
  <2> QED
    BY <1>1, <2>1, <2>3 DEF Fresh
<1> QED
  BY <1>1, <1>2 DEF CacheInv

\* A reader's own step leaves the rows and the time alone.
LEMMA ReadFrame ==
    ASSUME TypeOK, Read
    PROVE  UNCHANGED <<table, rows, now>>
  BY DEF Read, serviceVars

\* What a select finds is so at the moment.
LEMMA ShownFresh ==
    ASSUME TypeOK, HasFeed, NEW i \in Shown
    PROVE  [id |-> i, time |-> rows[i].time] \in Entity
           /\ Fresh([id |-> i, time |-> rows[i].time], now)
<1>1. i \in Present /\ rows[i] # None /\ i \in Ids
  BY DEF Shown, VehiclePositions, TripUpdates, ServiceAlerts, Present
<1>2. rows[i] \in Row
  BY <1>1 DEF TypeOK
<1>3. [id |-> i, time |-> rows[i].time] \in Entity
  BY <1>1, <1>2 DEF Entity, Row
<1> DEFINE e == [id |-> i, time |-> rows[i].time]
<1>7. e.id = i /\ e.time = rows[i].time
  OBVIOUS
<1> HIDE DEF e
<1>4. ASSUME table = "devices" PROVE Fresh(e, now)
  <2>1. i \in VehiclePositions
    BY <1>4 DEF Shown
  <2> QED
    BY <1>4, <1>7, <2>1 DEF VehiclePositions, Fresh
<1>5. ASSUME table = "etaPredictions" PROVE Fresh(e, now)
  <2>1. i \in TripUpdates
    BY <1>5 DEF Shown
  <2> QED
    BY <1>5, <1>7, <2>1 DEF TripUpdates, Fresh
<1>6. ASSUME table = "alerts" PROVE Fresh(e, now)
  <2>1. i \in ServiceAlerts
    BY <1>6 DEF Shown
  <2> QED
    BY <1>1, <1>6, <1>7, <2>1 DEF ServiceAlerts, Fresh
<1> QED
  BY <1>3, <1>4, <1>5, <1>6 DEF HasFeed, e

\* A step of a reader keeps its types and its promise, and that of the cache.
LEMMA ReaderSteps ==
    ASSUME ServicesInv, FeedsInv, Read, NEW g \in Readers, FeedStep(g) \/ FeedFails(g)
    PROVE  FeedsTypeOK' /\ CacheInv' /\ ReaderInv(g)'
           /\ \A h \in Readers \ {g}: reader'[h] = reader[h]
<1> DEFINE me == reader[g]
           Reader == [at: {"idle", "get", "query", "latest", "set", "sent", "failed"},
                      begun: Nat, todo: SUBSET Ids, body: SUBSET Entity, served: Nat]
<1>1. /\ TypeOK /\ FeedsTypeOK /\ CacheInv /\ ReaderInv(g) /\ UNCHANGED <<table, rows, now>>
      /\ now \in Nat /\ Slack \in Nat /\ Ttl[table] \in Nat /\ RequestTime \in Nat
      /\ Slack = Ttl[table] + RequestTime /\ Slack' = Slack
      /\ me \in Reader /\ HasFeed' = HasFeed
  BY ReadFrame, SlackTyped DEF ServicesInv, FeedsInv, FeedsTypeOK, TypeOK, Slack, HasFeed
<1>2. cache' = cache => CacheInv'
  BY <1>1 DEF CacheInv, Fresh
<1>3. ASSUME NEW new \in Reader, reader' = [reader EXCEPT ![g] = new], cache' \in Feed \cup {None}, records' = records
      PROVE  FeedsTypeOK' /\ reader'[g] = new /\ \A h \in Readers \ {g}: reader'[h] = reader[h]
  BY <1>1, <1>3 DEF FeedsTypeOK
<1>4. ASSUME NEW e \in Entity, NEW t \in Int, Fresh(e, t) PROVE Fresh(e, t)'
  BY <1>1, <1>4 DEF Fresh
<1>5. cache \in Feed \cup {None} /\ me.body \subseteq Entity /\ me.begun \in Nat /\ (me.at # "idle" => HasFeed)
  BY <1>1 DEF FeedsTypeOK, ReaderInv
<1>6. ASSUME HasFeed, reader'[g].at \in {"get", "query"}, reader'[g].body = {},
             reader'[g].begun <= now, now <= reader'[g].begun + RequestTime
      PROVE  ReaderInv(g)'
  <2>1. HasFeed' /\ reader'[g].at # "sent"
    BY <1>1, <1>6
  <2> HIDE DEF me, Reader
  <2> QED
    BY <1>1, <1>6, <2>1 DEF ReaderInv
<1>7. ASSUME HasFeed, reader'[g].at \in {"latest", "set"}, Running(g), reader'[g].begun = reader[g].begun,
             \A e \in reader'[g].body: e \in Entity /\ Fresh(e, reader[g].begun)
      PROVE  ReaderInv(g)'
  <2>1. HasFeed' /\ reader'[g].at \notin {"sent", "get", "query"}
    BY <1>1, <1>7
  <2>2. reader[g].begun <= now /\ now <= reader[g].begun + RequestTime
    BY <1>1, <1>7 DEF ReaderInv
  <2>3. ASSUME NEW e \in reader'[g].body PROVE Fresh(e, reader[g].begun)'
    BY <1>1, <1>7, <2>3 DEF Fresh
  <2> HIDE DEF me, Reader
  <2> QED
    BY <1>1, <1>7, <2>1, <2>2, <2>3 DEF ReaderInv
<1>8. ASSUME HasFeed, reader'[g].at = "sent", reader'[g].served = now,
             \A e \in reader'[g].body: e \in Entity /\ Fresh(e, now - Slack)
      PROVE  ReaderInv(g)'
  <2>1. HasFeed'
    BY <1>1, <1>8
  <2>2. ASSUME NEW e \in reader'[g].body PROVE Fresh(e, now - Slack)'
    BY <1>1, <1>8, <2>2 DEF Fresh
  <2> HIDE DEF me, Reader
  <2> QED
    BY <1>1, <1>8, <2>1, <2>2 DEF ReaderInv, Running
<1>9. CASE Request(g)
  <2> DEFINE new == [Idle EXCEPT !.at = "get", !.begun = now]
  <2>1. new \in Reader /\ new.at = "get" /\ new.begun = now /\ new.body = {}
    BY <1>1 DEF Idle
  <2>2. reader' = [reader EXCEPT ![g] = new] /\ HasFeed /\ UNCHANGED <<records, cache>>
    BY <1>9 DEF Request
  <2> HIDE DEF new, Reader
  <2>3. FeedsTypeOK' /\ reader'[g] = new /\ \A h \in Readers \ {g}: reader'[h] = reader[h]
    BY <1>3, <1>5, <2>1, <2>2
  <2> QED
    BY <1>1, <1>2, <1>6, <2>1, <2>2, <2>3
<1>10. CASE Hit(g)
  <2> DEFINE new == [me EXCEPT !.at = "sent", !.body = cache.body, !.served = now]
  <2>1. cache \in Feed /\ now < cache.until /\ HasFeed /\ UNCHANGED <<records, cache>>
    BY <1>5, <1>10 DEF Hit, Cached
  <2>2. new \in Reader /\ new.at = "sent" /\ new.served = now /\ new.body = cache.body
    BY <1>1, <2>1 DEF Feed
  <2>3. reader' = [reader EXCEPT ![g] = new]
    BY <1>10 DEF Hit
  <2>4. ASSUME NEW e \in cache.body PROVE e \in Entity /\ Fresh(e, now - Slack)
    <3>1. e \in Entity /\ cache.until \in Nat /\ cache # None
      BY <2>1, <2>4, FeedsAssumption DEF Feed
    <3>2. Fresh(e, cache.until - Slack)
      BY <1>1, <2>4, <3>1 DEF CacheInv
    <3>3. cache.until - Slack \in Int /\ now - Slack \in Int /\ now - Slack <= cache.until - Slack
      BY <1>1, <2>1, <3>1
    <3> QED
      BY <3>1, <3>2, <3>3, FreshBefore
  <2> HIDE DEF new, Reader
  <2>5. FeedsTypeOK' /\ reader'[g] = new /\ \A h \in Readers \ {g}: reader'[h] = reader[h]
    BY <1>3, <1>5, <2>1, <2>2, <2>3
  <2> QED
    BY <1>2, <1>8, <2>1, <2>2, <2>4, <2>5
<1>11. CASE Miss(g)
  <2> DEFINE new == [me EXCEPT !.at = "query"]
  <2>1. me.at = "get" /\ HasFeed /\ UNCHANGED <<records, cache>> /\ reader' = [reader EXCEPT ![g] = new]
    BY <1>5, <1>11 DEF Miss
  <2>2. new \in Reader /\ new.at = "query" /\ new.begun = me.begun /\ new.body = me.body
    BY <1>1
  <2>3. me.body = {} /\ me.begun <= now /\ now <= me.begun + RequestTime
    BY <1>1, <2>1 DEF ReaderInv, Running
  <2> HIDE DEF new, Reader
  <2>4. FeedsTypeOK' /\ reader'[g] = new /\ \A h \in Readers \ {g}: reader'[h] = reader[h]
    BY <1>3, <1>5, <2>1, <2>2
  <2> QED
    BY <1>2, <1>6, <2>1, <2>2, <2>3, <2>4
<1>12. CASE Query(g)
  <2> DEFINE body == {[id |-> i, time |-> rows[i].time]: i \in Shown}
             todo == IF table = "devices" THEN Shown ELSE {}
             at == IF table = "devices" THEN "latest" ELSE "set"
             new == [me EXCEPT !.at = at, !.todo = todo, !.body = body]
  <2>1. me.at = "query" /\ Running(g) /\ HasFeed /\ UNCHANGED <<records, cache>> /\ reader' = [reader EXCEPT ![g] = new]
    BY <1>5, <1>12 DEF Query, Running
  <2>2. todo \subseteq Ids
    BY DEF Shown, VehiclePositions, TripUpdates, ServiceAlerts, Present
  <2>3. me.begun <= now /\ now \in Int /\ me.begun \in Int
    BY <1>1, <2>1 DEF ReaderInv
  <2>4. ASSUME NEW e \in body PROVE e \in Entity /\ Fresh(e, me.begun)
    <3>1. PICK i \in Shown: e = [id |-> i, time |-> rows[i].time]
      BY <2>4
    <3>2. e \in Entity /\ Fresh(e, now)
      BY <1>1, <2>1, <3>1, ShownFresh
    <3> QED
      BY <2>3, <3>2, FreshBefore
  <2> HIDE DEF body, todo
  <2>5. new \in Reader /\ new.at \in {"latest", "set"} /\ new.begun = me.begun /\ new.body = body
    BY <1>1, <2>2, <2>4
  <2> HIDE DEF new, Reader
  <2>6. FeedsTypeOK' /\ reader'[g] = new /\ \A h \in Readers \ {g}: reader'[h] = reader[h]
    BY <1>3, <1>5, <2>1, <2>5
  <2> QED
    BY <1>2, <1>7, <2>1, <2>4, <2>5, <2>6
<1>13. CASE Latest(g)
  <2>1. PICK i \in me.todo:
         reader' = [reader EXCEPT ![g] = [@ EXCEPT
                      !.at = IF reader[g].todo = {i} THEN "set" ELSE "latest",
                      !.todo = reader[g].todo \ {i},
                      !.body = {e \in reader[g].body: e.id = i => i \in records}]]
    BY <1>13 DEF Latest
  <2> DEFINE body == {e \in me.body: e.id = i => i \in records}
             new == [me EXCEPT !.at = IF me.todo = {i} THEN "set" ELSE "latest", !.todo = me.todo \ {i}, !.body = body]
  <2>2. me.at = "latest" /\ Running(g) /\ HasFeed /\ UNCHANGED <<records, cache>> /\ reader' = [reader EXCEPT ![g] = new]
    <3>1. me.at = "latest" /\ UNCHANGED <<records, cache>>
      BY <1>13 DEF Latest
    <3>2. reader' = [reader EXCEPT ![g] = new]
      BY <2>1
    <3> HIDE DEF new, body
    <3> QED
      BY <1>5, <3>1, <3>2 DEF Running
  <2>3. new \in Reader /\ new.at \in {"latest", "set"} /\ new.begun = me.begun /\ new.body = body /\ body \subseteq me.body
    BY <1>1
  <2>4. ASSUME NEW e \in body PROVE e \in Entity /\ Fresh(e, me.begun)
    BY <1>1, <1>5, <2>2 DEF ReaderInv
  <2> HIDE DEF body, new, Reader
  <2>5. FeedsTypeOK' /\ reader'[g] = new /\ \A h \in Readers \ {g}: reader'[h] = reader[h]
    BY <1>3, <1>5, <2>2, <2>3
  <2> QED
    BY <1>2, <1>7, <2>2, <2>3, <2>4, <2>5
<1>14. CASE NoVehicles(g)
  <2> DEFINE new == [me EXCEPT !.at = "set"]
  <2>1. me.at = "latest" /\ Running(g) /\ HasFeed /\ UNCHANGED <<records, cache>> /\ reader' = [reader EXCEPT ![g] = new]
    BY <1>5, <1>14 DEF NoVehicles, Running
  <2>2. new \in Reader /\ new.at = "set" /\ new.begun = me.begun /\ new.body = me.body
    BY <1>1
  <2>3. ASSUME NEW e \in me.body PROVE e \in Entity /\ Fresh(e, me.begun)
    BY <1>1, <1>5, <2>1 DEF ReaderInv
  <2> HIDE DEF new, Reader
  <2>4. FeedsTypeOK' /\ reader'[g] = new /\ \A h \in Readers \ {g}: reader'[h] = reader[h]
    BY <1>3, <1>5, <2>1, <2>2
  <2> QED
    BY <1>2, <1>7, <2>1, <2>2, <2>3, <2>4
<1>15. CASE Publish(g)
  <2> DEFINE new == [me EXCEPT !.at = "sent", !.served = now]
  <2>1. /\ me.at = "set" /\ Running(g) /\ HasFeed /\ records' = records
        /\ reader' = [reader EXCEPT ![g] = new]
        /\ cache' = [body |-> me.body, until |-> now + Ttl[table]]
    BY <1>5, <1>15 DEF Publish, Running
  <2>2. new \in Reader /\ new.at = "sent" /\ new.served = now /\ new.body = me.body
    BY <1>1
  <2>3. cache' \in Feed /\ cache'.body = me.body /\ cache'.until = now + Ttl[table]
    BY <1>1, <1>5, <2>1 DEF Feed
  <2>4. ASSUME NEW e \in me.body PROVE e \in Entity /\ Fresh(e, now - Slack) /\ Fresh(e, now - RequestTime)
    <3>1. e \in Entity /\ Fresh(e, me.begun) /\ now <= me.begun + RequestTime
      BY <1>1, <1>5, <2>1 DEF ReaderInv
    <3>2. /\ me.begun \in Int /\ now - Slack \in Int /\ now - RequestTime \in Int
          /\ now - Slack <= me.begun /\ now - RequestTime <= me.begun
      BY <1>1, <1>5, <3>1
    <3> QED
      BY <3>1, <3>2, FreshBefore
  <2>5. CacheInv'
    <3>1. HasFeed' /\ cache'.until - Ttl[table] <= now /\ cache'.until - Slack = now - RequestTime
      BY <1>1, <2>1, <2>3
    <3>2. ASSUME NEW e \in cache'.body PROVE Fresh(e, now - RequestTime)'
      BY <1>1, <2>3, <2>4 DEF Fresh
    <3> HIDE DEF me, Reader, new
    <3>3. \A e \in cache'.body: Fresh(e, cache.until - Slack)'
      BY <1>1, <3>1, <3>2 DEF Fresh
    <3> QED
      BY <1>1, <3>1, <3>3 DEF CacheInv
  <2> HIDE DEF new, Reader
  <2>6. FeedsTypeOK' /\ reader'[g] = new /\ \A h \in Readers \ {g}: reader'[h] = reader[h]
    BY <1>3, <2>1, <2>2, <2>3
  <2> QED
    BY <1>8, <2>1, <2>2, <2>4, <2>5, <2>6
<1>16. CASE FeedFails(g)
  <2> DEFINE new == [me EXCEPT !.at = "failed", !.todo = {}, !.body = {}]
  <2>1. HasFeed /\ UNCHANGED <<records, cache>> /\ reader' = [reader EXCEPT ![g] = new]
    BY <1>5, <1>16 DEF FeedFails
  <2>2. new \in Reader /\ new.at = "failed"
    BY <1>1
  <2> HIDE DEF new, Reader
  <2>3. FeedsTypeOK' /\ reader'[g] = new /\ \A h \in Readers \ {g}: reader'[h] = reader[h]
    BY <1>3, <1>5, <2>1, <2>2
  <2>4. ReaderInv(g)'
    <3>1. HasFeed' /\ reader'[g].at = "failed"
      BY <1>1, <2>1, <2>2, <2>3
    <3> HIDE DEF me
    <3> QED
      BY <3>1 DEF ReaderInv, Running
  <2> QED
    BY <1>2, <2>1, <2>3, <2>4
<1> QED
  BY <1>9, <1>10, <1>11, <1>12, <1>13, <1>14, <1>15, <1>16 DEF FeedStep

\* The invariant of the feeds holds initially.
LEMMA InitFeeds == Init => FeedsInv
<1> SUFFICES ASSUME Init PROVE FeedsInv
  OBVIOUS
<1> USE DEF Init, FeedsInit
<1>1. FeedsTypeOK
  BY DEF FeedsTypeOK, Idle
<1>2. CacheInv
  BY DEF CacheInv
<1>3. ASSUME NEW g \in Readers PROVE ReaderInv(g)
  BY <1>3 DEF ReaderInv, Running, Idle
<1> QED
  BY <1>1, <1>2, <1>3 DEF FeedsInv

\* Every step keeps it.
LEMMA NextFeeds == ServicesInv /\ FeedsInv /\ [Next]_vars => FeedsInv'
<1> SUFFICES ASSUME ServicesInv, FeedsInv, [Next]_vars PROVE FeedsInv'
  OBVIOUS
<1>1. FeedsTypeOK /\ CacheInv /\ (\A g \in Readers: ReaderInv(g)) /\ TypeOK
  BY DEF FeedsInv, ServicesInv
<1>2. ASSUME cache' = cache, reader' = reader, records' \subseteq Ids, now' = now \/ Tick
      PROVE  FeedsInv'
  <2>1. FeedsTypeOK'
    BY <1>1, <1>2 DEF FeedsTypeOK
  <2>2. CacheInv'
    BY <1>1, <1>2, CacheStays
  <2>3. ASSUME NEW g \in Readers PROVE ReaderInv(g)'
    BY <1>1, <1>2, ReaderStays
  <2> QED
    BY <2>1, <2>2, <2>3 DEF FeedsInv
<1>3. records \subseteq Ids
  BY <1>1 DEF FeedsTypeOK
<1>4. CASE Service
  <2>1. UNCHANGED feedVars /\ now' = now
    BY <1>4 DEF Service, ServiceStep, Arrive, Select, Insert, Update, Delete, Fail
  <2> QED
    BY <1>2, <1>3, <2>1 DEF feedVars
<1>5. CASE Read
  <2>1. PICK g \in Readers: FeedStep(g) \/ FeedFails(g)
    BY <1>5 DEF Read
  <2>2. /\ FeedsTypeOK' /\ CacheInv' /\ ReaderInv(g)'
        /\ \A h \in Readers \ {g}: reader'[h] = reader[h]
    BY <1>5, <2>1, ReaderSteps
  <2>3. now' = now
    BY <1>1, <1>5, ReadFrame
  <2>4. ASSUME NEW h \in Readers \ {g} PROVE ReaderInv(h)'
    BY <1>1, <2>2, <2>3, <2>4, ReaderStays
  <2> QED
    BY <2>2, <2>4 DEF FeedsInv
<1>6. CASE Tick
  BY <1>2, <1>3, <1>6 DEF Tick, feedVars
<1>7. CASE Work
  <2>1. cache' = cache /\ reader' = reader /\ now' = now
    BY <1>1, <1>7, WorkWrites DEF ServicesInv, Work, Provision, MarkOnline, StoreRecord, GoesOffline, Alert,
       DropPrediction, Predict, WorkerWrites, serviceVars
  <2>2. records' \subseteq Ids
    BY <1>3, <1>7 DEF Work, Provision, MarkOnline, StoreRecord, GoesOffline, Alert, DropPrediction, Predict, Ids
  <2> QED
    BY <1>2, <2>1, <2>2
<1>8. CASE UNCHANGED vars
  BY <1>2, <1>3, <1>8 DEF vars, serviceVars, feedVars
<1> QED
  BY <1>4, <1>5, <1>6, <1>7, <1>8 DEF Next

\* However requests miss and store past each other, what a feed shows was so at most
\* a time to live and a request before its answer.
THEOREM FeedsStayRecent == Spec => []FeedsAreRecent
<1>1. ServicesInv /\ FeedsInv => FeedsAreRecent
  <2> SUFFICES ASSUME ServicesInv, FeedsInv, NEW g \in Readers, reader[g].at = "sent", NEW e \in reader[g].body
               PROVE  CASE table = "devices" -> e.time + ActiveFor + Slack > reader[g].served
                        [] table = "etaPredictions" -> e.time + Slack >= reader[g].served
                        [] OTHER -> rows[e.id].mark # None => rows[e.id].at + Slack >= reader[g].served
    BY DEF FeedsAreRecent, Slack
  <2>1. TypeOK /\ HasFeed /\ Fresh(e, reader[g].served - Slack) /\ FeedsTypeOK
    BY DEF FeedsInv, ReaderInv, ServicesInv
  <2>2. /\ Slack \in Nat /\ reader[g].served \in Nat /\ e \in Entity /\ ActiveFor \in Nat
        /\ e.id \in Ids /\ e.time \in Nat
    BY <2>1, SlackTyped, FeedsAssumption DEF FeedsTypeOK, Entity
  <2>3. rows[e.id] # None => rows[e.id].at \in Nat
    BY <2>1, <2>2 DEF TypeOK, Row
  <2>4. CASE table = "devices"
    BY <2>1, <2>2, <2>4 DEF Fresh
  <2>5. CASE table = "etaPredictions"
    BY <2>1, <2>2, <2>5 DEF Fresh
  <2>6. CASE table = "alerts"
    BY <2>1, <2>2, <2>3, <2>6 DEF Fresh
  <2> QED
    BY <2>1, <2>4, <2>5, <2>6 DEF HasFeed
<1>2. Init => ServicesInv /\ FeedsInv
  BY InitLinked, InitFeeds
<1>3. (ServicesInv /\ FeedsInv) /\ [Next]_vars => (ServicesInv /\ FeedsInv)'
  BY NextLinked, NextFeeds
<1> QED
  BY <1>1, <1>2, <1>3, PTL DEF Spec

-----------------------------------------------------------------------------
\* Api implements AtomicStore: every step of the services, the feeds and the worker
\* is a step of the store, or leaves it unchanged.


\* The store that Api stands for.
Abs(row) == IF row = None THEN None ELSE [key |-> row.key, mark |-> row.mark, on |-> row.on]
AbsRows == [i \in Ids |-> Abs(rows[i])]
AbsVerdict == [r \in Requests |-> Verdict(result[r])]

\* The helpers of the store are those of the services.
LEMMA SameIds == Store!Ids = Ids
  BY DEF Store!Ids, Ids

\* The store has the same tables and columns as the services.
LEMMA SameSchema == Store!Schema = Schema /\ Store!TableNames = TableNames /\ Store!Columns = Columns
  BY DEF Store!Schema, Schema, Store!TableNames, TableNames, Store!Columns, Columns, Store!Table, Table,
     Store!Devices, Devices, Store!Vehicles, Vehicles, Store!Users, Users, Store!Routes, Routes,
     Store!Geofences, Geofences, Store!Alerts, Alerts, Store!EtaPredictions, EtaPredictions

\* A value is free in the store exactly when it is in the services.
LEMMA SameFree ==
    ASSUME NEW t, NEW rs, NEW i, NEW c
    PROVE  Store!Free(t, rs, i, c) <=> Free(t, rs, i, c)
  BY SameIds, SameSchema DEF Store!Free, Free

\* Store and services are asked the same questions.
LEMMA SameQuestions ==
    ASSUME NEW t
    PROVE  Store!Questions(t) = Questions(t)
  BY SameIds DEF Store!Questions, Questions, Store!DeviceRequests, DeviceRequests,
     Store!VehicleRequests, VehicleRequests, Store!RouteRequests, RouteRequests,
     Store!GeofenceRequests, GeofenceRequests, Store!AlertRequests, AlertRequests,
     Store!AuthRequests, AuthRequests, Store!Creation, Creation, Store!Renaming, Renaming,
     Store!Deletion, Deletion

\* An update means the same to the store and to the services.
LEMMA SameChanged ==
    ASSUME NEW row, NEW q
    PROVE  Store!Changed(row, q) = Changed(row, q)
  BY DEF Store!Changed, Changed

\* None is nobody's row.
LEMMA AbsTyped ==
    ASSUME TypeOK
    PROVE  /\ AbsRows \in [Ids -> Columns \cup {None}]
           /\ \A i \in Ids: AbsRows[i] = Abs(rows[i]) /\ (AbsRows[i] = None <=> rows[i] = None)
           /\ \A row \in Row: Abs(row) \in Columns /\ row # None /\ Abs(row) # None
                              /\ Abs(row).key = row.key /\ Abs(row).mark = row.mark /\ Abs(row).on = row.on
<1>1. \A row \in Row: Abs(row) \in Columns /\ row # None /\ Abs(row) # None
                      /\ Abs(row).key = row.key /\ Abs(row).mark = row.mark /\ Abs(row).on = row.on
  BY ServicesAssumption, NoneAssumption DEF Abs, Row, Columns
<1>2. ASSUME NEW i \in Ids
      PROVE  AbsRows[i] = Abs(rows[i]) /\ (AbsRows[i] = None <=> rows[i] = None) /\ AbsRows[i] \in Columns \cup {None}
  <2>1. AbsRows[i] = Abs(rows[i]) /\ rows[i] \in Row \cup {None}
    BY DEF AbsRows, TypeOK
  <2>2. Abs(None) = None
    BY DEF Abs
  <2> QED
    BY <1>1, <2>1, <2>2
<1> QED
  BY <1>1, <1>2 DEF AbsRows

\* The unique columns are the same on both levels.
LEMMA AbsFree ==
    ASSUME TypeOK, NEW i \in Ids, NEW c, NEW d, d.key = c.key, d.mark = c.mark
    PROVE  Free(table, AbsRows, i, d) <=> Free(table, rows, i, c)
<1>1. ASSUME NEW j \in Ids
      PROVE  /\ AbsRows[j] = None <=> rows[j] = None
             /\ rows[j] # None => AbsRows[j].key = rows[j].key /\ AbsRows[j].mark = rows[j].mark
  BY AbsTyped DEF TypeOK
<1> QED
  BY <1>1 DEF Free

\* A write of a row, on both levels.
LEMMA AbsWrite ==
    ASSUME TypeOK, NEW i \in Ids, NEW row, rows' = [rows EXCEPT ![i] = row]
    PROVE  AbsRows' = [AbsRows EXCEPT ![i] = Abs(row)]
<1>1. AbsRows' = [j \in Ids |-> Abs(rows'[j])]
  BY DEF AbsRows, Abs
<1>2. ASSUME NEW j \in Ids PROVE Abs(rows'[j]) = IF j = i THEN Abs(row) ELSE Abs(rows[j])
  BY DEF TypeOK
<1> QED
  BY <1>1, <1>2 DEF AbsRows

\* A step that changes neither requests nor rows stutters in the store.
LEMMA AbsSame ==
    ASSUME rows' = rows
    PROVE  AbsRows' = AbsRows
  BY DEF AbsRows, Abs

\* A change of a row, on both levels.
LEMMA AbsChanged ==
    ASSUME TypeOK, NEW q \in Questions(table), NEW row \in Row
    PROVE  Abs(Stamped(row, q)) = Changed(Abs(row), q)
<1>1. /\ Stamped(row, q) \in Row
      /\ Stamped(row, q) = [Changed(row, q) EXCEPT !.at = IF q.op = "acknowledge" THEN now ELSE @]
      /\ Changed(row, q) \in Row
  BY StampedTyped, ChangedTyped DEF TypeOK
<1>2. Abs(Stamped(row, q)) = [key |-> Changed(row, q).key, mark |-> Changed(row, q).mark, on |-> Changed(row, q).on]
  BY <1>1, ServicesAssumption DEF Abs, Row
<1>3. Abs(row) = [key |-> row.key, mark |-> row.mark, on |-> row.on]
  BY ServicesAssumption DEF Abs
<1>4. [key |-> Changed(row, q).key, mark |-> Changed(row, q).mark, on |-> Changed(row, q).on] = Changed(Abs(row), q)
  <2>1. CASE q.op = "update" /\ "key" \in DOMAIN q
    BY <1>3, <2>1 DEF Changed, Row
  <2>2. CASE q.op = "update" /\ "key" \notin DOMAIN q /\ "mark" \in DOMAIN q
    BY <1>3, <2>2 DEF Changed, Row
  <2>3. CASE q.op = "acknowledge" /\ "mark" \in DOMAIN q
    BY <1>3, <2>3 DEF Changed, Row
  <2>4. CASE ~(q.op = "update" /\ "key" \in DOMAIN q) /\ ~(q.op \in {"update", "acknowledge"} /\ "mark" \in DOMAIN q)
    BY <1>3, <2>4 DEF Changed, Row
  <2> QED
    BY <2>1, <2>2, <2>3, <2>4
<1> QED
  BY <1>2, <1>4

\* The end of a request, on both levels.
LEMMA AbsFinish ==
    ASSUME TypeOK, NEW r \in Requests, NEW v, Finish(r, v)
    PROVE  AbsVerdict' = [AbsVerdict EXCEPT ![r] = Verdict(v)]
<1>1. AbsVerdict' = [s \in Requests |-> Verdict(result'[s])]
  BY DEF AbsVerdict, Verdict
<1>2. ASSUME NEW s \in Requests PROVE Verdict(result'[s]) = IF s = r THEN Verdict(v) ELSE Verdict(result[s])
  BY DEF Finish, TypeOK
<1> QED
  BY <1>1, <1>2 DEF AbsVerdict

\* An open request of the services is an open request of the store.
LEMMA AbsOpen ==
    ASSUME result' = result
    PROVE  AbsVerdict' = AbsVerdict
  BY DEF AbsVerdict, Verdict

\* A request that runs is pending.
LEMMA Pends ==
    ASSUME ServicesInv, NEW r \in Requests, pc[r] \in {"select", "insert", "update", "delete"}
    PROVE  request[r] # None /\ request[r] \in Questions(table) /\ AbsVerdict[r] = None
<1>1. Linked(r) /\ TypeOK
  BY DEF ServicesInv
<1>2. request[r] # None /\ result[r] = None
  BY <1>1 DEF Linked
<1>3. Verdict(None) = None
  BY ServicesAssumption DEF Verdict, Results
<1> QED
  BY <1>1, <1>2, <1>3 DEF AbsVerdict, TypeOK

-----------------------------------------------------------------------------
(***************************************************************************)
(* The actions of the store, in the words of Api.                           *)
(***************************************************************************)
LEMMA DecideWith ==
    ASSUME ServicesInv, NEW r \in Requests, pc[r] \in {"select", "insert", "update", "delete"},
           NEW v, Finish(r, v), UNCHANGED <<table, request>>
    PROVE  /\ Store!Pending(r)
           /\ Store!Decide(r, Verdict(v))
<1>1. TypeOK /\ request[r] # None /\ AbsVerdict[r] = None
  BY Pends DEF ServicesInv
<1>2. AbsVerdict' = [AbsVerdict EXCEPT ![r] = Verdict(v)]
  BY <1>1, AbsFinish
<1>3. Store!Pending(r)
  BY <1>1 DEF Store!Pending, AbsVerdict
<1>4. Store!Decide(r, Verdict(v))
  BY <1>2 DEF Store!Decide, AbsVerdict
<1> QED
  BY <1>3, <1>4

\* A create that finds its value taken is refused by the store too.
LEMMA CreateTaken ==
    ASSUME ServicesInv, NEW r \in Requests, request[r].op = "create", Store!Pending(r), Store!Decide(r, "taken"),
           NEW c, c.key = request[r].key, c.mark = request[r].mark, ~Free(table, rows, r, c), rows' = rows
    PROVE  Store!Create(r)
<1> DEFINE d == [key |-> request[r].key, mark |-> request[r].mark, on |-> table = "users"]
<1>1. TypeOK /\ r \in Ids /\ d.key = c.key /\ d.mark = c.mark
  BY DEF ServicesInv, Ids
<1>2. ~Free(table, AbsRows, r, d)
  BY <1>1, AbsFree
<1>3. ~Store!Free(table, AbsRows, r, d)
  BY <1>2, SameFree
<1>4. AbsRows' = AbsRows
  BY AbsSame
<1> QED
  BY <1>3, <1>4 DEF Store!Create, AbsRows, Abs

\* A create that inserts its row takes effect in the store.
LEMMA CreateDone ==
    ASSUME ServicesInv, NEW r \in Requests, request[r].op = "create", Store!Pending(r), Store!Decide(r, "done"),
           Inserted(request[r]) \in Row, Free(table, rows, r, Inserted(request[r])),
           rows' = [rows EXCEPT ![r] = Inserted(request[r])]
    PROVE  Store!Create(r)
<1> DEFINE d == [key |-> request[r].key, mark |-> request[r].mark, on |-> table = "users"]
           row == Inserted(request[r])
<1>1. TypeOK /\ r \in Ids /\ d.key = row.key /\ d.mark = row.mark
  BY DEF ServicesInv, Ids, Inserted
<1>2. Free(table, AbsRows, r, d)
  BY <1>1, AbsFree
<1>3. Store!Free(table, AbsRows, r, d)
  BY <1>2, SameFree
<1>4. AbsRows' = [AbsRows EXCEPT ![r] = d]
  <2>1. Abs(row) = d
    BY ServicesAssumption DEF Abs, Inserted
  <2> HIDE DEF row, d
  <2> QED
    BY <1>1, <2>1, AbsWrite DEF row
<1> QED
  BY <1>3, <1>4 DEF Store!Create, AbsRows, Abs

\* A change that finds no row.
LEMMA ChangeAbsent ==
    ASSUME ServicesInv, NEW r \in Requests, request[r].op \in {"update", "acknowledge", "login"},
           Store!Pending(r), Store!Decide(r, "absent"), rows' = rows,
           \A i \in Ids: ~Matches(request[r], i)
    PROVE  Store!Change(r)
<1>1. TypeOK /\ AbsRows' = AbsRows
  BY AbsSame DEF ServicesInv
<1>2. ASSUME NEW i \in Ids, Store!About(request[r], i) PROVE AbsRows[i] = None
  <2>1. /\ AbsRows[i] = None <=> rows[i] = None
        /\ rows[i] # None => AbsRows[i].key = rows[i].key
    BY <1>1, AbsTyped DEF TypeOK
  <2>2. IF request[r].op = "login" THEN AbsRows[i] # None /\ AbsRows[i].key = request[r].key ELSE i = request[r].id
    BY <1>2 DEF Store!About, AbsRows, Abs
  <2> QED
    BY <2>1, <2>2 DEF Matches
<1> QED
  BY <1>1, <1>2, SameIds DEF Store!Change, AbsRows, Abs

\* A change that finds row i.
LEMMA ChangeDone ==
    ASSUME ServicesInv, NEW r \in Requests, request[r].op \in {"update", "acknowledge", "login"},
           request[r] \in Questions(table), Store!Pending(r), NEW i \in Ids, Matches(request[r], i),
           \/ /\ Free(table, rows, i, Stamped(rows[i], request[r])) /\ Store!Decide(r, "done")
              /\ rows' = [rows EXCEPT ![i] = Stamped(rows[i], request[r])]
           \/ /\ ~Free(table, rows, i, Stamped(rows[i], request[r])) /\ Store!Decide(r, "taken")
              /\ rows' = rows
    PROVE  Store!Change(r)
<1> DEFINE q == request[r]
           row == Stamped(rows[i], q)
           c == Changed(AbsRows[i], q)
<1>1. TypeOK /\ rows[i] # None /\ rows[i] \in Row
  BY DEF ServicesInv, TypeOK, Matches
<1>2. row \in Row /\ Abs(row) = Changed(Abs(rows[i]), q) /\ AbsRows[i] = Abs(rows[i]) /\ AbsRows[i] # None
      /\ AbsRows[i].key = rows[i].key
  BY <1>1, AbsChanged, StampedTyped, AbsTyped
<1> HIDE DEF row
<1>3. c = Abs(row) /\ c.key = row.key /\ c.mark = row.mark
  BY <1>1, <1>2, AbsTyped
<1> HIDE DEF c
<1>4. Free(table, AbsRows, i, c) <=> Free(table, rows, i, row)
  BY <1>1, <1>3, AbsFree
<1>5. Store!Free(table, AbsRows, i, c) <=> Free(table, rows, i, row)
  BY <1>4, SameFree
<1>6. Store!About(q, i)
  <2>1. IF q.op = "login" THEN AbsRows[i] # None /\ AbsRows[i].key = q.key ELSE i = q.id
    BY <1>2 DEF Matches
  <2> QED
    BY <2>1 DEF Store!About, AbsRows, Abs
<1>7. \/ Store!Free(table, AbsRows, i, c) /\ AbsRows' = [AbsRows EXCEPT ![i] = c] /\ Store!Decide(r, "done")
      \/ ~Store!Free(table, AbsRows, i, c) /\ AbsRows' = AbsRows /\ Store!Decide(r, "taken")
  BY <1>1, <1>3, <1>5, AbsWrite, AbsSame DEF row
<1>8. c = Store!Changed(AbsRows[i], q)
  BY SameChanged DEF c
<1> QED
  BY <1>2, <1>6, <1>7, <1>8, SameIds DEF Store!Change, AbsRows, Abs

\* Deleting a row, and complaining that there is none.
LEMMA RemoveDone ==
    ASSUME ServicesInv, NEW r \in Requests, request[r].op = "delete", request[r].id \in Ids,
           Store!Pending(r), Store!Decide(r, "done"), rows' = [rows EXCEPT ![request[r].id] = None]
    PROVE  Store!Remove(r)
<1>1. TypeOK /\ Abs(None) = None
  BY DEF ServicesInv, Abs
<1>2. AbsRows' = [AbsRows EXCEPT ![request[r].id] = None]
  BY <1>1, AbsWrite
<1> QED
  BY <1>2 DEF Store!Remove, AbsRows, Abs

\* Deleting a row that is not there changes nothing.
LEMMA RemoveAbsent ==
    ASSUME ServicesInv, NEW r \in Requests, request[r].op = "delete", request[r].id \in Ids,
           Store!Pending(r), Store!Decide(r, "absent"), rows' = rows, rows[request[r].id] = None
    PROVE  Store!Remove(r)
<1>1. AbsRows' = AbsRows /\ AbsRows[request[r].id] = None
  BY AbsSame, AbsTyped DEF ServicesInv
<1> QED
  BY <1>1 DEF Store!Remove, AbsRows, Abs

\* Turning a login away.
LEMMA Denied ==
    ASSUME ServicesInv, NEW r \in Requests, request[r].op = "login",
           Store!Pending(r), Store!Decide(r, "denied"), rows' = rows,
           ~request[r].valid \/ \A i \in Ids: Matches(request[r], i) => ~rows[i].on
    PROVE  Store!Deny(r)
<1>1. AbsRows' = AbsRows
  BY AbsSame
<1>2. ASSUME NEW i \in Ids, Store!About(request[r], i), \A j \in Ids: Matches(request[r], j) => ~rows[j].on
      PROVE  ~AbsRows[i].on
  <2>1. /\ AbsRows[i] = None <=> rows[i] = None
        /\ rows[i] # None => AbsRows[i].key = rows[i].key /\ AbsRows[i].on = rows[i].on
    BY AbsTyped DEF ServicesInv, TypeOK
  <2>2. AbsRows[i] # None /\ AbsRows[i].key = request[r].key
    BY <1>2 DEF Store!About, AbsRows, Abs
  <2>3. Matches(request[r], i)
    BY <2>1, <2>2 DEF Matches
  <2> QED
    BY <1>2, <2>1, <2>2, <2>3
<1> QED
  BY <1>1, <1>2, SameIds DEF Store!Deny, AbsRows, Abs

\* Others write rows the worker may write.
LEMMA OthersWrite ==
    ASSUME ServicesInv, NEW i \in Known, NEW row \in Row \cup {None},
           row = None \/ Free(table, rows, i, row), WorkerWrites(i, row)
    PROVE  Store!Others
<1>1. TypeOK /\ i \in Ids /\ UNCHANGED <<table, request, result>> /\ rows' = [rows EXCEPT ![i] = row]
  BY DEF ServicesInv, Ids, WorkerWrites
<1>2. AbsRows' = [AbsRows EXCEPT ![i] = Abs(row)] /\ AbsVerdict' = AbsVerdict
  BY <1>1, AbsWrite, AbsOpen
<1>3. CASE row = None
  <2>1. AbsRows' = [AbsRows EXCEPT ![i] = None]
    BY <1>2, <1>3 DEF Abs
  <2> QED
    BY <1>1, <1>2, <2>1 DEF Store!Others, AbsRows, AbsVerdict, Abs
<1>4. CASE row # None
  <2> DEFINE c == Abs(row)
  <2>1. c \in Columns /\ c.key = row.key /\ c.mark = row.mark
    BY <1>1, <1>4, AbsTyped
  <2> HIDE DEF c
  <2>2. Free(table, AbsRows, i, c)
    BY <1>1, <1>4, <2>1, AbsFree
  <2>3. Store!Free(table, AbsRows, i, c) /\ c \in Store!Columns /\ AbsRows' = [AbsRows EXCEPT ![i] = c]
    BY <1>2, <2>1, <2>2, SameFree, SameSchema DEF c
  <2> QED
    BY <1>1, <1>2, <2>3 DEF Store!Others, AbsRows, AbsVerdict, Abs
<1> QED
  BY <1>3, <1>4

-----------------------------------------------------------------------------
(***************************************************************************)
(* Steps.                                                                   *)
(***************************************************************************)
Simulated == Store!Next \/ UNCHANGED Store!vars

\* Nothing the store knows of has changed.
LEMMA Stutter ==
    ASSUME UNCHANGED <<table, rows, request, result>>
    PROVE  Simulated
<1>1. AbsRows' = AbsRows /\ AbsVerdict' = AbsVerdict
  BY AbsSame, AbsOpen
<1> QED
  BY <1>1 DEF Simulated, Store!vars, AbsRows, AbsVerdict, Abs

\* A request that arrives, arrives at the store.
LEMMA ArriveSimulated ==
    ASSUME ServicesInv, NEW r \in Requests, Arrive(r)
    PROVE  Simulated
<1>1. TypeOK /\ Linked(r) /\ pc[r] = "idle" /\ UNCHANGED <<table, rows, result>>
  BY DEF ServicesInv, Arrive
<1>2. PICK q \in Questions(table): request' = [request EXCEPT ![r] = q]
  BY DEF Arrive
<1>3. request[r] = None
  BY <1>1 DEF Linked
<1>4. q \in Store!Questions(table)
  BY <1>2, SameQuestions
<1>5. AbsRows' = AbsRows /\ AbsVerdict' = AbsVerdict
  BY <1>1, AbsSame, AbsOpen
<1>6. Store!Ask(r)
  BY <1>1, <1>2, <1>3, <1>4, <1>5 DEF Store!Ask, AbsRows, AbsVerdict, Abs
<1> QED
  BY <1>6 DEF Simulated, Store!Next

\* A select that refuses: the reason holds at this moment.
LEMMA SelectSimulated ==
    ASSUME ServicesInv, NEW r \in Requests, Select(r)
    PROVE  Simulated
<1> DEFINE q == request[r]
<1>1. /\ pc[r] = "select" /\ TypeOK /\ Linked(r) /\ Consistent /\ table \in TableNames
      /\ UNCHANGED <<table, rows, now, request, errors>>
  BY DEF Select, ServicesInv, TypeOK
<1>2. q # None /\ q \in Questions(table) /\ r \in Ids
  BY <1>1, Pends DEF Ids
<1>3. q.op \in {"create", "update", "delete", "acknowledge", "login"}
      /\ (q.op \in {"update", "delete", "acknowledge"} => q.id \in Ids)
      /\ (q.op = "login" => table = "users" /\ q.valid \in BOOLEAN)
  BY <1>1, <1>2, Asks
<1>4. ASSUME NEW i \in Ids \cup {None}, Proceed(r, i) PROVE Simulated
  BY <1>1, <1>4, Stutter DEF Proceed
<1>5. ASSUME \A i \in Ids: ~Matches(q, i), q.op # "create",
             Finish(r, IF q.op = "login" THEN "unauthorized" ELSE "absent")
      PROVE  Simulated
  <2>1. CASE q.op = "login"
    <3>1. Store!Pending(r) /\ Store!Decide(r, Verdict("unauthorized"))
      BY <1>1, <1>5, <2>1, DecideWith
    <3>2. Store!Deny(r)
      BY <1>1, <1>5, <2>1, <3>1, Denied DEF Verdict
    <3> QED
      BY <3>2 DEF Simulated, Store!Next
  <2>2. CASE q.op \in {"update", "acknowledge"}
    <3>1. Store!Pending(r) /\ Store!Decide(r, Verdict("absent"))
      BY <1>1, <1>5, <2>2, DecideWith
    <3>2. Store!Change(r)
      BY <1>1, <1>5, <2>2, <3>1, ChangeAbsent DEF Verdict
    <3> QED
      BY <3>2 DEF Simulated, Store!Next
  <2>3. CASE q.op = "delete"
    <3>1. Store!Pending(r) /\ Store!Decide(r, Verdict("absent"))
      BY <1>1, <1>5, <2>3, DecideWith
    <3>2. rows[q.id] = None
      BY <1>3, <1>5, <2>3 DEF Matches
    <3>3. Store!Remove(r)
      BY <1>1, <1>3, <2>3, <3>1, <3>2, RemoveAbsent DEF Verdict
    <3> QED
      BY <3>3 DEF Simulated, Store!Next
  <2> QED
    BY <1>3, <1>5, <2>1, <2>2, <2>3
<1>6. ASSUME NEW i \in Ids, Matches(q, i), q.op = "create", Finish(r, "exists") PROVE Simulated
  <2>1. Store!Pending(r) /\ Store!Decide(r, Verdict("exists"))
    BY <1>1, <1>6, DecideWith
  <2>2. ~Free(table, rows, r, q)
    <3>1. Schema[table].uniqueKey /\ rows[r] = None
      BY <1>1, <1>6 DEF Linked
    <3>2. rows[i] # None /\ rows[i].key = q.key
      BY <1>6 DEF Matches
    <3> QED
      BY <3>1, <3>2 DEF Free
  <2>3. Store!Create(r)
    BY <1>1, <1>6, <2>1, <2>2, CreateTaken DEF Verdict
  <2> QED
    BY <2>3 DEF Simulated, Store!Next
<1>7. ASSUME NEW i \in Ids, Matches(q, i), q.op = "login", NEW v \in {"inactive", "unauthorized"},
             Finish(r, v), ~rows[i].on \/ ~q.valid
      PROVE  Simulated
  <2>1. Store!Pending(r) /\ Store!Decide(r, Verdict(v))
    BY <1>1, <1>7, DecideWith
  <2>2. ASSUME ~rows[i].on, NEW j \in Ids, Matches(q, j) PROVE ~rows[j].on
    <3>1. j = i
      <4>1. rows[i] # None /\ rows[j] # None /\ rows[i].key = rows[j].key
        BY <1>7, <2>2 DEF Matches
      <4>2. Schema[table].uniqueKey
        BY <1>3, <1>7 DEF Schema, Users, Table
      <4> QED
        BY <1>1, <4>1, <4>2 DEF Consistent, Free
    <3> QED
      BY <2>2, <3>1
  <2>3. Store!Deny(r)
    BY <1>1, <1>7, <2>1, <2>2, Denied DEF Verdict
  <2> QED
    BY <2>3 DEF Simulated, Store!Next
<1> QED
  BY <1>4, <1>5, <1>6, <1>7, SelectCases

\* An insert is a step of the store.
LEMMA InsertSimulated ==
    ASSUME ServicesInv, NEW r \in Requests, Insert(r)
    PROVE  Simulated
<1> DEFINE row == Inserted(request[r])
<1>1. /\ pc[r] = "insert" /\ TypeOK /\ Linked(r) /\ table \in TableNames
      /\ UNCHANGED <<table, now, request, found, errors>>
  BY DEF Insert, ServicesInv, TypeOK
<1>2. request[r].op = "create" /\ request[r] \in Questions(table)
  BY <1>1, Pends DEF Linked
<1>3. row \in Row /\ row.key = request[r].key /\ row.mark = request[r].mark
  <2>1. request[r].key \in Keys /\ request[r].mark \in Marks \cup {None}
    BY <1>1, <1>2, Asks
  <2> QED
    BY <2>1 DEF Inserted, Row
<1> HIDE DEF row
<1>4. CASE Free(table, rows, r, row) /\ rows' = [rows EXCEPT ![r] = row] /\ Finish(r, "created")
  <2>1. Store!Pending(r) /\ Store!Decide(r, "done")
    BY <1>1, <1>4, DecideWith DEF Verdict
  <2>2. Store!Create(r)
    BY <1>2, <1>3, <1>4, <2>1, CreateDone DEF row
  <2> QED
    BY <2>2 DEF Simulated, Store!Next
<1>5. CASE ~Free(table, rows, r, row) /\ rows' = rows /\ Finish(r, "conflict")
  <2>1. Store!Pending(r) /\ Store!Decide(r, "taken")
    BY <1>1, <1>5, DecideWith DEF Verdict
  <2>2. Store!Create(r)
    BY <1>2, <1>3, <1>5, <2>1, CreateTaken
  <2> QED
    BY <2>2 DEF Simulated, Store!Next
<1> QED
  BY <1>4, <1>5 DEF Insert, row

\* An update is a step of the store, or a stutter when the row is gone.
LEMMA UpdateSimulated ==
    ASSUME ServicesInv, NEW r \in Requests, Update(r)
    PROVE  Simulated
<1> DEFINE i == found[r]
           q == request[r]
           row == Stamped(rows[i], q)
           after == Updated(q, i, rows)
<1>1. /\ pc[r] = "update" /\ TypeOK /\ Linked(r) /\ rows \in [Ids -> Row \cup {None}]
      /\ UNCHANGED <<table, now, request, found, errors>>
  BY DEF Update, ServicesInv, TypeOK
<1>2. /\ i \in Ids /\ q \in Questions(table)
      /\ after = [rows EXCEPT ![i] = IF rows[i] = None THEN None ELSE row]
      /\ rows[i] # None => row \in Row /\ row # None
  BY <1>1, UpdateWrites
<1>3. /\ q.op \in {"update", "acknowledge", "login"}
      /\ IF q.op = "login" THEN rows[i] # None /\ rows[i].key = q.key ELSE i = q.id
  BY <1>1 DEF Linked
<1>4. CASE rows[i] # None
  <2>1. Matches(q, i) /\ after = [rows EXCEPT ![i] = row] /\ after[i] = row /\ row # None
    BY <1>1, <1>2, <1>3, <1>4 DEF Matches
  <2>2. \/ Free(table, rows, i, row) /\ rows' = after /\ Finish(r, "ok")
        \/ ~Free(table, rows, i, row) /\ rows' = rows /\ Finish(r, "conflict")
    BY <1>4, <2>1 DEF Update
  <2>3. \/ Free(table, rows, i, row) /\ rows' = after /\ Store!Decide(r, "done") /\ Store!Pending(r)
        \/ ~Free(table, rows, i, row) /\ rows' = rows /\ Store!Decide(r, "taken") /\ Store!Pending(r)
    BY <1>1, <2>2, DecideWith DEF Verdict
  <2>4. Store!Change(r)
    BY <1>2, <1>3, <2>1, <2>3, ChangeDone
  <2> QED
    BY <2>4 DEF Simulated, Store!Next
<1>5. CASE rows[i] = None
  <2>1. after = rows /\ after[i] = None
    BY <1>1, <1>2, <1>5
  <2>2. rows' = rows /\ Finish(r, "empty")
    BY <1>5, <2>1 DEF Update
  <2>3. Store!Decide(r, "absent") /\ Store!Pending(r)
    BY <1>1, <2>2, DecideWith DEF Verdict
  <2>4. \A j \in Ids: ~Matches(q, j)
    BY <1>3, <1>5 DEF Matches
  <2>5. Store!Change(r)
    BY <1>3, <2>2, <2>3, <2>4, ChangeAbsent
  <2> QED
    BY <2>5 DEF Simulated, Store!Next
<1> QED
  BY <1>4, <1>5

\* A delete is a step of the store.
LEMMA DeleteSimulated ==
    ASSUME ServicesInv, NEW r \in Requests, Delete(r)
    PROVE  Simulated
<1>1. /\ pc[r] = "delete" /\ Linked(r) /\ table \in TableNames
      /\ UNCHANGED <<table, now, request, found, errors>>
      /\ rows' = [rows EXCEPT ![found[r]] = None] /\ Finish(r, "ok")
  BY DEF Delete, ServicesInv, TypeOK
<1>2. request[r].op = "delete" /\ found[r] = request[r].id /\ request[r] \in Questions(table)
  BY <1>1, Pends DEF Linked
<1>3. request[r].id \in Ids
  BY <1>1, <1>2, Asks
<1>4. Store!Decide(r, "done") /\ Store!Pending(r)
  BY <1>1, DecideWith DEF Verdict
<1>5. Store!Remove(r)
  BY <1>1, <1>2, <1>3, <1>4, RemoveDone
<1> QED
  BY <1>5 DEF Simulated, Store!Next

\* A statement that rejects is a failure in the store.
LEMMA FailSimulated ==
    ASSUME ServicesInv, NEW r \in Requests, Fail(r)
    PROVE  Simulated
<1>1. /\ pc[r] \in {"select", "insert", "update", "delete"} /\ Finish(r, "failed")
      /\ UNCHANGED <<table, rows, now, request, found>>
  BY DEF Fail
<1>2. Store!Decide(r, "failed") /\ Store!Pending(r)
  BY <1>1, DecideWith DEF Verdict
<1>3. AbsRows' = AbsRows
  BY <1>1, AbsSame
<1>4. Store!Fail(r)
  BY <1>2, <1>3 DEF Store!Fail, AbsRows, Abs
<1> QED
  BY <1>4 DEF Simulated, Store!Next

\* Every step is one of the store, or none.
LEMMA NextSimulated ==
    ASSUME ServicesInv, [Next]_vars
    PROVE  Simulated
<1>1. CASE Service
  BY <1>1, ArriveSimulated, SelectSimulated, InsertSimulated, UpdateSimulated, DeleteSimulated, FailSimulated
     DEF Service, ServiceStep
<1>2. CASE Read
  BY <1>2, Stutter DEF Read, serviceVars
<1>3. CASE Tick
  BY <1>3, Stutter DEF Tick
<1>4. CASE Work
  <2>1. CASE UNCHANGED serviceVars
    BY <2>1, Stutter DEF serviceVars
  <2>2. ASSUME NEW i \in Known, NEW row \in Row \cup {None}, row = None \/ Free(table, rows, i, row), WorkerWrites(i, row)
        PROVE  Simulated
    <3>1. Store!Others
      BY <2>2, OthersWrite
    <3> QED
      BY <3>1 DEF Simulated, Store!Next
  <2> QED
    BY <1>4, <2>1, <2>2, WorkWrites DEF ServicesInv
<1>5. CASE UNCHANGED vars
  BY <1>5, Stutter DEF vars, serviceVars
<1> QED
  BY <1>1, <1>2, <1>3, <1>4, <1>5 DEF Next

\* The services start as the store does.
LEMMA InitSimulated == Init => Store!Init
<1> SUFFICES ASSUME Init PROVE Store!Init
  OBVIOUS
<1>1. TypeOK /\ Consistent /\ table \in TableNames
  BY InitLinked DEF ServicesInv, TypeOK
<1>2. AbsRows \in [Ids -> Columns \cup {None}]
  BY <1>1, AbsTyped
<1>3. ASSUME NEW i \in Ids, AbsRows[i] # None PROVE Store!Free(table, AbsRows, i, AbsRows[i])
  <2>1. rows[i] # None /\ rows[i] \in Row
    BY <1>1, <1>3, AbsTyped DEF TypeOK
  <2>2. AbsRows[i].key = rows[i].key /\ AbsRows[i].mark = rows[i].mark
    BY <1>1, <2>1, AbsTyped
  <2>3. Free(table, AbsRows, i, AbsRows[i])
    BY <1>1, <2>1, <2>2, AbsFree DEF Consistent
  <2> QED
    BY <2>3, SameFree
<1>4. request = [r \in Requests |-> None] /\ AbsVerdict = [r \in Requests |-> None]
  <2>1. Verdict(None) = None
    BY ServicesAssumption DEF Verdict, Results
  <2>2. result = [r \in Requests |-> None] /\ request = [r \in Requests |-> None]
    BY DEF Init, ServicesInit
  <2> QED
    BY <2>1, <2>2 DEF AbsVerdict
<1> QED
  BY <1>1, <1>2, <1>3, <1>4, SameIds, SameSchema DEF Store!Init, AbsRows, AbsVerdict, Abs

\* Although every service reads, waits and writes without a transaction, each request
\* takes effect at one moment or is refused for a reason that holds at one moment.
THEOREM StoreImplemented == Spec => ImplementsStore
<1>1. Init => Store!Init
  BY InitSimulated
<1>2. ServicesInv /\ [Next]_vars => [Store!Next]_(Store!vars)
  BY NextSimulated DEF Simulated
<1> QED
  BY <1>1, <1>2, RowsStayConsistent, PTL DEF Spec, ImplementsStore, Store!Spec
=============================================================================
