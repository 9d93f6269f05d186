-------------------------------- MODULE Services --------------------------------
(***************************************************************************)
(* The API's services that write (apps/api/src/services: devices, vehicles, *)
(* routes, geofences, alerts, users) with the handlers and the error        *)
(* handler that answer for them.  A request is one or two SQL statements    *)
(* with an await between them and no transaction: select a row, then write. *)
(* Requests, and the other programs on the database, run in between.        *)
(***************************************************************************)
EXTENDS Naturals, Tables

CONSTANT MaxErrors      \* bound: statements the database rejects

VARIABLES
    table,      \* the table of this run; the services share no rows
    rows,       \* [Ids -> Row \cup {None}]
    now,        \* Date.now()
    request,    \* what each request asks, None before it arrives
    pc,         \* the statement each request is at, "idle" before and "done" after
    found,      \* the row the select found
    result,     \* how the service ended
    errors      \* statements rejected so far

serviceVars == <<table, rows, now, request, pc, found, result, errors>>

\* on: devices.isOnline, users.isActive; time: lastSeen, createdAt, predictedArrival;
\* at: acknowledgedAt; nothing here reads lastLogin and updatedAt, which are left out.
Row == [key: Keys, mark: Marks \cup {None}, on: BOOLEAN, time: Nat, at: Nat]

Results == {"created", "ok", "empty", "absent", "exists", "conflict", "unauthorized", "inactive", "failed"}

ASSUME ServicesAssumption == None \notin Row /\ None \notin Results

TypeOK ==
    /\ table \in TableNames
    /\ rows \in [Ids -> Row \cup {None}]
    /\ now \in Nat
    /\ request \in [Requests -> Questions(table) \cup {None}]
    /\ pc \in [Requests -> {"idle", "select", "insert", "update", "delete", "done"}]
    /\ found \in [Requests -> Ids \cup {None}]
    /\ result \in [Requests -> Results \cup {None}]
    /\ errors \in Nat

\* Rows as the unique columns allow them.
Consistent == \A i \in Ids: rows[i] # None => Free(table, rows, i, rows[i])

ServicesInit ==
    /\ table \in TableNames
    /\ rows \in [Ids -> [key: Keys, mark: {None}, on: IF table = "users" THEN BOOLEAN ELSE {FALSE}, time: {0}, at: {0}] \cup {None}]
    /\ Consistent
    /\ \A r \in Requests: rows[r] = None
    /\ now = 1
    /\ request = [r \in Requests |-> None]
    /\ pc = [r \in Requests |-> "idle"]
    /\ found = [r \in Requests |-> None]
    /\ result = [r \in Requests |-> None]
    /\ errors = 0

\* The statements of a service function: one write, or a select before it that
\* refuses the request with an error.
Plain(write) == [first |-> write, write |-> write]
Checked(write, refusal) == [first |-> "select", write |-> write, refusal |-> refusal]

DeviceService == [
    create |-> Checked("insert", "exists"),
    update |-> Checked("update", "absent"),
    delete |-> Checked("delete", "absent")]
VehicleService == [
    create |-> Checked("insert", "exists"),
    update |-> Checked("update", "absent"),
    delete |-> Checked("delete", "absent")]
RouteService == [
    create |-> Plain("insert"),
    update |-> Checked("update", "absent"),
    delete |-> Checked("delete", "absent")]
GeofenceService == [
    create |-> Plain("insert"),
    update |-> Checked("update", "absent"),
    delete |-> Checked("delete", "absent")]
AlertService == [acknowledge |-> Checked("update", "absent")]
AuthService == [
    create |-> Checked("insert", "exists"),
    login |-> Checked("update", "unauthorized")]

Function(q) ==
    CASE table = "devices" -> DeviceService[q.op]
      [] table = "vehicles" -> VehicleService[q.op]
      [] table = "routes" -> RouteService[q.op]
      [] table = "geofences" -> GeofenceService[q.op]
      [] table = "alerts" -> AlertService[q.op]
      [] table = "users" -> AuthService[q.op]

\* The handler has parsed the request and called the service.
Arrive(r) ==
    /\ pc[r] = "idle"
    /\ \E q \in Questions(table):
         /\ request' = [request EXCEPT ![r] = q]
         /\ pc' = [pc EXCEPT ![r] = Function(q).first]
    /\ UNCHANGED <<table, rows, now, found, result, errors>>

\* setErrorHandler and the handlers: what the client sees.
StatusCode(v) ==
    CASE v = "created" -> 201
      [] v \in {"ok", "empty"} -> 200
      [] v = "unauthorized" -> 401
      [] v = "inactive" -> 403
      [] v = "absent" -> 404
      [] v = "exists" -> 409
      [] OTHER -> 500

Finish(r, v) ==
    /\ pc' = [pc EXCEPT ![r] = "done"]
    /\ result' = [result EXCEPT ![r] = v]

\* The where clause of the select: by the key, or by the id.
Matches(q, i) == rows[i] # None /\ IF q.op \in {"create", "login"} THEN rows[i].key = q.key ELSE i = q.id

Proceed(r, i) ==
    /\ pc' = [pc EXCEPT ![r] = Function(request[r]).write]
    /\ found' = [found EXCEPT ![r] = i]
    /\ UNCHANGED result

\* select ... limit 1, and what the service makes of it.
Select(r) ==
    /\ pc[r] = "select"
    /\ LET q == request[r]
           none == \A i \in Ids: ~Matches(q, i)
       IN
       \/ none /\ q.op = "create" /\ Proceed(r, None)
       \/ none /\ q.op # "create" /\ Finish(r, Function(q).refusal) /\ UNCHANGED found
       \/ \E i \in Ids:
            /\ Matches(q, i)
            /\ CASE q.op = "create" -> Finish(r, Function(q).refusal) /\ UNCHANGED found
                 [] q.op = "login" /\ ~rows[i].on -> Finish(r, "inactive") /\ UNCHANGED found
                 [] q.op = "login" /\ rows[i].on /\ ~q.valid -> Finish(r, Function(q).refusal) /\ UNCHANGED found
                 [] OTHER -> Proceed(r, i)
    /\ UNCHANGED <<table, rows, now, request, errors>>

Inserted(q) == [key |-> q.key, mark |-> q.mark, on |-> table = "users", time |-> 0, at |-> 0]

\* insert ... returning
Insert(r) ==
    /\ pc[r] = "insert"
    /\ LET row == Inserted(request[r]) IN
       \/ Free(table, rows, r, row) /\ rows' = [rows EXCEPT ![r] = row] /\ Finish(r, "created")
       \/ ~Free(table, rows, r, row) /\ UNCHANGED rows /\ Finish(r, "conflict")
    /\ UNCHANGED <<table, now, request, found, errors>>

\* set({...}): acknowledging stamps the row as well.
Stamped(row, q) == [Changed(row, q) EXCEPT !.at = IF q.op = "acknowledge" THEN now ELSE @]

\* Mutant: an upsert instead of an update brings a deleted row back.
Upserted(q, i, row) == [row EXCEPT ![i] = IF row[i] # None THEN Stamped(row[i], q)
    ELSE [key |-> CHOOSE k \in Keys: TRUE, mark |-> None, on |-> FALSE, time |-> 0, at |-> 0]]

\* The rows after update ... set ... where id = i: none matches a deleted row.
Updated(q, i, row) ==
    IF row[i] = None THEN row ELSE [row EXCEPT ![i] = Stamped(row[i], q)]

\* update ... returning: the answer is empty when the row is gone by now.
Update(r) ==
    /\ pc[r] = "update"
    /\ LET i == found[r]
           after == Updated(request[r], i, rows)
           allowed == after[i] # None => Free(table, rows, i, after[i])
       IN
       \/ allowed /\ rows' = after /\ Finish(r, IF rows[i] = None THEN "empty" ELSE "ok")
       \/ ~allowed /\ UNCHANGED rows /\ Finish(r, "conflict")
    /\ UNCHANGED <<table, now, request, found, errors>>

\* delete ... where id = i
Delete(r) ==
    /\ pc[r] = "delete"
    /\ rows' = [rows EXCEPT ![found[r]] = None]
    /\ Finish(r, "ok")
    /\ UNCHANGED <<table, now, request, found, errors>>

\* A statement is rejected: the promise of the service with it.
Fail(r) ==
    /\ pc[r] \in {"select", "insert", "update", "delete"}
    /\ errors < MaxErrors
    /\ errors' = errors + 1
    /\ Finish(r, "failed")
    /\ UNCHANGED <<table, rows, now, request, found>>

ServiceStep(r) == Arrive(r) \/ Select(r) \/ Insert(r) \/ Update(r) \/ Delete(r) \/ Fail(r)
=============================================================================
