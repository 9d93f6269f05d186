--------------------------------- MODULE Tables ---------------------------------
(***************************************************************************)
(* The tables of the database that the API's services write, as far as     *)
(* their requests tell rows apart (packages/database/src/schema): the       *)
(* column a request looks rows up by ("key": imei, registration number,     *)
(* e-mail, route number, name), one further column that requests set        *)
(* ("mark": the vehicle of a device, who acknowledged an alert, any other   *)
(* data) and a flag (devices.isOnline, users.isActive).                    *)
(***************************************************************************)
CONSTANTS
    Requests,   \* requests to the services; the row a request creates bears its name
    Known,      \* rows other programs (worker, seed) may write
    Keys, Marks,
    None

\* crypto.randomUUID() never gives an identifier that a row has.
ASSUME TablesAssumption ==
    /\ None \notin Keys \cup Marks \cup Requests \cup Known
    /\ Requests \cap Known = {}

Ids == Requests \cup Known      \* crypto.randomUUID(): never the same twice

\* A table, and which of its two columns are .unique().
Table(uniqueKey, uniqueMark) == [uniqueKey |-> uniqueKey, uniqueMark |-> uniqueMark]

Devices == Table(TRUE, TRUE)        \* imei, vehicleId
Vehicles == Table(TRUE, FALSE)      \* registrationNo
Users == Table(TRUE, FALSE)         \* email
Routes == Table(FALSE, FALSE)
Geofences == Table(FALSE, FALSE)
Alerts == Table(FALSE, FALSE)
EtaPredictions == Table(FALSE, FALSE)

Schema == [devices |-> Devices, vehicles |-> Vehicles, users |-> Users, routes |-> Routes,
           geofences |-> Geofences, alerts |-> Alerts, etaPredictions |-> EtaPredictions]

TableNames == DOMAIN Schema

Columns == [key: Keys, mark: Marks \cup {None}, on: BOOLEAN]

\* Nothing but row i itself stands in the way of the values c.
Free(table, rows, i, c) ==
    \A j \in Ids \ {i}: rows[j] # None =>
        /\ Schema[table].uniqueKey => rows[j].key # c.key
        /\ Schema[table].uniqueMark => c.mark = None \/ rows[j].mark # c.mark

(***************************************************************************)
(* What a client can ask of a table: its POST, PUT and DELETE endpoints,    *)
(* with the columns their zod schemas let through.                          *)
(***************************************************************************)
Creation(marks) == [op: {"create"}, key: Keys, mark: marks]
Renaming == [op: {"update"}, id: Ids, key: Keys]
Deletion == [op: {"delete"}, id: Ids]

\* updateDeviceSchema has no imei.
DeviceRequests == Creation(Marks \cup {None}) \cup [op: {"update"}, id: Ids, mark: Marks \cup {None}] \cup Deletion
VehicleRequests == Creation({None}) \cup Renaming \cup Deletion
RouteRequests == Creation({None}) \cup Renaming \cup Deletion
GeofenceRequests == Creation({None}) \cup Renaming \cup Deletion
AlertRequests == [op: {"acknowledge"}, id: Ids, mark: Marks]
AuthRequests == Creation({None}) \cup [op: {"login"}, key: Keys, valid: BOOLEAN]

Questions(table) ==
    CASE table = "devices" -> DeviceRequests
      [] table = "vehicles" -> VehicleRequests
      [] table = "routes" -> RouteRequests
      [] table = "geofences" -> GeofenceRequests
      [] table = "alerts" -> AlertRequests
      [] table = "users" -> AuthRequests
      [] OTHER -> {}

ASSUME NoneAssumption ==
    /\ None \notin Columns
    /\ \A table \in TableNames: None \notin Questions(table)

\* The values of row i after change q: the columns the request names.
Changed(row, q) ==
    CASE q.op = "update" /\ "key" \in DOMAIN q -> [row EXCEPT !.key = q.key]
      [] q.op \in {"update", "acknowledge"} /\ "mark" \in DOMAIN q -> [row EXCEPT !.mark = q.mark]
      [] OTHER -> row
=============================================================================
