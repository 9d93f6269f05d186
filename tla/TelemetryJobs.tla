----------------------------- MODULE TelemetryJobs -----------------------------
(***************************************************************************)
(* The jobs of the telemetry queue                                         *)
(* (apps/worker/src/processors/telemetry.processor.ts): a record finds or  *)
(* creates the row of its device, marks it online, is stored, and asks for *)
(* two alert checks.                                                       *)
(*                                                                         *)
(* Each action is the code from one await to the next, with the statement  *)
(* that the await completes.  The route pipeline at the end of a job       *)
(* writes other columns and cannot fail the job: here it only takes time.  *)
(***************************************************************************)
EXTENDS Integers, Sequences, FiniteSets

CONSTANTS
    Devices,               \* IMEIs; a row of the table devices has a unique one
    Records,               \* telemetry records, each put on the queue once
    DeviceOf,              \* DeviceOf[r]: the device that sent r
    CanRecords,            \* records with CAN data
    TelemetryConcurrency,  \* jobs the telemetry worker runs at a time
    Attempts,              \* defaultJobOptions.attempts of the telemetry queue
    DbMayFail,             \* whether statements may fail besides conflicts
    QueueMayFail,          \* whether alertQueue.add may reject
    OfflineAge,            \* DEVICE_OFFLINE_THRESHOLD_MS in ticks
    None

\* Jobs of the alert queue.
AlertJobs ==
    [type : {"check_overspeed", "check_geofence"}, dev : Devices, rec : Records]
        \cup [type : {"device_offline"}, dev : Devices, rec : {None}]

ASSUME TelemetryAssumption ==
    /\ DeviceOf \in [Records -> Devices] /\ CanRecords \subseteq Records
    /\ TelemetryConcurrency \in Nat \ {0} /\ Attempts \in Nat \ {0}
    /\ DbMayFail \in BOOLEAN /\ QueueMayFail \in BOOLEAN
    /\ OfflineAge \in Nat
    /\ None \notin Devices \cup Nat \cup AlertJobs

VARIABLES
    known,       \* devices that have a row
    online,      \* column isOnline
    age,         \* now - lastSeen in ticks, None while lastSeen is null
    stage,       \* stage[r]: where the job of r is
    failures,    \* failed attempts of the job of r
    rows,        \* rows[r]: rows of telemetry_records that hold r
    alertQueue   \* jobs waiting in the alert queue, first in first out

deviceVars == <<known, online, age>>
jobVars == <<stage, failures, rows>>

\* Stages in which the job is being processed, and what it waits for there.
DbStages == {"find", "create", "touch", "store", "can"}
ActiveStages == DbStages \cup {"overspeed", "geofence", "route"}
Stages == {"sent", "waiting", "delayed", "done", "failed"} \cup ActiveStages

TelemetryInit ==
    /\ known = {}
    /\ online = [d \in Devices |-> FALSE]
    /\ age = [d \in Devices |-> None]
    /\ stage = [r \in Records |-> "sent"]
    /\ failures = [r \in Records |-> 0]
    /\ rows = [r \in Records |-> 0]
    /\ alertQueue = <<>>

-----------------------------------------------------------------------------
\* The TCP server puts the record on the queue.
Enqueue(r) ==
    /\ stage[r] = "sent"
    /\ stage' = [stage EXCEPT ![r] = "waiting"]
    /\ UNCHANGED <<deviceVars, failures, rows, alertQueue>>

\* A job that failed comes back first in no particular order, so waiting jobs
\* are a set.
StartJob(r) ==
    /\ stage[r] = "waiting"
    /\ Cardinality({q \in Records : stage[q] \in ActiveStages}) < TelemetryConcurrency
    /\ stage' = [stage EXCEPT ![r] = "find"]
    /\ UNCHANGED <<deviceVars, failures, rows, alertQueue>>

Find(r) ==
    /\ stage[r] = "find"
    /\ stage' = [stage EXCEPT ![r] = IF DeviceOf[r] \in known THEN "touch" ELSE "create"]
    /\ UNCHANGED <<deviceVars, failures, rows, alertQueue>>

\* Mutant: a failed job is not tried again.
GiveUp(r) ==
    /\ failures' = [failures EXCEPT ![r] = @ + 1]
    /\ stage' = [stage EXCEPT ![r] = "failed"]

\* Mutant: attempts are not counted against the limit.
ThrowForever(r) ==
    /\ failures' = [failures EXCEPT ![r] = @ + 1]
    /\ stage' = [stage EXCEPT ![r] = "delayed"]

\* The job throws: it is retried as a whole, up to Attempts times.
Throw(r) ==
    /\ failures' = [failures EXCEPT ![r] = @ + 1]
    /\ stage' = [stage EXCEPT ![r] = IF failures[r] + 1 < Attempts
                                     THEN "delayed" ELSE "failed"]

\* isOnline and lastSeen, as both the insert and the update set them.
MarkSeen(d) ==
    /\ online' = [online EXCEPT ![d] = TRUE]
    /\ age' = [age EXCEPT ![d] = 0]

\* Mutant: a conflict is answered by trying the same insert again.
CreateAgain(r) ==
    /\ stage[r] = "create"
    /\ DeviceOf[r] \notin known
    /\ known' = known \cup {DeviceOf[r]}
    /\ MarkSeen(DeviceOf[r])
    /\ stage' = [stage EXCEPT ![r] = "store"]
    /\ UNCHANGED <<failures, rows, alertQueue>>

\* The insert conflicts when another job, or the API, created the device
\* after this job had looked for it.
Create(r) ==
    /\ stage[r] = "create"
    /\ IF DeviceOf[r] \in known
       THEN /\ Throw(r)
            /\ UNCHANGED deviceVars
       ELSE /\ known' = known \cup {DeviceOf[r]}
            /\ MarkSeen(DeviceOf[r])
            /\ stage' = [stage EXCEPT ![r] = "store"]
            /\ UNCHANGED failures
    /\ UNCHANGED <<rows, alertQueue>>

Touch(r) ==
    /\ stage[r] = "touch"
    /\ MarkSeen(DeviceOf[r])
    /\ stage' = [stage EXCEPT ![r] = "store"]
    /\ UNCHANGED <<known, failures, rows, alertQueue>>

\* The record is inserted; a record with CAN data has a second insert.
Store(r) ==
    /\ stage[r] = "store"
    /\ rows' = [rows EXCEPT ![r] = @ + 1]
    /\ stage' = [stage EXCEPT ![r] = IF r \in CanRecords THEN "can" ELSE "overspeed"]
    /\ UNCHANGED <<deviceVars, failures, alertQueue>>

StoreCan(r) ==
    /\ stage[r] = "can"
    /\ stage' = [stage EXCEPT ![r] = "overspeed"]
    /\ UNCHANGED <<deviceVars, failures, rows, alertQueue>>

JobFails(r) ==
    /\ DbMayFail
    /\ stage[r] \in DbStages
    /\ Throw(r)
    /\ UNCHANGED <<deviceVars, rows, alertQueue>>

\* The two alert checks; when the first add rejects, the second is skipped.
EnqueueOverspeed(r, added) ==
    /\ stage[r] = "overspeed"
    /\ added \/ QueueMayFail
    /\ stage' = [stage EXCEPT ![r] = IF added THEN "geofence" ELSE "route"]
    /\ alertQueue' = IF added THEN Append(alertQueue,
                         [type |-> "check_overspeed", dev |-> DeviceOf[r], rec |-> r])
                     ELSE alertQueue
    /\ UNCHANGED <<deviceVars, failures, rows>>

EnqueueGeofence(r, added) ==
    /\ stage[r] = "geofence"
    /\ added \/ QueueMayFail
    /\ stage' = [stage EXCEPT ![r] = "route"]
    /\ alertQueue' = IF added THEN Append(alertQueue,
                         [type |-> "check_geofence", dev |-> DeviceOf[r], rec |-> r])
                     ELSE alertQueue
    /\ UNCHANGED <<deviceVars, failures, rows>>

MatchRoute(r) ==
    /\ stage[r] = "route"
    /\ stage' = [stage EXCEPT ![r] = "done"]
    /\ UNCHANGED <<deviceVars, failures, rows, alertQueue>>

\* The backoff of a failed attempt is over.
Retry(r) ==
    /\ stage[r] = "delayed"
    /\ stage' = [stage EXCEPT ![r] = "waiting"]
    /\ UNCHANGED <<deviceVars, failures, rows, alertQueue>>

\* DeviceService.create of the API: a row that was never seen.
ApiCreate(d) ==
    /\ d \notin known
    /\ known' = known \cup {d}
    /\ UNCHANGED <<online, age, jobVars, alertQueue>>

JobStep(r) ==
    \/ StartJob(r)
    \/ Find(r)
    \/ Create(r)
    \/ Touch(r)
    \/ Store(r)
    \/ StoreCan(r)
    \/ \E added \in BOOLEAN : EnqueueOverspeed(r, added) \/ EnqueueGeofence(r, added)
    \/ MatchRoute(r)
    \/ Retry(r)
=============================================================================
