------------------------------- MODULE AlertJobs -------------------------------
(***************************************************************************)
(* The jobs of the alert queue (processors/alert.processor.ts) and the     *)
(* offline check of the maintenance queue (processors/cleanup.processor.ts)*)
(*                                                                         *)
(* Every kind of alert is deduplicated by a select of a recent row and an  *)
(* insert, with an await between them, in workers that run several jobs    *)
(* at a time.  Publishing an alert is caught and has no effect here.       *)
(***************************************************************************)
EXTENDS TelemetryJobs

CONSTANTS
    Speeding,           \* records above OVERSPEED_LIMIT
    Fences,             \* active geofences with alertOnEnter
    FencesAt,           \* FencesAt[r]: those that contain the position of r
    Slots,              \* one for each job the alert worker runs at a time
    Window              \* Window[t]: how long an alert of type t is recent, in ticks

AlertTypes == {"OVERSPEED", "GEOFENCE_ENTER", "DEVICE_OFFLINE"}

ASSUME AlertAssumption ==
    /\ Speeding \subseteq Records
    /\ FencesAt \in [Records -> SUBSET Fences]
    /\ IsFiniteSet(Slots)
    /\ Window \in [AlertTypes -> Nat \ {0}]

VARIABLES
    alerts,   \* alerts[d][t][a]: rows of age a; those no longer recent have age Window[t]
    job,      \* job[w]: the job that slot w of the worker runs, or None
    step,     \* step[w]: the statement it waits for
    inside,   \* inside[w]: geofences that checkGeofence has yet to look at
    found,    \* devices checkOfflineDevices has found and not yet marked
    marked    \* the device it has marked and whose alert it enqueues next

slotVars == <<job, step, inside>>
sweepVars == <<found, marked>>

Steps == {"idle", "select", "insert", "mark"}

AlertInit ==
    /\ alerts = [d \in Devices |-> [t \in AlertTypes |-> [a \in 0..Window[t] |-> 0]]]
    /\ job = [w \in Slots |-> None]
    /\ step = [w \in Slots |-> "idle"]
    /\ inside = [w \in Slots |-> {}]
    /\ found = {} /\ marked = None

TypeOf(j) == CASE j.type = "check_overspeed" -> "OVERSPEED"
               [] j.type = "check_geofence" -> "GEOFENCE_ENTER"
               [] j.type = "device_offline" -> "DEVICE_OFFLINE"

\* Mutant: alerts count as recent for ever.
RecentEver(d, t) == \E a \in 0..Window[t] : alerts[d][t][a] > 0

Recent(d, t) == \E a \in 0..(Window[t] - 1) : alerts[d][t][a] > 0

\* Whether the job has anything to ask the database for.
Applies(j) == CASE j.type = "check_overspeed" -> j.rec \in Speeding
                [] j.type = "check_geofence" -> FencesAt[j.rec] # {}
                [] j.type = "device_offline" -> TRUE

-----------------------------------------------------------------------------
(* processAlertJob                                                         *)

TakeAlertJob(w) ==
    /\ job[w] = None
    /\ alertQueue # <<>>
    /\ alertQueue' = Tail(alertQueue)
    /\ LET j == Head(alertQueue) IN
       IF Applies(j)
       THEN /\ job' = [job EXCEPT ![w] = j]
            /\ step' = [step EXCEPT ![w] = "select"]
            /\ inside' = [inside EXCEPT ![w] =
                             IF j.type = "check_geofence" THEN FencesAt[j.rec] ELSE {}]
       ELSE UNCHANGED slotVars
    /\ UNCHANGED <<deviceVars, jobVars, alerts, sweepVars>>

Finish(w) ==
    /\ job' = [job EXCEPT ![w] = None]
    /\ step' = [step EXCEPT ![w] = "idle"]
    /\ inside' = [inside EXCEPT ![w] = {}]

\* What follows the check of one alert: the next geofence, the update of
\* handleDeviceOffline, or the end of the job.  left is the set of geofences
\* that are still to be checked.
Proceed(w, left) ==
    IF job[w].type = "device_offline"
    THEN /\ step' = [step EXCEPT ![w] = "mark"]
         /\ UNCHANGED <<job, inside>>
    ELSE IF left # {}
    THEN /\ step' = [step EXCEPT ![w] = "select"]
         /\ inside' = [inside EXCEPT ![w] = left]
         /\ UNCHANGED job
    ELSE Finish(w)

\* The geofence that is looked at, in the order the database returned them.
Current(w) == IF job[w].type = "check_geofence" THEN {{f} : f \in inside[w]} ELSE {{}}

\* Mutant: the alert is inserted whether or not there is a recent one.
SelectNothing(w) ==
    \E cur \in Current(w) :
        /\ step' = [step EXCEPT ![w] = "insert"]
        /\ inside' = [inside EXCEPT ![w] = @ \ cur]
        /\ UNCHANGED job

\* The answer to the select of a recent alert.
SelectRecent(w) ==
    \E cur \in Current(w) :
        IF Recent(job[w].dev, TypeOf(job[w]))
        THEN Proceed(w, inside[w] \ cur)
        ELSE /\ step' = [step EXCEPT ![w] = "insert"]
             /\ inside' = [inside EXCEPT ![w] = @ \ cur]
             /\ UNCHANGED job

Select(w) ==
    /\ step[w] = "select"
    /\ SelectRecent(w)
    /\ UNCHANGED <<deviceVars, jobVars, alertQueue, alerts, sweepVars>>

Insert(w) ==
    /\ step[w] = "insert"
    /\ alerts' = [alerts EXCEPT ![job[w].dev][TypeOf(job[w])][0] = @ + 1]
    /\ Proceed(w, inside[w])
    /\ UNCHANGED <<deviceVars, jobVars, alertQueue, sweepVars>>

\* The last statement of handleDeviceOffline, whatever happened to the device
\* since the job was enqueued.
MarkOffline(w) ==
    /\ step[w] = "mark"
    /\ online' = [online EXCEPT ![job[w].dev] = FALSE]
    /\ Finish(w)
    /\ UNCHANGED <<known, age, jobVars, alertQueue, alerts, sweepVars>>

\* A statement fails: alert jobs have one attempt.
AlertJobFails(w) ==
    /\ DbMayFail
    /\ job[w] # None
    /\ Finish(w)
    /\ UNCHANGED <<deviceVars, jobVars, alertQueue, alerts, sweepVars>>

-----------------------------------------------------------------------------
(* checkOfflineDevices                                                     *)

\* Mutant: the comparison is missing.
AnyOnline == {d \in known : online[d] /\ age[d] # None}

\* Mutant: devices that are offline are looked at, not those online.
StaleOffline == {d \in known : ~online[d] /\ age[d] # None /\ age[d] > OfflineAge}

StaleDevices == {d \in known : online[d] /\ age[d] # None /\ age[d] > OfflineAge}

\* The select and the comparisons: lastSeen is not read again.
CheckOffline ==
    /\ found = {} /\ marked = None
    /\ found' = StaleDevices
    /\ UNCHANGED <<deviceVars, jobVars, alertQueue, alerts, slotVars, marked>>

CheckMarks(d) ==
    /\ d \in found /\ marked = None
    /\ found' = found \ {d}
    /\ marked' = d
    /\ online' = [online EXCEPT ![d] = FALSE]
    /\ UNCHANGED <<known, age, jobVars, alertQueue, alerts, slotVars>>

CheckEnqueues(added) ==
    /\ marked # None
    /\ added \/ QueueMayFail
    /\ marked' = None
    /\ alertQueue' = IF added THEN Append(alertQueue,
                         [type |-> "device_offline", dev |-> marked, rec |-> None])
                     ELSE alertQueue
    /\ UNCHANGED <<deviceVars, jobVars, alerts, slotVars, found>>

CheckFails ==
    /\ DbMayFail
    /\ found # {} /\ marked = None
    /\ found' = {}
    /\ UNCHANGED <<deviceVars, jobVars, alertQueue, alerts, slotVars, marked>>

SlotStep(w) ==
    \/ TakeAlertJob(w)
    \/ Select(w)
    \/ Insert(w)
    \/ MarkOffline(w)

SweepStep ==
    \/ \E d \in Devices : CheckMarks(d)
    \/ \E added \in BOOLEAN : CheckEnqueues(added)
=============================================================================
