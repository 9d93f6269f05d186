--------------------------------- MODULE Worker ---------------------------------
(***************************************************************************)
(* The worker process (apps/worker/src/index.ts): the telemetry worker,    *)
(* the alert worker and the offline check run at the same time over one    *)
(* database, while time passes and the process may be restarted.           *)
(***************************************************************************)
EXTENDS AlertJobs, Functions

CONSTANT
    MaxRestarts   \* bound: restarts; a job that stalls a second time would fail

ASSUME WorkerAssumption == MaxRestarts \in {0, 1}

VARIABLES
    silent,     \* history: devices that were silent for longer than OfflineAge
    restarts

vars == <<deviceVars, jobVars, alertQueue, alerts, slotVars, sweepVars, silent, restarts>>

Init ==
    /\ TelemetryInit
    /\ AlertInit
    /\ silent = {}
    /\ restarts = 0

\* Time passes.  Ages beyond OfflineAge, and beyond the window of an alert,
\* are not told apart.
Tick ==
    /\ age' = [d \in Devices |-> IF age[d] = None \/ age[d] > OfflineAge
                                 THEN age[d] ELSE age[d] + 1]
    /\ silent' = silent \cup {d \in Devices : age[d] # None /\ age[d] >= OfflineAge}
    /\ alerts' = [d \in Devices |-> [t \in AlertTypes |-> [a \in 0..Window[t] |->
                     IF a = 0 THEN 0
                     ELSE IF a = Window[t] THEN alerts[d][t][a] + alerts[d][t][a - 1]
                     ELSE alerts[d][t][a - 1]]]]
    /\ UNCHANGED <<known, online, jobVars, alertQueue, slotVars, sweepVars, restarts>>

\* The process ends under its jobs.  Their locks expire and BullMQ puts them
\* back in front of the queue, in any order; the offline check starts over.
Restart ==
    /\ restarts < MaxRestarts
    /\ restarts' = restarts + 1
    /\ stage' = [r \in Records |-> IF stage[r] \in ActiveStages THEN "waiting" ELSE stage[r]]
    /\ LET busy == {w \in Slots : job[w] # None} IN
       \E order \in Bijection(1..Cardinality(busy), busy) :
           alertQueue' = [n \in 1..Cardinality(busy) |-> job[order[n]]] \o alertQueue
    /\ job' = [w \in Slots |-> None]
    /\ step' = [w \in Slots |-> "idle"]
    /\ inside' = [w \in Slots |-> {}]
    /\ found' = {} /\ marked' = None
    /\ UNCHANGED <<deviceVars, failures, rows, alerts, silent>>

\* What each of the workers leaves alone.
ownVars == <<silent, restarts>>
otherVars == <<alerts, slotVars, sweepVars, ownVars>>

TelemetryStep(r) == JobStep(r) /\ UNCHANGED otherVars
AlertStep(w) == SlotStep(w) /\ UNCHANGED ownVars
OfflineCheckStep == (CheckOffline \/ SweepStep) /\ UNCHANGED ownVars

Fails ==
    \/ \E r \in Records : JobFails(r) /\ UNCHANGED otherVars
    \/ \E w \in Slots : AlertJobFails(w) /\ UNCHANGED ownVars
    \/ CheckFails /\ UNCHANGED ownVars

Next ==
    \/ \E r \in Records : Enqueue(r) /\ UNCHANGED otherVars
    \/ \E d \in Devices : ApiCreate(d) /\ UNCHANGED otherVars
    \/ \E r \in Records : TelemetryStep(r)
    \/ \E w \in Slots : AlertStep(w)
    \/ OfflineCheckStep
    \/ Fails
    \/ Tick
    \/ Restart

Spec == Init /\ [][Next]_vars

\* The event loop runs, the database and Redis answer, time passes.
Fairness ==
    /\ \A r \in Records : WF_vars(TelemetryStep(r))
    /\ \A w \in Slots : WF_vars(AlertStep(w))
    /\ WF_vars(OfflineCheckStep)
    /\ WF_vars(Tick)

FairSpec == Spec /\ Fairness

-----------------------------------------------------------------------------
DevicesTyped == /\ known \subseteq Devices
                /\ online \in [Devices -> BOOLEAN]
                /\ age \in [Devices -> 0..(OfflineAge + 1) \cup {None}]

RecordsTyped == /\ stage \in [Records -> Stages]
                /\ failures \in [Records -> 0..Attempts]
                /\ rows \in [Records -> Nat]

AlertsTyped == /\ DOMAIN alerts = Devices
               /\ \A d \in Devices :
                      /\ DOMAIN alerts[d] = AlertTypes
                      /\ \A t \in AlertTypes : alerts[d][t] \in [0..Window[t] -> Nat]

SlotsTyped == /\ job \in [Slots -> AlertJobs \cup {None}]
              /\ step \in [Slots -> Steps]
              /\ inside \in [Slots -> SUBSET Fences]
              /\ \A w \in Slots : step[w] = "idle" <=> job[w] = None

SweepTyped == /\ found \subseteq Devices
              /\ marked \in Devices \cup {None}

TypeOK ==
    /\ DevicesTyped
    /\ RecordsTyped
    /\ alertQueue \in Seq(AlertJobs)
    /\ AlertsTyped
    /\ SlotsTyped
    /\ SweepTyped
    /\ silent \subseteq Devices
    /\ restarts \in 0..MaxRestarts

\* A device that reports often enough is shown online, whatever became of the
\* jobs, checks and alerts of others, and across restarts (the offline check
\* of cleanup.processor.ts and handleDeviceOffline both write the column).
NeverSilentStaysOnline ==
    \A d \in Devices : age[d] # None /\ d \notin silent => online[d]

\* The recent rows of a type, each by its age and a number.
RowsWithin(counts, window) == UNION {{a} \X (1..counts[a]) : a \in 0..(window - 1)}
RecentAlerts(d, t) == Cardinality(RowsWithin(alerts[d][t], Window[t]))

\* The select-then-insert of alert.processor.ts lets duplicates through, but
\* never more than the jobs that may be between the two at the same time.
AlertBurstBounded ==
    \A d \in Devices, t \in AlertTypes : RecentAlerts(d, t) <= Cardinality(Slots)

\* While statements succeed, jobs that race to create the row of their device
\* (or race the API) lose at most one attempt, and none of them its record:
\* each record is stored exactly once (telemetry.processor.ts:68-84).
RaceCostsNoRecord ==
    \A r \in Records : /\ stage[r] # "failed"
                       /\ rows[r] <= 1
                       /\ stage[r] = "done" => rows[r] = 1

\* Every record the TCP server puts on the queue is stored in the end.
EveryRecordStored == \A r \in Records : stage[r] = "waiting" ~> stage[r] = "done"

\* A device that stays silent is marked offline (the 5-minute check).
SilentGoesOffline ==
    \A d \in Devices : (age[d] # None /\ age[d] > OfflineAge) ~>
                           (~online[d] \/ age[d] <= OfflineAge)

\* A speeding record leads to a moment at which its device has a recent alert:
\* the deduplication of checkOverspeed never leaves speeding unreported.
SpeedingIsAlerted ==
    \A r \in Speeding : stage[r] = "waiting" ~> RecentAlerts(DeviceOf[r], "OVERSPEED") > 0

\* What DEPLOY.md says of the offline check: only a device without a signal
\* for longer than the limit is marked offline.
OfflineOnlyAfterSilence ==
    [][\A d \in Devices : online[d] /\ ~online'[d] =>
           age[d] # None /\ age[d] > OfflineAge]_vars

\* What the comment in checkOverspeed says of its select: no second overspeed
\* alert of a device while one is recent.
NoDuplicateOverspeed == \A d \in Devices : RecentAlerts(d, "OVERSPEED") <= 1
=============================================================================
