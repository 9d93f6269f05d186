------------------------------ MODULE WorkerProofs ------------------------------
(***************************************************************************)
(* Proofs about Worker, for every set of devices, records, geofences and   *)
(* worker slots, every concurrency, number of attempts, offline limit and   *)
(* alert window.                                                           *)
(***************************************************************************)
EXTENDS Worker, SequenceTheorems, FiniteSetTheorems, TLAPS

\* A job that may still run has an attempt left.
AttemptsLeft == \A r \in Records : stage[r] # "failed" => failures[r] < Attempts

\* Only handleDeviceOffline has an update at its end.
MarksOffline == \A w \in Slots : step[w] = "mark" =>
                    job[w] # None /\ job[w].type = "device_offline"

TypeInv == TypeOK /\ AttemptsLeft /\ MarksOffline

\* None is neither a job nor an age.
LEMMA NoneApart ==
    /\ None \notin Devices
    /\ None \notin Nat
    /\ None \notin AlertJobs
  BY TelemetryAssumption DEF TelemetryAssumption

\* The stages of a job that is processed are stages.
LEMMA StageSets ==
    /\ ActiveStages \subseteq Stages
    /\ DbStages \subseteq ActiveStages
    /\ "sent" \notin ActiveStages /\ "failed" \notin ActiveStages
    /\ "delayed" \notin ActiveStages /\ "done" \notin ActiveStages
    /\ "waiting" \notin ActiveStages
    /\ {"sent", "waiting", "delayed", "done", "failed"} \subseteq Stages
  BY DEF ActiveStages, DbStages, Stages

\* The initial states are typed.
LEMMA InitTyped == Init => TypeInv
<1> SUFFICES ASSUME Init PROVE TypeInv
  OBVIOUS
<1> USE DEF Init, TelemetryInit, AlertInit
<1>1. DevicesTyped /\ SweepTyped /\ silent \subseteq Devices
  BY DEF DevicesTyped, SweepTyped
<1>2. RecordsTyped
  BY TelemetryAssumption, StageSets DEF TelemetryAssumption, RecordsTyped
<1>3. alertQueue \in Seq(AlertJobs)
  OBVIOUS
<1>4. AlertsTyped
  BY DEF AlertsTyped
<1>5. SlotsTyped
  BY DEF SlotsTyped, Steps
<1>6. restarts \in 0..MaxRestarts
  BY WorkerAssumption DEF WorkerAssumption
<1>7. AttemptsLeft
  BY TelemetryAssumption DEF TelemetryAssumption, AttemptsLeft
<1>8. MarksOffline
  BY DEF MarksOffline
<1> QED
  BY <1>1, <1>2, <1>3, <1>4, <1>5, <1>6, <1>7, <1>8 DEF TypeInv, TypeOK

\* A failed attempt leaves the job with an attempt or failed for good.
LEMMA ThrowTyped ==
    ASSUME RecordsTyped, AttemptsLeft, NEW r \in Records,
           stage[r] # "failed", Throw(r), rows' = rows
    PROVE  RecordsTyped' /\ AttemptsLeft'
<1>1. /\ failures[r] \in Nat /\ Attempts \in Nat
      /\ failures[r] < Attempts
  BY TelemetryAssumption DEF TelemetryAssumption, RecordsTyped, AttemptsLeft
<1>2. failures' = [failures EXCEPT ![r] = failures[r] + 1]
  BY DEF Throw
<1>3. failures' \in [Records -> 0..Attempts]
  BY <1>1, <1>2 DEF RecordsTyped
<1>4. stage' = [stage EXCEPT ![r] = IF failures[r] + 1 < Attempts
                                    THEN "delayed" ELSE "failed"]
  BY DEF Throw
<1>5. stage' \in [Records -> Stages]
  BY <1>4, StageSets DEF RecordsTyped
<1>6. RecordsTyped'
  BY <1>3, <1>5 DEF RecordsTyped
<1>7. ASSUME NEW q \in Records, stage'[q] # "failed" PROVE failures'[q] < Attempts
  <2>1. CASE q = r
    BY <2>1, <1>1, <1>2, <1>4, <1>7 DEF RecordsTyped
  <2>2. CASE q # r
    BY <2>2, <1>2, <1>4, <1>7 DEF RecordsTyped, AttemptsLeft
  <2> QED
    BY <2>1, <2>2
<1> QED
  BY <1>6, <1>7 DEF AttemptsLeft

\* A stage that is not "failed" may be left for any other without an attempt.
LEMMA StageTyped ==
    ASSUME RecordsTyped, AttemptsLeft, NEW r \in Records, stage[r] # "failed",
           NEW g \in Stages, stage' = [stage EXCEPT ![r] = g],
           failures' = failures, rows' \in [Records -> Nat]
    PROVE  RecordsTyped' /\ AttemptsLeft'
<1>1. stage' \in [Records -> Stages]
  BY DEF RecordsTyped
<1>2. ASSUME NEW q \in Records, stage'[q] # "failed" PROVE failures'[q] < Attempts
  BY <1>2 DEF AttemptsLeft, RecordsTyped
<1> QED
  BY <1>1, <1>2 DEF RecordsTyped, AttemptsLeft

\* isOnline and lastSeen keep their types.
LEMMA MarkSeenTyped ==
    ASSUME DevicesTyped, NEW d \in Devices, MarkSeen(d), known' \subseteq Devices
    PROVE  DevicesTyped'
  BY TelemetryAssumption DEF TelemetryAssumption, DevicesTyped, MarkSeen

\* A check of one record for the alert queue.
LEMMA CheckIsJob ==
    ASSUME NEW r \in Records, NEW t \in {"check_overspeed", "check_geofence"}
    PROVE  [type |-> t, dev |-> DeviceOf[r], rec |-> r] \in AlertJobs
  BY TelemetryAssumption DEF TelemetryAssumption, AlertJobs

\* Every step of a telemetry job preserves the types.
LEMMA TelemetryTyped ==
    ASSUME TypeInv, NEW r \in Records, UNCHANGED otherVars,
           Enqueue(r) \/ JobStep(r) \/ JobFails(r)
    PROVE  TypeInv'
<1> USE DEF TypeInv, TypeOK
<1>1. /\ AlertsTyped' /\ SlotsTyped' /\ SweepTyped' /\ MarksOffline'
      /\ silent' \subseteq Devices /\ restarts' \in 0..MaxRestarts
  BY DEF otherVars, slotVars, sweepVars, ownVars,
         AlertsTyped, SlotsTyped, SweepTyped, MarksOffline
<1>2. stage[r] # "failed"
  BY StageSets DEF Enqueue, JobStep, JobFails, StartJob, Find, Create, Touch, Store,
         StoreCan, EnqueueOverspeed, EnqueueGeofence, MatchRoute, Retry
<1>3. DeviceOf[r] \in Devices
  BY TelemetryAssumption DEF TelemetryAssumption
<1>4. CASE JobFails(r)
  BY <1>4, <1>1, <1>2, ThrowTyped DEF JobFails, deviceVars, DevicesTyped
<1>5. CASE Create(r) /\ DeviceOf[r] \in known
  BY <1>5, <1>1, <1>2, ThrowTyped DEF Create, deviceVars, DevicesTyped
<1>6. CASE Create(r) /\ DeviceOf[r] \notin known
  <2>1. DevicesTyped'
    BY <1>6, <1>3, MarkSeenTyped DEF Create, DevicesTyped
  <2>2. "store" \in Stages
    BY StageSets DEF ActiveStages, DbStages
  <2>3. RecordsTyped' /\ AttemptsLeft'
    BY <1>6, <1>2, <2>2, StageTyped DEF Create, RecordsTyped
  <2> QED
    BY <1>6, <1>1, <2>1, <2>3 DEF Create
<1>7. CASE Touch(r)
  <2>1. DevicesTyped'
    BY <1>7, <1>3, MarkSeenTyped DEF Touch, DevicesTyped
  <2>2. "store" \in Stages
    BY StageSets DEF ActiveStages, DbStages
  <2>3. RecordsTyped' /\ AttemptsLeft'
    BY <1>7, <1>2, <2>2, StageTyped DEF Touch, RecordsTyped
  <2> QED
    BY <1>7, <1>1, <2>1, <2>3 DEF Touch
<1>8. ASSUME NEW g \in Stages, stage' = [stage EXCEPT ![r] = g], failures' = failures,
             rows' \in [Records -> Nat], UNCHANGED deviceVars,
             alertQueue' \in Seq(AlertJobs)
      PROVE  TypeInv'
  BY <1>8, <1>1, <1>2, StageTyped DEF deviceVars, DevicesTyped
<1>9. CASE Store(r)
  <2>1. rows' \in [Records -> Nat]
    BY <1>9 DEF Store, RecordsTyped
  <2>2. "can" \in Stages /\ "overspeed" \in Stages
    BY DEF Stages, ActiveStages, DbStages
  <2> QED
    BY <1>9, <1>8, <2>1, <2>2 DEF Store
<1>10. \A g \in {"waiting", "find", "touch", "create", "overspeed", "geofence", "route", "done"} :
          g \in Stages
  BY DEF Stages, ActiveStages, DbStages
<1>11. rows \in [Records -> Nat]
  BY DEF RecordsTyped
<1>12. CASE Enqueue(r) \/ StartJob(r) \/ Find(r) \/ StoreCan(r) \/ MatchRoute(r) \/ Retry(r)
  BY <1>12, <1>8, <1>10, <1>11
     DEF Enqueue, StartJob, Find, StoreCan, MatchRoute, Retry
<1>13. ASSUME NEW added \in BOOLEAN, EnqueueOverspeed(r, added)
       PROVE  TypeInv'
  <2> DEFINE j == [type |-> "check_overspeed", dev |-> DeviceOf[r], rec |-> r]
  <2>2. j \in AlertJobs
    BY CheckIsJob
  <2>3. alertQueue' = Append(alertQueue, j) \/ alertQueue' = alertQueue
    BY <1>13 DEF EnqueueOverspeed
  <2> HIDE DEF j
  <2>1. alertQueue' \in Seq(AlertJobs)
    BY <2>2, <2>3
  <2> QED
    BY <1>13, <1>8, <1>10, <1>11, <2>1 DEF EnqueueOverspeed
<1>14. ASSUME NEW added \in BOOLEAN, EnqueueGeofence(r, added)
       PROVE  TypeInv'
  <2> DEFINE j == [type |-> "check_geofence", dev |-> DeviceOf[r], rec |-> r]
  <2>2. j \in AlertJobs
    BY CheckIsJob
  <2>3. alertQueue' = Append(alertQueue, j) \/ alertQueue' = alertQueue
    BY <1>14 DEF EnqueueGeofence
  <2> HIDE DEF j
  <2>1. alertQueue' \in Seq(AlertJobs)
    BY <2>2, <2>3
  <2> QED
    BY <1>14, <1>8, <1>10, <1>11, <2>1 DEF EnqueueGeofence
<1> QED
  BY <1>4, <1>5, <1>6, <1>7, <1>9, <1>12, <1>13, <1>14 DEF JobStep

-----------------------------------------------------------------------------
(* Alert jobs                                                              *)

\* An alert job keeps the types of the slots when its slot is freed.
LEMMA FinishTyped ==
    ASSUME SlotsTyped, MarksOffline, NEW w \in Slots, Finish(w)
    PROVE  SlotsTyped' /\ MarksOffline'
<1>1. /\ job' = [job EXCEPT ![w] = None]
      /\ step' = [step EXCEPT ![w] = "idle"]
      /\ inside' = [inside EXCEPT ![w] = {}]
  BY DEF Finish
<1>2. job' \in [Slots -> AlertJobs \cup {None}]
  BY <1>1 DEF SlotsTyped
<1>3. step' \in [Slots -> Steps]
  BY <1>1 DEF SlotsTyped, Steps
<1>4. inside' \in [Slots -> SUBSET Fences]
  BY <1>1 DEF SlotsTyped
<1>5. \A v \in Slots : step'[v] = "idle" <=> job'[v] = None
  BY <1>1 DEF SlotsTyped
<1>6. MarksOffline'
  BY <1>1 DEF SlotsTyped, MarksOffline
<1> QED
  BY <1>2, <1>3, <1>4, <1>5, <1>6 DEF SlotsTyped

\* A job that stays in its slot moves between steps; only that of an offline
\* device gets to the update.
LEMMA StepTyped ==
    ASSUME SlotsTyped, MarksOffline, NEW w \in Slots, job[w] # None, job' = job,
           NEW g \in {"select", "insert", "mark"}, step' = [step EXCEPT ![w] = g],
           g = "mark" => job[w].type = "device_offline",
           NEW F \in SUBSET Fences, inside' = [inside EXCEPT ![w] = F]
    PROVE  SlotsTyped' /\ MarksOffline'
<1>1. step' \in [Slots -> Steps]
  BY DEF SlotsTyped, Steps
<1>2. inside' \in [Slots -> SUBSET Fences]
  BY DEF SlotsTyped
<1>3. \A v \in Slots : step'[v] = "idle" <=> job'[v] = None
  BY DEF SlotsTyped
<1>4. MarksOffline'
  BY DEF SlotsTyped, MarksOffline
<1> QED
  BY <1>1, <1>2, <1>3, <1>4 DEF SlotsTyped

\* What follows a check keeps the types of the slots.
LEMMA ProceedTyped ==
    ASSUME SlotsTyped, MarksOffline, NEW w \in Slots, job[w] # None,
           NEW F \in SUBSET Fences, Proceed(w, F)
    PROVE  SlotsTyped' /\ MarksOffline'
<1>1. CASE job[w].type = "device_offline"
  <2>1. /\ step' = [step EXCEPT ![w] = "mark"]
        /\ job' = job /\ inside' = inside
    BY <1>1 DEF Proceed
  <2>2. /\ inside[w] \in SUBSET Fences
        /\ inside' = [inside EXCEPT ![w] = inside[w]]
    BY <2>1 DEF SlotsTyped
  <2> QED
    BY <1>1, <2>1, <2>2, StepTyped
<1>2. CASE job[w].type # "device_offline" /\ F # {}
  <2>1. /\ step' = [step EXCEPT ![w] = "select"]
        /\ inside' = [inside EXCEPT ![w] = F]
        /\ job' = job
    BY <1>2 DEF Proceed
  <2> QED
    BY <2>1, StepTyped
<1>3. CASE job[w].type # "device_offline" /\ F = {}
  BY <1>3, FinishTyped DEF Proceed
<1> QED
  BY <1>1, <1>2, <1>3

\* Taking a job puts it into its slot, or drops it.
LEMMA TakeTyped ==
    ASSUME TypeInv, NEW w \in Slots, TakeAlertJob(w)
    PROVE  SlotsTyped' /\ MarksOffline' /\ alertQueue' \in Seq(AlertJobs)
<1> DEFINE j == Head(alertQueue)
<1>1. /\ alertQueue \in Seq(AlertJobs) /\ alertQueue # <<>>
      /\ alertQueue' = Tail(alertQueue)
      /\ SlotsTyped /\ MarksOffline
  BY DEF TypeInv, TypeOK, TakeAlertJob
<1>2. j \in AlertJobs /\ alertQueue' \in Seq(AlertJobs)
  BY <1>1
<1>3. CASE ~Applies(j)
  <2>1. UNCHANGED slotVars
    BY <1>3 DEF TakeAlertJob
  <2> QED
    BY <2>1, <1>1, <1>2 DEF slotVars, SlotsTyped, MarksOffline
<1>4. CASE Applies(j)
  <2> DEFINE F == IF j.type = "check_geofence" THEN FencesAt[j.rec] ELSE {}
  <2>1. /\ job' = [job EXCEPT ![w] = j]
        /\ step' = [step EXCEPT ![w] = "select"]
        /\ inside' = [inside EXCEPT ![w] = F]
    BY <1>4 DEF TakeAlertJob
  <2>2. F \in SUBSET Fences
    BY <1>2, AlertAssumption DEF AlertAssumption, AlertJobs
  <2>3. j # None
    BY <1>2, NoneApart
  <2> HIDE DEF F, j
  <2>4. job' \in [Slots -> AlertJobs \cup {None}]
    BY <2>1, <1>1, <1>2 DEF SlotsTyped
  <2>5. step' \in [Slots -> Steps]
    BY <2>1, <1>1 DEF SlotsTyped, Steps
  <2>6. inside' \in [Slots -> SUBSET Fences]
    BY <2>1, <2>2, <1>1 DEF SlotsTyped
  <2>7. \A v \in Slots : step'[v] = "idle" <=> job'[v] = None
    BY <2>1, <2>3, <1>1 DEF SlotsTyped
  <2>8. MarksOffline'
    BY <2>1, <1>1 DEF SlotsTyped, MarksOffline
  <2> QED
    BY <1>2, <2>4, <2>5, <2>6, <2>7, <2>8 DEF SlotsTyped
<1> QED
  BY <1>3, <1>4

\* A new alert is counted at age 0.
LEMMA InsertTyped ==
    ASSUME AlertsTyped, NEW d \in Devices, NEW t \in AlertTypes,
           alerts' = [alerts EXCEPT ![d][t][0] = @ + 1]
    PROVE  AlertsTyped'
<1> DEFINE n == alerts[d][t]
           m == [n EXCEPT ![0] = @ + 1]
<1>1. Window[t] \in Nat
  BY AlertAssumption DEF AlertAssumption
<1>2. n \in [0..Window[t] -> Nat]
  BY DEF AlertsTyped
<1>3. m \in [0..Window[t] -> Nat]
  BY <1>1, <1>2
<1>4. alerts' = [alerts EXCEPT ![d] = [alerts[d] EXCEPT ![t] = m]]
  OBVIOUS
<1> HIDE DEF n, m
<1>5. DOMAIN alerts' = Devices
  BY <1>4 DEF AlertsTyped
<1>6. ASSUME NEW e \in Devices
      PROVE  /\ DOMAIN alerts'[e] = AlertTypes
             /\ \A u \in AlertTypes : alerts'[e][u] \in [0..Window[u] -> Nat]
  <2>1. CASE e = d
    <3>1. alerts'[e] = [alerts[d] EXCEPT ![t] = m]
      BY <2>1, <1>4 DEF AlertsTyped
    <3> QED
      BY <3>1, <1>3 DEF AlertsTyped
  <2>2. CASE e # d
    BY <2>2, <1>4 DEF AlertsTyped
  <2> QED
    BY <2>1, <2>2
<1> QED
  BY <1>5, <1>6 DEF AlertsTyped

\* Every kind of job has its type of alert.
LEMMA TypeOfTyped == ASSUME NEW j \in AlertJobs PROVE TypeOf(j) \in AlertTypes
  BY DEF AlertJobs, TypeOf, AlertTypes

\* A slot that is not idle has a job.
LEMMA BusyHasJob ==
    ASSUME SlotsTyped, NEW w \in Slots, step[w] # "idle"
    PROVE  job[w] # None /\ job[w] \in AlertJobs /\ job[w].dev \in Devices
  BY DEF SlotsTyped, AlertJobs

\* Every step of an alert job preserves the types.
LEMMA AlertTyped ==
    ASSUME TypeInv, NEW w \in Slots, UNCHANGED ownVars,
           SlotStep(w) \/ AlertJobFails(w)
    PROVE  TypeInv'
<1>0. /\ DevicesTyped /\ RecordsTyped /\ alertQueue \in Seq(AlertJobs) /\ AlertsTyped
      /\ SlotsTyped /\ SweepTyped /\ silent \subseteq Devices
      /\ restarts \in 0..MaxRestarts /\ AttemptsLeft /\ MarksOffline
  BY DEF TypeInv, TypeOK
<1>1. /\ RecordsTyped' /\ SweepTyped' /\ AttemptsLeft'
      /\ silent' \subseteq Devices /\ restarts' \in 0..MaxRestarts
  BY <1>0 DEF SlotStep, AlertJobFails, TakeAlertJob, Select, Insert, MarkOffline,
              ownVars, jobVars, sweepVars, RecordsTyped, SweepTyped, AttemptsLeft
<1>2. ASSUME DevicesTyped', alertQueue' \in Seq(AlertJobs), AlertsTyped',
             SlotsTyped', MarksOffline'
      PROVE  TypeInv'
  BY <1>1, <1>2 DEF TypeInv, TypeOK
<1>3. CASE TakeAlertJob(w)
  BY <1>3, <1>0, <1>2, TakeTyped
     DEF TakeAlertJob, deviceVars, DevicesTyped, AlertsTyped
<1>4. CASE Select(w)
  <2>1. job[w] # None
    BY <1>4, <1>0, BusyHasJob DEF Select
  <2>2. \A cur \in Current(w) : inside[w] \ cur \in SUBSET Fences
    BY <1>0 DEF SlotsTyped
  <2>3. PICK cur \in Current(w) :
           IF Recent(job[w].dev, TypeOf(job[w]))
           THEN Proceed(w, inside[w] \ cur)
           ELSE /\ step' = [step EXCEPT ![w] = "insert"]
                /\ inside' = [inside EXCEPT ![w] = @ \ cur]
                /\ UNCHANGED job
    BY <1>4 DEF Select, SelectRecent
  <2>4. SlotsTyped' /\ MarksOffline'
    <3>1. CASE Recent(job[w].dev, TypeOf(job[w]))
      BY <3>1, <2>1, <2>2, <2>3, <1>0, ProceedTyped
    <3>2. CASE ~Recent(job[w].dev, TypeOf(job[w]))
      <4>1. inside' = [inside EXCEPT ![w] = inside[w] \ cur]
        BY <3>2, <2>3
      <4> QED
        BY <3>2, <4>1, <2>1, <2>2, <2>3, <1>0, StepTyped
    <3> QED
      BY <3>1, <3>2
  <2> QED
    BY <1>4, <1>0, <1>2, <2>4 DEF Select, deviceVars, DevicesTyped, AlertsTyped
<1>5. CASE Insert(w)
  <2>1. job[w] # None /\ job[w] \in AlertJobs /\ job[w].dev \in Devices
    BY <1>5, <1>0, BusyHasJob DEF Insert
  <2>2. AlertsTyped'
    BY <1>5, <1>0, <2>1, TypeOfTyped, InsertTyped DEF Insert
  <2>3. inside[w] \in SUBSET Fences
    BY <1>0 DEF SlotsTyped
  <2>4. SlotsTyped' /\ MarksOffline'
    BY <1>5, <1>0, <2>1, <2>3, ProceedTyped DEF Insert
  <2> QED
    BY <1>5, <1>0, <1>2, <2>2, <2>4 DEF Insert, deviceVars, DevicesTyped
<1>6. CASE MarkOffline(w)
  <2>1. SlotsTyped' /\ MarksOffline'
    BY <1>6, <1>0, FinishTyped DEF MarkOffline
  <2>2. DevicesTyped'
    BY <1>6, <1>0 DEF MarkOffline, DevicesTyped
  <2> QED
    BY <1>6, <1>0, <1>2, <2>1, <2>2 DEF MarkOffline, AlertsTyped
<1>7. CASE AlertJobFails(w)
  <2>1. SlotsTyped' /\ MarksOffline'
    BY <1>7, <1>0, FinishTyped DEF AlertJobFails
  <2> QED
    BY <1>7, <1>0, <1>2, <2>1 DEF AlertJobFails, deviceVars, DevicesTyped, AlertsTyped
<1> QED
  BY <1>3, <1>4, <1>5, <1>6, <1>7 DEF SlotStep

-----------------------------------------------------------------------------
(* The offline check, the API, time and restarts                           *)

\* Every step of the offline check preserves the types.
LEMMA CheckTyped ==
    ASSUME TypeInv, UNCHANGED ownVars, CheckOffline \/ SweepStep \/ CheckFails
    PROVE  TypeInv'
<1>0. /\ DevicesTyped /\ RecordsTyped /\ alertQueue \in Seq(AlertJobs) /\ AlertsTyped
      /\ SlotsTyped /\ SweepTyped /\ silent \subseteq Devices
      /\ restarts \in 0..MaxRestarts /\ AttemptsLeft /\ MarksOffline
  BY DEF TypeInv, TypeOK
<1>1. /\ RecordsTyped' /\ AlertsTyped' /\ SlotsTyped' /\ AttemptsLeft' /\ MarksOffline'
      /\ silent' \subseteq Devices /\ restarts' \in 0..MaxRestarts
  BY <1>0 DEF CheckOffline, SweepStep, CheckFails, CheckMarks, CheckEnqueues, ownVars,
              jobVars, slotVars, RecordsTyped, AlertsTyped, SlotsTyped, AttemptsLeft,
              MarksOffline
<1>2. ASSUME DevicesTyped', alertQueue' \in Seq(AlertJobs), SweepTyped'
      PROVE  TypeInv'
  BY <1>1, <1>2 DEF TypeInv, TypeOK
<1>3. CASE CheckOffline
  BY <1>3, <1>0, <1>2
     DEF CheckOffline, StaleDevices, deviceVars, DevicesTyped, SweepTyped
<1>4. ASSUME NEW d \in Devices, CheckMarks(d) PROVE TypeInv'
  BY <1>4, <1>0, <1>2 DEF CheckMarks, DevicesTyped, SweepTyped
<1>5. ASSUME NEW added \in BOOLEAN, CheckEnqueues(added) PROVE TypeInv'
  <2> DEFINE j == [type |-> "device_offline", dev |-> marked, rec |-> None]
  <2>1. marked \in Devices
    BY <1>5, <1>0 DEF CheckEnqueues, SweepTyped
  <2>2. j \in AlertJobs
    BY <2>1 DEF AlertJobs
  <2>3. alertQueue' = Append(alertQueue, j) \/ alertQueue' = alertQueue
    BY <1>5 DEF CheckEnqueues
  <2> HIDE DEF j
  <2>4. alertQueue' \in Seq(AlertJobs)
    BY <1>0, <2>2, <2>3
  <2> QED
    BY <1>5, <1>0, <1>2, <2>4 DEF CheckEnqueues, deviceVars, DevicesTyped, SweepTyped
<1>6. CASE CheckFails
  BY <1>6, <1>0, <1>2 DEF CheckFails, deviceVars, DevicesTyped, SweepTyped
<1> QED
  BY <1>3, <1>4, <1>5, <1>6 DEF SweepStep

\* A device the API creates has no lastSeen.
LEMMA ApiTyped ==
    ASSUME TypeInv, NEW d \in Devices, ApiCreate(d), UNCHANGED otherVars
    PROVE  TypeInv'
<1>1. DevicesTyped'
  BY DEF TypeInv, TypeOK, ApiCreate, DevicesTyped
<1>2. /\ RecordsTyped' /\ AttemptsLeft' /\ alertQueue' \in Seq(AlertJobs)
  BY DEF TypeInv, TypeOK, ApiCreate, jobVars, RecordsTyped, AttemptsLeft
<1>3. AlertsTyped' /\ SlotsTyped' /\ SweepTyped' /\ MarksOffline'
  BY DEF TypeInv, TypeOK, otherVars, slotVars, sweepVars,
         AlertsTyped, SlotsTyped, SweepTyped, MarksOffline
<1>4. silent' \subseteq Devices /\ restarts' \in 0..MaxRestarts
  BY DEF TypeInv, TypeOK, otherVars, ownVars
<1> QED
  BY <1>1, <1>2, <1>3, <1>4 DEF TypeInv, TypeOK

\* Time only moves ages.
LEMMA TickTyped == ASSUME TypeInv, Tick PROVE TypeInv'
<1>1. \A d \in Devices : age[d] \in 0..(OfflineAge + 1) \cup {None}
  BY DEF TypeInv, TypeOK, DevicesTyped
<1>2. ASSUME NEW d \in Devices
      PROVE  (IF age[d] = None \/ age[d] > OfflineAge THEN age[d] ELSE age[d] + 1)
                \in 0..(OfflineAge + 1) \cup {None}
  <2>1. CASE age[d] = None
    BY <2>1
  <2>2. CASE age[d] # None
    BY <2>2, <1>1, TelemetryAssumption DEF TelemetryAssumption
  <2> QED
    BY <2>1, <2>2
<1>3. DevicesTyped'
  BY <1>2 DEF Tick, TypeInv, TypeOK, DevicesTyped
<1>4. ASSUME NEW d \in Devices, NEW t \in AlertTypes
      PROVE  [a \in 0..Window[t] |->
                IF a = 0 THEN 0
                ELSE IF a = Window[t] THEN alerts[d][t][a] + alerts[d][t][a - 1]
                ELSE alerts[d][t][a - 1]] \in [0..Window[t] -> Nat]
  <2>1. Window[t] \in Nat
    BY AlertAssumption DEF AlertAssumption
  <2>2. alerts[d][t] \in [0..Window[t] -> Nat]
    BY DEF TypeInv, TypeOK, AlertsTyped
  <2> QED
    BY <2>1, <2>2
<1>5. AlertsTyped'
  BY <1>4 DEF Tick, AlertsTyped
<1>6. /\ RecordsTyped' /\ AttemptsLeft' /\ alertQueue' \in Seq(AlertJobs)
      /\ SlotsTyped' /\ SweepTyped' /\ MarksOffline'
  BY DEF TypeInv, TypeOK, Tick, jobVars, slotVars, sweepVars,
         RecordsTyped, AttemptsLeft, SlotsTyped, SweepTyped, MarksOffline
<1>7. silent' \subseteq Devices /\ restarts' \in 0..MaxRestarts
  BY DEF TypeInv, TypeOK, Tick
<1> QED
  BY <1>3, <1>5, <1>6, <1>7 DEF TypeInv, TypeOK

\* The jobs that a restart puts back, in front of a queue over a set that
\* contains them, leave a queue over that set.
LEMMA RestartQueue ==
    ASSUME NEW J, alertQueue \in Seq(J), Restart,
           \A w \in Slots : job[w] # None => job[w] \in J
    PROVE  alertQueue' \in Seq(J)
<1> DEFINE busy == {w \in Slots : job[w] # None}
<1>1. PICK order \in Bijection(1..Cardinality(busy), busy) :
         alertQueue' = [n \in 1..Cardinality(busy) |-> job[order[n]]] \o alertQueue
  BY DEF Restart
<1>2. Cardinality(busy) \in Nat
  <2>1. IsFiniteSet(Slots)
    BY AlertAssumption DEF AlertAssumption
  <2> QED
    BY <2>1, FS_Subset, FS_CardinalityType
<1>3. \A n \in 1..Cardinality(busy) : order[n] \in busy
  BY <1>1 DEF Bijection, Injection
<1>4. [n \in 1..Cardinality(busy) |-> job[order[n]]] \in Seq(J)
  BY <1>2, <1>3
<1> QED
  BY <1>1, <1>4, ConcatProperties

\* A restart preserves the types.
LEMMA RestartTyped == ASSUME TypeInv, Restart PROVE TypeInv'
<1>1. alertQueue' \in Seq(AlertJobs)
  BY RestartQueue DEF TypeInv, TypeOK, SlotsTyped
<1>2. RecordsTyped'
  BY StageSets DEF Restart, TypeInv, TypeOK, RecordsTyped
<1>3. AttemptsLeft'
  BY StageSets DEF Restart, TypeInv, TypeOK, RecordsTyped, AttemptsLeft
<1>4. SlotsTyped' /\ MarksOffline'
  BY DEF Restart, SlotsTyped, Steps, MarksOffline
<1>5. DevicesTyped' /\ AlertsTyped' /\ SweepTyped' /\ silent' \subseteq Devices
  BY DEF Restart, TypeInv, TypeOK, deviceVars, DevicesTyped, AlertsTyped, SweepTyped
<1>6. restarts' \in 0..MaxRestarts
  BY WorkerAssumption DEF WorkerAssumption, Restart, TypeInv, TypeOK
<1> QED
  BY <1>1, <1>2, <1>3, <1>4, <1>5, <1>6 DEF TypeInv, TypeOK

\* No step of the worker breaks the types.
LEMMA StepKeepsTypes == ASSUME TypeInv, [Next]_vars PROVE TypeInv'
<1>1. CASE UNCHANGED vars
  BY <1>1 DEF vars, deviceVars, jobVars, slotVars, sweepVars, TypeInv, TypeOK,
              DevicesTyped, RecordsTyped, AlertsTyped, SlotsTyped, SweepTyped,
              AttemptsLeft, MarksOffline
<1>2. CASE Next
  BY <1>2, TelemetryTyped, AlertTyped, CheckTyped, ApiTyped, TickTyped, RestartTyped
     DEF Next, TelemetryStep, AlertStep, OfflineCheckStep, Fails, otherVars
<1> QED
  BY <1>1, <1>2

\* Every state of the worker is well typed (the rows it writes, the jobs it
\* queues and the slots of its queues).
THEOREM WorkerTypeCorrect == Spec => []TypeOK
<1>1. TypeInv /\ [Next]_vars => TypeInv'
  BY StepKeepsTypes
<1>2. TypeInv => TypeOK
  BY DEF TypeInv
<1> QED
  BY InitTyped, <1>1, <1>2, PTL DEF Spec

-----------------------------------------------------------------------------
(* The online status                                                       *)

\* Alert jobs that mark no device offline but one that has been silent.
LiveJobs == {j \in AlertJobs : j.type = "device_offline" => j.dev \in silent}

StaleIsSilent == \A d \in Devices : age[d] # None /\ age[d] > OfflineAge => d \in silent

CheckedIsSilent == /\ found \subseteq silent
                   /\ marked # None => marked \in silent

QueuedIsSilent == /\ alertQueue \in Seq(LiveJobs)
                  /\ \A w \in Slots : job[w] # None => job[w] \in LiveJobs

\* Whatever may still mark a device offline was caused by its silence.
StatusInv == /\ StaleIsSilent
             /\ CheckedIsSilent
             /\ QueuedIsSilent
             /\ NeverSilentStaysOnline

\* Silence is never forgotten, so what was live stays live.
LEMMA LiveJobsGrow == ASSUME silent \subseteq silent' PROVE LiveJobs \subseteq LiveJobs'
  BY DEF LiveJobs

\* The parts about jobs do not depend on anything but the queue, the slots
\* and the history.
LEMMA QueuedUnchanged ==
    ASSUME QueuedIsSilent, silent \subseteq silent', UNCHANGED <<alertQueue, job>>
    PROVE  QueuedIsSilent'
<1>1. LiveJobs \subseteq LiveJobs'
  BY LiveJobsGrow
<1>2. alertQueue' \in Seq(LiveJobs')
  BY <1>1 DEF QueuedIsSilent
<1> QED
  BY <1>1, <1>2 DEF QueuedIsSilent

\* A job leaves its slot or stays there.
LEMMA SlotKept ==
    ASSUME QueuedIsSilent, NEW w \in Slots, job \in [Slots -> AlertJobs \cup {None}],
           Finish(w) \/ job' = job, UNCHANGED <<alertQueue, silent>>
    PROVE  QueuedIsSilent'
<1>1. LiveJobs' = LiveJobs
  BY DEF LiveJobs
<1> QED
  BY <1>1 DEF QueuedIsSilent, Finish

\* Proceeding frees the slot or keeps the job.
LEMMA ProceedKeepsJob ==
    ASSUME NEW w \in Slots, NEW F, Proceed(w, F)
    PROVE  Finish(w) \/ job' = job
  BY DEF Proceed

\* A telemetry job touches the status only to set it, and queues only checks.
LEMMA TelemetryStatus ==
    ASSUME TypeInv, StatusInv, NEW r \in Records, UNCHANGED otherVars,
           Enqueue(r) \/ JobStep(r) \/ JobFails(r)
    PROVE  StatusInv'
<1>1. DeviceOf[r] \in Devices /\ OfflineAge \in Nat
  BY TelemetryAssumption DEF TelemetryAssumption
<1>2. DevicesTyped
  BY DEF TypeInv, TypeOK
<1>3. silent' = silent /\ job' = job /\ LiveJobs' = LiveJobs
  BY DEF otherVars, ownVars, slotVars, LiveJobs
<1>4. CheckedIsSilent'
  BY DEF StatusInv, CheckedIsSilent, otherVars, ownVars, sweepVars
<1>5. \/ UNCHANGED <<online, age>>
      \/ MarkSeen(DeviceOf[r])
  BY DEF Enqueue, JobStep, JobFails, StartJob, Find, Create, Touch, Store, StoreCan,
         EnqueueOverspeed, EnqueueGeofence, MatchRoute, Retry, deviceVars
<1>6. StaleIsSilent' /\ NeverSilentStaysOnline'
  <2>1. CASE UNCHANGED <<online, age>>
    BY <2>1, <1>3 DEF StatusInv, StaleIsSilent, NeverSilentStaysOnline
  <2>2. CASE MarkSeen(DeviceOf[r])
    BY <2>2, <1>1, <1>2, <1>3
       DEF MarkSeen, DevicesTyped, StatusInv, StaleIsSilent, NeverSilentStaysOnline
  <2> QED
    BY <1>5, <2>1, <2>2
<1>7. \/ alertQueue' = alertQueue
      \/ \E t \in {"check_overspeed", "check_geofence"} :
            alertQueue' = Append(alertQueue, [type |-> t, dev |-> DeviceOf[r], rec |-> r])
  BY DEF Enqueue, JobStep, JobFails, StartJob, Find, Create, Touch, Store, StoreCan,
         EnqueueOverspeed, EnqueueGeofence, MatchRoute, Retry
<1>8. \A t \in {"check_overspeed", "check_geofence"} :
         [type |-> t, dev |-> DeviceOf[r], rec |-> r] \in LiveJobs
  BY CheckIsJob DEF LiveJobs
<1>9. alertQueue' \in Seq(LiveJobs)
  BY <1>7, <1>8 DEF StatusInv, QueuedIsSilent
<1>10. QueuedIsSilent'
  BY <1>3, <1>9 DEF StatusInv, QueuedIsSilent
<1> QED
  BY <1>4, <1>6, <1>10 DEF StatusInv

\* An alert job marks offline only the device its job was made for.
LEMMA AlertStatus ==
    ASSUME TypeInv, StatusInv, NEW w \in Slots, UNCHANGED ownVars,
           SlotStep(w) \/ AlertJobFails(w)
    PROVE  StatusInv'
<1>1. /\ SlotsTyped /\ DevicesTyped /\ MarksOffline
      /\ job \in [Slots -> AlertJobs \cup {None}]
  BY DEF TypeInv, TypeOK, SlotsTyped
<1>2. silent' = silent /\ LiveJobs' = LiveJobs
  BY DEF ownVars, LiveJobs
<1>3. CheckedIsSilent' /\ StaleIsSilent'
  BY <1>2 DEF SlotStep, AlertJobFails, TakeAlertJob, Select, Insert, MarkOffline,
              deviceVars, sweepVars, StatusInv, CheckedIsSilent, StaleIsSilent
<1>4. QueuedIsSilent'
  <2>1. CASE TakeAlertJob(w)
    <3> DEFINE j == Head(alertQueue)
    <3>1. j \in LiveJobs /\ alertQueue' \in Seq(LiveJobs)
      BY <2>1 DEF TakeAlertJob, StatusInv, QueuedIsSilent
    <3>2. job' = [job EXCEPT ![w] = j] \/ job' = job
      BY <2>1 DEF TakeAlertJob, slotVars
    <3> HIDE DEF j
    <3> QED
      BY <1>1, <1>2, <3>1, <3>2 DEF StatusInv, QueuedIsSilent
  <2>2. CASE Select(w)
    <3>1. Finish(w) \/ job' = job
      BY <2>2, ProceedKeepsJob DEF Select, SelectRecent
    <3> QED
      BY <3>1, <2>2, <1>1, <1>2, SlotKept DEF Select, StatusInv
  <2>3. CASE Insert(w)
    <3>1. Finish(w) \/ job' = job
      BY <2>3, ProceedKeepsJob DEF Insert
    <3> QED
      BY <3>1, <2>3, <1>1, <1>2, SlotKept DEF Insert, StatusInv
  <2>4. CASE MarkOffline(w)
    BY <2>4, <1>1, <1>2, SlotKept DEF MarkOffline, StatusInv
  <2>5. CASE AlertJobFails(w)
    BY <2>5, <1>1, <1>2, SlotKept DEF AlertJobFails, StatusInv
  <2> QED
    BY <2>1, <2>2, <2>3, <2>4, <2>5 DEF SlotStep
<1>5. NeverSilentStaysOnline'
  <2>1. CASE MarkOffline(w)
    <3>1. job[w].dev \in silent
      BY <2>1, <1>1 DEF MarkOffline, MarksOffline, StatusInv, QueuedIsSilent, LiveJobs
    <3>2. /\ online' = [online EXCEPT ![job[w].dev] = FALSE]
          /\ age' = age
      BY <2>1 DEF MarkOffline
    <3> QED
      BY <3>1, <3>2, <1>1, <1>2 DEF DevicesTyped, StatusInv, NeverSilentStaysOnline
  <2>2. CASE ~MarkOffline(w)
    BY <2>2, <1>2 DEF SlotStep, AlertJobFails, TakeAlertJob, Select, Insert,
                      deviceVars, StatusInv, NeverSilentStaysOnline
  <2> QED
    BY <2>1, <2>2
<1> QED
  BY <1>3, <1>4, <1>5 DEF StatusInv

\* The offline check finds, marks and reports silent devices only.
LEMMA CheckStatus ==
    ASSUME TypeInv, StatusInv, UNCHANGED ownVars, CheckOffline \/ SweepStep \/ CheckFails
    PROVE  StatusInv'
<1>1. DevicesTyped /\ SweepTyped /\ NeverSilentStaysOnline /\ CheckedIsSilent
  BY DEF TypeInv, TypeOK, StatusInv
<1>2. silent' = silent /\ job' = job /\ LiveJobs' = LiveJobs /\ age' = age
  BY DEF ownVars, LiveJobs, CheckOffline, SweepStep, CheckFails, CheckMarks,
         CheckEnqueues, slotVars, deviceVars
<1>3. StaleIsSilent'
  BY <1>2 DEF StatusInv, StaleIsSilent
<1>4. CheckedIsSilent'
  <2>1. CASE CheckOffline
    BY <2>1, <1>1, <1>2 DEF CheckOffline, StaleDevices, DevicesTyped, StatusInv,
                            StaleIsSilent, CheckedIsSilent
  <2>2. CASE SweepStep
    BY <2>2, <1>1, <1>2 DEF SweepStep, CheckMarks, CheckEnqueues, CheckedIsSilent
  <2>3. CASE CheckFails
    BY <2>3, <1>1, <1>2 DEF CheckFails, CheckedIsSilent
  <2> QED
    BY <2>1, <2>2, <2>3
<1>5. QueuedIsSilent'
  <2>1. CASE \E added \in BOOLEAN : CheckEnqueues(added)
    <3> DEFINE j == [type |-> "device_offline", dev |-> marked, rec |-> None]
    <3>1. marked \in Devices /\ marked \in silent
      BY <2>1, <1>1 DEF CheckEnqueues, SweepTyped, CheckedIsSilent
    <3>2. j \in LiveJobs
      BY <3>1 DEF LiveJobs, AlertJobs
    <3>3. alertQueue' = Append(alertQueue, j) \/ alertQueue' = alertQueue
      BY <2>1 DEF CheckEnqueues
    <3> HIDE DEF j
    <3>4. alertQueue' \in Seq(LiveJobs)
      BY <3>2, <3>3 DEF StatusInv, QueuedIsSilent
    <3> QED
      BY <3>4, <1>2 DEF StatusInv, QueuedIsSilent
  <2>2. CASE ~\E added \in BOOLEAN : CheckEnqueues(added)
    <3>1. alertQueue' = alertQueue
      BY <2>2 DEF CheckOffline, SweepStep, CheckFails, CheckMarks
    <3> QED
      BY <3>1, <1>2, QueuedUnchanged DEF StatusInv
  <2> QED
    BY <2>1, <2>2
<1>6. NeverSilentStaysOnline'
  <2>1. ASSUME NEW d \in Devices, CheckMarks(d) PROVE NeverSilentStaysOnline'
    <3>1. d \in silent
      BY <2>1, <1>1 DEF CheckMarks, CheckedIsSilent
    <3> QED
      BY <2>1, <3>1, <1>1, <1>2 DEF CheckMarks, DevicesTyped, NeverSilentStaysOnline
  <2>2. CASE ~\E d \in Devices : CheckMarks(d)
    <3>1. online' = online
      BY <2>2 DEF CheckOffline, SweepStep, CheckFails, CheckEnqueues, deviceVars
    <3> QED
      BY <3>1, <1>1, <1>2 DEF NeverSilentStaysOnline
  <2> QED
    BY <2>1, <2>2
<1> QED
  BY <1>3, <1>4, <1>5, <1>6 DEF StatusInv

\* A device whose age passes the limit has been silent.
LEMMA TickStatus == ASSUME TypeInv, StatusInv, Tick PROVE StatusInv'
<1>1. \A d \in Devices : age[d] \in 0..(OfflineAge + 1) \cup {None}
  BY DEF TypeInv, TypeOK, DevicesTyped
<1>2. OfflineAge \in Nat /\ None \notin Nat
  BY NoneApart, TelemetryAssumption DEF TelemetryAssumption
<1>3. /\ silent \subseteq silent'
      /\ \A d \in Devices : age[d] # None /\ age[d] >= OfflineAge => d \in silent'
      /\ \A d \in Devices : age'[d] = IF age[d] = None \/ age[d] > OfflineAge
                                     THEN age[d] ELSE age[d] + 1
      /\ UNCHANGED <<online, alertQueue, job, found, marked>>
  BY DEF Tick, slotVars, sweepVars
<1>4. ASSUME NEW d \in Devices, age'[d] # None, age'[d] > OfflineAge
      PROVE  d \in silent'
  <2>1. age[d] # None
    BY <1>3, <1>4
  <2>2. age[d] \in 0..(OfflineAge + 1) /\ age[d] \in Nat
    BY <1>1, <1>2, <2>1
  <2>3. age[d] >= OfflineAge
    BY <1>2, <1>3, <1>4, <2>1, <2>2
  <2> QED
    BY <1>3, <2>1, <2>3
<1>5. StaleIsSilent'
  BY <1>4 DEF StaleIsSilent
<1>6. CheckedIsSilent'
  BY <1>3 DEF StatusInv, CheckedIsSilent
<1>7. QueuedIsSilent'
  BY <1>3, QueuedUnchanged DEF StatusInv
<1>8. ASSUME NEW d \in Devices, age'[d] # None, d \notin silent'
      PROVE  online'[d]
  BY <1>3, <1>8 DEF StatusInv, NeverSilentStaysOnline
<1>9. NeverSilentStaysOnline'
  BY <1>8 DEF NeverSilentStaysOnline
<1> QED
  BY <1>5, <1>6, <1>7, <1>9 DEF StatusInv

\* A restart forgets what the offline check has found and puts jobs back.
LEMMA RestartStatus == ASSUME TypeInv, StatusInv, Restart PROVE StatusInv'
<1>1. silent' = silent /\ LiveJobs' = LiveJobs
  BY DEF Restart, LiveJobs
<1>2. alertQueue' \in Seq(LiveJobs)
  BY RestartQueue DEF StatusInv, QueuedIsSilent
<1>3. QueuedIsSilent'
  BY <1>1, <1>2 DEF Restart, QueuedIsSilent
<1>4. CheckedIsSilent'
  BY DEF Restart, CheckedIsSilent
<1>5. StaleIsSilent' /\ NeverSilentStaysOnline'
  BY <1>1 DEF Restart, deviceVars, StatusInv, StaleIsSilent, NeverSilentStaysOnline
<1> QED
  BY <1>3, <1>4, <1>5 DEF StatusInv

\* The API creates a device that was never seen.
LEMMA ApiStatus ==
    ASSUME TypeInv, StatusInv, NEW d \in Devices, ApiCreate(d), UNCHANGED otherVars
    PROVE  StatusInv'
<1>1. UNCHANGED <<online, age, alertQueue, job, found, marked, silent>>
  BY DEF ApiCreate, otherVars, slotVars, sweepVars, ownVars
<1>2. QueuedIsSilent'
  BY <1>1, QueuedUnchanged DEF StatusInv
<1> QED
  BY <1>1, <1>2 DEF StatusInv, StaleIsSilent, CheckedIsSilent, NeverSilentStaysOnline

\* No step marks a device offline that was never silent.
LEMMA StepKeepsStatus == ASSUME TypeInv, StatusInv, [Next]_vars PROVE StatusInv'
<1>1. CASE UNCHANGED vars
  <2>1. UNCHANGED <<online, age, alertQueue, job, found, marked, silent>>
    BY <1>1 DEF vars, deviceVars, slotVars, sweepVars
  <2>2. QueuedIsSilent'
    BY <2>1, QueuedUnchanged DEF StatusInv
  <2> QED
    BY <2>1, <2>2 DEF StatusInv, StaleIsSilent, CheckedIsSilent, NeverSilentStaysOnline
<1>2. CASE Next
  BY <1>2, TelemetryStatus, AlertStatus, CheckStatus, ApiStatus, TickStatus, RestartStatus
     DEF Next, TelemetryStep, AlertStep, OfflineCheckStep, Fails, otherVars
<1> QED
  BY <1>1, <1>2

\* In the initial states nobody was seen and nothing is queued.
LEMMA InitStatus == Init => StatusInv
<1> SUFFICES ASSUME Init PROVE StatusInv
  OBVIOUS
<1>1. \A d \in Devices : age[d] = None
  BY DEF Init, TelemetryInit
<1>2. QueuedIsSilent
  BY DEF Init, TelemetryInit, AlertInit, QueuedIsSilent
<1>3. CheckedIsSilent
  BY DEF Init, AlertInit, CheckedIsSilent
<1> QED
  BY <1>1, <1>2, <1>3 DEF StatusInv, StaleIsSilent, NeverSilentStaysOnline

\* A device that was never silent for longer than the limit is shown online
\* from its first record on, whatever jobs, checks, failures and restarts
\* interleave (the column isOnline of telemetry.processor.ts,
\* cleanup.processor.ts and alert.processor.ts).
THEOREM StatusCorrect == Spec => []NeverSilentStaysOnline
<1> DEFINE IInv == TypeInv /\ StatusInv
<1>1. Init => IInv
  BY InitTyped, InitStatus
<1>2. IInv /\ [Next]_vars => IInv'
  BY StepKeepsTypes, StepKeepsStatus
<1>3. IInv => NeverSilentStaysOnline
  BY DEF StatusInv
<1> QED
  BY <1>1, <1>2, <1>3, PTL DEF Spec

-----------------------------------------------------------------------------
(* The race for the row of a device                                        *)

Unstored == {"sent", "waiting", "delayed", "find", "create", "touch", "store"}

\* A job that has lost the race once cannot lose it again: the row exists.
RaceInv ==
    \A r \in Records :
        /\ stage[r] # "failed"
        /\ failures[r] <= 1
        /\ failures[r] > 0 => DeviceOf[r] \in known /\ stage[r] # "create"
        /\ rows[r] = IF stage[r] \in Unstored THEN 0 ELSE 1

\* Only the job's own record is concerned by its step.
LEMMA RaceStep ==
    ASSUME ~DbMayFail, 1 < Attempts, RecordsTyped, RaceInv, NEW r \in Records,
           Enqueue(r) \/ JobStep(r) \/ JobFails(r)
    PROVE  RaceInv'
<1>1. known \subseteq known'
  BY DEF Enqueue, JobStep, JobFails, StartJob, Find, Create, Touch, Store, StoreCan,
         EnqueueOverspeed, EnqueueGeofence, MatchRoute, Retry, deviceVars
<1>2. ASSUME NEW q \in Records, q # r
      PROVE  /\ stage'[q] = stage[q] /\ failures'[q] = failures[q]
             /\ rows'[q] = rows[q]
  BY <1>2 DEF Enqueue, JobStep, JobFails, StartJob, Find, Create, Throw, Touch, Store,
         StoreCan, EnqueueOverspeed, EnqueueGeofence, MatchRoute, Retry, RecordsTyped
<1>3. /\ failures[r] \in Nat /\ failures[r] <= 1 /\ Attempts \in Nat
      /\ failures[r] > 0 => DeviceOf[r] \in known /\ stage[r] # "create"
      /\ rows[r] = IF stage[r] \in Unstored THEN 0 ELSE 1
  BY TelemetryAssumption DEF TelemetryAssumption, RaceInv, RecordsTyped
<1>4. /\ stage'[r] # "failed"
      /\ failures'[r] <= 1
      /\ failures'[r] > 0 => DeviceOf[r] \in known' /\ stage'[r] # "create"
      /\ rows'[r] = IF stage'[r] \in Unstored THEN 0 ELSE 1
  <2> USE <1>1, <1>3 DEF RecordsTyped, Unstored
  <2>1. CASE Create(r) /\ DeviceOf[r] \in known
    BY <2>1 DEF Create, Throw, deviceVars
  <2>2. CASE Create(r) /\ DeviceOf[r] \notin known
    BY <2>2 DEF Create
  <2>3. CASE Find(r)
    BY <2>3 DEF Find, deviceVars
  <2>4. CASE Enqueue(r) \/ StartJob(r) \/ Retry(r)
    BY <2>4 DEF Enqueue, StartJob, Retry, deviceVars, ActiveStages
  <2>5. CASE Touch(r)
    BY <2>5 DEF Touch
  <2>6. CASE Store(r)
    BY <2>6 DEF Store, deviceVars
  <2>7. CASE StoreCan(r) \/ MatchRoute(r)
    BY <2>7 DEF StoreCan, MatchRoute, deviceVars
  <2>8. CASE \E added \in BOOLEAN : EnqueueOverspeed(r, added) \/ EnqueueGeofence(r, added)
    BY <2>8 DEF EnqueueOverspeed, EnqueueGeofence, deviceVars
  <2>9. CASE JobFails(r)
    BY <2>9 DEF JobFails
  <2> QED
    BY <2>1, <2>2, <2>3, <2>4, <2>5, <2>6, <2>7, <2>8, <2>9 DEF JobStep
<1> QED
  BY <1>1, <1>2, <1>4 DEF RaceInv

\* Without failing statements and restarts, with two attempts or more, every
\* record is stored once and only once, however many jobs and requests to the
\* API race to create the row of its device (telemetry.processor.ts:68-84).
THEOREM RaceHarmless ==
    ASSUME ~DbMayFail, 1 < Attempts, MaxRestarts = 0
    PROVE  Spec => []RaceCostsNoRecord
<1> DEFINE IInv == TypeInv /\ RaceInv
<1>1. Init => IInv
  <2>1. Init => RaceInv
    BY DEF Init, TelemetryInit, RaceInv, Unstored
  <2> QED
    BY <2>1, InitTyped
<1>2. IInv /\ [Next]_vars => IInv'
  <2> SUFFICES ASSUME TypeInv, RaceInv, [Next]_vars PROVE RaceInv'
    BY StepKeepsTypes
  <2>1. ASSUME known \subseteq known', UNCHANGED jobVars PROVE RaceInv'
    BY <2>1 DEF RaceInv, jobVars
  <2>2. ASSUME NEW r \in Records, Enqueue(r) \/ JobStep(r) \/ JobFails(r) PROVE RaceInv'
    BY <2>2, RaceStep DEF TypeInv, TypeOK
  <2>3. CASE UNCHANGED vars
    BY <2>3, <2>1 DEF vars, deviceVars
  <2>4. ASSUME NEW d \in Devices, ApiCreate(d) PROVE RaceInv'
    BY <2>4, <2>1 DEF ApiCreate
  <2>5. ASSUME NEW w \in Slots, SlotStep(w) \/ AlertJobFails(w) PROVE RaceInv'
    BY <2>5, <2>1 DEF SlotStep, TakeAlertJob, Select, Insert, MarkOffline,
                      AlertJobFails, deviceVars
  <2>6. CASE CheckOffline \/ SweepStep \/ CheckFails
    BY <2>6, <2>1 DEF CheckOffline, SweepStep, CheckMarks, CheckEnqueues, CheckFails,
                      deviceVars
  <2>7. CASE Tick
    BY <2>7, <2>1 DEF Tick
  <2>8. ~Restart
    BY DEF Restart, TypeInv, TypeOK
  <2> QED
    BY <2>2, <2>3, <2>4, <2>5, <2>6, <2>7, <2>8
       DEF Next, TelemetryStep, AlertStep, OfflineCheckStep, Fails
<1>3. IInv => RaceCostsNoRecord
  BY DEF RaceInv, RaceCostsNoRecord, Unstored
<1> QED
  BY <1>1, <1>2, <1>3, PTL DEF Spec
-----------------------------------------------------------------------------
(* Bursts of alerts                                                        *)

\* Slots whose job has found no recent alert of the type and is to insert one.
Inserting(d, t) ==
    {w \in Slots : step[w] = "insert" /\ job[w].dev = d /\ TypeOf(job[w]) = t}

\* A slot gives up its claim when it inserts, and claims again only when no
\* alert is recent: what is recent and what is about to be never exceed the slots.
BurstInv ==
    \A d \in Devices, t \in AlertTypes :
        /\ IsFiniteSet(RowsWithin(alerts[d][t], Window[t]))
        /\ RecentAlerts(d, t) + Cardinality(Inserting(d, t)) <= Cardinality(Slots)

\* Windows are positive and slots are finitely many.
LEMMA BurstConstants ==
    /\ \A t \in AlertTypes : Window[t] \in Nat /\ Window[t] > 0
    /\ IsFiniteSet(Slots) /\ Cardinality(Slots) \in Nat
  BY AlertAssumption, FS_CardinalityType DEF AlertAssumption

\* Where no alert is recent there is no recent row.
LEMMA NoRows ==
    ASSUME NEW W \in Nat, NEW c, \A a \in 0..(W - 1) : c[a] = 0
    PROVE  RowsWithin(c, W) = {}
<1>1. ASSUME NEW a \in 0..(W - 1) PROVE {a} \X (1..c[a]) = {}
  <2>1. c[a] = 0
    OBVIOUS
  <2>2. 1..c[a] = {}
    BY <2>1
  <2> QED
    BY <2>2
<1> QED
  BY <1>1 DEF RowsWithin

\* A new alert adds one row.
LEMMA RowInserted ==
    ASSUME NEW W \in Nat, W > 0, NEW c \in [0..W -> Nat], IsFiniteSet(RowsWithin(c, W)),
           NEW e, e = [c EXCEPT ![0] = @ + 1]
    PROVE  /\ IsFiniteSet(RowsWithin(e, W))
           /\ Cardinality(RowsWithin(e, W)) = Cardinality(RowsWithin(c, W)) + 1
<1> DEFINE new == <<0, c[0] + 1>>
<1>1. /\ c[0] \in Nat /\ e[0] = c[0] + 1
      /\ \A a \in 1..(W - 1) : e[a] = c[a] /\ c[a] \in Nat
  OBVIOUS
<1>2. 1..e[0] = (1..c[0]) \cup {c[0] + 1}
  BY <1>1
<1>3. {0} \X (1..e[0]) = ({0} \X (1..c[0])) \cup {new}
  BY <1>2
<1>4. \A x : x \in RowsWithin(e, W) <=> x \in RowsWithin(c, W) \cup {new}
  <2> TAKE x
  <2>1. x \in RowsWithin(e, W) <=> \E a \in 0..(W - 1) : x \in {a} \X (1..e[a])
    BY DEF RowsWithin
  <2>2. x \in RowsWithin(c, W) <=> \E a \in 0..(W - 1) : x \in {a} \X (1..c[a])
    BY DEF RowsWithin
  <2>3. \A a \in 0..(W - 1) : a # 0 => {a} \X (1..e[a]) = {a} \X (1..c[a])
    BY <1>1
  <2>4. 0 \in 0..(W - 1)
    OBVIOUS
  <2> HIDE DEF new
  <2> QED
    BY <2>1, <2>2, <2>3, <2>4, <1>3
<1>5. new \notin RowsWithin(c, W)
  <2>1. SUFFICES ASSUME NEW a \in 0..(W - 1), new \in {a} \X (1..c[a]) PROVE FALSE
    BY DEF RowsWithin
  <2>2. a = 0 /\ c[0] + 1 \in 1..c[0]
    BY <2>1
  <2> QED
    BY <2>2, <1>1
<1>6. RowsWithin(e, W) = RowsWithin(c, W) \cup {new}
  BY <1>4
<1> HIDE DEF new
<1>7. /\ IsFiniteSet(RowsWithin(c, W) \cup {new})
      /\ Cardinality(RowsWithin(c, W) \cup {new}) = Cardinality(RowsWithin(c, W)) + 1
  <2> DEFINE S == RowsWithin(c, W)
  <2> HIDE DEF S
  <2>1. IsFiniteSet(S) /\ new \notin S
    BY <1>5 DEF S
  <2>2. /\ IsFiniteSet(S \cup {new})
        /\ Cardinality(S \cup {new}) = Cardinality(S) + 1
    BY <2>1, FS_AddElement
  <2> QED
    BY <2>2 DEF S
<1> QED
  BY <1>6, <1>7

\* The counts of a type when a tick has passed.
Aged(c, W) == [a \in 0..W |-> IF a = 0 THEN 0
                              ELSE IF a = W THEN c[a] + c[a - 1]
                              ELSE c[a - 1]]

\* When time passes no alert becomes recent.
LEMMA RowsAged ==
    ASSUME NEW W \in Nat, W > 0, NEW c \in [0..W -> Nat], IsFiniteSet(RowsWithin(c, W))
    PROVE  /\ IsFiniteSet(RowsWithin(Aged(c, W), W))
           /\ Cardinality(RowsWithin(Aged(c, W), W)) <= Cardinality(RowsWithin(c, W))
<1> DEFINE e == Aged(c, W)
           S == RowsWithin(e, W)
           T == RowsWithin(c, W)
           f == [x \in S |-> <<x[1] - 1, x[2]>>]
<1>1. /\ e[0] = 0
      /\ \A a \in 1..(W - 1) : e[a] = c[a - 1]
  BY DEF Aged
<1> HIDE DEF e
<1>2. ASSUME NEW x \in S
      PROVE  /\ x = <<x[1], x[2]>> /\ x[1] \in 1..(W - 1)
             /\ x[2] \in 1..c[x[1] - 1]
  <2>1. PICK a \in 0..(W - 1) : x \in {a} \X (1..e[a])
    BY DEF RowsWithin
  <2>2. PICK n \in 1..e[a] : x = <<a, n>>
    BY <2>1
  <2>3. a # 0
    BY <2>2, <1>1
  <2> QED
    BY <2>2, <2>3, <1>1
<1>3. ASSUME NEW x \in S PROVE f[x] \in T
  <2>1. f[x] = <<x[1] - 1, x[2]>> /\ x[1] - 1 \in 0..(W - 1) /\ x[2] \in 1..c[x[1] - 1]
    BY <1>2
  <2>2. f[x] \in {x[1] - 1} \X (1..c[x[1] - 1])
    BY <2>1
  <2> QED
    BY <2>1, <2>2 DEF RowsWithin
<1>4. ASSUME NEW x \in S, NEW y \in S, f[x] = f[y] PROVE x = y
  <2>1. /\ x = <<x[1], x[2]>> /\ y = <<y[1], y[2]>> /\ x[1] \in Int /\ y[1] \in Int
    BY <1>2
  <2>2. <<x[1] - 1, x[2]>> = <<y[1] - 1, y[2]>>
    BY <1>4
  <2>3. x[1] - 1 = y[1] - 1 /\ x[2] = y[2]
    BY <2>2
  <2>4. x[1] = y[1]
    BY <2>1, <2>3
  <2> QED
    BY <2>1, <2>3, <2>4
<1>5. f \in Injection(S, T)
  <2>1. f \in [S -> T]
    BY <1>3
  <2> HIDE DEF f, S, T
  <2> QED
    BY <2>1, <1>4 DEF Injection, IsInjective
<1> HIDE DEF f, S, T
<1> QED
  BY <1>5, FS_Injection DEF S, T, e

\* The slots that are about to insert an alert are finitely many, and no more
\* when only fewer of the slots of before are among them.
LEMMA InsertingType ==
    ASSUME NEW d, NEW t
    PROVE  /\ IsFiniteSet(Inserting(d, t)) /\ Cardinality(Inserting(d, t)) \in Nat
           /\ Cardinality(Inserting(d, t)) <= Cardinality(Slots)
           /\ \A S \in SUBSET Inserting(d, t) :
                  IsFiniteSet(S) /\ Cardinality(S) <= Cardinality(Inserting(d, t))
<1>1. Inserting(d, t) \in SUBSET Slots
  BY DEF Inserting
<1>2. /\ IsFiniteSet(Inserting(d, t))
      /\ Cardinality(Inserting(d, t)) <= Cardinality(Slots)
  BY <1>1, BurstConstants, FS_Subset
<1> QED
  BY <1>2, FS_Subset, FS_CardinalityType

\* A step that adds no alert and no claim keeps the bound.
LEMMA FewerClaims ==
    ASSUME BurstInv, alerts' = alerts,
           \A d \in Devices, t \in AlertTypes : Inserting(d, t)' \subseteq Inserting(d, t)
    PROVE  BurstInv'
<1> SUFFICES ASSUME NEW d \in Devices, NEW t \in AlertTypes
             PROVE  /\ IsFiniteSet(RowsWithin(alerts[d][t], Window[t]))
                    /\ RecentAlerts(d, t) + Cardinality(Inserting(d, t)') <= Cardinality(Slots)
  BY DEF BurstInv, RecentAlerts
<1>1. /\ IsFiniteSet(RowsWithin(alerts[d][t], Window[t]))
      /\ RecentAlerts(d, t) + Cardinality(Inserting(d, t)) <= Cardinality(Slots)
  BY DEF BurstInv
<1>2. /\ IsFiniteSet(Inserting(d, t)') /\ Cardinality(Inserting(d, t)') <= Cardinality(Inserting(d, t))
  BY InsertingType
<1>3. /\ RecentAlerts(d, t) \in Nat /\ Cardinality(Inserting(d, t)') \in Nat
      /\ Cardinality(Inserting(d, t)) \in Nat
  BY <1>1, <1>2, InsertingType, FS_CardinalityType DEF RecentAlerts
<1> QED
  BY <1>1, <1>2, <1>3, BurstConstants

\* A slot that is freed, or whose job goes on to another step than an insert,
\* claims nothing.
LEMMA NoNewClaim ==
    ASSUME TypeInv, NEW w \in Slots,
           \A v \in Slots : v # w => step'[v] = step[v] /\ job'[v] = job[v],
           step'[w] # "insert"
    PROVE  \A d \in Devices, t \in AlertTypes : Inserting(d, t)' \subseteq Inserting(d, t) \ {w}
<1> SUFFICES ASSUME NEW d \in Devices, NEW t \in AlertTypes,
                    NEW v \in Slots, (step[v] = "insert")', (job[v].dev = d)', (TypeOf(job[v]) = t)'
             PROVE  v \in Inserting(d, t) \ {w}
  BY DEF Inserting
<1>1. v # w
  OBVIOUS
<1>2. step'[v] = step[v] /\ job'[v] = job[v]
  BY <1>1
<1> QED
  BY <1>1, <1>2 DEF Inserting, TypeOf

\* What follows a check leaves the other slots alone and claims nothing.
LEMMA ProceedClaims ==
    ASSUME TypeInv, NEW w \in Slots, NEW F, Proceed(w, F)
    PROVE  /\ \A v \in Slots : v # w => step'[v] = step[v] /\ job'[v] = job[v]
           /\ step'[w] # "insert"
<1>1. step \in [Slots -> Steps] /\ job \in [Slots -> AlertJobs \cup {None}]
  BY DEF TypeInv, TypeOK, SlotsTyped
<1> QED
  BY <1>1 DEF Proceed, Finish

\* The answer to the select: a claim only where no alert is recent.
LEMMA SelectBurst ==
    ASSUME TypeInv, BurstInv, NEW w \in Slots, Select(w)
    PROVE  BurstInv'
<1>0. /\ step \in [Slots -> Steps] /\ job \in [Slots -> AlertJobs \cup {None}]
      /\ step[w] = "select" /\ alerts' = alerts /\ AlertsTyped
  BY DEF TypeInv, TypeOK, SlotsTyped, Select
<1>1. PICK cur \in Current(w) :
        IF Recent(job[w].dev, TypeOf(job[w]))
        THEN Proceed(w, inside[w] \ cur)
        ELSE /\ step' = [step EXCEPT ![w] = "insert"]
             /\ inside' = [inside EXCEPT ![w] = @ \ cur]
             /\ UNCHANGED job
  BY DEF Select, SelectRecent
<1>2. CASE Recent(job[w].dev, TypeOf(job[w]))
  <2>1. \A d \in Devices, t \in AlertTypes : Inserting(d, t)' \subseteq Inserting(d, t)
    BY <1>1, <1>2, ProceedClaims, NoNewClaim
  <2> QED
    BY <1>0, <2>1, FewerClaims
<1>3. CASE ~Recent(job[w].dev, TypeOf(job[w]))
  <2> SUFFICES ASSUME NEW d \in Devices, NEW t \in AlertTypes
               PROVE  /\ IsFiniteSet(RowsWithin(alerts[d][t], Window[t]))
                      /\ RecentAlerts(d, t) + Cardinality(Inserting(d, t)') <= Cardinality(Slots)
    BY <1>0 DEF BurstInv, RecentAlerts
  <2>0. /\ IsFiniteSet(RowsWithin(alerts[d][t], Window[t]))
        /\ RecentAlerts(d, t) + Cardinality(Inserting(d, t)) <= Cardinality(Slots)
    BY DEF BurstInv
  <2>1. /\ step' = [step EXCEPT ![w] = "insert"] /\ job' = job
    BY <1>1, <1>3
  <2>2. CASE d = job[w].dev /\ t = TypeOf(job[w])
    <3>1. \A a \in 0..(Window[t] - 1) : alerts[d][t][a] = 0
      <4>1. alerts[d][t] \in [0..Window[t] -> Nat] /\ Window[t] \in Nat
        BY <1>0, BurstConstants DEF AlertsTyped
      <4>2. \A a \in 0..(Window[t] - 1) : ~(alerts[d][t][a] > 0)
        BY <1>3, <2>2 DEF Recent
      <4> QED
        BY <4>1, <4>2
    <3>2. RowsWithin(alerts[d][t], Window[t]) = {}
      BY <3>1, NoRows, BurstConstants
    <3>3. RecentAlerts(d, t) = 0
      BY <3>2, FS_EmptySet DEF RecentAlerts
    <3>4. Inserting(d, t)' \in SUBSET Slots
      BY DEF Inserting
    <3>5. IsFiniteSet(Inserting(d, t)') /\ Cardinality(Inserting(d, t)') <= Cardinality(Slots)
      BY <3>4, BurstConstants, FS_Subset
    <3> QED
      BY <2>0, <3>3, <3>5, FS_CardinalityType, BurstConstants
  <2>3. CASE ~(d = job[w].dev /\ t = TypeOf(job[w]))
    <3>1. Inserting(d, t)' = Inserting(d, t)
      BY <1>0, <2>1, <2>3 DEF Inserting, TypeOf
    <3> QED
      BY <2>0, <3>1
  <2> QED
    BY <2>2, <2>3
<1> QED
  BY <1>2, <1>3

\* The insert: the row that is added takes the place of the claim.
LEMMA InsertBurst ==
    ASSUME TypeInv, BurstInv, NEW w \in Slots, Insert(w)
    PROVE  BurstInv'
<1> DEFINE dd == job[w].dev
           tt == TypeOf(job[w])
<1>0. /\ step \in [Slots -> Steps] /\ job \in [Slots -> AlertJobs \cup {None}]
      /\ SlotsTyped /\ AlertsTyped /\ step[w] = "insert"
  BY DEF TypeInv, TypeOK, SlotsTyped, Insert
<1>1. dd \in Devices /\ tt \in AlertTypes
  BY <1>0, BusyHasJob, TypeOfTyped
<1>2. /\ \A v \in Slots : v # w => step'[v] = step[v] /\ job'[v] = job[v]
      /\ step'[w] # "insert"
  BY ProceedClaims DEF Insert
<1>3. \A d \in Devices, t \in AlertTypes : Inserting(d, t)' \subseteq Inserting(d, t) \ {w}
  BY <1>2, NoNewClaim
<1>4. /\ alerts' = [alerts EXCEPT ![dd][tt][0] = @ + 1]
      /\ w \in Inserting(dd, tt)
  BY <1>0 DEF Insert, Inserting
<1> HIDE DEF dd, tt
<1> SUFFICES ASSUME NEW d \in Devices, NEW t \in AlertTypes
             PROVE  /\ IsFiniteSet(RowsWithin(alerts'[d][t], Window[t]))
                    /\ Cardinality(RowsWithin(alerts'[d][t], Window[t]))
                          + Cardinality(Inserting(d, t)') <= Cardinality(Slots)
  BY DEF BurstInv, RecentAlerts
<1>5. /\ IsFiniteSet(RowsWithin(alerts[d][t], Window[t]))
      /\ Cardinality(RowsWithin(alerts[d][t], Window[t])) \in Nat
      /\ Cardinality(RowsWithin(alerts[d][t], Window[t]))
            + Cardinality(Inserting(d, t)) <= Cardinality(Slots)
      /\ Window[t] \in Nat /\ Window[t] > 0
  BY BurstConstants, FS_CardinalityType DEF BurstInv, RecentAlerts
<1>6. alerts[d][t] \in [0..Window[t] -> Nat] /\ DOMAIN alerts = Devices /\ DOMAIN alerts[d] = AlertTypes
  BY <1>0 DEF AlertsTyped
<1>7. /\ IsFiniteSet(Inserting(d, t)) /\ Cardinality(Inserting(d, t)) \in Nat
      /\ \A S \in SUBSET Inserting(d, t) :
              IsFiniteSet(S) /\ Cardinality(S) <= Cardinality(Inserting(d, t))
  BY InsertingType
<1>8. Inserting(d, t)' \subseteq Inserting(d, t) \ {w}
  BY <1>3
<1>9. /\ IsFiniteSet(Inserting(d, t)') /\ Cardinality(Inserting(d, t)') \in Nat
      /\ Cardinality(Inserting(d, t)') <= Cardinality(Inserting(d, t))
  BY <1>7, <1>8, FS_CardinalityType
<1>10. CASE d = dd /\ t = tt
  <2>1. alerts'[d][t] = [alerts[d][t] EXCEPT ![0] = @ + 1]
    BY <1>4, <1>6, <1>10
  <2>2. /\ IsFiniteSet(RowsWithin(alerts'[d][t], Window[t]))
        /\ Cardinality(RowsWithin(alerts'[d][t], Window[t]))
              = Cardinality(RowsWithin(alerts[d][t], Window[t])) + 1
    BY <1>5, <1>6, <2>1, RowInserted
  <2>3. Cardinality(Inserting(d, t) \ {w}) = Cardinality(Inserting(d, t)) - 1
    BY <1>4, <1>7, <1>10, FS_RemoveElement
  <2>4. Cardinality(Inserting(d, t)') <= Cardinality(Inserting(d, t) \ {w})
    BY <1>7, <1>8, FS_RemoveElement, FS_Subset
  <2> QED
    BY <1>5, <1>7, <1>9, <2>2, <2>3, <2>4, BurstConstants
<1>11. CASE ~(d = dd /\ t = tt)
  <2>1. alerts'[d][t] = alerts[d][t]
    BY <1>4, <1>6, <1>11
  <2> QED
    BY <1>5, <1>7, <1>9, <2>1, BurstConstants
<1> QED
  BY <1>10, <1>11

\* The other steps of a slot make no claim.
LEMMA SlotBurst ==
    ASSUME TypeInv, BurstInv, NEW w \in Slots,
           TakeAlertJob(w) \/ MarkOffline(w) \/ AlertJobFails(w)
    PROVE  BurstInv'
<1>0. /\ step \in [Slots -> Steps] /\ job \in [Slots -> AlertJobs \cup {None}]
  BY DEF TypeInv, TypeOK, SlotsTyped
<1>1. alerts' = alerts
  BY DEF TakeAlertJob, MarkOffline, AlertJobFails
<1>2. CASE step' = step /\ job' = job
  BY <1>1, <1>2, FewerClaims DEF Inserting, TypeOf
<1>3. CASE ~(step' = step /\ job' = job)
  <2>1. /\ \A v \in Slots : v # w => step'[v] = step[v] /\ job'[v] = job[v]
        /\ step'[w] # "insert"
    BY <1>0, <1>3 DEF TakeAlertJob, MarkOffline, AlertJobFails, Finish, slotVars
  <2> QED
    BY <1>1, <2>1, NoNewClaim, FewerClaims
<1> QED
  BY <1>2, <1>3

\* Time passes.
LEMMA TickBurst == ASSUME TypeInv, BurstInv, Tick PROVE BurstInv'
<1> SUFFICES ASSUME NEW d \in Devices, NEW t \in AlertTypes
             PROVE  /\ IsFiniteSet(RowsWithin(alerts'[d][t], Window[t]))
                    /\ Cardinality(RowsWithin(alerts'[d][t], Window[t]))
                          + Cardinality(Inserting(d, t)) <= Cardinality(Slots)
  <2>1. \A d \in Devices, t \in AlertTypes : Inserting(d, t)' = Inserting(d, t)
    BY DEF Tick, slotVars, Inserting, TypeOf
  <2> QED
    BY <2>1 DEF BurstInv, RecentAlerts
<1>1. /\ IsFiniteSet(RowsWithin(alerts[d][t], Window[t]))
      /\ Cardinality(RowsWithin(alerts[d][t], Window[t]))
            + Cardinality(Inserting(d, t)) <= Cardinality(Slots)
      /\ Window[t] \in Nat /\ Window[t] > 0
      /\ alerts[d][t] \in [0..Window[t] -> Nat]
  BY BurstConstants DEF BurstInv, RecentAlerts, TypeInv, TypeOK, AlertsTyped
<1>2. alerts'[d][t] = Aged(alerts[d][t], Window[t])
  BY DEF Tick, Aged
<1>3. /\ IsFiniteSet(RowsWithin(alerts'[d][t], Window[t]))
      /\ Cardinality(RowsWithin(alerts'[d][t], Window[t]))
            <= Cardinality(RowsWithin(alerts[d][t], Window[t]))
  BY <1>1, <1>2, RowsAged
<1> QED
  BY <1>1, <1>3, InsertingType, BurstConstants, FS_CardinalityType

\* No step of the worker breaks the bound.
LEMMA StepKeepsBurst == ASSUME TypeInv, BurstInv, [Next]_vars PROVE BurstInv'
<1>1. CASE alerts' = alerts /\ UNCHANGED slotVars
  BY <1>1, FewerClaims DEF slotVars, Inserting, TypeOf
<1>2. CASE Restart
  <2>1. alerts' = alerts /\ \A d \in Devices, t \in AlertTypes : Inserting(d, t)' = {}
    BY <1>2 DEF Restart, Inserting
  <2> QED
    BY <2>1, FewerClaims
<1>3. CASE Tick
  BY <1>3, TickBurst
<1>4. CASE \E w \in Slots : SlotStep(w) \/ AlertJobFails(w)
  BY <1>4, SelectBurst, InsertBurst, SlotBurst DEF SlotStep
<1>5. CASE UNCHANGED vars
  BY <1>1, <1>5 DEF vars
<1>6. CASE \/ \E r \in Records : TelemetryStep(r) \/ (Enqueue(r) /\ UNCHANGED otherVars)
           \/ \E r \in Records : JobFails(r) /\ UNCHANGED otherVars
           \/ \E d \in Devices : ApiCreate(d) /\ UNCHANGED otherVars
  BY <1>1, <1>6 DEF TelemetryStep, otherVars
<1>7. CASE CheckOffline \/ SweepStep \/ CheckFails
  BY <1>1, <1>7 DEF CheckOffline, SweepStep, CheckMarks, CheckEnqueues, CheckFails
<1> QED
  BY <1>2, <1>3, <1>4, <1>5, <1>6, <1>7 DEF Next, AlertStep, OfflineCheckStep, Fails

\* At first there is neither an alert nor a claim.
LEMMA InitBurst == Init => BurstInv
<1> SUFFICES ASSUME Init, NEW d \in Devices, NEW t \in AlertTypes
             PROVE  /\ IsFiniteSet(RowsWithin(alerts[d][t], Window[t]))
                    /\ RecentAlerts(d, t) + Cardinality(Inserting(d, t)) <= Cardinality(Slots)
  BY DEF BurstInv
<1>1. RowsWithin(alerts[d][t], Window[t]) = {}
  <2>1. \A a \in 0..(Window[t] - 1) : alerts[d][t][a] = 0
    BY BurstConstants DEF Init, AlertInit
  <2> QED
    BY <2>1, NoRows, BurstConstants
<1>2. Inserting(d, t) = {}
  BY DEF Init, AlertInit, Inserting
<1> QED
  BY <1>1, <1>2, FS_EmptySet, BurstConstants DEF RecentAlerts

\* However many checks of one device run at the same time, and whatever fails
\* or restarts between their select and their insert, no more alerts of a type
\* are ever recent than the alert worker has slots (alert.processor.ts:69-96).
THEOREM BurstBounded == Spec => []AlertBurstBounded
<1>1. TypeInv /\ BurstInv /\ [Next]_vars => TypeInv' /\ BurstInv'
  BY StepKeepsTypes, StepKeepsBurst
<1>2. BurstInv => AlertBurstBounded
  <2> SUFFICES ASSUME BurstInv, NEW d \in Devices, NEW t \in AlertTypes
               PROVE  RecentAlerts(d, t) <= Cardinality(Slots)
    BY DEF AlertBurstBounded
  <2>1. /\ IsFiniteSet(RowsWithin(alerts[d][t], Window[t]))
        /\ RecentAlerts(d, t) + Cardinality(Inserting(d, t)) <= Cardinality(Slots)
    BY DEF BurstInv
  <2> QED
    BY <2>1, InsertingType, BurstConstants, FS_CardinalityType DEF RecentAlerts
<1> QED
  BY InitTyped, InitBurst, <1>1, <1>2, PTL DEF Spec
=============================================================================
