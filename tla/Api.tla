----------------------------------- MODULE Api -----------------------------------
(***************************************************************************)
(* The API server: the services and the feed of one table, on a database    *)
(* that the worker writes at the same time, while time passes.              *)
(***************************************************************************)
EXTENDS Feeds, FiniteSets

CONSTANTS
    MaxTime,    \* bound: time
    MaxCalls    \* bound: requests of both kinds and errors

vars == <<serviceVars, feedVars>>

Init == ServicesInit /\ FeedsInit

Calls == Cardinality({r \in Requests: pc[r] # "idle"}) + Cardinality({g \in Readers: reader[g].at # "idle"})

Service == (\E r \in Requests: ServiceStep(r)) /\ UNCHANGED feedVars

Read ==
    \/ (\E g \in Readers: FeedStep(g)) /\ UNCHANGED serviceVars
    \/ /\ \E g \in Readers: FeedFails(g)
       /\ UNCHANGED <<table, rows, now, request, pc, found, result>>

\* Time matters to the feeds only.
Tick ==
    /\ HasFeed /\ now < MaxTime /\ Timely
    /\ now' = now + 1
    /\ UNCHANGED <<table, rows, request, pc, found, result, errors, feedVars>>

WorkerWrites(i, row) ==
    /\ rows' = [rows EXCEPT ![i] = row]
    /\ UNCHANGED <<table, now, request, pc, found, result, errors, cache, reader>>

\* telemetry.processor: a device is created for a new IMEI, or marked online and
\* seen now; then the record is inserted, whatever became of the device.
Provision(i) ==
    /\ table = "devices" /\ rows[i] = None
    /\ \E k \in Keys:
         LET row == [key |-> k, mark |-> None, on |-> TRUE, time |-> now, at |-> 0] IN
         Free(table, rows, i, row) /\ WorkerWrites(i, row)
    /\ UNCHANGED records

MarkOnline(i) ==
    /\ table = "devices" /\ rows[i] # None
    /\ WorkerWrites(i, [rows[i] EXCEPT !.on = TRUE, !.time = now])
    /\ UNCHANGED records

StoreRecord(i) ==
    /\ table = "devices" /\ i \notin records
    /\ records' = records \cup {i}
    /\ UNCHANGED <<serviceVars, cache, reader>>

\* cleanup.processor, alert.processor: the device went silent.
GoesOffline(i) ==
    /\ table = "devices" /\ rows[i] # None /\ rows[i].on
    /\ WorkerWrites(i, [rows[i] EXCEPT !.on = FALSE])
    /\ UNCHANGED records

\* alert.processor: a new alert.
Alert(i) ==
    /\ table = "alerts" /\ rows[i] = None
    /\ \E k \in Keys: WorkerWrites(i, [key |-> k, mark |-> None, on |-> FALSE, time |-> now, at |-> 0])
    /\ UNCHANGED records

\* eta-predictor: delete and insert are two statements.
DropPrediction(i) ==
    /\ table = "etaPredictions" /\ rows[i] # None
    /\ WorkerWrites(i, None)
    /\ UNCHANGED records

Predict(i) ==
    /\ table = "etaPredictions" /\ rows[i] = None
    /\ \E k \in Keys, t \in {now, now + 1}:
         WorkerWrites(i, [key |-> k, mark |-> None, on |-> FALSE, time |-> t, at |-> 0])
    /\ UNCHANGED records

Work == \E i \in Known:
    Provision(i) \/ MarkOnline(i) \/ StoreRecord(i) \/ GoesOffline(i) \/ Alert(i) \/ DropPrediction(i) \/ Predict(i)

Next == (Service \/ Read \/ Tick \/ Work) /\ Calls' + errors' <= MaxCalls

Spec == Init /\ [][Next]_vars
-----------------------------------------------------------------------------
\* Every answer of the feed is recent: however requests miss and store past each
\* other, what it shows was so at most a time to live and a request ago.  A vehicle
\* in it was seen within the five minutes before that, although a crash leaves
\* devices online forever; an arrival in it was not past; an alert in it was not
\* acknowledged.
FeedsAreRecent ==
    \A g \in Readers: reader[g].at = "sent" =>
        LET slack == Ttl[table] + RequestTime IN
        \A e \in reader[g].body:
            CASE table = "devices" -> e.time + ActiveFor + slack > reader[g].served
              [] table = "etaPredictions" -> e.time + slack >= reader[g].served
              [] OTHER -> rows[e.id].mark # None => rows[e.id].at + slack >= reader[g].served

\* What became of a request, in the words of AtomicStore: an update that met a
\* deleted row and answered 200 with nothing found it absent, and a violated
\* constraint answered 500 for what is taken.
Verdict(v) ==
    CASE v \in {"created", "ok"} -> "done"
      [] v \in {"empty", "absent"} -> "absent"
      [] v \in {"exists", "conflict"} -> "taken"
      [] v \in {"unauthorized", "inactive"} -> "denied"
      [] OTHER -> v

Store == INSTANCE AtomicStore WITH
    rows <- [i \in Ids |-> IF rows[i] = None THEN None
                           ELSE [key |-> rows[i].key, mark |-> rows[i].mark, on |-> rows[i].on]],
    asked <- request,
    verdict <- [r \in Requests |-> Verdict(result[r])]

\* Although every service reads, waits and writes without a transaction, each
\* request takes effect at one moment or is refused for a reason that held at some
\* moment while it ran.
ImplementsStore == Store!Spec
=============================================================================
