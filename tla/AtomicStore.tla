------------------------------ MODULE AtomicStore ------------------------------
(***************************************************************************)
(* What the API's services promise their clients, whatever requests of      *)
(* others run at the same time: each request takes effect at one moment, or *)
(* is refused for a reason that holds at that moment.                       *)
(***************************************************************************)
EXTENDS Tables

VARIABLES
    table,      \* the table the requests are about
    rows,       \* its rows: [Ids -> Columns \cup {None}]
    asked,      \* what each request asks, None before it is sent
    verdict     \* None, "done", "absent", "taken", "denied" or "failed"

vars == <<table, rows, asked, verdict>>

Init ==
    /\ table \in TableNames
    /\ rows \in [Ids -> Columns \cup {None}]
    /\ \A i \in Ids: rows[i] # None => Free(table, rows, i, rows[i])
    /\ asked = [r \in Requests |-> None]
    /\ verdict = [r \in Requests |-> None]

Ask(r) ==
    /\ asked[r] = None
    /\ \E q \in Questions(table): asked' = [asked EXCEPT ![r] = q]
    /\ UNCHANGED <<table, rows, verdict>>

Pending(r) == asked[r] # None /\ verdict[r] = None

\* Request r is over with verdict v and leaves the row of i as given.
Decide(r, v) ==
    /\ verdict' = [verdict EXCEPT ![r] = v]
    /\ UNCHANGED <<table, asked>>

Create(r) ==
    /\ Pending(r) /\ asked[r].op = "create"
    /\ LET c == [key |-> asked[r].key, mark |-> asked[r].mark, on |-> table = "users"] IN
       \/ Free(table, rows, r, c) /\ rows' = [rows EXCEPT ![r] = c] /\ Decide(r, "done")
       \/ ~Free(table, rows, r, c) /\ UNCHANGED rows /\ Decide(r, "taken")

\* The row a change is about.
About(q, i) == IF q.op = "login" THEN rows[i] # None /\ rows[i].key = q.key ELSE i = q.id

Change(r) ==
    /\ Pending(r) /\ asked[r].op \in {"update", "acknowledge", "login"}
    /\ \/ /\ \A i \in Ids: About(asked[r], i) => rows[i] = None
          /\ UNCHANGED rows /\ Decide(r, "absent")
       \/ \E i \in Ids:
            /\ About(asked[r], i) /\ rows[i] # None
            /\ LET c == Changed(rows[i], asked[r]) IN
               \/ Free(table, rows, i, c) /\ rows' = [rows EXCEPT ![i] = c] /\ Decide(r, "done")
               \/ ~Free(table, rows, i, c) /\ UNCHANGED rows /\ Decide(r, "taken")

\* Deleting is idempotent: it succeeds when the row is gone afterwards, and may
\* complain when it was gone before.
Remove(r) ==
    /\ Pending(r) /\ asked[r].op = "delete"
    /\ \/ rows' = [rows EXCEPT ![asked[r].id] = None] /\ Decide(r, "done")
       \/ rows[asked[r].id] = None /\ UNCHANGED rows /\ Decide(r, "absent")

\* Only a login is turned away: for its password, or because no active account has
\* this e-mail.
Deny(r) ==
    /\ Pending(r) /\ asked[r].op = "login"
    /\ ~asked[r].valid \/ \A i \in Ids: About(asked[r], i) => ~rows[i].on
    /\ UNCHANGED rows /\ Decide(r, "denied")

\* The database may fail; the request has then changed nothing.
Fail(r) == Pending(r) /\ UNCHANGED rows /\ Decide(r, "failed")

\* Other programs write rows too.
Others ==
    /\ \E i \in Known:
         \/ \E c \in Columns: Free(table, rows, i, c) /\ rows' = [rows EXCEPT ![i] = c]
         \/ rows' = [rows EXCEPT ![i] = None]
    /\ UNCHANGED <<table, asked, verdict>>

Next ==
    \/ \E r \in Requests: Ask(r) \/ Create(r) \/ Change(r) \/ Remove(r) \/ Deny(r) \/ Fail(r)
    \/ Others

Spec == Init /\ [][Next]_vars
=============================================================================
