---------------------------------- MODULE Clients ----------------------------------
(***************************************************************************)
(* What the clients of the platform see of the data.  The pages of the web  *)
(* applications fetch (Views); others are told over a WebSocket (Hub).      *)
(* No page of the repository uses the WebSocket; the two share no state:    *)
(* a behaviour has clients of one sort.                                     *)
(***************************************************************************)
EXTENDS Views, Hub

VARIABLE sort       \* "page" or "socket"

vars == <<sort, viewVars, hubVars>>

Init ==
    /\ sort \in {"page", "socket"}
    /\ ViewsInit /\ HubInit
    /\ sort = "socket" => page = CHOOSE p \in Pages: TRUE

Paging(A) == sort = "page" /\ A /\ UNCHANGED <<sort, hubVars>>

Listening(A) == sort = "socket" /\ A /\ UNCHANGED <<sort, viewVars>>

Next == Paging(ViewsNext) \/ Listening(HubNext)

\* Every request of a page ends, and its timer fires again and again.
Fairness ==
    /\ WF_vars(Paging(Serve(1))) /\ WF_vars(Paging(Deliver(1)))
    /\ WF_vars(Paging(Timer))

Spec == Init /\ [][Next]_vars /\ Fairness
-----------------------------------------------------------------------------
\* A view whose request a timer repeats ends up with what the user selected last,
\* read from the database as it is, although answers come late or out of order,
\* fail or meet a new selection; the search bar, which nothing repeats, ends up with
\* results of its text or with a failed request.  What a page requests only once is
\* not claimed: the header of the arrival board may keep the stop before
\* (ArrivalBoard.tsx:29), the alerts of the dispatch center their age
\* (DispatchCenter.tsx:70).
ViewsSettle == (sort = "page") => <>[]Settled
=============================================================================
