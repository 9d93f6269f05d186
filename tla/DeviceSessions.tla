---------------------------- MODULE DeviceSessions ----------------------------
(***************************************************************************)
(* What the registry of the TCP server promises to whoever asks for the    *)
(* connection of a device: a session is opened by a connection that never  *)
(* had one, replaces the session the device had, and once it is over it    *)
(* does not come back.                                                     *)
(***************************************************************************)
CONSTANTS Devices, Sockets, None

VARIABLES
    session,   \* session[d]: the connection that serves d, or None
    used       \* the connections that have opened a session

Init == /\ session = [d \in Devices |-> None]
        /\ used = {}

Login(d, s) ==
    /\ s \notin used
    /\ used' = used \cup {s}
    /\ session' = [session EXCEPT ![d] = s]

\* A sweep or the end of the process closes several sessions at once.
Close(D) ==
    /\ session' = [d \in Devices |-> IF d \in D THEN None ELSE session[d]]
    /\ UNCHANGED used

Next == \/ \E d \in Devices, s \in Sockets : Login(d, s)
        \/ \E D \in SUBSET Devices : Close(D)

Spec == Init /\ [][Next]_<<session, used>>
=============================================================================
