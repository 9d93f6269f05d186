------------------------------ MODULE MCStatistics ------------------------------
(***************************************************************************)
(* Statistics on a small town: a street from west to east that the routes  *)
(* A and B share at its beginning, and on which A comes back.              *)
(***************************************************************************)
EXTENDS Statistics, TLC

CONSTANTS d1, r1, r2, r3, r4

Town ==
    << [route |-> "A", direction |-> "OUTBOUND", points |-> << <<0, 0>>, <<1000, 0>>, <<1000, 600>> >>],
       [route |-> "B", direction |-> "OUTBOUND", points |-> << <<0, 0>>, <<600, 0>>, <<600, -500>> >>],
       [route |-> "A", direction |-> "INBOUND",  points |-> << <<1000, 600>>, <<1000, 0>>, <<0, 0>> >>] >>

Stop(route, direction, sequence, from) ==
    [route |-> route, direction |-> direction, sequence |-> sequence, from |-> from]

TownStops ==
    << Stop("A", "OUTBOUND", 1, 0), Stop("A", "OUTBOUND", 2, 400), Stop("A", "OUTBOUND", 3, 500),
       Stop("B", "OUTBOUND", 1, 0), Stop("B", "OUTBOUND", 2, 400), Stop("B", "OUTBOUND", 3, 900),
       Stop("A", "INBOUND", 1, 500) >>

TownPlaces == {<<50, 0>>, <<450, 0>>, <<450, 10>>, <<300, 250>>}

Senders == [r \in {r1, r2, r3, r4} |-> d1]

Bus(at, heading, ts, speed, can) ==
    [at |-> at, heading |-> heading, ts |-> ts, speed |-> speed, moving |-> speed > 0,
     ignition |-> TRUE, valid |-> TRUE, can |-> can]

\* Monday after one o'clock: the bus goes east, stands at the second stop, and
\* is then far from every route.
Reports ==
    r1 :> Bus(<<50, 0>>, 90, 90000, 30000, FALSE) @@
    r2 :> Bus(<<450, 0>>, 90, 90060, 25000, TRUE) @@
    r3 :> Bus(<<450, 10>>, 80, 90100, 0, FALSE) @@
    r4 :> Bus(<<300, 250>>, 180, 91000, 20000, FALSE)

Dispatch == d1 :> {"B"}
=============================================================================
