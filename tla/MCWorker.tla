-------------------------------- MODULE MCWorker --------------------------------
(***************************************************************************)
(* Worker on small instances.                                               *)
(***************************************************************************)
EXTENDS Worker, TLC

CONSTANTS d1, r1, r2

OneDevice == [r \in Records |-> d1]

\* Slots are interchangeable, and so are geofences that contain the same records.
SlotSymmetry == Permutations(Slots) \cup Permutations(Fences)

NoFences == [r \in Records |-> {}]
\* The first record lies in both geofences, the others in none.
Overlapping == [r \in Records |-> IF r = r1 THEN Fences ELSE {}]

\* Ages of alerts: recent or not.
ShortWindows == [t \in AlertTypes |-> 1]
=============================================================================
