---------------------------------- MODULE MCApi ----------------------------------
(***************************************************************************)
(* Api on a small instance.                                                 *)
(***************************************************************************)
EXTENDS Api, TLC

\* 5, 15 and 60 seconds in units of five seconds, the longer ones shortened.
ShortTtl == [t \in TableNames |-> CASE t = "devices" -> 1 [] t = "etaPredictions" -> 2 [] OTHER -> 3]

Symmetry == Permutations(Requests) \cup Permutations(Readers)
=============================================================================
