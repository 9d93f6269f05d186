---------------------------- MODULE MCRoutePipeline ----------------------------
(***************************************************************************)
(* RoutePipeline on small instances.                                       *)
(***************************************************************************)
EXTENDS RoutePipeline, TLC

CONSTANTS d1, d2, r1, r2, r3

\* Two records of one device and one of another.
Senders == r1 :> d1 @@ r2 :> d1 @@ r3 :> d2

\* Records of one device are interchangeable.
SenderSymmetry == Permutations({r1, r2})
=============================================================================
