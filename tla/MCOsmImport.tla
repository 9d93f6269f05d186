------------------------------ MODULE MCOsmImport ------------------------------
(***************************************************************************)
(* OsmImport on small instances.                                           *)
(***************************************************************************)
EXTENDS OsmImport, TLC

CONSTANTS r1, r2, s1, s2, s3, c1, c2, g1, g2, g3, g4

\* A route with a stop listed twice, and one that has both directions.
First == [stops |-> s1 :> c1 @@ s2 :> c2 @@ s3 :> None,
          routes |-> r1 :> [tags |-> "old", members |-> <<s1, s2, s1>>, out |-> g1, in |-> None]
                  @@ r2 :> [tags |-> "old", members |-> <<s3>>, out |-> g2, in |-> g3]]

\* The first route runs another way and in another order, the second has lost its
\* outbound ways, and a stop is gone from the data.
Changed == [stops |-> s2 :> c2 @@ s3 :> c1,
            routes |-> r1 :> [tags |-> "new", members |-> <<s3, s2>>, out |-> g4, in |-> None]
                    @@ r2 :> [tags |-> "old", members |-> <<s3>>, out |-> None, in |-> g3]]

\* Two stops have exchanged their codes; the first route is gone and the
\* second without any ways.
Swapped == [stops |-> s1 :> c2 @@ s2 :> c1 @@ s3 :> None,
            routes |-> r2 :> [tags |-> "new", members |-> <<s2, s3>>, out |-> None, in |-> None]]

MCDatasets == {First, Changed, Swapped}
=============================================================================
