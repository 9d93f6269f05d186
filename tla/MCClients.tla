--------------------------------- MODULE MCClients ---------------------------------
(***************************************************************************)
(* Clients on a small instance: all pages; two sockets of one user.         *)
(***************************************************************************)
EXTENDS Clients

AllPages == DOMAIN Page

OneUser == [s \in Sockets |-> "user"]
=============================================================================
