------------------------------ MODULE MCTcpServer ------------------------------
(***************************************************************************)
(* TcpServer on small instances; the values are in the .cfg files.          *)
(***************************************************************************)
EXTENDS TcpServer, TLC

\* Sockets and keys are interchangeable, and so are IMEIs that are all on the
\* whitelist.
SocketSymmetry == Permutations(Sockets) \cup Permutations(Addrs)
=============================================================================
