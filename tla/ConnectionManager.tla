--------------------------- MODULE ConnectionManager ---------------------------
(***************************************************************************)
(* The connection registry of the TCP server                               *)
(* (apps/tcp-server/src/connection-manager.ts).                            *)
(*                                                                         *)
(* A Connection object is created once for every accepted net.Socket and   *)
(* is reached by two paths: by reference from the handlers that captured   *)
(* it, and by name through the map `connections`, whose key is the         *)
(* remote "address:port" of the socket.  The two paths part company as     *)
(* soon as the map entry is removed or overwritten, so the model keeps     *)
(* them apart: the fields of the object are functions of the socket, the   *)
(* maps are functions of the key.                                          *)
(***************************************************************************)
EXTENDS Integers

CONSTANTS
    Sockets,      \* the net.Socket objects that may be accepted
    Addrs,        \* remote "address:port" strings: the socket identifiers
    Imeis,        \* well-formed IMEIs
    None          \* undefined, null

ASSUME NoneAssumption == None \notin Sockets \cup Addrs \cup Imeis

VARIABLES
    addr,            \* addr[s]: key of socket s, None while not accepted
    sock,            \* sock[s]: life cycle of the socket itself
    connections,     \* the map socketId -> Connection (named by its socket)
    imeiToSocketId,  \* the map IMEI -> socketId
    imei,            \* field imei of the Connection of s
    delivered,       \* stream fragments appended to the buffer of s so far
    consumed,        \* ... of which this many have left the buffer again
    stale            \* idle time of the Connection of s exceeds the limit

registryVars == <<connections, imeiToSocketId>>

\* "new": not accepted; "open"; "destroyed": destroy() was called or the peer
\* closed, the 'close' event has not been emitted; "closed": it has;
\* "killed": the process ended under it, no event will be emitted.
SocketStates == {"new", "open", "destroyed", "closed", "killed"}

\* The field state of a Connection: setImei assigns it together with imei.
WaitingImei(s) == imei[s] = None

Registered(s) == /\ addr[s] # None
                 /\ connections[addr[s]] = s

-----------------------------------------------------------------------------
ManagerInit ==
    /\ addr = [s \in Sockets |-> None]
    /\ sock = [s \in Sockets |-> "new"]
    /\ connections = [a \in Addrs |-> None]
    /\ imeiToSocketId = [i \in Imeis |-> None]
    /\ imei = [s \in Sockets |-> None]
    /\ delivered = [s \in Sockets |-> 0]
    /\ consumed = [s \in Sockets |-> 0]
    /\ stale = [s \in Sockets |-> FALSE]

\* Mutant: the map holds the key instead of the connection.
CreateConnectionKeyed(s, a) ==
    /\ addr' = [addr EXCEPT ![s] = a]
    /\ connections' = [connections EXCEPT ![a] = a]
    /\ UNCHANGED <<imeiToSocketId, imei>>

\* Map.set on the key of the socket: an entry that is still there under the
\* same key is overwritten, imeiToSocketId is left alone.
CreateConnection(s, a) ==
    /\ addr' = [addr EXCEPT ![s] = a]
    /\ connections' = [connections EXCEPT ![a] = s]
    /\ UNCHANGED <<imeiToSocketId, imei>>

\* The two maps without the entry under key a.  The IMEI entry is deleted
\* whatever key it points to.
ConnectionsWithout(a) == [connections EXCEPT ![a] = None]

ImeisWithout(a) ==
    [i \in Imeis |-> IF connections[a] # None /\ imei[connections[a]] = i
                     THEN None ELSE imeiToSocketId[i]]

RemoveConnection(a) ==
    /\ connections' = ConnectionsWithout(a)
    /\ imeiToSocketId' = ImeisWithout(a)

\* The key under which another connection of this IMEI is registered.
TakenOver(s, i) ==
    {a \in Addrs : /\ a = imeiToSocketId[i]
                   /\ a # addr[s]
                   /\ connections[a] # None}

GetConnectionByImei(i) ==
    IF imeiToSocketId[i] = None THEN None ELSE connections[imeiToSocketId[i]]

\* Mutant: the previous connection is left alone.
SetImeiOnly(s, i) ==
    /\ imei' = [imei EXCEPT ![s] = i]
    /\ imeiToSocketId' = [imeiToSocketId EXCEPT ![i] = addr[s]]
    /\ UNCHANGED <<connections, sock>>

\* Mutant: the previous connection is removed, its socket is not destroyed.
SetImeiKeepingSocket(s, i) ==
    /\ imei' = [imei EXCEPT ![s] = i]
    /\ imeiToSocketId' = [imeiToSocketId EXCEPT ![i] = addr[s]]
    /\ connections' = [a \in Addrs |-> IF a \in TakenOver(s, i) THEN None
                                       ELSE connections[a]]
    /\ UNCHANGED sock

\* Mutant: the IMEI is recorded before the previous connection is removed, and
\* goes with it.
SetImeiFirst(s, i) ==
    /\ imei' = [imei EXCEPT ![s] = i]
    /\ imeiToSocketId' = [imeiToSocketId EXCEPT ![i] =
                             IF TakenOver(s, i) = {} THEN addr[s] ELSE None]
    /\ connections' = [a \in Addrs |-> IF a \in TakenOver(s, i) THEN None
                                       ELSE connections[a]]
    /\ sock' = [q \in Sockets |-> IF \E a \in TakenOver(s, i) : connections[a] = q
                                  THEN "destroyed" ELSE sock[q]]

\* setImei: the previous connection of the IMEI is destroyed and removed,
\* then this one is recorded.
SetImei(s, i) ==
    /\ imei' = [imei EXCEPT ![s] = i]
    /\ \/ /\ TakenOver(s, i) = {}
          /\ imeiToSocketId' = [imeiToSocketId EXCEPT ![i] = addr[s]]
          /\ UNCHANGED <<connections, sock>>
       \/ \E a \in TakenOver(s, i) :
             /\ connections' = ConnectionsWithout(a)
             /\ imeiToSocketId' = [ImeisWithout(a) EXCEPT ![i] = addr[s]]
             /\ sock' = [sock EXCEPT ![connections[a]] =
                            IF @ = "open" THEN "destroyed" ELSE @]

\* appendToBuffer and updateActivity, for a socket that is registered.
AppendToBuffer(s, n) ==
    /\ delivered' = [delivered EXCEPT ![s] = @ + n]
    /\ stale' = [stale EXCEPT ![s] = FALSE]

\* consumeBuffer looks the connection up by key: it shortens the buffer of
\* whatever connection is there now, and none when the entry is gone.
ConsumeBuffer(a, n) ==
    IF connections[a] = None
    THEN consumed
    ELSE [consumed EXCEPT ![connections[a]] =
             IF @ + n <= delivered[connections[a]]
             THEN @ + n ELSE delivered[connections[a]]]

\* cleanup: every registered connection that is idle too long is destroyed
\* and removed in one synchronous sweep.
StaleConnections == {s \in Sockets : Registered(s) /\ stale[s]}

SweepStale ==
    /\ StaleConnections # {}
    /\ sock' = [s \in Sockets |-> IF s \in StaleConnections /\ sock[s] = "open"
                                  THEN "destroyed" ELSE sock[s]]
    /\ connections' = [a \in Addrs |-> IF connections[a] \in StaleConnections
                                       THEN None ELSE connections[a]]
    /\ imeiToSocketId' =
          [i \in Imeis |-> IF \E s \in StaleConnections : imei[s] = i
                           THEN None ELSE imeiToSocketId[i]]
=============================================================================
