------------------------------- MODULE TcpServer -------------------------------
(***************************************************************************)
(* The event handlers of the TCP server (apps/tcp-server/src/server.ts)    *)
(* over the connection registry, with Redis and the telemetry queue as     *)
(* they are used from there.                                               *)
(*                                                                         *)
(* Handlers are async functions on one event loop: each action below is    *)
(* the code of a handler from one await to the next.  handleData is not    *)
(* serialised, so several invocations for one socket may be suspended at   *)
(* the same time; each of them is an element of `inflight`.                *)
(*                                                                         *)
(* The bytes of a connection are a stream of fragments: fragment 1 is the  *)
(* IMEI frame, and packet p is the two fragments 2p and 2p+1, so that a    *)
(* data event may end in the middle of a packet.                           *)
(***************************************************************************)
EXTENDS ConnectionManager, Sequences, SequencesExt, FiniteSets

CONSTANTS
    Invalid,        \* an IMEI frame whose content is not 15 digits
    Whitelist,      \* config.imeiWhitelist (all of Imeis when it is null)
    MaxPackets,     \* bound: packets a device sends on one connection
    Records,        \* AVL records in every packet
    Window,         \* packets a device sends ahead of their acknowledgments
    Garbled,        \* packets whose preamble is not zero
    Unparsable,     \* packets with a foreign codec or a malformed record
    Unstorable,     \* packets with an 8-byte IO value: no JSON, add() rejects
    PortReuse,      \* whether a remote address:port may come back
    QueueMayFail,   \* whether queue.add may reject for other reasons
    MaxEnds         \* bound: ends of the process, by stop() or a crash

Packets == 1..MaxPackets
Statuses == {"online", "offline"}

ASSUME ServerAssumption ==
    /\ Invalid \notin Imeis \cup {None} /\ None \notin Statuses
    /\ Whitelist \subseteq Imeis
    /\ MaxPackets \in Nat /\ MaxEnds \in Nat
    /\ Records \in Nat \ {0} /\ Window \in Nat \ {0}
    /\ Garbled \cup Unparsable \cup Unstorable \subseteq Packets
    /\ PortReuse \in BOOLEAN /\ QueueMayFail \in BOOLEAN

VARIABLES
    hello,       \* hello[s]: the IMEI frame the device of s sends
    status,      \* Redis key device:{imei}:status
    published,   \* last message on the channel device:status
    sets,        \* SET commands issued on the connection `redis`, in order
    pubs,        \* PUBLISH commands issued on `redisPub`, in order
    inflight,    \* processTelemetry calls awaiting their Promise.all, in order
    latest,      \* Redis key device:{imei}:latest, as the record's time stamp
    jobs,        \* jobs[s]: records <<packet, index>> of s that were queued
    lost,        \* history: lost[s], those whose add() rejected, which is logged
    started,     \* started[s][p]: times packet p of s was taken up (up to 2)
    acked,       \* acked[s]: packets acknowledged to the device of s
    hung,        \* the event loop spins in handleDataPhase
    stopping,    \* stop() was called
    ends,        \* times the process ended or was told to
    unannounced  \* history: devices whose last connection was swept away by
                 \* cleanup() or went down with the process

connVars == <<addr, sock, imei, delivered, consumed, stale>>
redisVars == <<status, published, sets, pubs>>
dataVars == <<inflight, latest, jobs, lost, started, acked, hung>>
lifeVars == <<stopping, ends, unannounced>>
vars == <<registryVars, connVars, hello, redisVars, dataVars, lifeVars>>

StatusOps == [sock : Sockets, imei : Imeis, status : Statuses]
RecordOps == [sock : Sockets, pkt : Packets, rec : 1..Records]

Init ==
    /\ ManagerInit
    /\ hello = [s \in Sockets |-> None]
    /\ status = [i \in Imeis |-> None]
    /\ published = [i \in Imeis |-> None]
    /\ sets = <<>> /\ pubs = <<>> /\ inflight = <<>>
    /\ latest = [i \in Imeis |-> 0]
    /\ jobs = [s \in Sockets |-> {}] /\ lost = [s \in Sockets |-> {}]
    /\ started = [s \in Sockets |-> [p \in Packets |-> 0]]
    /\ acked = [s \in Sockets |-> {}]
    /\ hung = FALSE
    /\ stopping = FALSE /\ ends = 0 /\ unannounced = {}

Online(i) == \E s \in Sockets : Registered(s) /\ imei[s] = i

-----------------------------------------------------------------------------
(* Connections come and go                                                 *)

\* A 4-tuple belongs to one open socket at a time; it may come back once the
\* socket that held it was destroyed.
Free(a) == \A t \in Sockets : addr[t] = a => PortReuse /\ sock[t] # "open"

\* handleConnection
Accept(s, a, h) ==
    /\ ~hung /\ ~stopping
    /\ sock[s] = "new"
    /\ Free(a)
    /\ sock' = [sock EXCEPT ![s] = "open"]
    /\ hello' = [hello EXCEPT ![s] = h]
    /\ CreateConnection(s, a)
    /\ UNCHANGED <<delivered, consumed, stale, redisVars, dataVars, lifeVars>>

\* The peer closes, resets, or the network breaks: the socket is torn down
\* by Node, the 'close' event is still to come.
PeerClose(s) ==
    /\ sock[s] = "open"
    /\ sock' = [sock EXCEPT ![s] = "destroyed"]
    /\ UNCHANGED <<registryVars, addr, imei, delivered, consumed, stale, hello,
                   redisVars, dataVars, lifeVars>>

\* Five minutes without data from the peer.
GoIdle(s) ==
    /\ Registered(s) /\ ~stale[s]
    /\ stale' = [stale EXCEPT ![s] = TRUE]
    /\ UNCHANGED <<registryVars, addr, sock, imei, delivered, consumed, hello,
                   redisVars, dataVars, lifeVars>>

\* The 'timeout' event.  The timer of the socket restarts on writes as well,
\* so it never fires before the connection is idle by lastActivity.
SocketTimeout(s) ==
    /\ ~hung
    /\ sock[s] = "open" /\ stale[s]
    /\ sock' = [sock EXCEPT ![s] = "destroyed"]
    /\ UNCHANGED <<registryVars, addr, imei, delivered, consumed, stale, hello,
                   redisVars, dataVars, lifeVars>>

\* The cleanup interval of start().
CleanupTick ==
    /\ ~hung /\ ~stopping
    /\ SweepStale
    /\ unannounced' = unannounced \cup
                         {i \in Imeis : \E s \in StaleConnections : imei[s] = i}
    /\ UNCHANGED <<addr, imei, delivered, consumed, stale, hello, redisVars,
                   dataVars, stopping, ends>>

\* Mutant: the IMEI is remembered by the handler, not looked up.
OfflineForOwnImei(s) ==
    IF ~WaitingImei(s)
    THEN /\ sets' = Append(sets, [sock |-> s, imei |-> imei[s], status |-> "offline"])
         /\ UNCHANGED registryVars
    ELSE /\ RemoveConnection(addr[s])
         /\ UNCHANGED sets

\* Mutant: the connection is removed without a status update.
SilentDisconnect(s) == RemoveConnection(addr[s]) /\ UNCHANGED sets

\* handleDisconnect, up to its await or to its end.
HandleDisconnect(s) ==
    LET c == connections[addr[s]] IN
    IF c # None /\ ~WaitingImei(c)
    THEN /\ sets' = Append(sets, [sock |-> s, imei |-> imei[c], status |-> "offline"])
         /\ UNCHANGED registryVars
    ELSE /\ RemoveConnection(addr[s])
         /\ UNCHANGED sets

CloseEvent(s) ==
    /\ ~hung
    /\ sock[s] = "destroyed"
    /\ sock' = [sock EXCEPT ![s] = "closed"]
    /\ HandleDisconnect(s)
    /\ UNCHANGED <<addr, imei, delivered, consumed, stale, hello, status,
                   published, pubs, dataVars, lifeVars>>

-----------------------------------------------------------------------------
(* updateDeviceStatus: SET, then PUBLISH.  Commands of one Redis connection *)
(* are executed and answered in the order they were issued, and the reply  *)
(* to a SET resumes the caller that issues the PUBLISH.                     *)

SetReply ==
    /\ ~hung
    /\ sets # <<>>
    /\ status' = [status EXCEPT ![Head(sets).imei] = Head(sets).status]
    /\ sets' = Tail(sets)
    /\ pubs' = Append(pubs, Head(sets))
    /\ UNCHANGED <<registryVars, connVars, hello, published, dataVars, lifeVars>>

\* Mutant: handleDisconnect does not go on.
EndHere(op) == UNCHANGED registryVars

\* The rest of handleDisconnect and of handleImeiPhase.
AfterPublish(op) ==
    IF op.status = "offline" THEN RemoveConnection(addr[op.sock])
                             ELSE UNCHANGED registryVars

\* The reply to the PUBLISH resumes the caller: handleDisconnect goes on to
\* remove the entry under the key of its socket.
PublishReply ==
    /\ ~hung
    /\ pubs # <<>>
    /\ published' = [published EXCEPT ![Head(pubs).imei] = Head(pubs).status]
    /\ pubs' = Tail(pubs)
    /\ AfterPublish(Head(pubs))
    /\ UNCHANGED <<connVars, hello, status, sets, dataVars, lifeVars>>

-----------------------------------------------------------------------------
(* Framing: what getPacketLength and parseAvlPacket make of a buffer that   *)
(* holds the fragments c+1..d of the stream                                 *)

PacketAt(c) == (c + 1) \div 2

\* Preamble not zero: the buffer starts inside a packet, or the packet is
\* garbled.
BadPreamble(c, d) == /\ c < d
                     /\ c % 2 = 0 \/ PacketAt(c) \in Garbled

Complete(c, d) == c + 2 <= d /\ ~BadPreamble(c, d)
CompleteBad(c, d) == Complete(c, d) /\ PacketAt(c) \in Unparsable
CompleteGood(c, d) == Complete(c, d) /\ PacketAt(c) \notin Unparsable

\* From the start b of the buffer, the loop goes on past every complete packet
\* that does not parse, up to c.
SkippedTo(b, c, d) ==
    /\ (c - b) % 2 = 0 /\ ~CompleteBad(c, d)
    /\ \A e \in b..(c - 1) : (e - b) % 2 = 0 => CompleteBad(e, d)

Stamp(p, r) == Records * p + r

\* Mutant: the records of a packet are processed newest first.
ProcessNewestFirst(s, p, r, ops) ==
    /\ inflight' = Append(ops, [sock |-> s, pkt |-> p, rec |-> r])
    /\ latest' = [latest EXCEPT ![imei[s]] = Stamp(p, Records + 1 - r)]

\* processTelemetry of record r: its commands are issued, then it awaits.
ProcessRecord(s, p, r, ops) ==
    /\ inflight' = Append(ops, [sock |-> s, pkt |-> p, rec |-> r])
    /\ latest' = [latest EXCEPT ![imei[s]] = Stamp(p, r)]

\* Mutant: the packet that is taken up is left in the buffer.
TakeKeeping(s, c) == consumed

\* The packet after fragment c is consumed.  Consumption goes through the
\* registry: a connection that is no longer registered keeps its buffer.
Take(s, c) == IF Registered(s) THEN [consumed EXCEPT ![s] = c + 2]
                               ELSE ConsumeBuffer(addr[s], 2)

\* The loop of handleDataPhase, from its head to its first await or to its
\* return, on a buffer that ends with fragment d; ops are the other calls in
\* flight.
HandleDataPhase(s, d, ops) ==
    \E c \in consumed[s]..d :
        /\ IF Registered(s) THEN SkippedTo(consumed[s], c, d) ELSE c = consumed[s]
        /\ \/ /\ BadPreamble(c, d)                          \* -1: clear buffer
              /\ consumed' = [consumed EXCEPT ![s] = d]
              /\ inflight' = ops
              /\ UNCHANGED <<latest, started, hung>>
           \/ /\ ~BadPreamble(c, d) /\ ~Complete(c, d)      \* 0: wait for more
              /\ consumed' = [consumed EXCEPT ![s] = c]
              /\ inflight' = ops
              /\ UNCHANGED <<latest, started, hung>>
           \/ /\ CompleteGood(c, d)
              /\ consumed' = Take(s, c)
              /\ started' = [started EXCEPT ![s][PacketAt(c)] = IF @ = 0 THEN 1 ELSE 2]
              /\ ProcessRecord(s, PacketAt(c), 1, ops)
              /\ UNCHANGED hung
           \/ /\ CompleteBad(c, d)        \* not registered: nothing is consumed
              /\ hung' = TRUE             \* and the loop meets no await
              /\ inflight' = ops
              /\ UNCHANGED <<consumed, latest, started>>

\* Mutant: the handler returns after the acknowledgment.
LoopOnce(s, ops) ==
    /\ inflight' = ops
    /\ UNCHANGED <<consumed, latest, started, hung>>

\* After the acknowledgment the loop looks at the buffer again.
LoopAgain(s, ops) == HandleDataPhase(s, delivered[s], ops)

-----------------------------------------------------------------------------
(* handleData                                                              *)

\* handleImeiPhase, once the IMEI frame is complete: a frame that is invalid
\* or not whitelisted is answered with 0x00 and the socket destroyed.
HandleImeiPhase(s) ==
    /\ consumed' = [consumed EXCEPT ![s] = 1]
    /\ IF hello[s] \in Whitelist
       THEN /\ SetImei(s, hello[s])
            /\ sets' = Append(sets, [sock |-> s, imei |-> hello[s], status |-> "online"])
            /\ unannounced' = unannounced \ {hello[s]}
       ELSE /\ sock' = [sock EXCEPT ![s] = "destroyed"]
            /\ UNCHANGED <<registryVars, imei, sets, unannounced>>

\* A device sends its IMEI, then packets once it was accepted, of which up to
\* Window may be waiting for their acknowledgment.
Sendable(s) ==
    IF WaitingImei(s) THEN 1
    ELSE IF Cardinality(acked[s]) + Window < MaxPackets
         THEN 2 * (Cardinality(acked[s]) + Window) + 1
         ELSE 2 * MaxPackets + 1

\* A data event with the next n fragments.  Data for a socket that is not in
\* the registry is dropped: no state changes, so there is no action for it.
DataEvent(s, n) ==
    /\ ~hung
    /\ sock[s] = "open" /\ Registered(s)
    /\ delivered[s] + n <= Sendable(s)
    /\ AppendToBuffer(s, n)
    /\ IF WaitingImei(s)
       THEN /\ HandleImeiPhase(s)
            /\ UNCHANGED dataVars
       ELSE /\ HandleDataPhase(s, delivered[s] + n, inflight)
            /\ UNCHANGED <<registryVars, sock, imei, sets, jobs, lost, acked,
                           unannounced>>
    /\ UNCHANGED <<addr, hello, status, published, pubs, stopping, ends>>

\* Mutant: the acknowledgment follows the first record.
LastRecordEarly(op) == TRUE

LastRecord(op) == op.rec = Records

\* The Promise.all of the k-th call in flight settles and its handler goes
\* on: with the next record, or with the acknowledgment and the loop.  The
\* job is added unless add() rejected; the rejection is caught and logged.
\* Replies come in the order of the commands, a rejection may come early.
RecordSettled(k, added) ==
    /\ ~hung
    /\ k \in DOMAIN inflight
    /\ LET op == inflight[k]
           s == op.sock
           rest == RemoveAt(inflight, k)
       IN
        /\ IF added THEN k = 1 /\ op.pkt \notin Unstorable
                    ELSE QueueMayFail \/ op.pkt \in Unstorable
        /\ IF added
           THEN /\ jobs' = [jobs EXCEPT ![s] = @ \cup {<<op.pkt, op.rec>>}]
                /\ UNCHANGED lost
           ELSE /\ lost' = [lost EXCEPT ![s] = @ \cup {<<op.pkt, op.rec>>}]
                /\ UNCHANGED jobs
        /\ IF ~LastRecord(op)
           THEN /\ ProcessRecord(s, op.pkt, op.rec + 1, rest)
                /\ UNCHANGED <<consumed, started, acked, hung>>
           ELSE /\ acked' = IF sock[s] = "open"
                            THEN [acked EXCEPT ![s] = @ \cup {op.pkt}] ELSE acked
                /\ LoopAgain(s, rest)
    /\ UNCHANGED <<registryVars, addr, sock, imei, delivered, stale, hello,
                   redisVars, lifeVars>>

-----------------------------------------------------------------------------
\* stop: every registered connection is destroyed, none is accepted any more.
\* The close events still come, each of them announces its device.
Stop ==
    /\ ~hung /\ ~stopping
    /\ ends < MaxEnds
    /\ stopping' = TRUE
    /\ sock' = [s \in Sockets |-> IF Registered(s) /\ sock[s] = "open"
                                  THEN "destroyed" ELSE sock[s]]
    /\ UNCHANGED <<registryVars, addr, imei, delivered, consumed, stale, hello,
                   redisVars, dataVars, ends, unannounced>>

\* The process ends (at the end of stop, or because a rejection nobody handles
\* makes index.ts call exit) and is started again: everything but Redis is gone.
ProcessEnd ==
    /\ ends < MaxEnds
    /\ ends' = ends + 1
    /\ stopping' = FALSE
    /\ sock' = [s \in Sockets |-> IF sock[s] \in {"open", "destroyed"} \/ Registered(s)
                                  THEN "killed" ELSE sock[s]]
    /\ connections' = [a \in Addrs |-> None]
    /\ imeiToSocketId' = [i \in Imeis |-> None]
    /\ sets' = <<>> /\ pubs' = <<>> /\ inflight' = <<>>
    /\ hung' = FALSE
    /\ unannounced' = unannounced \cup {i \in Imeis : Online(i)}
    /\ UNCHANGED <<addr, imei, delivered, consumed, stale, hello, status,
                   published, latest, jobs, lost, started, acked>>

SocketStep(s) ==
    \/ \E a \in Addrs, h \in Imeis \cup {Invalid} : Accept(s, a, h)
    \/ PeerClose(s)
    \/ GoIdle(s)
    \/ SocketTimeout(s)
    \/ CloseEvent(s)
    \/ \E n \in 1..(2 * MaxPackets + 1) : DataEvent(s, n)

Next ==
    \/ \E s \in Sockets : SocketStep(s)
    \/ CleanupTick
    \/ SetReply
    \/ PublishReply
    \/ \E k \in 1..Len(inflight), added \in BOOLEAN : RecordSettled(k, added)
    \/ Stop
    \/ ProcessEnd

Spec == Init /\ [][Next]_vars

\* The event loop runs, Redis answers and TCP delivers what was sent; no peer
\* has to close, no timer has to fire, nothing has to fail.
Fairness ==
    /\ \A s \in Sockets : /\ WF_vars(CloseEvent(s))
                          /\ WF_vars(DataEvent(s, 1))
    /\ WF_vars(SetReply)
    /\ WF_vars(PublishReply)
    /\ WF_vars(\E added \in BOOLEAN : RecordSettled(1, added))

FairSpec == Spec /\ Fairness

-----------------------------------------------------------------------------
TypeOK ==
    /\ addr \in [Sockets -> Addrs \cup {None}]
    /\ sock \in [Sockets -> SocketStates]
    /\ connections \in [Addrs -> Sockets \cup {None}]
    /\ imeiToSocketId \in [Imeis -> Addrs \cup {None}]
    /\ imei \in [Sockets -> Imeis \cup {None}]
    /\ delivered \in [Sockets -> Nat]
    /\ consumed \in [Sockets -> Nat]
    /\ stale \in [Sockets -> BOOLEAN]
    /\ hello \in [Sockets -> Imeis \cup {Invalid, None}]
    /\ status \in [Imeis -> Statuses \cup {None}]
    /\ published \in [Imeis -> Statuses \cup {None}]
    /\ sets \in Seq(StatusOps)
    /\ pubs \in Seq(StatusOps)
    /\ inflight \in Seq(RecordOps)
    /\ latest \in [Imeis -> Nat]
    /\ jobs \in [Sockets -> SUBSET (Packets \X (1..Records))]
    /\ lost \in [Sockets -> SUBSET (Packets \X (1..Records))]
    /\ started \in [Sockets -> [Packets -> 0..2]]
    /\ acked \in [Sockets -> SUBSET Packets]
    /\ hung \in BOOLEAN
    /\ stopping \in BOOLEAN /\ ends \in Nat /\ unannounced \subseteq Imeis

\* The two maps of the registry agree: an IMEI leads to a connection that
\* authenticated with it, and an authenticated connection is the one its IMEI
\* leads to.  So an IMEI never has two registered connections, and a takeover
\* (setImei) closes a connection of the same device and no other.
RegistryAgrees ==
    /\ \A i \in Imeis : imeiToSocketId[i] # None =>
          /\ connections[imeiToSocketId[i]] # None
          /\ imei[connections[imeiToSocketId[i]]] = i
    /\ \A a \in Addrs : connections[a] # None /\ ~WaitingImei(connections[a])
          => imeiToSocketId[imei[connections[a]]] = a

\* "Get connection by socket": as long as a socket is open, looking it up
\* yields its own connection.  If it failed, data events of a live device
\* would be dropped without an answer ("unknown connection") until it gives up.
OpenSocketsAreKnown == \A s \in Sockets : sock[s] = "open" => Registered(s)

Quiet == sets = <<>> /\ pubs = <<>> /\ \A s \in Sockets : sock[s] # "destroyed"

\* Once every status update was executed, a device with a registered
\* connection reads "online", in the key and on the channel: the "offline" of
\* an earlier connection that closes late never wins over the "online" of the
\* connection that took over.
ConnectedReadsOnline ==
    Quiet => \A i \in Imeis : Online(i) =>
                status[i] = "online" /\ published[i] = "online"

\* The converse: a device that reads "online" has a connection, unless its
\* last one was swept away by cleanup(), which announces nothing, or went
\* down with the process.  What became of earlier connections is no excuse:
\* from a new login on, every end but these two must be announced, and a late
\* "online" must not outlive the "offline" of its connection.
OnlineReadsConnected ==
    Quiet => \A i \in Imeis : status[i] = "online" => Online(i) \/ i \in unannounced

\* What getConnectionByImei answers is, at any time, a session in the sense of
\* DeviceSessions: each connection is the answer for one IMEI during one
\* period, whatever connects, takes over, times out or closes in between.
Sessions == INSTANCE DeviceSessions WITH
    Devices <- Imeis,
    session <- [i \in Imeis |-> GetConnectionByImei(i)],
    used <- {s \in Sockets : ~WaitingImei(s)}

ImplementsSessions == Sessions!Spec

\* A packet is acknowledged only when each of its records was dealt with: it is
\* on the queue, or its add() rejected and the error was logged.  No record is
\* passed over, and none is acknowledged while its add() is under way, whatever
\* rejects, overlaps or is taken up again.  (server.ts:399 catches the rejection
\* and goes on to acknowledge; AckedIsQueued is what the plan promises.)
AckedIsSettled ==
    \A s \in Sockets : \A p \in acked[s], r \in 1..Records :
        <<p, r>> \in jobs[s] \cup lost[s]

\* "d. BullMQ ADD (queue for persistence)" before "4. Send ACK to device": every
\* record of a packet that was acknowledged is on the queue.
AckedIsQueued ==
    \A s \in Sockets : \A p \in acked[s], r \in 1..Records : <<p, r>> \in jobs[s]

\* A packet received once is taken up once, as long as its connection is
\* registered.
RegisteredTakesUpOnce ==
    \A s \in Sockets, p \in Packets : started[s][p] > 1 => ~Registered(s)

\* A packet received once is taken up once.
TakenUpOnce == \A s \in Sockets, p \in Packets : started[s][p] <= 1

\* The cached position of a device goes back to an older record only when the
\* records of two packets are processed at the same time, when the device sent
\* them again on another connection, when a packet is taken up again, or after
\* the queue rejected a record of it: its packet is then done early.
LatestGoesBackOnlyByOverlap ==
    [][\A i \in Imeis : latest'[i] < latest[i] =>
          LET op == Last(inflight') IN
          \/ \E k \in 1..(Len(inflight') - 1) : imei[inflight'[k].sock] = i
          \/ \E s \in Sockets \ {op.sock} : imei[s] = i
          \/ started'[op.sock][op.pkt] > 1
          \/ lost'[op.sock] # {}]_vars

\* A connection whose socket is gone leaves the registry.
ClosedIsForgotten ==
    \A s \in Sockets : sock[s] = "destroyed" ~> ~Registered(s)

Unanswered(s) ==
    \E p \in Packets \ (Garbled \cup Unparsable) :
        delivered[s] > 2 * p /\ p \notin acked[s]

\* A connection with well-formed packets that arrived whole and are not yet
\* acknowledged has all of them acknowledged some time, or it is closed.
ReceivedIsAnswered ==
    \A s \in Sockets :
        sock[s] = "open" /\ Unanswered(s) ~> ~Unanswered(s) \/ sock[s] # "open"
=============================================================================
