---------------------------- MODULE TcpServerProofs ----------------------------
(***************************************************************************)
(* Proofs about TcpServer, for every set of sockets, keys and IMEIs, every  *)
(* number of packets and records, every window and number of process ends.  *)
(***************************************************************************)
EXTENDS TcpServer, SequenceTheorems, FiniteSetTheorems, TLAPS

-----------------------------------------------------------------------------
(* Sequences                                                               *)

\* Removing one element of a sequence leaves a sequence over the same set.
LEMMA RemoveAtType ==
    ASSUME NEW T, NEW q \in Seq(T), NEW k \in DOMAIN q
    PROVE  RemoveAt(q, k) \in Seq(T)
<1>1. k \in 1..Len(q)
  OBVIOUS
<1>2. /\ SubSeq(q, 1, k - 1) \in Seq(T)
      /\ SubSeq(q, k + 1, Len(q)) \in Seq(T)
  BY <1>1, SubSeqProperties
<1> QED
  BY <1>2, ConcatProperties DEF RemoveAt

\* The head of a queue is one of its elements and the tail is a queue.
LEMMA HeadTailType ==
    ASSUME NEW T, NEW q \in Seq(T), q # <<>>
    PROVE  Head(q) \in T /\ Tail(q) \in Seq(T)
  OBVIOUS

\* The stamp of a record is a natural number.
LEMMA StampType ==
    ASSUME NEW p \in Nat, NEW r \in Nat
    PROVE  Stamp(p, r) \in Nat
<1>1. Records \in Nat
  BY ServerAssumption DEF ServerAssumption
<1>2. \A x, y \in Nat : x * y \in Nat
  OBVIOUS
<1>3. Records * p \in Nat
  BY <1>1, <1>2
<1> QED
  BY <1>3 DEF Stamp

-----------------------------------------------------------------------------
(* Type correctness                                                        *)

\* Buffers lie within the stream of their connection; the bound is what makes
\* every packet that is taken up one of Packets.
BufferBounds ==
    \A s \in Sockets : /\ consumed[s] <= delivered[s]
                       /\ delivered[s] <= 2 * MaxPackets + 1

\* A socket has a key from the moment it is accepted.
KeyAssigned == \A s \in Sockets : sock[s] # "new" => addr[s] # None

\* What is in flight was issued for accepted sockets, and an update to
\* "offline" for a socket that is no longer open.
LiveRecordOps == {op \in RecordOps : addr[op.sock] # None}
LiveStatusOps == {op \in StatusOps :
                     /\ addr[op.sock] # None
                     /\ op.status = "offline" => sock[op.sock] \notin {"new", "open"}}

LiveOps == /\ inflight \in Seq(LiveRecordOps)
           /\ sets \in Seq(LiveStatusOps)
           /\ pubs \in Seq(LiveStatusOps)

TypeInv == TypeOK /\ BufferBounds /\ KeyAssigned /\ LiveOps

\* A sequence over a set is one over every larger set.
LEMMA SeqMonotone ==
    ASSUME NEW S, NEW T, S \subseteq T, NEW q \in Seq(S)
    PROVE  q \in Seq(T)
  OBVIOUS

\* Keys are never withdrawn and sockets never open again, so what was issued
\* stays live.
LEMMA LiveMonotone ==
    ASSUME TypeOK,
           \A s \in Sockets : addr[s] # None => addr'[s] # None,
           \A s \in Sockets : sock[s] \notin {"new", "open"}
                                 => sock'[s] \notin {"new", "open"}
    PROVE  /\ \A q \in Seq(LiveRecordOps) : q \in Seq(LiveRecordOps')
           /\ \A q \in Seq(LiveStatusOps) : q \in Seq(LiveStatusOps')
<1>1. LiveRecordOps \subseteq LiveRecordOps'
  BY DEF LiveRecordOps, RecordOps
<1>2. LiveStatusOps \subseteq LiveStatusOps'
  BY DEF LiveStatusOps, StatusOps
<1> QED
  BY <1>1, <1>2, SeqMonotone

\* A complete packet within the stream is one the device may have sent.
LEMMA PacketInRange ==
    ASSUME NEW c \in Nat, NEW d \in Nat, Complete(c, d), d <= 2 * MaxPackets + 1
    PROVE  PacketAt(c) \in Packets
  BY ServerAssumption
  DEF ServerAssumption, Complete, BadPreamble, PacketAt, Packets

\* What a device may send stays within its stream.
LEMMA SendableBound ==
    ASSUME TypeOK, NEW s \in Sockets
    PROVE  Sendable(s) \in Nat /\ Sendable(s) <= 2 * MaxPackets + 1
<1>1. IsFiniteSet(acked[s])
  <2>1. IsFiniteSet(1..MaxPackets)
    BY FS_Interval, ServerAssumption DEF ServerAssumption
  <2>2. acked[s] \subseteq 1..MaxPackets
    BY DEF TypeOK, Packets
  <2> QED
    BY <2>1, <2>2, FS_Subset
<1>2. Cardinality(acked[s]) \in Nat
  BY <1>1, FS_CardinalityType
<1> QED
  BY <1>2, ServerAssumption DEF ServerAssumption, Sendable

\* Init establishes the type invariant.
LEMMA TypeInit ==
    ASSUME Init
    PROVE  TypeInv
<1>1. BufferBounds
  <2>1. delivered = [s \in Sockets |-> 0] /\ consumed = [s \in Sockets |-> 0]
    BY DEF Init, ManagerInit
  <2>2. MaxPackets \in Nat
    BY ServerAssumption DEF ServerAssumption
  <2> SUFFICES ASSUME NEW s \in Sockets
               PROVE  consumed[s] <= delivered[s] /\ delivered[s] <= 2 * MaxPackets + 1
    BY DEF BufferBounds
  <2>3. consumed[s] = 0 /\ delivered[s] = 0
    BY <2>1
  <2> QED
    BY <2>2, <2>3
<1>2. LiveOps /\ sets \in Seq(StatusOps) /\ pubs \in Seq(StatusOps)
              /\ inflight \in Seq(RecordOps)
  BY DEF Init, LiveOps
<1>3. /\ started \in [Sockets -> [Packets -> 0..2]]
      /\ jobs \in [Sockets -> SUBSET (Packets \X (1..Records))]
      /\ lost \in [Sockets -> SUBSET (Packets \X (1..Records))]
      /\ acked \in [Sockets -> SUBSET Packets]
  BY DEF Init
<1>4. /\ latest \in [Imeis -> Nat] /\ hung \in BOOLEAN /\ stopping \in BOOLEAN /\ ends \in Nat
      /\ unannounced \subseteq Imeis
      /\ status \in [Imeis -> Statuses \cup {None}]
      /\ published \in [Imeis -> Statuses \cup {None}]
      /\ hello \in [Sockets -> Imeis \cup {Invalid, None}]
  BY DEF Init
<1>5. /\ addr \in [Sockets -> Addrs \cup {None}]
      /\ sock \in [Sockets -> SocketStates]
      /\ connections \in [Addrs -> Sockets \cup {None}]
      /\ imeiToSocketId \in [Imeis -> Addrs \cup {None}]
      /\ imei \in [Sockets -> Imeis \cup {None}]
      /\ delivered \in [Sockets -> Nat]
      /\ consumed \in [Sockets -> Nat]
      /\ stale \in [Sockets -> BOOLEAN]
      /\ KeyAssigned
  BY DEF Init, ManagerInit, SocketStates, KeyAssigned
<1> QED
  BY <1>1, <1>2, <1>3, <1>4, <1>5 DEF TypeInv, TypeOK

\* The loop of handleDataPhase preserves the types of what it assigns.
LEMMA DataPhaseType ==
    ASSUME TypeInv,
           NEW s \in Sockets, addr[s] # None,
           NEW d \in Nat, consumed[s] <= d, d <= 2 * MaxPackets + 1,
           NEW ops \in Seq(LiveRecordOps),
           HandleDataPhase(s, d, ops)
    PROVE  /\ consumed' \in [Sockets -> Nat]
           /\ \A t \in Sockets \ {s} : consumed'[t] <= delivered[t]
           /\ consumed'[s] <= d \/ consumed'[s] <= delivered[s]
           /\ inflight' \in Seq(LiveRecordOps)
           /\ latest' \in [Imeis -> Nat]
           /\ started' \in [Sockets -> [Packets -> 0..2]]
           /\ hung' \in BOOLEAN
  <1> USE DEF TypeInv, TypeOK, BufferBounds
  <1>1. PICK c \in consumed[s]..d :
          \/ BadPreamble(c, d) /\ consumed' = [consumed EXCEPT ![s] = d]
             /\ inflight' = ops /\ UNCHANGED <<latest, started, hung>>
          \/ consumed' = [consumed EXCEPT ![s] = c]
             /\ inflight' = ops /\ UNCHANGED <<latest, started, hung>>
          \/ /\ CompleteGood(c, d)
             /\ consumed' = Take(s, c)
             /\ started' = [started EXCEPT ![s][PacketAt(c)] = IF @ = 0 THEN 1 ELSE 2]
             /\ ProcessRecord(s, PacketAt(c), 1, ops)
             /\ UNCHANGED hung
          \/ hung' = TRUE /\ inflight' = ops /\ UNCHANGED <<consumed, latest, started>>
    BY DEF HandleDataPhase
  <1>2. c \in Nat /\ d \in Nat
    OBVIOUS
  <1>3. CASE BadPreamble(c, d) /\ consumed' = [consumed EXCEPT ![s] = d]
             /\ inflight' = ops /\ UNCHANGED <<latest, started, hung>>
    BY <1>3
  <1>4. CASE consumed' = [consumed EXCEPT ![s] = c]
             /\ inflight' = ops /\ UNCHANGED <<latest, started, hung>>
    BY <1>2, <1>4
  <1>5. CASE /\ CompleteGood(c, d)
             /\ consumed' = Take(s, c)
             /\ started' = [started EXCEPT ![s][PacketAt(c)] = IF @ = 0 THEN 1 ELSE 2]
             /\ ProcessRecord(s, PacketAt(c), 1, ops)
             /\ UNCHANGED hung
    <2>1. PacketAt(c) \in Packets /\ c + 2 <= d
      BY <1>2, <1>5, PacketInRange DEF CompleteGood, Complete
    <2>2. /\ consumed' \in [Sockets -> Nat]
          /\ \A t \in Sockets \ {s} : consumed'[t] <= delivered[t]
          /\ consumed'[s] <= d \/ consumed'[s] <= delivered[s]
      BY <1>2, <1>5, <2>1 DEF Take, ConsumeBuffer
    <2>3. [sock |-> s, pkt |-> PacketAt(c), rec |-> 1] \in LiveRecordOps
      BY <2>1, ServerAssumption DEF ServerAssumption, RecordOps, LiveRecordOps
    <2>4. inflight' \in Seq(LiveRecordOps)
      BY <1>5, <2>3 DEF ProcessRecord
    <2>5. latest' \in [Imeis -> Nat]
      <3>1. PacketAt(c) \in Nat
        BY <2>1, ServerAssumption DEF Packets, ServerAssumption
      <3>2. Stamp(PacketAt(c), 1) \in Nat
        BY <3>1, StampType
      <3> QED
        BY <1>5, <3>2 DEF ProcessRecord
    <2>6. started' \in [Sockets -> [Packets -> 0..2]]
      BY <1>5, <2>1
    <2> QED
      BY <1>5, <2>2, <2>4, <2>5, <2>6
  <1>6. CASE hung' = TRUE /\ inflight' = ops /\ UNCHANGED <<consumed, latest, started>>
    BY <1>6
  <1> QED
    BY <1>1, <1>3, <1>4, <1>5, <1>6

\* Removing the entry under a key keeps the types of the two maps.
LEMMA RemoveType ==
    ASSUME TypeOK, NEW a \in Addrs, RemoveConnection(a)
    PROVE  /\ connections' \in [Addrs -> Sockets \cup {None}]
           /\ imeiToSocketId' \in [Imeis -> Addrs \cup {None}]
  BY DEF TypeOK, RemoveConnection, ConnectionsWithout, ImeisWithout

\* So does the authentication of a connection.
LEMMA SetImeiType ==
    ASSUME TypeOK, NEW s \in Sockets, addr[s] \in Addrs, NEW i \in Imeis,
           SetImei(s, i)
    PROVE  /\ imei' \in [Sockets -> Imeis \cup {None}]
           /\ connections' \in [Addrs -> Sockets \cup {None}]
           /\ imeiToSocketId' \in [Imeis -> Addrs \cup {None}]
           /\ sock' \in [Sockets -> SocketStates]
           /\ \A t \in Sockets : sock'[t] = sock[t]
                \/ (sock[t] = "open" /\ sock'[t] = "destroyed")
<1>1. imei' \in [Sockets -> Imeis \cup {None}]
  BY DEF TypeOK, SetImei
<1>2. CASE TakenOver(s, i) = {}
  BY <1>1, <1>2 DEF TypeOK, SetImei
<1>3. ASSUME NEW a \in TakenOver(s, i)
      PROVE  a \in Addrs /\ connections[a] \in Sockets
  BY DEF TypeOK, TakenOver
<1>4. CASE TakenOver(s, i) # {}
  <2>1. PICK a \in TakenOver(s, i) :
           /\ connections' = ConnectionsWithout(a)
           /\ imeiToSocketId' = [ImeisWithout(a) EXCEPT ![i] = addr[s]]
           /\ sock' = [sock EXCEPT ![connections[a]] =
                          IF @ = "open" THEN "destroyed" ELSE @]
    BY <1>4 DEF SetImei
  <2>2. connections' \in [Addrs -> Sockets \cup {None}]
    BY <1>3, <2>1 DEF TypeOK, ConnectionsWithout
  <2>3. imeiToSocketId' \in [Imeis -> Addrs \cup {None}]
    BY <2>1 DEF TypeOK, ImeisWithout
  <2>4. /\ sock' \in [Sockets -> SocketStates]
        /\ \A t \in Sockets : sock'[t] = sock[t]
                \/ (sock[t] = "open" /\ sock'[t] = "destroyed")
    BY <1>3, <2>1 DEF TypeOK, SocketStates
  <2> QED
    BY <1>1, <2>2, <2>3, <2>4
<1> QED
  BY <1>2, <1>4

\* Accepting a connection preserves the type invariant.
LEMMA AcceptType ==
    ASSUME TypeInv, NEW s \in Sockets, NEW a \in Addrs,
           NEW h \in Imeis \cup {Invalid}, Accept(s, a, h)
    PROVE  TypeInv'
<1>1. /\ addr' = [addr EXCEPT ![s] = a] /\ a # None
      /\ sock' = [sock EXCEPT ![s] = "open"] /\ sock[s] = "new"
  BY NoneAssumption DEF NoneAssumption, Accept, CreateConnection
<1>2. /\ \A q \in Seq(LiveRecordOps) : q \in Seq(LiveRecordOps')
      /\ \A q \in Seq(LiveStatusOps) : q \in Seq(LiveStatusOps')
  BY <1>1, LiveMonotone DEF TypeInv, TypeOK
<1>3. LiveOps' /\ BufferBounds' /\ KeyAssigned'
  BY <1>1, <1>2 DEF TypeInv, TypeOK, LiveOps, BufferBounds, KeyAssigned, Accept,
                    redisVars, dataVars, lifeVars
<1> QED
  BY <1>3 DEF TypeInv, TypeOK, Accept, CreateConnection, SocketStates,
              redisVars, dataVars, lifeVars

\* The peer, the timers, the cleanup sweep and stop preserve the type invariant.
LEMMA SocketEventType ==
    ASSUME TypeInv,
           \/ \E s \in Sockets : PeerClose(s) \/ GoIdle(s) \/ SocketTimeout(s)
           \/ CleanupTick
           \/ Stop
    PROVE  TypeInv'
<1> USE DEF PeerClose, GoIdle, SocketTimeout, CleanupTick, SweepStale, Stop,
            registryVars, redisVars, dataVars, lifeVars
<1>1. addr' = addr /\ sock' \in [Sockets -> SocketStates]
      /\ \A t \in Sockets :
            sock'[t] = sock[t] \/ (sock[t] = "open" /\ sock'[t] = "destroyed")
  <2>1. ASSUME NEW s \in Sockets, PeerClose(s) \/ SocketTimeout(s)
        PROVE  <1>1
    <3>1. sock[s] = "open" /\ sock' = [sock EXCEPT ![s] = "destroyed"] /\ addr' = addr
      BY <2>1
    <3> QED
      BY <3>1 DEF TypeInv, TypeOK, SocketStates
  <2>2. CASE \E s \in Sockets : GoIdle(s)
    BY <2>2 DEF TypeInv, TypeOK
  <2>3. CASE CleanupTick \/ Stop
    BY <2>3 DEF TypeInv, TypeOK, SocketStates
  <2> QED
    BY <2>1, <2>2, <2>3
<1>2. /\ \A q \in Seq(LiveRecordOps) : q \in Seq(LiveRecordOps')
      /\ \A q \in Seq(LiveStatusOps) : q \in Seq(LiveStatusOps')
  BY <1>1, LiveMonotone DEF TypeInv
<1>3. LiveOps' /\ BufferBounds' /\ KeyAssigned'
  BY <1>1, <1>2 DEF TypeInv, LiveOps, BufferBounds, KeyAssigned
<1>4. CASE CleanupTick
  <2>1. /\ connections' \in [Addrs -> Sockets \cup {None}]
        /\ imeiToSocketId' \in [Imeis -> Addrs \cup {None}]
    BY <1>4 DEF TypeInv, TypeOK
  <2> QED
    BY <1>1, <1>3, <1>4, <2>1 DEF TypeInv, TypeOK
<1>5. CASE Stop \/ \E s \in Sockets : PeerClose(s) \/ GoIdle(s) \/ SocketTimeout(s)
  BY <1>1, <1>3, <1>5 DEF TypeInv, TypeOK
<1> QED
  BY <1>4, <1>5

\* The 'close' event preserves it.
LEMMA CloseEventType ==
    ASSUME TypeInv, NEW s \in Sockets, CloseEvent(s)
    PROVE  TypeInv'
<1> DEFINE c == connections[addr[s]]
<1>1. /\ sock' = [sock EXCEPT ![s] = "closed"] /\ sock[s] = "destroyed"
      /\ addr' = addr
  BY DEF CloseEvent
<1>2. addr[s] \in Addrs /\ addr[s] # None
  BY <1>1 DEF TypeInv, TypeOK, KeyAssigned
<1>3. /\ \A q \in Seq(LiveRecordOps) : q \in Seq(LiveRecordOps')
      /\ \A q \in Seq(LiveStatusOps) : q \in Seq(LiveStatusOps')
  BY <1>1, LiveMonotone DEF TypeInv, TypeOK
<1>4. /\ connections' \in [Addrs -> Sockets \cup {None}]
      /\ imeiToSocketId' \in [Imeis -> Addrs \cup {None}]
      /\ sets' \in Seq(StatusOps) /\ sets' \in Seq(LiveStatusOps')
  <2>1. CASE RemoveConnection(addr[s]) /\ UNCHANGED sets
    BY <1>2, <1>3, <2>1, RemoveType DEF TypeInv, TypeOK, LiveOps
  <2>2. CASE /\ c # None /\ ~WaitingImei(c)
             /\ sets' = Append(sets, [sock |-> s, imei |-> imei[c],
                                      status |-> "offline"])
             /\ UNCHANGED registryVars
    <3>1. imei[c] \in Imeis
      BY <1>2, <2>2 DEF WaitingImei, TypeInv, TypeOK
    <3>2. [sock |-> s, imei |-> imei[c], status |-> "offline"] \in StatusOps
      BY <3>1 DEF StatusOps, Statuses
    <3>3. [sock |-> s, imei |-> imei[c], status |-> "offline"] \in LiveStatusOps'
      BY <1>1, <1>2, <3>2 DEF LiveStatusOps, TypeInv, TypeOK
    <3>4. sets \in Seq(StatusOps) /\ sets \in Seq(LiveStatusOps')
      BY <1>3 DEF TypeInv, TypeOK, LiveOps
    <3>5. /\ Append(sets, [sock |-> s, imei |-> imei[c], status |-> "offline"])
                \in Seq(StatusOps)
          /\ Append(sets, [sock |-> s, imei |-> imei[c], status |-> "offline"])
                \in Seq(LiveStatusOps')
      BY <3>2, <3>3, <3>4
    <3> QED
      BY <2>2, <3>5 DEF registryVars, TypeInv, TypeOK
  <2> QED
    BY <2>1, <2>2 DEF CloseEvent, HandleDisconnect
<1>5. LiveOps' /\ BufferBounds' /\ KeyAssigned'
  BY <1>1, <1>3, <1>4 DEF CloseEvent, TypeInv, TypeOK, LiveOps, BufferBounds,
                          KeyAssigned, dataVars, lifeVars
<1> QED
  BY <1>4, <1>5 DEF TypeInv, TypeOK, CloseEvent, dataVars, lifeVars, SocketStates

\* The replies of Redis preserve it.
LEMMA ReplyType ==
    ASSUME TypeInv, SetReply \/ PublishReply
    PROVE  TypeInv'
<1>1. UNCHANGED connVars
  BY DEF SetReply, PublishReply
<1>2. /\ \A q \in Seq(LiveRecordOps) : q \in Seq(LiveRecordOps')
      /\ \A q \in Seq(LiveStatusOps) : q \in Seq(LiveStatusOps')
  BY <1>1, LiveMonotone DEF TypeInv, connVars
<1>3. CASE SetReply
  <2>1. /\ Head(sets) \in StatusOps /\ Tail(sets) \in Seq(StatusOps)
        /\ Head(sets) \in LiveStatusOps /\ Tail(sets) \in Seq(LiveStatusOps)
    BY <1>3, HeadTailType DEF SetReply, TypeInv, TypeOK, LiveOps
  <2>2. Head(sets).imei \in Imeis /\ Head(sets).status \in Statuses
    BY <2>1 DEF StatusOps
  <2>3. status' \in [Imeis -> Statuses \cup {None}]
    BY <1>3, <2>2 DEF SetReply, TypeInv, TypeOK
  <2>4. /\ sets' \in Seq(StatusOps) /\ pubs' \in Seq(StatusOps)
        /\ sets' \in Seq(LiveStatusOps) /\ pubs' \in Seq(LiveStatusOps)
    BY <1>3, <2>1 DEF SetReply, TypeInv, TypeOK, LiveOps
  <2>5. LiveOps' /\ BufferBounds' /\ KeyAssigned'
    BY <1>1, <1>2, <1>3, <2>4 DEF SetReply, TypeInv, LiveOps, BufferBounds,
                                  KeyAssigned, connVars, dataVars, lifeVars
  <2> QED
    BY <1>3, <2>3, <2>4, <2>5
    DEF SetReply, TypeInv, TypeOK, registryVars, connVars, dataVars, lifeVars
<1>4. CASE PublishReply
  <2>1. /\ Head(pubs) \in StatusOps /\ Tail(pubs) \in Seq(StatusOps)
        /\ Head(pubs) \in LiveStatusOps /\ Tail(pubs) \in Seq(LiveStatusOps)
    BY <1>4, HeadTailType DEF PublishReply, TypeInv, TypeOK, LiveOps
  <2>2. /\ Head(pubs).imei \in Imeis /\ Head(pubs).status \in Statuses
        /\ Head(pubs).sock \in Sockets /\ addr[Head(pubs).sock] # None
    BY <2>1 DEF StatusOps, LiveStatusOps
  <2>3. published' \in [Imeis -> Statuses \cup {None}]
    BY <1>4, <2>2 DEF PublishReply, TypeInv, TypeOK
  <2>4. /\ connections' \in [Addrs -> Sockets \cup {None}]
        /\ imeiToSocketId' \in [Imeis -> Addrs \cup {None}]
    <3>1. addr[Head(pubs).sock] \in Addrs
      BY <2>2 DEF TypeInv, TypeOK
    <3> QED
      BY <1>4, <3>1, RemoveType
      DEF PublishReply, AfterPublish, registryVars, TypeInv, TypeOK
  <2>5. LiveOps' /\ BufferBounds' /\ KeyAssigned'
    BY <1>1, <1>2, <1>4, <2>1 DEF PublishReply, TypeInv, LiveOps, BufferBounds,
                                  KeyAssigned, connVars, dataVars, lifeVars
  <2> QED
    BY <1>4, <2>1, <2>3, <2>4, <2>5
    DEF PublishReply, TypeInv, TypeOK, connVars, dataVars, lifeVars
<1> QED
  BY <1>3, <1>4

\* A data event preserves the type invariant.
LEMMA DataEventType ==
    ASSUME TypeInv, NEW s \in Sockets, NEW n \in 1..(2 * MaxPackets + 1),
           DataEvent(s, n)
    PROVE  TypeInv'
<1> DEFINE d == delivered[s] + n
<1>1. n \in Nat /\ 1 <= n /\ MaxPackets \in Nat
  BY ServerAssumption DEF ServerAssumption
<1>2. d \in Nat /\ consumed[s] <= d /\ d <= 2 * MaxPackets + 1 /\ 1 <= d
      /\ delivered[s] <= d
  <2>1. d <= Sendable(s)
    BY DEF DataEvent
  <2>2. /\ Sendable(s) \in Nat /\ Sendable(s) <= 2 * MaxPackets + 1
        /\ delivered[s] \in Nat /\ consumed[s] \in Nat /\ consumed[s] <= delivered[s]
    BY SendableBound DEF TypeInv, TypeOK, BufferBounds
  <2> QED
    BY <1>1, <2>1, <2>2
<1>3. addr[s] \in Addrs /\ addr[s] # None
  BY DEF DataEvent, Registered, TypeInv, TypeOK
<1>4. /\ delivered' = [delivered EXCEPT ![s] = d]
      /\ stale' \in [Sockets -> BOOLEAN]
  BY DEF DataEvent, AppendToBuffer, TypeInv, TypeOK
<1>5. delivered' \in [Sockets -> Nat]
  BY <1>2, <1>4 DEF TypeInv, TypeOK
<1>6. CASE WaitingImei(s)
  <2>1. HandleImeiPhase(s) /\ UNCHANGED dataVars
    BY <1>6 DEF DataEvent
  <2>2. consumed' = [consumed EXCEPT ![s] = 1]
    BY <2>1 DEF HandleImeiPhase
  <2>3. consumed' \in [Sockets -> Nat] /\ BufferBounds'
    BY <1>2, <1>4, <2>2 DEF TypeInv, TypeOK, BufferBounds
  <2>4. /\ imei' \in [Sockets -> Imeis \cup {None}]
        /\ connections' \in [Addrs -> Sockets \cup {None}]
        /\ imeiToSocketId' \in [Imeis -> Addrs \cup {None}]
        /\ sock' \in [Sockets -> SocketStates]
        /\ \A t \in Sockets : sock'[t] = sock[t]
             \/ (sock[t] = "open" /\ sock'[t] = "destroyed")
        /\ sets' \in Seq(StatusOps) /\ sets' \in Seq(LiveStatusOps)
        /\ unannounced' \subseteq Imeis
    <3>1. CASE hello[s] \in Whitelist
      <4>1. hello[s] \in Imeis
        BY <3>1, ServerAssumption DEF ServerAssumption
      <4>2. SetImei(s, hello[s])
            /\ sets' = Append(sets, [sock |-> s, imei |-> hello[s], status |-> "online"])
            /\ unannounced' \subseteq Imeis
        BY <2>1, <3>1 DEF HandleImeiPhase, TypeInv, TypeOK
      <4>3. /\ [sock |-> s, imei |-> hello[s], status |-> "online"] \in StatusOps
            /\ [sock |-> s, imei |-> hello[s], status |-> "online"] \in LiveStatusOps
        BY <1>3, <4>1 DEF StatusOps, Statuses, LiveStatusOps
      <4>4. sets' \in Seq(StatusOps) /\ sets' \in Seq(LiveStatusOps)
        BY <4>2, <4>3 DEF TypeInv, TypeOK, LiveOps
      <4> QED
        BY <1>3, <4>1, <4>2, <4>4, SetImeiType DEF TypeInv
    <3>2. CASE hello[s] \notin Whitelist
      <4>1. /\ sock' = [sock EXCEPT ![s] = "destroyed"]
            /\ UNCHANGED <<registryVars, imei, sets, unannounced>>
        BY <2>1, <3>2 DEF HandleImeiPhase
      <4>2. sock[s] = "open"
        BY DEF DataEvent
      <4> QED
        BY <4>1, <4>2 DEF registryVars, TypeInv, TypeOK, LiveOps, SocketStates
    <3> QED
      BY <3>1, <3>2
  <2>5. UNCHANGED <<addr, hello, status, published, pubs, stopping, ends>>
    BY DEF DataEvent
  <2>6. /\ \A q \in Seq(LiveRecordOps) : q \in Seq(LiveRecordOps')
        /\ \A q \in Seq(LiveStatusOps) : q \in Seq(LiveStatusOps')
    BY <2>4, <2>5, LiveMonotone DEF TypeInv
  <2>7. KeyAssigned' /\ LiveOps'
    BY <2>1, <2>4, <2>5, <2>6 DEF TypeInv, KeyAssigned, LiveOps, dataVars
  <2> QED
    BY <1>4, <1>5, <2>1, <2>3, <2>4, <2>5, <2>7 DEF TypeInv, TypeOK, dataVars
<1>7. CASE ~WaitingImei(s)
  <2>1. HandleDataPhase(s, d, inflight)
        /\ UNCHANGED <<registryVars, sock, imei, sets, jobs, lost, acked, unannounced>>
        /\ UNCHANGED <<addr, hello, status, published, pubs, stopping, ends>>
    BY <1>7 DEF DataEvent
  <2>2. inflight \in Seq(LiveRecordOps)
    BY DEF TypeInv, LiveOps
  <2>3. /\ consumed' \in [Sockets -> Nat]
        /\ \A t \in Sockets \ {s} : consumed'[t] <= delivered[t]
        /\ consumed'[s] <= d \/ consumed'[s] <= delivered[s]
        /\ inflight' \in Seq(LiveRecordOps)
        /\ latest' \in [Imeis -> Nat]
        /\ started' \in [Sockets -> [Packets -> 0..2]]
        /\ hung' \in BOOLEAN
    BY <1>2, <1>3, <2>1, <2>2, DataPhaseType
  <2>4. BufferBounds'
    <3>1. consumed'[s] <= d
      BY <1>2, <2>3 DEF TypeInv, TypeOK
    <3> QED
      BY <1>2, <1>4, <2>3, <3>1 DEF TypeInv, TypeOK, BufferBounds
  <2>5. LiveRecordOps' = LiveRecordOps /\ LiveStatusOps' = LiveStatusOps
    BY <2>1 DEF LiveRecordOps, LiveStatusOps
  <2>6. KeyAssigned' /\ LiveOps'
    BY <2>1, <2>3, <2>5 DEF TypeInv, KeyAssigned, LiveOps
  <2>7. inflight' \in Seq(RecordOps)
    BY <2>3, SeqMonotone DEF LiveRecordOps
  <2> QED
    BY <1>4, <1>5, <2>1, <2>3, <2>4, <2>6, <2>7 DEF TypeInv, TypeOK, registryVars
<1> QED
  BY <1>6, <1>7

\* The continuation of a handler after processTelemetry preserves it.
LEMMA RecordSettledType ==
    ASSUME TypeInv, NEW k, NEW added \in BOOLEAN, RecordSettled(k, added)
    PROVE  TypeInv'
<1> DEFINE op == inflight[k]
           s == op.sock
           rest == RemoveAt(inflight, k)
<1>1. k \in DOMAIN inflight
  BY DEF RecordSettled
<1>2. op \in LiveRecordOps /\ rest \in Seq(LiveRecordOps)
  BY <1>1, RemoveAtType DEF TypeInv, LiveOps
<1>3. s \in Sockets /\ op.pkt \in Packets /\ op.rec \in 1..Records /\ addr[s] # None
  BY <1>2 DEF LiveRecordOps, RecordOps
<1>4. /\ jobs' \in [Sockets -> SUBSET (Packets \X (1..Records))]
      /\ lost' \in [Sockets -> SUBSET (Packets \X (1..Records))]
  <2> DEFINE Numbered == Packets \X (1..Records)
  <2>1. \/ jobs' = [jobs EXCEPT ![s] = @ \cup {<<op.pkt, op.rec>>}] /\ UNCHANGED lost
        \/ lost' = [lost EXCEPT ![s] = @ \cup {<<op.pkt, op.rec>>}] /\ UNCHANGED jobs
    BY DEF RecordSettled
  <2>2. jobs \in [Sockets -> SUBSET Numbered] /\ lost \in [Sockets -> SUBSET Numbered]
    BY DEF TypeInv, TypeOK
  <2>3. <<op.pkt, op.rec>> \in Numbered
    BY <1>3
  <2> HIDE DEF Numbered, op, s
  <2>4. jobs[s] \cup {<<op.pkt, op.rec>>} \in SUBSET Numbered
        /\ lost[s] \cup {<<op.pkt, op.rec>>} \in SUBSET Numbered
    BY <1>3, <2>2, <2>3
  <2>5. jobs' \in [Sockets -> SUBSET Numbered] /\ lost' \in [Sockets -> SUBSET Numbered]
    BY <1>3, <2>1, <2>2, <2>4
  <2> QED
    BY <2>5 DEF Numbered
<1>5. UNCHANGED <<registryVars, addr, sock, imei, delivered, stale, hello,
                  redisVars, lifeVars>>
  BY DEF RecordSettled
<1>6. CASE ~LastRecord(op)
  <2>1. /\ ProcessRecord(s, op.pkt, op.rec + 1, rest)
        /\ UNCHANGED <<consumed, started, acked, hung>>
    BY <1>6 DEF RecordSettled
  <2>2. op.rec + 1 \in 1..Records /\ op.rec + 1 \in Nat
    BY <1>3, <1>6, ServerAssumption DEF ServerAssumption, LastRecord
  <2>3. [sock |-> s, pkt |-> op.pkt, rec |-> op.rec + 1] \in LiveRecordOps
    BY <1>3, <2>2 DEF LiveRecordOps, RecordOps
  <2>4. inflight' \in Seq(LiveRecordOps)
    BY <1>2, <2>1, <2>3 DEF ProcessRecord
  <2>5. Stamp(op.pkt, op.rec + 1) \in Nat
    <3>1. op.pkt \in Nat
      BY <1>3, ServerAssumption DEF ServerAssumption, Packets
    <3> QED
      BY <2>2, <3>1, StampType
  <2>6. latest' \in [Imeis -> Nat]
    BY <2>1, <2>5 DEF ProcessRecord, TypeInv, TypeOK
  <2>7. LiveRecordOps' = LiveRecordOps /\ LiveStatusOps' = LiveStatusOps
    BY <1>5 DEF LiveRecordOps, LiveStatusOps
  <2>8. KeyAssigned' /\ LiveOps' /\ BufferBounds'
    BY <1>5, <2>1, <2>4, <2>7
    DEF TypeInv, KeyAssigned, LiveOps, BufferBounds, redisVars
  <2>9. inflight' \in Seq(RecordOps)
    BY <2>4, SeqMonotone DEF LiveRecordOps
  <2> QED
    BY <1>4, <1>5, <2>1, <2>6, <2>8, <2>9
    DEF TypeInv, TypeOK, registryVars, redisVars, lifeVars
<1>7. CASE LastRecord(op)
  <2>1. HandleDataPhase(s, delivered[s], rest)
    BY <1>7 DEF RecordSettled, LoopAgain
  <2>2. acked' \in [Sockets -> SUBSET Packets]
    <3>1. acked' = acked \/ acked' = [acked EXCEPT ![s] = @ \cup {op.pkt}]
      BY <1>7 DEF RecordSettled
    <3>2. acked \in [Sockets -> SUBSET Packets]
      BY DEF TypeInv, TypeOK
    <3>3. acked[s] \cup {op.pkt} \in SUBSET Packets
      BY <1>3, <3>2
    <3> QED
      BY <1>3, <3>1, <3>2, <3>3
  <2>3. delivered[s] \in Nat /\ consumed[s] <= delivered[s]
        /\ delivered[s] <= 2 * MaxPackets + 1
    BY <1>3 DEF TypeInv, TypeOK, BufferBounds
  <2>4. /\ consumed' \in [Sockets -> Nat]
        /\ \A t \in Sockets \ {s} : consumed'[t] <= delivered[t]
        /\ consumed'[s] <= delivered[s]
        /\ inflight' \in Seq(LiveRecordOps)
        /\ latest' \in [Imeis -> Nat]
        /\ started' \in [Sockets -> [Packets -> 0..2]]
        /\ hung' \in BOOLEAN
    BY <1>2, <1>3, <2>1, <2>3, DataPhaseType
  <2>5. BufferBounds'
    BY <1>5, <2>4 DEF TypeInv, BufferBounds
  <2>6. LiveRecordOps' = LiveRecordOps /\ LiveStatusOps' = LiveStatusOps
    BY <1>5 DEF LiveRecordOps, LiveStatusOps
  <2>7. KeyAssigned' /\ LiveOps'
    BY <1>5, <2>4, <2>6 DEF TypeInv, KeyAssigned, LiveOps, redisVars
  <2>8. inflight' \in Seq(RecordOps)
    BY <2>4, SeqMonotone DEF LiveRecordOps
  <2> QED
    BY <1>4, <1>5, <2>2, <2>4, <2>5, <2>7, <2>8
    DEF TypeInv, TypeOK, registryVars, redisVars, lifeVars
<1> QED
  BY <1>6, <1>7

\* The end of the process preserves it.
LEMMA ProcessEndType ==
    ASSUME TypeInv, ProcessEnd
    PROVE  TypeInv'
<1>1. sock' \in [Sockets -> SocketStates] /\ addr' = addr
      /\ \A s \in Sockets : sock'[s] = sock[s] \/ sock'[s] = "killed"
  BY DEF ProcessEnd, TypeInv, TypeOK, SocketStates
<1>2. KeyAssigned'
  <2>1. ASSUME NEW s \in Sockets, sock'[s] # "new"
        PROVE  addr[s] # None
    BY <2>1 DEF ProcessEnd, Registered, TypeInv, TypeOK, KeyAssigned
  <2> QED
    BY <1>1, <2>1 DEF KeyAssigned
<1>3. LiveOps' /\ sets' \in Seq(StatusOps) /\ pubs' \in Seq(StatusOps)
               /\ inflight' \in Seq(RecordOps) /\ hung' \in BOOLEAN
  <2>1. sets' = <<>> /\ pubs' = <<>> /\ inflight' = <<>> /\ hung' = FALSE
    BY DEF ProcessEnd
  <2>2. \A T : <<>> \in Seq(T)
    OBVIOUS
  <2> QED
    BY <2>1, <2>2 DEF LiveOps
<1>4. BufferBounds'
  BY DEF ProcessEnd, TypeInv, BufferBounds
<1>5. /\ connections' \in [Addrs -> Sockets \cup {None}]
      /\ imeiToSocketId' \in [Imeis -> Addrs \cup {None}]
  <2>1. /\ connections' = [a \in Addrs |-> None]
        /\ imeiToSocketId' = [i \in Imeis |-> None]
    BY DEF ProcessEnd
  <2> QED
    BY <2>1
<1>6. stopping' \in BOOLEAN /\ ends' \in Nat /\ unannounced' \subseteq Imeis
  <2>1. stopping' = FALSE /\ ends' = ends + 1
    BY DEF ProcessEnd
  <2>2. ends \in Nat
    BY DEF TypeInv, TypeOK
  <2>3. ends' \in Nat
    BY <2>1, <2>2
  <2>4. unannounced' \subseteq Imeis
    BY DEF ProcessEnd, TypeInv, TypeOK
  <2> QED
    BY <2>1, <2>3, <2>4
<1> QED
  BY <1>1, <1>2, <1>3, <1>4, <1>5, <1>6 DEF ProcessEnd, TypeInv, TypeOK

\* Every step preserves the type invariant.
LEMMA TypeStep ==
    ASSUME TypeInv, [Next]_vars
    PROVE  TypeInv'
<1>1. CASE UNCHANGED vars
  BY <1>1 DEF vars, registryVars, connVars, redisVars, dataVars, lifeVars, TypeInv, TypeOK,
              BufferBounds, KeyAssigned, LiveOps, LiveRecordOps, LiveStatusOps
<1>2. ASSUME NEW s \in Sockets, SocketStep(s)
      PROVE  TypeInv'
  BY <1>2, AcceptType, SocketEventType, CloseEventType, DataEventType DEF SocketStep
<1>3. CASE CleanupTick \/ Stop
  BY <1>3, SocketEventType
<1>4. CASE SetReply \/ PublishReply
  BY <1>4, ReplyType
<1>5. CASE \E k \in 1..Len(inflight), added \in BOOLEAN : RecordSettled(k, added)
  BY <1>5, RecordSettledType
<1>6. CASE ProcessEnd
  BY <1>6, ProcessEndType
<1> QED
  BY <1>1, <1>2, <1>3, <1>4, <1>5, <1>6 DEF Next

\* The invariant holds in every reachable state.
LEMMA TypeInvariance == Spec => []TypeInv
<1>1. Init => TypeInv
  BY TypeInit
<1>2. TypeInv /\ [Next]_vars => TypeInv'
  BY TypeStep
<1> QED
  BY <1>1, <1>2, PTL DEF Spec

\* Every variable keeps its type, whatever the devices send and however
\* handlers, replies, timers and ends of the process interleave.
THEOREM TypeCorrect == Spec => []TypeOK
<1>1. TypeInv => TypeOK
  BY DEF TypeInv
<1> QED
  BY <1>1, TypeInvariance, PTL

-----------------------------------------------------------------------------
(* The registry, when remote addresses do not come back                    *)

\* A connection is registered under the key of its own socket, and no two
\* sockets have the same key.
OwnKeys ==
    /\ \A a \in Addrs : connections[a] # None => addr[connections[a]] = a
    /\ \A s, t \in Sockets : addr[s] # None /\ addr[s] = addr[t] => s = t

\* Only accepted sockets have authenticated, and a socket that is not accepted
\* has no key.
NewIsBlank == \A s \in Sockets : sock[s] = "new" => addr[s] = None /\ imei[s] = None

RegistryInv == TypeInv /\ OwnKeys /\ NewIsBlank /\ OpenSocketsAreKnown /\ RegistryAgrees

\* Init establishes the invariant of the registry.
LEMMA RegistryInit ==
    ASSUME Init
    PROVE  RegistryInv
<1>1. TypeInv
  BY TypeInit
<1> QED
  BY <1>1 DEF Init, ManagerInit, RegistryInv, OwnKeys, NewIsBlank,
              OpenSocketsAreKnown, RegistryAgrees

\* Removing the entry under the key of a socket that is not open keeps the
\* maps in agreement.
LEMMA RemoveRegistry ==
    ASSUME RegistryInv, NEW s \in Sockets, addr[s] # None,
           RemoveConnection(addr[s]), UNCHANGED <<addr, imei>>,
           sock' \in [Sockets -> SocketStates], sock'[s] # "open",
           \A t \in Sockets \ {s} : sock'[t] = sock[t]
    PROVE  OwnKeys' /\ OpenSocketsAreKnown' /\ RegistryAgrees'
<1> DEFINE a == addr[s]
           c == connections[a]
<1>1. a \in Addrs
  BY DEF RegistryInv, TypeInv, TypeOK
<1>2. c = None \/ c = s
  BY <1>1 DEF RegistryInv, OwnKeys, TypeInv, TypeOK
<1>3. /\ connections' = [connections EXCEPT ![a] = None]
      /\ imeiToSocketId' = [i \in Imeis |-> IF c # None /\ imei[c] = i
                                           THEN None ELSE imeiToSocketId[i]]
  BY DEF RemoveConnection, ConnectionsWithout, ImeisWithout
<1>4. OwnKeys'
  BY <1>1, <1>3 DEF RegistryInv, OwnKeys, TypeInv, TypeOK
<1>5. OpenSocketsAreKnown'
  <2> SUFFICES ASSUME NEW t \in Sockets, sock'[t] = "open"
               PROVE  Registered(t)'
    BY DEF OpenSocketsAreKnown
  <2>1. t # s /\ sock[t] = "open" /\ Registered(t)
    BY DEF RegistryInv, OpenSocketsAreKnown
  <2>2. addr[t] # a
    BY <2>1 DEF Registered, RegistryInv, OwnKeys
  <2> QED
    BY <1>1, <1>3, <2>1, <2>2 DEF Registered, RegistryInv, TypeInv, TypeOK
<1>6. RegistryAgrees'
  <2>1. ASSUME NEW i \in Imeis, imeiToSocketId'[i] # None
        PROVE  /\ connections'[imeiToSocketId'[i]] # None
               /\ imei'[connections'[imeiToSocketId'[i]]] = i
    <3>1. imeiToSocketId'[i] = imeiToSocketId[i] /\ ~(c # None /\ imei[c] = i)
      BY <1>3, <2>1
    <3>2. /\ imeiToSocketId[i] \in Addrs
          /\ connections[imeiToSocketId[i]] # None
          /\ imei[connections[imeiToSocketId[i]]] = i
      BY <2>1, <3>1 DEF RegistryInv, RegistryAgrees, TypeInv, TypeOK
    <3>3. imeiToSocketId[i] # a
      BY <3>1, <3>2
    <3> QED
      BY <1>3, <3>1, <3>2, <3>3 DEF RegistryInv, TypeInv, TypeOK
  <2>2. ASSUME NEW b \in Addrs, connections'[b] # None, ~WaitingImei(connections[b])
        PROVE  imeiToSocketId'[imei'[connections'[b]]] = b
    <3>1. b # a /\ connections'[b] = connections[b]
      BY <1>1, <1>3, <2>2 DEF RegistryInv, TypeInv, TypeOK
    <3>2. /\ connections[b] \in Sockets /\ imei[connections[b]] \in Imeis
          /\ imeiToSocketId[imei[connections[b]]] = b
      BY <2>2, <3>1 DEF WaitingImei, RegistryInv, RegistryAgrees, TypeInv, TypeOK
    <3>3. ~(c # None /\ imei[c] = imei[connections[b]])
      <4>1. SUFFICES ASSUME c # None, imei[c] = imei[connections[b]]
                     PROVE  FALSE
        OBVIOUS
      <4>2. imei[c] # None
        BY <3>2, <4>1, NoneAssumption DEF NoneAssumption
      <4>3. imeiToSocketId[imei[c]] = a
        BY <1>1, <4>1, <4>2 DEF WaitingImei, RegistryInv, RegistryAgrees
      <4> QED
        BY <3>1, <3>2, <4>1, <4>3
    <3> QED
      BY <1>3, <3>1, <3>2, <3>3
  <2>3. \A b \in Addrs : connections'[b] # None => connections'[b] = connections[b]
    BY <1>1, <1>3 DEF RegistryInv, TypeInv, TypeOK
  <2> QED
    BY <2>1, <2>2, <2>3 DEF RegistryAgrees, WaitingImei
<1> QED
  BY <1>4, <1>5, <1>6

\* Authentication keeps the maps in agreement: the connection that is
\* destroyed and removed is the one that had authenticated with the same IMEI.
LEMMA SetImeiRegistry ==
    ASSUME RegistryInv, NEW s \in Sockets, NEW i \in Imeis,
           Registered(s), WaitingImei(s), sock[s] = "open",
           SetImei(s, i), UNCHANGED addr
    PROVE  OwnKeys' /\ NewIsBlank' /\ OpenSocketsAreKnown' /\ RegistryAgrees'
<1> USE DEF RegistryInv, TypeInv, TypeOK
<1> DEFINE b == addr[s]
<1>1. b \in Addrs /\ connections[b] = s /\ imei[s] = None
  BY DEF Registered, WaitingImei
<1>2. imei' = [imei EXCEPT ![s] = i]
  BY DEF SetImei
<1>3. ASSUME NEW j \in Imeis, imeiToSocketId[j] # None
      PROVE  /\ imeiToSocketId[j] \in Addrs \ {b}
             /\ connections[imeiToSocketId[j]] \in Sockets \ {s}
             /\ imei[connections[imeiToSocketId[j]]] = j
  BY <1>1, <1>3, NoneAssumption DEF RegistryAgrees, NoneAssumption
<1>4. CASE imeiToSocketId[i] = None
  <2>1. TakenOver(s, i) = {}
    BY <1>4, NoneAssumption DEF TakenOver, NoneAssumption
  <2>2. /\ imeiToSocketId' = [imeiToSocketId EXCEPT ![i] = b]
        /\ UNCHANGED <<connections, sock>>
    BY <2>1 DEF SetImei
  <2>3. OwnKeys' /\ NewIsBlank' /\ OpenSocketsAreKnown'
    BY <1>2, <2>2 DEF OwnKeys, NewIsBlank, OpenSocketsAreKnown, Registered
  <2>4. ASSUME NEW j \in Imeis, imeiToSocketId'[j] # None
        PROVE  /\ connections'[imeiToSocketId'[j]] # None
               /\ imei'[connections'[imeiToSocketId'[j]]] = j
    BY <1>1, <1>2, <1>3, <1>4, <2>2, <2>4, NoneAssumption DEF NoneAssumption
  <2>5. ASSUME NEW a \in Addrs, connections'[a] # None, imei'[connections'[a]] # None
        PROVE  imeiToSocketId'[imei'[connections'[a]]] = a
    <3>1. connections[a] \in Sockets /\ connections'[a] = connections[a]
      BY <2>2, <2>5
    <3>2. CASE connections[a] = s
      <4>1. a = b
        BY <2>5, <3>1, <3>2 DEF OwnKeys
      <4> QED
        BY <1>2, <2>2, <3>1, <3>2, <4>1
    <3>3. CASE connections[a] # s
      <4>1. imei'[connections[a]] = imei[connections[a]] /\ imei[connections[a]] \in Imeis
        BY <1>2, <2>5, <3>1, <3>3
      <4>2. imeiToSocketId[imei[connections[a]]] = a
        BY <2>5, <3>1, <4>1 DEF RegistryAgrees, WaitingImei
      <4>3. imei[connections[a]] # i
        BY <1>4, <4>2, NoneAssumption DEF NoneAssumption
      <4> QED
        BY <2>2, <3>1, <4>1, <4>2, <4>3
    <3> QED
      BY <3>2, <3>3
  <2> QED
    BY <2>3, <2>4, <2>5 DEF RegistryAgrees, WaitingImei
<1>5. CASE imeiToSocketId[i] # None
  <2> DEFINE x == imeiToSocketId[i]
             t == connections[x]
  <2>1. x \in Addrs \ {b} /\ t \in Sockets \ {s} /\ imei[t] = i /\ addr[t] = x
    BY <1>3, <1>5, NoneAssumption DEF OwnKeys, NoneAssumption
  <2>2. TakenOver(s, i) = {x}
    BY <2>1, NoneAssumption DEF TakenOver, NoneAssumption
  <2>3. /\ connections' = [connections EXCEPT ![x] = None]
        /\ imeiToSocketId' = [ImeisWithout(x) EXCEPT ![i] = b]
        /\ sock' = [sock EXCEPT ![t] = IF @ = "open" THEN "destroyed" ELSE @]
    BY <2>2 DEF SetImei, ConnectionsWithout
  <2>4. \A j \in Imeis : imeiToSocketId'[j] = IF j = i THEN b ELSE imeiToSocketId[j]
    BY <2>1, <2>3 DEF ImeisWithout
  <2>5. OwnKeys'
    BY <2>1, <2>3 DEF OwnKeys
  <2>6. NewIsBlank'
    BY <1>2, <2>1, <2>3 DEF NewIsBlank
  <2>7. OpenSocketsAreKnown'
    <3> SUFFICES ASSUME NEW u \in Sockets, sock'[u] = "open"
                 PROVE  Registered(u)'
      BY DEF OpenSocketsAreKnown
    <3>1. u # t /\ sock[u] = "open"
      BY <2>1, <2>3
    <3>2. addr[u] \in Addrs /\ addr[u] # None /\ connections[addr[u]] = u
      BY <3>1 DEF OpenSocketsAreKnown, Registered
    <3>3. addr[u] # x
      BY <3>1, <3>2
    <3> QED
      BY <2>3, <3>2, <3>3 DEF Registered
  <2>8. ASSUME NEW j \in Imeis, imeiToSocketId'[j] # None
        PROVE  /\ connections'[imeiToSocketId'[j]] # None
               /\ imei'[connections'[imeiToSocketId'[j]]] = j
    <3>1. CASE j = i
      BY <1>1, <1>2, <2>1, <2>3, <2>4, <3>1, NoneAssumption DEF NoneAssumption
    <3>2. CASE j # i
      <4>1. imeiToSocketId'[j] = imeiToSocketId[j] /\ imeiToSocketId[j] # None
        BY <2>4, <2>8, <3>2
      <4>2. /\ imeiToSocketId[j] \in Addrs
            /\ connections[imeiToSocketId[j]] \in Sockets \ {s}
            /\ imei[connections[imeiToSocketId[j]]] = j
        BY <1>3, <4>1
      <4>3. imeiToSocketId[j] # x
        BY <2>1, <3>2, <4>2
      <4> QED
        BY <1>2, <2>3, <4>1, <4>2, <4>3, NoneAssumption DEF NoneAssumption
    <3> QED
      BY <3>1, <3>2
  <2>9. ASSUME NEW a \in Addrs, connections'[a] # None, imei'[connections'[a]] # None
        PROVE  imeiToSocketId'[imei'[connections'[a]]] = a
    <3>1. a # x /\ connections'[a] = connections[a] /\ connections[a] \in Sockets
      BY <2>3, <2>9
    <3>2. CASE connections[a] = s
      <4>1. connections[a] # None
        BY <2>9, <3>1
      <4>2. a = b
        BY <3>2, <4>1 DEF OwnKeys
      <4>3. imei'[s] = i
        BY <1>2
      <4> QED
        BY <2>4, <3>1, <3>2, <4>2, <4>3
    <3>3. CASE connections[a] # s
      <4>1. imei'[connections[a]] = imei[connections[a]] /\ imei[connections[a]] \in Imeis
        BY <1>2, <2>9, <3>1, <3>3
      <4>2. imeiToSocketId[imei[connections[a]]] = a
        BY <2>9, <3>1, <4>1 DEF RegistryAgrees, WaitingImei
      <4>3. imei[connections[a]] # i
        BY <3>1, <4>2
      <4> QED
        BY <2>4, <3>1, <4>1, <4>2, <4>3
    <3> QED
      BY <3>2, <3>3
  <2> QED
    BY <2>5, <2>6, <2>7, <2>8, <2>9 DEF RegistryAgrees, WaitingImei
<1> QED
  BY <1>4, <1>5

\* A connection that is accepted takes a key that no connection has held, so
\* it overwrites no entry.
LEMMA AcceptRegistry ==
    ASSUME ~PortReuse, RegistryInv, NEW s \in Sockets, NEW a \in Addrs, NEW h,
           Accept(s, a, h)
    PROVE  /\ OwnKeys' /\ NewIsBlank' /\ OpenSocketsAreKnown' /\ RegistryAgrees'
           /\ connections[a] = None
<1> USE DEF RegistryInv, TypeInv, TypeOK
<1>1. addr[s] = None /\ imei[s] = None /\ \A t \in Sockets : addr[t] # a
  BY DEF Accept, Free, NewIsBlank
<1>2. connections[a] = None
  BY <1>1 DEF OwnKeys
<1>3. /\ addr' = [addr EXCEPT ![s] = a]
      /\ connections' = [connections EXCEPT ![a] = s]
      /\ sock' = [sock EXCEPT ![s] = "open"]
      /\ UNCHANGED <<imeiToSocketId, imei>>
  BY DEF Accept, CreateConnection
<1>4. a # None /\ s # None
  BY NoneAssumption DEF NoneAssumption
<1>5. \A b \in Addrs : connections[b] # None => b # a /\ connections[b] # s
  BY <1>1, <1>2, NoneAssumption DEF OwnKeys, NoneAssumption
<1>6. OwnKeys'
  BY <1>1, <1>3, <1>5 DEF OwnKeys
<1>7. NewIsBlank'
  BY <1>3 DEF NewIsBlank
<1>8. OpenSocketsAreKnown'
  <2> SUFFICES ASSUME NEW t \in Sockets, sock'[t] = "open"
               PROVE  Registered(t)'
    BY DEF OpenSocketsAreKnown
  <2>1. CASE t = s
    BY <1>3, <1>4, <2>1 DEF Registered
  <2>2. CASE t # s
    <3>1. addr'[t] = addr[t] /\ Registered(t)
      BY <1>3, <2>2 DEF OpenSocketsAreKnown
    <3> QED
      BY <1>1, <1>3, <3>1 DEF Registered
  <2> QED
    BY <2>1, <2>2
<1>9. RegistryAgrees'
  <2>1. ASSUME NEW i \in Imeis, imeiToSocketId'[i] # None
        PROVE  /\ connections'[imeiToSocketId'[i]] # None
               /\ imei'[connections'[imeiToSocketId'[i]]] = i
    <3>1. /\ imeiToSocketId[i] \in Addrs
          /\ connections[imeiToSocketId[i]] # None
          /\ imei[connections[imeiToSocketId[i]]] = i
      BY <1>3, <2>1 DEF RegistryAgrees
    <3> QED
      BY <1>2, <1>3, <3>1
  <2>2. ASSUME NEW b \in Addrs, connections'[b] # None, imei'[connections'[b]] # None
        PROVE  imeiToSocketId'[imei'[connections'[b]]] = b
    <3>1. b # a /\ connections'[b] = connections[b]
      BY <1>1, <1>3, <2>2
    <3> QED
      BY <1>3, <2>2, <3>1 DEF RegistryAgrees, WaitingImei
  <2> QED
    BY <2>1, <2>2 DEF RegistryAgrees, WaitingImei
<1> QED
  BY <1>2, <1>6, <1>7, <1>8, <1>9

\* The sweep and the end of the process remove connections together with the
\* entries of their IMEIs.
LEMMA SweepRegistry ==
    ASSUME RegistryInv, SweepStale, UNCHANGED <<addr, imei>>
    PROVE  OwnKeys' /\ NewIsBlank' /\ OpenSocketsAreKnown' /\ RegistryAgrees'
<1> USE DEF RegistryInv, TypeInv, TypeOK
<1> DEFINE S == StaleConnections
<1>1. /\ sock' = [s \in Sockets |-> IF s \in S /\ sock[s] = "open"
                                    THEN "destroyed" ELSE sock[s]]
      /\ connections' = [a \in Addrs |-> IF connections[a] \in S
                                         THEN None ELSE connections[a]]
      /\ imeiToSocketId' = [i \in Imeis |-> IF \E s \in S : imei[s] = i
                                            THEN None ELSE imeiToSocketId[i]]
  BY DEF SweepStale
<1>2. S \subseteq Sockets /\ \A s \in S : Registered(s)
  BY DEF StaleConnections
<1>3. OwnKeys'
  BY <1>1 DEF OwnKeys
<1>4. NewIsBlank'
  BY <1>1 DEF NewIsBlank
<1>5. OpenSocketsAreKnown'
  BY <1>1 DEF OpenSocketsAreKnown, Registered
<1>6. ASSUME NEW i \in Imeis, imeiToSocketId'[i] # None
      PROVE  /\ connections'[imeiToSocketId'[i]] # None
             /\ imei'[connections'[imeiToSocketId'[i]]] = i
  <2>1. imeiToSocketId'[i] = imeiToSocketId[i] /\ ~\E s \in S : imei[s] = i
    BY <1>1, <1>6
  <2>2. /\ imeiToSocketId[i] \in Addrs
        /\ connections[imeiToSocketId[i]] # None
        /\ imei[connections[imeiToSocketId[i]]] = i
    BY <1>6, <2>1 DEF RegistryAgrees
  <2> QED
    BY <1>1, <2>1, <2>2
<1>7. ASSUME NEW a \in Addrs, connections'[a] # None, imei'[connections'[a]] # None
      PROVE  imeiToSocketId'[imei'[connections'[a]]] = a
  <2> DEFINE c == connections[a]
  <2>1. c \in Sockets \ S /\ connections'[a] = c
    BY <1>1, <1>7
  <2>2. imei[c] \in Imeis /\ imeiToSocketId[imei[c]] = a
    BY <1>7, <2>1 DEF RegistryAgrees, WaitingImei
  <2>3. ~\E s \in S : imei[s] = imei[c]
    <3>1. SUFFICES ASSUME NEW s \in S, imei[s] = imei[c]
                   PROVE  FALSE
      OBVIOUS
    <3>2. addr[s] \in Addrs /\ connections[addr[s]] = s /\ imei[s] # None
      BY <1>2, <1>7, <2>1, <3>1 DEF Registered
    <3>3. imeiToSocketId[imei[s]] = addr[s]
      BY <1>2, <3>2, NoneAssumption DEF RegistryAgrees, WaitingImei, NoneAssumption
    <3> QED
      BY <2>1, <2>2, <3>1, <3>2, <3>3
  <2> QED
    BY <1>1, <2>1, <2>2, <2>3
<1> QED
  BY <1>3, <1>4, <1>5, <1>6, <1>7 DEF RegistryAgrees, WaitingImei

\* Steps that leave the registry alone and open no socket keep its invariant.
LEMMA QuietRegistry ==
    ASSUME RegistryInv, UNCHANGED <<registryVars, addr, imei>>,
           \A s \in Sockets : sock'[s] = sock[s] \/ (sock[s] # "new" /\ sock'[s] \notin {"new", "open"})
    PROVE  OwnKeys' /\ NewIsBlank' /\ OpenSocketsAreKnown' /\ RegistryAgrees'
<1>1. UNCHANGED <<connections, imeiToSocketId, addr, imei>>
  BY DEF registryVars
<1>2. OwnKeys'
  BY <1>1 DEF RegistryInv, OwnKeys
<1>3. NewIsBlank'
  BY <1>1 DEF RegistryInv, NewIsBlank
<1>4. OpenSocketsAreKnown'
  BY <1>1 DEF RegistryInv, OpenSocketsAreKnown, Registered
<1>5. RegistryAgrees'
  BY <1>1 DEF RegistryInv, RegistryAgrees, WaitingImei
<1> QED
  BY <1>2, <1>3, <1>4, <1>5

\* Every step preserves the invariant of the registry.
LEMMA RegistryStep ==
    ASSUME ~PortReuse, RegistryInv, [Next]_vars
    PROVE  RegistryInv'
<1>1. TypeInv'
  BY TypeStep DEF RegistryInv
<1> SUFFICES OwnKeys' /\ NewIsBlank' /\ OpenSocketsAreKnown' /\ RegistryAgrees'
  BY <1>1 DEF RegistryInv
<1>2. CASE UNCHANGED vars
  BY <1>2, QuietRegistry DEF vars, connVars, registryVars
<1>3. ASSUME NEW s \in Sockets, SocketStep(s)
      PROVE  OwnKeys' /\ NewIsBlank' /\ OpenSocketsAreKnown' /\ RegistryAgrees'
  <2>1. ASSUME NEW a \in Addrs, NEW h \in Imeis \cup {Invalid}, Accept(s, a, h)
        PROVE  OwnKeys' /\ NewIsBlank' /\ OpenSocketsAreKnown' /\ RegistryAgrees'
    BY <2>1, AcceptRegistry
  <2>2. CASE PeerClose(s) \/ GoIdle(s) \/ SocketTimeout(s)
    <3>1. UNCHANGED <<registryVars, addr, imei>>
      BY <2>2 DEF PeerClose, GoIdle, SocketTimeout
    <3>2. \A t \in Sockets : sock'[t] = sock[t] \/ (sock[t] # "new" /\ sock'[t] \notin {"new", "open"})
      BY <2>2 DEF PeerClose, GoIdle, SocketTimeout, RegistryInv, TypeInv, TypeOK
    <3> QED
      BY <3>1, <3>2, QuietRegistry
  <2>3. CASE CloseEvent(s)
    <3>1. /\ sock' = [sock EXCEPT ![s] = "closed"] /\ sock[s] = "destroyed"
          /\ UNCHANGED <<addr, imei>> /\ HandleDisconnect(s)
      BY <2>3 DEF CloseEvent
    <3>2. addr[s] # None
      BY <3>1 DEF RegistryInv, TypeInv, KeyAssigned
    <3>3. /\ sock' \in [Sockets -> SocketStates] /\ sock'[s] = "closed"
          /\ \A t \in Sockets \ {s} : sock'[t] = sock[t]
      BY <3>1 DEF RegistryInv, TypeInv, TypeOK, SocketStates
    <3>4. CASE RemoveConnection(addr[s])
      <4>1. OwnKeys' /\ OpenSocketsAreKnown' /\ RegistryAgrees'
        BY <3>1, <3>2, <3>3, <3>4, RemoveRegistry
      <4>2. NewIsBlank'
        BY <3>1 DEF RegistryInv, TypeInv, TypeOK, NewIsBlank
      <4> QED
        BY <4>1, <4>2
    <3>5. CASE UNCHANGED registryVars
      BY <3>1, <3>3, <3>5, QuietRegistry
    <3> QED
      BY <3>1, <3>4, <3>5 DEF HandleDisconnect
  <2>4. ASSUME NEW n \in 1..(2 * MaxPackets + 1), DataEvent(s, n)
        PROVE  OwnKeys' /\ NewIsBlank' /\ OpenSocketsAreKnown' /\ RegistryAgrees'
    <3>1. sock[s] = "open" /\ Registered(s) /\ UNCHANGED addr
      BY <2>4 DEF DataEvent
    <3>2. CASE WaitingImei(s) /\ hello[s] \in Whitelist
      <4>1. SetImei(s, hello[s])
        BY <2>4, <3>2 DEF DataEvent, HandleImeiPhase
      <4>2. hello[s] \in Imeis
        BY <3>2, ServerAssumption DEF ServerAssumption
      <4> QED
        BY <3>1, <3>2, <4>1, <4>2, SetImeiRegistry
    <3>3. CASE WaitingImei(s) /\ hello[s] \notin Whitelist
      <4>1. /\ sock' = [sock EXCEPT ![s] = "destroyed"]
            /\ UNCHANGED <<registryVars, imei>>
        BY <2>4, <3>3 DEF DataEvent, HandleImeiPhase
      <4>2. \A t \in Sockets : sock'[t] = sock[t] \/ (sock[t] # "new" /\ sock'[t] \notin {"new", "open"})
        BY <3>1, <4>1 DEF RegistryInv, TypeInv, TypeOK
      <4> QED
        BY <3>1, <4>1, <4>2, QuietRegistry
    <3>4. CASE ~WaitingImei(s)
      <4>1. UNCHANGED <<registryVars, sock, imei>>
        BY <2>4, <3>4 DEF DataEvent
      <4> QED
        BY <3>1, <4>1, QuietRegistry
    <3> QED
      BY <3>2, <3>3, <3>4
  <2> QED
    BY <1>3, <2>1, <2>2, <2>3, <2>4 DEF SocketStep
<1>4. CASE CleanupTick
  BY <1>4, SweepRegistry DEF CleanupTick
<1>5. CASE SetReply
  BY <1>5, QuietRegistry DEF SetReply, connVars
<1>6. CASE PublishReply
  <2> DEFINE op == Head(pubs)
  <2>1. op \in LiveStatusOps /\ UNCHANGED <<addr, imei, sock>> /\ AfterPublish(op)
    BY <1>6, HeadTailType DEF PublishReply, RegistryInv, TypeInv, LiveOps, connVars
  <2>2. /\ op.sock \in Sockets /\ addr[op.sock] # None
        /\ op.status = "offline" => sock[op.sock] # "open"
    BY <2>1 DEF LiveStatusOps, StatusOps
  <2>3. CASE UNCHANGED registryVars
    BY <2>1, <2>3, QuietRegistry
  <2>4. CASE op.status = "offline" /\ RemoveConnection(addr[op.sock])
    <3>1. sock' \in [Sockets -> SocketStates] /\ sock'[op.sock] # "open"
      BY <2>1, <2>2, <2>4 DEF RegistryInv, TypeInv, TypeOK
    <3>2. OwnKeys' /\ OpenSocketsAreKnown' /\ RegistryAgrees'
      BY <2>1, <2>2, <2>4, <3>1, RemoveRegistry
    <3>3. NewIsBlank'
      BY <2>1 DEF RegistryInv, NewIsBlank
    <3> QED
      BY <3>2, <3>3
  <2> QED
    BY <2>1, <2>3, <2>4 DEF AfterPublish
<1>7. ASSUME NEW k \in 1..Len(inflight), NEW added \in BOOLEAN, RecordSettled(k, added)
      PROVE  OwnKeys' /\ NewIsBlank' /\ OpenSocketsAreKnown' /\ RegistryAgrees'
  BY <1>7, QuietRegistry DEF RecordSettled
<1>8. CASE Stop
  <2>1. /\ UNCHANGED <<registryVars, addr, imei>>
        /\ \A s \in Sockets : \/ sock'[s] = sock[s]
                              \/ sock[s] # "new" /\ sock'[s] \notin {"new", "open"}
    BY <1>8 DEF Stop, RegistryInv, TypeInv, TypeOK
  <2> QED
    BY <2>1, QuietRegistry
<1>9. CASE ProcessEnd
  <2> USE DEF RegistryInv, TypeInv, TypeOK
  <2>1. /\ connections' = [a \in Addrs |-> None]
        /\ imeiToSocketId' = [i \in Imeis |-> None]
        /\ UNCHANGED <<addr, imei>>
        /\ \A s \in Sockets : sock'[s] # "open" /\ (sock'[s] = "new" => sock[s] = "new")
    BY <1>9 DEF ProcessEnd
  <2> QED
    BY <2>1 DEF OwnKeys, NewIsBlank, OpenSocketsAreKnown, RegistryAgrees
<1> QED
  BY <1>2, <1>3, <1>4, <1>5, <1>6, <1>7, <1>8, <1>9 DEF Next

\* The invariant of the registry holds in every reachable state.
LEMMA RegistryInvariance ==
    ASSUME ~PortReuse
    PROVE  Spec => []RegistryInv
<1>1. Init => RegistryInv
  BY RegistryInit
<1>2. RegistryInv /\ [Next]_vars => RegistryInv'
  BY RegistryStep
<1> QED
  BY <1>1, <1>2, PTL DEF Spec

\* As long as no remote address comes back, the two maps of the registry
\* agree: an IMEI never has two registered connections, and a takeover closes
\* a connection of the same device and no other.
THEOREM RegistryCorrect ==
    ASSUME ~PortReuse
    PROVE  Spec => []RegistryAgrees
<1>1. RegistryInv => RegistryAgrees
  BY DEF RegistryInv
<1> QED
  BY <1>1, RegistryInvariance, PTL

\* As long as no remote address comes back, an open socket is always found in
\* the registry, so no data event of a live device is dropped.
THEOREM OpenSocketsKnown ==
    ASSUME ~PortReuse
    PROVE  Spec => []OpenSocketsAreKnown
<1>1. RegistryInv => OpenSocketsAreKnown
  BY DEF RegistryInv
<1> QED
  BY <1>1, RegistryInvariance, PTL

-----------------------------------------------------------------------------
(* The registry implements DeviceSessions                                  *)

Session == [i \in Imeis |-> GetConnectionByImei(i)]
Used == {s \in Sockets : ~WaitingImei(s)}

\* A step that only withdraws entries of the two maps ends sessions and opens
\* none.
LEMMA WithdrawCloses ==
    ASSUME TypeOK, UNCHANGED imei,
           \A a \in Addrs : connections'[a] \in {connections[a], None},
           \A i \in Imeis : imeiToSocketId'[i] \in {imeiToSocketId[i], None}
    PROVE  \E D \in SUBSET Imeis : Sessions!Close(D)
<1> DEFINE D == {i \in Imeis : GetConnectionByImei(i)' = None}
<1>1. ASSUME NEW i \in Imeis
      PROVE  GetConnectionByImei(i)' \in {GetConnectionByImei(i), None}
  BY DEF TypeOK, GetConnectionByImei
<1>2. Session' = [i \in Imeis |-> IF i \in D THEN None ELSE Session[i]]
  BY <1>1 DEF Session
<1>3. UNCHANGED Used
  BY DEF Used, WaitingImei
<1>4. Sessions!Close(D)
  BY <1>2, <1>3 DEF Sessions!Close, Session, Used
<1> QED
  BY <1>4

\* Authentication opens a session for its IMEI and leaves the others alone.
LEMMA SetImeiLogsIn ==
    ASSUME RegistryInv, NEW s \in Sockets, NEW i \in Imeis,
           Registered(s), WaitingImei(s), sock[s] = "open",
           SetImei(s, i), UNCHANGED addr
    PROVE  Sessions!Login(i, s)
<1> USE DEF RegistryInv, TypeInv, TypeOK
<1> DEFINE b == addr[s]
<1>1. b \in Addrs /\ b # None /\ connections[b] = s /\ imei[s] = None
  BY DEF Registered, WaitingImei
<1>2. imei' = [imei EXCEPT ![s] = i]
  BY DEF SetImei
<1>3. /\ \A j \in Imeis : imeiToSocketId'[j] = IF j = i THEN b ELSE imeiToSocketId[j]
      /\ \A a \in Addrs : connections'[a] = connections[a] \/ a = imeiToSocketId[i]
      /\ connections'[b] = s
  <2>1. CASE TakenOver(s, i) = {}
    BY <1>1, <2>1 DEF SetImei
  <2>2. ASSUME NEW x \in TakenOver(s, i),
               connections' = ConnectionsWithout(x),
               imeiToSocketId' = [ImeisWithout(x) EXCEPT ![i] = b]
        PROVE  <1>3
    <3>1. x \in Addrs /\ x = imeiToSocketId[i] /\ x # b /\ connections[x] # None
      BY <2>2 DEF TakenOver
    <3>2. imei[connections[x]] = i
      BY <3>1, NoneAssumption DEF RegistryAgrees, NoneAssumption
    <3> QED
      BY <1>1, <2>2, <3>1, <3>2 DEF ConnectionsWithout, ImeisWithout
  <2> QED
    BY <2>1, <2>2 DEF SetImei
<1>4. ASSUME NEW j \in Imeis
      PROVE  GetConnectionByImei(j)' = IF j = i THEN s ELSE GetConnectionByImei(j)
  <2>1. CASE j = i
    BY <1>1, <1>3, <2>1 DEF GetConnectionByImei
  <2>2. CASE j # i /\ imeiToSocketId[j] # None
    <3>1. /\ imeiToSocketId[j] \in Addrs
          /\ imei[connections[imeiToSocketId[j]]] = j
      BY <2>2 DEF RegistryAgrees
    <3>2. imeiToSocketId[j] # imeiToSocketId[i]
      BY <2>2, <3>1 DEF RegistryAgrees
    <3> QED
      BY <1>3, <2>2, <3>1, <3>2 DEF GetConnectionByImei
  <2>3. CASE j # i /\ imeiToSocketId[j] = None
    BY <1>3, <2>3 DEF GetConnectionByImei
  <2> QED
    BY <2>1, <2>2, <2>3
<1>5. Session' = [Session EXCEPT ![i] = s]
  BY <1>4 DEF Session
<1>6. s \notin Used /\ Used' = Used \cup {s}
  BY <1>1, <1>2, NoneAssumption DEF Used, WaitingImei, NoneAssumption
<1> QED
  BY <1>5, <1>6 DEF Sessions!Login, Session, Used

\* Every step of the server is a step of DeviceSessions or changes no session.
LEMMA SessionStep ==
    ASSUME ~PortReuse, RegistryInv, [Next]_vars
    PROVE  [Sessions!Next]_<<Session, Used>>
<1> DEFINE Closes == \E D \in SUBSET Imeis : Sessions!Close(D)
           Goal == [Sessions!Next]_<<Session, Used>>
<1> USE DEF RegistryInv, TypeInv
<1>1. Closes => Goal
  BY DEF Sessions!Next
<1>2. UNCHANGED <<connections, imeiToSocketId, imei>> => Goal
  BY DEF Session, Used, GetConnectionByImei, WaitingImei
<1>3. ASSUME NEW a \in Addrs, RemoveConnection(a), UNCHANGED imei
      PROVE  Goal
  BY <1>1, <1>3, WithdrawCloses
  DEF RemoveConnection, ConnectionsWithout, ImeisWithout, TypeOK
<1>4. CASE UNCHANGED vars
  BY <1>2, <1>4 DEF vars, connVars, registryVars
<1>5. ASSUME NEW s \in Sockets, SocketStep(s)
      PROVE  Goal
  <2>1. ASSUME NEW a \in Addrs, NEW h \in Imeis \cup {Invalid}, Accept(s, a, h)
        PROVE  Goal
    <3>1. /\ connections[a] = None
          /\ connections' = [connections EXCEPT ![a] = s]
          /\ UNCHANGED <<imeiToSocketId, imei>>
      BY <2>1, AcceptRegistry DEF Accept, CreateConnection
    <3>2. \A i \in Imeis : imeiToSocketId[i] # None => imeiToSocketId[i] # a
      BY <3>1 DEF RegistryAgrees
    <3>3. UNCHANGED <<Session, Used>>
      BY <3>1, <3>2 DEF Session, Used, GetConnectionByImei, WaitingImei, TypeOK
    <3> QED
      BY <3>3
  <2>2. CASE PeerClose(s) \/ GoIdle(s) \/ SocketTimeout(s)
    BY <1>2, <2>2 DEF PeerClose, GoIdle, SocketTimeout, registryVars
  <2>3. CASE CloseEvent(s)
    <3>1. addr[s] \in Addrs
      BY <2>3 DEF CloseEvent, KeyAssigned, TypeOK
    <3> QED
      BY <1>2, <1>3, <2>3, <3>1 DEF CloseEvent, HandleDisconnect, registryVars
  <2>4. ASSUME NEW n \in 1..(2 * MaxPackets + 1), DataEvent(s, n)
        PROVE  Goal
    <3>1. CASE WaitingImei(s) /\ hello[s] \in Whitelist
      <4>1. /\ SetImei(s, hello[s]) /\ sock[s] = "open" /\ Registered(s)
            /\ UNCHANGED addr
        BY <2>4, <3>1 DEF DataEvent, HandleImeiPhase
      <4>2. hello[s] \in Imeis
        BY <3>1, ServerAssumption DEF ServerAssumption
      <4>3. Sessions!Login(hello[s], s)
        BY <3>1, <4>1, <4>2, SetImeiLogsIn
      <4> QED
        BY <4>2, <4>3 DEF Sessions!Next
    <3>2. CASE ~(WaitingImei(s) /\ hello[s] \in Whitelist)
      BY <1>2, <2>4, <3>2 DEF DataEvent, HandleImeiPhase, registryVars
    <3> QED
      BY <3>1, <3>2
  <2> QED
    BY <1>5, <2>1, <2>2, <2>3, <2>4 DEF SocketStep
<1>6. CASE CleanupTick
  BY <1>1, <1>6, WithdrawCloses DEF CleanupTick, SweepStale, TypeOK
<1>7. CASE SetReply
  BY <1>2, <1>7 DEF SetReply, connVars, registryVars
<1>8. CASE PublishReply
  <2>1. Head(pubs) \in LiveStatusOps /\ UNCHANGED imei /\ AfterPublish(Head(pubs))
    BY <1>8, HeadTailType DEF PublishReply, LiveOps, connVars
  <2>2. addr[Head(pubs).sock] \in Addrs
    BY <2>1 DEF LiveStatusOps, StatusOps, TypeOK
  <2> QED
    BY <1>2, <1>3, <2>1, <2>2 DEF AfterPublish, registryVars
<1>9. ASSUME NEW k \in 1..Len(inflight), NEW added \in BOOLEAN, RecordSettled(k, added)
      PROVE  Goal
  BY <1>2, <1>9 DEF RecordSettled, registryVars
<1>10. CASE Stop
  BY <1>2, <1>10 DEF Stop, registryVars
<1>11. CASE ProcessEnd
  BY <1>1, <1>11, WithdrawCloses DEF ProcessEnd
<1> QED
  BY <1>4, <1>5, <1>6, <1>7, <1>8, <1>9, <1>10, <1>11
  DEF Next

\* As long as no remote address comes back, the answers of getConnectionByImei
\* are the sessions of DeviceSessions: a connection serves one device during
\* one period and never again.
THEOREM SessionsImplemented ==
    ASSUME ~PortReuse
    PROVE  Spec => ImplementsSessions
<1>1. Init => Sessions!Init
  BY DEF Init, ManagerInit, Sessions!Init, GetConnectionByImei, WaitingImei
<1>2. RegistryInv /\ [Next]_vars => [Sessions!Next]_<<Session, Used>>
  BY SessionStep
<1> QED
  BY <1>1, <1>2, RegistryInvariance, PTL
  DEF Spec, ImplementsSessions, Sessions!Spec, Session, Used

-----------------------------------------------------------------------------
(* Packets                                                                 *)

\* What the loop of handleDataPhase does to buffers and packets: it waits or
\* skips, or it takes up the packet at some place behind the start of the buffer.
TakesUp(s, c, ops) ==
    /\ c % 2 = 1 /\ PacketAt(c) \in Packets
    /\ consumed' = Take(s, c)
    /\ started' = [started EXCEPT ![s][PacketAt(c)] = IF @ = 0 THEN 1 ELSE 2]
    /\ inflight' = Append(ops, [sock |-> s, pkt |-> PacketAt(c), rec |-> 1])

\* The loop of handleDataPhase either takes a packet up or starts no record.
LEMMA PhaseTakesUp ==
    ASSUME TypeInv, NEW s \in Sockets, NEW d \in Nat, consumed[s] <= d, d <= 2 * MaxPackets + 1,
           NEW ops, HandleDataPhase(s, d, ops)
    PROVE  \/ /\ inflight' = ops /\ UNCHANGED started
              /\ \A t \in Sockets : consumed'[t] >= consumed[t]
           \/ \E c \in consumed[s]..d : TakesUp(s, c, ops)
<1> USE DEF TypeInv, TypeOK, BufferBounds
<1>1. PICK c \in consumed[s]..d :
        \/ consumed' = [consumed EXCEPT ![s] = d] /\ inflight' = ops /\ UNCHANGED started
        \/ consumed' = [consumed EXCEPT ![s] = c] /\ inflight' = ops /\ UNCHANGED started
        \/ /\ CompleteGood(c, d)
           /\ consumed' = Take(s, c)
           /\ started' = [started EXCEPT ![s][PacketAt(c)] = IF @ = 0 THEN 1 ELSE 2]
           /\ inflight' = Append(ops, [sock |-> s, pkt |-> PacketAt(c), rec |-> 1])
        \/ inflight' = ops /\ UNCHANGED <<consumed, started>>
  BY DEF HandleDataPhase, ProcessRecord
<1>2. c \in Nat /\ consumed[s] \in Nat
  OBVIOUS
<1>3. CASE CompleteGood(c, d) /\ consumed' = Take(s, c)
           /\ started' = [started EXCEPT ![s][PacketAt(c)] = IF @ = 0 THEN 1 ELSE 2]
           /\ inflight' = Append(ops, [sock |-> s, pkt |-> PacketAt(c), rec |-> 1])
  <2>1. PacketAt(c) \in Packets
    BY <1>2, <1>3, PacketInRange DEF CompleteGood
  <2>2. c % 2 = 1
    BY <1>2, <1>3 DEF CompleteGood, Complete, BadPreamble
  <2> QED
    BY <1>3, <2>1, <2>2 DEF TakesUp
<1>4. ASSUME NEW b \in {c, d}, consumed' = [consumed EXCEPT ![s] = b]
      PROVE  \A t \in Sockets : consumed'[t] >= consumed[t]
  BY <1>2, <1>4
<1>5. ASSUME UNCHANGED consumed PROVE \A t \in Sockets : consumed'[t] >= consumed[t]
  BY <1>5
<1> QED
  BY <1>1, <1>3, <1>4, <1>5

\* Records that are under way follow on records that were settled: queued, or
\* rejected by the queue.
SettledOps == {op \in RecordOps : \A r \in 1..(op.rec - 1) : <<op.pkt, r>> \in jobs[op.sock] \cup lost[op.sock]}

QueueInv == TypeInv /\ inflight \in Seq(SettledOps) /\ AckedIsSettled

\* What was settled before a step is settled after it.
LEMMA SettledStays ==
    ASSUME TypeInv, \A s \in Sockets : (jobs[s] \cup lost[s]) \subseteq (jobs'[s] \cup lost'[s])
    PROVE  SettledOps \subseteq SettledOps'
  BY DEF SettledOps, RecordOps

\* The loop takes up first records, which follow on nothing.
LEMMA PhaseQueues ==
    ASSUME TypeInv, NEW s \in Sockets, NEW d \in Nat, consumed[s] <= d, d <= 2 * MaxPackets + 1,
           NEW T, NEW ops \in Seq(T), HandleDataPhase(s, d, ops),
           \A p \in Packets : [sock |-> s, pkt |-> p, rec |-> 1] \in T
    PROVE  inflight' \in Seq(T)
<1>1. CASE inflight' = ops
  BY <1>1
<1>2. ASSUME NEW c \in consumed[s]..d, TakesUp(s, c, ops) PROVE inflight' \in Seq(T)
  BY <1>2 DEF TakesUp
<1> QED
  BY <1>1, <1>2, PhaseTakesUp

\* The first record of a packet follows on no other.
LEMMA FirstRecord ==
    ASSUME NEW s \in Sockets, NEW p \in Packets
    PROVE  [sock |-> s, pkt |-> p, rec |-> 1] \in SettledOps
  BY ServerAssumption DEF ServerAssumption, SettledOps, RecordOps

\* An acknowledgment follows the last record, and every record before it was settled.
LEMMA QueueStep ==
    ASSUME QueueInv, [Next]_vars
    PROVE  QueueInv'
<1>1. TypeInv /\ TypeInv' /\ inflight \in Seq(SettledOps) /\ AckedIsSettled
  BY TypeStep DEF QueueInv
<1>2. ASSUME UNCHANGED <<jobs, lost, acked>>, inflight' \in Seq(SettledOps) PROVE QueueInv'
  <2>1. SettledOps \subseteq SettledOps'
    BY <1>1, <1>2, SettledStays
  <2>2. AckedIsSettled'
    BY <1>1, <1>2 DEF AckedIsSettled
  <2> QED
    BY <1>1, <1>2, <2>1, <2>2, SeqMonotone DEF QueueInv
<1>3. ASSUME UNCHANGED dataVars PROVE QueueInv'
  BY <1>1, <1>2, <1>3 DEF dataVars
<1>4. ASSUME NEW s \in Sockets, NEW n \in 1..(2 * MaxPackets + 1), DataEvent(s, n) PROVE QueueInv'
  <2>1. CASE WaitingImei(s)
    BY <1>3, <1>4, <2>1 DEF DataEvent
  <2>2. CASE ~WaitingImei(s)
    <3>1. /\ HandleDataPhase(s, delivered[s] + n, inflight) /\ UNCHANGED <<jobs, lost, acked>>
          /\ delivered[s] + n <= Sendable(s)
      BY <1>4, <2>2 DEF DataEvent
    <3>2. /\ delivered[s] + n \in Nat /\ consumed[s] <= delivered[s] + n
          /\ delivered[s] + n <= 2 * MaxPackets + 1
      <4>1. delivered[s] \in Nat /\ consumed[s] \in Nat /\ consumed[s] <= delivered[s]
        BY <1>1 DEF TypeInv, TypeOK, BufferBounds
      <4>2. Sendable(s) \in Nat /\ Sendable(s) <= 2 * MaxPackets + 1 /\ MaxPackets \in Nat
        BY <1>1, SendableBound, ServerAssumption DEF TypeInv, ServerAssumption
      <4> QED
        BY <3>1, <4>1, <4>2
    <3>3. inflight' \in Seq(SettledOps)
      BY <1>1, <3>1, <3>2, PhaseQueues, FirstRecord
    <3> QED
      BY <1>2, <3>1, <3>3
  <2> QED
    BY <2>1, <2>2
<1>5. ASSUME NEW k \in 1..Len(inflight), NEW added \in BOOLEAN, RecordSettled(k, added) PROVE QueueInv'
  <2> DEFINE op == inflight[k]
             s == op.sock
             rest == RemoveAt(inflight, k)
  <2>1. /\ op \in SettledOps /\ op \in RecordOps /\ rest \in Seq(SettledOps)
    BY <1>1, RemoveAtType DEF SettledOps
  <2>2. s \in Sockets /\ op.pkt \in Packets /\ op.rec \in 1..Records
    BY <2>1 DEF RecordOps
  <2>3. /\ \/ jobs' = [jobs EXCEPT ![s] = @ \cup {<<op.pkt, op.rec>>}] /\ UNCHANGED lost
           \/ lost' = [lost EXCEPT ![s] = @ \cup {<<op.pkt, op.rec>>}] /\ UNCHANGED jobs
        /\ IF ~LastRecord(op)
           THEN /\ inflight' = Append(rest, [sock |-> s, pkt |-> op.pkt, rec |-> op.rec + 1])
                /\ UNCHANGED acked
           ELSE /\ acked' = IF sock[s] = "open"
                            THEN [acked EXCEPT ![s] = @ \cup {op.pkt}] ELSE acked
                /\ HandleDataPhase(s, delivered[s], rest)
    BY <1>5 DEF RecordSettled, ProcessRecord, LoopAgain
  <2>4. \A t \in Sockets : (jobs[t] \cup lost[t]) \subseteq (jobs'[t] \cup lost'[t])
    <3> DEFINE Numbered == Packets \X (1..Records)
               it == <<op.pkt, op.rec>>
    <3>1. jobs \in [Sockets -> SUBSET Numbered] /\ lost \in [Sockets -> SUBSET Numbered]
      BY <1>1 DEF TypeInv, TypeOK
    <3>2. \/ jobs' = [jobs EXCEPT ![s] = @ \cup {it}] /\ UNCHANGED lost
          \/ lost' = [lost EXCEPT ![s] = @ \cup {it}] /\ UNCHANGED jobs
      BY <2>3
    <3> HIDE DEF Numbered, it, op, s
    <3>3. \A t \in Sockets : jobs[t] \subseteq jobs'[t] /\ lost[t] \subseteq lost'[t]
      BY <3>1, <3>2
    <3> QED
      BY <3>3
  <2>5. \A r \in 1..op.rec : <<op.pkt, r>> \in jobs'[s] \cup lost'[s]
    <3>1. jobs'[s] \cup lost'[s] = (jobs[s] \cup lost[s]) \cup {<<op.pkt, op.rec>>}
      BY <1>1, <2>2, <2>3 DEF TypeInv, TypeOK
    <3>2. \A r \in 1..(op.rec - 1) : <<op.pkt, r>> \in jobs[s] \cup lost[s]
      BY <2>1 DEF SettledOps
    <3> QED
      BY <2>2, <3>1, <3>2
  <2>6. rest \in Seq(SettledOps')
    BY <1>1, <2>1, <2>4, SettledStays, SeqMonotone
  <2> HIDE DEF rest
  <2>7. CASE ~LastRecord(op)
    <3>1. [sock |-> s, pkt |-> op.pkt, rec |-> op.rec + 1] \in SettledOps'
      <4>1. op.rec + 1 \in 1..Records
        BY <2>2, <2>7, ServerAssumption DEF LastRecord, ServerAssumption
      <4> QED
        BY <2>2, <2>5, <4>1 DEF SettledOps, RecordOps
    <3>2. inflight' \in Seq(SettledOps')
      BY <2>3, <2>6, <2>7, <3>1
    <3>3. AckedIsSettled'
      BY <1>1, <2>3, <2>4, <2>7 DEF AckedIsSettled
    <3> QED
      BY <1>1, <3>2, <3>3 DEF QueueInv
  <2>8. CASE LastRecord(op)
    <3>1. \A p \in Packets : [sock |-> s, pkt |-> p, rec |-> 1] \in SettledOps'
      BY <1>1, <2>2, <2>4, FirstRecord, SettledStays
    <3>2. /\ delivered[s] \in Nat /\ consumed[s] <= delivered[s]
          /\ delivered[s] <= 2 * MaxPackets + 1
      BY <1>1, <2>2 DEF TypeInv, TypeOK, BufferBounds
    <3>3. inflight' \in Seq(SettledOps')
      BY <1>1, <2>2, <2>3, <2>6, <2>8, <3>1, <3>2, PhaseQueues
    <3>4. AckedIsSettled'
      <4> SUFFICES ASSUME NEW t \in Sockets, NEW p \in acked'[t], NEW r \in 1..Records
                   PROVE  <<p, r>> \in jobs'[t] \cup lost'[t]
        BY DEF AckedIsSettled
      <4> HIDE DEF s, op
      <4>1. p \in acked[t] \/ (t = s /\ p = op.pkt)
        <5>1. acked' = acked \/ acked' = [acked EXCEPT ![s] = acked[s] \cup {op.pkt}]
          BY <2>3, <2>8
        <5>2. acked \in [Sockets -> SUBSET Packets]
          BY <1>1 DEF TypeInv, TypeOK
        <5> QED
          BY <2>2, <5>1, <5>2
      <4> QED
        BY <1>1, <2>4, <2>5, <2>8, <4>1 DEF AckedIsSettled, LastRecord
    <3> QED
      BY <1>1, <3>3, <3>4 DEF QueueInv
  <2> QED
    BY <2>7, <2>8
<1>6. CASE ProcessEnd
  BY <1>2, <1>6 DEF ProcessEnd
<1>7. CASE UNCHANGED vars
  BY <1>3, <1>7 DEF vars
<1>8. ASSUME NEW s \in Sockets, SocketStep(s) PROVE QueueInv'
  BY <1>3, <1>4, <1>8 DEF SocketStep, Accept, PeerClose, GoIdle, SocketTimeout, CloseEvent, dataVars
<1> QED
  BY <1>3, <1>5, <1>6, <1>7, <1>8 DEF Next, CleanupTick, SetReply, PublishReply, Stop

\* A packet is acknowledged only after each of its records was settled: queued, or
\* rejected by the queue and logged.  However the bytes are cut, the handlers overlap
\* and the queue rejects (server.ts:266-302, 395-400).
THEOREM AcknowledgedIsSettled == Spec => []AckedIsSettled
<1>1. Init => QueueInv
  <2> SUFFICES ASSUME Init PROVE inflight \in Seq(SettledOps) /\ AckedIsSettled
    BY TypeInit DEF QueueInv
  <2>1. inflight = <<>> /\ acked = [s \in Sockets |-> {}]
    BY DEF Init
  <2> QED
    BY <2>1 DEF AckedIsSettled
<1>2. QueueInv /\ [Next]_vars => QueueInv'
  BY QueueStep
<1>3. QueueInv => AckedIsSettled
  BY DEF QueueInv
<1> QED
  BY <1>1, <1>2, <1>3, PTL DEF Spec

-----------------------------------------------------------------------------
(* A packet is taken up once                                               *)

\* What is in flight belongs to connections that gave their IMEI.
AuthOps == {op \in RecordOps : imei[op.sock] # None}

\* Packets that were taken up lie before the place the buffer begins at.
OnceBelow(s) == \A p \in Packets : started[s][p] <= 1 /\ (started[s][p] = 1 => 2 * p + 1 <= consumed[s])

IdleUntilLogin == \A s \in Sockets : imei[s] = None => \A p \in Packets : started[s][p] = 0
RegisteredOnce == \A s \in Sockets : Registered(s) => OnceBelow(s)

TakeInv == TypeInv /\ NewIsBlank /\ inflight \in Seq(AuthOps) /\ IdleUntilLogin /\ RegisteredOnce

\* Steps that take no packet up: a login may set the buffer back, but nothing was
\* taken up before it; and only a new connection enters the registry.
LEMMA TakeQuiet ==
    ASSUME TakeInv, TypeInv', UNCHANGED started, inflight' \in Seq(AuthOps),
           \A s \in Sockets : consumed'[s] >= consumed[s] \/ imei[s] = None,
           \A s \in Sockets : imei'[s] = None => imei[s] = None,
           \A s \in Sockets : sock'[s] = "new" => sock[s] = "new" /\ addr'[s] = addr[s] /\ imei'[s] = imei[s],
           \A s \in Sockets : Registered(s)' => Registered(s) \/ imei[s] = None
    PROVE  TakeInv'
<1>1. NewIsBlank'
  BY DEF TakeInv, NewIsBlank
<1>2. inflight' \in Seq(AuthOps')
  <2>1. AuthOps \subseteq AuthOps'
    BY DEF AuthOps, RecordOps
  <2> QED
    BY <2>1, SeqMonotone
<1>3. IdleUntilLogin'
  BY DEF TakeInv, IdleUntilLogin
<1>4. RegisteredOnce'
  <2> SUFFICES ASSUME NEW s \in Sockets, Registered(s)', NEW p \in Packets
               PROVE  started'[s][p] <= 1 /\ (started'[s][p] = 1 => 2 * p + 1 <= consumed'[s])
    BY DEF RegisteredOnce, OnceBelow
  <2>1. CASE imei[s] = None
    BY <2>1 DEF TakeInv, IdleUntilLogin
  <2>2. CASE imei[s] # None
    <3>1. consumed[s] \in Nat /\ consumed'[s] \in Nat /\ consumed'[s] >= consumed[s] /\ 2 * p + 1 \in Nat
      BY <2>2, ServerAssumption DEF TakeInv, TypeInv, TypeOK, Packets, ServerAssumption
    <3> QED
      BY <2>2, <3>1 DEF TakeInv, RegisteredOnce, OnceBelow
  <2> QED
    BY <2>1, <2>2
<1> QED
  BY <1>1, <1>2, <1>3, <1>4 DEF TakeInv

\* The packet that is taken up lies behind every one before it.
LEMMA TakeUpKeeps ==
    ASSUME TakeInv, TypeInv', NEW s \in Sockets, imei[s] # None, NEW d \in Nat, NEW c \in consumed[s]..d,
           NEW ops \in Seq(AuthOps), TakesUp(s, c, ops), UNCHANGED <<connections, addr, sock, imei>>
    PROVE  TakeInv'
<1>1. /\ c \in Nat /\ c % 2 = 1 /\ PacketAt(c) \in Packets /\ 2 * PacketAt(c) = c + 1
      /\ started \in [Sockets -> [Packets -> 0..2]]
      /\ \A t \in Sockets : consumed[t] \in Nat /\ delivered[t] \in Nat /\ consumed[t] <= delivered[t]
      /\ consumed \in [Sockets -> Nat]
      /\ Packets \subseteq Nat
  <2>1. /\ started \in [Sockets -> [Packets -> 0..2]] /\ consumed \in [Sockets -> Nat]
        /\ \A t \in Sockets : consumed[t] \in Nat /\ delivered[t] \in Nat /\ consumed[t] <= delivered[t]
    BY DEF TakeInv, TypeInv, TypeOK, BufferBounds
  <2>2. c \in Nat
    BY <2>1
  <2>3. c % 2 = 1 /\ PacketAt(c) \in Packets
    BY DEF TakesUp
  <2>4. 2 * PacketAt(c) = c + 1
    BY <2>2, <2>3 DEF PacketAt
  <2>5. Packets \subseteq Nat
    BY ServerAssumption DEF Packets, ServerAssumption
  <2> QED
    BY <2>1, <2>2, <2>3, <2>4, <2>5
<1>2. inflight' \in Seq(AuthOps')
  <2>1. [sock |-> s, pkt |-> PacketAt(c), rec |-> 1] \in AuthOps
    BY <1>1, ServerAssumption DEF AuthOps, RecordOps, ServerAssumption
  <2>2. AuthOps' = AuthOps
    BY DEF AuthOps
  <2> QED
    BY <2>1, <2>2 DEF TakesUp
<1>3. \A t \in Sockets \ {s} : started'[t] = started[t]
  BY <1>1 DEF TakesUp
<1>4. IdleUntilLogin'
  BY <1>3 DEF TakeInv, IdleUntilLogin
<1>5. NewIsBlank'
  BY DEF TakeInv, NewIsBlank
<1>6. \A t \in Sockets : Registered(t)' <=> Registered(t)
  BY DEF Registered
<1>7. CASE Registered(s)
  <2>1. consumed' = [consumed EXCEPT ![s] = c + 2]
    BY <1>7 DEF TakesUp, Take
  <2>2. \A t \in Sockets \ {s} : Registered(t) => OnceBelow(t)'
    BY <1>1, <1>3, <2>1 DEF TakeInv, RegisteredOnce, OnceBelow
  <2>3. OnceBelow(s)
    BY <1>7 DEF TakeInv, RegisteredOnce
  <2>4. started[s][PacketAt(c)] = 0
    <3> DEFINE p == PacketAt(c)
    <3>1. /\ started[s][p] <= 1 /\ (started[s][p] = 1 => 2 * p + 1 <= consumed[s])
          /\ started[s][p] \in 0..2
      BY <1>1, <2>3 DEF OnceBelow
    <3>2. 2 * p = c + 1 /\ c \in Nat /\ consumed[s] \in Nat /\ consumed[s] <= c
      BY <1>1
    <3> HIDE DEF p
    <3>3. started[s][p] # 1
      BY <3>1, <3>2
    <3>4. started[s][p] = 0
      BY <3>1, <3>3
    <3> QED
      BY <3>4 DEF p
  <2>5. started'[s] = [started[s] EXCEPT ![PacketAt(c)] = 1]
    BY <1>1, <2>4 DEF TakesUp
  <2>6. consumed'[s] = c + 2
    BY <1>1, <2>1
  <2>7. OnceBelow(s)'
    <3> SUFFICES ASSUME NEW p \in Packets
                 PROVE  started'[s][p] <= 1 /\ (started'[s][p] = 1 => 2 * p + 1 <= consumed'[s])
      BY DEF OnceBelow
    <3>1. CASE p = PacketAt(c)
      BY <1>1, <2>5, <2>6, <3>1
    <3>2. CASE p # PacketAt(c)
      <4>1. started'[s][p] = started[s][p]
        BY <1>1, <2>5, <3>2
      <4>2. consumed[s] <= c /\ p \in Nat /\ consumed[s] \in Nat
        BY <1>1
      <4> QED
        BY <1>1, <2>3, <2>6, <4>1, <4>2 DEF OnceBelow
    <3> QED
      BY <3>1, <3>2
  <2> QED
    BY <1>2, <1>4, <1>5, <1>6, <2>2, <2>7 DEF TakeInv, RegisteredOnce
<1>8. CASE ~Registered(s)
  <2>1. consumed' = ConsumeBuffer(addr[s], 2)
    BY <1>8 DEF TakesUp, Take
  <2>2. \A t \in Sockets : consumed'[t] \in Nat /\ consumed'[t] >= consumed[t]
    BY <1>1, <2>1 DEF ConsumeBuffer
  <2>3. \A t \in Sockets \ {s} : Registered(t) => OnceBelow(t)'
    <3> SUFFICES ASSUME NEW t \in Sockets \ {s}, Registered(t), NEW p \in Packets
                 PROVE  started'[t][p] <= 1 /\ (started'[t][p] = 1 => 2 * p + 1 <= consumed'[t])
      BY DEF OnceBelow
    <3>1. started[t][p] <= 1 /\ (started[t][p] = 1 => 2 * p + 1 <= consumed[t])
      BY DEF TakeInv, RegisteredOnce, OnceBelow
    <3>2. consumed[t] \in Nat /\ consumed'[t] \in Nat /\ consumed'[t] >= consumed[t] /\ p \in Nat
      BY <1>1, <2>2
    <3> QED
      BY <1>3, <3>1, <3>2
  <2> QED
    BY <1>2, <1>4, <1>5, <1>6, <1>8, <2>3 DEF TakeInv, RegisteredOnce
<1> QED
  BY <1>7, <1>8

\* The loop of handleDataPhase for a connection that gave its IMEI.
LEMMA PhaseKeeps ==
    ASSUME TakeInv, TypeInv', NEW s \in Sockets, imei[s] # None,
           NEW d \in Nat, consumed[s] <= d, d <= 2 * MaxPackets + 1,
           NEW ops \in Seq(AuthOps), HandleDataPhase(s, d, ops), UNCHANGED <<connections, addr, sock, imei>>
    PROVE  TakeInv'
<1>1. TypeInv
  BY DEF TakeInv
<1>2. CASE inflight' = ops /\ UNCHANGED started /\ \A t \in Sockets : consumed'[t] >= consumed[t]
  BY <1>2, TakeQuiet DEF Registered
<1>3. ASSUME NEW c \in consumed[s]..d, TakesUp(s, c, ops) PROVE TakeInv'
  BY <1>3, TakeUpKeeps
<1> QED
  BY <1>1, <1>2, <1>3, PhaseTakesUp

\* Steps after which entries of the registry are gone, or all is as it was.
LEMMA TakeLeaves ==
    ASSUME TakeInv, TypeInv', UNCHANGED <<started, consumed, addr, imei>>, inflight' \in Seq(AuthOps),
           \A s \in Sockets : sock'[s] = "new" => sock[s] = "new",
           \A a \in Addrs : connections'[a] = connections[a] \/ connections'[a] = None
    PROVE  TakeInv'
<1>1. \A s \in Sockets : Registered(s)' => Registered(s)
  <2> SUFFICES ASSUME NEW s \in Sockets, Registered(s)' PROVE Registered(s)
    OBVIOUS
  <2>1. addr[s] \in Addrs /\ s # None
    BY NoneAssumption DEF TakeInv, TypeInv, TypeOK, Registered
  <2> QED
    BY <2>1 DEF Registered
<1>2. \A s \in Sockets : consumed'[s] >= consumed[s]
  BY DEF TakeInv, TypeInv, TypeOK
<1> QED
  BY <1>1, <1>2, TakeQuiet

\* Every step keeps that a registered connection takes a packet up once.
LEMMA TakeStep ==
    ASSUME TakeInv, [Next]_vars
    PROVE  TakeInv'
<1>1. TypeInv /\ TypeInv' /\ inflight \in Seq(AuthOps)
  BY TypeStep DEF TakeInv
<1>2. ASSUME UNCHANGED <<started, consumed, inflight, addr, imei>>,
             \A s \in Sockets : sock'[s] = "new" => sock[s] = "new",
             UNCHANGED connections \/ \E a \in Addrs : connections' = ConnectionsWithout(a)
      PROVE TakeInv'
  <2>1. \A a \in Addrs : connections'[a] = connections[a] \/ connections'[a] = None
    BY <1>1, <1>2 DEF ConnectionsWithout, TypeInv, TypeOK
  <2> QED
    BY <1>1, <1>2, <2>1, TakeLeaves
<1>3. CASE UNCHANGED vars
  BY <1>2, <1>3 DEF vars, registryVars, connVars, dataVars
<1>4. ASSUME NEW s \in Sockets, SocketStep(s) PROVE TakeInv'
  <2>1. ASSUME NEW a \in Addrs, NEW h \in Imeis \cup {Invalid}, Accept(s, a, h) PROVE TakeInv'
    <3>1. /\ sock[s] = "new" /\ sock' = [sock EXCEPT ![s] = "open"]
          /\ addr' = [addr EXCEPT ![s] = a] /\ connections' = [connections EXCEPT ![a] = s]
          /\ UNCHANGED <<imei, consumed, inflight, started>>
      BY <2>1 DEF Accept, CreateConnection, dataVars
    <3>2. \A t \in Sockets : Registered(t)' => Registered(t) \/ imei[t] = None
      <4>1. imei[s] = None
        BY <3>1 DEF TakeInv, NewIsBlank
      <4>2. ASSUME NEW t \in Sockets \ {s}, Registered(t)' PROVE Registered(t)
        BY <1>1, <3>1, <4>2 DEF Registered, TypeInv, TypeOK
      <4> QED
        BY <4>1, <4>2
    <3>3. \A t \in Sockets : sock'[t] = "new" => sock[t] = "new" /\ addr'[t] = addr[t]
      BY <1>1, <3>1 DEF TypeInv, TypeOK
    <3>4. \A t \in Sockets : consumed'[t] >= consumed[t]
      BY <1>1, <3>1 DEF TypeInv, TypeOK
    <3> QED
      BY <1>1, <3>1, <3>2, <3>3, <3>4, TakeQuiet
  <2>2. CASE PeerClose(s) \/ GoIdle(s) \/ SocketTimeout(s)
    <3>1. UNCHANGED <<registryVars, addr, imei, started, consumed, inflight>>
      BY <2>2 DEF PeerClose, GoIdle, SocketTimeout, dataVars
    <3>2. \A t \in Sockets : sock'[t] = "new" => sock[t] = "new"
      BY <1>1, <2>2 DEF PeerClose, GoIdle, SocketTimeout, TypeInv, TypeOK
    <3> QED
      BY <1>2, <3>1, <3>2 DEF registryVars
  <2>3. CASE CloseEvent(s)
    <3>1. /\ sock[s] = "destroyed" /\ sock' = [sock EXCEPT ![s] = "closed"]
          /\ UNCHANGED <<addr, imei, started, consumed, inflight>> /\ HandleDisconnect(s)
      BY <2>3 DEF CloseEvent, dataVars
    <3>2. addr[s] \in Addrs
      BY <1>1, <3>1 DEF TypeInv, TypeOK, KeyAssigned
    <3>3. \A t \in Sockets : sock'[t] = "new" => sock[t] = "new"
      BY <1>1, <3>1 DEF TypeInv, TypeOK
    <3> QED
      BY <1>2, <3>1, <3>2, <3>3 DEF HandleDisconnect, RemoveConnection, registryVars
  <2>4. ASSUME NEW n \in 1..(2 * MaxPackets + 1), DataEvent(s, n) PROVE TakeInv'
    <3>1. Registered(s) /\ sock[s] = "open" /\ UNCHANGED addr /\ delivered[s] + n <= Sendable(s)
      BY <2>4 DEF DataEvent
    <3>2. CASE WaitingImei(s)
      <4>1. HandleImeiPhase(s) /\ UNCHANGED <<started, inflight>> /\ imei[s] = None
        BY <2>4, <3>2 DEF DataEvent, dataVars, WaitingImei
      <4>2. \A t \in Sockets : consumed'[t] >= consumed[t] \/ imei[t] = None
        BY <1>1, <4>1 DEF HandleImeiPhase, TypeInv, TypeOK
      <4>3. CASE hello[s] \in Whitelist
        <5>1. SetImei(s, hello[s]) /\ hello[s] \in Imeis /\ addr[s] \in Addrs
          BY <1>1, <3>1, <4>1, <4>3, ServerAssumption
          DEF HandleImeiPhase, ServerAssumption, Registered, TypeInv, TypeOK
        <5>2. \A t \in Sockets : sock'[t] = sock[t] \/ (sock[t] = "open" /\ sock'[t] = "destroyed")
          BY <1>1, <5>1, SetImeiType DEF TypeInv
        <5>3. imei' = [imei EXCEPT ![s] = hello[s]] /\ hello[s] # None
          BY <5>1, NoneAssumption DEF SetImei
        <5>4. \A t \in Sockets : /\ imei'[t] = None => imei[t] = None
                                 /\ t # s => imei'[t] = imei[t]
          BY <1>1, <5>3 DEF TypeInv, TypeOK
        <5>5. UNCHANGED connections \/ \E a \in Addrs : connections' = ConnectionsWithout(a)
          BY <5>1 DEF SetImei, TakenOver
        <5>6. \A t \in Sockets : Registered(t)' => Registered(t)
          <6> SUFFICES ASSUME NEW t \in Sockets, Registered(t)' PROVE Registered(t)
            OBVIOUS
          <6>1. addr[t] \in Addrs /\ t # None
            BY <1>1, <3>1, NoneAssumption DEF TypeInv, TypeOK, Registered
          <6> QED
            BY <1>1, <3>1, <5>5, <6>1 DEF Registered, ConnectionsWithout, TypeInv, TypeOK
        <5>7. \A t \in Sockets : sock'[t] = "new" => sock[t] = "new" /\ addr'[t] = addr[t] /\ imei'[t] = imei[t]
          BY <3>1, <5>2, <5>4
        <5> QED
          BY <1>1, <4>1, <4>2, <5>4, <5>6, <5>7, TakeQuiet
      <4>4. CASE hello[s] \notin Whitelist
        <5>1. sock' = [sock EXCEPT ![s] = "destroyed"] /\ UNCHANGED <<connections, imei>>
          BY <4>1, <4>4 DEF HandleImeiPhase, registryVars
        <5>2. \A t \in Sockets : sock'[t] = "new" => sock[t] = "new"
          BY <1>1, <3>1, <5>1 DEF TypeInv, TypeOK
        <5> QED
          BY <1>1, <3>1, <4>1, <4>2, <5>1, <5>2, TakeQuiet DEF Registered
      <4> QED
        BY <4>3, <4>4
    <3>3. CASE ~WaitingImei(s)
      <4>1. /\ HandleDataPhase(s, delivered[s] + n, inflight)
            /\ UNCHANGED <<connections, addr, sock, imei>> /\ imei[s] # None
        BY <2>4, <3>3 DEF DataEvent, registryVars, WaitingImei
      <4>2. /\ delivered[s] + n \in Nat /\ consumed[s] <= delivered[s] + n
            /\ delivered[s] + n <= 2 * MaxPackets + 1
        <5>1. delivered[s] \in Nat /\ consumed[s] \in Nat /\ consumed[s] <= delivered[s]
          BY <1>1 DEF TypeInv, TypeOK, BufferBounds
        <5>2. Sendable(s) \in Nat /\ Sendable(s) <= 2 * MaxPackets + 1 /\ MaxPackets \in Nat
          BY <1>1, SendableBound, ServerAssumption DEF TypeInv, ServerAssumption
        <5> QED
          BY <3>1, <5>1, <5>2
      <4> QED
        BY <1>1, <4>1, <4>2, PhaseKeeps
    <3> QED
      BY <3>2, <3>3
  <2> QED
    BY <1>4, <2>1, <2>2, <2>3, <2>4 DEF SocketStep
<1>5. CASE CleanupTick
  <2>1. /\ UNCHANGED <<addr, imei, started, consumed, inflight>> /\ SweepStale
    BY <1>5 DEF CleanupTick, dataVars
  <2>2. /\ \A s \in Sockets : sock'[s] = "new" => sock[s] = "new"
        /\ \A a \in Addrs : connections'[a] = connections[a] \/ connections'[a] = None
    BY <1>1, <2>1 DEF SweepStale, TypeInv, TypeOK
  <2> QED
    BY <1>1, <2>1, <2>2, TakeLeaves
<1>6. CASE SetReply
  BY <1>2, <1>6 DEF SetReply, registryVars, connVars, dataVars
<1>7. CASE PublishReply
  <2> DEFINE op == Head(pubs)
  <2>1. op \in LiveStatusOps /\ UNCHANGED <<addr, imei, sock, started, consumed, inflight>> /\ AfterPublish(op)
    BY <1>1, <1>7, HeadTailType DEF PublishReply, TypeInv, LiveOps, connVars, dataVars
  <2>2. addr[op.sock] \in Addrs
    BY <1>1, <2>1 DEF LiveStatusOps, StatusOps, TypeInv, TypeOK
  <2> QED
    BY <1>2, <2>1, <2>2 DEF AfterPublish, RemoveConnection, registryVars
<1>8. ASSUME NEW k \in 1..Len(inflight), NEW added \in BOOLEAN, RecordSettled(k, added) PROVE TakeInv'
  <2> DEFINE op == inflight[k]
             s == op.sock
             rest == RemoveAt(inflight, k)
  <2>1. op \in AuthOps /\ rest \in Seq(AuthOps)
    BY <1>1, RemoveAtType
  <2>2. s \in Sockets /\ imei[s] # None /\ op.pkt \in Packets /\ op.rec \in 1..Records
    BY <2>1 DEF AuthOps, RecordOps
  <2>3. UNCHANGED <<connections, addr, sock, imei>>
    BY <1>8 DEF RecordSettled, registryVars
  <2> HIDE DEF rest
  <2>4. CASE ~LastRecord(op)
    <3>1. /\ inflight' = Append(rest, [sock |-> s, pkt |-> op.pkt, rec |-> op.rec + 1])
          /\ UNCHANGED <<consumed, started>>
      BY <1>8, <2>4 DEF RecordSettled, ProcessRecord, rest
    <3>2. [sock |-> s, pkt |-> op.pkt, rec |-> op.rec + 1] \in AuthOps
      <4>1. op.rec + 1 \in 1..Records
        BY <2>2, <2>4, ServerAssumption DEF LastRecord, ServerAssumption
      <4> QED
        BY <2>2, <4>1 DEF AuthOps, RecordOps
    <3>3. inflight' \in Seq(AuthOps)
      BY <2>1, <3>1, <3>2
    <3> QED
      BY <1>1, <2>3, <3>1, <3>3, TakeLeaves
  <2>5. CASE LastRecord(op)
    <3>1. HandleDataPhase(s, delivered[s], rest)
      BY <1>8, <2>5 DEF RecordSettled, LoopAgain, rest
    <3>2. delivered[s] \in Nat /\ consumed[s] <= delivered[s] /\ delivered[s] <= 2 * MaxPackets + 1
      BY <1>1, <2>2 DEF TypeInv, TypeOK, BufferBounds
    <3> QED
      BY <1>1, <2>1, <2>2, <2>3, <3>1, <3>2, PhaseKeeps
  <2> QED
    BY <2>4, <2>5
<1>9. CASE Stop
  <2>1. /\ UNCHANGED <<connections, addr, imei, started, consumed, inflight>>
        /\ \A s \in Sockets : sock'[s] = "new" => sock[s] = "new"
    BY <1>1, <1>9 DEF Stop, registryVars, dataVars, TypeInv, TypeOK
  <2> QED
    BY <1>2, <2>1
<1>10. CASE ProcessEnd
  <2>1. /\ UNCHANGED <<addr, imei, started, consumed>> /\ inflight' = <<>>
        /\ \A s \in Sockets : sock'[s] = "new" => sock[s] = "new"
        /\ \A a \in Addrs : connections'[a] = None
    BY <1>1, <1>10 DEF ProcessEnd, TypeInv, TypeOK
  <2>2. inflight' \in Seq(AuthOps)
    BY <2>1
  <2> QED
    BY <1>1, <2>1, <2>2, TakeLeaves
<1> QED
  BY <1>3, <1>4, <1>5, <1>6, <1>7, <1>8, <1>9, <1>10 DEF Next

\* Nothing is in flight and nothing was taken up at the start.
LEMMA TakeInit ==
    ASSUME Init
    PROVE  TakeInv
<1>1. /\ inflight = <<>> /\ started = [s \in Sockets |-> [p \in Packets |-> 0]]
      /\ addr = [s \in Sockets |-> None] /\ imei = [s \in Sockets |-> None]
  BY DEF Init, ManagerInit
<1>2. inflight \in Seq(AuthOps)
  BY <1>1
<1> QED
  BY <1>1, <1>2, TypeInit DEF TakeInv, NewIsBlank, IdleUntilLogin, RegisteredOnce, Registered

\* As long as its connection is registered no packet is taken up twice, with keys
\* that come back as well, however the overlapping calls of handleData interleave
\* (server.ts:258-302).
THEOREM TakenUpOnceRegistered == Spec => []RegisteredTakesUpOnce
<1>1. Init => TakeInv
  BY TakeInit
<1>2. TakeInv /\ [Next]_vars => TakeInv'
  BY TakeStep
<1>3. TakeInv => RegisteredTakesUpOnce
  <2> SUFFICES ASSUME TakeInv, NEW s \in Sockets, NEW p \in Packets, Registered(s)
               PROVE  ~(started[s][p] > 1)
    BY DEF RegisteredTakesUpOnce
  <2>1. started[s][p] <= 1 /\ started[s][p] \in Nat
    <3>1. started[s] \in [Packets -> 0..2]
      BY DEF TakeInv, TypeInv, TypeOK
    <3> QED
      BY <3>1 DEF TakeInv, RegisteredOnce, OnceBelow
  <2> QED
    BY <2>1
<1> QED
  BY <1>1, <1>2, <1>3, PTL DEF Spec

-----------------------------------------------------------------------------
(* What Redis reads                                                        *)

\* A key with value v, once the updates q were executed, reads "online" for i.
EndsOnline(q, v, i) ==
    \E k \in 0..Len(q) :
        /\ IF k = 0 THEN v = "online" ELSE q[k].imei = i /\ q[k].status = "online"
        /\ \A j \in (k + 1)..Len(q) : q[j].imei = i => q[j].status = "online"

\* An update of another device, or one that says "online", leaves the last word as
\* it is.
LEMMA AppendOther ==
    ASSUME NEW q \in Seq(StatusOps), NEW op \in StatusOps, NEW v, NEW i,
           EndsOnline(q, v, i), op.imei # i \/ op.status = "online"
    PROVE  EndsOnline(Append(q, op), v, i)
<1> DEFINE r == Append(q, op)
<1>1. /\ Len(r) = Len(q) + 1 /\ r[Len(q) + 1] = op /\ Len(q) \in Nat
      /\ \A j \in 1..Len(q) : r[j] = q[j]
  OBVIOUS
<1>2. PICK k \in 0..Len(q) :
          /\ IF k = 0 THEN v = "online" ELSE q[k].imei = i /\ q[k].status = "online"
          /\ \A j \in (k + 1)..Len(q) : q[j].imei = i => q[j].status = "online"
  BY DEF EndsOnline
<1> HIDE DEF r
<1>3. k \in 0..Len(r) /\ (IF k = 0 THEN v = "online" ELSE r[k].imei = i /\ r[k].status = "online")
  BY <1>1, <1>2
<1>4. ASSUME NEW j \in (k + 1)..Len(r), r[j].imei = i PROVE r[j].status = "online"
  <2>1. CASE j = Len(q) + 1
    BY <1>1, <1>4, <2>1
  <2>2. CASE j # Len(q) + 1
    <3>1. j \in (k + 1)..Len(q) /\ j \in 1..Len(q)
      BY <1>1, <2>2
    <3> QED
      BY <1>1, <1>2, <1>4, <3>1
  <2> QED
    BY <2>1, <2>2
<1>5. EndsOnline(r, v, i)
  BY <1>3, <1>4 DEF EndsOnline
<1> QED
  BY <1>5 DEF r

\* An update "online" has the last word on its device.
LEMMA AppendOnline ==
    ASSUME NEW q \in Seq(StatusOps), NEW op \in StatusOps, NEW v, op.status = "online"
    PROVE  EndsOnline(Append(q, op), v, op.imei)
<1> DEFINE r == Append(q, op)
<1>1. Len(r) = Len(q) + 1 /\ r[Len(r)] = op /\ Len(q) \in Nat
  OBVIOUS
<1> HIDE DEF r
<1>2. Len(r) \in 0..Len(r) /\ Len(r) # 0 /\ (Len(r) + 1)..Len(r) = {}
  BY <1>1
<1>3. EndsOnline(r, v, op.imei)
  BY <1>1, <1>2 DEF EndsOnline
<1> QED
  BY <1>3 DEF r

\* Executing the first update changes the value and not the last word.
LEMMA HeadExecuted ==
    ASSUME NEW q \in Seq(StatusOps), q # <<>>, NEW v, NEW i, EndsOnline(q, v, i)
    PROVE  EndsOnline(Tail(q), IF Head(q).imei = i THEN Head(q).status ELSE v, i)
<1> DEFINE r == Tail(q)
           w == IF Head(q).imei = i THEN Head(q).status ELSE v
<1>1. /\ Len(q) \in Nat /\ Len(q) > 0 /\ Len(r) = Len(q) - 1 /\ Head(q) = q[1]
      /\ \A j \in 1..Len(r) : r[j] = q[j + 1]
  OBVIOUS
<1>2. PICK k \in 0..Len(q) :
          /\ IF k = 0 THEN v = "online" ELSE q[k].imei = i /\ q[k].status = "online"
          /\ \A j \in (k + 1)..Len(q) : q[j].imei = i => q[j].status = "online"
  BY DEF EndsOnline
<1> HIDE DEF r
<1>3. CASE k \in {0, 1}
  <2>1. w = "online"
    BY <1>1, <1>2, <1>3
  <2>2. \A j \in (0 + 1)..Len(r) : r[j].imei = i => r[j].status = "online"
    <3> SUFFICES ASSUME NEW j \in 1..Len(r), r[j].imei = i PROVE r[j].status = "online"
      OBVIOUS
    <3>1. j + 1 \in (k + 1)..Len(q) /\ r[j] = q[j + 1]
      BY <1>1, <1>3
    <3> QED
      BY <1>2, <3>1
  <2>3. 0 \in 0..Len(r)
    BY <1>1
  <2> HIDE DEF w
  <2>4. EndsOnline(r, w, i)
    BY <2>1, <2>2, <2>3 DEF EndsOnline
  <2> QED
    BY <2>4 DEF r, w
<1>4. CASE k \notin {0, 1}
  <2> DEFINE l == k - 1
  <2>1. l \in 0..Len(r) /\ l # 0 /\ l \in 1..Len(r) /\ r[l] = q[k]
    BY <1>1, <1>4
  <2>2. ASSUME NEW j \in (l + 1)..Len(r), r[j].imei = i PROVE r[j].status = "online"
    <3>1. j + 1 \in (k + 1)..Len(q) /\ r[j] = q[j + 1]
      BY <1>1, <1>4
    <3> QED
      BY <1>2, <2>2, <3>1
  <2>3. r[l].imei = i /\ r[l].status = "online"
    BY <1>2, <1>4, <2>1
  <2> HIDE DEF w, l
  <2>4. EndsOnline(r, w, i)
    BY <2>1, <2>2, <2>3 DEF EndsOnline
  <2> QED
    BY <2>4 DEF r, w
<1> QED
  BY <1>3, <1>4

\* Both queues in the order in which their updates are published.
Updates == pubs \o sets

\* The two queues of commands, one behind the other: what SetReply and PublishReply
\* do to them.
LEMMA MoveOver ==
    ASSUME NEW T, NEW p \in Seq(T), NEW q \in Seq(T)
    PROVE  /\ q # <<>> => Append(p, Head(q)) \o Tail(q) = p \o q
           /\ p # <<>> => p \o q # <<>> /\ Tail(p) \o q = Tail(p \o q) /\ Head(p \o q) = Head(p)
           /\ \A e \in T : p \o Append(q, e) = Append(p \o q, e)
           /\ p \o q \in Seq(T) /\ Len(p \o q) = Len(p) + Len(q)
           /\ \A k \in 1..Len(p) : (p \o q)[k] = p[k]
           /\ \A k \in 1..Len(q) : (p \o q)[Len(p) + k] = q[k]
<1>1. /\ p \o q \in Seq(T) /\ Len(p \o q) = Len(p) + Len(q)
      /\ \A k \in 1..Len(p) : (p \o q)[k] = p[k]
      /\ \A k \in 1..Len(q) : (p \o q)[Len(p) + k] = q[k]
  OBVIOUS
<1>2. ASSUME q # <<>> PROVE Append(p, Head(q)) \o Tail(q) = p \o q
  <2> DEFINE l == Append(p, Head(q)) \o Tail(q)
             r == p \o q
  <2>1. /\ Len(q) \in Nat \ {0} /\ Len(p) \in Nat /\ Head(q) = q[1] /\ Head(q) \in T /\ Tail(q) \in Seq(T)
        /\ Len(Tail(q)) = Len(q) - 1 /\ \A k \in 1..(Len(q) - 1) : Tail(q)[k] = q[k + 1]
    BY <1>2
  <2>2. /\ Append(p, Head(q)) \in Seq(T) /\ Len(Append(p, Head(q))) = Len(p) + 1
        /\ Append(p, Head(q))[Len(p) + 1] = Head(q)
        /\ \A k \in 1..Len(p) : Append(p, Head(q))[k] = p[k]
    BY <2>1
  <2>3. l \in Seq(T) /\ Len(l) = Len(p) + Len(q) /\ r \in Seq(T) /\ Len(r) = Len(p) + Len(q)
    BY <2>1, <2>2, ConcatProperties
  <2>4. ASSUME NEW k \in 1..(Len(p) + Len(q)) PROVE l[k] = r[k]
    <3>1. l[k] = IF k <= Len(p) + 1 THEN Append(p, Head(q))[k] ELSE Tail(q)[k - (Len(p) + 1)]
      BY <2>1, <2>2, ConcatProperties
    <3>2. r[k] = IF k <= Len(p) THEN p[k] ELSE q[k - Len(p)]
      BY <2>1, ConcatProperties
    <3>3. CASE k <= Len(p)
      BY <2>1, <2>2, <3>1, <3>2, <3>3
    <3>4. CASE k = Len(p) + 1
      BY <2>1, <2>2, <3>1, <3>2, <3>4
    <3>5. CASE k > Len(p) + 1
      <4>1. k - (Len(p) + 1) \in 1..(Len(q) - 1) /\ k - (Len(p) + 1) + 1 = k - Len(p)
        BY <2>1, <3>5
      <4>2. Tail(q)[k - (Len(p) + 1)] = q[k - Len(p)]
        BY <2>1, <4>1
      <4> QED
        BY <2>1, <3>1, <3>2, <3>5, <4>2
    <3> QED
      BY <2>1, <3>3, <3>4, <3>5
  <2> HIDE DEF l, r
  <2>5. l = r
    BY <2>3, <2>4, SeqEqual
  <2> QED
    BY <2>5 DEF l, r
<1>3. ASSUME p # <<>> PROVE p \o q # <<>> /\ Tail(p) \o q = Tail(p \o q) /\ Head(p \o q) = Head(p)
  <2> DEFINE c == p \o q
             l == Tail(p) \o q
  <2>1. /\ Len(p) \in Nat \ {0} /\ Len(q) \in Nat /\ Tail(p) \in Seq(T) /\ Len(Tail(p)) = Len(p) - 1
        /\ Head(p) = p[1] /\ \A k \in 1..(Len(p) - 1) : Tail(p)[k] = p[k + 1]
    BY <1>3
  <2>2. c \in Seq(T) /\ Len(c) = Len(p) + Len(q) /\ l \in Seq(T) /\ Len(l) = Len(p) + Len(q) - 1
    BY <2>1, ConcatProperties
  <2>3. c # <<>> /\ Head(c) = p[1]
    <3>1. c[1] = p[1]
      BY <1>1, <2>1
    <3> HIDE DEF c
    <3> QED
      BY <2>1, <2>2, <3>1
  <2>4. Tail(c) \in Seq(T) /\ Len(Tail(c)) = Len(c) - 1 /\ \A k \in 1..(Len(c) - 1) : Tail(c)[k] = c[k + 1]
    <3> HIDE DEF c
    <3> QED
      BY <2>2, <2>3
  <2>5. ASSUME NEW k \in 1..(Len(p) + Len(q) - 1) PROVE l[k] = Tail(c)[k]
    <3>1. l[k] = IF k <= Len(p) - 1 THEN Tail(p)[k] ELSE q[k - (Len(p) - 1)]
      BY <2>1, ConcatProperties
    <3>2. Tail(c)[k] = c[k + 1] /\ k + 1 \in 1..(Len(p) + Len(q))
      BY <2>1, <2>2, <2>4
    <3>3. c[k + 1] = IF k + 1 <= Len(p) THEN p[k + 1] ELSE q[k + 1 - Len(p)]
      BY <2>1, <3>2, ConcatProperties
    <3>4. k + 1 - Len(p) = k - (Len(p) - 1)
      BY <2>1
    <3> QED
      BY <2>1, <3>1, <3>2, <3>3, <3>4
  <2> HIDE DEF c, l
  <2>6. l = Tail(c)
    BY <2>2, <2>4, <2>5, SeqEqual
  <2> QED
    BY <2>1, <2>3, <2>6 DEF c, l
<1>4. \A e \in T : p \o Append(q, e) = Append(p \o q, e)
  OBVIOUS
<1> QED
  BY <1>1, <1>2, <1>3, <1>4

\* An update is about the device of its connection, and "offline" follows the close
\* event.
OwnStatusOps == {op \in StatusOps : /\ imei[op.sock] = op.imei
                                    /\ op.status = "offline" => sock[op.sock] = "closed"}

RegisteredLives == \A s \in Sockets : Registered(s) => sock[s] \in {"open", "destroyed", "closed"}

\* Until its close event a registered connection has the last word on its device.
LastWord ==
    \A s \in Sockets : Registered(s) /\ imei[s] # None /\ sock[s] # "closed" =>
        /\ EndsOnline(sets, status[imei[s]], imei[s])
        /\ EndsOnline(Updates, published[imei[s]], imei[s])

\* After it, an update is under way as long as it is registered.
Announces(op, s) == op.sock = s /\ op.status = "offline"

ClosedAnnounced ==
    \A s \in Sockets : Registered(s) /\ sock[s] = "closed" =>
        \E k \in DOMAIN Updates : Announces(Updates[k], s)

\* No "online" follows that update while the connection is registered.
NoneFollows ==
    /\ \A k, j \in DOMAIN Updates :
           /\ k < j /\ Updates[k].status = "offline" /\ Registered(Updates[k].sock)
           /\ Updates[j].imei = Updates[k].imei
           => Updates[j].status = "offline"
    /\ \A k \in DOMAIN pubs : pubs[k].status = "offline" /\ Registered(pubs[k].sock) =>
           status[pubs[k].imei] # "online"

ReadsOnline(i) ==
    \/ status[i] = "online"
    \/ \E k \in DOMAIN sets : sets[k].imei = i /\ sets[k].status = "online"

\* A device that reads "online", or will, has a connection or lost its last one
\* without a word.
OnlineServed == \A i \in Imeis : ReadsOnline(i) => Online(i) \/ i \in unannounced

StatusInv == /\ sets \in Seq(OwnStatusOps) /\ pubs \in Seq(OwnStatusOps)
             /\ RegisteredLives /\ LastWord /\ ClosedAnnounced /\ NoneFollows /\ OnlineServed

\* What the invariants say of the queues.
LEMMA QueuesTyped ==
    ASSUME TypeOK
    PROVE  /\ sets \in Seq(StatusOps) /\ pubs \in Seq(StatusOps) /\ Updates \in Seq(StatusOps)
           /\ DOMAIN Updates = 1..Len(Updates) /\ Len(Updates) \in Nat
           /\ Len(Updates) = Len(pubs) + Len(sets) /\ Len(pubs) \in Nat /\ Len(sets) \in Nat
           /\ \A k \in 1..Len(pubs) : Updates[k] = pubs[k]
           /\ \A k \in 1..Len(sets) : Updates[Len(pubs) + k] = sets[k]
<1>1. sets \in Seq(StatusOps) /\ pubs \in Seq(StatusOps)
  BY DEF TypeOK
<1>2. Updates \in Seq(StatusOps)
  BY <1>1, MoveOver DEF Updates
<1> QED
  BY <1>1, <1>2, MoveOver DEF Updates

\* Every update under way is about the device of its connection.
LEMMA OwnUpdates ==
    ASSUME TypeOK, StatusInv
    PROVE  \A k \in DOMAIN Updates : Updates[k] \in OwnStatusOps
<1>1. Updates \in Seq(OwnStatusOps)
  BY MoveOver DEF StatusInv, Updates
<1> QED
  BY <1>1

\* Two registered connections do not have the same IMEI.
LEMMA OneServes ==
    ASSUME RegistryInv, NEW s \in Sockets, NEW t \in Sockets, Registered(s), Registered(t),
           imei[s] # None, imei[s] = imei[t]
    PROVE  s = t
<1>1. addr[s] \in Addrs /\ addr[t] \in Addrs
  BY DEF Registered, RegistryInv, TypeInv, TypeOK
<1>2. imeiToSocketId[imei[s]] = addr[s] /\ imeiToSocketId[imei[t]] = addr[t]
  BY <1>1, NoneAssumption DEF Registered, RegistryInv, RegistryAgrees, WaitingImei, NoneAssumption
<1> QED
  BY <1>2 DEF Registered

\* Removing the entry under the key of a socket removes that socket and no other.
LEMMA RemovesOwn ==
    ASSUME RegistryInv, NEW s \in Sockets, addr[s] # None, RemoveConnection(addr[s]), UNCHANGED addr
    PROVE  \A t \in Sockets : Registered(t)' <=> Registered(t) /\ t # s
<1>1. addr[s] \in Addrs /\ connections' = [connections EXCEPT ![addr[s]] = None]
  BY DEF RegistryInv, TypeInv, TypeOK, RemoveConnection, ConnectionsWithout
<1> SUFFICES ASSUME NEW t \in Sockets
             PROVE  Registered(t)' <=> Registered(t) /\ t # s
  OBVIOUS
<1>2. CASE t = s
  BY <1>1, <1>2, NoneAssumption DEF Registered, RegistryInv, TypeInv, TypeOK, NoneAssumption
<1>3. CASE t # s
  <2>1. addr[t] # None => addr[t] # addr[s]
    BY <1>3 DEF RegistryInv, OwnKeys
  <2> QED
    BY <1>1, <1>3, <2>1 DEF Registered, RegistryInv, TypeInv, TypeOK
<1> QED
  BY <1>2, <1>3

\* A login removes the connection its IMEI had, and no other.
LEMMA LoginRemoves ==
    ASSUME RegistryInv, NEW s \in Sockets, NEW i \in Imeis, Registered(s), WaitingImei(s),
           SetImei(s, i), UNCHANGED addr
    PROVE  /\ imei' = [imei EXCEPT ![s] = i]
           /\ \A t \in Sockets : Registered(t)' <=> Registered(t) /\ imei[t] # i
           /\ \A t \in Sockets : sock'[t] = sock[t] \/ (sock[t] = "open" /\ sock'[t] = "destroyed")
<1> USE DEF RegistryInv, TypeInv, TypeOK
<1>1. imei' = [imei EXCEPT ![s] = i] /\ addr[s] \in Addrs /\ i # None
  BY NoneAssumption DEF SetImei, Registered, NoneAssumption
<1>2. \A t \in Sockets : sock'[t] = sock[t] \/ (sock[t] = "open" /\ sock'[t] = "destroyed")
  BY <1>1, SetImeiType
<1>3. ASSUME NEW t \in Sockets, Registered(t), imei[t] = i
      PROVE  addr[t] \in TakenOver(s, i) /\ imeiToSocketId[i] = addr[t]
  <2>1. addr[t] \in Addrs /\ connections[addr[t]] = t /\ t # None
    BY <1>3, NoneAssumption DEF Registered, NoneAssumption
  <2>2. imeiToSocketId[i] = addr[t]
    BY <1>1, <1>3, <2>1 DEF RegistryAgrees, WaitingImei
  <2>3. addr[t] # addr[s]
    BY <1>1, <1>3, <2>1 DEF Registered, WaitingImei
  <2> QED
    BY <2>1, <2>2, <2>3 DEF TakenOver
<1>4. CASE TakenOver(s, i) = {}
  <2>1. UNCHANGED connections
    BY <1>4 DEF SetImei
  <2>2. \A t \in Sockets : Registered(t)' <=> Registered(t) /\ imei[t] # i
    BY <1>3, <1>4, <2>1 DEF Registered
  <2> QED
    BY <1>1, <1>2, <2>2
<1>5. CASE TakenOver(s, i) # {}
  <2>1. PICK a \in TakenOver(s, i) : connections' = [connections EXCEPT ![a] = None]
    BY <1>5 DEF SetImei, ConnectionsWithout
  <2>2. a \in Addrs /\ a = imeiToSocketId[i] /\ connections[a] # None /\ a # None
    BY <2>1, NoneAssumption DEF TakenOver, NoneAssumption
  <2>3. imei[connections[a]] = i
    BY <2>2 DEF RegistryAgrees
  <2>4. ASSUME NEW t \in Sockets
        PROVE  Registered(t)' <=> Registered(t) /\ imei[t] # i
    <3>1. CASE Registered(t) /\ imei[t] = i
      <4>1. addr[t] = a
        BY <1>3, <2>2, <3>1
      <4> QED
        BY <2>1, <2>2, <3>1, <4>1, NoneAssumption DEF Registered, NoneAssumption
    <3>2. CASE Registered(t) /\ imei[t] # i
      <4>1. addr[t] # a
        BY <2>3, <3>2 DEF Registered
      <4> QED
        BY <2>1, <3>2, <4>1 DEF Registered
    <3>3. CASE ~Registered(t)
      BY <2>1, <2>2, <3>3, NoneAssumption DEF Registered, NoneAssumption
    <3> QED
      BY <3>1, <3>2, <3>3
  <2> QED
    BY <1>1, <1>2, <2>4
<1> QED
  BY <1>4, <1>5

\* Steps without an update: connections may go if they are idle or have no IMEI, and
\* come without one; none that is registered is closed.
LEMMA QuietStatus ==
    ASSUME TypeOK, StatusInv, UNCHANGED <<imei, sets, pubs, status, published>>,
           \A s \in Sockets :
               /\ Registered(s)' => Registered(s) \/ imei[s] = None
               /\ Registered(s)' => /\ sock'[s] \in {"open", "destroyed", "closed"}
                                    /\ sock'[s] = "closed" => sock[s] = "closed" /\ Registered(s)
               /\ sock[s] \in {"closed", "killed"} => sock'[s] = sock[s]
               /\ imei[s] # None /\ Registered(s) /\ ~Registered(s)' => imei[s] \in unannounced',
           unannounced \subseteq unannounced'
    PROVE  StatusInv'
<1>1. sets \in Seq(OwnStatusOps') /\ pubs \in Seq(OwnStatusOps')
  <2>1. OwnStatusOps \subseteq OwnStatusOps'
    BY DEF OwnStatusOps, StatusOps
  <2> QED
    BY <2>1, SeqMonotone DEF StatusInv
<1>2. RegisteredLives'
  BY DEF RegisteredLives
<1>3. UNCHANGED Updates
  BY DEF Updates
<1>4. LastWord'
  <2> SUFFICES ASSUME NEW s \in Sockets, Registered(s)', imei[s] # None, sock'[s] # "closed"
               PROVE  /\ EndsOnline(sets, status[imei[s]], imei[s])
                      /\ EndsOnline(Updates, published[imei[s]], imei[s])
    BY <1>3 DEF LastWord
  <2> QED
    BY DEF StatusInv, LastWord
<1>5. ClosedAnnounced'
  BY <1>3 DEF StatusInv, ClosedAnnounced
<1>6. NoneFollows'
  <2>1. \A k \in DOMAIN Updates : Updates[k].sock \in Sockets /\ imei[Updates[k].sock] # None
    BY OwnUpdates, NoneAssumption DEF OwnStatusOps, StatusOps, NoneAssumption
  <2>2. \A k \in DOMAIN pubs : pubs[k].sock \in Sockets /\ imei[pubs[k].sock] # None
    <3>1. \A k \in DOMAIN pubs : pubs[k] \in OwnStatusOps
      BY DEF StatusInv
    <3> QED
      BY <3>1, NoneAssumption DEF OwnStatusOps, StatusOps, NoneAssumption
  <2> QED
    BY <1>3, <2>1, <2>2 DEF StatusInv, NoneFollows
<1>7. OnlineServed'
  <2> SUFFICES ASSUME NEW i \in Imeis, ReadsOnline(i)
               PROVE  Online(i)' \/ i \in unannounced'
    BY DEF OnlineServed, ReadsOnline
  <2>1. i # None
    BY NoneAssumption DEF NoneAssumption
  <2>2. CASE Online(i)
    <3>1. PICK s \in Sockets : Registered(s) /\ imei[s] = i
      BY <2>2 DEF Online
    <3>2. Registered(s)' \/ i \in unannounced'
      BY <2>1, <3>1
    <3> QED
      BY <3>1, <3>2 DEF Online
  <2> QED
    BY <2>2 DEF StatusInv, OnlineServed, ReadsOnline
<1> QED
  BY <1>1, <1>2, <1>4, <1>5, <1>6, <1>7 DEF StatusInv

\* A login announces its device, and takes it from the connection that had it.
LEMMA LoginStatus ==
    ASSUME RegistryInv, StatusInv, NEW s \in Sockets, NEW i \in Imeis,
           Registered(s), WaitingImei(s), sock[s] = "open", SetImei(s, i),
           sets' = Append(sets, [sock |-> s, imei |-> i, status |-> "online"]),
           unannounced' = unannounced \ {i},
           UNCHANGED <<addr, pubs, status, published>>
    PROVE  StatusInv'
<1> DEFINE op == [sock |-> s, imei |-> i, status |-> "online"]
<1>1. /\ imei' = [imei EXCEPT ![s] = i]
      /\ \A t \in Sockets : Registered(t)' <=> Registered(t) /\ imei[t] # i
      /\ \A t \in Sockets : sock'[t] = sock[t] \/ (sock[t] = "open" /\ sock'[t] = "destroyed")
  BY LoginRemoves
<1>2. /\ op \in StatusOps /\ TypeOK /\ imei \in [Sockets -> Imeis \cup {None}] /\ imei[s] = None
      /\ op.sock = s /\ op.imei = i /\ op.status = "online" /\ i # None
  BY NoneAssumption DEF StatusOps, Statuses, RegistryInv, TypeInv, TypeOK, WaitingImei, NoneAssumption
<1>3. sets' = Append(sets, op) /\ Updates' = Append(Updates, op)
  BY <1>2, MoveOver DEF Updates, TypeOK
<1> HIDE DEF op
<1>4. \A t \in Sockets : imei[t] # None => t # s /\ imei'[t] = imei[t]
  BY <1>1, <1>2
<1>5. /\ Len(Updates) \in Nat /\ Updates'[Len(Updates) + 1] = op
      /\ DOMAIN Updates = 1..Len(Updates) /\ DOMAIN Updates' = 1..(Len(Updates) + 1)
      /\ \A k \in DOMAIN Updates : Updates'[k] = Updates[k]
  BY <1>2, <1>3, QueuesTyped
<1>6. OwnStatusOps \subseteq OwnStatusOps'
  <2> SUFFICES ASSUME NEW o \in OwnStatusOps PROVE o \in OwnStatusOps'
    OBVIOUS
  <2>1. /\ o \in StatusOps /\ o.sock \in Sockets /\ o.imei \in Imeis /\ imei[o.sock] = o.imei
        /\ o.status = "offline" => sock[o.sock] = "closed"
    BY DEF OwnStatusOps, StatusOps
  <2>2. imei'[o.sock] = o.imei
    BY <1>4, <2>1, NoneAssumption DEF NoneAssumption
  <2> QED
    BY <1>1, <2>1, <2>2 DEF OwnStatusOps
<1>7. sets' \in Seq(OwnStatusOps') /\ pubs' \in Seq(OwnStatusOps')
  <2>1. op \in OwnStatusOps'
    BY <1>1, <1>2 DEF OwnStatusOps
  <2>2. sets \in Seq(OwnStatusOps') /\ pubs \in Seq(OwnStatusOps')
    BY <1>6, SeqMonotone DEF StatusInv
  <2> QED
    BY <1>3, <2>1, <2>2
<1>8. RegisteredLives'
  BY <1>1 DEF StatusInv, RegisteredLives
<1>9. LastWord'
  <2> SUFFICES ASSUME NEW t \in Sockets, Registered(t)', imei'[t] # None, sock'[t] # "closed"
               PROVE  /\ EndsOnline(sets', status[imei'[t]], imei'[t])
                      /\ EndsOnline(Updates', published[imei'[t]], imei'[t])
    BY DEF LastWord
  <2>1. sets \in Seq(StatusOps) /\ Updates \in Seq(StatusOps)
    BY <1>2, QueuesTyped
  <2>2. CASE t = s
    BY <1>1, <1>2, <1>3, <2>1, <2>2, AppendOnline
  <2>3. CASE t # s
    <3>1. Registered(t) /\ imei'[t] = imei[t] /\ sock[t] # "closed"
      BY <1>1, <1>2, <2>3
    <3>2. EndsOnline(sets, status[imei[t]], imei[t]) /\ EndsOnline(Updates, published[imei[t]], imei[t])
      BY <3>1 DEF StatusInv, LastWord
    <3> QED
      BY <1>2, <1>3, <2>1, <3>1, <3>2, AppendOther
  <2> QED
    BY <2>2, <2>3
<1>10. ClosedAnnounced'
  <2> SUFFICES ASSUME NEW t \in Sockets, Registered(t)', sock'[t] = "closed"
               PROVE  \E k \in DOMAIN Updates' : Announces(Updates'[k], t)
    BY DEF ClosedAnnounced, Announces
  <2>1. PICK k \in DOMAIN Updates : Announces(Updates[k], t)
    BY <1>1 DEF StatusInv, ClosedAnnounced
  <2> QED
    BY <1>5, <2>1
<1>11. NoneFollows'
  <2>1. ASSUME NEW k \in DOMAIN Updates', NEW j \in DOMAIN Updates', k < j,
               Updates'[k].status = "offline", Registered(Updates[k].sock)',
               Updates'[j].imei = Updates'[k].imei
        PROVE  Updates'[j].status = "offline"
    <3>1. k \in DOMAIN Updates /\ Updates'[k] = Updates[k]
      BY <1>5, <2>1
    <3>2. Updates[k] \in OwnStatusOps
      BY <1>2, <3>1, OwnUpdates
    <3>3. Registered(Updates[k].sock) /\ Updates[k].imei # i
      BY <1>1, <2>1, <3>1, <3>2 DEF OwnStatusOps, StatusOps
    <3>4. j \in DOMAIN Updates /\ Updates'[j] = Updates[j]
      BY <1>2, <1>5, <2>1, <3>1, <3>3
    <3> QED
      BY <2>1, <3>1, <3>3, <3>4 DEF StatusInv, NoneFollows
  <2>2. ASSUME NEW k \in DOMAIN pubs', pubs'[k].status = "offline", Registered(pubs[k].sock)'
        PROVE  status'[pubs'[k].imei] # "online"
    <3>1. pubs[k].sock \in Sockets
      BY DEF StatusInv, OwnStatusOps, StatusOps
    <3>2. Registered(pubs[k].sock)
      BY <1>1, <2>2, <3>1
    <3> QED
      BY <2>2, <3>2 DEF StatusInv, NoneFollows
  <2> QED
    BY <2>1, <2>2 DEF NoneFollows
<1>12. OnlineServed'
  <2> SUFFICES ASSUME NEW j \in Imeis, ReadsOnline(j)'
               PROVE  Online(j)' \/ j \in unannounced'
    BY DEF OnlineServed
  <2>1. CASE j = i
    BY <1>1, <1>2, <2>1 DEF Online
  <2>2. CASE j # i
    <3>1. ReadsOnline(j)
      <4>1. sets \in Seq(StatusOps) /\ Len(sets) \in Nat
        BY <1>2, QueuesTyped
      <4>2. /\ DOMAIN sets' = 1..(Len(sets) + 1) /\ DOMAIN sets = 1..Len(sets)
            /\ sets'[Len(sets) + 1] = op /\ \A k \in DOMAIN sets : sets'[k] = sets[k]
        BY <1>2, <1>3, <4>1
      <4> QED
        BY <1>2, <2>2, <4>1, <4>2 DEF ReadsOnline
    <3>2. CASE Online(j)
      <4>1. PICK t \in Sockets : Registered(t) /\ imei[t] = j
        BY <3>2 DEF Online
      <4>2. Registered(t)' /\ imei'[t] = j
        BY <1>1, <1>4, <2>2, <4>1, NoneAssumption DEF NoneAssumption
      <4> QED
        BY <4>2 DEF Online
    <3> QED
      BY <2>2, <3>1, <3>2 DEF StatusInv, OnlineServed
  <2> QED
    BY <2>1, <2>2
<1> QED
  BY <1>7, <1>8, <1>9, <1>10, <1>11, <1>12 DEF StatusInv

\* The close event of a registered connection that has logged in: its update follows
\* on all others of its device.
LEMMA CloseStatus ==
    ASSUME RegistryInv, StatusInv, NEW s \in Sockets, CloseEvent(s), UNCHANGED registryVars,
           Registered(s), imei[s] # None,
           sets' = Append(sets, [sock |-> s, imei |-> imei[s], status |-> "offline"])
    PROVE  StatusInv'
<1> DEFINE op == [sock |-> s, imei |-> imei[s], status |-> "offline"]
<1>1. /\ sock[s] = "destroyed" /\ sock' = [sock EXCEPT ![s] = "closed"]
      /\ UNCHANGED <<imei, pubs, status, published, unannounced, addr, connections>>
  BY DEF CloseEvent, registryVars, lifeVars
<1>2. /\ op \in StatusOps /\ TypeOK /\ op.sock = s /\ op.imei = imei[s] /\ op.status = "offline"
      /\ sock \in [Sockets -> SocketStates]
  BY DEF StatusOps, Statuses, RegistryInv, TypeInv, TypeOK
<1>3. sets' = Append(sets, op) /\ Updates' = Append(Updates, op)
  BY <1>1, <1>2, MoveOver DEF Updates, TypeOK
<1> HIDE DEF op
<1>4. \A t \in Sockets : Registered(t)' = Registered(t)
  BY <1>1 DEF Registered
<1>5. /\ Len(Updates) \in Nat /\ Updates'[Len(Updates) + 1] = op
      /\ DOMAIN Updates = 1..Len(Updates) /\ DOMAIN Updates' = 1..(Len(Updates) + 1)
      /\ \A k \in DOMAIN Updates : Updates'[k] = Updates[k]
  BY <1>2, <1>3, QueuesTyped
<1>6. sets' \in Seq(OwnStatusOps') /\ pubs' \in Seq(OwnStatusOps')
  <2>1. OwnStatusOps \subseteq OwnStatusOps'
    BY <1>1, <1>2 DEF OwnStatusOps, StatusOps
  <2>2. op \in OwnStatusOps'
    BY <1>1, <1>2 DEF OwnStatusOps
  <2>3. sets \in Seq(OwnStatusOps') /\ pubs \in Seq(OwnStatusOps')
    BY <2>1, SeqMonotone DEF StatusInv
  <2> QED
    BY <1>1, <1>3, <2>2, <2>3
<1>7. RegisteredLives'
  BY <1>1, <1>2, <1>4 DEF StatusInv, RegisteredLives
<1>8. LastWord'
  <2> SUFFICES ASSUME NEW t \in Sockets, Registered(t), imei[t] # None, sock'[t] # "closed"
               PROVE  /\ EndsOnline(sets', status[imei[t]], imei[t])
                      /\ EndsOnline(Updates', published[imei[t]], imei[t])
    BY <1>1, <1>4 DEF LastWord
  <2>1. t # s /\ sock[t] # "closed"
    BY <1>1, <1>2
  <2>2. imei[t] # imei[s]
    BY <2>1, OneServes
  <2>3. EndsOnline(sets, status[imei[t]], imei[t]) /\ EndsOnline(Updates, published[imei[t]], imei[t])
    BY <2>1 DEF StatusInv, LastWord
  <2>4. sets \in Seq(StatusOps) /\ Updates \in Seq(StatusOps)
    BY <1>2, QueuesTyped
  <2> QED
    BY <1>2, <1>3, <2>2, <2>3, <2>4, AppendOther
<1>9. ClosedAnnounced'
  <2> SUFFICES ASSUME NEW t \in Sockets, Registered(t), sock'[t] = "closed"
               PROVE  \E k \in DOMAIN Updates' : Announces(Updates'[k], t)
    BY <1>4 DEF ClosedAnnounced, Announces
  <2>1. CASE t = s
    BY <1>2, <1>5, <2>1 DEF Announces
  <2>2. CASE t # s
    <3>1. PICK k \in DOMAIN Updates : Announces(Updates[k], t)
      BY <1>1, <1>2, <2>2 DEF StatusInv, ClosedAnnounced
    <3> QED
      BY <1>5, <3>1
  <2> QED
    BY <2>1, <2>2
<1>10. NoneFollows'
  <2>1. ASSUME NEW k \in DOMAIN Updates', NEW j \in DOMAIN Updates', k < j,
               Updates'[k].status = "offline", Registered(Updates[k].sock)',
               Updates'[j].imei = Updates'[k].imei
        PROVE  Updates'[j].status = "offline"
    <3>1. CASE j = Len(Updates) + 1
      BY <1>2, <1>5, <3>1
    <3>2. CASE j # Len(Updates) + 1
      <4>1. /\ k \in DOMAIN Updates /\ j \in DOMAIN Updates
            /\ Updates'[k] = Updates[k] /\ Updates'[j] = Updates[j]
        BY <1>5, <2>1, <3>2
      <4>2. Updates[k].sock \in Sockets
        BY <1>2, <4>1, OwnUpdates DEF OwnStatusOps, StatusOps
      <4>3. Registered(Updates[k].sock)
        BY <1>4, <2>1, <4>1, <4>2
      <4> QED
        BY <2>1, <4>1, <4>3 DEF StatusInv, NoneFollows
    <3> QED
      BY <3>1, <3>2
  <2>2. ASSUME NEW k \in DOMAIN pubs', pubs'[k].status = "offline", Registered(pubs[k].sock)'
        PROVE  status'[pubs'[k].imei] # "online"
    <3>1. pubs[k].sock \in Sockets
      BY <1>1 DEF StatusInv, OwnStatusOps, StatusOps
    <3>2. Registered(pubs[k].sock)
      BY <1>1, <1>4, <2>2, <3>1
    <3> QED
      BY <1>1, <2>2, <3>2 DEF StatusInv, NoneFollows
  <2> QED
    BY <2>1, <2>2 DEF NoneFollows
<1>11. OnlineServed'
  <2> SUFFICES ASSUME NEW j \in Imeis, ReadsOnline(j)'
               PROVE  Online(j)' \/ j \in unannounced'
    BY DEF OnlineServed
  <2>1. ReadsOnline(j)
    <3>1. sets \in Seq(StatusOps) /\ Len(sets) \in Nat
      BY <1>2, QueuesTyped
    <3>2. /\ DOMAIN sets' = 1..(Len(sets) + 1) /\ DOMAIN sets = 1..Len(sets)
          /\ sets'[Len(sets) + 1] = op /\ \A k \in DOMAIN sets : sets'[k] = sets[k]
      BY <1>2, <1>3, <3>1
    <3> QED
      BY <1>1, <1>2, <3>1, <3>2 DEF ReadsOnline
  <2>2. Online(j) => Online(j)'
    BY <1>1, <1>4 DEF Online
  <2> QED
    BY <1>1, <2>1, <2>2 DEF StatusInv, OnlineServed
<1> QED
  BY <1>6, <1>7, <1>8, <1>9, <1>10, <1>11 DEF StatusInv

\* A SET is executed: its PUBLISH takes its place behind those issued before.
LEMMA SetStatus ==
    ASSUME RegistryInv, StatusInv, SetReply
    PROVE  StatusInv'
<1> DEFINE op == Head(sets)
<1>1. /\ sets # <<>> /\ status' = [status EXCEPT ![op.imei] = op.status]
      /\ sets' = Tail(sets) /\ pubs' = Append(pubs, op)
      /\ UNCHANGED <<connections, addr, sock, imei, unannounced, published>>
  BY DEF SetReply, registryVars, connVars, lifeVars
<1>2. TypeOK /\ op \in StatusOps /\ op \in OwnStatusOps /\ op.imei \in Imeis
      /\ status \in [Imeis -> Statuses \cup {None}]
  <2>1. op \in OwnStatusOps
    BY <1>1, HeadTailType DEF StatusInv
  <2>2. op \in StatusOps /\ op.imei \in Imeis
    BY <2>1 DEF OwnStatusOps, StatusOps
  <2>3. TypeOK /\ status \in [Imeis -> Statuses \cup {None}]
    BY DEF RegistryInv, TypeInv, TypeOK
  <2> QED
    BY <2>1, <2>2, <2>3
<1>3. Updates' = Updates
  BY <1>1, <1>2, MoveOver DEF Updates, TypeOK
<1>4. \A t : Registered(t)' = Registered(t)
  BY <1>1 DEF Registered
<1>5. OwnStatusOps' = OwnStatusOps
  BY <1>1 DEF OwnStatusOps
<1>6. sets' \in Seq(OwnStatusOps') /\ pubs' \in Seq(OwnStatusOps')
  <2> HIDE DEF op
  <2> QED
    BY <1>1, <1>2, <1>5 DEF StatusInv
<1>7. RegisteredLives' /\ ClosedAnnounced'
  BY <1>1, <1>3, <1>4 DEF StatusInv, RegisteredLives, ClosedAnnounced, Announces
<1>8. LastWord'
  <2> SUFFICES ASSUME NEW t \in Sockets, Registered(t), imei[t] # None, sock[t] # "closed"
               PROVE  /\ EndsOnline(sets', status'[imei[t]], imei[t])
                      /\ EndsOnline(Updates, published[imei[t]], imei[t])
    BY <1>1, <1>3, <1>4 DEF LastWord
  <2>1. EndsOnline(sets, status[imei[t]], imei[t]) /\ EndsOnline(Updates, published[imei[t]], imei[t])
    BY DEF StatusInv, LastWord
  <2>2. imei[t] \in Imeis
    BY <1>2 DEF TypeOK
  <2>3. status'[imei[t]] = IF op.imei = imei[t] THEN op.status ELSE status[imei[t]]
    BY <1>1, <1>2, <2>2
  <2> QED
    BY <1>1, <1>2, <2>1, <2>3, HeadExecuted, QueuesTyped
<1>9. NoneFollows'
  <2>1. \A k, j \in DOMAIN Updates' :
           /\ k < j /\ Updates'[k].status = "offline" /\ Registered(Updates[k].sock)'
           /\ Updates'[j].imei = Updates'[k].imei
           => Updates'[j].status = "offline"
    BY <1>3, <1>4 DEF StatusInv, NoneFollows
  <2>2. ASSUME NEW k \in DOMAIN pubs', pubs'[k].status = "offline", Registered(pubs[k].sock)'
        PROVE  status'[pubs'[k].imei] # "online"
    <3>1. /\ Len(pubs) \in Nat /\ DOMAIN pubs' = 1..(Len(pubs) + 1) /\ pubs'[Len(pubs) + 1] = op
          /\ DOMAIN pubs = 1..Len(pubs) /\ \A j \in DOMAIN pubs : pubs'[j] = pubs[j]
      <4>1. pubs \in Seq(StatusOps)
        BY <1>2, QueuesTyped
      <4> HIDE DEF op
      <4> QED
        BY <1>1, <1>2, <4>1
    <3>2. CASE k = Len(pubs) + 1
      BY <1>1, <1>2, <2>2, <3>1, <3>2
    <3>3. CASE k # Len(pubs) + 1
      <4>1. k \in DOMAIN pubs /\ k \in 1..Len(pubs) /\ pubs'[k] = pubs[k]
        BY <3>1, <3>3
      <4>2. Registered(pubs[k].sock)
        BY <1>4, <2>2, <4>1
      <4>3. status[pubs[k].imei] # "online" /\ pubs[k].imei \in Imeis
        BY <2>2, <4>1, <4>2 DEF StatusInv, NoneFollows, OwnStatusOps, StatusOps
      <4>4. CASE op.imei = pubs[k].imei
        <5>1. /\ Updates[k] = pubs[k] /\ Updates[Len(pubs) + 1] = op
              /\ k \in DOMAIN Updates /\ Len(pubs) + 1 \in DOMAIN Updates
          <6>1. Len(sets) \in Nat \ {0} /\ op = sets[1]
            BY <1>1, <1>2, QueuesTyped
          <6> QED
            BY <1>2, <4>1, <6>1, QueuesTyped
        <5>2. op.status = "offline"
          BY <2>2, <3>1, <4>1, <4>2, <4>4, <5>1 DEF StatusInv, NoneFollows
        <5> QED
          BY <1>1, <1>2, <4>1, <4>4, <5>2
      <4>5. CASE op.imei # pubs[k].imei
        BY <1>1, <4>1, <4>3, <4>5, <1>2
      <4> QED
        BY <4>4, <4>5
    <3> QED
      BY <3>2, <3>3
  <2> QED
    BY <2>1, <2>2 DEF NoneFollows
<1>10. OnlineServed'
  <2> SUFFICES ASSUME NEW i \in Imeis, ReadsOnline(i)'
               PROVE  Online(i)' \/ i \in unannounced'
    BY DEF OnlineServed
  <2>1. ReadsOnline(i)
    <3>1. /\ Len(sets) \in Nat \ {0} /\ DOMAIN sets = 1..Len(sets) /\ op = sets[1]
          /\ DOMAIN sets' = 1..(Len(sets) - 1)
          /\ \A k \in 1..(Len(sets) - 1) : sets'[k] = sets[k + 1]
      BY <1>1, <1>2, QueuesTyped
    <3>2. CASE status'[i] = "online"
      BY <1>1, <1>2, <3>1, <3>2 DEF ReadsOnline
    <3>3. CASE status'[i] # "online"
      <4>1. PICK k \in DOMAIN sets' : sets'[k].imei = i /\ sets'[k].status = "online"
        BY <3>3 DEF ReadsOnline
      <4>2. k + 1 \in DOMAIN sets /\ sets'[k] = sets[k + 1]
        BY <3>1, <4>1
      <4> QED
        BY <4>1, <4>2 DEF ReadsOnline
    <3> QED
      BY <3>2, <3>3
  <2>2. Online(i) => Online(i)'
    BY <1>1, <1>4 DEF Online
  <2> QED
    BY <1>1, <2>1, <2>2 DEF StatusInv, OnlineServed
<1> QED
  BY <1>6, <1>7, <1>8, <1>9, <1>10 DEF StatusInv

\* A PUBLISH is executed: after the last update of a closed connection its entry
\* goes, and nothing that is under way says otherwise.
LEMMA PublishStatus ==
    ASSUME RegistryInv, StatusInv, PublishReply
    PROVE  StatusInv'
<1> DEFINE op == Head(pubs)
<1>1. /\ pubs # <<>> /\ published' = [published EXCEPT ![op.imei] = op.status]
      /\ pubs' = Tail(pubs) /\ AfterPublish(op)
      /\ UNCHANGED <<addr, sock, imei, unannounced, status, sets>>
  BY DEF PublishReply, connVars, lifeVars
<1>2. /\ TypeOK /\ op \in StatusOps /\ op \in OwnStatusOps /\ op.imei \in Imeis /\ op.sock \in Sockets
      /\ imei[op.sock] = op.imei
      /\ published \in [Imeis -> Statuses \cup {None}]
  <2>1. op \in OwnStatusOps
    BY <1>1, HeadTailType DEF StatusInv
  <2>2. op \in StatusOps /\ op.imei \in Imeis /\ op.sock \in Sockets /\ imei[op.sock] = op.imei
    BY <2>1 DEF OwnStatusOps, StatusOps
  <2>3. TypeOK /\ published \in [Imeis -> Statuses \cup {None}]
    BY DEF RegistryInv, TypeInv, TypeOK
  <2> QED
    BY <2>1, <2>2, <2>3
<1>3. Updates # <<>> /\ Updates' = Tail(Updates) /\ Head(Updates) = op
  BY <1>1, <1>2, MoveOver DEF Updates, TypeOK
<1>4. \A t \in Sockets : Registered(t)' <=> Registered(t) /\ ~(t = op.sock /\ op.status = "offline")
  <2>1. CASE op.status = "offline"
    <3>1. addr[op.sock] # None
      <4>1. pubs \in Seq(LiveStatusOps)
        BY DEF RegistryInv, TypeInv, LiveOps
      <4>2. op \in LiveStatusOps
        BY <1>1, <4>1, HeadTailType
      <4> QED
        BY <4>2, <2>1 DEF LiveStatusOps
    <3>2. RemoveConnection(addr[op.sock])
      BY <1>1, <2>1 DEF AfterPublish
    <3> HIDE DEF op
    <3> QED
      BY <1>1, <1>2, <2>1, <3>1, <3>2, RemovesOwn
  <2>2. CASE op.status # "offline"
    BY <1>1, <2>2 DEF AfterPublish, registryVars, Registered
  <2> QED
    BY <2>1, <2>2
<1>5. OwnStatusOps' = OwnStatusOps
  BY <1>1 DEF OwnStatusOps
<1>6. sets' \in Seq(OwnStatusOps') /\ pubs' \in Seq(OwnStatusOps')
  BY <1>1, <1>5, HeadTailType DEF StatusInv
<1>7. /\ Len(Updates) \in Nat \ {0} /\ DOMAIN Updates = 1..Len(Updates)
      /\ Updates[1] = op /\ DOMAIN Updates' = 1..(Len(Updates) - 1)
      /\ \A k \in 1..(Len(Updates) - 1) : Updates'[k] = Updates[k + 1]
  <2>1. Updates \in Seq(StatusOps)
    BY <1>2, QueuesTyped
  <2> HIDE DEF op
  <2> QED
    BY <1>3, <2>1
<1>8. RegisteredLives'
  BY <1>1, <1>4 DEF StatusInv, RegisteredLives
<1>9. LastWord'
  <2> SUFFICES ASSUME NEW t \in Sockets, Registered(t)', imei[t] # None, sock[t] # "closed"
               PROVE  /\ EndsOnline(sets, status[imei[t]], imei[t])
                      /\ EndsOnline(Updates', published'[imei[t]], imei[t])
    BY <1>1 DEF LastWord
  <2>1. EndsOnline(sets, status[imei[t]], imei[t]) /\ EndsOnline(Updates, published[imei[t]], imei[t])
    BY <1>4 DEF StatusInv, LastWord
  <2>2. imei[t] \in Imeis
    BY <1>2 DEF TypeOK
  <2>3. published'[imei[t]] = IF op.imei = imei[t] THEN op.status ELSE published[imei[t]]
    BY <1>1, <1>2, <2>2
  <2>4. Updates \in Seq(StatusOps)
    BY <1>2, QueuesTyped
  <2> QED
    BY <1>3, <2>1, <2>3, <2>4, HeadExecuted
<1>10. ClosedAnnounced'
  <2> SUFFICES ASSUME NEW t \in Sockets, Registered(t)', sock[t] = "closed"
               PROVE  \E k \in DOMAIN Updates' : Announces(Updates'[k], t)
    BY <1>1 DEF ClosedAnnounced, Announces
  <2>1. PICK k \in DOMAIN Updates : Announces(Updates[k], t)
    BY <1>4 DEF StatusInv, ClosedAnnounced
  <2>2. k # 1
    BY <1>4, <1>7, <2>1 DEF Announces
  <2>3. k - 1 \in DOMAIN Updates' /\ Updates'[k - 1] = Updates[k]
    BY <1>7, <2>2
  <2> QED
    BY <2>1, <2>3
<1>11. NoneFollows'
  <2>1. ASSUME NEW k \in DOMAIN Updates', NEW j \in DOMAIN Updates', k < j,
               Updates'[k].status = "offline", Registered(Updates[k].sock)',
               Updates'[j].imei = Updates'[k].imei
        PROVE  Updates'[j].status = "offline"
    <3>1. /\ k + 1 \in DOMAIN Updates /\ j + 1 \in DOMAIN Updates /\ k + 1 < j + 1
          /\ Updates'[k] = Updates[k + 1] /\ Updates'[j] = Updates[j + 1]
      BY <1>7, <2>1
    <3>2. Updates'[k].sock \in Sockets
      BY <1>2, <3>1, OwnUpdates DEF OwnStatusOps, StatusOps
    <3>3. Registered(Updates[k + 1].sock)
      BY <1>4, <2>1, <3>1, <3>2
    <3> QED
      BY <2>1, <3>1, <3>3 DEF StatusInv, NoneFollows
  <2>2. ASSUME NEW k \in DOMAIN pubs', pubs'[k].status = "offline", Registered(pubs[k].sock)'
        PROVE  status'[pubs'[k].imei] # "online"
    <3>1. k + 1 \in DOMAIN pubs /\ pubs'[k] = pubs[k + 1]
      <4>1. pubs \in Seq(StatusOps)
        BY <1>2, QueuesTyped
      <4> QED
        BY <1>1, <4>1
    <3>2. pubs'[k].sock \in Sockets
      BY <3>1 DEF StatusInv, OwnStatusOps, StatusOps
    <3>3. Registered(pubs[k + 1].sock)
      BY <1>4, <2>2, <3>1, <3>2
    <3> QED
      BY <1>1, <2>2, <3>1, <3>3 DEF StatusInv, NoneFollows
  <2> QED
    BY <2>1, <2>2 DEF NoneFollows
<1>12. OnlineServed'
  <2> SUFFICES ASSUME NEW i \in Imeis, ReadsOnline(i)
               PROVE  Online(i)' \/ i \in unannounced'
    BY <1>1 DEF OnlineServed, ReadsOnline
  <2>1. CASE i \in unannounced
    BY <1>1, <2>1
  <2>2. CASE Online(i)
    <3>1. PICK t \in Sockets : Registered(t) /\ imei[t] = i
      BY <2>2 DEF Online
    <3>2. CASE Registered(t)'
      BY <1>1, <3>1, <3>2 DEF Online
    <3>3. CASE ~Registered(t)'
      <4>1. t = op.sock /\ op.status = "offline" /\ op.imei = i
        BY <1>2, <1>4, <3>1, <3>3
      <4>2. 1 \in DOMAIN pubs /\ pubs[1] = op
        BY <1>1, <1>2, QueuesTyped
      <4>3. status[i] # "online"
        BY <3>1, <4>1, <4>2 DEF StatusInv, NoneFollows
      <4>4. ASSUME NEW k \in DOMAIN sets, sets[k].imei = i
            PROVE  sets[k].status = "offline"
        <5>1. /\ Len(pubs) \in Nat \ {0} /\ k \in 1..Len(sets)
              /\ Len(pubs) + k \in DOMAIN Updates /\ Updates[Len(pubs) + k] = sets[k]
          BY <1>2, <4>2, QueuesTyped
        <5>2. 1 \in DOMAIN Updates /\ 1 < Len(pubs) + k
          BY <1>7, <5>1
        <5> QED
          BY <1>7, <3>1, <4>1, <4>4, <5>1, <5>2 DEF StatusInv, NoneFollows
      <4> QED
        BY <4>3, <4>4 DEF ReadsOnline
    <3> QED
      BY <3>2, <3>3
  <2> QED
    BY <2>1, <2>2 DEF StatusInv, OnlineServed
<1> QED
  BY <1>6, <1>8, <1>9, <1>10, <1>11, <1>12 DEF StatusInv

\* The process ends: nothing is registered and nothing is under way.
LEMMA EndStatus ==
    ASSUME TypeOK, StatusInv, ProcessEnd
    PROVE  StatusInv'
<1>1. /\ sets' = <<>> /\ pubs' = <<>> /\ connections' = [a \in Addrs |-> None]
      /\ sock' = [s \in Sockets |-> IF sock[s] \in {"open", "destroyed"} \/ Registered(s)
                                    THEN "killed" ELSE sock[s]]
      /\ unannounced' = unannounced \cup {i \in Imeis : Online(i)}
      /\ UNCHANGED <<addr, imei, status>>
  BY DEF ProcessEnd
<1>2. \A s \in Sockets : ~Registered(s)'
  BY <1>1, NoneAssumption DEF Registered, TypeOK, NoneAssumption
<1>3. Updates' = <<>>
  BY <1>1 DEF Updates
<1>4. sets' \in Seq(OwnStatusOps') /\ pubs' \in Seq(OwnStatusOps')
  BY <1>1
<1>5. RegisteredLives' /\ LastWord' /\ ClosedAnnounced'
  BY <1>2 DEF RegisteredLives, LastWord, ClosedAnnounced
<1>6. NoneFollows'
  BY <1>1, <1>3 DEF NoneFollows
<1>7. OnlineServed'
  <2> SUFFICES ASSUME NEW i \in Imeis, status[i] = "online"
               PROVE  i \in unannounced'
    BY <1>1 DEF OnlineServed, ReadsOnline
  <2>1. Online(i) \/ i \in unannounced
    BY DEF StatusInv, OnlineServed, ReadsOnline
  <2> QED
    BY <1>1, <2>1
<1> QED
  BY <1>4, <1>5, <1>6, <1>7 DEF StatusInv

\* Every step keeps what Redis will read in accord with the registry.
LEMMA StatusStep ==
    ASSUME ~PortReuse, RegistryInv, StatusInv, [Next]_vars
    PROVE  StatusInv'
<1> DEFINE Quietly(s) ==
               /\ Registered(s)' => Registered(s) \/ imei[s] = None
               /\ Registered(s)' => /\ sock'[s] \in {"open", "destroyed", "closed"}
                                    /\ sock'[s] = "closed" => sock[s] = "closed" /\ Registered(s)
               /\ sock[s] \in {"closed", "killed"} => sock'[s] = sock[s]
               /\ imei[s] # None /\ Registered(s) /\ ~Registered(s)' => imei[s] \in unannounced'
<1>1. /\ TypeOK /\ sock \in [Sockets -> SocketStates] /\ addr \in [Sockets -> Addrs \cup {None}]
      /\ stale \in [Sockets -> BOOLEAN] /\ connections \in [Addrs -> Sockets \cup {None}]
  BY DEF RegistryInv, TypeInv, TypeOK
<1>2. \A s \in Sockets : Registered(s) => sock[s] \in {"open", "destroyed", "closed"}
  BY DEF StatusInv, RegisteredLives
<1>3. ASSUME UNCHANGED <<imei, sets, pubs, status, published>>, \A s \in Sockets : Quietly(s),
             unannounced \subseteq unannounced'
      PROVE  StatusInv'
  BY <1>1, <1>3, QuietStatus
<1>4. CASE UNCHANGED vars
  <2>1. UNCHANGED <<imei, sets, pubs, status, published, addr, connections, sock, unannounced>>
    BY <1>4 DEF vars, connVars, registryVars, redisVars, lifeVars
  <2>2. \A s \in Sockets : Quietly(s)
    BY <1>2, <2>1 DEF Registered
  <2> QED
    BY <1>3, <2>1, <2>2
<1>5. ASSUME NEW s \in Sockets, SocketStep(s)
      PROVE  StatusInv'
  <2>1. ASSUME NEW a \in Addrs, NEW h \in Imeis \cup {Invalid}, Accept(s, a, h)
        PROVE  StatusInv'
    <3>1. connections[a] = None /\ addr[s] = None /\ imei[s] = None
      BY <2>1, AcceptRegistry DEF Accept, RegistryInv, NewIsBlank
    <3>2. /\ addr' = [addr EXCEPT ![s] = a] /\ connections' = [connections EXCEPT ![a] = s]
          /\ sock' = [sock EXCEPT ![s] = "open"] /\ sock[s] = "new"
          /\ UNCHANGED <<imei, sets, pubs, status, published, unannounced>>
      BY <2>1 DEF Accept, CreateConnection, redisVars, lifeVars
    <3>3. ASSUME NEW t \in Sockets PROVE Quietly(t)
      <4>1. CASE t = s
        BY <1>1, <3>1, <3>2, <4>1
      <4>2. CASE t # s
        <5>1. addr'[t] = addr[t] /\ sock'[t] = sock[t]
          BY <1>1, <3>2, <4>2
        <5>2. Registered(t)' <=> Registered(t)
          <6>1. CASE addr[t] = a
            BY <1>1, <3>1, <3>2, <4>2, <5>1, <6>1, NoneAssumption DEF Registered, NoneAssumption
          <6>2. CASE addr[t] # a
            BY <1>1, <3>2, <5>1, <6>2 DEF Registered
          <6> QED
            BY <6>1, <6>2
        <5> QED
          BY <1>2, <5>1, <5>2
      <4> QED
        BY <4>1, <4>2
    <3> QED
      BY <1>3, <3>2, <3>3
  <2>2. CASE PeerClose(s) \/ GoIdle(s) \/ SocketTimeout(s)
    <3>1. UNCHANGED <<imei, sets, pubs, status, published, addr, connections, unannounced>>
      BY <2>2 DEF PeerClose, GoIdle, SocketTimeout, registryVars, redisVars, lifeVars
    <3>2. \A t \in Sockets :
             sock'[t] = sock[t] \/ (sock[t] = "open" /\ sock'[t] = "destroyed")
      BY <1>1, <2>2 DEF PeerClose, GoIdle, SocketTimeout
    <3>3. \A t \in Sockets : Quietly(t)
      BY <1>2, <3>1, <3>2 DEF Registered
    <3> QED
      BY <1>3, <3>1, <3>3
  <2>3. CASE CloseEvent(s)
    <3>1. /\ sock' = [sock EXCEPT ![s] = "closed"] /\ sock[s] = "destroyed"
          /\ UNCHANGED <<addr, imei, pubs, status, published, unannounced>> /\ HandleDisconnect(s)
      BY <2>3 DEF CloseEvent, lifeVars
    <3>2. addr[s] # None /\ addr[s] \in Addrs
      BY <1>1, <3>1 DEF RegistryInv, TypeInv, KeyAssigned
    <3>3. connections[addr[s]] # None => Registered(s) /\ connections[addr[s]] = s
      BY <1>1, <3>2 DEF RegistryInv, OwnKeys, Registered
    <3>4. CASE connections[addr[s]] # None /\ ~WaitingImei(connections[addr[s]])
      <4>1. /\ UNCHANGED registryVars
            /\ sets' = Append(sets, [sock |-> s, imei |-> imei[s], status |-> "offline"])
        BY <3>1, <3>3, <3>4 DEF HandleDisconnect
      <4>2. Registered(s) /\ imei[s] # None
        BY <3>3, <3>4 DEF WaitingImei
      <4> QED
        BY <2>3, <4>1, <4>2, CloseStatus
    <3>5. CASE ~(connections[addr[s]] # None /\ ~WaitingImei(connections[addr[s]]))
      <4>1. RemoveConnection(addr[s]) /\ UNCHANGED sets
        BY <3>1, <3>5 DEF HandleDisconnect
      <4>2. Registered(s) => imei[s] = None
        BY <3>2, <3>3, <3>5, NoneAssumption DEF WaitingImei, Registered, NoneAssumption
      <4>3. \A t \in Sockets : Registered(t)' <=> Registered(t) /\ t # s
        BY <3>1, <3>2, <4>1, RemovesOwn
      <4>4. \A t \in Sockets : Quietly(t)
        BY <1>1, <1>2, <3>1, <4>2, <4>3
      <4> QED
        BY <1>3, <3>1, <4>1, <4>4
    <3> QED
      BY <3>4, <3>5
  <2>4. ASSUME NEW n \in 1..(2 * MaxPackets + 1), DataEvent(s, n)
        PROVE  StatusInv'
    <3>1. /\ sock[s] = "open" /\ Registered(s)
          /\ UNCHANGED <<addr, status, published, pubs>>
      BY <2>4 DEF DataEvent, AppendToBuffer
    <3>2. CASE WaitingImei(s) /\ hello[s] \in Whitelist
      <4>1. /\ SetImei(s, hello[s])
            /\ sets' = Append(sets, [sock |-> s, imei |-> hello[s], status |-> "online"])
            /\ unannounced' = unannounced \ {hello[s]}
        BY <2>4, <3>2 DEF DataEvent, HandleImeiPhase
      <4>2. hello[s] \in Imeis
        BY <3>2, ServerAssumption DEF ServerAssumption
      <4> QED
        BY <3>1, <3>2, <4>1, <4>2, LoginStatus
    <3>3. CASE ~(WaitingImei(s) /\ hello[s] \in Whitelist)
      <4>1. /\ UNCHANGED <<registryVars, imei, sets, unannounced>>
            /\ sock' = sock \/ sock' = [sock EXCEPT ![s] = "destroyed"]
        BY <2>4, <3>3 DEF DataEvent, HandleImeiPhase
      <4>2. \A t \in Sockets :
               sock'[t] = sock[t] \/ (sock[t] = "open" /\ sock'[t] = "destroyed")
        BY <1>1, <3>1, <4>1
      <4>3. \A t \in Sockets : Registered(t)' <=> Registered(t)
        BY <3>1, <4>1 DEF registryVars, Registered
      <4>4. \A t \in Sockets : Quietly(t)
        BY <1>2, <3>1, <4>2, <4>3
      <4> QED
        BY <1>3, <3>1, <4>1, <4>4
    <3> QED
      BY <3>2, <3>3
  <2> QED
    BY <1>5, <2>1, <2>2, <2>3, <2>4 DEF SocketStep
<1>6. CASE CleanupTick
  <2>1. /\ UNCHANGED <<addr, imei, sets, pubs, status, published>>
        /\ unannounced' = unannounced \cup
                             {i \in Imeis : \E s \in StaleConnections : imei[s] = i}
        /\ connections' = [a \in Addrs |-> IF connections[a] \in StaleConnections
                                           THEN None ELSE connections[a]]
        /\ \A t \in Sockets : sock'[t] = sock[t] \/ (sock[t] = "open" /\ sock'[t] = "destroyed")
    BY <1>1, <1>6 DEF CleanupTick, SweepStale, redisVars
  <2>2. ASSUME NEW t \in Sockets
        PROVE  /\ Registered(t)' => Registered(t)
               /\ Registered(t) /\ ~Registered(t)' => t \in StaleConnections
    <3>1. t # None
      BY NoneAssumption DEF NoneAssumption
    <3>2. CASE addr[t] = None
      BY <2>1, <3>2 DEF Registered
    <3>3. CASE addr[t] # None
      <4>1. addr[t] \in Addrs
        BY <1>1, <3>3
      <4> QED
        BY <2>1, <3>1, <3>3, <4>1 DEF Registered, StaleConnections
    <3> QED
      BY <3>2, <3>3
  <2>3. \A t \in Sockets : imei[t] # None => imei[t] \in Imeis
    BY <1>1 DEF TypeOK
  <2>4. \A t \in Sockets : Quietly(t)
    BY <1>2, <2>1, <2>2, <2>3
  <2> QED
    BY <1>3, <2>1, <2>4
<1>7. CASE SetReply
  BY <1>7, SetStatus
<1>8. CASE PublishReply
  BY <1>8, PublishStatus
<1>9. ASSUME NEW k \in 1..Len(inflight), NEW added \in BOOLEAN, RecordSettled(k, added)
      PROVE  StatusInv'
  <2>1. UNCHANGED <<imei, sets, pubs, status, published, addr, connections, sock, unannounced>>
    BY <1>9 DEF RecordSettled, registryVars, redisVars, lifeVars
  <2>2. \A s \in Sockets : Quietly(s)
    BY <1>2, <2>1 DEF Registered
  <2> QED
    BY <1>3, <2>1, <2>2
<1>10. CASE Stop
  <2>1. /\ UNCHANGED <<imei, sets, pubs, status, published, addr, connections, unannounced>>
        /\ \A t \in Sockets : sock'[t] = sock[t] \/ (sock[t] = "open" /\ sock'[t] = "destroyed")
    BY <1>1, <1>10 DEF Stop, registryVars, redisVars
  <2>2. \A s \in Sockets : Quietly(s)
    BY <1>2, <2>1 DEF Registered
  <2> QED
    BY <1>3, <2>1, <2>2
<1>11. CASE ProcessEnd
  BY <1>1, <1>11, EndStatus
<1> QED
  BY <1>4, <1>5, <1>6, <1>7, <1>8, <1>9, <1>10, <1>11 DEF Next

\* Nothing is registered and nothing is under way at the start.
LEMMA StatusInit ==
    ASSUME Init
    PROVE  StatusInv
<1>1. /\ sets = <<>> /\ pubs = <<>> /\ \A s \in Sockets : ~Registered(s)
      /\ \A i \in Imeis : status[i] # "online"
  <2>1. None # "online"
    BY ServerAssumption DEF ServerAssumption, Statuses
  <2> QED
    BY <2>1 DEF Init, ManagerInit, Registered
<1>2. Updates = <<>>
  BY <1>1 DEF Updates
<1>3. OnlineServed
  BY <1>1 DEF OnlineServed, ReadsOnline
<1>4. NoneFollows
  BY <1>1, <1>2 DEF NoneFollows
<1> QED
  BY <1>1, <1>3, <1>4 DEF StatusInv, RegisteredLives, LastWord, ClosedAnnounced

\* The registry and what is under way for Redis, in every reachable state.
LEMMA StatusInvariance ==
    ASSUME ~PortReuse
    PROVE  Spec => [](RegistryInv /\ StatusInv)
<1>1. Init => RegistryInv /\ StatusInv
  BY RegistryInit, StatusInit
<1>2. RegistryInv /\ StatusInv /\ [Next]_vars => (RegistryInv /\ StatusInv)'
  BY RegistryStep, StatusStep
<1> QED
  BY <1>1, <1>2, PTL DEF Spec

\* As long as no remote address comes back: once every update was executed, a
\* device with a registered connection reads "online", in the key and on the
\* channel, whatever an earlier connection of it announced late.
THEOREM ConnectedReads ==
    ASSUME ~PortReuse
    PROVE  Spec => []ConnectedReadsOnline
<1>1. ASSUME RegistryInv, StatusInv PROVE ConnectedReadsOnline
  <2> SUFFICES ASSUME Quiet, NEW i \in Imeis, Online(i)
               PROVE  status[i] = "online" /\ published[i] = "online"
    BY DEF ConnectedReadsOnline
  <2>1. sets = <<>> /\ pubs = <<>> /\ Updates = <<>>
    BY DEF Quiet, Updates
  <2>2. PICK s \in Sockets : Registered(s) /\ imei[s] = i
    BY DEF Online
  <2>3. sock[s] # "closed" /\ imei[s] # None
    BY <1>1, <2>1, <2>2, NoneAssumption DEF StatusInv, ClosedAnnounced, NoneAssumption
  <2>4. EndsOnline(<<>>, status[i], i) /\ EndsOnline(<<>>, published[i], i)
    BY <1>1, <2>1, <2>2, <2>3 DEF StatusInv, LastWord
  <2>5. \A v : EndsOnline(<<>>, v, i) => v = "online"
    BY DEF EndsOnline
  <2> QED
    BY <2>4, <2>5
<1>2. RegistryInv /\ StatusInv => ConnectedReadsOnline
  BY <1>1
<1> QED
  BY <1>2, StatusInvariance, PTL

\* As long as no remote address comes back: once every update was executed, a
\* device that reads "online" has a connection, unless its last one was swept away
\* or went down with the process.
THEOREM OnlineReads ==
    ASSUME ~PortReuse
    PROVE  Spec => []OnlineReadsConnected
<1>1. RegistryInv /\ StatusInv => OnlineReadsConnected
  BY DEF StatusInv, OnlineServed, ReadsOnline, OnlineReadsConnected
<1> QED
  BY <1>1, StatusInvariance, PTL

-----------------------------------------------------------------------------
(* The cached position of a device                                         *)

\* The devices of which the queue rejected no record.
Unharmed == {i \in Imeis : \A t \in Sockets : imei[t] = i => lost[t] = {}}

\* Of the devices in D, the last call in flight is the one that wrote the position.
LastLatest(q, D) ==
    \A k \in DOMAIN q :
        /\ imei[q[k].sock] \in D
        /\ \A j \in DOMAIN q : j > k => imei[q[j].sock] # imei[q[k].sock]
        => latest[imei[q[k].sock]] = Stamp(q[k].pkt, q[k].rec)

StartedOps == {op \in AuthOps : started[op.sock][op.pkt] > 0}

\* What is cached is of a packet that was taken up on a connection of the device.
LatestIsStarted ==
    \A i \in Imeis : latest[i] > 0 =>
        \E t \in Sockets, q \in Packets :
            imei[t] = i /\ started[t][q] > 0 /\ latest[i] <= Stamp(q, Records)

\* Packets that were taken up begin at the start of the buffer at the latest.
StartedBehind ==
    \A t \in Sockets, q \in Packets : started[t][q] > 0 => 2 * q - 1 <= consumed[t]

LatestInv == /\ TakeInv /\ inflight \in Seq(StartedOps)
             /\ LastLatest(inflight, Unharmed) /\ LatestIsStarted /\ StartedBehind

\* A position goes back only where records of the device overlap, or one was lost.
GoesBackByOverlap ==
    \A i \in Imeis : latest'[i] < latest[i] =>
        LET op == Last(inflight') IN
        \/ \E k \in 1..(Len(inflight') - 1) : imei[inflight'[k].sock] = i
        \/ \E s \in Sockets \ {op.sock} : imei[s] = i
        \/ started'[op.sock][op.pkt] > 1
        \/ lost'[op.sock] # {}

\* A device stays harmed.
LEMMA HarmStays ==
    ASSUME NEW q, LastLatest(q, Unharmed),
           \A t \in Sockets : imei[t] # None => imei'[t] = imei[t],
           \A t \in Sockets : lost[t] \subseteq lost'[t]
    PROVE  Unharmed' \subseteq Unharmed /\ LastLatest(q, Unharmed')
<1>1. Unharmed' \subseteq Unharmed
  <2> SUFFICES ASSUME NEW i \in Imeis, i \in Unharmed', NEW t \in Sockets, imei[t] = i
               PROVE  lost[t] = {}
    BY DEF Unharmed
  <2>1. imei'[t] = i
    BY NoneAssumption DEF NoneAssumption
  <2>2. lost'[t] = {} /\ lost[t] \subseteq lost'[t]
    BY <2>1 DEF Unharmed
  <2> QED
    BY <2>2
<1> QED
  BY <1>1 DEF LastLatest

\* Later packets have later time stamps, and so have later records of a packet.
LEMMA StampOrder ==
    ASSUME NEW p \in Nat, NEW q \in Nat, q < p
    PROVE  Stamp(q, Records) <= Stamp(p, 1)
<1>1. Records \in Nat
  BY ServerAssumption DEF ServerAssumption
<1>2. PICK d \in Nat : p = q + 1 + d
  <2>1. p - q - 1 \in Nat /\ p = q + 1 + (p - q - 1)
    OBVIOUS
  <2> QED
    BY <2>1
<1>3. Records * p = Records * q + Records + Records * d
  BY <1>1, <1>2
<1>4. Records * d \in Nat /\ Records * q \in Nat
  BY <1>1, <1>2
<1> QED
  BY <1>1, <1>3, <1>4 DEF Stamp

\* Without its first call, or without one of a device that does not count any more,
\* a queue is as it was for the others.
LEMMA RemoveLatest ==
    ASSUME NEW q \in Seq(RecordOps), NEW k \in DOMAIN q, NEW D, NEW E, E \subseteq D,
           LastLatest(q, D), k = 1 \/ imei[q[k].sock] \notin E
    PROVE  LastLatest(RemoveAt(q, k), E)
<1> DEFINE r == RemoveAt(q, k)
<1>1. /\ Len(q) \in Nat \ {0} /\ k \in 1..Len(q) /\ DOMAIN q = 1..Len(q)
      /\ DOMAIN r = 1..(Len(q) - 1)
      /\ \A j \in 1..(Len(q) - 1) : r[j] = IF j < k THEN q[j] ELSE q[j + 1]
  <2>1. Len(q) \in Nat \ {0} /\ k \in 1..Len(q) /\ DOMAIN q = 1..Len(q)
    OBVIOUS
  <2> DEFINE A == SubSeq(q, 1, k - 1)
             B == SubSeq(q, k + 1, Len(q))
  <2>2. /\ A \in Seq(RecordOps) /\ Len(A) = k - 1 /\ B \in Seq(RecordOps) /\ Len(B) = Len(q) - k
        /\ \A j \in 1..(k - 1) : A[j] = q[j]
        /\ \A j \in 1..(Len(q) - k) : B[j] = q[k + j]
    BY <2>1, SubSeqProperties
  <2>3. r = A \o B
    BY DEF RemoveAt
  <2> HIDE DEF A, B, r
  <2>4. /\ Len(r) = Len(q) - 1 /\ DOMAIN r = 1..(Len(q) - 1)
        /\ \A j \in 1..(k - 1) : r[j] = A[j]
        /\ \A j \in k..(Len(q) - 1) : r[j] = B[j - (k - 1)]
    <3>1. /\ Len(r) = Len(A) + Len(B) /\ r \in Seq(RecordOps)
          /\ \A j \in 1..(Len(A) + Len(B)) : r[j] = IF j <= Len(A) THEN A[j] ELSE B[j - Len(A)]
      BY <2>2, <2>3, ConcatProperties
    <3>2. Len(A) + Len(B) = Len(q) - 1 /\ DOMAIN r = 1..(Len(q) - 1)
      BY <2>1, <2>2, <3>1
    <3> QED
      BY <2>1, <2>2, <3>1, <3>2
  <2>5. ASSUME NEW j \in k..(Len(q) - 1) PROVE r[j] = q[j + 1]
    <3>1. j - (k - 1) \in 1..(Len(q) - k) /\ k + (j - (k - 1)) = j + 1
      BY <2>1
    <3> QED
      BY <2>2, <2>4, <3>1
  <2> QED
    BY <2>1, <2>2, <2>4, <2>5
<1> HIDE DEF r
<1>2. ASSUME NEW j \in DOMAIN r, imei[r[j].sock] \in E,
             \A l \in DOMAIN r : l > j => imei[r[l].sock] # imei[r[j].sock]
      PROVE  latest[imei[r[j].sock]] = Stamp(r[j].pkt, r[j].rec)
  <2>1. PICK m \in DOMAIN q : m = (IF j < k THEN j ELSE j + 1) /\ r[j] = q[m]
    BY <1>1, <1>2
  <2>2. ASSUME NEW l \in DOMAIN q, l > m, imei[q[l].sock] = imei[q[m].sock]
        PROVE  FALSE
    <3>1. l # k
      BY <1>1, <1>2, <2>1, <2>2
    <3>2. PICK n \in DOMAIN r : n = (IF l < k THEN l ELSE l - 1) /\ r[n] = q[l] /\ n > j
      BY <1>1, <2>1, <2>2, <3>1
    <3> QED
      BY <1>2, <2>1, <2>2, <3>2
  <2>3. imei[q[m].sock] \in D
    BY <1>2, <2>1
  <2>4. latest[imei[q[m].sock]] = Stamp(q[m].pkt, q[m].rec)
    BY <2>2, <2>3 DEF LastLatest
  <2> QED
    BY <2>1, <2>4
<1>3. LastLatest(r, E)
  BY <1>2 DEF LastLatest
<1> QED
  BY <1>3 DEF r

\* Without its first call, a queue holds the others one place further on.
LEMMA WithoutFirst ==
    ASSUME NEW q \in Seq(RecordOps), 1 \in DOMAIN q
    PROVE  \A j \in DOMAIN q : j > 1 => /\ j - 1 \in DOMAIN RemoveAt(q, 1)
                                       /\ RemoveAt(q, 1)[j - 1] = q[j]
<1> DEFINE r == SubSeq(q, 2, Len(q))
<1>1. SubSeq(q, 1, 0) = <<>> /\ Len(q) \in Nat \ {0} /\ DOMAIN q = 1..Len(q)
  OBVIOUS
<1>2. r \in Seq(RecordOps) /\ Len(r) = Len(q) - 1 /\ \A j \in 1..(Len(q) - 1) : r[j] = q[j + 1]
  BY <1>1, SubSeqProperties
<1>3. RemoveAt(q, 1) = SubSeq(q, 1, 0) \o r
  BY DEF RemoveAt
<1> HIDE DEF r
<1>4. RemoveAt(q, 1) = r
  BY <1>1, <1>2, <1>3
<1> QED
  BY <1>1, <1>2, <1>4

\* Steps that start no record.
LEMMA LatestQuiet ==
    ASSUME LatestInv, TakeInv', UNCHANGED <<started, latest>>,
           \A t \in Sockets : imei[t] # None => imei'[t] = imei[t] /\ consumed'[t] >= consumed[t],
           inflight' \in Seq(StartedOps), LastLatest(inflight', Unharmed')
    PROVE  LatestInv' /\ GoesBackByOverlap
<1>1. TypeOK /\ IdleUntilLogin /\ latest \in [Imeis -> Nat] /\ TypeOK'
  BY DEF LatestInv, TakeInv, TypeInv, TypeOK
<1>2. inflight' \in Seq(StartedOps')
  <2>1. StartedOps \subseteq StartedOps'
    BY DEF StartedOps, AuthOps, RecordOps
  <2> QED
    BY <2>1, SeqMonotone
<1>3. LastLatest(inflight, Unharmed)'
  <2>1. \A k \in DOMAIN inflight' : imei'[inflight'[k].sock] = imei[inflight'[k].sock]
    <3>1. \A k \in DOMAIN inflight' : inflight'[k] \in StartedOps
      OBVIOUS
    <3> QED
      BY <3>1 DEF StartedOps, AuthOps, RecordOps
  <2> QED
    BY <2>1 DEF LastLatest, Stamp
<1>4. \A t \in Sockets, q \in Packets : started[t][q] > 0 => imei[t] # None
  <2> SUFFICES ASSUME NEW t \in Sockets, NEW q \in Packets, imei[t] = None PROVE ~(started[t][q] > 0)
    OBVIOUS
  <2>1. started[t][q] = 0
    BY <1>1 DEF IdleUntilLogin
  <2> QED
    BY <2>1
<1>5. LatestIsStarted'
  <2> SUFFICES ASSUME NEW i \in Imeis, latest[i] > 0
               PROVE  \E t \in Sockets, q \in Packets :
                          imei'[t] = i /\ started[t][q] > 0 /\ latest[i] <= Stamp(q, Records)
    BY DEF LatestIsStarted, Stamp
  <2> QED
    BY <1>4 DEF LatestInv, LatestIsStarted
<1>6. StartedBehind'
  <2> SUFFICES ASSUME NEW t \in Sockets, NEW q \in Packets, started[t][q] > 0
               PROVE  2 * q - 1 <= consumed'[t]
    BY DEF StartedBehind
  <2>1. 2 * q - 1 <= consumed[t] /\ consumed'[t] >= consumed[t]
    BY <1>4 DEF LatestInv, StartedBehind
  <2>2. consumed[t] \in Nat /\ consumed'[t] \in Nat /\ q \in Nat
    BY <1>1, ServerAssumption DEF TypeOK, Packets, ServerAssumption
  <2> QED
    BY <2>1, <2>2
<1>7. GoesBackByOverlap
  BY <1>1 DEF GoesBackByOverlap
<1> QED
  BY <1>2, <1>3, <1>5, <1>6, <1>7 DEF LatestInv

\* A record of packet p is started: it is the last in flight, and the cached one.
LEMMA LatestStarts ==
    ASSUME LatestInv, TypeInv', UNCHANGED imei,
           NEW s \in Sockets, imei[s] # None, NEW p \in Packets, NEW r \in 1..Records,
           NEW rest \in Seq(StartedOps), LastLatest(rest, Unharmed'), ProcessRecord(s, p, r, rest),
           started'[s][p] > 0,
           \A t \in Sockets, q \in Packets : started[t][q] > 0 => started'[t][q] > 0
    PROVE  inflight' \in Seq(StartedOps') /\ LastLatest(inflight, Unharmed)' /\ LatestIsStarted'
<1> DEFINE op == [sock |-> s, pkt |-> p, rec |-> r]
           i == imei[s]
<1>1. /\ inflight' = Append(rest, op) /\ latest' = [latest EXCEPT ![i] = Stamp(p, r)]
      /\ i \in Imeis /\ latest \in [Imeis -> Nat] /\ Records \in Nat \ {0} /\ p \in Nat /\ r \in Nat
      /\ op.sock = s /\ op.pkt = p /\ op.rec = r
  BY ServerAssumption DEF ProcessRecord, LatestInv, TakeInv, TypeInv, TypeOK, ServerAssumption, Packets
<1>2. op \in StartedOps'
  BY DEF StartedOps, AuthOps, RecordOps
<1>3. rest \in Seq(StartedOps')
  <2>1. StartedOps \subseteq StartedOps'
    BY DEF StartedOps, AuthOps, RecordOps
  <2> QED
    BY <2>1, SeqMonotone
<1> HIDE DEF op
<1>4. /\ Len(rest) \in Nat /\ DOMAIN rest = 1..Len(rest)
      /\ DOMAIN inflight' = 1..(Len(rest) + 1) /\ inflight'[Len(rest) + 1] = op
      /\ \A k \in DOMAIN rest : inflight'[k] = rest[k] /\ rest[k] \in StartedOps
  BY <1>1
<1>5. inflight' \in Seq(StartedOps')
  BY <1>1, <1>2, <1>3
<1>6. LastLatest(inflight, Unharmed)'
  <2> SUFFICES ASSUME NEW k \in DOMAIN inflight', imei[inflight'[k].sock] \in Unharmed',
                      \A j \in DOMAIN inflight' : j > k => imei[inflight'[j].sock] # imei[inflight'[k].sock]
               PROVE  latest'[imei[inflight'[k].sock]] = Stamp(inflight'[k].pkt, inflight'[k].rec)
    BY DEF LastLatest, Stamp
  <2>1. CASE k = Len(rest) + 1
    BY <1>1, <1>4, <2>1
  <2>2. CASE k # Len(rest) + 1
    <3>1. k \in DOMAIN rest /\ k < Len(rest) + 1 /\ inflight'[k] = rest[k]
      BY <1>4, <2>2
    <3>2. imei[rest[k].sock] # i
      BY <1>1, <1>4, <3>1
    <3>3. \A j \in DOMAIN rest : j > k => imei[rest[j].sock] # imei[rest[k].sock]
      BY <1>4, <3>1
    <3>4. latest[imei[rest[k].sock]] = Stamp(rest[k].pkt, rest[k].rec)
      BY <1>4, <3>1, <3>3 DEF LastLatest
    <3>5. imei[rest[k].sock] \in Imeis
      BY <1>4, <3>1 DEF StartedOps, AuthOps, RecordOps, LatestInv, TakeInv, TypeInv, TypeOK
    <3> QED
      BY <1>1, <3>1, <3>2, <3>4, <3>5
  <2> QED
    BY <2>1, <2>2
<1>7. LatestIsStarted'
  <2> SUFFICES ASSUME NEW m \in Imeis, latest'[m] > 0
               PROVE  \E t \in Sockets, q \in Packets :
                          imei[t] = m /\ started'[t][q] > 0 /\ latest'[m] <= Stamp(q, Records)
    BY DEF LatestIsStarted, Stamp
  <2>1. CASE m = i
    <3>1. Records * p \in Nat
      BY <1>1
    <3>2. latest'[m] = Stamp(p, r) /\ Stamp(p, r) <= Stamp(p, Records)
      BY <1>1, <2>1, <3>1 DEF Stamp
    <3> QED
      BY <2>1, <3>2
  <2>2. CASE m # i
    <3>1. latest'[m] = latest[m]
      BY <1>1, <2>2
    <3> QED
      BY <3>1 DEF LatestInv, LatestIsStarted
  <2> QED
    BY <2>1, <2>2
<1> QED
  BY <1>5, <1>6, <1>7

\* Where no call of the device is in flight before it, no other connection is the
\* device's and nothing of it was lost, a record that does not go back is all there
\* is to show.
LEMMA LatestMoves ==
    ASSUME LatestInv, NEW s \in Sockets, imei[s] # None, NEW p \in Packets, NEW r \in 1..Records,
           NEW rest \in Seq(StartedOps), ProcessRecord(s, p, r, rest),
           /\ \A k \in DOMAIN rest : imei[rest[k].sock] # imei[s]
           /\ \A t \in Sockets : imei[t] = imei[s] => t = s
           /\ ~(started'[s][p] > 1) /\ lost'[s] = {}
           => latest[imei[s]] <= Stamp(p, r)
    PROVE  GoesBackByOverlap
<1> DEFINE op == [sock |-> s, pkt |-> p, rec |-> r]
           i == imei[s]
<1>1. /\ inflight' = Append(rest, op) /\ latest' = [latest EXCEPT ![i] = Stamp(p, r)]
      /\ i \in Imeis /\ latest \in [Imeis -> Nat]
      /\ op.sock = s /\ op.pkt = p /\ op.rec = r
  BY DEF ProcessRecord, LatestInv, TakeInv, TypeInv, TypeOK
<1>2. Stamp(p, r) \in Nat
  BY StampType, ServerAssumption DEF ServerAssumption, Packets
<1> HIDE DEF op
<1>3. /\ Len(rest) \in Nat /\ DOMAIN rest = 1..Len(rest) /\ Len(inflight') = Len(rest) + 1
      /\ Last(inflight') = op /\ \A k \in 1..Len(rest) : inflight'[k] = rest[k]
  BY <1>1 DEF Last
<1> SUFFICES ASSUME NEW m \in Imeis, latest'[m] < latest[m],
                    ~ \E k \in 1..(Len(inflight') - 1) : imei[inflight'[k].sock] = m,
                    ~ \E t \in Sockets \ {s} : imei[t] = m,
                    ~(started'[s][p] > 1), lost'[s] = {}
             PROVE  FALSE
  BY <1>1, <1>3 DEF GoesBackByOverlap
<1>4. m = i /\ Stamp(p, r) < latest[i]
  BY <1>1
<1>5. latest[i] <= Stamp(p, r)
  BY <1>3, <1>4
<1> QED
  BY <1>1, <1>2, <1>4, <1>5

\* The packet after an even number of fragments and the IMEI frame starts there.
LEMMA OddStart ==
    ASSUME NEW c \in Nat, c % 2 = 1
    PROVE  2 * PacketAt(c) - 1 = c
<1>1. c = 2 * (c \div 2) + 1 /\ c \div 2 \in Nat
  OBVIOUS
<1>2. (c + 1) \div 2 = (c \div 2) + 1
  BY <1>1
<1> QED
  BY <1>1, <1>2 DEF PacketAt

\* The loop starts the first record of a packet at or behind the start of the buffer,
\* at its start when the connection is not registered, or starts none.
LEMMA PhaseLatest ==
    ASSUME TypeInv, NEW s \in Sockets, NEW d \in Nat, consumed[s] <= d, d <= 2 * MaxPackets + 1,
           NEW ops, HandleDataPhase(s, d, ops)
    PROVE  /\ \A t \in Sockets : consumed'[t] >= consumed[t]
           /\ \/ inflight' = ops /\ UNCHANGED <<started, latest>>
              \/ \E p \in Packets :
                    /\ ProcessRecord(s, p, 1, ops)
                    /\ started' = [started EXCEPT ![s][p] = IF @ = 0 THEN 1 ELSE 2]
                    /\ consumed[s] <= 2 * p - 1 /\ 2 * p - 1 <= consumed'[s]
<1> USE DEF TypeInv, TypeOK, BufferBounds
<1>1. PICK c \in consumed[s]..d :
        /\ Registered(s) \/ c = consumed[s]
        /\ \/ /\ consumed' = [consumed EXCEPT ![s] = d] \/ consumed' = [consumed EXCEPT ![s] = c]
                 \/ UNCHANGED consumed
              /\ inflight' = ops /\ UNCHANGED <<started, latest>>
           \/ /\ CompleteGood(c, d)
              /\ consumed' = Take(s, c)
              /\ started' = [started EXCEPT ![s][PacketAt(c)] = IF @ = 0 THEN 1 ELSE 2]
              /\ ProcessRecord(s, PacketAt(c), 1, ops)
  BY DEF HandleDataPhase
<1>2. c \in Nat /\ consumed[s] \in Nat /\ consumed[s] <= c /\ c <= d
  OBVIOUS
<1>3. CASE /\ consumed' = [consumed EXCEPT ![s] = d] \/ consumed' = [consumed EXCEPT ![s] = c]
              \/ UNCHANGED consumed
           /\ inflight' = ops /\ UNCHANGED <<started, latest>>
  <2>1. ASSUME NEW b \in {c, d}, consumed' = [consumed EXCEPT ![s] = b]
        PROVE  \A t \in Sockets : consumed'[t] >= consumed[t]
    BY <1>2, <2>1
  <2>2. ASSUME UNCHANGED consumed PROVE \A t \in Sockets : consumed'[t] >= consumed[t]
    BY <2>2
  <2> QED
    BY <1>3, <2>1, <2>2
<1>4. CASE /\ CompleteGood(c, d)
           /\ consumed' = Take(s, c)
           /\ started' = [started EXCEPT ![s][PacketAt(c)] = IF @ = 0 THEN 1 ELSE 2]
           /\ ProcessRecord(s, PacketAt(c), 1, ops)
  <2>1. PacketAt(c) \in Packets
    BY <1>2, <1>4, PacketInRange DEF CompleteGood
  <2>2. c % 2 = 1
    BY <1>2, <1>4 DEF CompleteGood, Complete, BadPreamble
  <2>3. 2 * PacketAt(c) - 1 = c
    BY <1>2, <2>2, OddStart
  <2>4. CASE Registered(s)
    <3>1. consumed' = [consumed EXCEPT ![s] = c + 2]
      BY <1>4, <2>4 DEF Take
    <3>2. c <= consumed'[s] /\ \A t \in Sockets : consumed'[t] >= consumed[t]
      BY <1>2, <3>1
    <3> QED
      BY <1>2, <1>4, <2>1, <2>3, <3>2
  <2>5. CASE ~Registered(s)
    <3>1. c = consumed[s] /\ consumed' = ConsumeBuffer(addr[s], 2)
      BY <1>1, <1>4, <2>5 DEF Take
    <3>2. \A t \in Sockets : consumed'[t] >= consumed[t]
      BY <3>1 DEF ConsumeBuffer
    <3> QED
      BY <1>2, <1>4, <2>1, <2>3, <3>1, <3>2
  <2> QED
    BY <2>4, <2>5
<1> QED
  BY <1>1, <1>3, <1>4

\* A run of the loop, on calls in flight that are in order.
LEMMA PhaseMoves ==
    ASSUME LatestInv, TakeInv', UNCHANGED imei, NEW s \in Sockets, imei[s] # None,
           NEW d \in Nat, consumed[s] <= d, d <= 2 * MaxPackets + 1,
           NEW ops \in Seq(StartedOps), LastLatest(ops, Unharmed'), HandleDataPhase(s, d, ops)
    PROVE  LatestInv' /\ GoesBackByOverlap
<1>1. /\ TypeInv /\ TypeInv' /\ started \in [Sockets -> [Packets -> 0..2]]
      /\ consumed \in [Sockets -> Nat] /\ consumed' \in [Sockets -> Nat] /\ latest \in [Imeis -> Nat]
      /\ imei \in [Sockets -> Imeis \cup {None}]
  BY DEF LatestInv, TakeInv, TypeInv, TypeOK
<1>2. \A t \in Sockets : consumed'[t] >= consumed[t]
  BY <1>1, PhaseLatest
<1>3. CASE inflight' = ops /\ UNCHANGED <<started, latest>>
  BY <1>2, <1>3, LatestQuiet
<1>4. CASE \E p \in Packets :
              /\ ProcessRecord(s, p, 1, ops)
              /\ started' = [started EXCEPT ![s][p] = IF @ = 0 THEN 1 ELSE 2]
              /\ consumed[s] <= 2 * p - 1 /\ 2 * p - 1 <= consumed'[s]
  <2>1. PICK p \in Packets :
            /\ ProcessRecord(s, p, 1, ops)
            /\ started' = [started EXCEPT ![s][p] = IF @ = 0 THEN 1 ELSE 2]
            /\ consumed[s] <= 2 * p - 1 /\ 2 * p - 1 <= consumed'[s]
    BY <1>4
  <2>2. /\ started'[s][p] = IF started[s][p] = 0 THEN 1 ELSE 2
        /\ \A t \in Sockets, q \in Packets : ~(t = s /\ q = p) => started'[t][q] = started[t][q]
    BY <1>1, <2>1
  <2>3. /\ started'[s][p] > 0
        /\ \A t \in Sockets, q \in Packets : started[t][q] > 0 => started'[t][q] > 0
    <3>1. started'[s][p] > 0
      BY <2>2
    <3>2. ASSUME NEW t \in Sockets, NEW q \in Packets, started[t][q] > 0 PROVE started'[t][q] > 0
      BY <2>2, <3>1, <3>2
    <3> QED
      BY <3>1, <3>2
  <2>4. 1 \in 1..Records /\ Packets \subseteq Nat
    BY ServerAssumption DEF ServerAssumption, Packets
  <2>5. inflight' \in Seq(StartedOps') /\ LastLatest(inflight, Unharmed)' /\ LatestIsStarted'
    BY <1>1, <2>1, <2>3, <2>4, LatestStarts
  <2>6. StartedBehind'
    <3> SUFFICES ASSUME NEW t \in Sockets, NEW q \in Packets, started'[t][q] > 0
                 PROVE  2 * q - 1 <= consumed'[t]
      BY DEF StartedBehind
    <3>1. CASE t = s /\ q = p
      BY <2>1, <3>1
    <3>2. CASE ~(t = s /\ q = p)
      <4>1. 2 * q - 1 <= consumed[t]
        BY <2>2, <3>2 DEF LatestInv, StartedBehind
      <4> QED
        BY <1>1, <1>2, <2>4, <4>1
    <3> QED
      BY <3>1, <3>2
  <2>7. ASSUME \A k \in DOMAIN ops : imei[ops[k].sock] # imei[s],
               \A t \in Sockets : imei[t] = imei[s] => t = s,
               ~(started'[s][p] > 1), lost'[s] = {}
        PROVE  latest[imei[s]] <= Stamp(p, 1)
    <3>1. started[s][p] = 0
      BY <1>1, <2>2, <2>7
    <3>2. imei[s] \in Imeis /\ latest[imei[s]] \in Nat /\ Stamp(p, 1) \in Nat
      BY <1>1, <2>4, StampType, ServerAssumption DEF ServerAssumption
    <3>3. CASE ~(latest[imei[s]] > 0)
      BY <3>2, <3>3
    <3>4. CASE latest[imei[s]] > 0
      <4>1. PICK q \in Packets : started[s][q] > 0 /\ latest[imei[s]] <= Stamp(q, Records)
        BY <2>7, <3>2, <3>4 DEF LatestInv, LatestIsStarted
      <4>2. q # p /\ 2 * q - 1 <= consumed[s]
        BY <3>1, <4>1 DEF LatestInv, StartedBehind
      <4>3. q < p
        BY <1>1, <2>1, <2>4, <4>2
      <4>4. Stamp(q, Records) <= Stamp(p, 1) /\ Stamp(q, Records) \in Nat
        BY <2>4, <4>3, StampOrder, StampType, ServerAssumption DEF ServerAssumption
      <4> QED
        BY <3>2, <4>1, <4>4
    <3> QED
      BY <3>3, <3>4
  <2>8. GoesBackByOverlap
    BY <2>1, <2>4, <2>7, LatestMoves
  <2> QED
    BY <2>5, <2>6, <2>8 DEF LatestInv
<1> QED
  BY <1>1, <1>3, <1>4, PhaseLatest

\* Every step keeps the calls in flight of a device in order, and takes its position
\* back only by an overlap.
LEMMA LatestStep ==
    ASSUME LatestInv, [Next]_vars
    PROVE  LatestInv' /\ GoesBackByOverlap
<1>1. /\ TakeInv /\ TakeInv' /\ TypeInv /\ TypeInv' /\ inflight \in Seq(StartedOps)
      /\ LastLatest(inflight, Unharmed) /\ lost \in [Sockets -> SUBSET (Packets \X (1..Records))]
      /\ consumed \in [Sockets -> Nat] /\ imei \in [Sockets -> Imeis \cup {None}]
  BY TakeStep DEF LatestInv, TakeInv, TypeInv, TypeOK
<1>2. ASSUME UNCHANGED <<started, latest, inflight, imei, consumed, lost>>
      PROVE  LatestInv' /\ GoesBackByOverlap
  <2>1. \A t \in Sockets : imei'[t] = imei[t] /\ consumed'[t] >= consumed[t]
    BY <1>1, <1>2
  <2>2. LastLatest(inflight', Unharmed')
    BY <1>1, <1>2, HarmStays
  <2> QED
    BY <1>1, <1>2, <2>1, <2>2, LatestQuiet
<1>3. ASSUME NEW s \in Sockets, NEW n \in 1..(2 * MaxPackets + 1), DataEvent(s, n)
      PROVE  LatestInv' /\ GoesBackByOverlap
  <2>1. CASE WaitingImei(s)
    <3>1. /\ UNCHANGED <<started, latest, inflight, lost>> /\ consumed' = [consumed EXCEPT ![s] = 1]
          /\ imei[s] = None /\ \A t \in Sockets : t # s => imei'[t] = imei[t]
      BY <1>1, <1>3, <2>1 DEF DataEvent, HandleImeiPhase, SetImei, dataVars, WaitingImei
    <3>2. \A t \in Sockets : imei[t] # None => imei'[t] = imei[t] /\ consumed'[t] >= consumed[t]
      BY <1>1, <3>1
    <3>3. LastLatest(inflight', Unharmed')
      BY <1>1, <3>1, <3>2, HarmStays
    <3> QED
      BY <1>1, <3>1, <3>2, <3>3, LatestQuiet
  <2>2. CASE ~WaitingImei(s)
    <3>1. /\ HandleDataPhase(s, delivered[s] + n, inflight) /\ UNCHANGED <<imei, lost>>
          /\ delivered[s] + n <= Sendable(s) /\ imei[s] # None
      BY <1>3, <2>2 DEF DataEvent, WaitingImei
    <3>2. /\ delivered[s] + n \in Nat /\ consumed[s] <= delivered[s] + n
          /\ delivered[s] + n <= 2 * MaxPackets + 1
      <4>1. delivered[s] \in Nat /\ consumed[s] \in Nat /\ consumed[s] <= delivered[s]
        BY <1>1 DEF TypeInv, TypeOK, BufferBounds
      <4>2. Sendable(s) \in Nat /\ Sendable(s) <= 2 * MaxPackets + 1 /\ MaxPackets \in Nat
        BY <1>1, SendableBound, ServerAssumption DEF TypeInv, ServerAssumption
      <4> QED
        BY <3>1, <4>1, <4>2
    <3>3. LastLatest(inflight, Unharmed')
      BY <1>1, <3>1, HarmStays
    <3> QED
      BY <1>1, <3>1, <3>2, <3>3, PhaseMoves
  <2> QED
    BY <2>1, <2>2
<1>4. ASSUME NEW k \in 1..Len(inflight), NEW added \in BOOLEAN, RecordSettled(k, added)
      PROVE  LatestInv' /\ GoesBackByOverlap
  <2> DEFINE op == inflight[k]
             s == op.sock
             rest == RemoveAt(inflight, k)
  <2>1. inflight \in Seq(RecordOps) /\ k \in DOMAIN inflight /\ op \in StartedOps
    <3>1. inflight \in Seq(RecordOps)
      BY <1>1, SeqMonotone DEF StartedOps, AuthOps
    <3> QED
      BY <1>1, <3>1
  <2>2. /\ op \in AuthOps /\ s \in Sockets /\ imei[s] # None /\ imei[s] \in Imeis
        /\ op.pkt \in Packets /\ op.rec \in 1..Records /\ started[s][op.pkt] > 0
        /\ rest \in Seq(StartedOps)
    <3>1. rest \in Seq(StartedOps)
      BY <1>1, <2>1, RemoveAtType
    <3>2. /\ op \in AuthOps /\ s \in Sockets /\ imei[s] # None
          /\ op.pkt \in Packets /\ op.rec \in 1..Records /\ started[s][op.pkt] > 0
      BY <2>1 DEF StartedOps, AuthOps, RecordOps
    <3> QED
      BY <1>1, <3>1, <3>2
  <2>3. /\ UNCHANGED imei
        /\ \A t \in Sockets : lost[t] \subseteq lost'[t]
        /\ (k = 1 /\ UNCHANGED lost) \/ lost'[s] # {}
    <3>1. CASE added
      BY <1>4, <3>1 DEF RecordSettled
    <3>2. CASE ~added
      <4>1. lost' = [lost EXCEPT ![s] = @ \cup {<<op.pkt, op.rec>>}] /\ UNCHANGED imei
        BY <1>4, <3>2 DEF RecordSettled
      <4>2. lost'[s] = lost[s] \cup {<<op.pkt, op.rec>>}
        BY <1>1, <2>2, <4>1
      <4>3. lost'[s] # {}
        BY <4>2
      <4>4. \A t \in Sockets : lost[t] \subseteq lost'[t]
        BY <1>1, <2>2, <4>1
      <4> QED
        BY <4>1, <4>3, <4>4
    <3> QED
      BY <3>1, <3>2
  <2>4. IF ~LastRecord(op)
        THEN ProcessRecord(s, op.pkt, op.rec + 1, rest) /\ UNCHANGED <<consumed, started>>
        ELSE HandleDataPhase(s, delivered[s], rest)
    BY <1>4 DEF RecordSettled, LoopAgain
  <2>5. Unharmed' \subseteq Unharmed /\ LastLatest(rest, Unharmed')
    <3>1. Unharmed' \subseteq Unharmed
      BY <1>1, <2>3, HarmStays
    <3>2. k = 1 \/ imei[s] \notin Unharmed'
      BY <2>2, <2>3 DEF Unharmed
    <3> QED
      BY <1>1, <2>1, <3>1, <3>2, RemoveLatest
  <2>6. ASSUME \A j \in DOMAIN rest : imei[rest[j].sock] # imei[s],
               \A t \in Sockets : imei[t] = imei[s] => t = s, lost'[s] = {}
        PROVE  latest[imei[s]] = Stamp(op.pkt, op.rec)
    <3>1. k = 1 /\ imei[s] \in Unharmed
      BY <2>2, <2>3, <2>6 DEF Unharmed
    <3>2. \A j \in DOMAIN inflight : j > 1 => j - 1 \in DOMAIN rest /\ rest[j - 1] = inflight[j]
      BY <1>1, <2>1, <3>1, WithoutFirst
    <3>3. \A j \in DOMAIN inflight : j > k => imei[inflight[j].sock] # imei[s]
      BY <2>6, <3>1, <3>2
    <3> QED
      BY <1>1, <2>1, <3>1, <3>3 DEF LastLatest
  <2> HIDE DEF rest, op
  <2>7. CASE ~LastRecord(op)
    <3>1. op.rec + 1 \in 1..Records
      BY <2>2, <2>7, ServerAssumption DEF LastRecord, ServerAssumption
    <3>2. started'[s][op.pkt] > 0 /\ ProcessRecord(s, op.pkt, op.rec + 1, rest)
      BY <2>2, <2>4, <2>7
    <3>3. \A t \in Sockets, q \in Packets : started[t][q] > 0 => started'[t][q] > 0
      BY <2>4, <2>7
    <3>4. inflight' \in Seq(StartedOps') /\ LastLatest(inflight, Unharmed)' /\ LatestIsStarted'
      BY <1>1, <2>2, <2>3, <2>4, <2>5, <3>1, <3>2, <3>3, LatestStarts
    <3>5. StartedBehind'
      BY <2>4, <2>7 DEF LatestInv, StartedBehind
    <3>6. Stamp(op.pkt, op.rec) <= Stamp(op.pkt, op.rec + 1)
      <4>1. Records * op.pkt \in Nat /\ op.rec \in Nat
        BY <2>2, ServerAssumption DEF ServerAssumption, Packets
      <4> QED
        BY <4>1 DEF Stamp
    <3>7. ASSUME \A j \in DOMAIN rest : imei[rest[j].sock] # imei[s],
                 \A t \in Sockets : imei[t] = imei[s] => t = s,
                 ~(started'[s][op.pkt] > 1), lost'[s] = {}
          PROVE  latest[imei[s]] <= Stamp(op.pkt, op.rec + 1)
      BY <2>6, <3>6, <3>7
    <3>8. GoesBackByOverlap
      BY <2>2, <3>1, <3>2, <3>7, LatestMoves
    <3> QED
      BY <1>1, <3>4, <3>5, <3>8 DEF LatestInv
  <2>8. CASE LastRecord(op)
    <3>1. delivered[s] \in Nat /\ consumed[s] <= delivered[s] /\ delivered[s] <= 2 * MaxPackets + 1
      BY <1>1, <2>2 DEF TypeInv, TypeOK, BufferBounds
    <3> QED
      BY <1>1, <2>2, <2>3, <2>4, <2>5, <2>8, <3>1, PhaseMoves
  <2> QED
    BY <2>7, <2>8
<1>5. CASE ProcessEnd
  <2>1. UNCHANGED <<started, latest, imei, consumed>> /\ inflight' = <<>>
    BY <1>5 DEF ProcessEnd
  <2>2. inflight' \in Seq(StartedOps) /\ LastLatest(inflight', Unharmed')
    BY <2>1 DEF LastLatest
  <2>3. \A t \in Sockets : imei'[t] = imei[t] /\ consumed'[t] >= consumed[t]
    BY <1>1, <2>1
  <2> QED
    BY <1>1, <2>1, <2>2, <2>3, LatestQuiet
<1>6. ASSUME NEW s \in Sockets, SocketStep(s) PROVE LatestInv' /\ GoesBackByOverlap
  <2>1. CASE \E a \in Addrs, h \in Imeis \cup {Invalid} : Accept(s, a, h)
    BY <1>2, <2>1 DEF Accept, CreateConnection, dataVars
  <2>2. CASE PeerClose(s) \/ GoIdle(s) \/ SocketTimeout(s) \/ CloseEvent(s)
    BY <1>2, <2>2 DEF PeerClose, GoIdle, SocketTimeout, CloseEvent, dataVars
  <2> QED
    BY <1>3, <1>6, <2>1, <2>2 DEF SocketStep
<1>7. CASE CleanupTick \/ SetReply \/ PublishReply \/ Stop \/ UNCHANGED vars
  BY <1>2, <1>7 DEF CleanupTick, SetReply, PublishReply, Stop, vars, connVars, dataVars
<1> QED
  BY <1>4, <1>5, <1>6, <1>7 DEF Next

\* The cached position of a device goes back to an older record only when two of its
\* packets are under way at the same time, when it sends on another connection, when a
\* packet is taken up again, or after the queue rejected a record of the connection
\* (server.ts:266-302, 399).
THEOREM LatestGoesBack == Spec => LatestGoesBackOnlyByOverlap
<1>1. Init => LatestInv
  <2> SUFFICES ASSUME Init PROVE LatestInv
    OBVIOUS
  <2>1. /\ inflight = <<>> /\ started = [s \in Sockets |-> [p \in Packets |-> 0]]
        /\ latest = [i \in Imeis |-> 0]
    BY DEF Init
  <2>2. inflight \in Seq(StartedOps) /\ LastLatest(inflight, Unharmed) /\ LatestIsStarted /\ StartedBehind
    BY <2>1 DEF LastLatest, LatestIsStarted, StartedBehind
  <2> QED
    BY <2>2, TakeInit DEF LatestInv
<1>2. LatestInv /\ [Next]_vars => LatestInv' /\ [GoesBackByOverlap]_vars
  BY LatestStep
<1>3. LatestInv /\ [Next]_vars => LatestInv'
  BY LatestStep
<1>4. Spec => [][GoesBackByOverlap]_vars
  BY <1>1, <1>2, PTL DEF Spec
<1> QED
  BY <1>4 DEF LatestGoesBackOnlyByOverlap, GoesBackByOverlap
=============================================================================
