----------------------------------- MODULE Hub -----------------------------------
(***************************************************************************)
(* The WebSocket endpoint of the API server (apps/api/src/websocket): the   *)
(* Redis subscriber hands every published message to the sockets whose      *)
(* clients subscribed to its room.                                          *)
(***************************************************************************)
EXTENDS Naturals, Sequences, SequencesExt

CONSTANTS
    Sockets,        \* connections of clients
    User,           \* the user of each, the subject of its token
    Devices,        \* IMEIs that telemetry is published for
    Nothing,        \* undefined
    MaxPublished,   \* bound: published messages
    MaxCommands,    \* bound: messages of the clients
    MaxOutages      \* bound: losses of the Redis connection

VARIABLES
    ready,      \* readyState: "none", "open", "closing" or "closed"
    clients,    \* the map of ConnectionManager: subscriptions, or Nothing
    inbox,      \* messages of a client on their way
    redis,      \* the subscriber: "off", "asked", "subscribed" or "lost"
    attached,   \* start() has attached the handler of 'pmessage'
    arriving,   \* published messages on their way to the subscriber
    published, commands, outages,
    acked,      \* what the client knows: rooms it was told it is subscribed to,
    heard,      \* and the messages it got since then, by channel
    handled     \* history: the messages handled since then, by channel

hubVars == <<ready, clients, inbox, redis, attached, arriving, published, commands, outages,
             acked, heard, handled>>

\* telemetry:all, telemetry:{imei}, alerts and device:status
Channels == {"telemetry:all", "alerts", "device:status"} \cup Devices
Rooms == {"fleet", "alerts"} \cup Devices

\* undefined is no room and no set of rooms.
ASSUME HubAssumption == Nothing \notin Rooms /\ \A rooms \in SUBSET Rooms: rooms # Nothing

\* handleMessage: device:status goes to the fleet only.
RoomOf(channel) == IF channel \in {"telemetry:all", "device:status"} THEN "fleet" ELSE channel

\* One message may subscribe, unsubscribe, or both.
Commands == [subscribe: Rooms \cup {Nothing}, unsubscribe: Rooms \cup {Nothing}]

Silence == [c \in Channels |-> <<>>]

HubInit ==
    /\ ready = [s \in Sockets |-> "none"]
    /\ clients = [s \in Sockets |-> Nothing]
    /\ inbox = [s \in Sockets |-> <<>>]
    /\ redis = "off" /\ attached = FALSE
    /\ arriving = <<>>
    /\ published = 0 /\ commands = 0 /\ outages = 0
    /\ acked = [s \in Sockets |-> {}]
    /\ heard = [s \in Sockets |-> Silence]
    /\ handled = [s \in Sockets |-> Silence]

\* Mutant: one client for a user, as a map of users would have it.
OfUser(s) == [t \in Sockets |-> IF t = s THEN {} ELSE IF User[t] = User[s] THEN Nothing ELSE clients[t]]

Added(s) == [clients EXCEPT ![s] = {}]

\* The upgrade: a token that is missing or not valid gets an error and is closed.
Connect(s) ==
    /\ ready[s] = "none"
    /\ \/ ready' = [ready EXCEPT ![s] = "open"] /\ clients' = Added(s)
       \/ ready' = [ready EXCEPT ![s] = "closing"] /\ UNCHANGED clients
    /\ UNCHANGED <<inbox, redis, attached, arriving, published, commands, outages, acked, heard, handled>>

Send(s) ==
    /\ ready[s] = "open" /\ commands < MaxCommands
    /\ commands' = commands + 1
    /\ \E m \in Commands: inbox' = [inbox EXCEPT ![s] = Append(@, m)]
    /\ UNCHANGED <<ready, clients, redis, attached, arriving, published, outages, acked, heard, handled>>

\* What the lines of 'message' do to a set of rooms; subscribe comes first.
Applied(rooms, m) == (rooms \cup {m.subscribe}) \ {m.unsubscribe, Nothing}

\* What was heard in a room that is subscribed to or unsubscribed from now counts no more.
Restarted(log, m) ==
    [c \in Channels |-> IF RoomOf(c) \in {m.subscribe, m.unsubscribe} THEN <<>> ELSE log[c]]

\* socket.on('message'): the subscriptions change if the socket has a client; the
\* answer is sent anyway.
Message(s) ==
    /\ ready[s] = "open" /\ inbox[s] # <<>>
    /\ LET m == Head(inbox[s]) IN
       /\ clients' = [clients EXCEPT ![s] = IF @ = Nothing THEN Nothing ELSE Applied(@, m)]
       /\ acked' = [acked EXCEPT ![s] = Applied(@, m)]
       /\ heard' = [heard EXCEPT ![s] = Restarted(@, m)]
       /\ handled' = [handled EXCEPT ![s] = Restarted(@, m)]
    /\ inbox' = [inbox EXCEPT ![s] = Tail(@)]
    /\ UNCHANGED <<ready, redis, attached, arriving, published, commands, outages>>

\* The client leaves, or the connection breaks.
Leave(s) ==
    /\ ready[s] = "open"
    /\ ready' = [ready EXCEPT ![s] = "closing"]
    /\ inbox' = [inbox EXCEPT ![s] = <<>>]
    /\ UNCHANGED <<clients, redis, attached, arriving, published, commands, outages, acked, heard, handled>>

\* socket.on('error'), before 'close'.
Error(s) ==
    /\ ready[s] = "closing" /\ clients[s] # Nothing
    /\ clients' = [clients EXCEPT ![s] = Nothing]
    /\ UNCHANGED <<ready, inbox, redis, attached, arriving, published, commands, outages, acked, heard, handled>>

\* socket.on('close')
Close(s) ==
    /\ ready[s] = "closing"
    /\ ready' = [ready EXCEPT ![s] = "closed"]
    /\ clients' = [clients EXCEPT ![s] = Nothing]
    /\ UNCHANGED <<inbox, redis, attached, arriving, published, commands, outages, acked, heard, handled>>

\* RedisSubscriber.start, called once by the hook onReady: psubscribe ...
Start ==
    /\ redis = "off"
    /\ redis' = "asked"
    /\ UNCHANGED <<ready, clients, inbox, attached, arriving, published, commands, outages, acked, heard, handled>>

\* ... takes effect in Redis, again after a lost connection ...
Subscribe ==
    /\ redis \in {"asked", "lost"}
    /\ redis' = "subscribed"
    /\ UNCHANGED <<ready, clients, inbox, attached, arriving, published, commands, outages, acked, heard, handled>>

\* ... and only when its promise has resolved is the handler attached.
Attach ==
    /\ redis = "subscribed" /\ ~attached
    /\ attached' = TRUE
    /\ UNCHANGED <<ready, clients, inbox, redis, arriving, published, commands, outages, acked, heard, handled>>

\* The worker publishes; Redis delivers to who is subscribed now, or to nobody.
Publish(c) ==
    /\ published < MaxPublished
    /\ published' = published + 1
    /\ arriving' = IF redis = "subscribed" THEN Append(arriving, [channel |-> c, number |-> published'])
                   ELSE arriving
    /\ UNCHANGED <<ready, clients, inbox, redis, attached, commands, outages, acked, heard, handled>>

Lose ==
    /\ redis = "subscribed" /\ outages < MaxOutages
    /\ outages' = outages + 1
    /\ redis' = "lost"
    /\ arriving' = <<>>
    /\ UNCHANGED <<ready, clients, inbox, attached, published, commands, acked, heard, handled>>

\* broadcast: who gets a message of this room.
Receivers(room) == {s \in Sockets: clients[s] # Nothing /\ room \in clients[s] /\ ready[s] = "open"}

Heard(log, c, n, ss) == [s \in Sockets |-> IF s \in ss THEN [log[s] EXCEPT ![c] = Append(@, n)] ELSE log[s]]

\* 'pmessage', which is lost as long as nothing listens to it.
HandleMessage ==
    /\ arriving # <<>>
    /\ arriving' = Tail(arriving)
    /\ LET c == Head(arriving).channel
           n == Head(arriving).number
       IN
       IF attached
         THEN /\ heard' = Heard(heard, c, n, Receivers(RoomOf(c)))
              /\ handled' = Heard(handled, c, n, {s \in Sockets: ready[s] = "open" /\ RoomOf(c) \in acked[s]})
         ELSE UNCHANGED <<heard, handled>>
    /\ UNCHANGED <<ready, clients, inbox, redis, attached, published, commands, outages, acked>>

HubNext ==
    \/ \E s \in Sockets: Connect(s) \/ Send(s) \/ Message(s) \/ Leave(s) \/ Error(s) \/ Close(s)
    \/ Start \/ Subscribe \/ Attach \/ Lose \/ HandleMessage
    \/ \E c \in Channels: Publish(c)
-----------------------------------------------------------------------------
\* While its socket is open a client hears, for each room it was told it is
\* subscribed to, exactly the messages the server handled since it was told so, in
\* their order and each once, and nothing of any other room: two sockets of one
\* user, and those that come and go, do not disturb each other.  Nothing is kept
\* for a socket that is gone.
HearsWhatItAsked ==
    \A s \in Sockets:
        /\ ready[s] = "open" => heard[s] = handled[s]
        /\ ready[s] \in {"none", "closed"} => clients[s] = Nothing
=============================================================================
