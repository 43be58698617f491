----------------------------- MODULE Connection -----------------------------
(***************************************************************************)
(* The life of one connection: the muxer of a RaknetStream with its client *)
(* session, the listener with the session of this peer, and the network    *)
(* between them (raknet/src/transport/stream.rs, mux.rs,                   *)
(* listener/online.rs), from the end of the offline handshake on.          *)
(*                                                                         *)
(* The inner sessions are reduced to what the life of the connection sees: *)
(* the write indexes, the packets not yet acknowledged, the ACKs of the    *)
(* next tick, and the tracker and ordering channel of the receiver.  A     *)
(* packet travels in a datagram of its own, which is resent unchanged.     *)
(*                                                                         *)
(* task is the client's muxer task, ready what connect() has been told.    *)
(* registered: the listener's table has a session for the peer; announced  *)
(* as in SessionState; accepted: a stream of this peer was handed to       *)
(* accept().  given[e] is what has been sent to the application on the     *)
(* channel of the session at e.  joined records that the client has been   *)
(* connected, missing the datagrams that were lost, or whose ACK was, and  *)
(* have not been sent again since.                                         *)
(***************************************************************************)
EXTENDS ManagedSession, ReliableTracker, OrderingChannels

CONSTANTS
    Losable,        \* the ends whose incoming datagrams may be lost
    MaxIncidents    \* bound of the model: losses, resends of what was not lost
                    \* and messages of the applications, taken together, but for
                    \* unreliable messages to a client that has gone

Ends == {"client", "server"}

\* The applications choose how a message is sent; these two stand for the modes
\* that are, and are not, kept until they are acknowledged.
AppReliability == {"Unreliable", "ReliableOrdered"}

ASSUME ConnectionAssumption ==
    /\ Losable \subseteq Ends
    /\ MaxIncidents \in Nat

VARIABLES session, transport, net, task, ready, refusal,
          registered, announced, accepted, given,
          joined, missing, incidents

clientVars == <<task, ready, refusal>>
serverVars == <<registered, announced, accepted>>
connectionVars == <<session, transport, net, clientVars, serverVars, given,
                    joined, missing, incidents>>

Peer(e) == IF e = "client" THEN "server" ELSE "client"
\* Stands in an ACK for a datagram without a reliable packet.
NoIndex == Modulo

Role(e) == IF e = "client" THEN "Client" ELSE "Server"

NewTransport ==
    [reliable_write |-> 0, order_write |-> 0, unacked |-> {}, acks |-> {},
     tracker |-> NewTracker(0), channel |-> NewChannel(0)]

\* The offline handshake has left a session at the listener, and a refusal of
\* one of the client's probes that may still come.
ConnectionInit ==
    /\ session = [e \in Ends |-> NewSession(Role(e))]
    /\ transport = [e \in Ends |-> NewTransport]
    /\ net = {}
    /\ task = "starting"
    /\ ready = "waiting"
    /\ refusal = TRUE
    /\ registered = TRUE
    /\ announced = FALSE
    /\ accepted = FALSE
    /\ given = [e \in Ends |-> <<>>]
    /\ joined = FALSE
    /\ missing = {}
    /\ incidents = 0

Incidents(n) ==
    /\ incidents + n <= MaxIncidents
    /\ incidents' = incidents + n

-----------------------------------------------------------------------------
(* Sending.                                                                *)

Encapsulated(e, t, p) ==
    [to |-> Peer(e), kind |-> p.kind, nonce |-> p.nonce, reliability |-> p.reliability,
     reliable_index |-> IF IsReliable(p.reliability) THEN t.reliable_write ELSE 0,
     ordering_index |-> IF IsOrdered(p.reliability) THEN t.order_write ELSE 0,
     acked |-> {}]

\* Mutant: a datagram without a reliable packet is kept for resending too.
TrackingAll(t, m) ==
    [t EXCEPT !.reliable_write = IF IsReliable(m.reliability) THEN SeqNext(@) ELSE @,
              !.order_write = IF IsOrdered(m.reliability) THEN SeqNext(@) ELSE @,
              !.unacked = @ \cup {m}]

Tracking(t, m) ==
    IF ~IsReliable(m.reliability) THEN t
    ELSE [t EXCEPT !.reliable_write = SeqNext(@),
                   !.order_write = IF IsOrdered(m.reliability) THEN SeqNext(@) ELSE @,
                   !.unacked = @ \cup {m}]

\* The datagram of one packet is put on the wire.
Build(e, acc, p) ==
    LET m == Encapsulated(e, acc.t, p)
    IN  [t |-> Tracking(acc.t, m), wire |-> acc.wire \cup {m}]

\* The whole queue, in its order.
BuiltAll(e, queue, t, wire) ==
    LET built[k \in 0 .. Len(queue)] ==
            IF k = 0 THEN [t |-> t, wire |-> wire] ELSE Build(e, built[k - 1], queue[k])
    IN  built[Len(queue)]

\* What stands for a session that was dropped: the listener's next one, or a
\* closed one.
Gone(e) ==
    IF e = "server" THEN NewSession("Server")
    ELSE [NewSession("Client") EXCEPT !.state = "Closed"]

\* The handler at end e leaves session s and transport t, has put wire on the
\* network, and ends with a flush of what it queued.  With gone the session is
\* over after that: the listener drops it, the client its socket.
Flush(e, s, t, wire, gone) ==
    LET built == BuiltAll(e, s.queue, t, wire)
    IN  /\ session' = [session EXCEPT ![e] =
                        IF gone THEN Gone(e) ELSE [s EXCEPT !.queue = <<>>]]
        /\ transport' = [transport EXCEPT ![e] = IF gone THEN NewTransport ELSE built.t]
        /\ net' = IF gone /\ e = "client" THEN {m \in built.wire : m.to = "server"}
                  ELSE built.wire

\* The datagrams of the inner session's tick: the resends due and the ACKs.
Acks(e) ==
    IF transport[e].acks = {} THEN {}
    ELSE {[to |-> Peer(e), kind |-> "Ack", nonce |-> 0, reliability |-> "Unreliable",
           reliable_index |-> 0, ordering_index |-> 0, acked |-> transport[e].acks]}

TickFlush(e, s, due, gone) ==
    /\ due \subseteq transport[e].unacked \ net
    /\ Incidents(Cardinality(due \ missing))
    /\ missing' = missing \ due
    /\ Flush(e, s, [transport[e] EXCEPT !.acks = {}], net \cup due \cup Acks(e),
             gone)

-----------------------------------------------------------------------------
(* Receiving: handle_datagram and the inner session.                       *)

Duplicate(t, m) == IsReliable(m.reliability) /\ HasSeen(t.tracker, m.reliable_index)

Arrived(t, m) ==
    IF IsOrdered(m.reliability) THEN Ready(t.channel, m) ELSE <<m>>

Dispatched(t, m) ==
    IF m.kind = "Ack" \/ Duplicate(t, m) THEN <<>> ELSE Arrived(t, m)

SessionAfter(s, t, m) ==
    IF ~Listens(s) THEN s
    ELSE HandleControlPackets(Heard(s), Dispatched(t, m))

\* What the ACK of m says: its datagram, known by its reliable index.
Acknowledged(m) == {IF IsReliable(m.reliability) THEN m.reliable_index ELSE NoIndex}

TransportAfter(s, t, m) ==
    IF ~Listens(s) THEN t
    ELSE IF m.kind = "Ack"
         THEN [t EXCEPT !.unacked = {u \in @ : u.reliable_index \notin m.acked}]
    ELSE IF Duplicate(t, m) THEN [t EXCEPT !.acks = @ \cup Acknowledged(m)]
    ELSE [t EXCEPT !.acks = @ \cup Acknowledged(m),
                   !.tracker = IF IsReliable(m.reliability)
                               THEN See(@, m.reliable_index) ELSE @,
                   !.channel = IF IsOrdered(m.reliability)
                               THEN HandleOrdered(@, m) ELSE @]

\* What the application is sent: the user data among the packets.
UserMessages(s, t, m) ==
    LET packets == Dispatched(t, m)
    IN  IF ~Listens(s) THEN <<>>
        ELSE [k \in 1 .. Cardinality({i \in DOMAIN packets : packets[i].kind = "UserData"})
                |-> "data"]

-----------------------------------------------------------------------------
(* The client: run_client_muxer.                                           *)

Signal(s) == IF IsConnected(s) /\ ready = "waiting" THEN "ok" ELSE ready

Joins(s) == joined' = (joined \/ IsConnected(s))

\* With the task the session and the socket are gone.
Unbound(wire) ==
    /\ session' = [session EXCEPT !["client"] = Gone("client")]
    /\ transport' = [transport EXCEPT !["client"] = NewTransport]
    /\ net' = {x \in wire : x.to = "server"}

ClientStart ==
    /\ task = "starting"
    /\ task' = "running"
    /\ Flush("client", StartClientHandshake(session["client"]), transport["client"], net,
             FALSE)
    /\ UNCHANGED <<ready, refusal, serverVars, given, joined, missing,
                   incidents>>

\* A datagram of the session.  A session that is closed then ends the task,
\* after a last word to the application and without a flush; connect(), if it
\* still waits, finds the channel closed.
ClientReceive(m) ==
    LET s == SessionAfter(session["client"], transport["client"], m)
        t == TransportAfter(session["client"], transport["client"], m)
        log == given["client"] \o UserMessages(session["client"], transport["client"], m)
    IN  /\ task = "running"
        /\ m \in net
        /\ m.to = "client"
        /\ Joins(s)
        /\ IF s.state = "Closed"
           THEN /\ task' = "ended"
                /\ ready' = IF ready = "waiting" THEN "aborted" ELSE ready
                /\ given' = [given EXCEPT !["client"] = Append(log, "end")]
                /\ Unbound(net \ {m})
           ELSE /\ ready' = Signal(s)
                /\ given' = [given EXCEPT !["client"] = log]
                /\ Flush("client", s, t, net \ {m}, FALSE)
                /\ UNCHANGED task
        /\ UNCHANGED <<refusal, serverVars, missing, incidents>>

\* A refusal in the form of an offline packet ends the task at once.
ClientRefused ==
    /\ task = "running"
    /\ refusal
    /\ refusal' = FALSE
    /\ task' = "ended"
    /\ ready' = IF ready = "waiting" THEN "failed" ELSE ready
    /\ Unbound(net)
    /\ UNCHANGED <<serverVars, given, joined, missing, incidents>>

ClientSend(reliability) ==
    LET s == QueueAppPacket(session["client"], reliability)
    IN  /\ task = "running"
        /\ ready = "ok"
        /\ Incidents(1)
        /\ Flush("client", s, transport["client"], net, FALSE)
        /\ UNCHANGED <<clientVars, serverVars, given, joined, missing>>

ClientTick(due) ==
    LET s == OnTick(session["client"], FALSE)
    IN  /\ task = "running"
        /\ TickFlush("client", s, due, FALSE)
        /\ ready' = Signal(s)
        /\ UNCHANGED <<task, refusal, serverVars, given, joined>>

\* The application drops the stream, which cancels the muxer.
ClientDrop ==
    LET s == session["client"]
    IN  /\ task = "running"
        /\ ready = "ok"
        /\ task' = "ended"
        /\ IF IsConnected(s)
           THEN \E due \in SUBSET transport["client"].unacked :
                    TickFlush("client", OnTick(SendDisconnect(s, "Disconnected"), FALSE), due,
                              TRUE)
           ELSE Unbound(net) /\ UNCHANGED <<missing, incidents>>
        /\ UNCHANGED <<ready, refusal, serverVars, given, joined>>

\* The stream is dropped while a message for it arrives: when the loop takes
\* the message before the cancellation, it finds the channel closed and returns
\* without the notification.
ClientDropUnheard(m) ==
    /\ task = "running"
    /\ ready = "ok"
    /\ m \in net
    /\ m.to = "client"
    /\ UserMessages(session["client"], transport["client"], m) # <<>>
    /\ task' = "ended"
    /\ Unbound(net \ {m})
    /\ UNCHANGED <<ready, refusal, serverVars, given, joined, missing, incidents>>

-----------------------------------------------------------------------------
(* The listener: dispatch_datagram, tick_sessions, handle_outgoing_msg.    *)

\* Mutant: the session of a closed connection stays in the table.
RemovesNever(s) == FALSE

Removes(s) == s.state = "Closed"

\* maybe_announce_connection.
Told(s) == announced \/ IsConnected(s)

\* A session that is closed leaves the table, an announced one with a last word.
LastWord(s, told) == IF s.state = "Closed" /\ told THEN <<"end">> ELSE <<>>

ServerReceive(m) ==
    LET s == SessionAfter(session["server"], transport["server"], m)
        t == TransportAfter(session["server"], transport["server"], m)
        data == UserMessages(session["server"], transport["server"], m)
        told == Told(s)
    IN  /\ registered
        /\ m \in net
        /\ m.to = "server"
        /\ announced' = told
        /\ accepted' = (accepted \/ told)
        /\ Flush("server", s, t, net \ {m}, Removes(s))
        /\ registered' = ~Removes(s)
        /\ given' = [given EXCEPT !["server"] = @ \o data \o LastWord(s, told)]
        /\ UNCHANGED <<clientVars, joined, missing, incidents>>

\* A datagram from a peer without a session is ignored.
ServerIgnore(m) ==
    /\ ~registered
    /\ m \in net
    /\ m.to = "server"
    /\ net' = net \ {m}
    /\ UNCHANGED <<session, transport, clientVars, serverVars, given, joined, missing,
                   incidents>>

ServerTick(due, overfull) ==
    LET s == OnTick(session["server"], overfull)
    IN  /\ registered
        /\ overfull => transport["server"].order_write > 0
        /\ TickFlush("server", s, due, Removes(s))
        /\ registered' = ~Removes(s)
        /\ given' = [given EXCEPT !["server"] = @ \o LastWord(s, announced)]
        /\ UNCHANGED <<clientVars, announced, accepted, joined>>

\* or_insert_with: a message for a peer that has no session makes one, and
\* session and transport of "server" are then those of a new session.  To a
\* client that has gone the application may send without end.
ServerSend(reliability) ==
    /\ accepted
    /\ Incidents(IF task = "ended" /\ reliability = "Unreliable" THEN 0 ELSE 1)
    /\ registered' = TRUE
    /\ announced' = (registered /\ announced)
    /\ given' = [given EXCEPT !["server"] = IF registered THEN @ ELSE <<>>]
    /\ Flush("server", QueueAppPacket(session["server"], reliability), transport["server"], net, FALSE)
    /\ UNCHANGED <<clientVars, accepted, joined, missing>>

-----------------------------------------------------------------------------
(* The network and the clock.                                              *)

\* The datagrams that have to be sent again because m was lost.
Outstanding(m) ==
    IF m.kind = "Ack"
    THEN {u \in transport[m.to].unacked : u.reliable_index \in m.acked}
    ELSE {m}

Lose(m) ==
    /\ m \in net
    /\ m.to \in Losable
    /\ Incidents(1)
    /\ net' = net \ {m}
    /\ missing' = missing \cup Outstanding(m)
    /\ UNCHANGED <<session, transport, clientVars, serverVars, given, joined>>

Live(e) == IF e = "client" THEN task = "running" ELSE registered

\* Nothing is left for a tick at end e to do.
Rested(e) ==
    /\ OnTick(session[e], FALSE) = session[e]
    /\ transport[e].acks = {}
    /\ transport[e].unacked \cap missing \subseteq net

\* A unit of time is long against the interval of the ticks and of the resends:
\* no session misses what they have to do.
Elapse ==
    /\ \A e \in Ends : Live(e) => Rested(e)
    /\ session' = [e \in Ends |-> IF Live(e) THEN Older(session[e]) ELSE session[e]]
    /\ session' # session
    /\ UNCHANGED <<transport, net, clientVars, serverVars, given, joined, missing,
                   incidents>>

ConnectionNext ==
    \/ ClientStart
    \/ ClientRefused
    \/ \E reliability \in AppReliability : ClientSend(reliability) \/ ServerSend(reliability)
    \/ ClientDrop
    \/ Elapse
    \/ \E m \in net :
        \/ ClientReceive(m)
        \/ ClientDropUnheard(m)
        \/ ServerReceive(m)
        \/ ServerIgnore(m)
        \/ Lose(m)
    \/ \E due \in SUBSET transport["client"].unacked : ClientTick(due)
    \/ \E due \in SUBSET transport["server"].unacked, overfull \in BOOLEAN :
        ServerTick(due, overfull)

(***************************************************************************)
(* Both muxer loops go on: what was lost is resent, a datagram that is on  *)
(* the network arrives or is lost, and time passes.  Which of the events   *)
(* that are ready a loop takes first is left open.                         *)
(***************************************************************************)
Lost(e) == (transport[e].unacked \cap missing) \ net

ClientLoop ==
    \/ ClientStart
    \/ \E m \in net : ClientReceive(m)
    \/ ClientTick(Lost("client"))

ServerLoop ==
    \/ \E m \in net : ServerReceive(m) \/ ServerIgnore(m)
    \/ ServerTick(Lost("server"), FALSE)

ConnectionFairness ==
    /\ WF_connectionVars(ClientLoop)
    /\ WF_connectionVars(ServerLoop)
    /\ WF_connectionVars(Elapse)

ConnectionSpec == ConnectionInit /\ [][ConnectionNext]_connectionVars /\ ConnectionFairness

-----------------------------------------------------------------------------

Datagrams ==
    [to : Ends, kind : {"ConnectionRequest", "ConnectionRequestAccepted",
                        "NewIncomingConnection", "ConnectedPing", "ConnectedPong",
                        "DisconnectionNotification", "UserData", "Ack"},
     nonce : {0, 1}, reliability : Reliability,
     reliable_index : SeqNum, ordering_index : SeqNum,
     acked : SUBSET (SeqNum \cup {NoIndex})]

\* The type of the state: between handlers nothing is left in a send queue, and
\* only datagrams with a reliable packet wait for an ACK.
ConnectionTypeOK ==
    /\ session["client"] \in SessionType("Client")
    /\ session["server"] \in SessionType("Server")
    /\ net \subseteq Datagrams
    /\ \A e \in Ends : /\ transport[e].unacked \subseteq Datagrams
                       /\ \A m \in transport[e].unacked : IsReliable(m.reliability)
                       /\ transport[e].acks \subseteq SeqNum \cup {NoIndex}
                       /\ transport[e].tracker \in TrackerState
                       /\ transport[e].channel.read \in SeqNum
    /\ task \in {"starting", "running", "ended"}
    /\ ready \in {"waiting", "ok", "failed", "aborted"}
    /\ {refusal, registered, announced, accepted, joined} \subseteq BOOLEAN
    /\ given \in [Ends -> Seq({"data", "end"})]
    /\ missing \subseteq Datagrams
    /\ incidents \in 0 .. MaxIncidents

\* accept() hands out a stream only when the client's side of the connection
\* has been established, whatever is lost, resent or late.
AnnouncedAfterClient == accepted => joined

\* An application hears of the end of its connection once, and nothing after
\* it: no message, however late, and no second end from another tick.
NothingAfterEnd ==
    \A e \in Ends : \A k \in DOMAIN given[e] : given[e][k] = "end" => k = Len(given[e])

\* A closed session is not opened again by a datagram that was still under way.
ClosedIsFinal ==
    [][session["client"].state = "Closed" => session'["client"].state = "Closed"]_connectionVars

\* "Set the initial handshake timeout used when attempting to establish a
\* connection": connect() returns, with a stream or an error.
ConnectReturns == <>(ready # "waiting")

ServerSendsForEver == []<><<\E r \in AppReliability : ServerSend(r)>>_connectionVars

\* The listener does not go on treating a client that has gone as connected: its
\* session is closed, by the client's notification or by the timeout, which
\* neither the pings nor the resends of the session itself put off.  Messages
\* of the application do ("Treat an outbound enqueue as activity"), so the
\* claim is for an application that at some point sends no more.
GoneClientNotServed ==
    ServerSendsForEver \/ (task = "ended" ~> ~(registered /\ IsConnected(session["server"])))

\* The same, whatever the listener's application does.
GoneClientAlwaysDropped ==
    task = "ended" ~> ~(registered /\ IsConnected(session["server"]))

\* "Sets the session inactivity timeout": when it closes the session, the
\* application that holds the stream is told.
CloseReported ==
    session["client"].state = "Closed" ~> (task = "ended")
=============================================================================
