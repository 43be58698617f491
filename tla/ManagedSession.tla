--------------------------- MODULE ManagedSession ---------------------------
(***************************************************************************)
(* The life of a ManagedSession: its connection state, the online          *)
(* handshake, keepalive, timeout and disconnection                         *)
(* (raknet/src/session/manager.rs, manager/control.rs, manager/tick.rs).   *)
(*                                                                         *)
(* A session is a record.  idle is the time since last_activity and        *)
(* since_ping that since last_ping_sent, both counted up to the limit they *)
(* are compared with; nonce is current_ping_nonce, 0 for None and 1 for    *)
(* the timestamp of the ping under way: a session sends no ping before the *)
(* last one is answered, so that a pong for an older one cannot come.      *)
(* queue holds what the handler under way gave to queue_packet; the        *)
(* handler's caller flushes it.                                            *)
(***************************************************************************)
EXTENDS Naturals, Sequences

CONSTANTS
    SessionStale,       \* session_stale
    SessionTimeout,     \* session_timeout
    PingInterval,       \* ping_interval
    Pinging             \* bound of the model: the roles whose sessions send pings

ASSUME SessionAssumption ==
    /\ SessionStale \in Nat /\ SessionTimeout \in Nat /\ PingInterval \in Nat
    /\ Pinging \subseteq {"Client", "Server"}

ConnectionState ==
    {"Unconnected", "OnlineHandshake", "Connected", "Stale", "Closing", "Closed"}

NewSession(role) ==
    [role |-> role, state |-> "Unconnected", idle |-> 0,
     since_ping |-> PingInterval, nonce |-> 0,
     reason |-> "None", queue |-> <<>>]

IsConnected(s) == s.state \in {"Connected", "Stale"}

Active(s) == [s EXCEPT !.idle = 0]

Queued(s, kind, nonce, reliability) ==
    [s EXCEPT !.queue =
        Append(@, [kind |-> kind, nonce |-> nonce, reliability |-> reliability])]

\* Mutant: the request is sent only once.
StartClientHandshakeOnce(s) ==
    Queued([Active(s) EXCEPT !.state = "OnlineHandshake"], "ConnectionRequest", 0, "Unreliable")

StartClientHandshake(s) ==
    Queued([Active(s) EXCEPT !.state = "OnlineHandshake"], "ConnectionRequest", 0, "Reliable")

SendDisconnect(s, reason) ==
    IF s.state = "Closed" THEN s
    ELSE Queued([s EXCEPT !.state = "Closing", !.reason = reason],
                "DisconnectionNotification", 0, "Reliable")

\* queue_app_packet with user data; the callers ignore its errors.
QueueAppPacket(s, reliability) ==
    IF IsConnected(s) THEN Queued(Active(s), "UserData", 0, reliability) ELSE s

-----------------------------------------------------------------------------
(* Incoming datagrams.                                                     *)

\* Mutant: a closed session goes on handling datagrams.
ListensAlways(s) == TRUE

Listens(s) == s.state # "Closed"

\* What any datagram, an ACK too, does to a session that is not closed.
Heard(s) == [Active(s) EXCEPT !.state = IF @ = "Stale" THEN "Connected" ELSE @]

\* Mutant: the server takes the request for the whole handshake.
HandleConnectionRequestEager(s) ==
    IF s.role # "Server" THEN s
    ELSE Queued([Active(s) EXCEPT !.state = "Connected"],
                "ConnectionRequestAccepted", 0, "Unreliable")

HandleConnectionRequest(s) ==
    IF s.role # "Server" THEN s
    ELSE Queued([Active(s) EXCEPT !.state = "OnlineHandshake"],
                "ConnectionRequestAccepted", 0, "Unreliable")

HandleConnectionRequestAccepted(s) ==
    IF s.role # "Client" THEN s
    ELSE Queued([Active(s) EXCEPT !.state = "Connected"],
                "NewIncomingConnection", 0, "ReliableOrdered")

HandleNewIncomingConnection(s) == [Active(s) EXCEPT !.state = "Connected"]

HandleConnectedPing(s, p) == Queued(Active(s), "ConnectedPong", p.nonce, "Unreliable")

HandleConnectedPong(s, p) ==
    [Active(s) EXCEPT !.nonce = IF @ = p.nonce THEN 0 ELSE @]

\* The peer of this library sends Disconnected, TimedOut or QueueTooLong as the
\* reason; which one it was is left out of the packet.
HandleDisconnectionNotification(s) ==
    [s EXCEPT !.state = "Closed", !.reason = "Disconnected"]

\* handle_control_packet; user data leaves the state as it is.
HandleControlPacket(s, p) ==
    CASE p.kind = "ConnectionRequest" -> HandleConnectionRequest(s)
      [] p.kind = "ConnectionRequestAccepted" -> HandleConnectionRequestAccepted(s)
      [] p.kind = "NewIncomingConnection" -> HandleNewIncomingConnection(s)
      [] p.kind = "ConnectedPing" -> HandleConnectedPing(s, p)
      [] p.kind = "ConnectedPong" -> HandleConnectedPong(s, p)
      [] p.kind = "DisconnectionNotification" -> HandleDisconnectionNotification(s)
      [] p.kind = "UserData" -> s

\* The packets that a datagram has released, one after the other.
HandleControlPackets(s, packets) ==
    LET after[k \in 0 .. Len(packets)] ==
            IF k = 0 THEN s ELSE HandleControlPacket(after[k - 1], packets[k])
    IN  after[Len(packets)]

-----------------------------------------------------------------------------
(* on_tick, but for that of the inner session.                             *)

\* Mutant: the shorter limit is tested first.
CheckIdleStaleFirst(s) ==
    IF ~IsConnected(s) THEN s
    ELSE IF s.idle >= SessionStale THEN [s EXCEPT !.state = "Stale"]
    ELSE IF s.idle >= SessionTimeout
         THEN [SendDisconnect(s, "TimedOut") EXCEPT !.state = "Closed"]
    ELSE s

CheckIdle(s) ==
    IF ~IsConnected(s) THEN s
    ELSE IF s.idle >= SessionTimeout
         THEN [SendDisconnect(s, "TimedOut") EXCEPT !.state = "Closed"]
    ELSE IF s.idle >= SessionStale THEN [s EXCEPT !.state = "Stale"]
    ELSE s

ShouldSendPing(s) ==
    /\ IsConnected(s)
    /\ s.nonce = 0
    /\ s.since_ping >= PingInterval
    /\ s.role \in Pinging

SendConnectedPing(s) ==
    IF ~ShouldSendPing(s) THEN s
    ELSE [Queued(s, "ConnectedPing", 1, "Unreliable")
            EXCEPT !.since_ping = 0, !.nonce = 1]

\* overfull: queued_reliable_bytes is above its limit.
EnforceQueueLimit(s, overfull) ==
    IF ~overfull THEN s
    ELSE [SendDisconnect(s, "QueueTooLong")
            EXCEPT !.state = "Closed", !.reason = "QueueTooLong"]

OnTick(s, overfull) == EnforceQueueLimit(SendConnectedPing(CheckIdle(s)), overfull)

\* One unit of time.
Older(s) ==
    [s EXCEPT !.idle = IF @ < SessionTimeout THEN @ + 1 ELSE @,
              !.since_ping = IF @ < PingInterval THEN @ + 1 ELSE @]

SessionType(role) ==
    [role : {role}, state : ConnectionState, idle : 0 .. SessionTimeout,
     since_ping : 0 .. PingInterval, nonce : {0, 1},
     reason : {"None", "Disconnected", "TimedOut", "QueueTooLong"}, queue : {<<>>}]
=============================================================================
