-------------------------- MODULE ConnectionProofs --------------------------
(***************************************************************************)
(* The life of a connection, for every timeout, window, capacity and bound *)
(* of the model: the types, that accept() hands out a stream only after    *)
(* the client was connected, that an application hears nothing after the   *)
(* end of its connection, and that a closed session stays closed.          *)
(*                                                                         *)
(* All of the invariants are membership in types that depend on whether    *)
(* the client has joined: before it has, no NewIncomingConnection is in a  *)
(* queue, on the network, kept for resending or waiting for its turn.      *)
(***************************************************************************)
EXTENDS Connection, SessionLemmas

PacketKinds ==
    {"ConnectionRequest", "ConnectionRequestAccepted", "NewIncomingConnection",
     "ConnectedPing", "ConnectedPong", "DisconnectionNotification", "UserData"}

Nonces == {0, 1}
Reasons == {"None", "Disconnected", "TimedOut", "QueueTooLong"}

\* What can wait in a send queue, be under way and be handed on when the client
\* has joined, if j, or has not.
Queueable(j) ==
    {p \in [kind : PacketKinds, nonce : Nonces, reliability : Reliability] :
        p.kind = "NewIncomingConnection" => j}
Underway(j) == {m \in Datagrams : m.kind = "NewIncomingConnection" => j}
Packets(j) == {m \in Underway(j) : m.kind # "Ack"}

\* A session within a handler, its queue not yet flushed.
BusySession(role) ==
    [role : {role}, state : ConnectionState, idle : 0 .. SessionTimeout,
     since_ping : 0 .. PingInterval, nonce : Nonces, reason : Reasons,
     queue : Seq(Queueable(TRUE))]

\* Only a client queues a NewIncomingConnection, and it is connected then or has
\* been closed since; a server is connected only when a client has joined.
Announces(s) == s.queue \notin Seq(Queueable(FALSE))
Busy(role, j) ==
    {s \in BusySession(role) :
        IF role = "Client" THEN Announces(s) => s.state \in {"Connected", "Closed"}
        ELSE ~Announces(s) /\ (IsConnected(s) => j)}

Transports(j) ==
    {t \in [reliable_write : SeqNum, order_write : SeqNum, unacked : SUBSET Underway(j),
            acks : SUBSET (SeqNum \cup {NoIndex}), tracker : TrackerState,
            channel : [read : SeqNum, heap : Seq(Packets(j))]] :
        /\ IsFiniteSet(t.unacked)
        /\ \A m \in t.unacked : IsReliable(m.reliability)
        /\ Len(t.tracker.window) < Modulo
        /\ Len(t.channel.heap) <= HeapCapacity}

-----------------------------------------------------------------------------
(* Sessions.                                                               *)

\* Only the queue of a session is left out of its type between handlers.
LEMMA RestingIsBusy ==
    ASSUME NEW role \in {"Client", "Server"}, NEW s \in SessionType(role), NEW j \in BOOLEAN,
           role = "Server" => (IsConnected(s) => j)
    PROVE  s \in Busy(role, j) /\ ~Announces(s) /\ s.queue = <<>>
<1>1. s.queue = <<>> /\ <<>> \in Seq(Queueable(TRUE)) /\ <<>> \in Seq(Queueable(FALSE))
    BY EmptySeq DEF SessionType
<1>2. s \in BusySession(role)
    BY <1>1 DEF SessionType, BusySession, Nonces, Reasons
<1> QED BY <1>1, <1>2 DEF Busy, Announces

\* Putting a packet into the queue (queue_packet).
LEMMA QueuedTyped ==
    ASSUME NEW role \in {"Client", "Server"}, NEW s \in BusySession(role),
           NEW kind \in PacketKinds, NEW nonce \in Nonces, NEW r \in Reliability
    PROVE  /\ Queued(s, kind, nonce, r) \in BusySession(role)
           /\ Queued(s, kind, nonce, r) =
                [s EXCEPT !.queue = Queued(s, kind, nonce, r).queue]
           /\ ~Announces(s) /\ kind # "NewIncomingConnection"
                => ~Announces(Queued(s, kind, nonce, r))
<1> DEFINE p == [kind |-> kind, nonce |-> nonce, reliability |-> r]
           q == Append(s.queue, p)
<1>1. p \in Queueable(TRUE) /\ (kind # "NewIncomingConnection" => p \in Queueable(FALSE))
    BY DEF Queueable
<1>2. s.queue \in Seq(Queueable(TRUE))
    BY DEF BusySession
<1>3. q \in Seq(Queueable(TRUE))
    BY <1>1, <1>2, AppendProperties
<1>4. Queued(s, kind, nonce, r) = [s EXCEPT !.queue = q]
    BY DEF Queued
<1>5. s.queue \in Seq(Queueable(FALSE)) /\ kind # "NewIncomingConnection"
        => q \in Seq(Queueable(FALSE))
    BY <1>1, AppendProperties
<1> HIDE DEF q
<1>6. [s EXCEPT !.queue = q] \in BusySession(role) /\ [s EXCEPT !.queue = q].queue = q
    BY <1>3 DEF BusySession
<1> QED BY <1>4, <1>5, <1>6 DEF Announces

\* Activity leaves state and queue alone.
LEMMA ActiveTyped ==
    ASSUME NEW role \in {"Client", "Server"}, NEW s \in BusySession(role)
    PROVE  /\ Active(s) \in BusySession(role)
           /\ Active(s).state = s.state /\ Active(s).queue = s.queue
           /\ Active(s).role = role
<1>1. 0 \in 0 .. SessionTimeout
    BY SessionAssumption
<1> QED BY <1>1 DEF BusySession, Active

\* A new state leaves the queue alone.
LEMMA StateTyped ==
    ASSUME NEW role \in {"Client", "Server"}, NEW s \in BusySession(role),
           NEW state \in ConnectionState
    PROVE  /\ [s EXCEPT !.state = state] \in BusySession(role)
           /\ [s EXCEPT !.state = state].state = state
           /\ [s EXCEPT !.state = state].queue = s.queue
BY DEF BusySession

\* The states are these.
LEMMA StateFacts ==
    /\ "Connected" \in ConnectionState /\ "Closed" \in ConnectionState
    /\ "Closing" \in ConnectionState /\ "Stale" \in ConnectionState
    /\ "OnlineHandshake" \in ConnectionState /\ "Unconnected" \in ConnectionState
BY DEF ConnectionState

\* One control packet (handle_control_packet): a client that answers a
\* ConnectionRequestAccepted is connected from then on or closed by a later
\* packet; a server is connected only by a NewIncomingConnection.
LEMMA ControlStep ==
    ASSUME NEW role \in {"Client", "Server"}, NEW j \in BOOLEAN, NEW s \in Busy(role, j),
           NEW p \in Packets(j)
    PROVE  HandleControlPacket(s, p) \in Busy(role, j)
<1>1. s \in BusySession(role) /\ s.role = role /\ s.state \in ConnectionState
    BY DEF Busy, BusySession
<1>2. p.kind \in PacketKinds /\ p.nonce \in Nonces
    BY DEF Packets, Underway, Datagrams, PacketKinds, Nonces
<1>r. /\ "Unreliable" \in Reliability /\ "ReliableOrdered" \in Reliability
      /\ 0 \in Nonces /\ "Disconnected" \in Reasons
    BY DEF Reliability, Nonces, Reasons
<1> DEFINE a == Active(s)
<1>a. a \in BusySession(role) /\ a.state = s.state /\ a.queue = s.queue
    BY <1>1, ActiveTyped
<1>b. a \in Busy(role, j)
    BY <1>a DEF Busy, Announces, IsConnected
<1>u. ASSUME NEW state \in ConnectionState
      PROVE  /\ [a EXCEPT !.state = state] \in BusySession(role)
             /\ [a EXCEPT !.state = state].state = state
             /\ [a EXCEPT !.state = state].queue = s.queue
    BY <1>a, StateTyped
<1> HIDE DEF a
<1>3. CASE p.kind = "ConnectionRequest"
    <2>1. HandleControlPacket(s, p) = HandleConnectionRequest(s)
        BY <1>3 DEF HandleControlPacket
    <2>2. CASE role = "Client"
        BY <2>1, <2>2, <1>1 DEF HandleConnectionRequest
    <2>3. CASE role = "Server"
        <3> DEFINE w == [a EXCEPT !.state = "OnlineHandshake"]
        <3>1. w \in BusySession(role) /\ w.state = "OnlineHandshake" /\ w.queue = s.queue
            BY <1>u, StateFacts
        <3>2. HandleControlPacket(s, p) = Queued(w, "ConnectionRequestAccepted", 0, "Unreliable")
            BY <2>1, <2>3, <1>1 DEF HandleConnectionRequest, a
        <3> HIDE DEF w
        <3>3. ~Announces(w)
            BY <3>1, <2>3 DEF Busy, Announces
        <3>4. "ConnectionRequestAccepted" \in PacketKinds
            BY DEF PacketKinds
        <3> DEFINE z == Queued(w, "ConnectionRequestAccepted", 0, "Unreliable")
        <3>5. z \in BusySession(role) /\ z = [w EXCEPT !.queue = z.queue] /\ ~Announces(z)
            BY <3>1, <3>3, <3>4, <1>r, QueuedTyped
        <3> HIDE DEF z
        <3>6. z.state = "OnlineHandshake"
            BY <3>1, <3>5 DEF BusySession
        <3> QED BY <3>2, <3>5, <3>6, <2>3 DEF Busy, IsConnected, z
    <2> QED BY <2>2, <2>3
<1>4. CASE p.kind = "ConnectionRequestAccepted"
    <2>1. HandleControlPacket(s, p) = HandleConnectionRequestAccepted(s)
        BY <1>4 DEF HandleControlPacket
    <2>2. CASE role = "Server"
        BY <2>1, <2>2, <1>1 DEF HandleConnectionRequestAccepted
    <2>3. CASE role = "Client"
        <3> DEFINE w == [a EXCEPT !.state = "Connected"]
        <3>1. w \in BusySession(role) /\ w.state = "Connected"
            BY <1>u, StateFacts
        <3>2. HandleControlPacket(s, p) = Queued(w, "NewIncomingConnection", 0, "ReliableOrdered")
            BY <2>1, <2>3, <1>1 DEF HandleConnectionRequestAccepted, a
        <3> HIDE DEF w
        <3>4. "NewIncomingConnection" \in PacketKinds
            BY DEF PacketKinds
        <3> DEFINE z == Queued(w, "NewIncomingConnection", 0, "ReliableOrdered")
        <3>5. z \in BusySession(role) /\ z = [w EXCEPT !.queue = z.queue]
            BY <3>1, <3>4, <1>r, QueuedTyped
        <3> HIDE DEF z
        <3>6. z.state = "Connected"
            BY <3>1, <3>5 DEF BusySession
        <3> QED BY <3>2, <3>5, <3>6, <2>3 DEF Busy, z
    <2> QED BY <2>2, <2>3
<1>5. CASE p.kind = "NewIncomingConnection"
    <2>1. HandleControlPacket(s, p) = [a EXCEPT !.state = "Connected"]
        BY <1>5 DEF HandleControlPacket, HandleNewIncomingConnection, a
    <2>2. j
        BY <1>5 DEF Packets, Underway
    <2> DEFINE z == [a EXCEPT !.state = "Connected"]
    <2>3. z \in BusySession(role) /\ z.state = "Connected" /\ z.queue = s.queue
        BY <1>u, StateFacts
    <2> HIDE DEF z
    <2> QED BY <2>1, <2>2, <2>3 DEF Busy, Announces, z
<1>6. CASE p.kind = "ConnectedPing"
    <2>1. HandleControlPacket(s, p) = Queued(a, "ConnectedPong", p.nonce, "Unreliable")
        BY <1>6 DEF HandleControlPacket, HandleConnectedPing, a
    <2>2. "ConnectedPong" \in PacketKinds
        BY DEF PacketKinds
    <2>c. PICK c : c = p.nonce /\ c \in Nonces
        BY <1>2
    <2> DEFINE z == Queued(a, "ConnectedPong", c, "Unreliable")
    <2>3. /\ z \in BusySession(role) /\ z = [a EXCEPT !.queue = z.queue]
          /\ ~Announces(a) => ~Announces(z)
        BY <1>a, <2>c, <1>r, <2>2, QueuedTyped
    <2> HIDE DEF z
    <2>4. z.state = a.state
        BY <1>a, <2>3 DEF BusySession
    <2> QED BY <2>1, <2>c, <2>3, <2>4, <1>b DEF Busy, IsConnected, z
<1>7. CASE p.kind = "ConnectedPong"
    <2>1. HandleControlPacket(s, p) = [a EXCEPT !.nonce = IF @ = p.nonce THEN 0 ELSE @]
        BY <1>7 DEF HandleControlPacket, HandleConnectedPong, a
    <2> DEFINE z == [a EXCEPT !.nonce = IF @ = p.nonce THEN 0 ELSE @]
    <2>2. z \in BusySession(role) /\ z.state = a.state /\ z.queue = a.queue
        BY <1>a, <1>r DEF BusySession
    <2> HIDE DEF z
    <2> QED BY <2>1, <2>2, <1>b DEF Busy, Announces, IsConnected, z
<1>8. CASE p.kind = "DisconnectionNotification"
    <2>1. HandleControlPacket(s, p) = [s EXCEPT !.state = "Closed", !.reason = "Disconnected"]
        BY <1>8 DEF HandleControlPacket, HandleDisconnectionNotification
    <2> DEFINE z == [s EXCEPT !.state = "Closed", !.reason = "Disconnected"]
    <2>2. z \in BusySession(role) /\ z.state = "Closed" /\ z.queue = s.queue
        BY <1>1, <1>r, StateFacts DEF BusySession
    <2> HIDE DEF z
    <2> QED BY <2>1, <2>2 DEF Busy, Announces, IsConnected, z
<1>9. CASE p.kind = "UserData"
    BY <1>9 DEF HandleControlPacket
<1> QED BY <1>2, <1>3, <1>4, <1>5, <1>6, <1>7, <1>8, <1>9 DEF PacketKinds

\* All of the packets that a datagram releases.
LEMMA ControlSteps ==
    ASSUME NEW role \in {"Client", "Server"}, NEW j \in BOOLEAN, NEW s \in Busy(role, j),
           NEW d \in Seq(Packets(j))
    PROVE  HandleControlPackets(s, d) \in Busy(role, j)
<1> DEFINE D == Busy(role, j)
           A == Packets(j)
           n == Len(d)
           after == CHOOSE g : g = [k \in 0 .. n |->
                        IF k = 0 THEN s ELSE HandleControlPacket(g[k - 1], d[k])]
<1>1. n \in Nat /\ \A k \in 1 .. n : d[k] \in A
    BY LenProperties, ElementOfSeq
<1>2. \A x \in D, p \in A : HandleControlPacket(x, p) \in D
    BY ControlStep
<1>3. HandleControlPackets(s, d) = after[n]
    BY DEF HandleControlPackets
<1>4. PICK op : op = [x \in D |-> [p \in A |-> HandleControlPacket(x, p)]]
    OBVIOUS
<1> HIDE DEF D, A
<1>5. op \in [D -> [A -> D]] /\ s \in D /\ d \in Seq(A)
    BY <1>2, <1>4 DEF D, A
<1>6. PICK h \in [0 .. n -> D] : IsFold(h, op, s, d)
    BY <1>5, FoldExists
<1>7. h = [k \in 0 .. n |-> IF k = 0 THEN s ELSE HandleControlPacket(h[k - 1], d[k])]
    <2>1. ASSUME NEW k \in 0 .. n, k # 0
          PROVE  op[h[k - 1]][d[k]] = HandleControlPacket(h[k - 1], d[k])
        <3>1. d[k] \in A /\ h[k - 1] \in D
            BY <2>1, <1>1
        <3> QED BY <3>1, <1>4
    <2> QED BY <1>6, <2>1 DEF IsFold
<1>8. after = [k \in 0 .. n |-> IF k = 0 THEN s ELSE HandleControlPacket(after[k - 1], d[k])]
    BY <1>7
<1> HIDE DEF after, n
<1>9. after[0] = s /\ \A k \in 1 .. n : after[k] = HandleControlPacket(after[k - 1], d[k])
    BY <1>8, <1>1
<1>10. \A k \in 1 .. n : after[k - 1] \in D => after[k] \in D
    BY <1>1, <1>2, <1>9
<1>11. \A k \in 0 .. n : after[k] \in D
    BY <1>1, <1>5, <1>9, <1>10, StepInduction
<1>12. after[n] \in D
    BY <1>1, <1>11
<1> QED BY <1>3, <1>12 DEF D

\* What every step but the handshake does to a session: nothing is announced,
\* nobody becomes connected, and a closed session stays closed.
Follows(role, s, z) ==
    /\ z \in BusySession(role)
    /\ ~Announces(s) => ~Announces(z)
    /\ IsConnected(z) => IsConnected(s)
    /\ s.state = "Closed" => z.state = "Closed"

\* Such steps may follow one another.
LEMMA FollowsTransitive ==
    ASSUME NEW role, NEW s, NEW y, NEW z, Follows(role, s, y), Follows(role, y, z)
    PROVE  Follows(role, s, z)
BY DEF Follows

\* Queueing a packet other than a NewIncomingConnection is such a step.
LEMMA QueuedFollows ==
    ASSUME NEW role \in {"Client", "Server"}, NEW s \in BusySession(role),
           NEW kind \in PacketKinds, NEW nonce \in Nonces, NEW r \in Reliability,
           kind # "NewIncomingConnection"
    PROVE  /\ Follows(role, s, Queued(s, kind, nonce, r))
           /\ Queued(s, kind, nonce, r).state = s.state
<1> DEFINE z == Queued(s, kind, nonce, r)
<1>1. /\ z \in BusySession(role) /\ z = [s EXCEPT !.queue = z.queue]
      /\ ~Announces(s) => ~Announces(z)
    BY QueuedTyped
<1> HIDE DEF z
<1>2. z.state = s.state
    BY <1>1 DEF BusySession
<1> QED BY <1>1, <1>2 DEF Follows, IsConnected, z

\* The packets that are queued outside of the handshake.
LEMMA QueueableFacts ==
    /\ {"DisconnectionNotification", "UserData", "ConnectedPing", "ConnectionRequest"}
            \subseteq PacketKinds
    /\ 0 \in Nonces /\ 1 \in Nonces
    /\ {"Unreliable", "Reliable", "ReliableOrdered"} \subseteq Reliability
    /\ {"TimedOut", "Disconnected", "QueueTooLong"} \subseteq Reasons
BY DEF PacketKinds, Nonces, Reliability, Reasons

\* A new state that is not a connected one is such a step, unless it reopens.
LEMMA StateFollows ==
    ASSUME NEW role \in {"Client", "Server"}, NEW s \in BusySession(role),
           NEW state \in ConnectionState,
           state \in {"Connected", "Stale"} => IsConnected(s),
           s.state = "Closed" => state = "Closed"
    PROVE  Follows(role, s, [s EXCEPT !.state = state])
<1> DEFINE z == [s EXCEPT !.state = state]
<1>1. z \in BusySession(role) /\ z.state = state /\ z.queue = s.queue
    BY StateTyped
<1> HIDE DEF z
<1> QED BY <1>1 DEF Follows, IsConnected, Announces, z

\* send_disconnect.
LEMMA DisconnectFollows ==
    ASSUME NEW role \in {"Client", "Server"}, NEW s \in BusySession(role), NEW reason \in Reasons
    PROVE  Follows(role, s, SendDisconnect(s, reason))
<1>1. CASE s.state = "Closed"
    BY <1>1 DEF SendDisconnect, Follows
<1>2. CASE s.state # "Closed"
    <2> DEFINE w == [s EXCEPT !.state = "Closing", !.reason = reason]
               z == Queued(w, "DisconnectionNotification", 0, "Reliable")
    <2>1. w \in BusySession(role) /\ w.state = "Closing" /\ w.queue = s.queue
        BY StateFacts DEF BusySession
    <2>2. SendDisconnect(s, reason) = z
        BY <1>2 DEF SendDisconnect
    <2> HIDE DEF w
    <2>3. Follows(role, w, z)
        BY <2>1, QueueableFacts, QueuedFollows
    <2>4. Follows(role, s, w)
        BY <2>1, <1>2 DEF Follows, IsConnected, Announces
    <2> HIDE DEF z
    <2> QED BY <2>2, <2>3, <2>4, FollowsTransitive
<1> QED BY <1>1, <1>2

\* queue_app_packet.
LEMMA AppPacketFollows ==
    ASSUME NEW role \in {"Client", "Server"}, NEW s \in BusySession(role), NEW r \in AppReliability
    PROVE  Follows(role, s, QueueAppPacket(s, r))
<1>1. CASE ~IsConnected(s)
    BY <1>1 DEF QueueAppPacket, Follows
<1>2. CASE IsConnected(s)
    <2> DEFINE w == Active(s)
               z == Queued(w, "UserData", 0, r)
    <2>0. r \in Reliability
        BY QueueableFacts DEF AppReliability
    <2>1. w \in BusySession(role) /\ w.state = s.state /\ w.queue = s.queue
        BY ActiveTyped
    <2>2. QueueAppPacket(s, r) = z
        BY <1>2 DEF QueueAppPacket
    <2> HIDE DEF w
    <2>3. Follows(role, w, z)
        BY <2>0, <2>1, QueueableFacts, QueuedFollows
    <2>4. Follows(role, s, w)
        BY <2>1 DEF Follows, IsConnected, Announces
    <2> HIDE DEF z
    <2> QED BY <2>2, <2>3, <2>4, FollowsTransitive
<1> QED BY <1>1, <1>2

\* check_timeouts.
LEMMA CheckIdleFollows ==
    ASSUME NEW role \in {"Client", "Server"}, NEW s \in BusySession(role)
    PROVE  Follows(role, s, CheckIdle(s))
<1> DEFINE y == SendDisconnect(s, "TimedOut")
<1>1. Follows(role, s, y)
    BY QueueableFacts, DisconnectFollows
<1> HIDE DEF y
<1>2. y \in BusySession(role)
    BY <1>1 DEF Follows
<1>3. Follows(role, y, [y EXCEPT !.state = "Closed"])
    BY <1>2, StateFacts, StateFollows
<1>4. Follows(role, s, [y EXCEPT !.state = "Closed"])
    BY <1>1, <1>3, FollowsTransitive
<1>5. IsConnected(s) => Follows(role, s, [s EXCEPT !.state = "Stale"])
    BY StateFacts, StateFollows DEF IsConnected
<1>6. Follows(role, s, s)
    BY DEF Follows
<1>7. CheckIdle(s) \in {s, [y EXCEPT !.state = "Closed"]} \cup
                       (IF IsConnected(s) THEN {[s EXCEPT !.state = "Stale"]} ELSE {})
    BY DEF CheckIdle, y
<1> QED BY <1>4, <1>5, <1>6, <1>7

\* The ping of a tick.
LEMMA PingFollows ==
    ASSUME NEW role \in {"Client", "Server"}, NEW s \in BusySession(role)
    PROVE  Follows(role, s, SendConnectedPing(s))
<1>1. CASE ~ShouldSendPing(s)
    BY <1>1 DEF SendConnectedPing, Follows
<1>2. CASE ShouldSendPing(s)
    <2> DEFINE w == Queued(s, "ConnectedPing", 1, "Unreliable")
               z == [w EXCEPT !.since_ping = 0, !.nonce = 1]
    <2>1. Follows(role, s, w)
        BY QueueableFacts, QueuedFollows
    <2>2. SendConnectedPing(s) = z
        BY <1>2 DEF SendConnectedPing
    <2> HIDE DEF w
    <2>3. w \in BusySession(role)
        BY <2>1 DEF Follows
    <2>4. 0 \in 0 .. PingInterval
        BY SessionAssumption
    <2>5. z \in BusySession(role) /\ z.state = w.state /\ z.queue = w.queue
        BY <2>3, <2>4, QueueableFacts DEF BusySession
    <2> HIDE DEF z
    <2>6. Follows(role, w, z)
        BY <2>5 DEF Follows, IsConnected, Announces
    <2> QED BY <2>1, <2>2, <2>6, FollowsTransitive
<1> QED BY <1>1, <1>2

\* on_tick, but for that of the inner session.
LEMMA TickFollows ==
    ASSUME NEW role \in {"Client", "Server"}, NEW s \in BusySession(role), NEW overfull \in BOOLEAN
    PROVE  Follows(role, s, OnTick(s, overfull))
<1> DEFINE x == CheckIdle(s)
           y == SendConnectedPing(x)
           w == SendDisconnect(y, "QueueTooLong")
           z == [w EXCEPT !.state = "Closed", !.reason = "QueueTooLong"]
<1>1. Follows(role, s, x)
    BY CheckIdleFollows
<1> HIDE DEF x
<1>2. x \in BusySession(role)
    BY <1>1 DEF Follows
<1>3. Follows(role, x, y)
    BY <1>2, PingFollows
<1> HIDE DEF y
<1>4. Follows(role, s, y)
    BY <1>1, <1>3, FollowsTransitive
<1>5. y \in BusySession(role)
    BY <1>4 DEF Follows
<1>6. Follows(role, y, w)
    BY <1>5, QueueableFacts, DisconnectFollows
<1> HIDE DEF w
<1>7. w \in BusySession(role)
    BY <1>6 DEF Follows
<1>8. z \in BusySession(role) /\ z.state = "Closed" /\ z.queue = w.queue
    BY <1>7, StateFacts, QueueableFacts DEF BusySession
<1> HIDE DEF z
<1>9. Follows(role, w, z)
    BY <1>8 DEF Follows, IsConnected, Announces
<1>10. Follows(role, s, z)
    BY <1>4, <1>6, <1>9, FollowsTransitive
<1>11. OnTick(s, overfull) = IF overfull THEN z ELSE y
    BY DEF OnTick, EnforceQueueLimit, x, y, w, z
<1> QED BY <1>4, <1>10, <1>11

\* A datagram of any kind (handle_datagram before its payload).
LEMMA HeardTyped ==
    ASSUME NEW role \in {"Client", "Server"}, NEW s \in SessionType(role), NEW j \in BOOLEAN,
           role = "Server" => (IsConnected(s) => j)
    PROVE  Heard(s) \in Busy(role, j)
<1>1. s \in Busy(role, j) /\ ~Announces(s) /\ s \in BusySession(role)
    BY RestingIsBusy DEF Busy
<1> DEFINE a == Active(s)
           new == IF a.state = "Stale" THEN "Connected" ELSE a.state
           z == [a EXCEPT !.state = new]
<1>2. a \in BusySession(role) /\ a.state = s.state /\ a.queue = s.queue
    BY <1>1, ActiveTyped
<1> HIDE DEF a
<1>3. new \in ConnectionState
    BY <1>2, StateFacts DEF BusySession
<1>4. Heard(s) = z
    BY DEF Heard, a
<1>5. IsConnected(s) \/ new \notin {"Connected", "Stale"}
    BY <1>2 DEF IsConnected
<1> HIDE DEF new
<1>6. z \in BusySession(role) /\ z.state = new /\ z.queue = s.queue
    BY <1>2, <1>3, StateTyped
<1> HIDE DEF z
<1> QED BY <1>1, <1>4, <1>5, <1>6 DEF Busy, Announces, IsConnected

\* A flush empties the queue.
LEMMA FlushedTyped ==
    ASSUME NEW role \in {"Client", "Server"}, NEW s \in BusySession(role)
    PROVE  /\ [s EXCEPT !.queue = <<>>] \in SessionType(role)
           /\ [s EXCEPT !.queue = <<>>].state = s.state
BY DEF BusySession, SessionType, Nonces, Reasons

\* A unit of time.
LEMMA OlderTyped ==
    ASSUME NEW role \in {"Client", "Server"}, NEW s \in SessionType(role)
    PROVE  Older(s) \in SessionType(role) /\ Older(s).state = s.state
<1>1. s.idle \in 0 .. SessionTimeout /\ s.since_ping \in 0 .. PingInterval
    BY DEF SessionType
<1>2. /\ (IF s.idle < SessionTimeout THEN s.idle + 1 ELSE s.idle) \in 0 .. SessionTimeout
      /\ (IF s.since_ping < PingInterval THEN s.since_ping + 1 ELSE s.since_ping)
            \in 0 .. PingInterval
    BY <1>1, SessionAssumption
<1> QED BY <1>2 DEF SessionType, Older

\* A session that was dropped.
LEMMA GoneTyped ==
    /\ Gone("client") \in SessionType("Client") /\ Gone("client").state = "Closed"
    /\ Gone("server") \in SessionType("Server") /\ ~IsConnected(Gone("server"))
    /\ NewSession("Client") \in SessionType("Client")
    /\ NewSession("Client").state = "Unconnected"
<1>1. 0 \in 0 .. SessionTimeout /\ PingInterval \in 0 .. PingInterval
    BY SessionAssumption
<1>2. ASSUME NEW role \in {"Client", "Server"}
      PROVE  NewSession(role) \in SessionType(role) /\ NewSession(role).state = "Unconnected"
    BY <1>1, StateFacts DEF NewSession, SessionType
<1>3. [NewSession("Client") EXCEPT !.state = "Closed"] \in SessionType("Client")
    BY <1>2, StateFacts DEF SessionType
<1>4. [NewSession("Client") EXCEPT !.state = "Closed"].state = "Closed"
    BY DEF NewSession
<1> QED BY <1>2, <1>3, <1>4 DEF Gone, IsConnected

-----------------------------------------------------------------------------
(* Transports.                                                             *)

\* A new inner session.
LEMMA NewTransportTyped ==
    ASSUME NEW j \in BOOLEAN
    PROVE  NewTransport \in Transports(j)
<1>1. 0 \in SeqNum /\ 0 < Modulo /\ 0 <= HeapCapacity
    BY ModuloAssumption, HeapCapacityAssumption DEF SeqNum
<1>2. <<>> \in Seq(BOOLEAN) /\ <<>> \in Seq(Packets(j)) /\ Len(<<>>) = 0
    BY EmptySeq
<1>3. IsFiniteSet({})
    BY FS_EmptySet
<1>4. NewTracker(0) \in TrackerState /\ NewTracker(0).window = <<>>
    BY <1>1, <1>2 DEF NewTracker, TrackerState
<1>5. NewChannel(0) \in [read : SeqNum, heap : Seq(Packets(j))] /\ NewChannel(0).heap = <<>>
    BY <1>1, <1>2 DEF NewChannel
<1> QED BY <1>1, <1>2, <1>3, <1>4, <1>5 DEF NewTransport, Transports

\* What is under way before the client has joined may be afterwards.
LEMMA Monotone ==
    ASSUME NEW i \in BOOLEAN, NEW j \in BOOLEAN, i => j
    PROVE  Underway(i) \subseteq Underway(j) /\ Transports(i) \subseteq Transports(j)
<1>1. Underway(i) \subseteq Underway(j)
    BY DEF Underway
<1>2. Packets(i) \subseteq Packets(j)
    BY <1>1 DEF Packets
<1>3. \A q \in Seq(Packets(i)) : q \in Seq(Packets(j))
    <2> TAKE q \in Seq(Packets(i))
    <2>1. Len(q) \in Nat /\ q = [k \in 1 .. Len(q) |-> q[k]]
        BY LenProperties
    <2>2. \A k \in 1 .. Len(q) : q[k] \in Packets(j)
        BY <1>2, ElementOfSeq
    <2> QED BY <2>1, <2>2, IsASeq
<1>4. ASSUME NEW t \in Transports(i) PROVE t \in Transports(j)
    <2>1. t.unacked \subseteq Underway(j) /\ t.channel.heap \in Seq(Packets(j))
        BY <1>1, <1>3 DEF Transports
    <2> QED BY <2>1 DEF Transports
<1> QED BY <1>1, <1>4

\* The datagram of a queued packet (enqueue_single_encap).
LEMMA EncapsulatedTyped ==
    ASSUME NEW j \in BOOLEAN, NEW e \in Ends, NEW t \in Transports(j), NEW p \in Queueable(j)
    PROVE  Encapsulated(e, t, p) \in Underway(j)
<1>1. 0 \in SeqNum /\ t.reliable_write \in SeqNum /\ t.order_write \in SeqNum
    BY ModuloAssumption DEF SeqNum, Transports
<1>2. Peer(e) \in Ends
    BY DEF Ends, Peer
<1>3. /\ p.kind \in PacketKinds /\ p.nonce \in Nonces /\ p.reliability \in Reliability
      /\ p.kind = "NewIncomingConnection" => j
    BY DEF Queueable
<1> QED BY <1>1, <1>2, <1>3 DEF Encapsulated, Underway, Datagrams, PacketKinds, Nonces

\* It is kept for resending when its packet is reliable (track_sent_datagram).
LEMMA TrackingTyped ==
    ASSUME NEW j \in BOOLEAN, NEW t \in Transports(j), NEW m \in Underway(j)
    PROVE  Tracking(t, m) \in Transports(j)
<1>1. CASE ~IsReliable(m.reliability)
    BY <1>1 DEF Tracking
<1>2. CASE IsReliable(m.reliability)
    <2> DEFINE u == t.unacked \cup {m}
               ow == IF IsOrdered(m.reliability) THEN SeqNext(t.order_write) ELSE t.order_write
               rw == SeqNext(t.reliable_write)
    <2>1. rw \in SeqNum /\ ow \in SeqNum
        BY NextType DEF Transports
    <2>2. IsFiniteSet(u)
        BY FS_AddElement DEF Transports
    <2>3. u \subseteq Underway(j) /\ \A x \in u : IsReliable(x.reliability)
        BY <1>2 DEF Transports
    <2>4. Tracking(t, m) = [t EXCEPT !.reliable_write = rw, !.order_write = ow, !.unacked = u]
        BY <1>2 DEF Tracking
    <2> HIDE DEF u, ow, rw
    <2> QED BY <2>1, <2>2, <2>3, <2>4 DEF Transports
<1> QED BY <1>1, <1>2

\* The flush of a whole queue.
LEMMA BuiltTyped ==
    ASSUME NEW j \in BOOLEAN, NEW e \in Ends, NEW t \in Transports(j),
           NEW wire \in SUBSET Underway(j), NEW queue \in Seq(Queueable(j))
    PROVE  /\ BuiltAll(e, queue, t, wire).t \in Transports(j)
           /\ BuiltAll(e, queue, t, wire).wire \subseteq Underway(j)
<1> DEFINE D == [t : Transports(j), wire : SUBSET Underway(j)]
           A == Queueable(j)
           n == Len(queue)
           s == [t |-> t, wire |-> wire]
           built == CHOOSE g : g = [k \in 0 .. n |->
                        IF k = 0 THEN s ELSE Build(e, g[k - 1], queue[k])]
<1>1. n \in Nat /\ \A k \in 1 .. n : queue[k] \in A
    BY LenProperties, ElementOfSeq
<1>2. ASSUME NEW x \in D, NEW p \in A PROVE Build(e, x, p) \in D
    <2>1. x.t \in Transports(j) /\ x.wire \subseteq Underway(j)
        OBVIOUS
    <2>2. PICK m : m = Encapsulated(e, x.t, p)
        OBVIOUS
    <2>3. m \in Underway(j)
        BY <2>1, <2>2, EncapsulatedTyped
    <2>4. Tracking(x.t, m) \in Transports(j)
        BY <2>1, <2>3, TrackingTyped
    <2> QED BY <2>1, <2>2, <2>3, <2>4 DEF Build
<1>3. BuiltAll(e, queue, t, wire) = built[n]
    BY DEF BuiltAll
<1>4. PICK op : op = [x \in D |-> [p \in A |-> Build(e, x, p)]]
    OBVIOUS
<1>5. s \in D
    OBVIOUS
<1> HIDE DEF D, A, s
<1>6. op \in [D -> [A -> D]] /\ queue \in Seq(A)
    BY <1>2, <1>4 DEF A
<1>7. PICK h \in [0 .. n -> D] : IsFold(h, op, s, queue)
    BY <1>5, <1>6, FoldExists
<1>8. h = [k \in 0 .. n |-> IF k = 0 THEN s ELSE Build(e, h[k - 1], queue[k])]
    <2>1. ASSUME NEW k \in 0 .. n, k # 0
          PROVE  op[h[k - 1]][queue[k]] = Build(e, h[k - 1], queue[k])
        <3>1. queue[k] \in A /\ h[k - 1] \in D
            BY <2>1, <1>1
        <3> QED BY <3>1, <1>4
    <2> QED BY <1>7, <2>1 DEF IsFold
<1>9. built = [k \in 0 .. n |-> IF k = 0 THEN s ELSE Build(e, built[k - 1], queue[k])]
    BY <1>8
<1> HIDE DEF built, n
<1>10. built[0] = s /\ \A k \in 1 .. n : built[k] = Build(e, built[k - 1], queue[k])
    BY <1>9, <1>1
<1>11. \A k \in 1 .. n : built[k - 1] \in D => built[k] \in D
    BY <1>1, <1>2, <1>10
<1>12. \A k \in 0 .. n : built[k] \in D
    BY <1>1, <1>5, <1>10, <1>11, StepInduction
<1>13. built[n] \in D
    BY <1>1, <1>12
<1> QED BY <1>3, <1>13 DEF D

\* handle_datagram: the packets it releases ...
LEMMA DispatchedTyped ==
    ASSUME NEW j \in BOOLEAN, NEW t \in Transports(j), NEW m \in Underway(j)
    PROVE  Dispatched(t, m) \in Seq(Packets(j))
<1>1. CASE m.kind = "Ack" \/ Duplicate(t, m)
    BY <1>1, EmptySeq DEF Dispatched
<1>2. CASE ~(m.kind = "Ack" \/ Duplicate(t, m))
    <2>1. m \in Packets(j) /\ t.channel \in ChannelOver(Packets(j))
        BY <1>2 DEF Packets, Transports, ChannelOver
    <2>2. m.ordering_index \in SeqNum
        BY DEF Underway, Datagrams
    <2>3. Ready(t.channel, m) \in Seq(Packets(j)) /\ <<m>> \in Seq(Packets(j))
        BY <2>1, <2>2, HandleOrderedTyped
    <2> QED BY <1>2, <2>3 DEF Dispatched, Arrived
<1> QED BY <1>1, <1>2

\* ... the inner session it leaves ...
LEMMA TransportAfterTyped ==
    ASSUME NEW j \in BOOLEAN, NEW s, NEW t \in Transports(j), NEW m \in Underway(j)
    PROVE  TransportAfter(s, t, m) \in Transports(j)
<1>0. /\ m.reliable_index \in SeqNum /\ NoIndex \in SeqNum \cup {NoIndex}
      /\ m.ordering_index \in SeqNum
    BY DEF Underway, Datagrams
<1>1. CASE ~Listens(s)
    BY <1>1 DEF TransportAfter
<1>2. CASE Listens(s) /\ m.kind = "Ack"
    <2> DEFINE u == {x \in t.unacked : x.reliable_index \notin m.acked}
    <2>1. IsFiniteSet(u) /\ u \subseteq t.unacked
        BY FS_Subset DEF Transports
    <2>2. TransportAfter(s, t, m) = [t EXCEPT !.unacked = u]
        BY <1>2 DEF TransportAfter
    <2> HIDE DEF u
    <2> QED BY <2>1, <2>2 DEF Transports
<1>3. CASE Listens(s) /\ m.kind # "Ack"
    <2> DEFINE k == t.acks \cup Acknowledged(m)
    <2>1. k \subseteq SeqNum \cup {NoIndex}
        BY <1>0 DEF Transports, Acknowledged
    <2>2. CASE Duplicate(t, m)
        <3>1. TransportAfter(s, t, m) = [t EXCEPT !.acks = k]
            BY <1>3, <2>2 DEF TransportAfter
        <3> HIDE DEF k
        <3> QED BY <3>1, <2>1 DEF Transports
    <2>3. CASE ~Duplicate(t, m)
        <3> DEFINE r == IF IsReliable(m.reliability) THEN See(t.tracker, m.reliable_index)
                        ELSE t.tracker
                   c == IF IsOrdered(m.reliability) THEN HandleOrdered(t.channel, m)
                        ELSE t.channel
        <3>1. /\ t.tracker \in TrackerState /\ Len(t.tracker.window) < Modulo
              /\ t.channel \in ChannelOver(Packets(j)) /\ m \in Packets(j)
            BY <1>3 DEF Transports, ChannelOver, Packets
        <3>2. r \in TrackerState /\ Len(r.window) < Modulo
            BY <3>1, <1>0, SeeTyped
        <3>3. c \in ChannelOver(Packets(j))
            BY <3>1, <1>0, HandleOrderedTyped
        <3>4. TransportAfter(s, t, m) = [t EXCEPT !.acks = k, !.tracker = r, !.channel = c]
            BY <1>3, <2>3 DEF TransportAfter
        <3> HIDE DEF k, r, c
        <3> QED BY <3>2, <3>3, <3>4, <2>1 DEF Transports, ChannelOver
    <2> QED BY <2>2, <2>3
<1> QED BY <1>1, <1>2, <1>3

\* ... and what the application is sent: messages, no last word.
LEMMA UserMessagesTyped ==
    ASSUME NEW j \in BOOLEAN, NEW s, NEW t \in Transports(j), NEW m \in Underway(j)
    PROVE  UserMessages(s, t, m) \in Seq({"data"})
<1>1. CASE ~Listens(s)
    BY <1>1, EmptySeq DEF UserMessages
<1>2. CASE Listens(s)
    <2> DEFINE d == Dispatched(t, m)
               I == {i \in DOMAIN d : d[i].kind = "UserData"}
               n == Cardinality(I)
    <2>1. d \in Seq(Packets(j))
        BY DispatchedTyped
    <2>2. DOMAIN d = 1 .. Len(d) /\ Len(d) \in Nat
        BY <2>1, LenProperties
    <2>3. n \in Nat
        <3>1. IsFiniteSet(1 .. Len(d))
            BY <2>2, FS_Interval
        <3>2. IsFiniteSet(I)
            BY <3>1, <2>2, FS_Subset
        <3> QED BY <3>2, FS_CardinalityType
    <2>4. UserMessages(s, t, m) = [k \in 1 .. n |-> "data"]
        BY <1>2 DEF UserMessages
    <2> HIDE DEF n
    <2>5. [k \in 1 .. n |-> "data"] \in [1 .. n -> {"data"}]
        OBVIOUS
    <2> QED BY <2>3, <2>4, <2>5, FunctionIsSeq
<1> QED BY <1>1, <1>2

\* The session after a datagram: closed ones do not listen.
LEMMA SessionAfterTyped ==
    ASSUME NEW role \in {"Client", "Server"}, NEW j \in BOOLEAN, NEW s \in SessionType(role),
           role = "Server" => (IsConnected(s) => j),
           NEW t \in Transports(j), NEW m \in Underway(j)
    PROVE  /\ SessionAfter(s, t, m) \in Busy(role, j)
           /\ s.state = "Closed" => SessionAfter(s, t, m).state = "Closed"
<1>1. CASE ~Listens(s)
    BY <1>1, RestingIsBusy DEF SessionAfter
<1>2. CASE Listens(s)
    <2>1. Heard(s) \in Busy(role, j)
        BY HeardTyped
    <2>2. Dispatched(t, m) \in Seq(Packets(j))
        BY DispatchedTyped
    <2>3. PICK h, d : h = Heard(s) /\ d = Dispatched(t, m)
        OBVIOUS
    <2>4. HandleControlPackets(h, d) \in Busy(role, j)
        BY <2>1, <2>2, <2>3, ControlSteps
    <2>5. SessionAfter(s, t, m) = HandleControlPackets(h, d)
        BY <1>2, <2>3 DEF SessionAfter
    <2> QED BY <1>2, <2>4, <2>5 DEF Listens
<1> QED BY <1>1, <1>2

-----------------------------------------------------------------------------
(* The inductive invariant.                                                *)

\* What an application has been sent: messages, and an end only as the last.
Logs == {g \in Seq({"data", "end"}) : \A k \in DOMAIN g : g[k] = "end" => k = Len(g)}

SessionsTyped ==
    /\ session \in [Ends -> SessionType("Client") \cup SessionType("Server")]
    /\ session["client"] \in SessionType("Client")
    /\ session["server"] \in SessionType("Server")

TransportsTyped ==
    /\ transport \in [Ends -> Transports(joined)]
    /\ net \subseteq Underway(joined)

RestTyped ==
    /\ missing \subseteq Datagrams
    /\ incidents \in 0 .. MaxIncidents
    /\ task \in {"starting", "running", "ended"}
    /\ ready \in {"waiting", "ok", "failed", "aborted"}
    /\ refusal \in BOOLEAN /\ registered \in BOOLEAN /\ announced \in BOOLEAN
    /\ accepted \in BOOLEAN /\ joined \in BOOLEAN

\* Whatever the listener takes for a connection, the client has taken before.
JoinedFirst == IsConnected(session["server"]) \/ announced \/ accepted => joined

\* The muxer has not begun with a session that is closed.
StartsOpen == task = "starting" => session["client"].state # "Closed"

\* As long as there is a session to go on, no end has been told.
EndOfSession ==
    /\ given \in [Ends -> Logs]
    /\ task # "ended" => given["client"] \in Seq({"data"})
    /\ registered => given["server"] \in Seq({"data"})

ConnectionInv ==
    /\ SessionsTyped
    /\ TransportsTyped
    /\ RestTyped
    /\ JoinedFirst
    /\ StartsOpen
    /\ EndOfSession

\* The client's session is not opened again in this step.
ClosedStays == session["client"].state = "Closed" => session'["client"].state = "Closed"

\* Both ends.
LEMMA EndsFacts ==
    /\ "client" \in Ends /\ "server" \in Ends /\ "client" # "server"
    /\ \A e \in Ends : e = "client" \/ e = "server"
    /\ Role("client") = "Client" /\ Role("server") = "Server"
BY DEF Ends, Role

\* A log of messages, with or without a last word.
LEMMA LogFacts ==
    ASSUME NEW g \in Seq({"data"}), NEW d \in Seq({"data"})
    PROVE  /\ g \in Logs /\ g \o d \in Seq({"data"}) /\ g \o d \in Logs
           /\ g \o d \o <<>> = g \o d /\ g \o <<>> = g
           /\ Append(g, "end") \in Logs /\ g \o <<"end">> \in Logs
           /\ g \o d \o <<"end">> \in Logs
<1>1. ASSUME NEW x \in Seq({"data"})
      PROVE  x \in Logs /\ Append(x, "end") \in Logs /\ x \o <<"end">> \in Logs /\ x \o <<>> = x
    <2>1. Len(x) \in Nat /\ DOMAIN x = 1 .. Len(x) /\ \A k \in 1 .. Len(x) : x[k] = "data"
        BY LenProperties, ElementOfSeq
    <2>2. x \in Seq({"data", "end"})
        <3>1. x \in [1 .. Len(x) -> {"data", "end"}]
            BY <2>1, LenProperties
        <3> QED BY <3>1, <2>1, FunctionIsSeq
    <2>3. x \in Logs
        BY <2>1, <2>2 DEF Logs
    <2> DEFINE y == Append(x, "end")
    <2>4. /\ y \in Seq({"data", "end"}) /\ Len(y) = Len(x) + 1
          /\ \A k \in 1 .. Len(x) : y[k] = x[k]
        BY <2>2, AppendProperties
    <2>5. DOMAIN y = 1 .. Len(x) + 1
        BY <2>4, LenProperties
    <2> HIDE DEF y
    <2>6. y \in Logs
        BY <2>1, <2>4, <2>5 DEF Logs
    <2>7. y = x \o <<"end">>
        BY <2>2, AppendIsConcat DEF y
    <2>8. x \o <<>> = x
        BY ConcatEmptySeq
    <2> QED BY <2>3, <2>6, <2>7, <2>8 DEF y
<1>2. g \o d \in Seq({"data"})
    BY ConcatProperties
<1>3. PICK x : x = g \o d
    OBVIOUS
<1>4. x \in Logs /\ x \o <<"end">> \in Logs /\ x \o <<>> = x
    BY <1>1, <1>2, <1>3
<1> QED BY <1>1, <1>2, <1>3, <1>4

\* A handler's flush at end e (flush_built_datagrams): what it leaves is typed,
\* if nothing is announced before the client has joined.
LEMMA FlushTyped ==
    ASSUME NEW e \in Ends, NEW j \in BOOLEAN, joined \in BOOLEAN, joined => j,
           SessionsTyped, transport \in [Ends -> Transports(joined)],
           NEW s \in BusySession(Role(e)), ~Announces(s) \/ j,
           NEW t \in Transports(j), NEW wire \in SUBSET Underway(j), NEW gone \in BOOLEAN,
           Flush(e, s, t, wire, gone)
    PROVE  /\ SessionsTyped'
           /\ transport' \in [Ends -> Transports(j)]
           /\ net' \subseteq Underway(j)
           /\ \A f \in Ends : f # e => session'[f] = session[f]
           /\ session'[e].state = IF gone THEN Gone(e).state ELSE s.state
<1>1. s.queue \in Seq(Queueable(j))
    BY DEF BusySession, Announces
<1>2. PICK q, b : q = s.queue /\ b = BuiltAll(e, q, t, wire)
    OBVIOUS
<1>3. b.t \in Transports(j) /\ b.wire \subseteq Underway(j)
    BY <1>1, <1>2, BuiltTyped
<1> DEFINE x == IF gone THEN Gone(e) ELSE [s EXCEPT !.queue = <<>>]
           y == IF gone THEN NewTransport ELSE b.t
<1>4. /\ session' = [session EXCEPT ![e] = x]
      /\ transport' = [transport EXCEPT ![e] = y]
      /\ net' = IF gone /\ e = "client" THEN {m \in b.wire : m.to = "server"} ELSE b.wire
    BY <1>2 DEF Flush
<1>5. /\ x \in SessionType(Role(e))
      /\ x.state = IF gone THEN Gone(e).state ELSE s.state
    <2>1. Role(e) \in {"Client", "Server"}
        BY EndsFacts
    <2>2. CASE gone
        BY <2>2, GoneTyped, EndsFacts
    <2>3. CASE ~gone
        BY <2>1, <2>3, FlushedTyped
    <2> QED BY <2>2, <2>3
<1>6. y \in Transports(j)
    BY <1>3, NewTransportTyped
<1>7. Transports(joined) \subseteq Transports(j)
    BY Monotone
<1> HIDE DEF x, y
<1>8. SessionsTyped'
    BY <1>4, <1>5, EndsFacts DEF SessionsTyped
<1>9. transport' \in [Ends -> Transports(j)]
    BY <1>4, <1>6, <1>7
<1>10. net' \subseteq Underway(j)
    BY <1>3, <1>4
<1>11. session'[e] = x /\ \A f \in Ends : f # e => session'[f] = session[f]
    BY <1>4 DEF SessionsTyped
<1> QED BY <1>5, <1>8, <1>9, <1>10, <1>11

\* The ACK of a tick is a datagram.
LEMMA AcksTyped ==
    ASSUME NEW e \in Ends, NEW j \in BOOLEAN, transport[e] \in Transports(j)
    PROVE  Acks(e) \subseteq Underway(j)
<1>1. transport[e].acks \subseteq SeqNum \cup {NoIndex}
    BY DEF Transports
<1>2. Peer(e) \in Ends /\ 0 \in SeqNum
    BY ModuloAssumption DEF Peer, Ends, SeqNum
<1> DEFINE a == [to |-> Peer(e), kind |-> "Ack", nonce |-> 0, reliability |-> "Unreliable",
                 reliable_index |-> 0, ordering_index |-> 0, acked |-> transport[e].acks]
<1>3. a \in Underway(j)
    BY <1>1, <1>2 DEF Underway, Datagrams, Reliability
<1> HIDE DEF a
<1> QED BY <1>3 DEF Acks, a

\* The flush of a tick (flush_managed): no session becomes connected by it.
LEMMA TickFlushTyped ==
    ASSUME NEW e \in Ends, SessionsTyped, TransportsTyped, RestTyped,
           NEW s \in BusySession(Role(e)), ~Announces(s),
           NEW due, NEW gone \in BOOLEAN, TickFlush(e, s, due, gone), joined' = joined
    PROVE  /\ SessionsTyped'
           /\ TransportsTyped'
           /\ missing' \subseteq Datagrams /\ incidents' \in 0 .. MaxIncidents
           /\ \A f \in Ends : f # e => session'[f] = session[f]
           /\ session'[e].state = IF gone THEN Gone(e).state ELSE s.state
<1> DEFINE t == [transport[e] EXCEPT !.acks = {}]
           wire == net \cup due \cup Acks(e)
           n == Cardinality(due \ missing)
<1>1. /\ due \subseteq transport[e].unacked /\ Incidents(n) /\ missing' = missing \ due
      /\ Flush(e, s, t, wire, gone)
    BY DEF TickFlush
<1>2. transport[e] \in Transports(joined) /\ joined \in BOOLEAN
    BY DEF TransportsTyped, RestTyped
<1>3. t \in Transports(joined)
    BY <1>2 DEF Transports
<1>4. wire \subseteq Underway(joined)
    <2>1. due \subseteq Underway(joined)
        BY <1>1, <1>2 DEF Transports
    <2>2. Acks(e) \subseteq Underway(joined)
        BY <1>2, AcksTyped
    <2> QED BY <2>1, <2>2 DEF TransportsTyped
<1>5. n \in Nat
    <2>1. IsFiniteSet(transport[e].unacked)
        BY <1>2 DEF Transports
    <2>2. IsFiniteSet(due \ missing)
        BY <1>1, <2>1, FS_Subset
    <2> QED BY <2>2, FS_CardinalityType
<1> HIDE DEF n, t, wire
<1>6. incidents' \in 0 .. MaxIncidents
    BY <1>1, <1>5, ConnectionAssumption DEF Incidents, RestTyped
<1>7. /\ SessionsTyped'
      /\ transport' \in [Ends -> Transports(joined)]
      /\ net' \subseteq Underway(joined)
      /\ \A f \in Ends : f # e => session'[f] = session[f]
      /\ session'[e].state = IF gone THEN Gone(e).state ELSE s.state
    BY <1>1, <1>2, <1>3, <1>4, FlushTyped DEF TransportsTyped
<1>8. TransportsTyped'
    BY <1>7 DEF TransportsTyped
<1> QED BY <1>1, <1>6, <1>7, <1>8 DEF RestTyped

\* The beginning.
LEMMA ConnectionStarts == ConnectionInit => ConnectionInv
<1> SUFFICES ASSUME ConnectionInit PROVE ConnectionInv
    OBVIOUS
<1>1. SessionsTyped
    <2>1. session["client"] = NewSession("Client") /\ session["server"] = NewSession("Server")
        BY EndsFacts DEF ConnectionInit
    <2>2. NewSession("Client") \in SessionType("Client")
        BY GoneTyped
    <2>3. NewSession("Server") \in SessionType("Server")
        BY GoneTyped DEF Gone
    <2>4. session = [e \in Ends |-> session[e]]
        BY DEF ConnectionInit
    <2> QED BY <2>1, <2>2, <2>3, <2>4, EndsFacts DEF SessionsTyped
<1>2. TransportsTyped
    BY NewTransportTyped DEF ConnectionInit, TransportsTyped
<1>3. RestTyped
    <2>1. 0 \in 0 .. MaxIncidents
        BY ConnectionAssumption
    <2>2. incidents \in 0 .. MaxIncidents
        BY <2>1 DEF ConnectionInit
    <2> QED BY <2>2 DEF ConnectionInit, RestTyped
<1>4. JoinedFirst
    <2>1. session["server"] = NewSession("Server")
        BY EndsFacts DEF ConnectionInit
    <2>2. ~IsConnected(session["server"])
        BY <2>1 DEF NewSession, IsConnected
    <2> QED BY <2>2 DEF ConnectionInit, JoinedFirst
<1>5. StartsOpen
    <2>1. session["client"] = NewSession("Client")
        BY EndsFacts DEF ConnectionInit
    <2> QED BY <2>1, GoneTyped DEF StartsOpen
<1>6. EndOfSession
    <2>1. <<>> \in Seq({"data"})
        BY EmptySeq
    <2>2. <<>> \in Logs
        BY <2>1, LogFacts
    <2> QED BY <2>1, <2>2, EndsFacts DEF ConnectionInit, EndOfSession
<1> QED BY <1>1, <1>2, <1>3, <1>4, <1>5, <1>6 DEF ConnectionInv

-----------------------------------------------------------------------------
(* The client.                                                             *)

\* With the task the session and the socket are gone.
LEMMA UnboundTyped ==
    ASSUME SessionsTyped, transport \in [Ends -> Transports(joined)], joined \in BOOLEAN,
           NEW j \in BOOLEAN, joined => j, NEW wire \in SUBSET Underway(j), Unbound(wire)
    PROVE  /\ SessionsTyped'
           /\ transport' \in [Ends -> Transports(j)] /\ net' \subseteq Underway(j)
           /\ session'["server"] = session["server"]
           /\ session'["client"].state = "Closed"
<1>1. Transports(joined) \subseteq Transports(j) /\ NewTransport \in Transports(j)
    BY Monotone, NewTransportTyped
<1>2. /\ session' = [session EXCEPT !["client"] = Gone("client")]
      /\ transport' = [transport EXCEPT !["client"] = NewTransport]
      /\ net' = {x \in wire : x.to = "server"}
    BY DEF Unbound
<1>3. session'["client"] = Gone("client") /\ session'["server"] = session["server"]
    BY <1>2, EndsFacts DEF SessionsTyped
<1>4. SessionsTyped'
    BY <1>2, <1>3, GoneTyped, EndsFacts DEF SessionsTyped
<1>5. transport' \in [Ends -> Transports(j)]
    BY <1>1, <1>2
<1>6. net' \subseteq Underway(j)
    BY <1>2
<1> QED BY <1>3, <1>4, <1>5, <1>6, GoneTyped

\* A session at rest announces nothing.
LEMMA Resting ==
    ASSUME ConnectionInv
    PROVE  /\ session["client"] \in BusySession("Client") /\ ~Announces(session["client"])
           /\ session["server"] \in BusySession("Server") /\ ~Announces(session["server"])
<1>1. session["client"] \in SessionType("Client") /\ session["server"] \in SessionType("Server")
    BY DEF ConnectionInv, SessionsTyped
<1>2. ASSUME NEW role \in {"Client", "Server"}, NEW s \in SessionType(role)
      PROVE  s \in BusySession(role) /\ ~Announces(s)
    BY RestingIsBusy DEF Busy
<1> QED BY <1>1, <1>2

\* The first datagram of run_client_muxer.
LEMMA StartKeeps ==
    ASSUME ConnectionInv, ClientStart
    PROVE  ConnectionInv' /\ ClosedStays
<1> DEFINE s == session["client"]
           w == [Active(s) EXCEPT !.state = "OnlineHandshake"]
           z == Queued(w, "ConnectionRequest", 0, "Reliable")
<1>1. s \in BusySession("Client") /\ ~Announces(s)
    BY Resting
<1>2. w \in BusySession("Client") /\ w.state = "OnlineHandshake" /\ w.queue = s.queue
    BY <1>1, ActiveTyped, StateTyped, StateFacts
<1>3. StartClientHandshake(s) = z
    BY DEF StartClientHandshake
<1> HIDE DEF w
<1>4. Follows("Client", w, z) /\ z.state = "OnlineHandshake"
    BY <1>2, QueueableFacts, QueuedFollows
<1> HIDE DEF z
<1>5. z \in BusySession(Role("client")) /\ ~Announces(z)
    BY <1>1, <1>2, <1>4, EndsFacts DEF Follows, Announces
<1>6. /\ SessionsTyped /\ transport \in [Ends -> Transports(joined)] /\ joined \in BOOLEAN
      /\ transport["client"] \in Transports(joined) /\ net \in SUBSET Underway(joined)
    BY EndsFacts DEF ConnectionInv, TransportsTyped, RestTyped
<1>7. Flush("client", z, transport["client"], net, FALSE)
    BY <1>3 DEF ClientStart
<1>8. /\ SessionsTyped' /\ transport' \in [Ends -> Transports(joined)]
      /\ net' \subseteq Underway(joined) /\ session'["server"] = session["server"]
      /\ session'["client"].state = "OnlineHandshake"
    BY <1>4, <1>5, <1>6, <1>7, EndsFacts, FlushTyped
<1>9. /\ task = "starting" /\ task' = "running"
      /\ UNCHANGED <<ready, refusal, serverVars, given, joined, missing, incidents>>
    BY DEF ClientStart
<1>10. TransportsTyped' /\ RestTyped' /\ JoinedFirst' /\ StartsOpen' /\ EndOfSession'
    BY <1>8, <1>9 DEF ConnectionInv, TransportsTyped, RestTyped, JoinedFirst, StartsOpen,
                      EndOfSession, serverVars
<1>11. ClosedStays
    BY <1>9 DEF ClosedStays, ConnectionInv, StartsOpen
<1> QED BY <1>8, <1>10, <1>11 DEF ConnectionInv

\* A datagram for the client: a NewIncomingConnection leaves it only when it
\* has become connected, and the end it tells of is the last it tells.
LEMMA ClientReceiveKeeps ==
    ASSUME ConnectionInv, NEW m, ClientReceive(m)
    PROVE  ConnectionInv' /\ ClosedStays
<1> DEFINE s0 == session["client"]
           t0 == transport["client"]
<1>1. PICK s, t, d : /\ s = SessionAfter(s0, t0, m) /\ t = TransportAfter(s0, t0, m)
                     /\ d = UserMessages(s0, t0, m)
    OBVIOUS
<1> DEFINE log == given["client"] \o d
<1>2. /\ task = "running" /\ m \in net
      /\ joined' = (joined \/ IsConnected(s))
      /\ IF s.state = "Closed"
         THEN /\ task' = "ended"
              /\ ready' = IF ready = "waiting" THEN "aborted" ELSE ready
              /\ given' = [given EXCEPT !["client"] = Append(log, "end")]
              /\ Unbound(net \ {m})
         ELSE /\ ready' = Signal(s)
              /\ given' = [given EXCEPT !["client"] = log]
              /\ Flush("client", s, t, net \ {m}, FALSE)
              /\ task' = task
      /\ UNCHANGED <<refusal, serverVars, missing, incidents>>
    BY <1>1 DEF ClientReceive, Joins
<1>3. /\ s0 \in SessionType("Client") /\ SessionsTyped /\ joined \in BOOLEAN
      /\ transport \in [Ends -> Transports(joined)]
      /\ t0 \in Transports(joined) /\ net \subseteq Underway(joined)
    BY EndsFacts DEF ConnectionInv, SessionsTyped, TransportsTyped, RestTyped
<1>4. m \in Underway(joined)
    BY <1>2, <1>3
<1>5. s \in Busy("Client", joined) /\ (s0.state = "Closed" => s.state = "Closed")
    BY <1>1, <1>3, <1>4, SessionAfterTyped
<1>6. t \in Transports(joined) /\ d \in Seq({"data"})
    BY <1>1, <1>3, <1>4, TransportAfterTyped, UserMessagesTyped
<1> HIDE DEF s0, t0
<1>j. joined' \in BOOLEAN /\ (joined => joined')
    BY <1>2, <1>3 DEF IsConnected
<1>7. /\ t \in Transports(joined') /\ net \ {m} \in SUBSET Underway(joined')
    BY <1>3, <1>6, <1>j, Monotone
<1>8. given["client"] \in Seq({"data"})
    BY <1>2 DEF ConnectionInv, EndOfSession
<1>9. log \in Seq({"data"}) /\ log \in Logs /\ Append(log, "end") \in Logs
    BY <1>6, <1>8, LogFacts
<1> HIDE DEF log
<1>10. given \in [Ends -> Logs]
    BY DEF ConnectionInv, EndOfSession
<1>11. s \in BusySession(Role("client")) /\ (Announces(s) => s.state \in {"Connected", "Closed"})
    BY <1>5, EndsFacts DEF Busy
<1>12. CASE s.state = "Closed"
    <2>1. /\ SessionsTyped' /\ transport' \in [Ends -> Transports(joined')]
          /\ net' \subseteq Underway(joined') /\ session'["server"] = session["server"]
          /\ session'["client"].state = "Closed"
        BY <1>2, <1>3, <1>7, <1>j, <1>12, UnboundTyped
    <2>2. given' \in [Ends -> Logs] /\ given'["server"] = given["server"]
        BY <1>2, <1>9, <1>10, <1>12, EndsFacts
    <2>3. TransportsTyped'
        BY <2>1 DEF TransportsTyped
    <2>4. RestTyped'
        BY <1>2, <1>j, <1>12 DEF ConnectionInv, RestTyped, serverVars
    <2>5. JoinedFirst'
        BY <1>2, <1>j, <2>1 DEF ConnectionInv, JoinedFirst, serverVars
    <2>6. StartsOpen' /\ EndOfSession'
        BY <1>2, <1>12, <2>2 DEF ConnectionInv, StartsOpen, EndOfSession, serverVars
    <2> QED BY <2>1, <2>3, <2>4, <2>5, <2>6 DEF ConnectionInv, ClosedStays
<1>13. CASE s.state # "Closed"
    <2>0. ~Announces(s) \/ joined'
        BY <1>2, <1>11, <1>13 DEF IsConnected
    <2>1. /\ SessionsTyped' /\ transport' \in [Ends -> Transports(joined')]
          /\ net' \subseteq Underway(joined') /\ session'["server"] = session["server"]
        BY <1>2, <1>3, <1>7, <1>j, <1>11, <1>13, <2>0, EndsFacts, FlushTyped
    <2>2. given' \in [Ends -> Logs] /\ given'["server"] = given["server"] /\ given'["client"] = log
        BY <1>2, <1>9, <1>10, <1>13, EndsFacts
    <2>3. TransportsTyped'
        BY <2>1 DEF TransportsTyped
    <2>4. RestTyped'
        BY <1>2, <1>j, <1>13 DEF ConnectionInv, RestTyped, serverVars, Signal
    <2>5. JoinedFirst'
        BY <1>2, <1>j, <2>1 DEF ConnectionInv, JoinedFirst, serverVars
    <2>6. StartsOpen' /\ EndOfSession'
        BY <1>2, <1>9, <1>13, <2>2 DEF ConnectionInv, StartsOpen, EndOfSession, serverVars
    <2>7. ClosedStays
        BY <1>5, <1>13 DEF ClosedStays, s0
    <2> QED BY <2>1, <2>3, <2>4, <2>5, <2>6, <2>7 DEF ConnectionInv
<1> QED BY <1>12, <1>13

\* The refusal and the stream dropped while a message arrives: the session is
\* gone, and nothing more is told.
LEMMA UnboundKeeps ==
    ASSUME ConnectionInv, NEW wire, wire \subseteq net, Unbound(wire), task' = "ended",
           ready' \in {"waiting", "ok", "failed", "aborted"}, refusal' \in BOOLEAN,
           UNCHANGED <<serverVars, given, joined, missing, incidents>>
    PROVE  ConnectionInv' /\ ClosedStays
<1>1. /\ SessionsTyped /\ joined \in BOOLEAN
      /\ transport \in [Ends -> Transports(joined)] /\ wire \in SUBSET Underway(joined)
    BY DEF ConnectionInv, TransportsTyped, RestTyped
<1>2. /\ SessionsTyped' /\ transport' \in [Ends -> Transports(joined)]
      /\ net' \subseteq Underway(joined) /\ session'["server"] = session["server"]
      /\ session'["client"].state = "Closed"
    BY <1>1, UnboundTyped
<1>3. TransportsTyped' /\ JoinedFirst' /\ StartsOpen' /\ EndOfSession'
    BY <1>2 DEF ConnectionInv, TransportsTyped, JoinedFirst, StartsOpen, EndOfSession, serverVars
<1>4. RestTyped'
    BY DEF ConnectionInv, RestTyped, serverVars
<1> QED BY <1>2, <1>3, <1>4 DEF ConnectionInv, ClosedStays

\* A message of the client's application.
LEMMA ClientSendKeeps ==
    ASSUME ConnectionInv, NEW r \in AppReliability, ClientSend(r)
    PROVE  ConnectionInv' /\ ClosedStays
<1> DEFINE s0 == session["client"]
           s == QueueAppPacket(s0, r)
<1>1. Follows("Client", s0, s) /\ ~Announces(s0)
    BY Resting, AppPacketFollows
<1>2. /\ task = "running" /\ Incidents(1)
      /\ Flush("client", s, transport["client"], net, FALSE)
      /\ UNCHANGED <<clientVars, serverVars, given, joined, missing>>
    BY DEF ClientSend
<1> HIDE DEF s
<1>3. s \in BusySession(Role("client")) /\ ~Announces(s)
    BY <1>1, EndsFacts DEF Follows
<1>4. /\ SessionsTyped /\ transport \in [Ends -> Transports(joined)] /\ joined \in BOOLEAN
      /\ transport["client"] \in Transports(joined) /\ net \in SUBSET Underway(joined)
    BY EndsFacts DEF ConnectionInv, TransportsTyped, RestTyped
<1>5. /\ SessionsTyped' /\ transport' \in [Ends -> Transports(joined)]
      /\ net' \subseteq Underway(joined) /\ session'["server"] = session["server"]
      /\ session'["client"].state = s.state
    BY <1>2, <1>3, <1>4, EndsFacts, FlushTyped
<1>6. incidents' \in 0 .. MaxIncidents
    BY <1>2, ConnectionAssumption DEF Incidents, ConnectionInv, RestTyped
<1>7. TransportsTyped' /\ JoinedFirst' /\ StartsOpen' /\ EndOfSession'
    BY <1>2, <1>5 DEF ConnectionInv, TransportsTyped, JoinedFirst, StartsOpen, EndOfSession,
                      serverVars, clientVars
<1>8. RestTyped'
    BY <1>2, <1>6 DEF ConnectionInv, RestTyped, serverVars, clientVars
<1>9. ClosedStays
    BY <1>1, <1>5 DEF ClosedStays, Follows
<1> QED BY <1>5, <1>7, <1>8, <1>9 DEF ConnectionInv

\* A tick of the client.
LEMMA ClientTickKeeps ==
    ASSUME ConnectionInv, NEW due, ClientTick(due)
    PROVE  ConnectionInv' /\ ClosedStays
<1> DEFINE s0 == session["client"]
           s == OnTick(s0, FALSE)
<1>1. Follows("Client", s0, s) /\ ~Announces(s0)
    BY Resting, TickFollows
<1>2. /\ task = "running" /\ TickFlush("client", s, due, FALSE)
      /\ ready' = Signal(s)
      /\ UNCHANGED <<task, refusal, serverVars, given, joined>>
    BY DEF ClientTick
<1> HIDE DEF s
<1>3. s \in BusySession(Role("client")) /\ ~Announces(s)
    BY <1>1, EndsFacts DEF Follows
<1>4. SessionsTyped /\ TransportsTyped /\ RestTyped
    BY DEF ConnectionInv
<1>5. /\ SessionsTyped' /\ TransportsTyped'
      /\ missing' \subseteq Datagrams /\ incidents' \in 0 .. MaxIncidents
      /\ session'["server"] = session["server"] /\ session'["client"].state = s.state
    BY <1>2, <1>3, <1>4, EndsFacts, TickFlushTyped
<1>6. JoinedFirst' /\ StartsOpen' /\ EndOfSession'
    BY <1>2, <1>5 DEF ConnectionInv, JoinedFirst, StartsOpen, EndOfSession, serverVars
<1>7. RestTyped'
    BY <1>2, <1>4, <1>5 DEF RestTyped, serverVars, Signal
<1>8. ClosedStays
    BY <1>1, <1>5 DEF ClosedStays, Follows
<1> QED BY <1>5, <1>6, <1>7, <1>8 DEF ConnectionInv

\* The stream is dropped.
LEMMA ClientDropKeeps ==
    ASSUME ConnectionInv, ClientDrop
    PROVE  ConnectionInv' /\ ClosedStays
<1> DEFINE s0 == session["client"]
           w == SendDisconnect(s0, "Disconnected")
           s == OnTick(w, FALSE)
<1>1. /\ task' = "ended"
      /\ UNCHANGED <<ready, refusal, serverVars, given, joined>>
    BY DEF ClientDrop
<1>r. ready' \in {"waiting", "ok", "failed", "aborted"} /\ refusal' \in BOOLEAN
    BY <1>1 DEF ConnectionInv, RestTyped
<1>2. CASE ~IsConnected(s0)
    <2>1. Unbound(net) /\ UNCHANGED <<missing, incidents>>
        BY <1>2 DEF ClientDrop
    <2> QED BY <2>1, <1>1, <1>r, UnboundKeeps
<1>3. CASE IsConnected(s0)
    <2>1. PICK due : TickFlush("client", s, due, TRUE)
        BY <1>3 DEF ClientDrop
    <2>2. Follows("Client", s0, w) /\ ~Announces(s0)
        BY Resting, QueueableFacts, DisconnectFollows
    <2> HIDE DEF w
    <2>3. w \in BusySession("Client") /\ ~Announces(w)
        BY <2>2 DEF Follows
    <2>4. Follows("Client", w, s)
        BY <2>3, TickFollows
    <2> HIDE DEF s
    <2>5. s \in BusySession(Role("client")) /\ ~Announces(s)
        BY <2>3, <2>4, EndsFacts DEF Follows
    <2>6. SessionsTyped /\ TransportsTyped /\ RestTyped
        BY DEF ConnectionInv
    <2>7. /\ SessionsTyped' /\ TransportsTyped'
          /\ missing' \subseteq Datagrams /\ incidents' \in 0 .. MaxIncidents
          /\ session'["server"] = session["server"]
          /\ session'["client"].state = Gone("client").state
        BY <1>1, <2>1, <2>5, <2>6, EndsFacts, TickFlushTyped
    <2>8. JoinedFirst' /\ StartsOpen' /\ EndOfSession'
        BY <1>1, <2>7 DEF ConnectionInv, JoinedFirst, StartsOpen, EndOfSession, serverVars
    <2>9. RestTyped'
        BY <1>1, <2>6, <2>7 DEF RestTyped, serverVars
    <2> QED BY <2>7, <2>8, <2>9, GoneTyped DEF ConnectionInv, ClosedStays
<1> QED BY <1>2, <1>3

-----------------------------------------------------------------------------
(* The listener.                                                           *)

\* The last word of a session is told as the session leaves the table.
LEMMA LastWordFacts ==
    ASSUME NEW s, NEW told \in BOOLEAN, NEW g \in Seq({"data"})
    PROVE  /\ g \o LastWord(s, told) \in Logs
           /\ ~Removes(s) => g \o LastWord(s, told) \in Seq({"data"})
<1>1. LastWord(s, told) = <<>> \/ (LastWord(s, told) = <<"end">> /\ Removes(s))
    BY DEF LastWord, Removes
<1>2. g \in Logs /\ g \o <<>> = g /\ g \o <<"end">> \in Logs
    BY LogFacts
<1> QED BY <1>1, <1>2

\* A datagram for the listener (dispatch_datagram): the session is announced
\* by it only if it is connected after it, and so when the client has joined.
LEMMA ServerReceiveKeeps ==
    ASSUME ConnectionInv, NEW m, ServerReceive(m)
    PROVE  ConnectionInv' /\ ClosedStays
<1> DEFINE s0 == session["server"]
           t0 == transport["server"]
<1>1. PICK s, t, d : /\ s = SessionAfter(s0, t0, m) /\ t = TransportAfter(s0, t0, m)
                     /\ d = UserMessages(s0, t0, m)
    OBVIOUS
<1>t. PICK told, gone : told = Told(s) /\ gone = Removes(s)
    OBVIOUS
<1>2. /\ registered /\ m \in net /\ announced' = told /\ accepted' = (accepted \/ told)
      /\ Flush("server", s, t, net \ {m}, gone)
      /\ registered' = ~gone
      /\ given' = [given EXCEPT !["server"] = @ \o d \o LastWord(s, told)]
      /\ UNCHANGED <<clientVars, joined, missing, incidents>>
    BY <1>1, <1>t DEF ServerReceive
<1>3. /\ s0 \in SessionType("Server") /\ SessionsTyped /\ joined \in BOOLEAN
      /\ transport \in [Ends -> Transports(joined)]
      /\ t0 \in Transports(joined) /\ net \subseteq Underway(joined)
      /\ IsConnected(s0) => joined
    BY EndsFacts DEF ConnectionInv, SessionsTyped, TransportsTyped, RestTyped, JoinedFirst
<1>4. m \in Underway(joined) /\ net \ {m} \in SUBSET Underway(joined)
    BY <1>2, <1>3
<1>5. s \in Busy("Server", joined)
    BY <1>1, <1>3, <1>4, SessionAfterTyped
<1>6. t \in Transports(joined) /\ d \in Seq({"data"})
    BY <1>1, <1>3, <1>4, TransportAfterTyped, UserMessagesTyped
<1> HIDE DEF s0, t0
<1>7. s \in BusySession(Role("server")) /\ ~Announces(s) /\ (IsConnected(s) => joined)
    BY <1>5, EndsFacts DEF Busy
<1>8. gone \in BOOLEAN /\ told \in BOOLEAN /\ (told => joined)
    BY <1>t, <1>7 DEF Removes, Told, IsConnected, ConnectionInv, RestTyped, JoinedFirst
<1>9. /\ SessionsTyped' /\ transport' \in [Ends -> Transports(joined)]
      /\ net' \subseteq Underway(joined) /\ session'["client"] = session["client"]
      /\ session'["server"].state = IF gone THEN Gone("server").state ELSE s.state
    <2>1. PICK wire : wire = net \ {m}
        OBVIOUS
    <2>2. wire \in SUBSET Underway(joined) /\ Flush("server", s, t, wire, gone)
        BY <1>2, <1>4, <2>1
    <2>3. /\ SessionsTyped' /\ transport' \in [Ends -> Transports(joined)]
          /\ net' \subseteq Underway(joined)
          /\ \A f \in Ends : f # "server" => session'[f] = session[f]
          /\ session'["server"].state = IF gone THEN Gone("server").state ELSE s.state
        <3>1. CASE gone = TRUE
            BY <1>3, <1>6, <1>7, <2>2, <3>1, EndsFacts, FlushTyped
        <3>2. CASE gone = FALSE
            BY <1>3, <1>6, <1>7, <2>2, <3>2, EndsFacts, FlushTyped
        <3> QED BY <1>8, <3>1, <3>2
    <2> QED BY <2>3, EndsFacts
<1>10. IsConnected(session'["server"]) => joined
    BY <1>7, <1>9, GoneTyped DEF IsConnected
<1>11. PICK g : g = given["server"] \o d
    OBVIOUS
<1>12. g \in Seq({"data"})
    BY <1>2, <1>6, <1>11, LogFacts DEF ConnectionInv, EndOfSession
<1>13. g \o LastWord(s, told) \in Logs /\ (~gone => g \o LastWord(s, told) \in Seq({"data"}))
    BY <1>8, <1>12, <1>t, LastWordFacts
<1>14. /\ given' = [given EXCEPT !["server"] = g \o LastWord(s, told)]
       /\ given \in [Ends -> Logs]
    BY <1>2, <1>11 DEF ConnectionInv, EndOfSession
<1>15. /\ given' \in [Ends -> Logs] /\ given'["client"] = given["client"]
       /\ given'["server"] = g \o LastWord(s, told)
    BY <1>13, <1>14, EndsFacts
<1>16. EndOfSession'
    BY <1>2, <1>13, <1>15 DEF ConnectionInv, EndOfSession, clientVars
<1>17. JoinedFirst'
    BY <1>2, <1>8, <1>10 DEF ConnectionInv, JoinedFirst
<1>18. TransportsTyped' /\ StartsOpen' /\ ClosedStays
    BY <1>2, <1>9 DEF ConnectionInv, TransportsTyped, StartsOpen, ClosedStays, clientVars
<1>19. RestTyped'
    BY <1>2, <1>8 DEF ConnectionInv, RestTyped, clientVars
<1> QED BY <1>9, <1>16, <1>17, <1>18, <1>19 DEF ConnectionInv

\* A tick of the listener (tick_sessions).
LEMMA ServerTickKeeps ==
    ASSUME ConnectionInv, NEW due, NEW overfull \in BOOLEAN, ServerTick(due, overfull)
    PROVE  ConnectionInv' /\ ClosedStays
<1> DEFINE s0 == session["server"]
           s == OnTick(s0, overfull)
           gone == Removes(s)
<1>1. Follows("Server", s0, s) /\ ~Announces(s0)
    BY Resting, TickFollows
<1>2. /\ registered /\ TickFlush("server", s, due, gone) /\ registered' = ~gone
      /\ given' = [given EXCEPT !["server"] = @ \o LastWord(s, announced)]
      /\ UNCHANGED <<clientVars, announced, accepted, joined>>
    BY DEF ServerTick
<1> HIDE DEF s
<1>g. gone \in BOOLEAN
    BY DEF Removes
<1>3. s \in BusySession(Role("server")) /\ ~Announces(s) /\ (IsConnected(s) => joined)
    BY <1>1, EndsFacts DEF Follows, ConnectionInv, JoinedFirst
<1>4. SessionsTyped /\ TransportsTyped /\ RestTyped
    BY DEF ConnectionInv
<1>5. PICK out : out = gone
    OBVIOUS
<1>6. /\ SessionsTyped' /\ TransportsTyped'
      /\ missing' \subseteq Datagrams /\ incidents' \in 0 .. MaxIncidents
      /\ session'["client"] = session["client"]
      /\ session'["server"].state = IF out THEN Gone("server").state ELSE s.state
    BY <1>2, <1>3, <1>4, <1>5, <1>g, EndsFacts, TickFlushTyped
<1>7. IsConnected(session'["server"]) => joined
    BY <1>3, <1>6, GoneTyped DEF IsConnected
<1>8. given["server"] \in Seq({"data"}) /\ given \in [Ends -> Logs] /\ announced \in BOOLEAN
    BY <1>2, <1>4 DEF ConnectionInv, EndOfSession, RestTyped
<1>9. PICK g : g = given["server"] \o LastWord(s, announced)
    OBVIOUS
<1>10. g \in Logs /\ (~gone => g \in Seq({"data"}))
    BY <1>8, <1>9, LastWordFacts
<1>11. given' \in [Ends -> Logs] /\ given'["client"] = given["client"] /\ given'["server"] = g
    BY <1>2, <1>8, <1>9, <1>10, EndsFacts
<1>12. EndOfSession'
    BY <1>2, <1>10, <1>11 DEF ConnectionInv, EndOfSession, clientVars
<1>13. JoinedFirst' /\ StartsOpen' /\ ClosedStays
    BY <1>2, <1>6, <1>7 DEF ConnectionInv, JoinedFirst, StartsOpen, ClosedStays, clientVars
<1>14. RestTyped'
    BY <1>2, <1>4, <1>6, <1>g DEF RestTyped, clientVars
<1> QED BY <1>6, <1>12, <1>13, <1>14 DEF ConnectionInv

\* A message of the listener's application, for a session that may be new.
LEMMA ServerSendKeeps ==
    ASSUME ConnectionInv, NEW r \in AppReliability, ServerSend(r)
    PROVE  ConnectionInv' /\ ClosedStays
<1> DEFINE s0 == session["server"]
           s == QueueAppPacket(s0, r)
<1>1. Follows("Server", s0, s) /\ ~Announces(s0)
    BY Resting, AppPacketFollows
<1>2. /\ accepted /\ (Incidents(0) \/ Incidents(1)) /\ registered' = TRUE
      /\ announced' = (registered /\ announced)
      /\ given' = [given EXCEPT !["server"] = IF registered THEN @ ELSE <<>>]
      /\ Flush("server", s, transport["server"], net, FALSE)
      /\ UNCHANGED <<clientVars, accepted, joined, missing>>
    BY DEF ServerSend
<1> HIDE DEF s
<1>3. s \in BusySession(Role("server")) /\ ~Announces(s)
    BY <1>1, EndsFacts DEF Follows
<1>4. /\ SessionsTyped /\ transport \in [Ends -> Transports(joined)] /\ joined \in BOOLEAN
      /\ transport["server"] \in Transports(joined) /\ net \in SUBSET Underway(joined)
    BY EndsFacts DEF ConnectionInv, TransportsTyped, RestTyped
<1>5. /\ SessionsTyped' /\ transport' \in [Ends -> Transports(joined)]
      /\ net' \subseteq Underway(joined) /\ session'["client"] = session["client"]
    BY <1>2, <1>3, <1>4, EndsFacts, FlushTyped
<1>6. incidents' \in 0 .. MaxIncidents
    BY <1>2, ConnectionAssumption DEF Incidents, ConnectionInv, RestTyped
<1>7. <<>> \in Seq({"data"}) /\ <<>> \in Logs
    BY EmptySeq, LogFacts
<1>8. given \in [Ends -> Logs] /\ (registered => given["server"] \in Seq({"data"}))
    BY DEF ConnectionInv, EndOfSession
<1>9. /\ given' \in [Ends -> Logs] /\ given'["client"] = given["client"]
      /\ given'["server"] \in Seq({"data"})
    BY <1>2, <1>7, <1>8, EndsFacts
<1>10. EndOfSession'
    BY <1>2, <1>9 DEF ConnectionInv, EndOfSession, clientVars
<1>11. JoinedFirst'
    BY <1>2 DEF ConnectionInv, JoinedFirst
<1>12. TransportsTyped' /\ StartsOpen' /\ ClosedStays
    BY <1>2, <1>5 DEF ConnectionInv, TransportsTyped, StartsOpen, ClosedStays, clientVars
<1>13. RestTyped'
    <2>1. announced' \in BOOLEAN
        BY <1>2 DEF ConnectionInv, RestTyped
    <2> QED BY <1>2, <1>6, <2>1 DEF ConnectionInv, RestTyped, clientVars
<1> QED BY <1>5, <1>10, <1>11, <1>12, <1>13 DEF ConnectionInv

-----------------------------------------------------------------------------
(* The network and the clock.                                              *)

\* A datagram that is ignored or lost.
LEMMA RemovedKeeps ==
    ASSUME ConnectionInv, NEW m, ServerIgnore(m) \/ Lose(m)
    PROVE  ConnectionInv' /\ ClosedStays
<1>1. /\ m \in net /\ net' = net \ {m}
      /\ UNCHANGED <<session, transport, clientVars, serverVars, given, joined>>
    BY DEF ServerIgnore, Lose
<1>2. missing' \subseteq Datagrams /\ incidents' \in 0 .. MaxIncidents
    <2>1. CASE ServerIgnore(m)
        BY <2>1 DEF ServerIgnore, ConnectionInv, RestTyped
    <2>2. CASE Lose(m)
        <3>1. m.to \in Ends /\ m \in Datagrams
            BY <2>2, <1>1 DEF Lose, ConnectionInv, TransportsTyped, Underway, Datagrams
        <3>2. transport[m.to].unacked \subseteq Datagrams
            BY <3>1 DEF ConnectionInv, TransportsTyped, Transports, Underway
        <3>3. Outstanding(m) \subseteq Datagrams
            BY <3>1, <3>2 DEF Outstanding
        <3>4. incidents' \in 0 .. MaxIncidents
            BY <2>2, ConnectionAssumption DEF Lose, Incidents, ConnectionInv, RestTyped
        <3> QED BY <2>2, <3>3, <3>4 DEF Lose, ConnectionInv, RestTyped
    <2> QED BY <2>1, <2>2
<1>3. SessionsTyped' /\ TransportsTyped' /\ JoinedFirst' /\ StartsOpen' /\ EndOfSession'
    BY <1>1 DEF ConnectionInv, SessionsTyped, TransportsTyped, JoinedFirst, StartsOpen,
                EndOfSession, serverVars, clientVars
<1>4. RestTyped'
    BY <1>1, <1>2 DEF ConnectionInv, RestTyped, serverVars, clientVars
<1> QED BY <1>1, <1>3, <1>4 DEF ConnectionInv, ClosedStays

\* A unit of time.
LEMMA ElapseKeeps ==
    ASSUME ConnectionInv, Elapse
    PROVE  ConnectionInv' /\ ClosedStays
<1>1. /\ session' = [e \in Ends |-> IF Live(e) THEN Older(session[e]) ELSE session[e]]
      /\ UNCHANGED <<transport, net, clientVars, serverVars, given, joined, missing, incidents>>
    BY DEF Elapse
<1>2. session["client"] \in SessionType("Client") /\ session["server"] \in SessionType("Server")
    BY DEF ConnectionInv, SessionsTyped
<1>3. ASSUME NEW role \in {"Client", "Server"}, NEW s \in SessionType(role)
      PROVE  Older(s) \in SessionType(role) /\ Older(s).state = s.state
    BY OlderTyped
<1>4. /\ session'["client"] \in SessionType("Client")
      /\ session'["client"].state = session["client"].state
    BY <1>1, <1>2, <1>3, EndsFacts
<1>5. /\ session'["server"] \in SessionType("Server")
      /\ session'["server"].state = session["server"].state
    BY <1>1, <1>2, <1>3, EndsFacts
<1>6. SessionsTyped'
    <2>1. session' = [e \in Ends |-> session'[e]]
        BY <1>1
    <2> QED BY <2>1, <1>4, <1>5, EndsFacts DEF SessionsTyped
<1>7. TransportsTyped' /\ JoinedFirst' /\ StartsOpen' /\ EndOfSession'
    BY <1>1, <1>4, <1>5 DEF ConnectionInv, TransportsTyped, JoinedFirst, StartsOpen,
                EndOfSession, IsConnected, serverVars, clientVars
<1>8. RestTyped'
    BY <1>1 DEF ConnectionInv, RestTyped, serverVars, clientVars
<1> QED BY <1>4, <1>6, <1>7, <1>8 DEF ConnectionInv, ClosedStays

\* Every step keeps the invariant and leaves a closed client closed.
LEMMA ConnectionStep ==
    ConnectionInv /\ [ConnectionNext]_connectionVars => ConnectionInv' /\ ClosedStays
<1> SUFFICES ASSUME ConnectionInv, [ConnectionNext]_connectionVars
             PROVE  ConnectionInv' /\ ClosedStays
    OBVIOUS
<1>1. CASE ClientStart
    BY <1>1, StartKeeps
<1>2. CASE ClientRefused
    <2>1. /\ Unbound(net) /\ task' = "ended" /\ refusal' = FALSE
          /\ ready' = IF ready = "waiting" THEN "failed" ELSE ready
          /\ UNCHANGED <<serverVars, given, joined, missing, incidents>>
        BY <1>2 DEF ClientRefused
    <2>2. ready' \in {"waiting", "ok", "failed", "aborted"} /\ refusal' \in BOOLEAN
        BY <2>1 DEF ConnectionInv, RestTyped
    <2> QED BY <2>1, <2>2, UnboundKeeps
<1>3. CASE \E r \in AppReliability : ClientSend(r)
    BY <1>3, ClientSendKeeps
<1>4. CASE ClientDrop
    BY <1>4, ClientDropKeeps
<1>5. CASE \E r \in AppReliability : ServerSend(r)
    BY <1>5, ServerSendKeeps
<1>6. CASE Elapse
    BY <1>6, ElapseKeeps
<1>7. CASE \E m \in net : ClientReceive(m)
    BY <1>7, ClientReceiveKeeps
<1>8. CASE \E m \in net : ClientDropUnheard(m)
    <2>1. PICK m : ClientDropUnheard(m)
        BY <1>8
    <2>2. /\ Unbound(net \ {m}) /\ task' = "ended"
          /\ UNCHANGED <<ready, refusal, serverVars, given, joined, missing, incidents>>
        BY <2>1 DEF ClientDropUnheard
    <2>3. ready' \in {"waiting", "ok", "failed", "aborted"} /\ refusal' \in BOOLEAN
        BY <2>2 DEF ConnectionInv, RestTyped
    <2>4. PICK wire : wire = net \ {m}
        OBVIOUS
    <2> QED BY <2>2, <2>3, <2>4, UnboundKeeps
<1>9. CASE \E m \in net : ServerReceive(m)
    BY <1>9, ServerReceiveKeeps
<1>10. CASE \E m \in net : ServerIgnore(m) \/ Lose(m)
    BY <1>10, RemovedKeeps
<1>11. CASE \E due \in SUBSET transport["client"].unacked : ClientTick(due)
    BY <1>11, ClientTickKeeps
<1>12. CASE \E due \in SUBSET transport["server"].unacked, overfull \in BOOLEAN :
                ServerTick(due, overfull)
    BY <1>12, ServerTickKeeps
<1>13. CASE UNCHANGED connectionVars
    BY <1>13 DEF ConnectionInv, SessionsTyped, TransportsTyped, RestTyped, JoinedFirst,
                 StartsOpen, EndOfSession, ClosedStays, connectionVars, clientVars, serverVars
<1> QED BY <1>1, <1>2, <1>3, <1>4, <1>5, <1>6, <1>7, <1>8, <1>9, <1>10, <1>11, <1>12, <1>13
        DEF ConnectionNext

\* What the invariant says of the properties of the runs.
LEMMA ConnectionInvImplies ==
    ConnectionInv => ConnectionTypeOK /\ AnnouncedAfterClient /\ NothingAfterEnd
<1> SUFFICES ASSUME ConnectionInv
             PROVE  ConnectionTypeOK /\ AnnouncedAfterClient /\ NothingAfterEnd
    OBVIOUS
<1>1. AnnouncedAfterClient
    BY DEF ConnectionInv, JoinedFirst, AnnouncedAfterClient
<1>2. given \in [Ends -> Logs]
    BY DEF ConnectionInv, EndOfSession
<1>3. NothingAfterEnd
    BY <1>2 DEF NothingAfterEnd, Logs
<1>4. given \in [Ends -> Seq({"data", "end"})]
    BY <1>2 DEF Logs
<1>5. ASSUME NEW e \in Ends
      PROVE  /\ transport[e].unacked \subseteq Datagrams
             /\ \A m \in transport[e].unacked : IsReliable(m.reliability)
             /\ transport[e].acks \subseteq SeqNum \cup {NoIndex}
             /\ transport[e].tracker \in TrackerState
             /\ transport[e].channel.read \in SeqNum
    <2>1. transport[e] \in Transports(joined)
        BY DEF ConnectionInv, TransportsTyped
    <2> QED BY <2>1 DEF Transports, Underway
<1>6. net \subseteq Datagrams
    BY DEF ConnectionInv, TransportsTyped, Underway
<1>7. {refusal, registered, announced, accepted, joined} \subseteq BOOLEAN
    BY DEF ConnectionInv, RestTyped
<1>8. ConnectionTypeOK
    BY <1>4, <1>5, <1>6, <1>7 DEF ConnectionInv, SessionsTyped, RestTyped, ConnectionTypeOK
<1> QED BY <1>1, <1>3, <1>8

-----------------------------------------------------------------------------
(* What is proved of the specification.                                    *)

\* The types, among them that no send queue is left unflushed by a handler.
THEOREM ConnectionTypeOKHolds == ConnectionSpec => []ConnectionTypeOK
BY ConnectionStarts, ConnectionStep, ConnectionInvImplies, PTL DEF ConnectionSpec

\* accept() hands out a stream only when the client has been connected,
\* whatever is lost, resent, late or sent to a session made anew: the
\* NewIncomingConnection that makes a listener's session connected leaves the
\* client only in a handler that ends with the client connected.
THEOREM AnnouncedAfterClientHolds == ConnectionSpec => []AnnouncedAfterClient
BY ConnectionStarts, ConnectionStep, ConnectionInvImplies, PTL DEF ConnectionSpec

\* An application hears of the end of its connection once and nothing after
\* it: the task or the entry of the table is gone with the word.
THEOREM NothingAfterEndHolds == ConnectionSpec => []NothingAfterEnd
BY ConnectionStarts, ConnectionStep, ConnectionInvImplies, PTL DEF ConnectionSpec

\* No step opens a client's session that was closed.
THEOREM ClosedIsFinalHolds == ConnectionSpec => ClosedIsFinal
<1>1. ConnectionInv /\ [ConnectionNext]_connectionVars
        => [session["client"].state = "Closed"
                => session'["client"].state = "Closed"]_connectionVars
    BY ConnectionStep DEF ClosedStays
<1> QED BY ConnectionStarts, ConnectionStep, <1>1, PTL DEF ConnectionSpec, ClosedIsFinal
=============================================================================
