---------------------------- MODULE LanSignaling ----------------------------
(***************************************************************************)
(* LAN discovery and signalling between one client and one server: the     *)
(* table of addresses that age and expire, the discovery request and       *)
(* response, the signals carried in message packets, and the bounded       *)
(* broadcast channel that hands them to a subscriber.                      *)
(*                                                                         *)
(* Encryption, checksums and the text form of a signal are left out: a     *)
(* packet is what it decodes to.  UDP may lose, duplicate and reorder; the *)
(* number of losses, duplicates and expiries is bounded by MaxIncidents.   *)
(***************************************************************************)
EXTENDS Naturals, Sequences

CONSTANTS
    SignalCapacity,     \* of the broadcast channel, 100 in the code
    MaxRequests,        \* bound: discovery requests
    MaxIncidents        \* bound: losses, duplicates, expiries and other mishaps

ASSUME SignalCapacityAssumption == SignalCapacity \in Nat \ {0}
ASSUME BoundsAssumption == MaxRequests \in Nat /\ MaxIncidents \in Nat

VARIABLES
    net,            \* packets on their way
    address,        \* per node: the other's AddressEntry: none, fresh or old
    server_data,    \* server: whether pong data is set
    discovered,     \* client: discovered_servers holds the server
    subscribed,     \* per node: whether it has called signals()
    signals,        \* per node: signals its subscriber has not taken
    requests,       \* client: discovery requests so far
    lagged,         \* history: a subscriber has missed a signal
    incidents       \* incidents so far

lanVars == <<net, address, server_data, discovered, subscribed, signals, requests, lagged, incidents>>

Nodes == {"client", "server"}
Other(n) == IF n = "client" THEN "server" ELSE "client"

Packet(to, id, content) == [to |-> to, id |-> id, content |-> content]
Signal(type, data) == [type |-> type, data |-> data]
None == Signal("None", 0)

\* The three kinds of packet.  Only the client asks; a response is to whoever did.
RequestPacket == Packet("server", "request", None)
ResponsePacket(to) == Packet(to, "response", None)
MessagePacket(to, signal) == Packet(to, "message", signal)

Incident == incidents < MaxIncidents /\ incidents' = incidents + 1

-----------------------------------------------------------------------------
(* Signaling for LanSignaling *)

\* signal(): an error without an address for the network id.
CanSignal(n) == address[n] # "none"

\* The network once n has signalled s.
Signalled(n, s) == net \cup {MessagePacket(Other(n), s)}

\* Mutant: no limit.
BroadcastUnlimited(n, s) == IF subscribed[n] THEN Append(signals[n], s) ELSE signals[n]

\* The subscriber's queue once s is broadcast: the oldest signal gives way.
Broadcast(n, s) ==
    IF ~subscribed[n] THEN signals[n]
    ELSE IF Len(signals[n]) < SignalCapacity THEN Append(signals[n], s)
    ELSE Append(Tail(signals[n]), s)

Lags(n) == subscribed[n] /\ Len(signals[n]) = SignalCapacity

-----------------------------------------------------------------------------
(* The background task *)

\* handle_packet: the sender's address first, whatever the packet is.
HandlePacket(p) ==
    /\ address' = [address EXCEPT ![p.to] = "fresh"]
    /\ discovered' = (discovered \/ p.id = "response")
    /\ signals' = IF p.id = "message" THEN [signals EXCEPT ![p.to] = Broadcast(p.to, p.content)] ELSE signals
    /\ lagged' = (lagged \/ (p.id = "message" /\ Lags(p.to)))
    /\ UNCHANGED <<server_data, subscribed, requests>>

\* What the node answers: a request is answered once pong data is set.
Answers(p) ==
    IF p.id = "request" /\ server_data THEN {ResponsePacket(Other(p.to))} ELSE {}

Deliver(p) ==
    /\ p \in net
    /\ HandlePacket(p)
    /\ net' = (net \ {p}) \cup Answers(p)
    /\ UNCHANGED incidents

\* The network delivers a packet and keeps a copy of it.
Duplicate(p) ==
    /\ p \in net /\ Incident
    /\ HandlePacket(p)
    /\ net' = net \cup Answers(p)

Lose(p) ==
    /\ p \in net /\ Incident
    /\ net' = net \ {p}
    /\ UNCHANGED <<address, server_data, discovered, subscribed, signals, requests, lagged>>

\* The client's interval tick: cleanup, then the broadcast request.
ClientInterval ==
    /\ \/ /\ requests < MaxRequests
          /\ requests' = requests + 1
          /\ net' = net \cup {RequestPacket}
       \/ address["client"] = "old" /\ requests = MaxRequests /\ UNCHANGED <<requests, net>>
    /\ address' = [address EXCEPT !["client"] = IF @ = "old" THEN "none" ELSE @]
    /\ UNCHANGED <<server_data, discovered, subscribed, signals, lagged, incidents>>

\* The server listens on LAN_DISCOVERY_PORT and broadcasts nothing.
ServerInterval ==
    /\ address["server"] = "old"
    /\ address' = [address EXCEPT !["server"] = "none"]
    /\ UNCHANGED <<net, server_data, discovered, subscribed, signals, requests, lagged, incidents>>

\* ADDRESS_TIMEOUT passes without a packet from the other.
Age(n) ==
    /\ address[n] = "fresh" /\ Incident
    /\ address' = [address EXCEPT ![n] = "old"]
    /\ UNCHANGED <<net, server_data, discovered, subscribed, signals, requests, lagged>>

\* Data that does not parse unsets it.
set_pong_data ==
    /\ Incident
    /\ server_data' = ~server_data
    /\ UNCHANGED <<net, address, discovered, subscribed, signals, requests, lagged>>

LanInit ==
    /\ net = {}
    /\ address = [n \in Nodes |-> "none"]
    /\ server_data \in BOOLEAN /\ discovered = FALSE
    /\ subscribed = [n \in Nodes |-> FALSE]
    /\ signals = [n \in Nodes |-> <<>>]
    /\ requests = 0 /\ lagged = FALSE /\ incidents = 0

LanStep ==
    \/ \E p \in net : Deliver(p) \/ Duplicate(p) \/ Lose(p)
    \/ ClientInterval
    \/ ServerInterval
    \/ \E n \in Nodes : Age(n)
    \/ set_pong_data
=============================================================================
