-------------------------- MODULE OfflineHandshake --------------------------
(***************************************************************************)
(* How a RakNet connection begins: clients probe MTU sizes with            *)
(* OpenConnectionRequest1, the listener answers with a cookie and keeps a  *)
(* pending entry, the client returns the cookie in OpenConnectionRequest2  *)
(* and the listener creates the session.  One listener, several clients,   *)
(* each with a socket of its own, and datagrams that are lost, late or     *)
(* repeated.                                                               *)
(*                                                                         *)
(* A datagram of this phase never decodes as a datagram of a session: the  *)
(* magic makes the length of its first packet 8160 bytes, more than it     *)
(* has.  A session is therefore untouched by them, and what happens in it  *)
(* once the handshake is over is reduced to SessionOpens and SessionEnds   *)
(* (see Connection).  A cookie is its first byte and a serial number: it   *)
(* is a hash of the address and the time in nanoseconds, taken to differ   *)
(* at every request.  The clients speak the listener's protocol version.   *)
(***************************************************************************)
EXTENDS Integers, Sequences, FiniteSets, Functions

CONSTANTS
    Peers,                      \* addresses of the clients
    V6Peers,                    \* those the listener sees as IPv6 addresses
    HANDSHAKE_RETRIES,          \* receptions per probe
    FirstBytes,                 \* first bytes of the hashes
    max_connections,
    max_pending_connections,
    max_mtu,
    MaxIncidents                \* bound: losses, repetitions and late events

ASSUME PeersAssumption == IsFiniteSet(Peers) /\ V6Peers \subseteq Peers
ASSUME LimitsAssumption ==
    /\ max_connections \in Nat /\ max_pending_connections \in Nat
    /\ max_connections + max_pending_connections > 0
\* A byte is a byte; a probe is followed by one reception at least.
ASSUME BytesAssumption == FirstBytes \subseteq 0 .. 255
ASSUME RetriesAssumption == HANDSHAKE_RETRIES \in Nat \ {0} /\ MaxIncidents \in Nat

MINIMUM_MTU_SIZE == 576
MAXIMUM_MTU_SIZE == 1400
\* The sizes a client probes, in this order.
MTU_SIZES == <<1200, MAXIMUM_MTU_SIZE, MINIMUM_MTU_SIZE>>

\* clamp panics when max_mtu is below the minimum.
ASSUME MtuAssumption == max_mtu \in MINIMUM_MTU_SIZE .. 65535

VARIABLES
    phase,      \* of perform_offline_handshake: probe, wait1, wait2, done, failed
    probe,      \* index of the MTU size being probed
    attempts,   \* receptions used up for this probe
    mtu_final,  \* what the client negotiated, 0 before
    sessions,   \* the listener's table: peer -> mtu, connected, cookie
    pending,    \* the listener's table: peer -> mtu, cookie, expired
    accepted,   \* peers whose stream the listener's application holds
    serial,     \* cookies generated
    net,        \* datagrams under way
    incidents,
    refused     \* history: peers turned away for want of room

clientVars == <<phase, probe, attempts, mtu_final>>
tableVars == <<sessions, pending, accepted, serial, refused>>
vars == <<clientVars, tableVars, net, incidents>>

-----------------------------------------------------------------------------
(* Datagrams *)

\* The cookie of a request without one.
NoCookie == <<>>

Request1(p, padding) == [type |-> "request1", peer |-> p, padding |-> padding]
Reply1(p, cookie, mtu) == [type |-> "reply1", peer |-> p, cookie |-> cookie, mtu |-> mtu]
Request2(p, cookie, mtu) == [type |-> "request2", peer |-> p, cookie |-> cookie, mtu |-> mtu]
Reply2(p, mtu) == [type |-> "reply2", peer |-> p, mtu |-> mtu]
NoFree(p) == [type |-> "no_free", peer |-> p]
AlreadyConnected(p) == [type |-> "already_connected", peer |-> p]

\* OpenConnectionRequest2 has no flag for its cookie: what follows the magic is
\* an address, and the cookie None, when it starts with the address version 4
\* (with 6 the address is too short and the request is not decoded at all).
DecodedCookie(cookie) ==
    IF cookie = NoCookie \/ Head(cookie) \in {4, 6} THEN NoCookie ELSE cookie

\* Mutant: a cookie may start like an address.
GenerateCookieUnguarded(first) == <<first, serial + 1>>

\* Mutant: the cookie depends on the address alone.
GenerateCookieOfAddress(first) == <<5, 1>>

generate_cookie(first) == <<IF first \in {4, 6} THEN first + 1 ELSE first, serial + 1>>

\* Mutant: no upper limit.
ClampBelow(v, min, max) == IF v < min THEN min ELSE v

clamp_mtu(v, min, max) == IF v < min THEN min ELSE IF v > max THEN max ELSE v

\* The size of the whole IP packet that carried a probe, as a u16.
mtu_guess(m) ==
    LET ip_header == IF m.peer \in V6Peers THEN 40 ELSE 20
    IN  (m.padding + 1 + 16 + 1 + ip_header + 8) % 65536

Minimum(a, b) == IF a < b THEN a ELSE b

\* HashMap::insert, in the place of an entry the peer may have.
Insert(table, p, entry) == [q \in DOMAIN table \cup {p} |-> IF q = p THEN entry ELSE table[q]]

-----------------------------------------------------------------------------
(* The network.  A datagram is taken from it once, or again as an incident. *)

Incident == incidents < MaxIncidents /\ incidents' = incidents + 1

Take(m, answers) ==
    \/ net' = (net \ {m}) \cup answers /\ UNCHANGED incidents
    \/ net' = net \cup answers /\ Incident

Lose ==
    /\ \E m \in net : net' = net \ {m}
    /\ Incident
    /\ UNCHANGED <<clientVars, tableVars>>

\* No datagram from or to p is under way.
Quiet(p) == \A m \in net : m.peer # p

\* A timeout that fires while an answer may still come is an incident.
TimeoutOf(p) == (Quiet(p) /\ UNCHANGED incidents) \/ (~Quiet(p) /\ Incident)

-----------------------------------------------------------------------------
(* The client: perform_offline_handshake *)

\* socket.send_to succeeds, or fails and the next size is tried.
Probe(p) ==
    /\ phase[p] = "probe"
    /\ IF probe[p] > Len(MTU_SIZES)
       THEN phase' = [phase EXCEPT ![p] = "failed"] /\ UNCHANGED <<probe, attempts, net, incidents>>
       ELSE \/ /\ net' = net \cup {Request1(p, MTU_SIZES[probe[p]] - 46)}
               /\ phase' = [phase EXCEPT ![p] = "wait1"]
               /\ attempts' = [attempts EXCEPT ![p] = 0]
               /\ UNCHANGED <<probe, incidents>>
            \/ /\ probe' = [probe EXCEPT ![p] = @ + 1]
               /\ Incident
               /\ UNCHANGED <<phase, attempts, net>>
    /\ UNCHANGED <<mtu_final, tableVars>>

\* A reception that brought no reply; the last one moves on to the next size.
UseAttempt(p) ==
    /\ attempts' = [attempts EXCEPT ![p] = @ + 1]
    /\ IF attempts[p] + 1 < HANDSHAKE_RETRIES
       THEN UNCHANGED <<phase, probe>>
       ELSE /\ phase' = [phase EXCEPT ![p] = "probe"]
            /\ probe' = [probe EXCEPT ![p] = @ + 1]
    /\ UNCHANGED mtu_final

Reply1Timeout(p) ==
    /\ phase[p] = "wait1"
    /\ UseAttempt(p)
    /\ TimeoutOf(p)
    /\ UNCHANGED <<tableVars, net>>

Reply1Ignored(p, m) ==
    /\ phase[p] = "wait1" /\ m.peer = p /\ m.type \notin {"request1", "request2", "reply1"}
    /\ UseAttempt(p)
    /\ Take(m, {})
    /\ UNCHANGED tableVars

\* A datagram of someone else uses up a reception too.
Reply1Stranger(p) ==
    /\ phase[p] = "wait1"
    /\ UseAttempt(p)
    /\ Incident
    /\ UNCHANGED <<tableVars, net>>

Negotiated(used, server) ==
    Minimum(clamp_mtu(used, MINIMUM_MTU_SIZE, MAXIMUM_MTU_SIZE), server)

\* The reply need not be to this probe: an earlier one may be answered late.
Reply1Received(p, m) ==
    /\ phase[p] = "wait1" /\ m.peer = p /\ m.type = "reply1"
    /\ LET final == Negotiated(MTU_SIZES[probe[p]], m.mtu)
       IN  /\ mtu_final' = [mtu_final EXCEPT ![p] = final]
           /\ Take(m, {Request2(p, m.cookie, final)})
    /\ phase' = [phase EXCEPT ![p] = "wait2"]
    /\ UNCHANGED <<probe, attempts, tableVars>>

\* Encoding or sending the second request fails, and the handshake with it.
Request2Fails(p, m) ==
    /\ phase[p] = "wait1" /\ m.peer = p /\ m.type = "reply1"
    /\ phase' = [phase EXCEPT ![p] = "failed"]
    /\ net' = net \ {m}
    /\ Incident
    /\ UNCHANGED <<probe, attempts, mtu_final, tableVars>>

\* A datagram that is not the reply, like one of someone else, leaves no trace:
\* the 2 s begin again.
Reply2Ignored(p, m) ==
    /\ phase[p] = "wait2" /\ m.peer = p /\ m.type \notin {"request1", "request2", "reply2"}
    /\ Take(m, {})
    /\ UNCHANGED <<clientVars, tableVars>>

\* The MTU of the reply is not looked at.
Reply2Received(p, m) ==
    /\ phase[p] = "wait2" /\ m.peer = p /\ m.type = "reply2"
    /\ phase' = [phase EXCEPT ![p] = "done"]
    /\ Take(m, {})
    /\ UNCHANGED <<probe, attempts, mtu_final, tableVars>>

Reply2Timeout(p) ==
    /\ phase[p] = "wait2"
    /\ phase' = [phase EXCEPT ![p] = "failed"]
    /\ TimeoutOf(p)
    /\ UNCHANGED <<probe, attempts, mtu_final, tableVars, net>>

\* Mutant: the second wait has no timeout.
ClientStepPatient(p) ==
    \/ Probe(p)
    \/ Reply1Timeout(p)
    \/ \E m \in net : Reply1Ignored(p, m) \/ Reply1Received(p, m)
    \/ \E m \in net : Reply2Ignored(p, m) \/ Reply2Received(p, m)

ClientStep(p) ==
    \/ Probe(p)
    \/ Reply1Timeout(p)
    \/ \E m \in net : Reply1Ignored(p, m) \/ Reply1Received(p, m)
    \/ \E m \in net : Reply2Ignored(p, m) \/ Reply2Received(p, m)
    \/ Reply2Timeout(p)

-----------------------------------------------------------------------------
(* The listener: handle_offline.  Every call first drops expired entries. *)

Unexpired == {p \in DOMAIN pending : ~pending[p].expired}
Retained == Restrict(pending, Unexpired)

Request1NoFree(m) ==
    /\ m.type = "request1"
    /\ Cardinality(DOMAIN sessions) >= max_connections
    /\ Take(m, {NoFree(m.peer)})
    /\ pending' = Retained
    /\ refused' = refused \cup {m.peer}
    /\ UNCHANGED <<clientVars, sessions, accepted, serial>>

\* No answer, even to a peer that is pending already.
Request1Dropped(m) ==
    /\ m.type = "request1"
    /\ Cardinality(DOMAIN sessions) < max_connections
    /\ Cardinality(Unexpired) >= max_pending_connections
    /\ Take(m, {})
    /\ pending' = Retained
    /\ refused' = refused \cup {m.peer}
    /\ UNCHANGED <<clientVars, sessions, accepted, serial>>

\* Mutant: only the pending table is limited.
RoomPendingOnly == Cardinality(Unexpired) < max_pending_connections

Room ==
    /\ Cardinality(DOMAIN sessions) < max_connections
    /\ Cardinality(Unexpired) < max_pending_connections

Request1Accepted(m) ==
    /\ m.type = "request1"
    /\ Room
    /\ \E first \in FirstBytes :
         LET mtu == clamp_mtu(mtu_guess(m), MINIMUM_MTU_SIZE, max_mtu)
             cookie == generate_cookie(first)
         IN  /\ pending' = Insert(Retained, m.peer, [mtu |-> mtu, cookie |-> cookie, expired |-> FALSE])
             /\ Take(m, {Reply1(m.peer, cookie, mtu)})
    /\ serial' = serial + 1
    /\ UNCHANGED <<clientVars, sessions, accepted, refused>>

\* Nothing pending: the reply is sent again if there is a session.
Request2Unknown(m) ==
    /\ m.type = "request2" /\ m.peer \notin Unexpired
    /\ Take(m, IF m.peer \in DOMAIN sessions THEN {Reply2(m.peer, sessions[m.peer].mtu)} ELSE {})
    /\ pending' = Retained
    /\ UNCHANGED <<clientVars, sessions, accepted, serial, refused>>

CookieMatches(m) == DecodedCookie(m.cookie) = pending[m.peer].cookie

\* The entry is gone whether or not the cookie is right.
Request2Mismatch(m) ==
    /\ m.type = "request2" /\ m.peer \in Unexpired /\ ~CookieMatches(m)
    /\ Take(m, {})
    /\ pending' = Restrict(pending, Unexpired \ {m.peer})
    /\ UNCHANGED <<clientVars, sessions, accepted, serial, refused>>

\* Mutant: the session takes the size of the entry.
SessionMtuOfEntry(m) == pending[m.peer].mtu

SessionMtu(m) == Minimum(pending[m.peer].mtu, m.mtu)

\* The request of a client that sends a size out of range is refused.
InRange(m) == m.mtu \in MINIMUM_MTU_SIZE .. MAXIMUM_MTU_SIZE

\* sessions.insert replaces whatever session the peer had.
Request2Accepted(m) ==
    /\ m.type = "request2" /\ m.peer \in Unexpired /\ CookieMatches(m)
    /\ pending' = Restrict(pending, Unexpired \ {m.peer})
    /\ IF InRange(m)
       THEN /\ sessions' = Insert(sessions, m.peer, [mtu |-> SessionMtu(m), connected |-> FALSE,
                                                     cookie |-> pending[m.peer].cookie])
            /\ Take(m, {Reply2(m.peer, SessionMtu(m))})
       ELSE Take(m, {AlreadyConnected(m.peer)}) /\ UNCHANGED sessions
    /\ UNCHANGED <<clientVars, accepted, serial, refused>>

ListenerStep ==
    \E m \in net :
        \/ Request1NoFree(m) \/ Request1Dropped(m)
        \/ Request1Accepted(m)
        \/ Request2Unknown(m) \/ Request2Mismatch(m) \/ Request2Accepted(m)

\* An unconnected ping, or a request with another protocol version, of anyone:
\* answered without a trace, except that expired entries go.
Ping ==
    /\ DOMAIN pending # Unexpired
    /\ pending' = Retained
    /\ UNCHANGED <<clientVars, sessions, accepted, serial, refused, net, incidents>>

\* Ten seconds: longer than a handshake without delays.
Expire(p) ==
    /\ p \in Unexpired
    /\ pending' = [pending EXCEPT ![p].expired = TRUE]
    /\ IF phase[p] \in {"done", "failed"} THEN UNCHANGED incidents ELSE Incident
    /\ UNCHANGED <<clientVars, sessions, accepted, serial, refused, net>>

-----------------------------------------------------------------------------
(* The life of a session after the handshake, in outline *)

\* The online handshake of a client that got this far; the stream is announced.
SessionOpens(p) ==
    /\ phase[p] = "done" /\ p \in DOMAIN sessions
    /\ sessions[p].cookie # NoCookie /\ ~sessions[p].connected
    /\ sessions' = [sessions EXCEPT ![p].connected = TRUE]
    /\ accepted' = accepted \cup {p}
    /\ UNCHANGED <<clientVars, pending, serial, refused, net, incidents>>

\* The session of a connected peer times out or is closed and leaves the table.
\* Sessions that are not connected have no timeout.
SessionEnds(p) ==
    /\ p \in DOMAIN sessions /\ sessions[p].connected
    /\ sessions' = Restrict(sessions, DOMAIN sessions \ {p})
    /\ UNCHANGED <<clientVars, pending, accepted, serial, refused, net, incidents>>

\* The application sends on a stream whose session has gone: a session is
\* created for the message, with the listener's own MTU and no handshake.
SendAfterEnd(p) ==
    /\ p \in accepted /\ p \notin DOMAIN sessions
    /\ sessions' = Insert(sessions, p, [mtu |-> max_mtu, connected |-> FALSE, cookie |-> NoCookie])
    /\ UNCHANGED <<clientVars, pending, accepted, serial, refused, net, incidents>>

-----------------------------------------------------------------------------
Init ==
    /\ phase = [p \in Peers |-> "probe"]
    /\ probe = [p \in Peers |-> 1]
    /\ attempts = [p \in Peers |-> 0]
    /\ mtu_final = [p \in Peers |-> 0]
    /\ sessions = <<>> /\ pending = <<>> /\ accepted = {} /\ serial = 0
    /\ net = {} /\ incidents = 0 /\ refused = {}

\* What goes wrong at the client's socket.
ClientMishap(p) ==
    \/ Reply1Stranger(p)
    \/ \E m \in net : Request2Fails(p, m)

Next ==
    \/ \E p \in Peers : ClientStep(p)
    \/ \E p \in Peers : ClientMishap(p)
    \/ ListenerStep
    \/ Lose
    \/ Ping
    \/ \E p \in Peers : Expire(p)
    \/ \E p \in Peers : SessionOpens(p) \/ SessionEnds(p) \/ SendAfterEnd(p)

\* A client goes on as long as it waits for something or a timer runs, which for
\* the second wait assumes that datagrams of others, each of which starts its
\* 2 s again, stop coming; the listener's loop handles what arrives.
Spec ==
    /\ Init /\ [][Next]_vars
    /\ \A p \in Peers : WF_vars(ClientStep(p))
    /\ WF_vars(ListenerStep)

-----------------------------------------------------------------------------
(* Properties *)

Cookies == (0 .. 255) \X (1 .. serial)

(* The tables hold clamped sizes and cookies that were generated, and the     *)
(* pending table never exceeds max_pending_connections.                       *)
OfflineTypeOK ==
    /\ phase \in [Peers -> {"probe", "wait1", "wait2", "done", "failed"}]
    /\ \A p \in Peers : probe[p] \in 1 .. Len(MTU_SIZES) + 1 /\ attempts[p] \in 0 .. HANDSHAKE_RETRIES
    /\ \A p \in DOMAIN pending : /\ pending[p].mtu \in MINIMUM_MTU_SIZE .. max_mtu
                                 /\ pending[p].cookie \in Cookies
    /\ \A p \in DOMAIN sessions : /\ sessions[p].mtu \in MINIMUM_MTU_SIZE .. 65535
                                  /\ sessions[p].cookie \in Cookies \cup {NoCookie}
    /\ Cardinality(DOMAIN pending) <= max_pending_connections

(* A client that has finished the handshake and the session the handshake     *)
(* created for it use the same MTU, whichever probe was answered, however     *)
(* late, and whichever address family the listener saw: perform_offline_      *)
(* handshake ignores the MTU of the second reply.                             *)
MtuAgreed ==
    \A p \in DOMAIN sessions :
        phase[p] = "done" /\ sessions[p].cookie # NoCookie => sessions[p].mtu = mtu_final[p]

(* Requests that arrive late or again never replace the session of a client   *)
(* that has finished its handshake, although sessions.insert would: the entry *)
(* they create has a cookie the client never returns.                         *)
SessionStable ==
    [][\A p \in DOMAIN sessions \cap DOMAIN sessions' :
          phase[p] = "done" /\ sessions[p].cookie # NoCookie
              => /\ sessions'[p].cookie = sessions[p].cookie
                 /\ sessions[p].connected => sessions'[p].connected]_vars

\* The sessions a handshake created.
Admitted == {p \in DOMAIN sessions : sessions[p].cookie # NoCookie}

(* max_connections is checked when an entry becomes pending, not when it      *)
(* becomes a session: what the two limits together guarantee is that admitted *)
(* sessions and pending entries stay below their sum.                         *)
AdmissionBound ==
    Cardinality(Admitted) + Cardinality(DOMAIN pending)
        < max_connections + max_pending_connections

(* A client fails only if a datagram was lost, repeated or late, a timer ran  *)
(* out early, or the listener turned it away: a handshake in which all goes   *)
(* well succeeds, cookies and MTUs of every kind included.                    *)
FailsForAReason ==
    \A p \in Peers : phase[p] = "failed" => incidents > 0 \/ p \in refused

(* perform_offline_handshake returns, whatever is lost, repeated, late or      *)
(* refused, and whatever it is sent while it waits, as long as datagrams do    *)
(* not keep coming less than 2 s apart: the second wait starts its timer again *)
(* with each.                                                                  *)
HandshakeEnds == \A p \in Peers : <>(phase[p] \in {"done", "failed"})

(* "Maximum number of concurrent connections allowed." (listener.rs:36):      *)
(* not what the code does, as a request may be pending when the table fills.  *)
MaxConnections == Cardinality(DOMAIN sessions) <= max_connections
=============================================================================
