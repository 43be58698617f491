----------------------- MODULE OfflineHandshakeProofs -----------------------
(***************************************************************************)
(* The offline handshake, for every set of peers, every pair of limits,    *)
(* every max_mtu and every order of requests: the admission bound, the     *)
(* types, that both ends agree on the MTU, that no late request replaces   *)
(* a session, and that a handshake fails only for a reason.                *)
(***************************************************************************)
EXTENDS OfflineHandshake, FiniteSetTheorems, TLAPS

\* Both tables and the datagrams under way are about peers, so they are finite.
OfPeers ==
    /\ \A m \in net : m.peer \in Peers
    /\ DOMAIN sessions \subseteq Peers
    /\ DOMAIN pending \subseteq Peers

AdmissionInv == OfPeers /\ AdmissionBound

\* The size of the table of handshake sessions, and of a table of pending
\* entries, as numbers.
Size(admitted, waiting) == Cardinality(admitted) + Cardinality(waiting)

-----------------------------------------------------------------------------
\* Sets of peers have a size.
LEMMA SizeOfSubsets ==
    ASSUME NEW S, NEW T, S \subseteq Peers, T \subseteq Peers
    PROVE  /\ IsFiniteSet(S) /\ IsFiniteSet(T)
           /\ Cardinality(S) \in Nat /\ Cardinality(T) \in Nat
BY PeersAssumption, FS_Subset, FS_CardinalityType

\* Fewer entries make the sum no larger.
LEMMA SizeShrinks ==
    ASSUME NEW S, NEW T, NEW U, NEW V,
           S \subseteq Peers, T \subseteq Peers, U \subseteq S, V \subseteq T
    PROVE  Size(U, V) <= Size(S, T)
<1>1. IsFiniteSet(S) /\ IsFiniteSet(T)
    BY SizeOfSubsets
<1>2. Cardinality(U) <= Cardinality(S) /\ Cardinality(V) <= Cardinality(T)
    BY <1>1, FS_Subset
<1>3. /\ Cardinality(S) \in Nat /\ Cardinality(T) \in Nat
      /\ Cardinality(U) \in Nat /\ Cardinality(V) \in Nat
    BY SizeOfSubsets
<1> QED BY <1>2, <1>3 DEF Size

\* One element more makes a set larger by one at most.
LEMMA SizeOfOneMore ==
    ASSUME NEW S, NEW p, S \subseteq Peers, p \in Peers
    PROVE  Cardinality(S \cup {p}) <= Cardinality(S) + 1
<1>1. IsFiniteSet(S) /\ Cardinality(S) \in Nat
    BY SizeOfSubsets
<1>2. CASE p \in S
    BY <1>1, <1>2, S \cup {p} = S
<1>3. CASE p \notin S
    <2>1. Cardinality(S \cup {p}) = Cardinality(S) + 1
        BY <1>1, <1>3, FS_AddElement
    <2> QED BY <1>1, <2>1
<1> QED BY <1>2, <1>3

\* A pending entry that becomes a session leaves the sum as it is, at most.
LEMMA SizeMoves ==
    ASSUME NEW S, NEW T, NEW p, S \subseteq Peers, T \subseteq Peers, p \in T
    PROVE  Size(S \cup {p}, T \ {p}) <= Size(S, T)
<1>1. IsFiniteSet(T) /\ Cardinality(T) \in Nat /\ Cardinality(S) \in Nat
    BY SizeOfSubsets
<1>2. Cardinality(T \ {p}) = Cardinality(T) - 1
    BY <1>1, FS_RemoveElement
<1>3. Cardinality(S \cup {p}) <= Cardinality(S) + 1
    BY SizeOfOneMore
<1>4. Cardinality(S \cup {p}) \in Nat
    BY S \cup {p} \subseteq Peers, SizeOfSubsets
<1> QED BY <1>1, <1>2, <1>3, <1>4 DEF Size

\* AdmissionBound, in the next state, from a sum that does not grow.
LEMMA BoundKept ==
    ASSUME NEW S, NEW T, S \subseteq Peers, T \subseteq Peers,
           AdmissionInv, Size(S, T) <= Size(Admitted, DOMAIN pending)
    PROVE  Size(S, T) < max_connections + max_pending_connections
<1>1. Admitted \subseteq Peers /\ DOMAIN pending \subseteq Peers
    BY DEF AdmissionInv, OfPeers, Admitted
<1>2. /\ Cardinality(S) \in Nat /\ Cardinality(T) \in Nat
      /\ Cardinality(Admitted) \in Nat /\ Cardinality(DOMAIN pending) \in Nat
    BY <1>1, SizeOfSubsets
<1>3. Cardinality(Admitted) + Cardinality(DOMAIN pending) < max_connections + max_pending_connections
    BY DEF AdmissionInv, AdmissionBound
<1> QED BY <1>2, <1>3, LimitsAssumption DEF Size

\* A step that leaves the sessions of the handshake and removes pending
\* entries at most.
LEMMA FewerEntries ==
    ASSUME AdmissionInv,
           DOMAIN sessions' \subseteq Peers, Admitted' \subseteq Admitted,
           DOMAIN pending' \subseteq DOMAIN pending
    PROVE  AdmissionBound'
<1>1. Admitted \subseteq Peers /\ DOMAIN pending \subseteq Peers
    BY DEF AdmissionInv, OfPeers, Admitted
<1>2. Size(Admitted', DOMAIN pending') <= Size(Admitted, DOMAIN pending)
    BY <1>1, SizeShrinks
<1>3. Size(Admitted', DOMAIN pending') < max_connections + max_pending_connections
    BY <1>1, <1>2, BoundKept
<1> QED BY <1>3 DEF AdmissionBound, Size

\* Answers go to the peer of what they answer, so datagrams stay about peers.
LEMMA TakeOfPeers ==
    ASSUME NEW m \in net, NEW answers, OfPeers, Take(m, answers),
           \A a \in answers : a.peer = m.peer
    PROVE  \A d \in net' : d.peer \in Peers
BY DEF OfPeers, Take

-----------------------------------------------------------------------------
\* pending.retain keeps the entries that have not expired.
LEMMA RetainedDomain ==
    /\ DOMAIN Retained = Unexpired
    /\ Unexpired \subseteq DOMAIN pending
BY DEF Retained, Restrict, Unexpired

\* A first request: turned away, or one entry more where there is room for it.
LEMMA Request1Steps ==
    ASSUME AdmissionInv, NEW m \in net, Request1NoFree(m) \/ Request1Dropped(m) \/ Request1Accepted(m)
    PROVE  AdmissionInv'
<1>1. m.peer \in Peers /\ OfPeers
    BY DEF AdmissionInv, OfPeers
<1>2. CASE Request1NoFree(m) \/ Request1Dropped(m)
    <2>1. sessions' = sessions /\ pending' = Retained
        BY <1>2 DEF Request1NoFree, Request1Dropped
    <2>2. \A d \in net' : d.peer \in Peers
        <3>1. (NoFree(m.peer)).peer = m.peer
            BY DEF NoFree
        <3>2. Take(m, {NoFree(m.peer)}) \/ Take(m, {})
            BY <1>2 DEF Request1NoFree, Request1Dropped
        <3> QED BY <1>1, <3>1, <3>2, TakeOfPeers
    <2>3. Admitted' = Admitted
        BY <2>1 DEF Admitted
    <2>4. DOMAIN pending' \subseteq DOMAIN pending
        BY <2>1, RetainedDomain
    <2>5. OfPeers'
        BY <1>1, <2>1, <2>2, <2>4 DEF OfPeers
    <2>6. DOMAIN sessions' \subseteq Peers
        BY <2>5 DEF OfPeers
    <2>7. AdmissionBound'
        BY <2>3, <2>4, <2>6, FewerEntries
    <2> QED BY <2>5, <2>7 DEF AdmissionInv
<1>3. CASE Request1Accepted(m)
    <2>1. PICK mtu, cookie :
            /\ pending' = Insert(Retained, m.peer, [mtu |-> mtu, cookie |-> cookie, expired |-> FALSE])
            /\ Take(m, {Reply1(m.peer, cookie, mtu)})
        BY <1>3 DEF Request1Accepted
    <2>2. sessions' = sessions /\ Room
        BY <1>3 DEF Request1Accepted
    <2>3. DOMAIN pending' = Unexpired \cup {m.peer}
        BY <2>1, RetainedDomain DEF Insert
    <2>4. \A d \in net' : d.peer \in Peers
        <3>1. (Reply1(m.peer, cookie, mtu)).peer = m.peer
            BY DEF Reply1
        <3> QED BY <1>1, <2>1, <3>1, TakeOfPeers
    <2>5. OfPeers'
        BY <1>1, <2>2, <2>3, <2>4, RetainedDomain DEF OfPeers
    <2>6. Admitted' = Admitted
        BY <2>2 DEF Admitted
    <2>7. Admitted \subseteq DOMAIN sessions /\ DOMAIN sessions \subseteq Peers /\ Unexpired \subseteq Peers
        BY <1>1, RetainedDomain DEF Admitted, OfPeers
    <2>8. Cardinality(Admitted) <= Cardinality(DOMAIN sessions)
        BY <2>7, SizeOfSubsets, FS_Subset
    <2>9. Cardinality(Unexpired \cup {m.peer}) <= Cardinality(Unexpired) + 1
        BY <1>1, <2>7, SizeOfOneMore
    <2>10. /\ Cardinality(Admitted) \in Nat /\ Cardinality(DOMAIN sessions) \in Nat
           /\ Cardinality(Unexpired) \in Nat /\ Cardinality(Unexpired \cup {m.peer}) \in Nat
        BY <1>1, <2>7, SizeOfSubsets, Admitted \subseteq Peers, Unexpired \cup {m.peer} \subseteq Peers
    <2>11. Cardinality(DOMAIN sessions) < max_connections /\ Cardinality(Unexpired) < max_pending_connections
        BY <2>2 DEF Room
    <2>12. Cardinality(Admitted) + Cardinality(Unexpired \cup {m.peer}) < max_connections + max_pending_connections
        BY <2>8, <2>9, <2>10, <2>11, LimitsAssumption
    <2> QED BY <2>3, <2>5, <2>6, <2>12 DEF AdmissionInv, AdmissionBound
<1> QED BY <1>2, <1>3

\* A second request takes its entry away, and makes a session of it at most.
LEMMA Request2Steps ==
    ASSUME AdmissionInv, NEW m \in net, Request2Unknown(m) \/ Request2Mismatch(m) \/ Request2Accepted(m)
    PROVE  AdmissionInv'
<1>1. m.peer \in Peers /\ OfPeers
    BY DEF AdmissionInv, OfPeers
<1>2. CASE Request2Unknown(m) \/ Request2Mismatch(m)
    <2>1. sessions' = sessions
        BY <1>2 DEF Request2Unknown, Request2Mismatch
    <2>2. DOMAIN pending' \subseteq DOMAIN pending
        BY <1>2, RetainedDomain DEF Request2Unknown, Request2Mismatch, Restrict
    <2>3. \A d \in net' : d.peer \in Peers
        <3>1. \A mtu : (Reply2(m.peer, mtu)).peer = m.peer
            BY DEF Reply2
        <3>2. Take(m, {}) \/ \E mtu : Take(m, {Reply2(m.peer, mtu)})
            BY <1>2 DEF Request2Unknown, Request2Mismatch
        <3>3. CASE Take(m, {})
            BY <1>1, <3>3, TakeOfPeers
        <3>4. ASSUME NEW mtu, Take(m, {Reply2(m.peer, mtu)}) PROVE \A d \in net' : d.peer \in Peers
            BY <1>1, <3>1, <3>4, TakeOfPeers
        <3> QED BY <3>2, <3>3, <3>4
    <2>4. OfPeers'
        BY <1>1, <2>1, <2>2, <2>3 DEF OfPeers
    <2>5. Admitted' = Admitted /\ DOMAIN sessions' \subseteq Peers
        BY <2>1, <2>4 DEF Admitted, OfPeers
    <2> QED BY <2>2, <2>4, <2>5, FewerEntries DEF AdmissionInv
<1>3. CASE Request2Accepted(m)
    <2>1. /\ pending' = Restrict(pending, Unexpired \ {m.peer})
          /\ m.peer \in Unexpired
        BY <1>3 DEF Request2Accepted
    <2>2. DOMAIN pending' = Unexpired \ {m.peer}
        BY <2>1 DEF Restrict
    <2>3. /\ DOMAIN sessions' \subseteq DOMAIN sessions \cup {m.peer}
          /\ \A p \in DOMAIN sessions' \ {m.peer} : p \in DOMAIN sessions /\ sessions'[p] = sessions[p]
        BY <1>3 DEF Request2Accepted, Insert
    <2>4. \A d \in net' : d.peer \in Peers
        <3>1. \A mtu : (Reply2(m.peer, mtu)).peer = m.peer
            BY DEF Reply2
        <3>2. (AlreadyConnected(m.peer)).peer = m.peer
            BY DEF AlreadyConnected
        <3>3. Take(m, {AlreadyConnected(m.peer)}) \/ Take(m, {Reply2(m.peer, SessionMtu(m))})
            BY <1>3 DEF Request2Accepted
        <3> QED BY <1>1, <3>1, <3>2, <3>3, TakeOfPeers
    <2>5. OfPeers'
        BY <1>1, <2>2, <2>3, <2>4, RetainedDomain DEF OfPeers
    <2>6. Admitted' \subseteq Admitted \cup {m.peer}
        BY <2>3 DEF Admitted
    <2>7. DOMAIN pending' \subseteq DOMAIN pending \ {m.peer} /\ m.peer \in DOMAIN pending
        BY <2>1, <2>2, RetainedDomain
    <2>8. Admitted \subseteq Peers /\ DOMAIN pending \subseteq Peers
        BY <1>1 DEF OfPeers, Admitted
    <2>9. Size(Admitted \cup {m.peer}, DOMAIN pending \ {m.peer}) <= Size(Admitted, DOMAIN pending)
        BY <2>7, <2>8, SizeMoves
    <2>10. Admitted \cup {m.peer} \subseteq Peers /\ DOMAIN pending \ {m.peer} \subseteq Peers
        BY <1>1, <2>8
    <2>11. Size(Admitted \cup {m.peer}, DOMAIN pending \ {m.peer}) < max_connections + max_pending_connections
        BY <2>9, <2>10, BoundKept
    <2>12. Size(Admitted', DOMAIN pending') <= Size(Admitted \cup {m.peer}, DOMAIN pending \ {m.peer})
        BY <2>6, <2>7, <2>10, SizeShrinks
    <2>13. /\ Size(Admitted', DOMAIN pending') \in Nat
           /\ Size(Admitted \cup {m.peer}, DOMAIN pending \ {m.peer}) \in Nat
        <3>1. Admitted' \subseteq Peers /\ DOMAIN pending' \subseteq Peers
            BY <2>6, <2>7, <2>10
        <3>2. Cardinality(Admitted') \in Nat /\ Cardinality(DOMAIN pending') \in Nat
            BY <3>1, SizeOfSubsets
        <3>3. /\ Cardinality(Admitted \cup {m.peer}) \in Nat
              /\ Cardinality(DOMAIN pending \ {m.peer}) \in Nat
            BY <2>10, SizeOfSubsets
        <3> QED BY <3>2, <3>3 DEF Size
    <2>14. Size(Admitted', DOMAIN pending') < max_connections + max_pending_connections
        BY <2>11, <2>12, <2>13, LimitsAssumption
    <2> QED BY <2>5, <2>14 DEF AdmissionInv, AdmissionBound, Size
<1> QED BY <1>2, <1>3

-----------------------------------------------------------------------------
\* A stranger's datagram and a request that cannot be sent are incidents: they
\* leave the tables alone and send nothing.
LEMMA MishapSteps ==
    ASSUME NEW p \in Peers, ClientMishap(p)
    PROVE  /\ UNCHANGED <<sessions, pending, accepted, serial, refused, mtu_final>>
           /\ net' \subseteq net /\ incidents' = incidents + 1
<1>1. CASE Reply1Stranger(p)
    BY <1>1 DEF Reply1Stranger, UseAttempt, Incident, tableVars
<1>2. ASSUME NEW m \in net, Request2Fails(p, m)
      PROVE  /\ UNCHANGED <<sessions, pending, accepted, serial, refused, mtu_final>>
             /\ net' \subseteq net /\ incidents' = incidents + 1
    BY <1>2 DEF Request2Fails, Incident, tableVars
<1> QED BY <1>1, <1>2 DEF ClientMishap

\* What a client does is send requests of its own.
LEMMA ClientSteps ==
    ASSUME AdmissionInv, NEW p \in Peers, ClientStep(p)
    PROVE  AdmissionInv'
<1>1. OfPeers
    BY DEF AdmissionInv
<1>2. sessions' = sessions /\ pending' = pending
    BY DEF ClientStep, Probe, Reply1Timeout, Reply1Ignored, Reply1Received, Reply2Ignored,
           Reply2Received, Reply2Timeout, tableVars
<1>3. \A d \in net' : d.peer \in Peers
    <2>1. CASE Probe(p)
        <3>1. \A padding : (Request1(p, padding)).peer = p
            BY DEF Request1
        <3>2. net' = net \/ \E padding : net' = net \cup {Request1(p, padding)}
            BY <2>1 DEF Probe
        <3> QED BY <1>1, <3>1, <3>2 DEF OfPeers
    <2>2. CASE Reply1Timeout(p) \/ Reply2Timeout(p)
        BY <1>1, <2>2 DEF Reply1Timeout, Reply2Timeout, OfPeers
    <2>3. ASSUME NEW m \in net, Reply1Ignored(p, m) \/ Reply2Ignored(p, m) \/ Reply2Received(p, m)
          PROVE  \A d \in net' : d.peer \in Peers
        <3>1. Take(m, {})
            BY <2>3 DEF Reply1Ignored, Reply2Ignored, Reply2Received
        <3> QED BY <1>1, <3>1, TakeOfPeers
    <2>4. ASSUME NEW m \in net, Reply1Received(p, m)
          PROVE  \A d \in net' : d.peer \in Peers
        <3>1. PICK final : Take(m, {Request2(p, m.cookie, final)})
            BY <2>4 DEF Reply1Received
        <3>2. (Request2(p, m.cookie, final)).peer = m.peer
            BY <2>4 DEF Request2, Reply1Received
        <3> QED BY <1>1, <3>1, <3>2, TakeOfPeers
    <2> QED BY <2>1, <2>2, <2>3, <2>4 DEF ClientStep
<1>4. OfPeers'
    BY <1>1, <1>2, <1>3 DEF OfPeers
<1>5. Admitted' = Admitted /\ DOMAIN sessions' \subseteq Peers
    BY <1>2, <1>4 DEF Admitted, OfPeers
<1> QED BY <1>2, <1>4, <1>5, FewerEntries DEF AdmissionInv

\* The session of a peer that opens, ends or is made for a late message is not
\* a new session of a handshake.
LEMMA SessionSteps ==
    ASSUME AdmissionInv, NEW p \in Peers, SessionOpens(p) \/ SessionEnds(p) \/ SendAfterEnd(p)
    PROVE  AdmissionInv'
<1>1. OfPeers
    BY DEF AdmissionInv
<1>2. pending' = pending /\ net' = net
    BY DEF SessionOpens, SessionEnds, SendAfterEnd
<1>3. DOMAIN sessions' \subseteq Peers /\ Admitted' \subseteq Admitted
    <2>1. CASE SessionOpens(p)
        <3>1. DOMAIN sessions' = DOMAIN sessions
            BY <2>1 DEF SessionOpens
        <3>2. \A q \in DOMAIN sessions : sessions'[q].cookie # NoCookie => sessions[q].cookie # NoCookie
            BY <2>1 DEF SessionOpens
        <3> QED BY <1>1, <3>1, <3>2 DEF Admitted, OfPeers
    <2>2. CASE SessionEnds(p)
        BY <1>1, <2>2 DEF SessionEnds, Restrict, Admitted, OfPeers
    <2>3. CASE SendAfterEnd(p)
        <3>1. DOMAIN sessions' = DOMAIN sessions \cup {p} /\ sessions'[p].cookie = NoCookie
            BY <2>3 DEF SendAfterEnd, Insert
        <3>2. \A q \in DOMAIN sessions \ {p} : sessions'[q] = sessions[q]
            BY <2>3 DEF SendAfterEnd, Insert
        <3> QED BY <1>1, <3>1, <3>2 DEF Admitted, OfPeers
    <2> QED BY <2>1, <2>2, <2>3
<1>4. OfPeers'
    BY <1>1, <1>2, <1>3 DEF OfPeers
<1> QED BY <1>2, <1>3, <1>4, FewerEntries DEF AdmissionInv

\* Losses, pings, expiries and stuttering.
LEMMA OtherSteps ==
    ASSUME AdmissionInv, Lose \/ Ping \/ (\E p \in Peers : Expire(p)) \/ UNCHANGED vars
    PROVE  AdmissionInv'
<1>1. OfPeers
    BY DEF AdmissionInv
<1>2. sessions' = sessions
    BY DEF Lose, Ping, Expire, vars, tableVars
<1>3. DOMAIN pending' \subseteq DOMAIN pending /\ net' \subseteq net
    BY RetainedDomain DEF Lose, Ping, Expire, vars, tableVars
<1>4. OfPeers'
    BY <1>1, <1>2, <1>3 DEF OfPeers
<1>5. Admitted' = Admitted /\ DOMAIN sessions' \subseteq Peers
    BY <1>2, <1>4 DEF Admitted, OfPeers
<1> QED BY <1>3, <1>4, <1>5, FewerEntries DEF AdmissionInv

\* Before the first request both tables are empty.
LEMMA AdmissionInit == Init => AdmissionInv
<1> SUFFICES ASSUME Init PROVE AdmissionInv
    OBVIOUS
<1>1. DOMAIN sessions = {} /\ DOMAIN pending = {} /\ net = {}
    BY DEF Init
<1>2. Admitted = {}
    BY <1>1 DEF Admitted
<1>3. Cardinality(Admitted) = 0 /\ Cardinality(DOMAIN pending) = 0
    BY <1>1, <1>2, FS_EmptySet
<1> QED BY <1>1, <1>3, LimitsAssumption DEF AdmissionInv, OfPeers, AdmissionBound

\* handle_offline never admits so many that sessions made by a handshake and
\* pending entries together reach max_connections + max_pending_connections,
\* whatever the network repeats, delays or loses.
THEOREM AdmissionBoundHolds == Spec => []AdmissionBound
<1>1. Init => AdmissionInv
    BY AdmissionInit
<1>2. AdmissionInv /\ [Next]_vars => AdmissionInv'
    <2> SUFFICES ASSUME AdmissionInv, [Next]_vars PROVE AdmissionInv'
        OBVIOUS
    <2>1. CASE \E p \in Peers : ClientStep(p)
        BY <2>1, ClientSteps
    <2>2. CASE ListenerStep
        BY <2>2, Request1Steps, Request2Steps DEF ListenerStep
    <2>3. CASE \E p \in Peers : SessionOpens(p) \/ SessionEnds(p) \/ SendAfterEnd(p)
        BY <2>3, SessionSteps
    <2>4. CASE Lose \/ Ping \/ (\E p \in Peers : Expire(p)) \/ UNCHANGED vars
        BY <2>4, OtherSteps
    <2>5. CASE \E p \in Peers : ClientMishap(p)
        <3>1. UNCHANGED <<sessions, pending>> /\ net' \subseteq net
            BY <2>5, MishapSteps
        <3> QED BY <3>1 DEF AdmissionInv, AdmissionBound, Admitted, OfPeers
    <2> QED BY <2>1, <2>2, <2>3, <2>4, <2>5 DEF Next
<1>3. AdmissionInv => AdmissionBound
    BY DEF AdmissionInv
<1> QED BY <1>1, <1>2, <1>3, PTL DEF Spec

-----------------------------------------------------------------------------
(***************************************************************************)
(* The types, for every retry count, MTU limit and hash.  A cookie under   *)
(* way or in a table was generated, and comes back as it left: it does not *)
(* start like an address.                                                  *)
(***************************************************************************)
Phases == {"probe", "wait1", "wait2", "done", "failed"}

GeneratedCookies(n) == {c \in (0 .. 255) \X (1 .. n) : DecodedCookie(c) = c}

ClientTyped ==
    /\ phase \in [Peers -> Phases]
    /\ probe \in [Peers -> 1 .. 4]
    /\ attempts \in [Peers -> 0 .. HANDSHAKE_RETRIES]
    /\ mtu_final \in [Peers -> Nat]
    /\ \A p \in Peers : phase[p] = "wait1" => probe[p] <= 3 /\ attempts[p] < HANDSHAKE_RETRIES

ReplySizes == MINIMUM_MTU_SIZE .. max_mtu
RequestSizes == MINIMUM_MTU_SIZE .. MAXIMUM_MTU_SIZE

GoodDatagram(m, n) ==
    /\ m.peer \in Peers
    /\ m.type = "request1" => m.padding \in Nat
    /\ m.type = "reply1" => m.cookie \in GeneratedCookies(n) /\ m.mtu \in ReplySizes
    /\ m.type = "request2" => m.cookie \in GeneratedCookies(n) /\ m.mtu \in RequestSizes

NetTyped == \A m \in net : GoodDatagram(m, serial)

Entries(n) == [mtu : ReplySizes, cookie : GeneratedCookies(n), expired : BOOLEAN]
SessionSizes == MINIMUM_MTU_SIZE .. 65535
SessionEntries(n) ==
    [mtu : SessionSizes, connected : BOOLEAN,
     cookie : GeneratedCookies(n) \cup {NoCookie}]

TablesTyped ==
    /\ serial \in Nat /\ incidents \in Nat
    /\ DOMAIN pending \subseteq Peers /\ DOMAIN sessions \subseteq Peers
    /\ \A p \in DOMAIN pending : pending[p] \in Entries(serial)
    /\ \A p \in DOMAIN sessions : sessions[p] \in SessionEntries(serial)

HandshakeTyped == ClientTyped /\ NetTyped /\ TablesTyped

-----------------------------------------------------------------------------
\* The cookie of the next request is new, a cookie, and decoded as itself.
LEMMA NewCookie ==
    ASSUME NEW first \in FirstBytes, serial \in Nat
    PROVE  /\ generate_cookie(first) \in GeneratedCookies(serial + 1)
           /\ generate_cookie(first) \notin GeneratedCookies(serial)
<1> DEFINE byte == IF first \in {4, 6} THEN first + 1 ELSE first
<1>1. first \in 0 .. 255
    BY BytesAssumption
<1>2. byte \in 0 .. 255 /\ byte \notin {4, 6}
    BY <1>1
<1>3. generate_cookie(first) = <<byte, serial + 1>>
    BY DEF generate_cookie
<1> HIDE DEF byte
<1>4. <<byte, serial + 1>> \in (0 .. 255) \X (1 .. serial + 1)
    BY <1>2
<1>5. <<byte, serial + 1>> \notin (0 .. 255) \X (1 .. serial)
    OBVIOUS
<1>6. Head(<<byte, serial + 1>>) = byte /\ <<byte, serial + 1>> # NoCookie
    BY DEF NoCookie
<1>7. DecodedCookie(<<byte, serial + 1>>) = <<byte, serial + 1>>
    BY <1>2, <1>6 DEF DecodedCookie
<1> QED BY <1>3, <1>4, <1>5, <1>7 DEF GeneratedCookies

\* Cookies stay cookies, come back as they left, and are no missing ones.
LEMMA CookieFacts ==
    ASSUME NEW n \in Nat
    PROVE  /\ GeneratedCookies(n) \subseteq GeneratedCookies(n + 1)
           /\ GeneratedCookies(n) \subseteq (0 .. 255) \X (1 .. n)
           /\ \A c \in GeneratedCookies(n) : DecodedCookie(c) = c
           /\ NoCookie \notin GeneratedCookies(n)
<1>1. (0 .. 255) \X (1 .. n) \subseteq (0 .. 255) \X (1 .. n + 1)
    OBVIOUS
<1>2. NoCookie \notin (0 .. 255) \X (1 .. n)
    BY DEF NoCookie
<1> QED BY <1>1, <1>2 DEF GeneratedCookies

\* The bounds of the sizes a listener answers with.
LEMMA ReplyBounds == MINIMUM_MTU_SIZE \in Int /\ max_mtu \in Int /\ MINIMUM_MTU_SIZE <= max_mtu
<1>1. MINIMUM_MTU_SIZE \in Int
    BY DEF MINIMUM_MTU_SIZE
<1>2. \A a, b, c \in Int : c \in a .. b => a <= c
    OBVIOUS
<1>3. max_mtu \in Int
    BY <1>1, MtuAssumption
<1> QED BY <1>1, <1>2, <1>3, MtuAssumption

\* The size the listener answers with.
LEMMA GuessSize ==
    ASSUME NEW m, m.padding \in Nat
    PROVE  clamp_mtu(mtu_guess(m), MINIMUM_MTU_SIZE, max_mtu) \in ReplySizes
<1>1. ASSUME NEW v \in Int PROVE clamp_mtu(v, MINIMUM_MTU_SIZE, max_mtu) \in ReplySizes
    <2>1. MINIMUM_MTU_SIZE \in Int /\ max_mtu \in Int /\ MINIMUM_MTU_SIZE <= max_mtu
        BY ReplyBounds
    <2>2. CASE v < MINIMUM_MTU_SIZE
        BY <2>1, <2>2 DEF clamp_mtu, ReplySizes
    <2>3. CASE ~(v < MINIMUM_MTU_SIZE) /\ v > max_mtu
        BY <2>1, <2>3 DEF clamp_mtu, ReplySizes
    <2>4. CASE ~(v < MINIMUM_MTU_SIZE) /\ ~(v > max_mtu)
        BY <2>1, <2>4 DEF clamp_mtu, ReplySizes
    <2> QED BY <2>2, <2>3, <2>4
<1>2. mtu_guess(m) \in Int
    BY DEF mtu_guess
<1> QED BY <1>1, <1>2

\* The size the client asks for: one it may, and no more than it was offered.
LEMMA NegotiatedSize ==
    ASSUME NEW k \in 1 .. 3, NEW server \in ReplySizes
    PROVE  /\ Negotiated(MTU_SIZES[k], server) \in RequestSizes
           /\ Negotiated(MTU_SIZES[k], server) <= server
           /\ Negotiated(MTU_SIZES[k], server) \in Nat
<1>1. MTU_SIZES[k] \in {1200, 1400, 576}
    BY DEF MTU_SIZES, MAXIMUM_MTU_SIZE, MINIMUM_MTU_SIZE
<1> QED
    BY <1>1, MtuAssumption
    DEF Negotiated, Minimum, clamp_mtu, MAXIMUM_MTU_SIZE, MINIMUM_MTU_SIZE, ReplySizes, RequestSizes

\* Whatever is taken, the network holds what it held and the answers at most.
LEMMA TakeAddsAnswers ==
    ASSUME NEW m \in net, NEW answers, Take(m, answers), incidents \in Nat
    PROVE  /\ net' \subseteq net \cup answers
           /\ incidents' \in Nat /\ incidents <= incidents'
           /\ incidents' = incidents => net' = (net \ {m}) \cup answers
BY DEF Take, Incident

\* The fields of the datagrams.
LEMMA DatagramFields ==
    /\ \A p, x : (Request1(p, x)).type = "request1" /\ (Request1(p, x)).peer = p
                 /\ (Request1(p, x)).padding = x
    /\ \A p, c, x : (Reply1(p, c, x)).type = "reply1" /\ (Reply1(p, c, x)).peer = p
                    /\ (Reply1(p, c, x)).cookie = c /\ (Reply1(p, c, x)).mtu = x
    /\ \A p, c, x : (Request2(p, c, x)).type = "request2" /\ (Request2(p, c, x)).peer = p
                    /\ (Request2(p, c, x)).cookie = c /\ (Request2(p, c, x)).mtu = x
    /\ \A p, x : (Reply2(p, x)).type = "reply2" /\ (Reply2(p, x)).peer = p
    /\ \A p : (NoFree(p)).type = "no_free" /\ (NoFree(p)).peer = p
    /\ \A p : (AlreadyConnected(p)).type = "already_connected" /\ (AlreadyConnected(p)).peer = p
BY DEF Request1, Reply1, Request2, Reply2, NoFree, AlreadyConnected

\* Steps of the client change its own variables and the network.
LEMMA ClientTyping ==
    ASSUME HandshakeTyped, NEW p \in Peers, ClientStep(p)
    PROVE  HandshakeTyped'
<1> USE DEF HandshakeTyped
<1>1. serial \in Nat /\ incidents \in Nat
    BY DEF TablesTyped
<1>2. Len(MTU_SIZES) = 3
    BY DEF MTU_SIZES
<1>3. UNCHANGED <<sessions, pending, accepted, serial, refused>>
    BY DEF ClientStep, Probe, Reply1Timeout, Reply1Ignored, Reply1Received, Reply2Ignored,
           Reply2Received, Reply2Timeout, tableVars
<1>4. ClientTyped' /\ NetTyped' /\ incidents' \in Nat
    <2>1. CASE Probe(p)
        <3>1. ClientTyped'
            BY <1>2, <2>1, RetriesAssumption DEF Probe, ClientTyped, Phases
        <3>2. incidents' \in Nat
            BY <1>1, <2>1 DEF Probe, Incident
        <3>3. \/ net' = net
              \/ probe[p] \in 1 .. 3 /\ net' = net \cup {Request1(p, MTU_SIZES[probe[p]] - 46)}
            BY <1>2, <2>1 DEF Probe, ClientTyped
        <3>4. \A k \in 1 .. 3 : MTU_SIZES[k] - 46 \in Nat
            BY DEF MTU_SIZES, MAXIMUM_MTU_SIZE, MINIMUM_MTU_SIZE
        <3>5. \A x \in Nat : GoodDatagram(Request1(p, x), serial)
            BY DatagramFields DEF GoodDatagram
        <3> QED BY <1>3, <3>1, <3>2, <3>3, <3>4, <3>5 DEF NetTyped
    <2>2. CASE Reply1Timeout(p)
        <3>1. ClientTyped'
            BY <2>2, RetriesAssumption DEF Reply1Timeout, UseAttempt, ClientTyped, Phases
        <3> QED BY <1>1, <1>3, <2>2, <3>1 DEF Reply1Timeout, TimeoutOf, Incident, NetTyped
    <2>3. CASE Reply2Timeout(p)
        <3>1. ClientTyped'
            BY <2>3 DEF Reply2Timeout, ClientTyped, Phases
        <3> QED BY <1>1, <1>3, <2>3, <3>1 DEF Reply2Timeout, TimeoutOf, Incident, NetTyped
    <2>4. ASSUME NEW m \in net, Reply1Ignored(p, m) \/ Reply2Ignored(p, m) \/ Reply2Received(p, m)
          PROVE  ClientTyped' /\ NetTyped' /\ incidents' \in Nat
        <3>1. CASE Reply1Ignored(p, m)
            BY <3>1, RetriesAssumption, <1>1, <1>3, TakeAddsAnswers
            DEF Reply1Ignored, UseAttempt, ClientTyped, Phases, NetTyped
        <3>2. CASE Reply2Ignored(p, m)
            BY <3>2, <1>1, <1>3, TakeAddsAnswers DEF Reply2Ignored, ClientTyped, clientVars, NetTyped
        <3>3. CASE Reply2Received(p, m)
            BY <3>3, <1>1, <1>3, TakeAddsAnswers DEF Reply2Received, ClientTyped, Phases, NetTyped
        <3> QED BY <2>4, <3>1, <3>2, <3>3
    <2>5. ASSUME NEW m \in net, Reply1Received(p, m)
          PROVE  ClientTyped' /\ NetTyped' /\ incidents' \in Nat
        <3> DEFINE final == Negotiated(MTU_SIZES[probe[p]], m.mtu)
        <3>1. probe[p] \in 1 .. 3 /\ m.cookie \in GeneratedCookies(serial) /\ m.mtu \in ReplySizes
            BY <2>5 DEF Reply1Received, ClientTyped, NetTyped, GoodDatagram
        <3>2. final \in RequestSizes /\ final \in Nat
            BY <3>1, NegotiatedSize
        <3>3. /\ mtu_final' = [mtu_final EXCEPT ![p] = final]
              /\ phase' = [phase EXCEPT ![p] = "wait2"]
              /\ UNCHANGED <<probe, attempts>>
              /\ Take(m, {Request2(p, m.cookie, final)})
            BY <2>5 DEF Reply1Received
        <3> HIDE DEF final
        <3>4. GoodDatagram(Request2(p, m.cookie, final), serial)
            BY <3>1, <3>2, DatagramFields DEF GoodDatagram
        <3>5. ClientTyped'
            BY <3>2, <3>3 DEF ClientTyped, Phases
        <3> QED BY <1>1, <1>3, <3>3, <3>4, <3>5, TakeAddsAnswers DEF NetTyped
    <2> QED BY <2>1, <2>2, <2>3, <2>4, <2>5 DEF ClientStep
<1>5. TablesTyped'
    BY <1>3, <1>4 DEF TablesTyped
<1> QED BY <1>4, <1>5

\* Answers that carry no cookie are good whatever they are.
LEMMA PlainAnswers ==
    ASSUME NEW p \in Peers, NEW n
    PROVE  /\ GoodDatagram(NoFree(p), n) /\ GoodDatagram(AlreadyConnected(p), n)
           /\ \A x : GoodDatagram(Reply2(p, x), n)
BY DatagramFields DEF GoodDatagram

\* Fewer pending entries, and datagrams without a cookie.
LEMMA FewerTyped ==
    ASSUME HandshakeTyped, UNCHANGED <<clientVars, serial>>, incidents' \in Nat,
           DOMAIN pending' \subseteq DOMAIN pending,
           \A p \in DOMAIN pending' : pending'[p] = pending[p],
           DOMAIN sessions' \subseteq Peers,
           \A p \in DOMAIN sessions' : sessions'[p] \in SessionEntries(serial),
           \A m \in net' : m \in net \/ GoodDatagram(m, serial)
    PROVE  HandshakeTyped'
<1> USE DEF HandshakeTyped
<1>1. ClientTyped'
    BY DEF ClientTyped, clientVars
<1>2. NetTyped'
    BY DEF NetTyped
<1>3. TablesTyped'
    BY DEF TablesTyped
<1> QED BY <1>1, <1>2, <1>3

\* Steps of handle_offline.
LEMMA ListenerTyping ==
    ASSUME HandshakeTyped, ListenerStep
    PROVE  HandshakeTyped'
<1> USE DEF HandshakeTyped
<1>1. /\ serial \in Nat /\ incidents \in Nat
      /\ DOMAIN pending \subseteq Peers /\ DOMAIN sessions \subseteq Peers
      /\ \A p \in DOMAIN pending : pending[p] \in Entries(serial)
      /\ \A p \in DOMAIN sessions : sessions[p] \in SessionEntries(serial)
    BY DEF TablesTyped
<1>2. PICK m \in net :
        \/ Request1NoFree(m) \/ Request1Dropped(m)
        \/ Request1Accepted(m)
        \/ Request2Unknown(m) \/ Request2Mismatch(m) \/ Request2Accepted(m)
    BY DEF ListenerStep
<1>3. m.peer \in Peers
    BY DEF NetTyped, GoodDatagram
<1>4. /\ DOMAIN Retained = Unexpired /\ Unexpired \subseteq DOMAIN pending
      /\ \A p \in Unexpired : Retained[p] = pending[p]
    BY DEF Retained, Unexpired, Restrict
<1>5. CASE Request1NoFree(m) \/ Request1Dropped(m) \/ Request2Unknown(m)
    <2>1. pending' = Retained /\ sessions' = sessions /\ UNCHANGED <<clientVars, serial>>
        BY <1>5 DEF Request1NoFree, Request1Dropped, Request2Unknown
    <2>2. \/ Take(m, {NoFree(m.peer)}) \/ Take(m, {}) \/ \E x : Take(m, {Reply2(m.peer, x)})
        BY <1>5 DEF Request1NoFree, Request1Dropped, Request2Unknown
    <2>3. incidents' \in Nat /\ \A d \in net' : d \in net \/ GoodDatagram(d, serial)
        <3>1. CASE Take(m, {NoFree(m.peer)})
            BY <1>1, <1>3, <3>1, TakeAddsAnswers, PlainAnswers
        <3>2. CASE Take(m, {})
            BY <1>1, <3>2, TakeAddsAnswers
        <3>3. ASSUME NEW x, Take(m, {Reply2(m.peer, x)})
              PROVE  incidents' \in Nat /\ \A d \in net' : d \in net \/ GoodDatagram(d, serial)
            BY <1>1, <1>3, <3>3, TakeAddsAnswers, PlainAnswers
        <3> QED BY <2>2, <3>1, <3>2, <3>3
    <2> QED BY <1>1, <1>4, <2>1, <2>3, FewerTyped
<1>6. CASE Request2Mismatch(m)
    <2>1. /\ pending' = Restrict(pending, Unexpired \ {m.peer})
          /\ sessions' = sessions /\ UNCHANGED <<clientVars, serial>>
          /\ Take(m, {})
        BY <1>6 DEF Request2Mismatch
    <2>2. DOMAIN pending' \subseteq DOMAIN pending /\ \A p \in DOMAIN pending' : pending'[p] = pending[p]
        BY <1>4, <2>1 DEF Restrict
    <2>3. incidents' \in Nat /\ \A d \in net' : d \in net
        BY <1>1, <2>1, TakeAddsAnswers
    <2> QED BY <1>1, <2>1, <2>2, <2>3, FewerTyped
<1>7. CASE Request2Accepted(m)
    <2>1. /\ pending' = Restrict(pending, Unexpired \ {m.peer})
          /\ UNCHANGED <<clientVars, serial>>
          /\ m.type = "request2" /\ m.peer \in DOMAIN pending
        BY <1>4, <1>7 DEF Request2Accepted
    <2>2. DOMAIN pending' \subseteq DOMAIN pending /\ \A p \in DOMAIN pending' : pending'[p] = pending[p]
        BY <1>4, <2>1 DEF Restrict
    <2>3. Take(m, {Reply2(m.peer, SessionMtu(m))}) \/ Take(m, {AlreadyConnected(m.peer)})
        BY <1>7 DEF Request2Accepted
    <2>4. incidents' \in Nat /\ \A d \in net' : d \in net \/ GoodDatagram(d, serial)
        BY <1>1, <1>3, <2>3, TakeAddsAnswers, PlainAnswers
    <2>5. pending[m.peer].mtu \in ReplySizes /\ pending[m.peer].cookie \in GeneratedCookies(serial)
        BY <1>1, <2>1 DEF Entries
    <2>6. m.mtu \in RequestSizes
        BY <2>1 DEF NetTyped, GoodDatagram
    <2>7. SessionMtu(m) \in SessionSizes
        <3>1. MINIMUM_MTU_SIZE \in Nat /\ MAXIMUM_MTU_SIZE \in Nat /\ MAXIMUM_MTU_SIZE <= 65535
            BY DEF MINIMUM_MTU_SIZE, MAXIMUM_MTU_SIZE
        <3>2. \A a \in ReplySizes, b \in RequestSizes : Minimum(a, b) \in SessionSizes
            BY <3>1, MtuAssumption DEF Minimum, ReplySizes, RequestSizes, SessionSizes
        <3> QED BY <2>5, <2>6, <3>2 DEF SessionMtu
    <2> DEFINE new == [mtu |-> SessionMtu(m), connected |-> FALSE, cookie |-> pending[m.peer].cookie]
    <2>8. new \in SessionEntries(serial)
        BY <2>5, <2>7 DEF SessionEntries
    <2>9. sessions' = sessions \/ sessions' = Insert(sessions, m.peer, new)
        BY <1>7 DEF Request2Accepted
    <2> HIDE DEF new
    <2>10. DOMAIN sessions' \subseteq Peers /\ \A p \in DOMAIN sessions' : sessions'[p] \in SessionEntries(serial)
        <3>1. CASE sessions' = sessions
            BY <1>1, <3>1
        <3>2. CASE sessions' = Insert(sessions, m.peer, new)
            BY <1>1, <1>3, <2>8, <3>2 DEF Insert
        <3> QED BY <2>9, <3>1, <3>2
    <2> QED BY <2>1, <2>2, <2>4, <2>10, FewerTyped
<1>8. CASE Request1Accepted(m)
    <2> DEFINE mtu == clamp_mtu(mtu_guess(m), MINIMUM_MTU_SIZE, max_mtu)
    <2>1. PICK first \in FirstBytes :
            /\ pending' = Insert(Retained, m.peer, [mtu |-> mtu, cookie |-> generate_cookie(first), expired |-> FALSE])
            /\ Take(m, {Reply1(m.peer, generate_cookie(first), mtu)})
        BY <1>8 DEF Request1Accepted
    <2>2. UNCHANGED <<clientVars, sessions>> /\ serial' = serial + 1 /\ m.type = "request1"
        BY <1>8 DEF Request1Accepted
    <2>3. mtu \in ReplySizes
        BY <2>2, GuessSize DEF NetTyped, GoodDatagram
    <2> HIDE DEF mtu
    <2>4. /\ GeneratedCookies(serial) \subseteq GeneratedCookies(serial')
          /\ generate_cookie(first) \in GeneratedCookies(serial')
        BY <1>1, <2>2, NewCookie, CookieFacts
    <2>5. ClientTyped'
        BY <2>2 DEF ClientTyped, clientVars
    <2>6. NetTyped'
        <3>1. GoodDatagram(Reply1(m.peer, generate_cookie(first), mtu), serial')
            BY <1>3, <2>3, <2>4, DatagramFields DEF GoodDatagram
        <3>2. \A d \in net : GoodDatagram(d, serial')
            BY <2>4 DEF NetTyped, GoodDatagram
        <3> QED BY <1>1, <2>1, <3>1, <3>2, TakeAddsAnswers DEF NetTyped
    <2>7. TablesTyped'
        <3>1. Entries(serial) \subseteq Entries(serial') /\ SessionEntries(serial) \subseteq SessionEntries(serial')
            BY <2>4 DEF Entries, SessionEntries
        <3>2. [mtu |-> mtu, cookie |-> generate_cookie(first), expired |-> FALSE] \in Entries(serial')
            BY <2>3, <2>4 DEF Entries
        <3>3. DOMAIN pending' \subseteq Peers /\ \A p \in DOMAIN pending' : pending'[p] \in Entries(serial')
            BY <1>1, <1>3, <1>4, <2>1, <3>1, <3>2 DEF Insert
        <3>4. DOMAIN sessions' \subseteq Peers /\ \A p \in DOMAIN sessions' : sessions'[p] \in SessionEntries(serial')
            BY <1>1, <2>2, <3>1
        <3>5. serial' \in Nat /\ incidents' \in Nat
            BY <1>1, <2>1, <2>2, TakeAddsAnswers
        <3> QED BY <3>3, <3>4, <3>5 DEF TablesTyped
    <2> QED BY <2>5, <2>6, <2>7
<1> QED BY <1>2, <1>5, <1>6, <1>7, <1>8

\* Losses, pings, expiries, the life of sessions, and stuttering.
LEMMA OtherTyping ==
    ASSUME HandshakeTyped, \/ Lose \/ Ping \/ UNCHANGED vars
                           \/ \E p \in Peers : Expire(p)
                           \/ \E p \in Peers : SessionOpens(p) \/ SessionEnds(p) \/ SendAfterEnd(p)
    PROVE  HandshakeTyped'
<1> USE DEF HandshakeTyped
<1>1. /\ serial \in Nat /\ incidents \in Nat
      /\ DOMAIN pending \subseteq Peers /\ DOMAIN sessions \subseteq Peers
      /\ \A p \in DOMAIN pending : pending[p] \in Entries(serial)
      /\ \A p \in DOMAIN sessions : sessions[p] \in SessionEntries(serial)
    BY DEF TablesTyped
<1>2. UNCHANGED <<clientVars, serial>> /\ incidents' \in Nat /\ net' \subseteq net
    <2>1. CASE Lose \/ Ping \/ UNCHANGED vars
        BY <1>1, <2>1 DEF Lose, Ping, Incident, vars, tableVars
    <2>2. CASE \E p \in Peers : Expire(p)
        BY <1>1, <2>2 DEF Expire, Incident
    <2>3. CASE \E p \in Peers : SessionOpens(p) \/ SessionEnds(p) \/ SendAfterEnd(p)
        BY <1>1, <2>3 DEF SessionOpens, SessionEnds, SendAfterEnd
    <2> QED BY <2>1, <2>2, <2>3
<1>3. ClientTyped' /\ NetTyped'
    BY <1>2 DEF ClientTyped, NetTyped, clientVars
<1>4. DOMAIN pending' \subseteq Peers /\ \A p \in DOMAIN pending' : pending'[p] \in Entries(serial)
    <2>1. CASE Ping
        BY <1>1, <2>1 DEF Ping, Retained, Unexpired, Restrict
    <2>2. ASSUME NEW p \in Peers, Expire(p)
          PROVE  DOMAIN pending' \subseteq Peers /\ \A q \in DOMAIN pending' : pending'[q] \in Entries(serial)
        BY <1>1, <2>2 DEF Expire, Unexpired, Entries
    <2>3. CASE UNCHANGED pending
        BY <1>1, <2>3
    <2> QED BY <2>1, <2>2, <2>3 DEF Lose, SessionOpens, SessionEnds, SendAfterEnd, vars, tableVars
<1>5. DOMAIN sessions' \subseteq Peers /\ \A p \in DOMAIN sessions' : sessions'[p] \in SessionEntries(serial)
    <2>1. ASSUME NEW p \in Peers, SessionOpens(p)
          PROVE  DOMAIN sessions' \subseteq Peers /\ \A q \in DOMAIN sessions' : sessions'[q] \in SessionEntries(serial)
        <3>1. sessions[p] \in SessionEntries(serial) /\ sessions' = [sessions EXCEPT ![p].connected = TRUE]
            BY <1>1, <2>1 DEF SessionOpens
        <3>2. [sessions[p] EXCEPT !.connected = TRUE] \in SessionEntries(serial)
            BY <3>1 DEF SessionEntries
        <3> QED BY <1>1, <3>1, <3>2
    <2>2. ASSUME NEW p \in Peers, SessionEnds(p)
          PROVE  DOMAIN sessions' \subseteq Peers /\ \A q \in DOMAIN sessions' : sessions'[q] \in SessionEntries(serial)
        BY <1>1, <2>2 DEF SessionEnds, Restrict
    <2>3. ASSUME NEW p \in Peers, SendAfterEnd(p)
          PROVE  DOMAIN sessions' \subseteq Peers /\ \A q \in DOMAIN sessions' : sessions'[q] \in SessionEntries(serial)
        <3>1. [mtu |-> max_mtu, connected |-> FALSE, cookie |-> NoCookie] \in SessionEntries(serial)
            BY MtuAssumption DEF SessionEntries, SessionSizes
        <3> QED BY <1>1, <2>3, <3>1 DEF SendAfterEnd, Insert
    <2>4. CASE UNCHANGED sessions
        BY <1>1, <2>4
    <2> QED BY <2>1, <2>2, <2>3, <2>4 DEF Lose, Ping, Expire, vars, tableVars
<1>6. TablesTyped'
    BY <1>1, <1>2, <1>4, <1>5 DEF TablesTyped
<1> QED BY <1>3, <1>6

\* What goes wrong at a client.
LEMMA MishapTyping ==
    ASSUME HandshakeTyped, NEW p \in Peers, ClientMishap(p)
    PROVE  HandshakeTyped'
<1> USE DEF HandshakeTyped
<1>1. /\ UNCHANGED <<sessions, pending, accepted, serial, refused, mtu_final>>
      /\ net' \subseteq net /\ incidents' = incidents + 1
    BY MishapSteps
<1>2. ASSUME Reply1Stranger(p) PROVE ClientTyped'
    BY <1>2, RetriesAssumption DEF Reply1Stranger, UseAttempt, ClientTyped, Phases
<1>3. ASSUME NEW m \in net, Request2Fails(p, m) PROVE ClientTyped'
    BY <1>3 DEF Request2Fails, ClientTyped, Phases
<1>4. ClientTyped'
    BY <1>2, <1>3 DEF ClientMishap
<1>5. NetTyped' /\ TablesTyped'
    BY <1>1 DEF NetTyped, TablesTyped
<1> QED BY <1>4, <1>5

\* The types hold at first.
LEMMA TypingInit == Init => HandshakeTyped
<1> SUFFICES ASSUME Init PROVE HandshakeTyped
    OBVIOUS
<1>1. ClientTyped
    BY RetriesAssumption DEF Init, ClientTyped, Phases
<1>2. NetTyped
    BY DEF Init, NetTyped
<1>3. DOMAIN sessions = {} /\ DOMAIN pending = {} /\ serial = 0 /\ incidents = 0
    BY DEF Init
<1>4. TablesTyped
    BY <1>3 DEF TablesTyped
<1> QED BY <1>1, <1>2, <1>4 DEF HandshakeTyped

\* Every step keeps them.
LEMMA TypingStep == HandshakeTyped /\ [Next]_vars => HandshakeTyped'
BY ClientTyping, MishapTyping, ListenerTyping, OtherTyping DEF Next
-----------------------------------------------------------------------------
(* The bound of the pending table, and with it the type invariant.         *)

PendingBound == Cardinality(DOMAIN pending) <= max_pending_connections

\* Only an accepted first request adds an entry.
LEMMA PendingGrows ==
    ASSUME [Next]_vars, ~\E m \in net : Request1Accepted(m)
    PROVE  DOMAIN pending' \subseteq DOMAIN pending
<1>1. CASE \E p \in Peers : ClientStep(p)
    BY <1>1 DEF ClientStep, Probe, Reply1Timeout, Reply1Ignored, Reply1Received, Reply2Ignored,
                Reply2Received, Reply2Timeout, tableVars
<1>2. CASE ListenerStep
    BY <1>2 DEF ListenerStep, Request1NoFree, Request1Dropped, Request2Unknown, Request2Mismatch,
                Request2Accepted, Retained, Restrict, Unexpired
<1>3. CASE Ping
    BY <1>3 DEF Ping, Retained, Restrict, Unexpired
<1>4. CASE \E p \in Peers : Expire(p)
    BY <1>4 DEF Expire
<1>5. CASE Lose \/ UNCHANGED vars \/ \E p \in Peers : SessionOpens(p) \/ SessionEnds(p) \/ SendAfterEnd(p)
    BY <1>5 DEF Lose, SessionOpens, SessionEnds, SendAfterEnd, vars, tableVars
<1>6. CASE \E p \in Peers : ClientMishap(p)
    BY <1>6, MishapSteps
<1> QED BY <1>1, <1>2, <1>3, <1>4, <1>5, <1>6 DEF Next

\* It is checked against the entries that have not expired, which are kept.
LEMMA PendingBoundStep == HandshakeTyped /\ PendingBound /\ [Next]_vars => PendingBound'
<1> SUFFICES ASSUME HandshakeTyped, PendingBound, [Next]_vars PROVE PendingBound'
    OBVIOUS
<1>1. DOMAIN pending \subseteq Peers /\ \A m \in net : m.peer \in Peers
    BY DEF HandshakeTyped, TablesTyped, NetTyped, GoodDatagram
<1>2. CASE ~\E m \in net : Request1Accepted(m)
    <2>1. DOMAIN pending' \subseteq DOMAIN pending
        BY <1>2, PendingGrows
    <2>2. Cardinality(DOMAIN pending') <= Cardinality(DOMAIN pending)
        BY <1>1, <2>1, SizeOfSubsets, FS_Subset
    <2>3. Cardinality(DOMAIN pending') \in Nat /\ Cardinality(DOMAIN pending) \in Nat
        BY <1>1, <2>1, SizeOfSubsets
    <2> QED BY <2>2, <2>3, LimitsAssumption DEF PendingBound
<1>3. ASSUME NEW m \in net, Request1Accepted(m) PROVE PendingBound'
    <2>1. DOMAIN pending' = Unexpired \cup {m.peer} /\ Unexpired \subseteq DOMAIN pending
        BY <1>3, RetainedDomain DEF Request1Accepted, Insert
    <2>2. Cardinality(Unexpired \cup {m.peer}) <= Cardinality(Unexpired) + 1
        BY <1>1, <2>1, SizeOfOneMore
    <2>3. Cardinality(Unexpired) < max_pending_connections
        BY <1>3 DEF Request1Accepted, Room
    <2>4. Cardinality(Unexpired \cup {m.peer}) \in Nat /\ Cardinality(Unexpired) \in Nat
        BY <1>1, <2>1, SizeOfSubsets, Unexpired \cup {m.peer} \subseteq Peers
    <2> QED BY <2>1, <2>2, <2>3, <2>4, LimitsAssumption DEF PendingBound
<1> QED BY <1>2, <1>3

\* What the types and the bound say in the terms of OfflineTypeOK.
LEMMA TypingImplies == HandshakeTyped /\ PendingBound => OfflineTypeOK
<1> SUFFICES ASSUME HandshakeTyped, PendingBound PROVE OfflineTypeOK
    OBVIOUS
<1>1. Len(MTU_SIZES) + 1 = 4
    BY DEF MTU_SIZES
<1>2. /\ phase \in [Peers -> {"probe", "wait1", "wait2", "done", "failed"}]
      /\ \A p \in Peers : probe[p] \in 1 .. 4 /\ attempts[p] \in 0 .. HANDSHAKE_RETRIES
    BY DEF HandshakeTyped, ClientTyped, Phases
<1>3. GeneratedCookies(serial) \subseteq Cookies
    BY CookieFacts DEF HandshakeTyped, TablesTyped, Cookies
<1>4. \A p \in DOMAIN pending : pending[p].mtu \in MINIMUM_MTU_SIZE .. max_mtu /\ pending[p].cookie \in Cookies
    BY <1>3 DEF HandshakeTyped, TablesTyped, Entries, ReplySizes
<1>5. \A p \in DOMAIN sessions : /\ sessions[p].mtu \in MINIMUM_MTU_SIZE .. 65535
                                 /\ sessions[p].cookie \in Cookies \cup {NoCookie}
    BY <1>3 DEF HandshakeTyped, TablesTyped, SessionEntries, SessionSizes
<1> QED BY <1>1, <1>2, <1>4, <1>5 DEF OfflineTypeOK, PendingBound

\* The tables hold clamped sizes and generated cookies, handle_offline keeps
\* the pending table within max_pending_connections, and the client's counters
\* stay within the probes and receptions there are.
THEOREM OfflineTypeOKHolds == Spec => []OfflineTypeOK
<1>1. Init => HandshakeTyped /\ PendingBound
    <2> SUFFICES ASSUME Init PROVE PendingBound
        BY TypingInit
    <2>1. DOMAIN pending = {}
        BY DEF Init
    <2> QED BY <2>1, FS_EmptySet, LimitsAssumption DEF PendingBound
<1>2. HandshakeTyped /\ PendingBound /\ [Next]_vars => (HandshakeTyped /\ PendingBound)'
    BY TypingStep, PendingBoundStep
<1>3. HandshakeTyped /\ PendingBound => OfflineTypeOK
    BY TypingImplies
<1> QED BY <1>1, <1>2, <1>3, PTL DEF Spec

-----------------------------------------------------------------------------
(***************************************************************************)
(* Whose cookie is where.  A client sends one second request, so that all  *)
(* of its copies carry one cookie and one size; an entry and the reply     *)
(* with its cookie name one size; and a session has the cookie of its      *)
(* client's request, which no later entry has.                             *)
(***************************************************************************)
Requested == {"wait2", "done", "failed"}

Replies == {m \in net : m.type = "reply1"}
Requests == {m \in net : m.type = "request2"}

ReplyNames ==
    \A m \in Replies :
        m.peer \in DOMAIN pending /\ pending[m.peer].cookie = m.cookie => pending[m.peer].mtu = m.mtu

RequestNames ==
    \A m \in Requests :
        /\ phase[m.peer] \in Requested
        /\ m.mtu = mtu_final[m.peer]
        /\ m.peer \in DOMAIN pending /\ pending[m.peer].cookie = m.cookie => m.mtu <= pending[m.peer].mtu
        /\ \A n \in Requests : n.peer = m.peer => n.cookie = m.cookie

SessionNames ==
    \A p \in Admitted :
        /\ phase[p] \in Requested
        /\ sessions[p].mtu = mtu_final[p]
        /\ \A m \in Requests : m.peer = p => m.cookie = sessions[p].cookie
        /\ p \in DOMAIN pending => pending[p].cookie # sessions[p].cookie

HandshakeInv == HandshakeTyped /\ ReplyNames /\ RequestNames /\ SessionNames

\* A step that sends no cookie, makes no entry and no session of a handshake.
Neutral ==
    /\ UNCHANGED <<serial, mtu_final>>
    /\ Replies' \subseteq Replies /\ Requests' \subseteq Requests
    /\ \A p \in Peers : phase[p] \in Requested => phase'[p] \in Requested
    /\ \A p \in DOMAIN pending' : /\ p \in DOMAIN pending
                                  /\ pending'[p].cookie = pending[p].cookie
                                  /\ pending'[p].mtu = pending[p].mtu
    /\ Admitted' \subseteq Admitted
    /\ \A p \in Admitted' : /\ sessions'[p].cookie = sessions[p].cookie
                            /\ sessions'[p].mtu = sessions[p].mtu

\* Such a step keeps the names.
LEMMA NeutralKeepsNames ==
    ASSUME HandshakeInv, Neutral
    PROVE  ReplyNames' /\ RequestNames' /\ SessionNames'
<1>1. \A m \in net : m.peer \in Peers
    BY DEF HandshakeInv, HandshakeTyped, NetTyped, GoodDatagram
<1>2. \A p \in Admitted : p \in Peers
    BY DEF HandshakeInv, HandshakeTyped, TablesTyped, Admitted
<1>3. Replies \subseteq net /\ Requests \subseteq net
    BY DEF Replies, Requests
<1>4. ReplyNames'
    BY DEF Neutral, HandshakeInv, ReplyNames
<1>5. RequestNames'
    BY <1>1, <1>3 DEF Neutral, HandshakeInv, RequestNames
<1>6. SessionNames'
    BY <1>2 DEF Neutral, HandshakeInv, SessionNames
<1> QED BY <1>4, <1>5, <1>6

\* What stays of the network when a datagram without a cookie is the answer.
LEMMA PlainTake ==
    ASSUME HandshakeTyped, NEW m \in net, NEW answers, Take(m, answers),
           \A a \in answers : a.type \notin {"reply1", "request2"}
    PROVE  Replies' \subseteq Replies /\ Requests' \subseteq Requests
<1>1. net' \subseteq net \cup answers
    BY TakeAddsAnswers DEF HandshakeTyped, TablesTyped
<1> QED BY <1>1 DEF Replies, Requests

\* The client's steps but for the one that sends its second request.
LEMMA ClientNeutral ==
    ASSUME HandshakeInv, NEW p \in Peers, ClientStep(p), ~\E m \in net : Reply1Received(p, m)
    PROVE  Neutral
<1>1. HandshakeTyped /\ phase \in [Peers -> Phases]
    BY DEF HandshakeInv, HandshakeTyped, ClientTyped
<1>2. UNCHANGED <<sessions, pending, serial, mtu_final>>
    BY DEF ClientStep, Probe, Reply1Timeout, UseAttempt, Reply1Ignored, Reply2Ignored,
           Reply2Received, Reply2Timeout, tableVars, clientVars
<1>3. /\ Replies' \subseteq Replies /\ Requests' \subseteq Requests
      /\ \A q \in Peers : phase[q] \in Requested => phase'[q] \in Requested
    <2>1. CASE Probe(p)
        <3>1. net' = net \/ \E x : net' = net \cup {Request1(p, x)}
            BY <2>1 DEF Probe
        <3>2. Replies' \subseteq Replies /\ Requests' \subseteq Requests
            BY <3>1, DatagramFields DEF Replies, Requests
        <3> QED BY <1>1, <2>1, <3>2 DEF Probe, Requested
    <2>2. CASE Reply1Timeout(p)
        BY <1>1, <2>2 DEF Reply1Timeout, UseAttempt, Requested, Replies, Requests
    <2>3. CASE Reply2Timeout(p)
        BY <1>1, <2>3 DEF Reply2Timeout, Requested, Replies, Requests
    <2>4. ASSUME NEW m \in net, Reply1Ignored(p, m) \/ Reply2Ignored(p, m) \/ Reply2Received(p, m)
          PROVE  /\ Replies' \subseteq Replies /\ Requests' \subseteq Requests
                 /\ \A q \in Peers : phase[q] \in Requested => phase'[q] \in Requested
        <3>1. Take(m, {})
            BY <2>4 DEF Reply1Ignored, Reply2Ignored, Reply2Received
        <3>2. Replies' \subseteq Replies /\ Requests' \subseteq Requests
            BY <1>1, <3>1, PlainTake
        <3> QED BY <1>1, <2>4, <3>2
                DEF Reply1Ignored, UseAttempt, Reply2Ignored, Reply2Received, clientVars, Requested
    <2> QED BY <2>1, <2>2, <2>3, <2>4 DEF ClientStep
<1> QED BY <1>2, <1>3 DEF Neutral, Admitted

\* A client in trouble had not sent a request with a cookie.
LEMMA MishapNeutral ==
    ASSUME HandshakeInv, NEW p \in Peers, ClientMishap(p)
    PROVE  Neutral
<1>1. phase \in [Peers -> Phases]
    BY DEF HandshakeInv, HandshakeTyped, ClientTyped
<1>2. UNCHANGED <<sessions, pending, serial, mtu_final>> /\ net' \subseteq net
    BY MishapSteps
<1>3. CASE Reply1Stranger(p)
    BY <1>1, <1>2, <1>3 DEF Reply1Stranger, UseAttempt, Neutral, Admitted, Requested, Replies, Requests
<1>4. ASSUME NEW m \in net, Request2Fails(p, m) PROVE Neutral
    BY <1>1, <1>2, <1>4 DEF Request2Fails, Neutral, Admitted, Requested, Replies, Requests
<1> QED BY <1>3, <1>4 DEF ClientMishap

\* The listener's steps but for the two that use a cookie.
LEMMA ListenerNeutral ==
    ASSUME HandshakeInv, NEW m \in net,
           \/ Request1NoFree(m) \/ Request1Dropped(m) \/ Request2Unknown(m) \/ Request2Mismatch(m)
    PROVE  Neutral
<1>1. UNCHANGED <<clientVars, sessions, serial>> /\ HandshakeTyped
    BY DEF Request1NoFree, Request1Dropped, Request2Unknown, Request2Mismatch, HandshakeInv
<1>2. \A p \in DOMAIN pending' : p \in DOMAIN pending /\ pending'[p] = pending[p]
    BY DEF Request1NoFree, Request1Dropped, Request2Unknown, Request2Mismatch, Retained, Restrict,
           Unexpired
<1>3. \E answers : Take(m, answers) /\ \A a \in answers : a.type \notin {"reply1", "request2"}
    BY DatagramFields DEF Request1NoFree, Request1Dropped, Request2Unknown, Request2Mismatch
<1>4. Replies' \subseteq Replies /\ Requests' \subseteq Requests
    BY <1>1, <1>3, PlainTake
<1> QED BY <1>1, <1>2, <1>4 DEF Neutral, Admitted, clientVars

\* Losses, pings, expiries, the life of sessions, and stuttering.
LEMMA OthersNeutral ==
    ASSUME HandshakeInv, \/ Lose \/ Ping \/ UNCHANGED vars
                         \/ \E p \in Peers : Expire(p)
                         \/ \E p \in Peers : SessionOpens(p) \/ SessionEnds(p) \/ SendAfterEnd(p)
    PROVE  Neutral
<1>1. UNCHANGED <<clientVars, serial>> /\ net' \subseteq net
    <2>1. CASE Lose \/ Ping \/ UNCHANGED vars
        BY <2>1 DEF Lose, Ping, vars, tableVars
    <2>2. CASE \E p \in Peers : Expire(p)
        BY <2>2 DEF Expire
    <2>3. CASE \E p \in Peers : SessionOpens(p) \/ SessionEnds(p) \/ SendAfterEnd(p)
        BY <2>3 DEF SessionOpens, SessionEnds, SendAfterEnd
    <2> QED BY <2>1, <2>2, <2>3
<1>2. Replies' \subseteq Replies /\ Requests' \subseteq Requests
    BY <1>1 DEF Replies, Requests
<1>3. /\ \A p \in DOMAIN pending : pending[p] \in Entries(serial)
      /\ \A p \in DOMAIN sessions : sessions[p] \in SessionEntries(serial)
    BY DEF HandshakeInv, HandshakeTyped, TablesTyped
<1>4. \A p \in DOMAIN pending' : /\ p \in DOMAIN pending
                                 /\ pending'[p].cookie = pending[p].cookie
                                 /\ pending'[p].mtu = pending[p].mtu
    <2>1. CASE Ping
        BY <2>1 DEF Ping, Retained, Restrict, Unexpired
    <2>2. CASE \E p \in Peers : Expire(p)
        BY <1>3, <2>2 DEF Expire, Entries
    <2>3. CASE UNCHANGED pending
        BY <2>3
    <2> QED BY <2>1, <2>2, <2>3 DEF Lose, SessionOpens, SessionEnds, SendAfterEnd, vars, tableVars
<1>5. /\ Admitted' \subseteq Admitted
      /\ \A p \in Admitted' : /\ sessions'[p].cookie = sessions[p].cookie
                              /\ sessions'[p].mtu = sessions[p].mtu
    <2>1. ASSUME NEW p \in Peers, SessionOpens(p)
          PROVE  \A q \in DOMAIN sessions' : /\ q \in DOMAIN sessions
                                             /\ sessions'[q].cookie = sessions[q].cookie
                                             /\ sessions'[q].mtu = sessions[q].mtu
        BY <1>3, <2>1 DEF SessionOpens, SessionEntries
    <2>2. ASSUME NEW p \in Peers, SessionEnds(p)
          PROVE  \A q \in DOMAIN sessions' : q \in DOMAIN sessions /\ sessions'[q] = sessions[q]
        BY <2>2 DEF SessionEnds, Restrict
    <2>3. ASSUME NEW p \in Peers, SendAfterEnd(p)
          PROVE  \A q \in DOMAIN sessions' : \/ q \in DOMAIN sessions /\ sessions'[q] = sessions[q]
                                             \/ sessions'[q].cookie = NoCookie
        BY <2>3 DEF SendAfterEnd, Insert
    <2>4. CASE UNCHANGED sessions
        BY <2>4 DEF Admitted
    <2> QED BY <2>1, <2>2, <2>3, <2>4 DEF Lose, Ping, Expire, vars, tableVars, Admitted
<1> QED BY <1>1, <1>2, <1>4, <1>5 DEF Neutral, clientVars
\* The client's second request carries the cookie and at most the size of the
\* reply it answers.
LEMMA Request2Names ==
    ASSUME HandshakeInv, NEW p \in Peers, NEW m \in net, Reply1Received(p, m)
    PROVE  ReplyNames' /\ RequestNames' /\ SessionNames'
<1> DEFINE final == Negotiated(MTU_SIZES[probe[p]], m.mtu)
           request == Request2(p, m.cookie, final)
<1>1. /\ phase[p] = "wait1" /\ m.peer = p /\ m.type = "reply1" /\ Take(m, {request})
      /\ mtu_final' = [mtu_final EXCEPT ![p] = final]
      /\ phase' = [phase EXCEPT ![p] = "wait2"]
      /\ UNCHANGED <<pending, sessions, serial>>
    BY DEF Reply1Received, tableVars
<1>2. /\ phase \in [Peers -> Phases] /\ mtu_final \in [Peers -> Nat] /\ incidents \in Nat
      /\ \A d \in net : d.peer \in Peers /\ Admitted \subseteq Peers
    BY DEF HandshakeInv, HandshakeTyped, ClientTyped, NetTyped, GoodDatagram, TablesTyped, Admitted
<1>3. final <= m.mtu
    <2>1. probe[p] \in 1 .. 3 /\ m.mtu \in ReplySizes
        BY <1>1 DEF HandshakeInv, HandshakeTyped, ClientTyped, NetTyped, GoodDatagram
    <2> QED BY <2>1, NegotiatedSize
<1>4. request.type = "request2" /\ request.peer = p /\ request.cookie = m.cookie /\ request.mtu = final
    BY DatagramFields
<1> HIDE DEF final, request
<1>5. phase'[p] = "wait2" /\ mtu_final'[p] = final
    BY <1>1, <1>2
<1>6. \A q \in Peers \ {p} : phase'[q] = phase[q] /\ mtu_final'[q] = mtu_final[q]
    BY <1>1, <1>2
<1>7. net' \subseteq net \cup {request}
    BY <1>1, <1>2, TakeAddsAnswers
<1>8. Replies' \subseteq Replies /\ Requests' \subseteq Requests \cup {request}
    BY <1>4, <1>7 DEF Replies, Requests
<1>9. Replies \subseteq net /\ Requests \subseteq net /\ m \in Replies
    BY <1>1 DEF Replies, Requests
<1>10. p \notin Admitted /\ \A d \in Requests : d.peer # p
    BY <1>1 DEF HandshakeInv, SessionNames, RequestNames, Requested
<1>11. Admitted' = Admitted
    BY <1>1 DEF Admitted
<1>12. ReplyNames'
    BY <1>1, <1>8 DEF HandshakeInv, ReplyNames
<1>13. RequestNames'
    <2>1. ASSUME NEW d \in Requests'
          PROVE  /\ phase'[d.peer] \in Requested
                 /\ d.mtu = mtu_final'[d.peer]
                 /\ d.peer \in DOMAIN pending' /\ pending'[d.peer].cookie = d.cookie
                        => d.mtu <= pending'[d.peer].mtu
                 /\ \A n \in Requests' : n.peer = d.peer => n.cookie = d.cookie
        <3>1. CASE d = request
            <4>1. p \in DOMAIN pending /\ pending[p].cookie = m.cookie => pending[p].mtu = m.mtu
                BY <1>1, <1>9 DEF HandshakeInv, ReplyNames
            <4>2. \A n \in Requests' : n.peer = p => n.cookie = m.cookie
                BY <1>4, <1>8, <1>10
            <4> QED BY <1>1, <1>3, <1>4, <1>5, <3>1, <4>1, <4>2 DEF Requested
        <3>2. CASE d \in Requests
            <4>1. d.peer \in Peers \ {p}
                BY <1>2, <1>9, <1>10, <3>2
            <4>2. \A n \in Requests' : n.peer = d.peer => n \in Requests
                BY <1>4, <1>8, <4>1
            <4> QED BY <1>1, <1>6, <3>2, <4>1, <4>2 DEF HandshakeInv, RequestNames
        <3> QED BY <1>8, <3>1, <3>2
    <2> QED BY <2>1 DEF RequestNames
<1>14. SessionNames'
    BY <1>1, <1>2, <1>4, <1>6, <1>8, <1>10, <1>11 DEF HandshakeInv, SessionNames
<1> QED BY <1>12, <1>13, <1>14

\* A first request makes an entry with a cookie that nothing else has.
LEMMA Request1Names ==
    ASSUME HandshakeInv, NEW m \in net, Request1Accepted(m)
    PROVE  ReplyNames' /\ RequestNames' /\ SessionNames'
<1> DEFINE mtu == clamp_mtu(mtu_guess(m), MINIMUM_MTU_SIZE, max_mtu)
<1>1. PICK cookie :
        /\ cookie \notin GeneratedCookies(serial)
        /\ pending' = Insert(Retained, m.peer, [mtu |-> mtu, cookie |-> cookie, expired |-> FALSE])
        /\ Take(m, {Reply1(m.peer, cookie, mtu)})
    BY NewCookie DEF Request1Accepted, HandshakeInv, HandshakeTyped, TablesTyped
<1>2. UNCHANGED <<clientVars, sessions>>
    BY DEF Request1Accepted
<1> DEFINE reply == Reply1(m.peer, cookie, mtu)
<1>3. reply.type = "reply1" /\ reply.peer = m.peer /\ reply.cookie = cookie /\ reply.mtu = mtu
    BY DatagramFields
<1>4. net' \subseteq net \cup {reply}
    BY <1>1, TakeAddsAnswers DEF HandshakeInv, HandshakeTyped, TablesTyped
<1>5. /\ DOMAIN pending' \subseteq DOMAIN pending \cup {m.peer}
      /\ pending'[m.peer].cookie = cookie /\ pending'[m.peer].mtu = mtu
      /\ \A q \in DOMAIN pending' : q # m.peer => q \in DOMAIN pending /\ pending'[q] = pending[q]
    BY <1>1 DEF Insert, Retained, Restrict, Unexpired
<1> HIDE DEF mtu, reply
<1>6. Replies' \subseteq Replies \cup {reply} /\ Requests' \subseteq Requests
    BY <1>3, <1>4 DEF Replies, Requests
<1>7. /\ \A d \in Replies : d.cookie \in GeneratedCookies(serial)
      /\ \A d \in Requests : d.cookie \in GeneratedCookies(serial)
    BY DEF HandshakeInv, HandshakeTyped, NetTyped, GoodDatagram, Replies, Requests
<1>8. \A p \in Admitted : sessions[p].cookie \in GeneratedCookies(serial)
    BY DEF HandshakeInv, HandshakeTyped, TablesTyped, SessionEntries, Admitted
<1>9. cookie \notin GeneratedCookies(serial)
    BY <1>1
<1>10. ReplyNames'
    BY <1>3, <1>5, <1>6, <1>7, <1>9 DEF HandshakeInv, ReplyNames
<1>11. RequestNames'
    <2>1. phase' = phase /\ mtu_final' = mtu_final
        BY <1>2 DEF clientVars
    <2> QED BY <2>1, <1>5, <1>6, <1>7, <1>9 DEF HandshakeInv, RequestNames
<1>12. SessionNames'
    <2>1. Admitted' = Admitted /\ phase' = phase /\ mtu_final' = mtu_final /\ sessions' = sessions
        BY <1>2 DEF Admitted, clientVars
    <2> QED BY <1>5, <1>6, <1>8, <1>9, <2>1 DEF HandshakeInv, SessionNames
<1> QED BY <1>10, <1>11, <1>12

\* A second request that is accepted makes the session of its client, with its
\* size, where there was none of a handshake.
LEMMA AcceptedNames ==
    ASSUME HandshakeInv, NEW m \in net, Request2Accepted(m)
    PROVE  /\ ReplyNames' /\ RequestNames' /\ SessionNames'
           /\ m.peer \notin Admitted
<1> DEFINE entry == pending[m.peer]
           new == [mtu |-> SessionMtu(m), connected |-> FALSE, cookie |-> entry.cookie]
<1>1. /\ m.type = "request2" /\ m.peer \in DOMAIN pending /\ CookieMatches(m)
      /\ pending' = Restrict(pending, Unexpired \ {m.peer})
      /\ sessions' = Insert(sessions, m.peer, new) \/ sessions' = sessions
      /\ UNCHANGED <<clientVars, serial>>
    BY DEF Request2Accepted, Unexpired
<1>2. m \in Requests /\ m.cookie \in GeneratedCookies(serial) /\ entry.cookie \in GeneratedCookies(serial)
      /\ serial \in Nat /\ m.mtu \in RequestSizes /\ entry.mtu \in ReplySizes
    BY <1>1 DEF HandshakeInv, HandshakeTyped, NetTyped, GoodDatagram, TablesTyped, Entries, Requests
<1>3. m.cookie = entry.cookie /\ entry.cookie # NoCookie
    BY <1>1, <1>2, CookieFacts DEF CookieMatches
<1>4. m.peer \notin Admitted
    BY <1>1, <1>2, <1>3 DEF HandshakeInv, SessionNames
<1>5. m.mtu <= entry.mtu
    BY <1>1, <1>2, <1>3 DEF HandshakeInv, RequestNames
<1>6. SessionMtu(m) = m.mtu
    <2>1. m.mtu \in Int /\ entry.mtu \in Int
        BY <1>2 DEF RequestSizes, ReplySizes
    <2> QED BY <1>5, <2>1 DEF SessionMtu, Minimum
<1>7. \A p \in DOMAIN pending' : p # m.peer /\ p \in DOMAIN pending /\ pending'[p] = pending[p]
    BY <1>1 DEF Restrict, Unexpired
<1>8. Replies' \subseteq Replies /\ Requests' \subseteq Requests
    <2>1. Take(m, {Reply2(m.peer, SessionMtu(m))}) \/ Take(m, {AlreadyConnected(m.peer)})
        BY DEF Request2Accepted
    <2>2. HandshakeTyped
        BY DEF HandshakeInv
    <2> QED BY <2>1, <2>2, DatagramFields, PlainTake
<1>9. new.mtu = m.mtu /\ new.cookie = m.cookie
    BY <1>3, <1>6
<1> HIDE DEF entry, new
<1>10. ReplyNames'
    BY <1>7, <1>8 DEF HandshakeInv, ReplyNames
<1>11. RequestNames'
    BY <1>1, <1>7, <1>8 DEF HandshakeInv, RequestNames, clientVars
<1>12. SessionNames'
    <2>1. CASE sessions' = sessions
        BY <1>1, <1>7, <1>8, <2>1 DEF HandshakeInv, SessionNames, clientVars, Admitted
    <2>2. CASE sessions' = Insert(sessions, m.peer, new)
        <3>1. /\ Admitted' \subseteq Admitted \cup {m.peer}
              /\ sessions'[m.peer] = new
              /\ \A p \in Admitted : p # m.peer => sessions'[p] = sessions[p]
            BY <2>2 DEF Insert, Admitted
        <3>2. /\ phase[m.peer] \in Requested /\ m.mtu = mtu_final[m.peer]
              /\ \A d \in Requests : d.peer = m.peer => d.cookie = m.cookie
            BY <1>2 DEF HandshakeInv, RequestNames
        <3>3. phase' = phase /\ mtu_final' = mtu_final
            BY <1>1 DEF clientVars
        <3>4. ASSUME NEW p \in Admitted', p # m.peer
              PROVE  /\ phase'[p] \in Requested
                     /\ sessions'[p].mtu = mtu_final'[p]
                     /\ \A d \in Requests' : d.peer = p => d.cookie = sessions'[p].cookie
                     /\ p \in DOMAIN pending' => pending'[p].cookie # sessions'[p].cookie
            BY <1>7, <1>8, <3>1, <3>3, <3>4 DEF HandshakeInv, SessionNames
        <3>5. /\ phase'[m.peer] \in Requested
              /\ sessions'[m.peer].mtu = mtu_final'[m.peer]
              /\ \A d \in Requests' : d.peer = m.peer => d.cookie = sessions'[m.peer].cookie
              /\ m.peer \notin DOMAIN pending'
            BY <1>7, <1>8, <1>9, <3>1, <3>2, <3>3
        <3> QED BY <3>4, <3>5 DEF SessionNames
    <2> QED BY <1>1, <2>1, <2>2
<1> QED BY <1>4, <1>10, <1>11, <1>12

\* The invariant of the cookies.
LEMMA HandshakeInvInit == Init => HandshakeInv
<1> SUFFICES ASSUME Init PROVE HandshakeInv
    OBVIOUS
<1>1. HandshakeTyped
    BY TypingInit
<1>2. Replies = {} /\ Requests = {} /\ Admitted = {}
    BY DEF Init, Replies, Requests, Admitted
<1> QED BY <1>1, <1>2 DEF HandshakeInv, ReplyNames, RequestNames, SessionNames

\* Every step keeps it.
LEMMA HandshakeInvStep == HandshakeInv /\ [Next]_vars => HandshakeInv'
<1> SUFFICES ASSUME HandshakeInv, [Next]_vars PROVE ReplyNames' /\ RequestNames' /\ SessionNames'
    BY TypingStep DEF HandshakeInv
<1>1. ASSUME NEW p \in Peers, ClientStep(p) PROVE ReplyNames' /\ RequestNames' /\ SessionNames'
    <2>1. CASE \E m \in net : Reply1Received(p, m)
        BY <2>1, Request2Names
    <2>2. CASE ~\E m \in net : Reply1Received(p, m)
        BY <1>1, <2>2, ClientNeutral, NeutralKeepsNames
    <2> QED BY <2>1, <2>2
<1>2. CASE ListenerStep
    BY <1>2, Request1Names, AcceptedNames, ListenerNeutral, NeutralKeepsNames DEF ListenerStep
<1>3. CASE \/ Lose \/ Ping \/ UNCHANGED vars
           \/ \E p \in Peers : Expire(p)
           \/ \E p \in Peers : SessionOpens(p) \/ SessionEnds(p) \/ SendAfterEnd(p)
    BY <1>3, OthersNeutral, NeutralKeepsNames
<1>4. CASE \E p \in Peers : ClientMishap(p)
    BY <1>4, MishapNeutral, NeutralKeepsNames
<1> QED BY <1>1, <1>2, <1>3, <1>4 DEF Next

\* A client that has finished and the session handle_offline made for it use
\* one MTU, whichever of its probes was answered, however late.
THEOREM MtuAgreedHolds == Spec => []MtuAgreed
<1>1. HandshakeInv => MtuAgreed
    BY DEF HandshakeInv, SessionNames, Admitted, MtuAgreed
<1> QED BY <1>1, HandshakeInvInit, HandshakeInvStep, PTL DEF Spec

\* No step replaces a session of a handshake or takes its connection back.
LEMMA SessionsKept ==
    ASSUME HandshakeInv, [Next]_vars,
           NEW p \in DOMAIN sessions \cap DOMAIN sessions', sessions[p].cookie # NoCookie
    PROVE  /\ sessions'[p].cookie = sessions[p].cookie
           /\ sessions[p].connected => sessions'[p].connected
<1>1. sessions[p] \in SessionEntries(serial)
    BY DEF HandshakeInv, HandshakeTyped, TablesTyped
<1>2. CASE UNCHANGED sessions
    BY <1>2
<1>3. ASSUME NEW m \in net, Request2Accepted(m) PROVE sessions'[p] = sessions[p]
    <2>1. p # m.peer
        BY <1>3, AcceptedNames DEF Admitted
    <2> QED BY <1>3, <2>1 DEF Request2Accepted, Insert
<1>4. ASSUME NEW q \in Peers, SessionEnds(q) PROVE sessions'[p] = sessions[p]
    BY <1>4 DEF SessionEnds, Restrict
<1>5. ASSUME NEW q \in Peers, SendAfterEnd(q) PROVE sessions'[p] = sessions[p]
    BY <1>5 DEF SendAfterEnd, Insert
<1>6. CASE \E q \in Peers : SessionOpens(q)
    <2>1. PICK q \in Peers : SessionOpens(q)
        BY <1>6
    <2>2. sessions' = [sessions EXCEPT ![q].connected = TRUE]
        BY <2>1 DEF SessionOpens
    <2> QED BY <1>1, <2>2 DEF SessionEntries
<1>7. \/ UNCHANGED sessions
      \/ \E m \in net : Request2Accepted(m)
      \/ \E q \in Peers : SessionOpens(q) \/ SessionEnds(q) \/ SendAfterEnd(q)
    <2>1. CASE \E q \in Peers : ClientStep(q)
        BY <2>1 DEF ClientStep, Probe, Reply1Timeout, Reply1Ignored, Reply1Received, Reply2Ignored,
                    Reply2Received, Reply2Timeout, tableVars
    <2>2. CASE ListenerStep
        BY <2>2 DEF ListenerStep, Request1NoFree, Request1Dropped, Request1Accepted, Request2Unknown,
                    Request2Mismatch
    <2>3. CASE Lose \/ Ping \/ UNCHANGED vars \/ \E q \in Peers : Expire(q)
        BY <2>3 DEF Lose, Ping, Expire, vars, tableVars
    <2>4. CASE \E q \in Peers : ClientMishap(q)
        BY <2>4, MishapSteps
    <2> QED BY <2>1, <2>2, <2>3, <2>4 DEF Next
<1> QED BY <1>2, <1>3, <1>4, <1>5, <1>6, <1>7

\* sessions.insert replaces whatever is there, but never the session of a
\* handshake: a late or repeated request finds an entry with another cookie.
THEOREM SessionStableHolds == Spec => SessionStable
<1> DEFINE Kept == \A p \in DOMAIN sessions \cap DOMAIN sessions' :
                      phase[p] = "done" /\ sessions[p].cookie # NoCookie
                          => /\ sessions'[p].cookie = sessions[p].cookie
                             /\ sessions[p].connected => sessions'[p].connected
<1>1. HandshakeInv /\ [Next]_vars => [Kept]_vars
    BY SessionsKept
<1>2. SessionStable <=> [][Kept]_vars
    BY DEF SessionStable
<1> HIDE DEF Kept
<1> QED BY <1>1, <1>2, HandshakeInvInit, HandshakeInvStep, PTL DEF Spec
-----------------------------------------------------------------------------
(***************************************************************************)
(* A handshake in which nothing goes wrong.  As long as there has been no  *)
(* incident and the listener has not turned p away, p is at its first      *)
(* probe and exactly one datagram of it is under way: the one its phase    *)
(* waits for, and if that carries a cookie, the entry it names has not     *)
(* expired.                                                                *)
(***************************************************************************)
Mail(p) == {m \in net : m.peer = p}

Entitled(m) == m.peer \in Unexpired /\ pending[m.peer].cookie = m.cookie

AtProbe(p) == phase[p] = "probe" /\ probe[p] = 1 /\ Mail(p) = {}

AtWait1(p, m) ==
    /\ phase[p] = "wait1" /\ probe[p] = 1 /\ Mail(p) = {m}
    /\ m.type = "request1" \/ (m.type = "reply1" /\ Entitled(m))

AtWait2(p, m) ==
    /\ phase[p] = "wait2" /\ Mail(p) = {m}
    /\ m.type = "reply2" \/ (m.type = "request2" /\ Entitled(m))

OnCourse(p) ==
    AtProbe(p) \/ (\E m \in net : AtWait1(p, m) \/ AtWait2(p, m)) \/ phase[p] = "done"

Smooth == \A p \in Peers : incidents = 0 /\ p \notin refused => OnCourse(p)

SmoothInv == HandshakeTyped /\ Smooth

\* Nothing of what OnCourse(p) says changes.
Unconcerned(p) ==
    /\ phase'[p] = phase[p] /\ probe'[p] = probe[p] /\ Mail(p)' = Mail(p)
    /\ p \in Unexpired => p \in Unexpired' /\ pending'[p] = pending[p]

\* A client on its course stays there when a step does not concern it.
LEMMA UnconcernedOnCourse ==
    ASSUME NEW p \in Peers, OnCourse(p), Unconcerned(p)
    PROVE  OnCourse(p)'
<1>1. CASE AtProbe(p) \/ phase[p] = "done"
    BY <1>1 DEF AtProbe, OnCourse, Unconcerned
<1>2. ASSUME NEW m \in net, AtWait1(p, m) \/ AtWait2(p, m) PROVE OnCourse(p)'
    <2>1. m \in net' /\ m.peer = p
        BY <1>2 DEF AtWait1, AtWait2, Unconcerned, Mail
    <2>2. Entitled(m) => Entitled(m)'
        BY <2>1 DEF Entitled, Unconcerned
    <2>3. AtWait1(p, m)' \/ AtWait2(p, m)'
        BY <1>2, <2>2 DEF AtWait1, AtWait2, Unconcerned
    <2> QED BY <2>1, <2>3 DEF OnCourse
<1> QED BY <1>1, <1>2 DEF OnCourse

\* Incidents and refusals are never taken back.
LEMMA Records ==
    ASSUME HandshakeTyped, [Next]_vars
    PROVE  incidents \in Nat /\ incidents' \in Nat /\ incidents <= incidents' /\ refused \subseteq refused'
<1>1. incidents \in Nat
    BY DEF HandshakeTyped, TablesTyped
<1>2. ASSUME NEW p \in Peers, ClientStep(p)
      PROVE  incidents' \in Nat /\ incidents <= incidents' /\ refused \subseteq refused'
    <2>1. ASSUME NEW m \in net, NEW answers, Take(m, answers)
          PROVE  incidents' \in Nat /\ incidents <= incidents'
        BY <1>1, <2>1, TakeAddsAnswers
    <2>2. refused' = refused
        BY <1>2 DEF ClientStep, Probe, Reply1Timeout, Reply1Ignored, Reply1Received, Reply2Ignored,
                    Reply2Received, Reply2Timeout, tableVars
    <2>3. CASE Probe(p) \/ Reply1Timeout(p) \/ Reply2Timeout(p)
        BY <1>1, <2>2, <2>3 DEF Probe, Reply1Timeout, Reply2Timeout, TimeoutOf, Incident
    <2>4. CASE \E m \in net : \/ Reply1Ignored(p, m) \/ Reply1Received(p, m)
                              \/ Reply2Ignored(p, m) \/ Reply2Received(p, m)
        BY <2>1, <2>2, <2>4 DEF Reply1Ignored, Reply1Received, Reply2Ignored, Reply2Received
    <2> QED BY <1>2, <2>3, <2>4 DEF ClientStep
<1>3. CASE ListenerStep
    <2>1. \E m \in net : \E answers : Take(m, answers)
        BY <1>3 DEF ListenerStep, Request1NoFree, Request1Dropped, Request1Accepted, Request2Unknown,
                    Request2Mismatch, Request2Accepted
    <2>2. refused \subseteq refused'
        BY <1>3 DEF ListenerStep, Request1NoFree, Request1Dropped, Request1Accepted, Request2Unknown,
                    Request2Mismatch, Request2Accepted
    <2> QED BY <1>1, <2>1, <2>2, TakeAddsAnswers
<1>4. CASE Lose \/ Ping \/ UNCHANGED vars
    BY <1>1, <1>4 DEF Lose, Ping, Incident, vars, tableVars
<1>5. CASE \E p \in Peers : Expire(p)
    BY <1>1, <1>5 DEF Expire, Incident
<1>6. CASE \E p \in Peers : SessionOpens(p) \/ SessionEnds(p) \/ SendAfterEnd(p)
    BY <1>1, <1>6 DEF SessionOpens, SessionEnds, SendAfterEnd
<1>7. CASE \E p \in Peers : ClientMishap(p)
    BY <1>1, <1>7, MishapSteps
<1> QED BY <1>1, <1>2, <1>3, <1>4, <1>5, <1>6, <1>7 DEF Next

\* Without an incident a datagram that is taken is gone.
LEMMA TakeMail ==
    ASSUME NEW m \in net, NEW answers, NEW p, Take(m, answers), HandshakeTyped, incidents' = incidents,
           \A a \in answers : a.peer = m.peer
    PROVE  /\ m.peer # p => Mail(p)' = Mail(p)
           /\ m.peer = p /\ Mail(p) = {m} => Mail(p)' = answers
<1>1. net' = (net \ {m}) \cup answers
    BY TakeAddsAnswers DEF HandshakeTyped, TablesTyped
<1> QED BY <1>1 DEF Mail

\* The client's own steps, without an incident.
LEMMA OwnSteps ==
    ASSUME HandshakeTyped, NEW p \in Peers, OnCourse(p), ClientStep(p), incidents' = incidents
    PROVE  OnCourse(p)'
<1>1. phase \in [Peers -> Phases] /\ probe \in [Peers -> 1 .. 4] /\ incidents \in Nat
    BY DEF HandshakeTyped, ClientTyped, TablesTyped
<1>2. ~Incident
    BY <1>1 DEF Incident
<1>3. pending' = pending
    BY DEF ClientStep, Probe, Reply1Timeout, Reply1Ignored, Reply1Received, Reply2Ignored,
           Reply2Received, Reply2Timeout, tableVars
<1>4. \A m \in net : m.peer = p => m \in Mail(p)
    BY DEF Mail
<1>5. CASE Probe(p)
    <2>1. AtProbe(p)
        BY <1>5 DEF Probe, OnCourse, AtProbe, AtWait1, AtWait2
    <2>2. Len(MTU_SIZES) = 3
        BY DEF MTU_SIZES
    <2>3. /\ phase' = [phase EXCEPT ![p] = "wait1"] /\ probe' = probe
          /\ \E x : net' = net \cup {Request1(p, x)}
        BY <1>2, <1>5, <2>1, <2>2 DEF Probe, AtProbe
    <2>4. PICK x : net' = net \cup {Request1(p, x)}
        BY <2>3
    <2>5. (Request1(p, x)).type = "request1" /\ (Request1(p, x)).peer = p
        BY DatagramFields
    <2>6. Mail(p)' = {Request1(p, x)} /\ Request1(p, x) \in net'
        BY <2>1, <2>4, <2>5 DEF AtProbe, Mail
    <2>7. AtWait1(p, Request1(p, x))'
        BY <1>1, <2>1, <2>3, <2>5, <2>6 DEF AtWait1, AtProbe
    <2> QED BY <2>6, <2>7 DEF OnCourse
<1>6. CASE Reply1Timeout(p) \/ Reply2Timeout(p)
    <2>1. Quiet(p) /\ phase[p] \in {"wait1", "wait2"}
        BY <1>2, <1>6 DEF Reply1Timeout, Reply2Timeout, TimeoutOf
    <2>2. Mail(p) = {}
        BY <2>1 DEF Quiet, Mail
    <2> QED BY <2>1, <2>2 DEF OnCourse, AtProbe, AtWait1, AtWait2
<1>7. ASSUME NEW m \in net, Reply1Ignored(p, m) \/ Reply2Ignored(p, m) PROVE FALSE
    <2>1. m \in Mail(p) /\ phase[p] \in {"wait1", "wait2"}
        BY <1>4, <1>7 DEF Reply1Ignored, Reply2Ignored
    <2>2. PICK n \in net : AtWait1(p, n) \/ AtWait2(p, n)
        BY <2>1 DEF OnCourse, AtProbe
    <2>3. n = m
        BY <2>1, <2>2 DEF AtWait1, AtWait2
    <2> QED BY <1>7, <2>2, <2>3 DEF Reply1Ignored, Reply2Ignored, AtWait1, AtWait2
<1>8. ASSUME NEW m \in net, Reply1Received(p, m) PROVE OnCourse(p)'
    <2>1. PICK final : /\ phase[p] = "wait1" /\ m.peer = p /\ m.type = "reply1"
                       /\ Take(m, {Request2(p, m.cookie, final)})
                       /\ phase' = [phase EXCEPT ![p] = "wait2"]
        BY <1>8 DEF Reply1Received
    <2> DEFINE request == Request2(p, m.cookie, final)
    <2>2. request.type = "request2" /\ request.peer = p /\ request.cookie = m.cookie
        BY DatagramFields
    <2> HIDE DEF request
    <2>3. PICK n \in net : AtWait1(p, n)
        BY <2>1 DEF OnCourse, AtProbe, AtWait2
    <2>4. n = m
        BY <1>4, <2>1, <2>3 DEF AtWait1
    <2>5. Entitled(m) /\ Mail(p) = {m}
        BY <2>1, <2>3, <2>4 DEF AtWait1
    <2>6. Mail(p)' = {request}
        BY <2>1, <2>2, <2>5, TakeMail DEF request
    <2>7. Entitled(request)'
        BY <1>3, <2>1, <2>2, <2>5 DEF Entitled, Unexpired
    <2>8. request \in net' /\ AtWait2(p, request)'
        BY <1>1, <2>1, <2>2, <2>6, <2>7 DEF AtWait2, Mail
    <2> QED BY <2>8 DEF OnCourse
<1>9. ASSUME NEW m \in net, Reply2Received(p, m) PROVE OnCourse(p)'
    BY <1>1, <1>9 DEF Reply2Received, OnCourse
<1> QED BY <1>5, <1>6, <1>7, <1>8, <1>9 DEF ClientStep

\* Another client's step does not concern this one.
LEMMA OthersSteps ==
    ASSUME HandshakeTyped, NEW p \in Peers, NEW q \in Peers, q # p, ClientStep(q), incidents' = incidents
    PROVE  Unconcerned(p)
<1>1. phase \in [Peers -> Phases] /\ probe \in [Peers -> 1 .. 4]
    BY DEF HandshakeTyped, ClientTyped
<1>2. pending' = pending
    BY DEF ClientStep, Probe, Reply1Timeout, Reply1Ignored, Reply1Received, Reply2Ignored,
           Reply2Received, Reply2Timeout, tableVars
<1>3. phase'[p] = phase[p] /\ probe'[p] = probe[p]
    BY <1>1 DEF ClientStep, Probe, Reply1Timeout, Reply1Ignored, Reply1Received, Reply2Ignored,
                Reply2Received, Reply2Timeout, UseAttempt, clientVars
<1>4. Mail(p)' = Mail(p)
    <2>1. CASE Probe(q)
        <3>1. net' = net \/ \E x : net' = net \cup {Request1(q, x)}
            BY <2>1 DEF Probe
        <3> QED BY <3>1, DatagramFields DEF Mail
    <2>2. CASE Reply1Timeout(q) \/ Reply2Timeout(q)
        BY <2>2 DEF Reply1Timeout, Reply2Timeout, Mail
    <2>3. ASSUME NEW m \in net, \/ Reply1Ignored(q, m) \/ Reply1Received(q, m)
                                \/ Reply2Ignored(q, m) \/ Reply2Received(q, m)
          PROVE  Mail(p)' = Mail(p)
        <3>1. m.peer = q /\ (Take(m, {}) \/ \E c, x : Take(m, {Request2(q, c, x)}))
            BY <2>3 DEF Reply1Ignored, Reply1Received, Reply2Ignored, Reply2Received
        <3>2. CASE Take(m, {})
            BY <3>1, <3>2, TakeMail
        <3>3. ASSUME NEW c, NEW x, Take(m, {Request2(q, c, x)}) PROVE Mail(p)' = Mail(p)
            BY <3>1, <3>3, TakeMail, DatagramFields
        <3> QED BY <3>1, <3>2, <3>3
    <2> QED BY <2>1, <2>2, <2>3 DEF ClientStep
<1> QED BY <1>2, <1>3, <1>4 DEF Unconcerned, Unexpired

\* The listener answers what the client is waiting for, if it does not turn it
\* away, and leaves the others alone.
LEMMA AnsweredOnCourse ==
    ASSUME HandshakeTyped, NEW p \in Peers, OnCourse(p), ListenerStep,
           incidents' = incidents, p \notin refused'
    PROVE  OnCourse(p)'
<1>1. PICK m \in net :
        \/ Request1NoFree(m) \/ Request1Dropped(m)
        \/ Request1Accepted(m)
        \/ Request2Unknown(m) \/ Request2Mismatch(m) \/ Request2Accepted(m)
    BY DEF ListenerStep
<1>2. UNCHANGED <<phase, probe>>
    BY <1>1 DEF Request1NoFree, Request1Dropped, Request1Accepted, Request2Unknown,
                Request2Mismatch, Request2Accepted, clientVars
<1>3. PICK answers : Take(m, answers) /\ \A a \in answers : a.peer = m.peer
    <2>1. CASE Request1Accepted(m)
        BY <2>1, DatagramFields DEF Request1Accepted
    <2>2. CASE Request2Unknown(m)
        BY <2>2, DatagramFields DEF Request2Unknown
    <2>3. CASE Request2Accepted(m)
        BY <2>3, DatagramFields DEF Request2Accepted
    <2>4. CASE Request1NoFree(m) \/ Request1Dropped(m) \/ Request2Mismatch(m)
        BY <2>4, DatagramFields DEF Request1NoFree, Request1Dropped, Request2Mismatch
    <2> QED BY <1>1, <2>1, <2>2, <2>3, <2>4
<1>4. CASE phase[p] = "done"
    BY <1>2, <1>4 DEF OnCourse
<1>5. CASE m.peer # p
    <2>1. Mail(p)' = Mail(p)
        BY <1>3, <1>5, TakeMail
    <2>2. p \in Unexpired => p \in DOMAIN pending' /\ pending'[p] = pending[p]
        BY <1>1, <1>5
        DEF Request1NoFree, Request1Dropped, Request1Accepted, Request2Unknown, Request2Mismatch,
            Request2Accepted, Retained, Restrict, Insert
    <2>3. Unconcerned(p)
        BY <1>2, <2>1, <2>2 DEF Unconcerned, Unexpired
    <2> QED BY <2>3, UnconcernedOnCourse
<1>6. CASE m.peer = p /\ phase[p] # "done"
    <2>1. m \in Mail(p)
        BY <1>6 DEF Mail
    <2>2. AtWait1(p, m) \/ AtWait2(p, m)
        BY <1>6, <2>1 DEF OnCourse, AtProbe, AtWait1, AtWait2
    <2>3. CASE AtWait1(p, m)
        <3>1. Request1Accepted(m)
            BY <1>1, <1>6, <2>3
            DEF AtWait1, Request1NoFree, Request1Dropped, Request2Unknown, Request2Mismatch,
                Request2Accepted
        <3>2. PICK x, cookie :
                /\ pending' = Insert(Retained, p, [mtu |-> x, cookie |-> cookie, expired |-> FALSE])
                /\ Take(m, {Reply1(p, cookie, x)})
            BY <1>6, <3>1 DEF Request1Accepted
        <3>3. /\ (Reply1(p, cookie, x)).type = "reply1" /\ (Reply1(p, cookie, x)).peer = p
              /\ (Reply1(p, cookie, x)).cookie = cookie
            BY DatagramFields
        <3>4. Mail(p)' = {Reply1(p, cookie, x)}
            BY <1>6, <2>3, <3>2, <3>3, TakeMail DEF AtWait1
        <3>5. p \in DOMAIN pending' /\ ~pending'[p].expired /\ pending'[p].cookie = cookie
            BY <3>2 DEF Insert
        <3>6. Entitled(Reply1(p, cookie, x))'
            BY <3>3, <3>5 DEF Entitled, Unexpired
        <3>7. Reply1(p, cookie, x) \in net' /\ AtWait1(p, Reply1(p, cookie, x))'
            BY <1>2, <2>3, <3>3, <3>4, <3>6 DEF AtWait1, Mail
        <3> QED BY <3>7 DEF OnCourse
    <2>4. CASE AtWait2(p, m)
        <3>1. m.type = "request2" /\ Entitled(m)
            BY <1>1, <2>4
            DEF AtWait2, Request1NoFree, Request1Dropped, Request1Accepted, Request2Unknown,
                Request2Mismatch, Request2Accepted
        <3>2. m.cookie \in GeneratedCookies(serial) /\ serial \in Nat /\ m.mtu \in RequestSizes
            BY <3>1 DEF HandshakeTyped, NetTyped, GoodDatagram, TablesTyped
        <3>3. CookieMatches(m) /\ m.peer \in Unexpired /\ InRange(m)
            BY <3>1, <3>2, CookieFacts DEF CookieMatches, Entitled, InRange, RequestSizes
        <3>4. Take(m, {Reply2(p, SessionMtu(m))})
            BY <1>1, <1>6, <3>1, <3>3
            DEF Request1NoFree, Request1Dropped, Request1Accepted, Request2Unknown, Request2Mismatch,
                Request2Accepted
        <3>5. (Reply2(p, SessionMtu(m))).type = "reply2" /\ (Reply2(p, SessionMtu(m))).peer = p
            BY DatagramFields
        <3>6. Mail(p)' = {Reply2(p, SessionMtu(m))}
            BY <1>6, <2>4, <3>4, <3>5, TakeMail DEF AtWait2
        <3> DEFINE reply == Reply2(p, SessionMtu(m))
        <3> HIDE DEF reply
        <3>7. reply \in Mail(p)' /\ Mail(p)' = {reply} /\ reply.type = "reply2"
            BY <3>5, <3>6 DEF reply
        <3>8. \E n \in net' : Mail(p)' = {n} /\ n.type = "reply2"
            BY <3>7 DEF Mail
        <3> QED BY <1>2, <2>4, <3>8 DEF AtWait2, OnCourse
    <2> QED BY <2>2, <2>3, <2>4
<1> QED BY <1>4, <1>5, <1>6

\* Without an incident nothing is lost and no entry of a client under way
\* expires.
LEMMA QuietOnCourse ==
    ASSUME HandshakeTyped, NEW p \in Peers, OnCourse(p), incidents' = incidents,
           \/ Lose \/ Ping \/ UNCHANGED vars
           \/ \E q \in Peers : Expire(q)
           \/ \E q \in Peers : SessionOpens(q) \/ SessionEnds(q) \/ SendAfterEnd(q)
    PROVE  OnCourse(p)'
<1>1. ~Incident
    BY DEF HandshakeTyped, TablesTyped, Incident
<1>2. CASE Ping
    BY <1>2, UnconcernedOnCourse DEF Ping, Unconcerned, Mail, Unexpired, Retained, Restrict, clientVars
<1>3. ASSUME NEW q \in Peers, Expire(q) PROVE OnCourse(p)'
    <2>1. UNCHANGED <<phase, probe, net>> /\ pending' = [pending EXCEPT ![q].expired = TRUE]
        BY <1>3 DEF Expire, clientVars
    <2>2. CASE q = p
        <3>1. phase[p] = "done"
            BY <1>1, <1>3, <2>2 DEF Expire, OnCourse, AtProbe, AtWait1, AtWait2
        <3> QED BY <2>1, <3>1 DEF OnCourse
    <2>3. CASE q # p
        BY <2>1, <2>3, UnconcernedOnCourse DEF Unconcerned, Mail, Unexpired
    <2> QED BY <2>2, <2>3
<1>4. CASE UNCHANGED <<phase, probe, net, pending>>
    BY <1>4, UnconcernedOnCourse DEF Unconcerned, Mail, Unexpired
<1>5. CASE UNCHANGED vars
    BY <1>4, <1>5 DEF vars, clientVars, tableVars
<1>6. CASE \E q \in Peers : SessionOpens(q) \/ SessionEnds(q) \/ SendAfterEnd(q)
    BY <1>4, <1>6 DEF SessionOpens, SessionEnds, SendAfterEnd, clientVars
<1>7. CASE Lose
    BY <1>1, <1>7 DEF Lose
<1> QED BY <1>2, <1>3, <1>5, <1>6, <1>7

\* Every client is on its course, as long as it has no excuse.
LEMMA SmoothStep == SmoothInv /\ [Next]_vars => SmoothInv'
<1> SUFFICES ASSUME HandshakeTyped, Smooth, [Next]_vars,
                    NEW p \in Peers, incidents' = 0, p \notin refused'
             PROVE  OnCourse(p)'
    BY TypingStep DEF SmoothInv, Smooth
<1>1. incidents = 0 /\ p \notin refused
    BY Records
<1>2. OnCourse(p) /\ incidents' = incidents
    BY <1>1 DEF Smooth
<1>3. ASSUME NEW q \in Peers, ClientStep(q) PROVE OnCourse(p)'
    BY <1>2, <1>3, OwnSteps, OthersSteps, UnconcernedOnCourse
<1>4. CASE ListenerStep
    BY <1>2, <1>4, AnsweredOnCourse
<1>5. CASE \/ Lose \/ Ping \/ UNCHANGED vars
           \/ \E q \in Peers : Expire(q)
           \/ \E q \in Peers : SessionOpens(q) \/ SessionEnds(q) \/ SendAfterEnd(q)
    BY <1>2, <1>5, QuietOnCourse
<1>6. ~\E q \in Peers : ClientMishap(q)
    BY <1>1, <1>2, MishapSteps
<1> QED BY <1>3, <1>4, <1>5, <1>6 DEF Next

\* perform_offline_handshake fails only after a loss, a repetition, a timer
\* that ran out early or a failed send, or when the listener had no room: no
\* cookie, MTU or address family makes the two sides miss each other.
THEOREM FailsForAReasonHolds == Spec => []FailsForAReason
<1>1. Init => SmoothInv
    <2> SUFFICES ASSUME Init, NEW p \in Peers PROVE OnCourse(p)
        BY TypingInit DEF SmoothInv, Smooth
    <2> QED BY DEF Init, OnCourse, AtProbe, Mail
<1>2. SmoothInv => FailsForAReason
    BY DEF SmoothInv, Smooth, OnCourse, AtProbe, AtWait1, AtWait2, FailsForAReason, HandshakeTyped,
           TablesTyped
<1> QED BY <1>1, <1>2, SmoothStep, PTL DEF Spec
=============================================================================
