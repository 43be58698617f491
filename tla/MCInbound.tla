------------------------------ MODULE MCInbound ------------------------------
(***************************************************************************)
(* Inbound against a network that delivers each of a few datagrams up to   *)
(* MaxArrivals times, in any order, or never.  The configurations choose   *)
(* between two conversations: one in which every buffer of the session     *)
(* overflows or expires, and a plain one.                                  *)
(***************************************************************************)
EXTENDS Inbound

CONSTANTS
    Datagrams,      \* the datagrams the peer sends
    MaxArrivals

VARIABLE arrivals

\* Packet number r of the stretch, carrying part i of n of message m.
MCPacket(rel, r, ch, o, m, i, n, id) ==
    [reliability |-> rel, reliable_index |-> SeqAdd(Start, r),
     ordering_index |-> SeqAdd(Start, o), ordering_channel |-> ch,
     split |-> IF n = 1 THEN NotSplit ELSE [count |-> n, id |-> id, index |-> i],
     payload |-> <<<<m, i, n>>>>]

\* Message 1, then 2 in two parts, then 4, all ordered on channel 0; message 3
\* in two parts and message 5 are not ordered; message 6 is on a channel this
\* session does not have.
MCPackets ==
    <<MCPacket("ReliableOrdered", 0, 0, 0, 1, 0, 1, 0),
      MCPacket("ReliableOrdered", 1, 0, 1, 2, 0, 2, 0),
      MCPacket("ReliableOrdered", 2, 0, 1, 2, 1, 2, 0),
      MCPacket("Reliable", 3, 0, 0, 3, 0, 2, 1),
      MCPacket("Reliable", 4, 0, 0, 3, 1, 2, 1),
      MCPacket("ReliableOrdered", 5, 0, 2, 4, 0, 1, 0),
      MCPacket("Unreliable", 0, 0, 0, 5, 0, 1, 0),
      MCPacket("ReliableOrdered", 6, 1, 0, 6, 0, 1, 0)>>

MCPacketSet == ToSet(MCPackets)

MCDatagrams ==
    {[sequence |-> Start, packets |-> <<MCPackets[1], MCPackets[7], MCPackets[8]>>],
     [sequence |-> SeqAdd(Start, 1), packets |-> <<MCPackets[2]>>],
     [sequence |-> SeqAdd(Start, 2), packets |-> <<MCPackets[6], MCPackets[4]>>],
     [sequence |-> SeqAdd(Start, 3), packets |-> <<MCPackets[3], MCPackets[5]>>]}

\* Four reliable messages, one to a datagram, but for the third, which shares
\* its datagram with a part of message 6; a part of message 5 comes alone.
PlainPackets ==
    <<MCPacket("Reliable", 0, 0, 0, 1, 0, 1, 0),
      MCPacket("Reliable", 1, 0, 0, 2, 0, 1, 0),
      MCPacket("Reliable", 2, 0, 0, 3, 0, 1, 0),
      MCPacket("Reliable", 3, 0, 0, 4, 0, 1, 0),
      MCPacket("Reliable", 4, 0, 0, 5, 0, 2, 0),
      MCPacket("Reliable", 5, 0, 0, 6, 0, 2, 1)>>

PlainPacketSet == ToSet(PlainPackets)

PlainDatagrams ==
    {[sequence |-> Start, packets |-> <<PlainPackets[1]>>],
     [sequence |-> SeqAdd(Start, 1), packets |-> <<PlainPackets[2]>>],
     [sequence |-> SeqAdd(Start, 2), packets |-> <<PlainPackets[3], PlainPackets[6]>>],
     [sequence |-> SeqAdd(Start, 3), packets |-> <<PlainPackets[4]>>],
     [sequence |-> SeqAdd(Start, 4), packets |-> <<PlainPackets[5]>>]}

MCInit == InboundInit /\ arrivals = [d \in Datagrams |-> 0]

Arrive(d) ==
    /\ arrivals[d] < MaxArrivals
    /\ HandleDatagram(d)
    /\ arrivals' = [arrivals EXCEPT ![d] = @ + 1]

MCNext ==
    \/ \E d \in Datagrams : Arrive(d)
    \/ HandleEncapsulated /\ UNCHANGED arrivals
    \/ FinishDatagram /\ UNCHANGED arrivals
    \/ InboundTick /\ UNCHANGED arrivals
    \/ \E id \in DOMAIN splits : PruneTick(id) /\ UNCHANGED arrivals

MCSpec == MCInit /\ [][MCNext]_<<inboundVars, arrivals>>

-----------------------------------------------------------------------------
(* What the comments of the code say of the plain conversation.            *)

\* has_seen "Returns true if it has been seen (duplicate)": no packet of the
\* peer is taken for a duplicate before its index was committed once.
NoFalseDuplicate ==
    \A p \in Packets : IsDuplicate(p) => p.reliable_index \in seen

\* The tracker "filters duplicates": a reliable packet that is not split
\* reaches the application at most once.
ReliableOnce ==
    \A a, b \in DOMAIN delivered :
        Tracked(delivered[a]) /\ delivered[a] = delivered[b] => a = b

\* "mark reliable index as seen on success": a packet whose index is committed
\* has been handed over or is kept, also when a later packet of its datagram
\* fails and the datagram is to be sent again.
SeenOnSuccess ==
    \A p \in Packets : Tracked(p) /\ p.reliable_index \in seen =>
        Fragments(<<p>>) \subseteq HandedOver \cup Kept
=============================================================================
