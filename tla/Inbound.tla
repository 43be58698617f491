------------------------------- MODULE Inbound -------------------------------
(***************************************************************************)
(* The receiving half of a RakNet session: ManagedSession::handle_datagram *)
(* for DATA datagrams, Session::handle_data_payload and                    *)
(* handle_encapsulated, process_datagram_sequence, and the parts of        *)
(* on_tick that prune splits and emit ACKs and NAKs                        *)
(* (raknet/src/session/{mod,inbound,tick,outbound,manager}.rs).            *)
(*                                                                         *)
(* A datagram is handled one encapsulated packet at a time: while handling *)
(* is TRUE no other action of this session is enabled, as the code runs    *)
(* the loop without yielding.  The state of the session is                 *)
(*   datagram_read_index, tracker, splits, order, outgoing_acks,           *)
(*   outgoing_naks;                                                        *)
(* handling, current, place and out are the handler's locals (place is the *)
(* number of packets of current that it is past); delivered is what the    *)
(* application has been given.  The other variables record the past for    *)
(* the properties: received, the datagrams handled to the end; naked, the  *)
(* numbers that have left in NAKs; seen, the reliable indexes committed;   *)
(* lost, the fragments that some step dropped and nothing in this session  *)
(* can hand over any more.                                                 *)
(***************************************************************************)
EXTENDS AckRanges, ReliableTracker, OrderingChannels, SplitAssembler

CONSTANTS
    Start,          \* where the indexes of the modelled stretch begin
    Packets,        \* the encapsulated packets the peer may send
    Malformed,      \* the messages whose payload RaknetPacket::decode rejects
    MaxChannels,    \* max_ordering_channels
    AckCapacity,    \* ack_queue_capacity
    MaxAckSequences \* the longest NAK range pushed at once, 8192

Channels == 0 .. MaxChannels - 1

(***************************************************************************)
(* The peer's indexes lie within less than half a lap from Start: the      *)
(* modelled stretch of a session is shorter than 2^23 ordered packets.     *)
(***************************************************************************)
ASSUME InboundAssumption ==
    /\ Start \in SeqNum
    /\ Packets \subseteq EncapsulatedPacket
    /\ \A p \in Packets : /\ SeqDistance(Start, p.ordering_index) < Half - 1
                           /\ p.payload # <<>>
    /\ MaxChannels \in Nat
    /\ AckCapacity \in Nat
    /\ MaxAckSequences \in Nat \ {0}

\* Only a reliable packet that is not a split part has an index to track.
Tracked(p) == IsReliable(p.reliability) /\ ~IsSplit(p)

\* How many parts the message of a packet has.
PartCount(p) == IF IsSplit(p) THEN p.split.count ELSE 1

(***************************************************************************)
(* The peer numbers its packets as queue_packet of Outbound does: a packet *)
(* carries one part of one message, a reliable index is given to one       *)
(* packet, and a split id to the parts of one message, which share their   *)
(* header; sequenced messages are not sent.  So fewer than 2^24 reliable   *)
(* packets and 2^16 splits are in the modelled stretch.                    *)
(***************************************************************************)
ASSUME PeerAssumption ==
    /\ \A p \in Packets :
        /\ p.payload = <<<<p.payload[1][1], p.split.index, PartCount(p)>>>>
        /\ p.split.index < PartCount(p)
        /\ ~IsSequenced(p.reliability)
    /\ \A p, q \in Packets :
        Tracked(p) /\ Tracked(q) /\ p.reliable_index = q.reliable_index => p = q
    /\ \A p, q \in Packets :
        IsSplit(p) /\ IsSplit(q) /\ p.split.id = q.split.id =>
            /\ p.split.count = q.split.count
            /\ p.reliability = q.reliability
            /\ p.ordering_channel = q.ordering_channel
            /\ p.ordering_index = q.ordering_index
            /\ p.payload[1][1] = q.payload[1][1]

VARIABLES
    datagram_read_index, tracker, splits, order, outgoing_acks, outgoing_naks,
    handling, current, place, out, delivered,
    received, naked, seen, lost

sessionVars == <<datagram_read_index, tracker, splits, order, outgoing_acks, outgoing_naks>>
handlerVars == <<handling, current, place, out, delivered>>
historyVars == <<received, naked, seen, lost>>
inboundVars == <<sessionVars, handlerVars, historyVars>>

SentDatagram == [sequence : SeqNum, packets : Seq(Packets)]

\* What current holds between datagrams.
NoDatagram == [sequence |-> Start, packets |-> <<>>]

InboundInit ==
    /\ datagram_read_index = Start
    /\ tracker = NewTracker(Start)
    /\ splits = <<>>
    /\ order = [c \in Channels |-> NewChannel(Start)]
    /\ outgoing_acks = <<>>
    /\ outgoing_naks = <<>>
    /\ handling = FALSE
    /\ current = NoDatagram
    /\ place = 0
    /\ out = <<>>
    /\ delivered = <<>>
    /\ received = {} /\ naked = {} /\ seen = {} /\ lost = {}

-----------------------------------------------------------------------------
(* Handling a DATA datagram.                                               *)

\* handle_datagram enters handle_data_payload.
HandleDatagram(d) ==
    /\ ~handling
    /\ handling' = TRUE
    /\ current' = d
    /\ place' = 0
    /\ out' = <<>>
    /\ UNCHANGED <<sessionVars, delivered, historyVars>>

IsDuplicate(p) == Tracked(p) /\ HasSeen(tracker, p.reliable_index)

\* A duplicate is dropped silently.
DropDuplicate(p) ==
    /\ IsDuplicate(p)
    /\ place' = place + 1
    /\ lost' = IF p.reliable_index \in seen THEN lost ELSE lost \cup Fragments(<<p>>)
    /\ UNCHANGED <<sessionVars, handling, current, out, delivered,
                   received, naked, seen>>

\* Mutant: the sequence number is acknowledged before the payload is handled.
AbandonDatagramAcked ==
    /\ handling' = FALSE
    /\ current' = NoDatagram
    /\ place' = 0
    /\ out' = <<>>
    /\ outgoing_acks' = Push(outgoing_acks, Singleton(current.sequence), AckCapacity)
    /\ UNCHANGED <<datagram_read_index, outgoing_naks, delivered, received, naked>>

\* `?` leaves both loops: what the packets so far did to the session stays
\* done, out is dropped and the datagram is not acknowledged.
AbandonDatagram ==
    /\ handling' = FALSE
    /\ current' = NoDatagram
    /\ place' = 0
    /\ out' = <<>>
    /\ UNCHANGED <<datagram_read_index, outgoing_acks, outgoing_naks,
                   delivered, received, naked>>

\* The split assembler refuses the part.
RefusePart(p) ==
    /\ ~IsDuplicate(p)
    /\ AddFails(splits, p)
    /\ splits' = AddPart(splits, p)
    /\ lost' = lost \cup Fragments(out)
    /\ AbandonDatagram
    /\ UNCHANGED <<tracker, order, seen>>

HandedOver == Fragments(delivered) \cup Fragments(out)

\* handle_ordered takes the packet when its channel exists.
OnChannel(p) == IsOrdered(p.reliability) /\ p.ordering_channel \in Channels

\* What is decoded because packet p, whole, was committed.
Dispatched(p) ==
    IF ~IsOrdered(p.reliability) THEN <<p>>
    ELSE IF OnChannel(p) THEN Ready(order[p.ordering_channel], p)
    ELSE <<>>

\* What is dropped for good with it: an unknown channel, a full heap, or an
\* index the channel is past without having handed it over.
Discarded(p) ==
    IF /\ IsOrdered(p.reliability)
       /\ OnChannel(p) => LET c == order[p.ordering_channel]
                          IN  Overflows(c, p) \/ SeqGreater(c.read, p.ordering_index)
    THEN Fragments(<<p>>) \ HandedOver
    ELSE {}

\* The packet, or the part, is accepted and its reliable index committed; a
\* packet that is whole goes to its channel.
CommitPacket(p, whole) ==
    /\ splits' = AddPart(splits, p)
    /\ tracker' = IF Tracked(p) THEN See(tracker, p.reliable_index) ELSE tracker
    /\ seen' = IF Tracked(p) THEN seen \cup {p.reliable_index} ELSE seen
    /\ order' = IF Returns(splits, p) /\ OnChannel(whole)
                THEN [order EXCEPT ![whole.ordering_channel] = HandleOrdered(@, whole)]
                ELSE order

\* RaknetPacket::decode rejects the payload.  Payloads that decode to an ACK or
\* a NAK, which no session sends inside a packet, are left out.
Undecodable(p) == p.payload[1][1] \in Malformed

AcceptPacket(p) ==
    LET whole == Assembled(splits, p)
        ready == IF Returns(splits, p) THEN Dispatched(whole) ELSE <<>>
    IN  /\ ~IsDuplicate(p)
        /\ ~AddFails(splits, p)
        /\ CommitPacket(p, whole)
        /\ \/ /\ \A i \in DOMAIN ready : ~Undecodable(ready[i])
              /\ out' = out \o ready
              /\ place' = place + 1
              /\ lost' = IF Returns(splits, p) THEN lost \cup Discarded(whole) ELSE lost
              /\ UNCHANGED <<datagram_read_index, outgoing_acks, outgoing_naks,
                             handling, current, delivered, received, naked>>
           \/ /\ \E i \in DOMAIN ready : Undecodable(ready[i])
              /\ lost' = lost \cup Fragments(out \o ready)
              /\ AbandonDatagram

HandleEncapsulated ==
    /\ handling
    /\ place < Len(current.packets)
    /\ LET p == current.packets[place + 1]
       IN  DropDuplicate(p) \/ RefusePart(p) \/ AcceptPacket(p)

\* Mutant: the loop over the pieces of a long gap ends after the first.
NakFirstPiece(n) ==
    [k \in 1 .. (IF n = 0 THEN 0 ELSE 1) |->
        [start |-> datagram_read_index,
         end |-> SeqAdd(datagram_read_index, Min({MaxAckSequences, n}) - 1)]]

\* The NAK ranges process_datagram_sequence pushes for a gap of n numbers:
\* pieces of at most MaxAckSequences.
NakRanges(n) ==
    [k \in 1 .. (n + MaxAckSequences - 1) \div MaxAckSequences |->
        [start |-> SeqAdd(datagram_read_index, (k - 1) * MaxAckSequences),
         end |-> SeqAdd(datagram_read_index, Min({k * MaxAckSequences, n}) - 1)]]

\* The pieces pushed one after another.
PushNaks(queue, ranges) ==
    LET pushed[k \in 0 .. Len(ranges)] ==
            IF k = 0 THEN queue ELSE Push(pushed[k - 1], ranges[k], AckCapacity)
    IN  pushed[Len(ranges)]

\* A datagram from the past is acknowledged and nothing else.
ProcessDatagramSequence(seq) ==
    /\ outgoing_acks' = Push(outgoing_acks, Singleton(seq), AckCapacity)
    /\ IF SeqGreater(datagram_read_index, seq)
       THEN UNCHANGED <<datagram_read_index, outgoing_naks>>
       ELSE /\ datagram_read_index' = SeqNext(seq)
            /\ outgoing_naks' = PushNaks(outgoing_naks,
                                        NakRanges(SeqDistance(datagram_read_index, seq)))

\* All packets handled: the sequence is processed, the packets go to the
\* application.
FinishDatagram ==
    /\ handling
    /\ place = Len(current.packets)
    /\ ProcessDatagramSequence(current.sequence)
    /\ handling' = FALSE
    /\ current' = NoDatagram
    /\ place' = 0
    /\ delivered' = delivered \o out
    /\ out' = <<>>
    /\ received' = received \cup {current}
    /\ UNCHANGED <<tracker, splits, order, naked, seen, lost>>

-----------------------------------------------------------------------------
(* The tick.                                                               *)

AckOverhead == IpUdpHeaders + 3

AckCount == PopCount(outgoing_acks, Mtu, AckOverhead)
NakCount == PopCount(outgoing_naks, Mtu, AckOverhead)

\* The payloads are sorted by the start of the ranges before they are encoded,
\* ranges with the same start staying in their order.
Placed(sorted, r) ==
    InsertAt(sorted, Cardinality({i \in DOMAIN sorted : sorted[i].start <= r.start}) + 1, r)

Sorted(ranges) ==
    LET sorted[k \in 0 .. Len(ranges)] ==
            IF k = 0 THEN <<>> ELSE Placed(sorted[k - 1], ranges[k])
    IN  sorted[Len(ranges)]

InPayload(ranges) == WireRanges(Sorted(ranges))
AckPayload == InPayload(SubSeq(outgoing_acks, 1, AckCount))
NakPayload == InPayload(SubSeq(outgoing_naks, 1, NakCount))

\* The ACK and the NAK datagram of a tick.
EmitAcks ==
    /\ outgoing_acks' = SubSeq(outgoing_acks, AckCount + 1, Len(outgoing_acks))
    /\ outgoing_naks' = SubSeq(outgoing_naks, NakCount + 1, Len(outgoing_naks))
    /\ naked' = naked \cup Contents(NakPayload)

InboundTick ==
    /\ ~handling
    /\ EmitAcks
    /\ UNCHANGED <<datagram_read_index, tracker, splits, order, handlerVars,
                   received, seen, lost>>

(***************************************************************************)
(* A tick that finds the entry of one split expired.  prune hands its      *)
(* ordering index to skip_index, whose result on_tick drops.  Entries that *)
(* expire in the same tick are pruned in the arbitrary order of the map;   *)
(* here they expire in consecutive ticks, the later ones with nothing left *)
(* to acknowledge.                                                         *)
(***************************************************************************)
PruneTick(id) ==
    LET h == splits[id].header
        skips == HasOrderingIndex(h.reliability) /\ h.ordering_channel \in Channels
        c == order[h.ordering_channel]
    IN  /\ ~handling
        /\ id \in DOMAIN splits
        /\ EmitAcks
        /\ splits' = Without(splits, id)
        /\ IF skips
           THEN /\ order' = [order EXCEPT ![h.ordering_channel] =
                                SkipIndex(c, h.ordering_index)]
                /\ lost' = lost \cup Fragments(Skipped(c, h.ordering_index))
                                \cup HeldFragments([k \in {id} |-> splits[id]])
           ELSE /\ lost' = lost \cup HeldFragments([k \in {id} |-> splits[id]])
                /\ UNCHANGED order
        /\ UNCHANGED <<datagram_read_index, tracker, handlerVars, received, seen>>

InboundNext ==
    \/ \E d \in SentDatagram : HandleDatagram(d)
    \/ HandleEncapsulated
    \/ FinishDatagram
    \/ InboundTick
    \/ \E id \in DOMAIN splits : PruneTick(id)

InboundSpec == InboundInit /\ [][InboundNext]_inboundVars

-----------------------------------------------------------------------------
(* Properties.                                                             *)

InboundTypeOK ==
    /\ datagram_read_index \in SeqNum
    /\ tracker \in TrackerState
    /\ order \in [Channels -> ChannelState]
    /\ outgoing_acks \in Seq(SequenceRange)
    /\ outgoing_naks \in Seq(SequenceRange)
    /\ handling \in BOOLEAN
    /\ current \in Datagram
    /\ place \in 0 .. Len(current.packets)
    /\ out \in Seq(EncapsulatedPacket)
    /\ delivered \in Seq(EncapsulatedPacket)
    /\ received \subseteq Datagram
    /\ naked \subseteq SeqNum /\ seen \subseteq SeqNum

\* Packets a comes before b in s, both ordered on the same channel.
OrderedPair(s, a, b) ==
    /\ a < b
    /\ IsOrdered(s[a].reliability) /\ IsOrdered(s[b].reliability)
    /\ s[a].ordering_channel = s[b].ordering_channel

\* The application sees the ordered packets of a channel in strictly growing
\* ordering index: none twice, none out of order, whatever the network
\* reorders or duplicates and whatever datagrams fail half way.
OrderedDelivery ==
    \A a, b \in DOMAIN delivered :
        OrderedPair(delivered, a, b) =>
            SeqLess(delivered[a].ordering_index, delivered[b].ordering_index)

ReceivedNumbers == {d.sequence : d \in received}

\* An ACK, waiting in the queue or in the payload a tick would send now, is only
\* ever for a datagram that was handled to its end, whatever merging, sorting
\* and encoding did to the ranges.
NoFalseAck ==
    Contents(outgoing_acks) \cup Contents(AckPayload) \subseteq ReceivedNumbers

\* Every datagram number that was passed over has arrived or been NAKed, or is
\* waiting to be.
EveryGapNaked ==
    \A seq \in SeqStretch(Start, SeqDistance(Start, datagram_read_index)) :
        seq \in ReceivedNumbers \cup naked \cup Contents(outgoing_naks)

Kept ==
    HeldFragments(splits) \cup UNION {Fragments(order[c].heap) : c \in Channels}

\* What an acknowledged datagram carried has been handed over or is kept until
\* its turn comes; otherwise a step recorded in lost dropped it: a duplicate
\* that was none, a full heap, an expired split, the result of skip_index, a
\* packet completed after its index was skipped, the out of a failing datagram.
\* There is no other way to lose it.
NothingVanishes ==
    \A d \in received : Fragments(d.packets) \subseteq HandedOver \cup Kept \cup lost

\* The read index of a channel passes an index only when its packet has been
\* handed over or has been dropped by a step recorded in lost: a packet that is
\* merely late is never skipped.
NoSilentSkip ==
    \A c \in Channels :
        \A x \in SeqStretch(Start, SeqDistance(Start, order[c].read)) :
            \E p \in Packets :
                /\ IsOrdered(p.reliability)
                /\ p.ordering_channel = c
                /\ p.ordering_index = x
                /\ Fragments(<<p>>) \subseteq HandedOver \cup lost

\* The fragments of one whole message, in order.
Intact(payload) ==
    LET f == payload[1]
    IN  payload = [k \in 1 .. f[3] |-> <<f[1], k - 1, f[3]>>]

\* The application is given whole messages: all parts of one message, each in
\* its place, however the parts were reordered, repeated or timed out.
WholeMessages == \A i \in DOMAIN delivered : Intact(delivered[i].payload)
=============================================================================
