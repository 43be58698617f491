------------------------------ MODULE Outbound ------------------------------
(***************************************************************************)
(* The sending half of a RakNet session: queue_packet, build_datagram, the *)
(* receipt of ACKs and NAKs, and the parts of on_tick that process them    *)
(* and resend (raknet/src/session/{mod,outbound,inbound,tick}.rs and       *)
(* manager.rs).                                                            *)
(*                                                                         *)
(* The session's state keeps the names of its fields; queue holds          *)
(* outgoing_heap with its weights, a slot of sent_datagrams is <<>> for    *)
(* None and <<[datagram, due]>> for a tracked datagram, whose due says     *)
(* that next_send has passed.  wire is the set of datagrams on their way   *)
(* to the peer: a resent datagram keeps its number, so a copy more makes   *)
(* no difference.  The history variables are queued, the number of         *)
(* messages the application has handed over, built, the datagrams built,   *)
(* confirmed, the numbers that ACKs have named, and given_up, those of the *)
(* datagrams dropped unacknowledged.                                       *)
(***************************************************************************)
EXTENDS SlidingWindow, SendQueue, AckRanges

CONSTANTS
    SendStart,      \* where the indexes of the modelled stretch begin
    Messages,       \* what the application sends, in this order
    OrderChannels,  \* max_ordering_channels of the sender
    MaxSent         \* max_sent_datagrams

\* A message is what queue_packet is called with; length is that of its
\* encoded payload.
Message ==
    [length : Nat \ {0}, reliability : Reliability, channel : Nat, level : Levels]

\* A packet of a sequenced reliability cannot be encoded (sequence_index is
\* never set), and the task that sends it panics: it is left out.  A datagram
\* has room for a part of any message; the MTU of the code is at least 576.
ASSUME OutboundAssumption ==
    /\ SendStart \in SeqNum
    /\ Messages \in Seq(Message)
    /\ \A m \in DOMAIN Messages : ~IsSequenced(Messages[m].reliability)
    /\ OrderChannels \in Nat
    /\ MaxSent \in Nat
    /\ IpUdpHeaders + DatagramHeader + HeaderOverhead("ReliableOrdered", TRUE) < Mtu

VARIABLES
    queue, datagram_write_index, reliability_write_index, order_write, split_index,
    queued_reliable_bytes, sent_datagrams_base, sent_datagrams, sliding,
    incoming_acks, incoming_naks,
    wire,
    queued, built, confirmed, given_up

indexVars == <<datagram_write_index, reliability_write_index, order_write, split_index>>
queueVars == <<queue, queued_reliable_bytes>>
windowVars == <<sent_datagrams_base, sent_datagrams, sliding>>
incomingVars == <<incoming_acks, incoming_naks>>
outboundVars == <<indexVars, queueVars, windowVars, incomingVars,
                  wire, queued, built, confirmed, given_up>>

OutboundInit ==
    /\ queue = NewQueue
    /\ datagram_write_index = SendStart
    /\ reliability_write_index = SendStart
    /\ order_write = [c \in 0 .. OrderChannels - 1 |-> SendStart]
    /\ split_index = 0
    /\ queued_reliable_bytes = 0
    /\ sent_datagrams_base = SendStart
    /\ sent_datagrams = <<>>
    /\ sliding = NewWindow(SendStart)
    /\ incoming_acks = <<>> /\ incoming_naks = <<>>
    /\ wire = {}
    /\ queued = 0 /\ built = {} /\ confirmed = {} /\ given_up = {}

-----------------------------------------------------------------------------
(* Sizes, in bytes.                                                        *)

\* Mutant: only the encapsulated header is subtracted.
MaxPayloadBare(r, is_split) == Max({1, Mtu - HeaderOverhead(r, is_split)})

\* max_encapsulated_payload_len(..).max(1).
MaxPayload(r, is_split) ==
    Max({1, Mtu - HeaderOverhead(r, is_split) - IpUdpHeaders - DatagramHeader})

PayloadLength(p) ==
    LET f == p.payload[1]
        length == Messages[f[1]].length
        chunk == MaxPayload(p.reliability, TRUE)
    IN  IF ~IsSplit(p) THEN length
        ELSE IF f[2] < f[3] - 1 THEN chunk
        ELSE length - (f[3] - 1) * chunk

PacketSize(p) == HeaderOverhead(p.reliability, IsSplit(p)) + PayloadLength(p)

TotalSize(packets) == MapThenSumSet(LAMBDA i : PacketSize(packets[i]), DOMAIN packets)

DatagramSize(d) == DatagramHeader + TotalSize(d.packets)

-----------------------------------------------------------------------------
(* Queueing.                                                               *)

NormalizeForSplit(r) ==
    CASE r = "Unreliable" -> "Reliable"
      [] r = "UnreliableSequenced" -> "ReliableSequenced"
      [] r = "UnreliableWithAckReceipt" -> "ReliableWithAckReceipt"
      [] OTHER -> r

FitsWhole(msg) == msg.length <= MaxPayload(msg.reliability, FALSE)

SentReliability(msg) ==
    IF FitsWhole(msg) THEN msg.reliability ELSE NormalizeForSplit(msg.reliability)

Parts(msg) ==
    IF FitsWhole(msg) THEN 1
    ELSE (msg.length - 1) \div MaxPayload(NormalizeForSplit(msg.reliability), TRUE) + 1

\* Bound of the model: the parts of a message are fewer than the numbers.
ASSUME PartsAssumption == \A m \in DOMAIN Messages : Parts(Messages[m]) < Modulo

\* The packets of message m (enqueue_single_encap, enqueue_fragmented_encaps)
\* from the numbers that are next for it.
NumberedPackets(m, reliable, ordering, split) ==
    LET msg == Messages[m]
        r == SentReliability(msg)
        n == Parts(msg)
    IN  [i \in 1 .. n |->
            [reliability |-> r,
             reliable_index |-> IF IsReliable(r) THEN SeqAdd(reliable, i - 1) ELSE 0,
             ordering_index |-> IF IsOrdered(r) THEN ordering ELSE SendStart,
             ordering_channel |-> IF IsOrdered(r) THEN msg.channel ELSE 0,
             split |-> IF FitsWhole(msg) THEN NotSplit
                       ELSE [count |-> n, id |-> split, index |-> i - 1],
             payload |-> <<<<m, i - 1, n>>>>]]

Encaps(m) ==
    NumberedPackets(m, reliability_write_index, order_write[Messages[m].channel], split_index)

QueuePacket(m) ==
    LET msg == Messages[m]
        packets == Encaps(m)
        r == packets[1].reliability
    IN  /\ m = queued + 1
        /\ m \in DOMAIN Messages
        /\ queued' = m
        /\ IF msg.channel >= OrderChannels
           THEN UNCHANGED <<queueVars, reliability_write_index, order_write, split_index>>
           ELSE /\ queue' = PushAll(queue, packets, msg.level)
                /\ reliability_write_index' =
                        IF IsReliable(r) THEN SeqAdd(reliability_write_index, Len(packets))
                                         ELSE reliability_write_index
                /\ order_write' =
                        IF IsOrdered(r) THEN [order_write EXCEPT ![msg.channel] = SeqNext(@)]
                                        ELSE order_write
                /\ split_index' = IF FitsWhole(msg) THEN split_index
                                                    ELSE (split_index + 1) % 2^16
                /\ queued_reliable_bytes' =
                        queued_reliable_bytes + (IF IsReliable(r) THEN TotalSize(packets) ELSE 0)
        /\ UNCHANGED <<datagram_write_index, windowVars, incomingVars,
                       wire, built, confirmed, given_up>>

-----------------------------------------------------------------------------
(* Building a datagram.                                                    *)

\* Mutant: the IP and UDP headers are forgotten.
FillCountBare(s) ==
    LET Used(n) == TotalSize([i \in 1 .. n |-> s[i].pkt])
    IN  Max({n \in 0 .. Len(s) :
                /\ Used(n) <= TransmissionBandwidth(sliding)
                /\ DatagramHeader + Used(n) <= Mtu})

\* fill_datagram takes packets while both the bandwidth and the MTU allow.
FillCount(s) ==
    LET Used(n) == TotalSize([i \in 1 .. n |-> s[i].pkt])
    IN  Max({n \in 0 .. Len(s) :
                /\ Used(n) <= TransmissionBandwidth(sliding)
                /\ IpUdpHeaders + DatagramHeader + Used(n) <= Mtu})

HasReliable(d) == \E i \in DOMAIN d.packets : IsReliable(d.packets[i].reliability)

\* Mutant: the datagram goes to the back of the queue, whatever its number.
TrackAtBack(d) ==
    /\ sliding' = OnReliableSend(sliding, DatagramSize(d))
    /\ sent_datagrams' = Append(sent_datagrams, <<[datagram |-> d, due |-> FALSE]>>)

\* track_sent_datagram: the slots between the last one and this one are None.
TrackSentDatagram(d) ==
    LET dist == SeqDistance(sent_datagrams_base, d.sequence)
        len == Len(sent_datagrams)
    IN  /\ sliding' = OnReliableSend(sliding, DatagramSize(d))
        /\ sent_datagrams' =
                [k \in 1 .. (IF dist >= len THEN dist + 1 ELSE len) |->
                    IF k = dist + 1 THEN <<[datagram |-> d, due |-> FALSE]>>
                    ELSE IF k <= len THEN sent_datagrams[k] ELSE <<>>]

\* Mutant: unreliable packets are debited too.
DebitedAll(packets) == Max({0, queued_reliable_bytes - TotalSize(packets)})

\* debit_reliable_bytes.
Debited(packets) ==
    LET left[n \in 0 .. Len(packets)] ==
            IF n = 0 THEN queued_reliable_bytes
            ELSE LET bytes == left[n - 1]
                 IN  IF IsReliable(packets[n].reliability)
                     THEN Max({0, bytes - PacketSize(packets[n])}) ELSE bytes
    IN  left[Len(packets)]

\* Bound of the model: fewer than a lap of datagrams lies between the oldest
\* slot and the next number.
WithinLap == SeqDistance(sent_datagrams_base, datagram_write_index) < Modulo - 1

BuildDatagram ==
    /\ WithinLap
    /\ \E s \in PopOrders(queue) :
           LET n == FillCount(s)
               d == [sequence |-> datagram_write_index, packets |-> [i \in 1 .. n |-> s[i].pkt]]
           IN  /\ n > 0
               /\ queue' = [queue EXCEPT !.heap = @ \ {s[i] : i \in 1 .. n}]
               /\ queued_reliable_bytes' = Debited(d.packets)
               /\ datagram_write_index' = SeqNext(datagram_write_index)
               /\ IF HasReliable(d) THEN TrackSentDatagram(d)
                                    ELSE UNCHANGED <<sliding, sent_datagrams>>
               /\ wire' = wire \cup {d}
               /\ built' = built \cup {d}
               /\ UNCHANGED <<reliability_write_index, order_write, split_index,
                              sent_datagrams_base, incomingVars, queued, confirmed, given_up>>

-----------------------------------------------------------------------------
(* ACKs and NAKs are queued when they arrive and processed by the tick.    *)

HandleAckPayload(ranges) ==
    /\ incoming_acks' = incoming_acks \o ranges
    /\ UNCHANGED <<indexVars, queueVars, windowVars, incoming_naks,
                   wire, queued, built, confirmed, given_up>>

HandleNackPayload(ranges) ==
    /\ incoming_naks' = incoming_naks \o ranges
    /\ UNCHANGED <<indexVars, queueVars, windowVars, incoming_acks,
                   wire, queued, built, confirmed, given_up>>

IsTracked(slot) == slot # <<>>

\* The datagram number that the code looks for at place k (from 1) of a window.
SlotNumber(base, k) == SeqAdd(base, k - 1)

\* The numbers of a queue of ranges in the order they are visited.
Visited(ranges) ==
    FlattenSeq([i \in DOMAIN ranges |->
        [n \in 1 .. SeqDistance(ranges[i].start, ranges[i].end) + 1 |->
            SeqAdd(ranges[i].start, n - 1)]])

\* Mutant: an ACK also releases every older datagram.
AfterCumulativeAcks ==
    LET acks == Contents(incoming_acks)
    IN  [k \in DOMAIN sent_datagrams |->
            IF \E a \in acks : ~SeqGreater(SlotNumber(sent_datagrams_base, k), a)
            THEN <<>> ELSE sent_datagrams[k]]

\* process_incoming_acks: take the slot of each number, and tell the sliding
\* window of every datagram that was still there.
AfterAcks ==
    LET acks == Contents(incoming_acks)
    IN  [k \in DOMAIN sent_datagrams |->
            IF SlotNumber(sent_datagrams_base, k) \in acks THEN <<>> ELSE sent_datagrams[k]]

SlidingAfterAcks ==
    LET numbers == Visited(incoming_acks)
        Place(n) == SeqDistance(sent_datagrams_base, numbers[n]) + 1
        Takes(n) == /\ Place(n) <= Len(sent_datagrams)
                    /\ IsTracked(sent_datagrams[Place(n)])
                    /\ \A j \in 1 .. n - 1 : numbers[j] # numbers[n]
        window[n \in 0 .. Len(numbers)] ==
            IF n = 0 THEN sliding
            ELSE LET before == window[n - 1]
                 IN  IF Takes(n)
                     THEN OnAck(before, DatagramSize(sent_datagrams[Place(n)][1].datagram),
                                numbers[n])
                     ELSE before
    IN  window[Len(numbers)]

\* clean_sent_datagrams: leading slots that are None or expired go, then the
\* oldest ones beyond MaxSent, then the trailing Nones.
CleanedFront(slots, expired) ==
    LET stops == {n \in 0 .. Len(slots) :
                    \/ n = Len(slots)
                    \/ /\ IsTracked(slots[n + 1])
                       /\ slots[n + 1][1].datagram.sequence \notin expired}
    IN  Max({Min(stops), Len(slots) - MaxSent})

Trimmed(slots, front) ==
    LET last == Max({front} \cup {k \in DOMAIN slots : IsTracked(slots[k])})
    IN  [k \in 1 .. last - front |-> slots[front + k]]

\* Mutant: the bandwidth must exceed the size.
ResendableStrict(slots, bandwidth) ==
    LET Wants(k) == IsTracked(slots[k]) /\ slots[k][1].due
        Size(k) == DatagramSize(slots[k][1].datagram)
        left[k \in 0 .. Len(slots)] ==
            IF k = 0 THEN bandwidth
            ELSE LET bw == left[k - 1]
                 IN  IF Wants(k) /\ Size(k) < bw THEN bw - Size(k) ELSE bw
    IN  {k \in 1 .. Len(slots) : Wants(k) /\ Size(k) < left[k - 1]}

\* The places collect_resendable_datagrams picks: in order, each datagram that
\* is due while the bandwidth lasts.
Resendable(slots, bandwidth) ==
    LET Wants(k) == IsTracked(slots[k]) /\ slots[k][1].due
        Size(k) == DatagramSize(slots[k][1].datagram)
        left[k \in 0 .. Len(slots)] ==
            IF k = 0 THEN bandwidth
            ELSE LET bw == left[k - 1]
                 IN  IF Wants(k) /\ Size(k) <= bw THEN bw - Size(k) ELSE bw
    IN  {k \in 1 .. Len(slots) : Wants(k) /\ Size(k) <= left[k - 1]}

(***************************************************************************)
(* on_tick.  timers are the numbers whose next_send has passed, expired    *)
(* those sent longer than sent_datagram_timeout ago; the retransmission    *)
(* timeout is at most 2 s and the other 10 s, so expired \subseteq timers. *)
(***************************************************************************)
SenderTick(timers, expired) ==
    LET remaining == AfterAcks
        front == CleanedFront(remaining, expired)
        cleaned == Trimmed(remaining, front)
        base == SeqAdd(sent_datagrams_base, front)
        nakked == {k \in DOMAIN cleaned : /\ IsTracked(cleaned[k])
                                          /\ SlotNumber(base, k) \in Contents(incoming_naks)}
        marked == [k \in DOMAIN cleaned |->
                    IF IsTracked(cleaned[k])
                    THEN <<[cleaned[k][1] EXCEPT
                            !.due = @ \/ k \in nakked \/ cleaned[k][1].datagram.sequence \in timers]>>
                    ELSE <<>>]
        afterNaks == IF nakked = {} THEN SlidingAfterAcks ELSE OnNak(SlidingAfterAcks)
        resent == Resendable(marked, RetransmissionBandwidth(afterNaks))
    IN  /\ sent_datagrams_base' = base
        /\ sent_datagrams' =
                [k \in DOMAIN marked |->
                    IF k \in resent THEN <<[marked[k][1] EXCEPT !.due = FALSE]>> ELSE marked[k]]
        /\ sliding' = IF resent = {} THEN afterNaks
                                     ELSE OnResend(afterNaks, datagram_write_index)
        /\ wire' = wire \cup {marked[k][1].datagram : k \in resent}
        /\ incoming_acks' = <<>> /\ incoming_naks' = <<>>
        /\ confirmed' = confirmed \cup Contents(incoming_acks)
        /\ given_up' = given_up \cup {remaining[k][1].datagram.sequence :
                                        k \in {j \in 1 .. front : IsTracked(remaining[j])}}
        /\ UNCHANGED <<indexVars, queueVars, queued, built>>

TrackedDatagrams ==
    {sent_datagrams[k][1].datagram :
        k \in {j \in DOMAIN sent_datagrams : IsTracked(sent_datagrams[j])}}

TrackedNumbers == {d.sequence : d \in TrackedDatagrams}

OutboundNext ==
    \/ \E m \in DOMAIN Messages : QueuePacket(m)
    \/ BuildDatagram
    \/ \E ranges \in Seq(SequenceRange) :
            HandleAckPayload(ranges) \/ HandleNackPayload(ranges)
    \/ \E timers \in SUBSET TrackedNumbers :
            \E expired \in SUBSET timers : SenderTick(timers, expired)

OutboundSpec == OutboundInit /\ [][OutboundNext]_outboundVars

-----------------------------------------------------------------------------
(* Properties.                                                             *)

Slot == {s \in Seq([datagram : Datagram, due : BOOLEAN]) : Len(s) <= 1}

OutboundTypeOK ==
    /\ datagram_write_index \in SeqNum
    /\ reliability_write_index \in SeqNum
    /\ sent_datagrams_base \in SeqNum
    /\ sent_datagrams \in Seq(Slot)
    /\ incoming_acks \in Seq(SequenceRange)
    /\ incoming_naks \in Seq(SequenceRange)
    /\ wire \subseteq Datagram /\ built \subseteq Datagram
    /\ confirmed \subseteq SeqNum /\ given_up \subseteq SeqNum

\* The slot an ACK or NAK looks up is that of the datagram it names: popping,
\* evicting and trimming move sent_datagrams_base in step with the queue, also
\* across the wrap and past numbers that were never tracked.
SlotIdentity ==
    \A k \in DOMAIN sent_datagrams :
        IsTracked(sent_datagrams[k]) =>
            sent_datagrams[k][1].datagram.sequence = SlotNumber(sent_datagrams_base, k)

\* A datagram with a reliable packet is tracked until an ACK names it or it is
\* given up for age or for room: nothing else releases it.
NoPrematureRelease ==
    \A d \in built :
        HasReliable(d) => \/ d.sequence \in TrackedNumbers
                          \/ d.sequence \in confirmed
                          \/ d.sequence \in given_up

\* The retransmission budget covers everything tracked, so that no tick leaves
\* a datagram that is due unsent for lack of bandwidth.
BudgetCoversTracked ==
    RetransmissionBandwidth(sliding) >= MapThenSumSet(DatagramSize, TrackedDatagrams)

\* What queue_packet splits, build_data_datagram can send: a queued packet fits
\* a datagram of its own, and the congestion window, whatever ACKs, NAKs and
\* resends did to it, lets it pass once nothing is unacknowledged.
QueuedCanLeave ==
    \A q \in queue.heap :
        /\ IpUdpHeaders + DatagramHeader + PacketSize(q.pkt) <= Mtu
        /\ PacketSize(q.pkt) <= sliding.cwnd

\* No datagram is larger than the MTU on the wire.
DatagramsFit == \A d \in built : IpUdpHeaders + DatagramSize(d) <= Mtu

ReliableBytes(q) == IF IsReliable(q.pkt.reliability) THEN PacketSize(q.pkt) ELSE 0

\* queued_reliable_bytes, on which a session closes itself, is the size of the
\* reliable packets that wait in the queue.
QueuedBytesExact == queued_reliable_bytes = MapThenSumSet(ReliableBytes, queue.heap)

\* A test says of the queue: "Draining the heap should reset weights, so the
\* next packet starts at base weight."
DrainResetsWeights ==
    queue.heap = {} => \A l \in Levels : NextWeight(queue, l) = BaseWeight(l)
=============================================================================
