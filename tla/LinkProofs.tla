----------------------------- MODULE LinkProofs -----------------------------
(***************************************************************************)
(* One direction of a connection, for every conversation, every MTU, every *)
(* modulus and every capacity, and for any number of losses, duplicates    *)
(* and overtakings.  As long as fewer than half a lap of datagrams has     *)
(* been sent and the window evicts none, the sender lets go of a reliable  *)
(* datagram only when its peer has handled it to the end.  The receiving   *)
(* half is a session of Inbound whose peer numbers its packets as Inbound  *)
(* assumes.  And channel 0 implements OrderedChannel.                      *)
(*                                                                         *)
(* The two halves bring their own invariants.  What is added follows an    *)
(* ACK on its way: from the datagram the receiver handles, which the       *)
(* sender has built, to the queue of outgoing ranges, the payload, the     *)
(* network, the queue of incoming ranges and the slot it releases; and a   *)
(* message: from its place in the conversation, which is the offset of     *)
(* its ordering index, to the same place in what is handed over.           *)
(***************************************************************************)
EXTENDS Link, OutboundProofs, InboundProofs

\* The hypotheses: fewer than half a lap of datagrams has been numbered, which
\* is what the comparisons of the ACK queue rely on, and no datagram is evicted
\* to make room.  The code sends 2^23 datagrams before the first one fails.
HalfLap == SeqDistance(SendStart, datagram_write_index) < Half
WindowFits == Len(sent_datagrams) <= MaxSent

\* No number is given to two datagrams.
Numbered ==
    /\ \A d \in built : SeqDistance(SendStart, d.sequence) < SeqDistance(SendStart, datagram_write_index)
    /\ \A d, e \in built : d.sequence = e.sequence => d = e

\* The receiver handles what the sender has built.
Handled ==
    /\ handling => current \in built
    /\ received \subseteq built

FeedbackTyped == \A f \in feedback : f.ranges \in Seq(SequenceRange)

\* What both halves need of each other, whatever is sent.
LinkBase == OutboundInv /\ QueuesTyped /\ Handled /\ FeedbackTyped

\* Wherever an ACK is on its way, it names datagrams handled to the end.
AckTrail ==
    /\ AcksSound
    /\ \A f \in feedback : f.kind = "ack" => Contents(f.ranges) \subseteq ReceivedNumbers
    /\ Contents(incoming_acks) \subseteq ReceivedNumbers
    /\ confirmed \subseteq ReceivedNumbers

LinkInv == LinkBase /\ Numbered /\ AckTrail /\ given_up = {}

-----------------------------------------------------------------------------
(* The two halves of a step.                                               *)

\* A step of the sender, and one of the receiver or of the network.
SenderStep == [OutboundNext]_outboundVars /\ UNCHANGED inboundVars /\ feedback' \subseteq feedback
ReceiverMoves ==
    (\E d \in wire : HandleDatagram(d)) \/ HandleEncapsulated \/ FinishDatagram \/ UNCHANGED inboundVars
ReceiverStep ==
    /\ UNCHANGED senderVars /\ wire' \subseteq wire
    /\ \/ ReceiverMoves /\ feedback' \subseteq feedback
       \/ InboundTick /\ feedback' = feedback \cup Payloads

\* What datagrams under way and the receiver do.
LEMMA ReceiverActs ==
    ASSUME \/ UNCHANGED linkVars
           \/ \E d \in wire : DeliverData(d) \/ LoseData(d)
           \/ Receive
           \/ ReceiverTick
    PROVE  ReceiverStep
<1>1. CASE UNCHANGED linkVars
    <2>1. UNCHANGED senderVars /\ UNCHANGED wire /\ UNCHANGED inboundVars /\ UNCHANGED feedback
        BY <1>1 DEF linkVars, outboundVars, senderVars
    <2> QED BY <2>1 DEF ReceiverStep, ReceiverMoves
<1>2. ASSUME NEW d \in wire, DeliverData(d) \/ LoseData(d) PROVE ReceiverStep
    BY <1>2 DEF DeliverData, LoseData, Leaves, ReceiverStep, ReceiverMoves
<1>3. CASE Receive
    <2>1. /\ HandleEncapsulated \/ FinishDatagram
          /\ UNCHANGED senderVars /\ UNCHANGED wire /\ UNCHANGED feedback
        BY <1>3 DEF Receive, outboundVars, senderVars
    <2> QED BY <2>1 DEF ReceiverStep, ReceiverMoves
<1>4. CASE ReceiverTick
    <2>1. /\ InboundTick /\ feedback' = feedback \cup Payloads
          /\ UNCHANGED senderVars /\ UNCHANGED wire
        BY <1>4 DEF ReceiverTick, outboundVars, senderVars
    <2> QED BY <2>1 DEF ReceiverStep
<1> QED BY <1>1, <1>2, <1>3, <1>4

\* Every step of the link is one of them: an ACK or NAK that arrives is a queue
\* of ranges, as handle_ack_payload expects.
LEMMA LinkSplits ==
    ASSUME FeedbackTyped, [LinkNext]_linkVars
    PROVE  SenderStep \/ ReceiverStep
<1>1. CASE AppSend
    BY <1>1 DEF AppSend, QueuePacket, SenderStep, OutboundNext
<1>2. ASSUME NEW timers \in SUBSET TrackedNumbers, SendTick(timers) PROVE SenderStep
    <2>1. SenderTick(timers, {}) /\ UNCHANGED <<inboundVars, feedback>> /\ {} \in SUBSET timers
        BY <1>2 DEF SendTick
    <2>2. OutboundNext
        BY <2>1 DEF OutboundNext
    <2> QED BY <2>1, <2>2 DEF SenderStep
<1>3. CASE Flush
    BY <1>3 DEF Flush, SenderStep, OutboundNext
<1>4. ASSUME NEW f \in feedback, DeliverFeedback(f) PROVE SenderStep
    <2>1. f.ranges \in Seq(SequenceRange)
        BY DEF FeedbackTyped
    <2>2. /\ HandleAckPayload(f.ranges) \/ HandleNackPayload(f.ranges)
          /\ UNCHANGED inboundVars /\ feedback' \subseteq feedback
        BY <1>4 DEF DeliverFeedback, Leaves
    <2> QED BY <2>1, <2>2 DEF SenderStep, OutboundNext
<1>5. ASSUME NEW f \in feedback, LoseFeedback(f) PROVE SenderStep
    BY <1>5 DEF LoseFeedback, SenderStep
<1> QED BY <1>1, <1>2, <1>3, <1>4, <1>5, ReceiverActs DEF LinkNext

\* Datagrams only leave the network: the sender does not notice.
LEMMA SenderUntouched ==
    ASSUME OutboundInv, UNCHANGED senderVars, wire' \subseteq wire
    PROVE  OutboundInv' /\ (Numbered => Numbered') /\ given_up' = given_up /\ built' = built
<1>1. /\ UNCHANGED <<sent_datagrams, sent_datagrams_base, datagram_write_index, built, confirmed, given_up>>
      /\ UNCHANGED <<queueVars, reliability_write_index, order_write, split_index, queued>>
      /\ UNCHANGED <<sent_datagrams, sliding>> /\ UNCHANGED <<incoming_acks, incoming_naks>>
    BY DEF senderVars, indexVars, queueVars, windowVars, incomingVars
<1>2. WindowInv' /\ QueueInv' /\ SlidingInv'
    BY <1>1, WindowUntouched, QueueUntouched, SlidingUntouched DEF OutboundInv
<1>3. WireInv'
    BY <1>1 DEF OutboundInv, WireInv, IsTracked
<1> QED BY <1>1, <1>2, <1>3 DEF OutboundInv, Numbered

\* What has been built stays built.
LEMMA BuiltGrows ==
    ASSUME [OutboundNext]_outboundVars
    PROVE  built \subseteq built'
<1>1. ASSUME NEW m, QueuePacket(m) PROVE built' = built
    BY <1>1 DEF QueuePacket
<1>2. CASE BuildDatagram
    BY <1>2 DEF BuildDatagram
<1>3. ASSUME NEW ranges, HandleAckPayload(ranges) \/ HandleNackPayload(ranges) PROVE built' = built
    BY <1>3 DEF HandleAckPayload, HandleNackPayload
<1>4. ASSUME NEW timers, NEW expired, SenderTick(timers, expired) PROVE built' = built
    BY <1>4 DEF SenderTick
<1>5. CASE UNCHANGED outboundVars
    BY <1>5 DEF outboundVars
<1> QED BY <1>1, <1>2, <1>3, <1>4, <1>5 DEF OutboundNext

\* The payloads of a tick: an ACK brings no number in.
LEMMA PayloadFacts ==
    ASSUME QueuesTyped, NEW f \in Payloads
    PROVE  /\ f.ranges \in Seq(SequenceRange)
           /\ f.kind = "ack" => Contents(f.ranges) \subseteq Contents(outgoing_acks)
<1>1. ASSUME NEW q \in Seq(SequenceRange), NEW n \in 0 .. Len(q)
      PROVE  InPayload(SubSeq(q, 1, n)) \in QueuesWithin(Contents(q))
    <2>1. q \in QueuesWithin(Contents(q))
        BY DEF QueuesWithin
    <2> QED BY <2>1, PayloadSound
<1>2. AckPayload \in QueuesWithin(Contents(outgoing_acks))
    <2>1. PICK q, n : q = outgoing_acks /\ n = AckCount
        OBVIOUS
    <2>2. q \in Seq(SequenceRange) /\ n \in 0 .. Len(q)
        BY <2>1, LenProperties, PopCountType DEF QueuesTyped, AckCount
    <2>3. InPayload(SubSeq(q, 1, n)) \in QueuesWithin(Contents(q))
        BY <1>1, <2>2
    <2> QED BY <2>1, <2>3 DEF AckPayload
<1>3. NakPayload \in QueuesWithin(Contents(outgoing_naks))
    <2>1. PICK q, n : q = outgoing_naks /\ n = NakCount
        OBVIOUS
    <2>2. q \in Seq(SequenceRange) /\ n \in 0 .. Len(q)
        BY <2>1, LenProperties, PopCountType DEF QueuesTyped, NakCount
    <2>3. InPayload(SubSeq(q, 1, n)) \in QueuesWithin(Contents(q))
        BY <1>1, <2>2
    <2> QED BY <2>1, <2>3 DEF NakPayload
<1>4. CASE f = [kind |-> "ack", ranges |-> AckPayload]
    BY <1>2, <1>4 DEF QueuesWithin
<1>5. CASE f = [kind |-> "nak", ranges |-> NakPayload]
    BY <1>3, <1>5 DEF QueuesWithin
<1> QED BY <1>4, <1>5 DEF Payloads

\* handle_encapsulated leaves the ACKs, the NAKs and the datagram alone, or
\* lets go of the datagram.
LEMMA EncapsulatedKeeps ==
    ASSUME HandleEncapsulated
    PROVE  /\ UNCHANGED <<datagram_read_index, outgoing_acks, outgoing_naks, received>>
           /\ handling' => handling /\ current' = current
<1>1. PICK p : DropDuplicate(p) \/ RefusePart(p) \/ AcceptPacket(p)
    BY DEF HandleEncapsulated
<1>2. CASE DropDuplicate(p)
    BY <1>2 DEF HandleEncapsulated, DropDuplicate, sessionVars
<1>3. CASE RefusePart(p)
    BY <1>3 DEF RefusePart, AbandonDatagram
<1>4. CASE AcceptPacket(p)
    BY <1>4 DEF HandleEncapsulated, AcceptPacket, AbandonDatagram
<1> QED BY <1>1, <1>2, <1>3, <1>4

\* Nothing of what the receiver does upsets the base.
LEMMA ReceiverBase ==
    ASSUME LinkBase, ReceiverStep
    PROVE  LinkBase'
<1>1. OutboundInv' /\ built' = built
    BY SenderUntouched DEF LinkBase, ReceiverStep
<1>2. CASE InboundTick /\ feedback' = feedback \cup Payloads
    <2>1. EmitAcks /\ UNCHANGED <<datagram_read_index, handling, current, received>>
        BY <1>2 DEF InboundTick, handlerVars
    <2>2. outgoing_acks' \in Seq(SequenceRange) /\ outgoing_naks' \in Seq(SequenceRange)
        BY <2>1, EmitAcksFacts DEF LinkBase
    <2>3. QueuesTyped' /\ Handled'
        BY <1>1, <2>1, <2>2 DEF LinkBase, QueuesTyped, Handled
    <2>4. FeedbackTyped'
        BY <1>2, PayloadFacts DEF LinkBase, FeedbackTyped
    <2> QED BY <1>1, <2>3, <2>4 DEF LinkBase
<1>3. CASE ReceiverMoves /\ feedback' \subseteq feedback
    <2>1. FeedbackTyped'
        BY <1>3 DEF LinkBase, FeedbackTyped
    <2>2. CASE UNCHANGED inboundVars
        <3>1. UNCHANGED <<datagram_read_index, outgoing_acks, outgoing_naks, handling, current, received>>
            BY <2>2 DEF inboundVars, sessionVars, handlerVars, historyVars
        <3> QED BY <1>1, <2>1, <3>1 DEF LinkBase, QueuesTyped, Handled
    <2>3. ASSUME NEW d \in wire, HandleDatagram(d) PROVE LinkBase'
        <3>1. /\ current' = d /\ d \in built
              /\ UNCHANGED <<datagram_read_index, outgoing_acks, outgoing_naks, received>>
            BY <2>3 DEF HandleDatagram, sessionVars, historyVars, LinkBase, OutboundInv, WireInv
        <3> QED BY <1>1, <2>1, <3>1 DEF LinkBase, QueuesTyped, Handled
    <2>4. CASE HandleEncapsulated
        BY <1>1, <2>1, <2>4, EncapsulatedKeeps DEF LinkBase, QueuesTyped, Handled
    <2>5. CASE FinishDatagram
        <3>1. /\ handling /\ handling' = FALSE /\ received' = received \cup {current}
              /\ ProcessDatagramSequence(current.sequence)
            BY <2>5 DEF FinishDatagram
        <3>2. current \in built /\ current.sequence \in SeqNum
            BY <3>1 DEF LinkBase, Handled, OutboundInv, WireInv, SizedDatagram
        <3>3. QueuesTyped'
            BY <3>1, <3>2, ProcessKeepsQueues DEF LinkBase
        <3> QED BY <1>1, <2>1, <3>1, <3>2, <3>3 DEF LinkBase, Handled
    <2> QED BY <1>3, <2>2, <2>3, <2>4, <2>5 DEF ReceiverMoves
<1> QED BY <1>2, <1>3 DEF ReceiverStep

\* No step upsets the base.
LEMMA BaseSteps == LinkBase /\ [LinkNext]_linkVars => LinkBase'
<1> SUFFICES ASSUME LinkBase, [LinkNext]_linkVars PROVE LinkBase'
    OBVIOUS
<1>1. CASE SenderStep
    <2>1. OutboundInv' /\ built \subseteq built'
        BY <1>1, OutboundSteps, BuiltGrows DEF LinkBase, SenderStep
    <2>2. UNCHANGED <<datagram_read_index, outgoing_acks, outgoing_naks, handling, current, received>>
        BY <1>1 DEF SenderStep, inboundVars, sessionVars, handlerVars, historyVars
    <2> QED BY <1>1, <2>1, <2>2 DEF SenderStep, LinkBase, QueuesTyped, Handled, FeedbackTyped
<1>2. CASE ReceiverStep
    BY <1>2, ReceiverBase
<1> QED BY <1>1, <1>2, LinkSplits DEF LinkBase

-----------------------------------------------------------------------------
(* Nothing is given up.                                                    *)

\* clean_sent_datagrams pops no datagram when none expires and all have room.
LEMMA FrontFree ==
    ASSUME NEW slots, Len(slots) \in Nat, Len(slots) <= MaxSent
    PROVE  \A k \in 1 .. CleanedFront(slots, {}) : ~IsTracked(slots[k])
<1> DEFINE len == Len(slots)
           stops == {n \in 0 .. len :
                        \/ n = len
                        \/ /\ IsTracked(slots[n + 1])
                           /\ slots[n + 1][1].datagram.sequence \notin {}}
           two == {Min(stops), len - MaxSent}
<1>1. stops \subseteq Nat /\ len \in stops
    OBVIOUS
<1>2. CleanedFront(slots, {}) = Max(two)
    BY DEF CleanedFront
<1>3. ASSUME NEW n \in 0 .. len, IsTracked(slots[n + 1]) PROVE n \in stops
    BY <1>3
<1> HIDE DEF stops
<1>4. Min(stops) \in stops /\ \A n \in stops : Min(stops) <= n
    BY <1>1, MinFacts
<1>5. PICK m : m = Min(stops)
    OBVIOUS
<1>6. m \in Nat /\ m <= len
    BY <1>1, <1>4, <1>5
<1>7. MaxSent \in Nat
    BY OutboundAssumption
<1>8. Max(two) \in two /\ \A y \in two : Max(two) >= y
    <2>1. two = {m, len - MaxSent} /\ two \subseteq Int /\ two # {} /\ \A x \in two : x <= len
        BY <1>5, <1>6, <1>7
    <2> HIDE DEF two
    <2>2. len \in Int
        OBVIOUS
    <2> QED BY <2>1, <2>2, MaxFacts, Zenon
<1>9. Max(two) = m
    <2>1. PICK x : x = Max(two)
        OBVIOUS
    <2>2. (x = m \/ x = len - MaxSent) /\ x >= m
        BY <1>5, <1>8, <2>1
    <2>3. len - MaxSent \in Int /\ len - MaxSent <= 0
        BY <1>7
    <2>4. CASE x = len - MaxSent
        BY <1>6, <2>1, <2>2, <2>3, <2>4
    <2> QED BY <2>1, <2>2, <2>4
<1> QED
    <2> SUFFICES ASSUME NEW k \in 1 .. m, IsTracked(slots[k]) PROVE FALSE
        BY <1>2, <1>9
    <2>1. PICK n : n = k - 1
        OBVIOUS
    <2>2. n \in 0 .. len /\ n < m /\ slots[n + 1] = slots[k]
        BY <1>6, <2>1
    <2>3. n \in stops
        BY <1>3, <2>2
    <2> QED BY <1>4, <1>5, <1>6, <2>2, <2>3

\* A tick of a sender whose window has room gives nothing up.
LEMMA TickGivesNothingUp ==
    ASSUME WindowInv, WindowFits, given_up = {}, NEW timers, SenderTick(timers, {})
    PROVE  given_up' = {}
<1> DEFINE len == Len(sent_datagrams)
           remaining == AfterAcks
           front == CleanedFront(remaining, {})
<1>1. len \in Nat /\ DOMAIN sent_datagrams = 1 .. len
    BY ShapeFacts DEF WindowInv
<1>2. Len(remaining) = len
    <2>1. remaining = [k \in 1 .. len |-> remaining[k]]
        BY <1>1 DEF AfterAcks
    <2> HIDE DEF remaining, len
    <2> QED BY <1>1, <2>1, ShapeOfFunction
<1>3. given_up' = given_up \cup {remaining[k][1].datagram.sequence :
                                    k \in {j \in 1 .. front : IsTracked(remaining[j])}}
    BY DEF SenderTick
<1>4. PICK slots : slots = remaining
    OBVIOUS
<1>5. \A k \in 1 .. CleanedFront(slots, {}) : ~IsTracked(slots[k])
    BY <1>1, <1>2, <1>4, FrontFree DEF WindowFits
<1> HIDE DEF remaining
<1> QED BY <1>3, <1>4, <1>5

-----------------------------------------------------------------------------
(* Steps of the sender.                                                    *)

\* What the invariant says of a datagram that was built.
LEMMA BuiltFacts ==
    ASSUME LinkInv, NEW d \in built
    PROVE  d.sequence \in SeqNum
BY DEF LinkInv, LinkBase, OutboundInv, WireInv, SizedDatagram, Datagram

\* Every number a datagram was given lies within half a lap from the first.
LEMMA ReceivedSpan ==
    ASSUME LinkInv, HalfLap
    PROVE  \A d \in built : d.sequence \in SeqStretch(SendStart, Half)
<1> SUFFICES ASSUME NEW d \in built PROVE d.sequence \in SeqStretch(SendStart, Half)
    OBVIOUS
<1>1. PICK x, a, b : /\ x = d.sequence /\ a = SeqDistance(SendStart, x)
                     /\ b = SeqDistance(SendStart, datagram_write_index)
    OBVIOUS
<1>2. x \in SeqNum /\ SendStart \in SeqNum /\ datagram_write_index \in SeqNum
    BY <1>1, BuiltFacts, OutboundAssumption DEF LinkInv, LinkBase, OutboundInv, WindowInv, WindowBehindWrite
<1>3. a \in Nat /\ b \in Nat /\ Half \in Nat
    BY <1>1, <1>2, DistanceType, HalfFacts
<1>4. a < b /\ b < Half
    BY <1>1 DEF HalfLap, LinkInv, Numbered
<1>5. SeqDistance(SendStart, x) < Half
    BY <1>1, <1>3, <1>4
<1> QED BY <1>1, <1>2, <1>5 DEF SeqStretch

\* The receiver keeps what it has handled; ACKs that come in name that.
LEMMA TrailKept ==
    ASSUME AckTrail, UNCHANGED <<outgoing_acks, received>>, feedback' \subseteq feedback,
           Contents(incoming_acks') \subseteq ReceivedNumbers, confirmed' \subseteq ReceivedNumbers
    PROVE  AckTrail'
<1>1. ReceivedNumbers' = ReceivedNumbers
    BY DEF ReceivedNumbers
<1> QED BY <1>1 DEF AckTrail, AcksSound

\* build_datagram: the number is new.
LEMMA BuildNumbers ==
    ASSUME LinkInv, HalfLap, BuildDatagram
    PROVE  Numbered' /\ UNCHANGED <<confirmed, given_up, incoming_acks>>
<1>1. PICK d : /\ d.sequence = datagram_write_index /\ built' = built \cup {d}
               /\ datagram_write_index' = SeqNext(datagram_write_index)
               /\ UNCHANGED <<confirmed, given_up, incoming_acks>>
    <2>1. PICK s \in PopOrders(queue) :
            LET n == FillCount(s)
                d == [sequence |-> datagram_write_index, packets |-> [i \in 1 .. n |-> s[i].pkt]]
            IN  /\ built' = built \cup {d}
                /\ datagram_write_index' = SeqNext(datagram_write_index)
                /\ UNCHANGED <<incomingVars, confirmed, given_up>>
        BY DEF BuildDatagram
    <2>2. PICK e : e = [sequence |-> datagram_write_index,
                        packets |-> [i \in 1 .. FillCount(s) |-> s[i].pkt]]
        OBVIOUS
    <2>3. e.sequence = datagram_write_index
        BY <2>2
    <2> QED BY <2>1, <2>2, <2>3 DEF incomingVars
<1>3. PICK w, next, b : /\ w = datagram_write_index /\ next = SeqNext(w)
                        /\ b = SeqDistance(SendStart, w)
    OBVIOUS
<1>4. w \in SeqNum /\ SendStart \in SeqNum
    BY <1>3, OutboundAssumption DEF LinkInv, LinkBase, OutboundInv, WindowInv, WindowBehindWrite
<1>5. b \in Nat /\ b < Half /\ Half \in Nat /\ Half <= Modulo - 1
    BY <1>3, <1>4, DistanceType, HalfFacts, ModuloAssumption DEF HalfLap
<1>6. SeqDistance(SendStart, next) = b + 1
    BY <1>3, <1>4, <1>5, DistanceNext, ModuloAssumption
<1>7. ASSUME NEW e \in built
      PROVE  SeqDistance(SendStart, e.sequence) < b /\ e.sequence # w
    <2>1. SeqDistance(SendStart, e.sequence) < b
        BY <1>3 DEF LinkInv, Numbered
    <2> QED BY <1>3, <1>5, <2>1
<1>8. ASSUME NEW e \in built PROVE SeqDistance(SendStart, e.sequence) < b + 1
    <2>1. SeqDistance(SendStart, e.sequence) \in Nat
        BY <1>4, BuiltFacts, DistanceType
    <2> QED BY <1>5, <1>7, <2>1
<1>9. Numbered'
    <2>1. datagram_write_index' = next /\ built' = built \cup {d} /\ d.sequence = w
        BY <1>1, <1>3
    <2>2. ASSUME NEW e \in built' PROVE SeqDistance(SendStart, e.sequence) < SeqDistance(SendStart, next)
        BY <1>3, <1>5, <1>6, <1>8, <2>1
    <2>3. ASSUME NEW e \in built', NEW f \in built', e.sequence = f.sequence PROVE e = f
        BY <1>7, <2>1, <2>3 DEF LinkInv, Numbered
    <2> QED BY <2>1, <2>2, <2>3 DEF Numbered
<1> QED BY <1>1, <1>9

\* The sender's own steps: what the ACKs of a tick name is confirmed.
LEMMA SenderKeeps ==
    ASSUME LinkInv, LinkBase', HalfLap, WindowFits,
           \/ AppSend
           \/ \E timers \in SUBSET TrackedNumbers : SendTick(timers)
           \/ Flush
    PROVE  LinkInv'
<1>1. UNCHANGED <<inboundVars, feedback>>
    BY DEF AppSend, SendTick, Flush
<1>2. UNCHANGED <<outgoing_acks, received>>
    BY <1>1 DEF inboundVars, sessionVars, historyVars
<1>3. /\ AckTrail /\ Numbered /\ given_up = {}
      /\ Contents(incoming_acks) \subseteq ReceivedNumbers /\ confirmed \subseteq ReceivedNumbers
    BY DEF LinkInv, AckTrail
<1>4. ASSUME UNCHANGED <<confirmed, incoming_acks>> PROVE AckTrail'
    BY <1>1, <1>2, <1>3, <1>4, TrailKept
<1>5. ASSUME UNCHANGED <<datagram_write_index, built, given_up>> PROVE Numbered' /\ given_up' = {}
    BY <1>3, <1>5 DEF Numbered
<1>6. CASE AppSend
    <2>1. UNCHANGED <<datagram_write_index, built, confirmed, given_up, incoming_acks>>
        BY <1>6 DEF AppSend, QueuePacket, incomingVars
    <2> QED BY <1>4, <1>5, <2>1 DEF LinkInv
<1>7. ASSUME NEW timers \in SUBSET TrackedNumbers, SendTick(timers) PROVE LinkInv'
    <2>1. /\ SenderTick(timers, {})
          /\ incoming_acks' = <<>> /\ confirmed' = confirmed \cup Contents(incoming_acks)
          /\ UNCHANGED <<datagram_write_index, built>>
        BY <1>7 DEF SendTick, SenderTick, indexVars
    <2>2. given_up' = {}
        BY <1>3, <2>1, TickGivesNothingUp DEF LinkInv, LinkBase, OutboundInv
    <2>3. Contents(incoming_acks') = {}
        BY <2>1 DEF Contents
    <2>4. AckTrail'
        BY <1>1, <1>2, <1>3, <2>1, <2>3, TrailKept
    <2> QED BY <1>3, <2>1, <2>2, <2>4 DEF LinkInv, Numbered
<1>8. CASE Flush
    <2>1. BuildDatagram \/ UNCHANGED outboundVars
        BY <1>8 DEF Flush
    <2>2. CASE BuildDatagram
        BY <1>3, <1>4, <2>2, BuildNumbers DEF LinkInv
    <2>3. CASE UNCHANGED outboundVars
        <3>1. UNCHANGED <<datagram_write_index, built, confirmed, given_up, incoming_acks>>
            BY <2>3 DEF outboundVars, indexVars, incomingVars
        <3> QED BY <1>4, <1>5, <3>1 DEF LinkInv
    <2> QED BY <2>1, <2>2, <2>3
<1> QED BY <1>6, <1>7, <1>8

-----------------------------------------------------------------------------
(* Steps of the network and of the receiver.                               *)

\* An ACK or a NAK arrives and waits for the sender's tick, or is lost.
LEMMA FeedbackKeeps ==
    ASSUME LinkInv, LinkBase', NEW f \in feedback, DeliverFeedback(f) \/ LoseFeedback(f)
    PROVE  LinkInv'
<1>1. UNCHANGED inboundVars /\ feedback' \subseteq feedback
    BY DEF DeliverFeedback, LoseFeedback, Leaves
<1>2. UNCHANGED <<outgoing_acks, received>>
    BY <1>1 DEF inboundVars, sessionVars, historyVars
<1>3. /\ \/ f.kind = "ack" /\ incoming_acks' = incoming_acks \o f.ranges
         \/ UNCHANGED incoming_acks
      /\ UNCHANGED <<datagram_write_index, built, confirmed, given_up>>
    BY DEF DeliverFeedback, LoseFeedback, HandleAckPayload, HandleNackPayload, outboundVars, indexVars, incomingVars
<1>4. /\ f.ranges \in Seq(SequenceRange) /\ incoming_acks \in Seq(SequenceRange)
      /\ f.kind = "ack" => Contents(f.ranges) \subseteq ReceivedNumbers
      /\ Contents(incoming_acks) \subseteq ReceivedNumbers
    BY DEF LinkInv, LinkBase, FeedbackTyped, AckTrail, OutboundInv, WireInv
<1>5. Contents(incoming_acks') \subseteq ReceivedNumbers
    <2>1. PICK q, r : q = incoming_acks /\ r = f.ranges
        OBVIOUS
    <2>2. Contents(q \o r) \subseteq Contents(q) \cup Contents(r)
        BY <1>4, <2>1, ContentsConcat
    <2> QED BY <1>3, <1>4, <2>1, <2>2
<1>6. AckTrail'
    BY <1>1, <1>2, <1>3, <1>5, TrailKept DEF LinkInv, AckTrail
<1> QED BY <1>3, <1>6 DEF LinkInv, Numbered

\* The receiver ends a datagram and acknowledges it.
LEMMA FinishKeeps ==
    ASSUME LinkInv, HalfLap, FinishDatagram, UNCHANGED <<incoming_acks, confirmed>>,
           feedback' \subseteq feedback
    PROVE  AckTrail'
<1>1. handling /\ received' = received \cup {current} /\ ProcessDatagramSequence(current.sequence)
    BY DEF FinishDatagram
<1>2. current \in built /\ current.sequence \in SeqNum
    BY <1>1, BuiltFacts DEF LinkInv, LinkBase, Handled
<1>3. PICK seq, q : seq = current.sequence /\ q = outgoing_acks
    OBVIOUS
<1>4. outgoing_acks' = Push(q, Singleton(seq), AckCapacity)
    BY <1>1, <1>3 DEF ProcessDatagramSequence
<1>5. q \in Seq(SequenceRange) /\ seq \in SeqNum /\ SendStart \in SeqNum
    BY <1>2, <1>3, OutboundAssumption DEF LinkInv, LinkBase, QueuesTyped
<1>6. Contents(q) \cup {seq} \subseteq SeqStretch(SendStart, Half)
    <2>1. Contents(q) \subseteq ReceivedNumbers /\ received \subseteq built
        BY <1>3 DEF LinkInv, LinkBase, AckTrail, AcksSound, Handled
    <2>2. \A d \in built : d.sequence \in SeqStretch(SendStart, Half)
        BY ReceivedSpan
    <2> QED BY <1>2, <1>3, <2>1, <2>2 DEF ReceivedNumbers
<1>7. Contents(outgoing_acks') \subseteq Contents(q) \cup {seq}
    BY <1>4, <1>5, <1>6, AckPushed
<1>8. ReceivedNumbers' = ReceivedNumbers \cup {seq}
    BY <1>1, <1>3 DEF ReceivedNumbers
<1> QED BY <1>3, <1>7, <1>8 DEF LinkInv, AckTrail, AcksSound

\* Datagrams arrive or are lost, the receiver handles them, and its payloads
\* leave.
LEMMA ReceiverKeeps ==
    ASSUME LinkInv, LinkBase', HalfLap, ReceiverStep
    PROVE  LinkInv'
<1>1. Numbered' /\ given_up' = {}
    BY SenderUntouched DEF LinkInv, LinkBase, ReceiverStep
<1>2. UNCHANGED <<incoming_acks, confirmed>>
    BY DEF ReceiverStep, senderVars, incomingVars
<1>3. /\ AckTrail /\ Contents(outgoing_acks) \subseteq ReceivedNumbers
      /\ Contents(incoming_acks) \subseteq ReceivedNumbers /\ confirmed \subseteq ReceivedNumbers
    BY DEF LinkInv, AckTrail, AcksSound
<1>4. CASE InboundTick /\ feedback' = feedback \cup Payloads
    <2>1. EmitAcks /\ ReceivedNumbers' = ReceivedNumbers
        BY <1>4 DEF InboundTick, ReceivedNumbers
    <2>2. Contents(outgoing_acks') \subseteq Contents(outgoing_acks)
        BY <2>1, EmitAcksFacts DEF LinkInv, LinkBase
    <2>3. ASSUME NEW f \in feedback', f.kind = "ack" PROVE Contents(f.ranges) \subseteq ReceivedNumbers
        <3>1. CASE f \in feedback
            BY <1>3, <2>3, <3>1 DEF AckTrail
        <3>2. CASE f \in Payloads
            BY <1>3, <2>3, <3>2, PayloadFacts DEF LinkInv, LinkBase
        <3> QED BY <1>4, <3>1, <3>2
    <2>4. AckTrail'
        BY <1>2, <1>3, <2>1, <2>2, <2>3 DEF AckTrail, AcksSound
    <2> QED BY <1>1, <2>4 DEF LinkInv
<1>5. CASE ReceiverMoves /\ feedback' \subseteq feedback
    <2>1. CASE FinishDatagram
        <3>1. AckTrail'
            BY <1>2, <1>5, <2>1, FinishKeeps
        <3> QED BY <1>1, <3>1 DEF LinkInv
    <2>2. CASE ~FinishDatagram
        <3>1. UNCHANGED <<outgoing_acks, received>>
            BY <1>5, <2>2, EncapsulatedKeeps
            DEF ReceiverMoves, HandleDatagram, inboundVars, sessionVars, historyVars
        <3>2. AckTrail'
            BY <1>2, <1>3, <1>5, <3>1, TrailKept
        <3> QED BY <1>1, <3>2 DEF LinkInv
    <2> QED BY <2>1, <2>2
<1> QED BY <1>4, <1>5 DEF ReceiverStep

-----------------------------------------------------------------------------
\* Nothing has been sent.
LEMMA LinkStarts == LinkInit => LinkInv
<1> SUFFICES ASSUME LinkInit PROVE LinkInv
    OBVIOUS
<1>1. OutboundInit /\ InboundInit /\ feedback = {}
    BY DEF LinkInit
<1>2. OutboundInv
    BY <1>1, OutboundStarts
<1>3. /\ built = {} /\ confirmed = {} /\ given_up = {} /\ incoming_acks = <<>>
      /\ received = {} /\ handling = FALSE /\ outgoing_acks = <<>> /\ outgoing_naks = <<>>
      /\ datagram_read_index = Start
    BY <1>1 DEF OutboundInit, InboundInit
<1>4. QueuesTyped
    BY <1>3, InboundAssumption, EmptySeq DEF QueuesTyped
<1>5. Contents(<<>>) = {}
    BY DEF Contents
<1> QED BY <1>1, <1>2, <1>3, <1>4, <1>5
        DEF LinkInv, LinkBase, FeedbackTyped, Numbered, Handled, AckTrail, AcksSound

\* Every step of either session and of the network keeps the invariant.
LEMMA LinkSteps == LinkInv /\ HalfLap /\ WindowFits /\ [LinkNext]_linkVars => LinkInv'
<1> SUFFICES ASSUME LinkInv, HalfLap, WindowFits, [LinkNext]_linkVars PROVE LinkInv'
    OBVIOUS
<1>1. LinkBase'
    BY BaseSteps DEF LinkInv
<1>2. CASE ReceiverStep
    BY <1>1, <1>2, ReceiverKeeps
<1> QED BY <1>1, <1>2, ReceiverActs, SenderKeeps, FeedbackKeeps DEF LinkNext

\* A number that an ACK has named is that of one datagram, which was received.
LEMMA TrailEnds == LinkInv => ReleasedWasReceived
<1> SUFFICES ASSUME LinkInv, NEW d \in built, HasReliable(d), d.sequence \notin TrackedNumbers
             PROVE  d \in received
    BY DEF ReleasedWasReceived
<1>1. d.sequence \in confirmed
    BY DEF LinkInv, LinkBase, OutboundInv, WindowInv, NoPrematureRelease
<1>2. PICK e \in received : e.sequence = d.sequence
    BY <1>1 DEF LinkInv, AckTrail, ReceivedNumbers
<1>3. e \in built
    BY DEF LinkInv, LinkBase, Handled
<1> QED BY <1>2, <1>3 DEF LinkInv, Numbered

\* Over a network that loses, repeats and reorders as it likes, the sender lets
\* go of a reliable datagram only when the peer has handled it to the end, as
\* long as fewer than half a lap of datagrams is sent and none is evicted.
THEOREM ReleasedWasReceivedHolds ==
    LinkSpec /\ []HalfLap /\ []WindowFits => []ReleasedWasReceived
<1>1. LinkSpec /\ []HalfLap /\ []WindowFits => []LinkInv
    BY LinkStarts, LinkSteps, PTL DEF LinkSpec
<1> QED BY <1>1, TrailEnds, PTL
-----------------------------------------------------------------------------
(* The numbers of the conversation.                                        *)

All == Len(Messages)

\* What each message adds to its numbers.
OrderedList(c) ==
    [m \in 1 .. All |->
        IF IsOrdered(Messages[m].reliability) /\ Messages[m].channel = c THEN <<m>> ELSE <<>>]
SplitList ==
    [m \in 1 .. All |-> IF Accepted(m) /\ ~FitsWhole(Messages[m]) THEN <<m>> ELSE <<>>]
ReliableList ==
    [m \in 1 .. All |->
        IF Accepted(m) /\ IsReliable(SentReliability(Messages[m]))
        THEN [i \in 1 .. Parts(Messages[m]) |-> m] ELSE <<>>]

\* The conversation is a sequence.
LEMMA AllFacts == All \in Nat /\ DOMAIN Messages = 1 .. All
BY OutboundAssumption, LenProperties DEF All

\* Each list is one of sequences, and UpTo joins its first ones.
LEMMA ListFacts ==
    /\ \A c : Listed(OrderedList(c), All, 1 .. All)
    /\ Listed(SplitList, All, 1 .. All)
    /\ Listed(ReliableList, All, 1 .. All)
    /\ \A n \in 0 .. All :
        /\ \A c : OrderedUpTo(c, n) = FlattenSeq(Firsts(OrderedList(c), n))
        /\ SplitUpTo(n) = FlattenSeq(Firsts(SplitList, n))
        /\ ReliableUpTo(n) = FlattenSeq(Firsts(ReliableList, n))
<1>1. ASSUME NEW m \in 1 .. All PROVE <<>> \in Seq(1 .. All) /\ <<m>> \in Seq(1 .. All)
    BY EmptySeq
<1>2. ASSUME NEW m \in 1 .. All PROVE [i \in 1 .. Parts(Messages[m]) |-> m] \in Seq(1 .. All)
    <2>1. PICK n : n = Parts(Messages[m])
        OBVIOUS
    <2>2. n \in Nat
        BY <2>1, AllFacts, MessageFacts
    <2>3. [i \in 1 .. n |-> m] \in [1 .. n -> 1 .. All]
        OBVIOUS
    <2> QED BY <2>1, <2>2, <2>3, FunctionIsSeq
<1>3. \A c : Listed(OrderedList(c), All, 1 .. All)
    BY <1>1 DEF Listed, OrderedList
<1>4. Listed(SplitList, All, 1 .. All)
    BY <1>1 DEF Listed, SplitList
<1>5. Listed(ReliableList, All, 1 .. All)
    BY <1>1, <1>2 DEF Listed, ReliableList
<1>6. ASSUME NEW n \in 0 .. All
      PROVE  /\ \A c : OrderedUpTo(c, n) = FlattenSeq(Firsts(OrderedList(c), n))
             /\ SplitUpTo(n) = FlattenSeq(Firsts(SplitList, n))
             /\ ReliableUpTo(n) = FlattenSeq(Firsts(ReliableList, n))
    <2>1. \A m \in 1 .. n : m \in 1 .. All
        BY AllFacts
    <2>2. ASSUME NEW c
          PROVE  Firsts(OrderedList(c), n) =
                 [m \in 1 .. n |-> IF IsOrdered(Messages[m].reliability) /\ Messages[m].channel = c
                                   THEN <<m>> ELSE <<>>]
        BY <2>1 DEF Firsts, OrderedList
    <2>3. Firsts(SplitList, n) =
            [m \in 1 .. n |-> IF Accepted(m) /\ ~FitsWhole(Messages[m]) THEN <<m>> ELSE <<>>]
        BY <2>1 DEF Firsts, SplitList
    <2>4. Firsts(ReliableList, n) =
            [m \in 1 .. n |-> IF Accepted(m) /\ IsReliable(SentReliability(Messages[m]))
                              THEN [i \in 1 .. Parts(Messages[m]) |-> m] ELSE <<>>]
        BY <2>1 DEF Firsts, ReliableList
    <2> QED BY <2>2, <2>3, <2>4 DEF OrderedUpTo, SplitUpTo, ReliableUpTo
<1> QED BY <1>3, <1>4, <1>5, <1>6

\* The lengths of the first sequences joined.
Lengthens(g, k) ==
    LET a == Len(FlattenSeq(Firsts(g, k - 1)))
        b == Len(FlattenSeq(Firsts(g, k)))
    IN  /\ a \in Nat /\ b \in Nat /\ Len(g[k]) \in Nat
        /\ b = a + Len(g[k]) /\ b <= Len(FlattenSeq(g))

LEMMA ListLengths ==
    ASSUME NEW S, NEW N \in Nat, NEW g, Listed(g, N, S), NEW k \in 1 .. N
    PROVE  Lengthens(g, k) /\ Len(FlattenSeq(g)) \in Nat
<1>1. PICK s, t, u : s = FlattenSeq(Firsts(g, k - 1)) /\ t = FlattenSeq(Firsts(g, k)) /\ u = g[k]
    OBVIOUS
<1>2. u \in Seq(S)
    BY <1>1 DEF Listed
<1>3. s \in Seq(S) /\ t \in Seq(S) /\ t = s \o u
    BY <1>1, FlattenNext
<1>4. Len(s) \in Nat /\ Len(t) \in Nat /\ Len(u) \in Nat /\ Len(t) = Len(s) + Len(u)
    BY <1>2, <1>3, ConcatProperties, LenProperties
<1>5. Len(t) <= Len(FlattenSeq(g)) /\ Len(FlattenSeq(g)) \in Nat
    BY <1>1, FlattenGrows
<1> QED BY <1>1, <1>4, <1>5 DEF Lengthens

\* The numbers that message m takes.
LEMMA NumbersNext ==
    ASSUME NEW m \in 1 .. All
    PROVE  /\ \A c \in 0 .. OrderChannels - 1 :
                /\ Len(OrderedUpTo(c, m - 1)) \in Nat
                /\ Len(OrderedUpTo(c, m)) =
                        Len(OrderedUpTo(c, m - 1))
                            + (IF IsOrdered(Messages[m].reliability) /\ Messages[m].channel = c THEN 1 ELSE 0)
                /\ Len(OrderedUpTo(c, m)) < Half
           /\ Len(SplitUpTo(m - 1)) \in Nat
           /\ Len(SplitUpTo(m)) =
                Len(SplitUpTo(m - 1)) + (IF Accepted(m) /\ ~FitsWhole(Messages[m]) THEN 1 ELSE 0)
           /\ Len(SplitUpTo(m)) < 2^16
           /\ Len(ReliableUpTo(m - 1)) \in Nat
           /\ Len(ReliableUpTo(m)) =
                Len(ReliableUpTo(m - 1))
                    + (IF Accepted(m) /\ IsReliable(SentReliability(Messages[m]))
                       THEN Parts(Messages[m]) ELSE 0)
           /\ Len(ReliableUpTo(m)) < Modulo
<1>1. m - 1 \in 0 .. All /\ m \in 0 .. All /\ All \in 0 .. All /\ All \in Nat
    BY AllFacts
<1>2. ASSUME NEW g, Listed(g, All, 1 .. All) PROVE FlattenSeq(Firsts(g, All)) = FlattenSeq(g)
    BY <1>2 DEF Listed, Firsts
<1>3. Len(<<>>) = 0 /\ Len(<<m>>) = 1
    OBVIOUS
<1>4. ASSUME NEW c \in 0 .. OrderChannels - 1
      PROVE  /\ Len(OrderedUpTo(c, m - 1)) \in Nat
             /\ Len(OrderedUpTo(c, m)) =
                    Len(OrderedUpTo(c, m - 1))
                        + (IF IsOrdered(Messages[m].reliability) /\ Messages[m].channel = c THEN 1 ELSE 0)
             /\ Len(OrderedUpTo(c, m)) < Half
    <2>1. PICK g, a, b, z : /\ g = OrderedList(c) /\ a = Len(OrderedUpTo(c, m - 1))
                            /\ b = Len(OrderedUpTo(c, m)) /\ z = Len(OrderedUpTo(c, All))
        OBVIOUS
    <2>2. /\ Listed(g, All, 1 .. All) /\ a = Len(FlattenSeq(Firsts(g, m - 1)))
          /\ b = Len(FlattenSeq(Firsts(g, m))) /\ z = Len(FlattenSeq(g))
        BY <1>1, <1>2, <2>1, ListFacts
    <2>3. Len(g[m]) = IF IsOrdered(Messages[m].reliability) /\ Messages[m].channel = c THEN 1 ELSE 0
        BY <1>3, <2>1 DEF OrderedList
    <2>4. a \in Nat /\ b \in Nat /\ b = a + Len(g[m]) /\ b <= z
        <3>1. Lengthens(g, m)
            BY <1>1, <2>2, ListLengths
        <3> QED BY <2>2, <3>1 DEF Lengthens
    <2>5. z < Half /\ Half \in Nat
        BY <2>1, ConversationAssumption, HalfFacts DEF All
    <2>6. z \in Nat
        BY <1>1, <2>2, FlattenGrows
    <2> HIDE DEF All
    <2> QED BY <2>1, <2>3, <2>4, <2>5, <2>6
<1>5. /\ Len(SplitUpTo(m - 1)) \in Nat
      /\ Len(SplitUpTo(m)) =
                Len(SplitUpTo(m - 1)) + (IF Accepted(m) /\ ~FitsWhole(Messages[m]) THEN 1 ELSE 0)
      /\ Len(SplitUpTo(m)) < 2^16
    <2>1. PICK g, a, b, z : /\ g = SplitList /\ a = Len(SplitUpTo(m - 1))
                            /\ b = Len(SplitUpTo(m)) /\ z = Len(SplitUpTo(All))
        OBVIOUS
    <2>2. /\ Listed(g, All, 1 .. All) /\ a = Len(FlattenSeq(Firsts(g, m - 1)))
          /\ b = Len(FlattenSeq(Firsts(g, m))) /\ z = Len(FlattenSeq(g))
        BY <1>1, <1>2, <2>1, ListFacts
    <2>3. Len(g[m]) = IF Accepted(m) /\ ~FitsWhole(Messages[m]) THEN 1 ELSE 0
        BY <1>3, <2>1 DEF SplitList
    <2>4. a \in Nat /\ b \in Nat /\ b = a + Len(g[m]) /\ b <= z
        <3>1. Lengthens(g, m)
            BY <1>1, <2>2, ListLengths
        <3> QED BY <2>2, <3>1 DEF Lengthens
    <2>5. PICK N : N = 2^16
        OBVIOUS
    <2>6. z < N /\ N \in Nat
        BY <2>1, <2>5, ConversationAssumption DEF All
    <2>7. z \in Nat
        BY <1>1, <2>2, FlattenGrows
    <2> HIDE DEF All
    <2> QED BY <2>1, <2>3, <2>4, <2>5, <2>6, <2>7
<1>6. /\ Len(ReliableUpTo(m - 1)) \in Nat
      /\ Len(ReliableUpTo(m)) =
                Len(ReliableUpTo(m - 1))
                    + (IF Accepted(m) /\ IsReliable(SentReliability(Messages[m]))
                       THEN Parts(Messages[m]) ELSE 0)
      /\ Len(ReliableUpTo(m)) < Modulo
    <2>1. PICK g, a, b, z : /\ g = ReliableList /\ a = Len(ReliableUpTo(m - 1))
                            /\ b = Len(ReliableUpTo(m)) /\ z = Len(ReliableUpTo(All))
        OBVIOUS
    <2>2. /\ Listed(g, All, 1 .. All) /\ a = Len(FlattenSeq(Firsts(g, m - 1)))
          /\ b = Len(FlattenSeq(Firsts(g, m))) /\ z = Len(FlattenSeq(g))
        BY <1>1, <1>2, <2>1, ListFacts
    <2>3. Len(g[m]) = IF Accepted(m) /\ IsReliable(SentReliability(Messages[m])) THEN Parts(Messages[m]) ELSE 0
        <3>1. PICK n : n = Parts(Messages[m])
            OBVIOUS
        <3>2. n \in Nat
            BY <3>1, AllFacts, MessageFacts
        <3>3. Len([i \in 1 .. n |-> m]) = n
            <4>1. [i \in 1 .. n |-> m] \in [1 .. n -> 1 .. All]
                OBVIOUS
            <4> QED BY <3>2, <4>1, FunctionIsSeq
        <3>4. PICK h : h = [i \in 1 .. n |-> m]
            OBVIOUS
        <3>5. g[m] = IF Accepted(m) /\ IsReliable(SentReliability(Messages[m])) THEN h ELSE <<>>
            BY <2>1, <3>1, <3>4 DEF ReliableList
        <3> QED BY <1>3, <3>1, <3>3, <3>4, <3>5
    <2>4. a \in Nat /\ b \in Nat /\ b = a + Len(g[m]) /\ b <= z
        <3>1. Lengthens(g, m)
            BY <1>1, <2>2, ListLengths
        <3> QED BY <2>2, <3>1 DEF Lengthens
    <2>5. z < Modulo /\ Modulo \in Nat
        BY <2>1, ConversationAssumption, ModuloAssumption DEF All
    <2>6. z \in Nat
        BY <1>1, <2>2, FlattenGrows
    <2> HIDE DEF All
    <2> QED BY <2>1, <2>3, <2>4, <2>5, <2>6
<1> QED BY <1>4, <1>5, <1>6
\* The sender numbers as the conversation says, and only packets of it are
\* queued and built.
Numbering ==
    /\ queued \in 0 .. All
    /\ reliability_write_index = SeqAdd(SendStart, Len(ReliableUpTo(queued)))
    /\ \A c \in 0 .. OrderChannels - 1 : order_write[c] = SeqAdd(SendStart, Len(OrderedUpTo(c, queued)))
    /\ split_index = Len(SplitUpTo(queued))
    /\ \A e \in queue.heap : e.pkt \in SentBy(queued)
    /\ \A d \in built : d.packets \in Seq(SentBy(queued))

\* One number after the other.
LEMMA NextAdd ==
    ASSUME NEW a \in SeqNum, NEW n \in Nat, n + 1 < Modulo
    PROVE  SeqNext(SeqAdd(a, n)) = SeqAdd(a, n + 1)
BY ModuloAssumption DEF SeqNext, SeqAdd, SeqNum

\* What the first messages send stays sent.
LEMMA SentGrows ==
    ASSUME NEW m \in 0 .. All, NEW n \in 0 .. All, m <= n
    PROVE  SentBy(m) \subseteq SentBy(n) /\ SentBy(n) \subseteq Packets
<1>1. \A j, k \in 0 .. All : j <= k => SentBy(j) \subseteq SentBy(k)
    BY AllFacts DEF SentBy
<1>2. All \in 0 .. All /\ n <= All
    BY AllFacts
<1>3. SentBy(All) = Packets
    BY ConversationAssumption DEF All
<1> QED BY <1>1, <1>2, <1>3

\* Nothing has been numbered.
LEMMA NumberingStarts == OutboundInit => Numbering
<1> SUFFICES ASSUME OutboundInit PROVE Numbering
    OBVIOUS
<1>1. /\ queued = 0 /\ reliability_write_index = SendStart /\ split_index = 0 /\ built = {}
      /\ order_write = [c \in 0 .. OrderChannels - 1 |-> SendStart] /\ queue.heap = {}
    BY DEF OutboundInit, NewQueue
<1>2. ASSUME NEW g PROVE Firsts(g, 0) = <<>>
    BY DEF Firsts
<1>3. FlattenSeq(<<>>) = <<>>
    <2>1. <<>> \in Seq({})
        BY EmptySeq
    <2> QED BY <2>1, FlattenFew
<1>4. 0 \in 0 .. All
    BY AllFacts
<1>5. ReliableUpTo(0) = <<>> /\ SplitUpTo(0) = <<>> /\ \A c : OrderedUpTo(c, 0) = <<>>
    BY <1>2, <1>3, <1>4, ListFacts
<1>6. SeqAdd(SendStart, 0) = SendStart /\ Len(<<>>) = 0
    BY OutboundAssumption, ModuloAssumption DEF SeqAdd, SeqNum
<1> QED BY <1>1, <1>4, <1>5, <1>6 DEF Numbering

\* The queue has what it had and what is pushed.
LEMMA PushAllHeap ==
    ASSUME NEW q \in Queues, NEW n \in Nat, NEW packets \in [1 .. n -> SizedPacket],
           NEW level \in Levels, NEW e \in PushAll(q, packets, level).heap
    PROVE  e \in q.heap \/ \E i \in 1 .. n : e.pkt = packets[i]
<1>1. PICK f : Pushes(f, q, packets, n) /\ PushAll(q, packets, level) = f[n]
    BY PushAllFacts
<1>2. PICK S : S = q.heap \cup {x \in Queueable : \E i \in 1 .. n : x.pkt = packets[i]}
    OBVIOUS
<1>3. PICK D : D = {k \in 0 .. n : f[k].heap \subseteq S}
    OBVIOUS
<1>4. PICK id : id = [k \in 0 .. n |-> k]
    OBVIOUS
<1>5. id[0] \in D
    BY <1>1, <1>2, <1>3, <1>4 DEF Pushes
<1>6. ASSUME NEW k \in 1 .. n, id[k - 1] \in D PROVE id[k] \in D
    <2>1. k - 1 \in 0 .. n /\ k \in 0 .. n
        OBVIOUS
    <2>2. f[k - 1].heap \subseteq S
        BY <1>3, <1>4, <1>6, <2>1
    <2>3. PICK x \in Queueable : x.pkt = packets[k] /\ f[k].heap = f[k - 1].heap \cup {x}
        BY <1>1 DEF Pushes
    <2>4. x \in S
        BY <1>2, <2>3
    <2> QED BY <1>3, <1>4, <2>1, <2>2, <2>3, <2>4
<1>7. \A k \in 0 .. n : id[k] \in D
    BY <1>5, <1>6, StepInduction
<1>8. f[n].heap \subseteq S
    BY <1>3, <1>4, <1>7
<1> QED BY <1>1, <1>2, <1>8

\* Packets of message m are among those sent by then.
LEMMA PacketsSent ==
    ASSUME NEW m \in 1 .. All, Accepted(m), NEW i \in 1 .. Parts(Messages[m])
    PROVE  PacketsOf(m)[i] \in SentBy(m)
<1>1. m \in {k \in 1 .. m : Accepted(k)}
    BY AllFacts
<1> QED BY <1>1 DEF SentBy

\* queue_packet takes the numbers that are next.
LEMMA QueueNumbers ==
    ASSUME OutboundInv, Numbering, NEW m \in DOMAIN Messages, QueuePacket(m)
    PROVE  Numbering'
<1>1. /\ m = queued + 1 /\ queued' = m /\ built' = built /\ m \in 1 .. All
      /\ queued \in 0 .. All /\ m \in 0 .. All /\ queued = m - 1 /\ queued <= m
    BY AllFacts DEF QueuePacket, Numbering
<1>2. SentBy(queued) \subseteq SentBy(m)
    BY <1>1, SentGrows
<1>3. \A d \in built' : d.packets \in Seq(SentBy(m))
    BY <1>1, <1>2, SeqMonotone DEF Numbering
<1>4. PICK msg, r, l, s, n :
            /\ msg = Messages[m] /\ r = SentReliability(msg) /\ n = Parts(msg)
            /\ l = Len(ReliableUpTo(queued)) /\ s = Len(SplitUpTo(queued))
    OBVIOUS
<1>5. l \in Nat /\ s \in Nat /\ n \in 1 .. Modulo - 1 /\ msg.channel \in Nat /\ msg.level \in Levels
    BY <1>1, <1>4, NumbersNext, MessageFacts
<1>6. SendStart \in SeqNum
    BY OutboundAssumption
<1>7. CASE msg.channel >= OrderChannels
    <2>1. UNCHANGED <<queueVars, reliability_write_index, order_write, split_index>>
        BY <1>4, <1>7 DEF QueuePacket
    <2>2. ~Accepted(m)
        BY <1>4, <1>5, <1>7, OutboundAssumption DEF Accepted
    <2>3. Len(ReliableUpTo(m)) = l /\ Len(SplitUpTo(m)) = s
        BY <1>1, <1>4, <1>5, <2>2, NumbersNext
    <2>4. ASSUME NEW c \in 0 .. OrderChannels - 1 PROVE Len(OrderedUpTo(c, m)) = Len(OrderedUpTo(c, queued))
        <3>1. Messages[m].channel # c
            BY <1>4, <1>5, <1>7, OutboundAssumption
        <3>2. /\ Len(OrderedUpTo(c, m - 1)) \in Nat
              /\ Len(OrderedUpTo(c, m)) = Len(OrderedUpTo(c, m - 1)) + 0
            BY <1>1, <3>1, NumbersNext
        <3> QED BY <1>1, <3>2
    <2> QED BY <1>1, <1>2, <1>3, <1>4, <2>1, <2>3, <2>4 DEF Numbering, queueVars
<1>8. CASE msg.channel < OrderChannels
    <2>1. Accepted(m) /\ msg.channel \in 0 .. OrderChannels - 1
        BY <1>4, <1>5, <1>8, OutboundAssumption DEF Accepted
    <2>2. Encaps(m) = PacketsOf(m)
        BY <1>1, <1>4, <2>1 DEF Encaps, PacketsOf, Numbering
    <2>3. PICK packets : packets = Encaps(m)
        OBVIOUS
    <2>4. /\ packets \in [1 .. n -> SizedPacket] /\ queue \in Queues
          /\ order_write \in [0 .. OrderChannels - 1 -> SeqNum]
        BY <1>4, <1>8, <2>3, EncapFacts DEF OutboundInv, QueueInv
    <2>5. Len(packets) = n
        BY <1>5, <2>4, FunctionIsSeq
    <2>6. packets[1].reliability = r
        BY <1>4, <1>5, <2>3 DEF Encaps, NumberedPackets
    <2>7. /\ queue' = PushAll(queue, packets, msg.level)
          /\ reliability_write_index' = IF IsReliable(r) THEN SeqAdd(reliability_write_index, n)
                                                         ELSE reliability_write_index
          /\ order_write' = IF IsOrdered(r) THEN [order_write EXCEPT ![msg.channel] = SeqNext(@)]
                                            ELSE order_write
          /\ split_index' = IF FitsWhole(msg) THEN split_index ELSE (split_index + 1) % 2^16
        <3>1. ~(msg.channel >= OrderChannels)
            BY <1>5, <1>8, OutboundAssumption
        <3> QED BY <1>4, <2>3, <2>5, <2>6, <3>1 DEF QueuePacket
    <2>8. \A e \in queue'.heap : e.pkt \in SentBy(m)
        <3> SUFFICES ASSUME NEW e \in queue'.heap PROVE e.pkt \in SentBy(m)
            OBVIOUS
        <3>1. PICK q, level : q = queue /\ level = msg.level
            OBVIOUS
        <3>2. e \in PushAll(q, packets, level).heap
            BY <2>7, <3>1
        <3>3. e \in q.heap \/ \E i \in 1 .. n : e.pkt = packets[i]
            BY <1>5, <2>4, <3>1, <3>2, PushAllHeap
        <3>4. CASE e \in q.heap
            BY <1>2, <3>1, <3>4 DEF Numbering
        <3>5. ASSUME NEW i \in 1 .. n, e.pkt = packets[i] PROVE e.pkt \in SentBy(m)
            BY <1>1, <1>4, <2>1, <2>2, <2>3, <3>5, PacketsSent
        <3> QED BY <3>3, <3>4, <3>5
    <2>9. reliability_write_index' = SeqAdd(SendStart, Len(ReliableUpTo(m)))
        <3>1. Len(ReliableUpTo(m)) = l + (IF IsReliable(r) THEN n ELSE 0) /\ Len(ReliableUpTo(m)) < Modulo
            BY <1>1, <1>4, <2>1, NumbersNext
        <3>2. reliability_write_index = SeqAdd(SendStart, l)
            BY <1>4 DEF Numbering
        <3>3. CASE IsReliable(r)
            <4>1. l + n < Modulo
                BY <3>1, <3>3
            <4>2. SeqAdd(SeqAdd(SendStart, l), n) = SeqAdd(SendStart, l + n)
                BY <1>5, <1>6, <4>1, AddAdd
            <4> QED BY <2>7, <3>1, <3>2, <3>3, <4>2
        <3>4. CASE ~IsReliable(r)
            BY <1>5, <2>7, <3>1, <3>2, <3>4
        <3> QED BY <3>3, <3>4
    <2>10. IsOrdered(r) <=> IsOrdered(msg.reliability)
        BY <1>4 DEF SentReliability, NormalizeForSplit, IsOrdered
    <2>11. ASSUME NEW c \in 0 .. OrderChannels - 1
           PROVE  order_write'[c] = SeqAdd(SendStart, Len(OrderedUpTo(c, m)))
        <3>1. PICK k : k = Len(OrderedUpTo(c, queued))
            OBVIOUS
        <3>2. /\ k \in Nat
              /\ Len(OrderedUpTo(c, m)) = k + (IF IsOrdered(r) /\ msg.channel = c THEN 1 ELSE 0)
              /\ Len(OrderedUpTo(c, m)) < Half
            BY <1>1, <1>4, <2>10, <3>1, NumbersNext
        <3>3. order_write[c] = SeqAdd(SendStart, k)
            BY <3>1 DEF Numbering
        <3>4. CASE IsOrdered(r) /\ msg.channel = c
            <4>1. k + 1 < Modulo
                BY <3>2, <3>4, HalfFacts
            <4>2. SeqNext(SeqAdd(SendStart, k)) = SeqAdd(SendStart, k + 1)
                BY <1>6, <3>2, <4>1, NextAdd
            <4>3. order_write'[c] = SeqNext(order_write[c])
                BY <2>4, <2>7, <3>4
            <4> QED BY <3>2, <3>3, <3>4, <4>2, <4>3
        <3>5. CASE ~(IsOrdered(r) /\ msg.channel = c)
            <4>1. order_write'[c] = order_write[c]
                BY <2>1, <2>4, <2>7, <3>5
            <4>2. Len(OrderedUpTo(c, m)) = k
                BY <3>2, <3>5
            <4> QED BY <3>3, <4>1, <4>2
        <3> QED BY <3>4, <3>5
    <2>12. split_index' = Len(SplitUpTo(m))
        <3>1. PICK N : N = 2^16
            OBVIOUS
        <3>2. N \in Nat
            BY <3>1
        <3>3. Len(SplitUpTo(m)) = s + (IF FitsWhole(msg) THEN 0 ELSE 1) /\ Len(SplitUpTo(m)) < N
            BY <1>1, <1>4, <2>1, <3>1, NumbersNext
        <3>4. split_index = s /\ split_index' = IF FitsWhole(msg) THEN s ELSE (s + 1) % N
            BY <1>4, <2>7, <3>1 DEF Numbering
        <3>5. CASE FitsWhole(msg)
            BY <1>5, <3>3, <3>4, <3>5
        <3>6. CASE ~FitsWhole(msg)
            <4>1. s + 1 < N
                BY <3>3, <3>6
            <4>2. (s + 1) % N = s + 1
                BY <1>5, <3>2, <4>1
            <4> QED BY <3>3, <3>4, <3>6, <4>2
        <3> QED BY <3>5, <3>6
    <2> QED BY <1>1, <1>3, <2>8, <2>9, <2>11, <2>12 DEF Numbering
<1> QED BY <1>5, <1>7, <1>8, OutboundAssumption

\* build_datagram takes packets of the queue.
LEMMA BuildTakes ==
    ASSUME OutboundInv, Numbering, BuildDatagram
    PROVE  Numbering'
<1>1. PICK s \in PopOrders(queue) :
        LET n == FillCount(s)
            d == [sequence |-> datagram_write_index, packets |-> [i \in 1 .. n |-> s[i].pkt]]
        IN  /\ queue' = [queue EXCEPT !.heap = @ \ {s[i] : i \in 1 .. n}]
            /\ built' = built \cup {d}
            /\ UNCHANGED <<reliability_write_index, order_write, split_index, queued>>
    BY DEF BuildDatagram
<1>2. PICK n, d : /\ n = FillCount(s)
                  /\ d = [sequence |-> datagram_write_index, packets |-> [i \in 1 .. n |-> s[i].pkt]]
    OBVIOUS
<1>3. queue \in Queues /\ sliding \in WindowState
    BY DEF OutboundInv, QueueInv, SlidingInv, Windows
<1>4. PICK N \in Nat : /\ s \in [1 .. N -> queue.heap] /\ s \in [1 .. N -> Queueable] /\ Len(s) = N
    BY <1>3, PopFacts
<1>5. n \in 0 .. N
    BY <1>2, <1>3, <1>4, FillFacts
<1>6. d.packets \in Seq(SentBy(queued))
    <2>1. d.packets = [i \in 1 .. n |-> s[i].pkt]
        BY <1>2
    <2>2. \A i \in 1 .. n : s[i] \in queue.heap
        BY <1>4, <1>5
    <2>3. [i \in 1 .. n |-> s[i].pkt] \in [1 .. n -> SentBy(queued)]
        BY <2>2 DEF Numbering
    <2> QED BY <1>5, <2>1, <2>3, FunctionIsSeq
<1>7. queue'.heap \subseteq queue.heap
    BY <1>1, <1>3 DEF Queues
<1>8. built' = built \cup {d} /\ UNCHANGED <<reliability_write_index, order_write, split_index, queued>>
    BY <1>1, <1>2
<1> QED BY <1>6, <1>7, <1>8 DEF Numbering

\* No step numbers otherwise.
LEMMA NumberingSteps == LinkBase /\ Numbering /\ [LinkNext]_linkVars => Numbering'
<1> SUFFICES ASSUME LinkBase, Numbering, [LinkNext]_linkVars PROVE Numbering'
    OBVIOUS
<1>1. ASSUME UNCHANGED <<queue, reliability_write_index, order_write, split_index, queued, built>>
      PROVE  Numbering'
    BY <1>1 DEF Numbering
<1>2. CASE ReceiverStep
    BY <1>1, <1>2 DEF ReceiverStep, senderVars, indexVars, queueVars
<1>3. CASE SenderStep
    <2>1. ASSUME NEW m \in DOMAIN Messages, QueuePacket(m) PROVE Numbering'
        BY <2>1, QueueNumbers DEF LinkBase
    <2>2. CASE BuildDatagram
        BY <2>2, BuildTakes DEF LinkBase
    <2>3. ASSUME NEW ranges, HandleAckPayload(ranges) \/ HandleNackPayload(ranges) PROVE Numbering'
        BY <1>1, <2>3 DEF HandleAckPayload, HandleNackPayload, indexVars, queueVars
    <2>4. ASSUME NEW timers, NEW expired, SenderTick(timers, expired) PROVE Numbering'
        BY <1>1, <2>4 DEF SenderTick, indexVars, queueVars
    <2>5. CASE UNCHANGED outboundVars
        BY <1>1, <2>5 DEF outboundVars, indexVars, queueVars
    <2> QED BY <1>3, <2>1, <2>2, <2>3, <2>4, <2>5 DEF SenderStep, OutboundNext
<1> QED BY <1>2, <1>3, LinkSplits DEF LinkBase
-----------------------------------------------------------------------------
(* The receiving half of the link is a session of the module Inbound.      *)

\* What arrives is a datagram of the conversation.
LEMMA InboundMoves == LinkBase /\ Numbering /\ [LinkNext]_linkVars => [InboundNext]_inboundVars
<1> SUFFICES ASSUME LinkBase, Numbering, [LinkNext]_linkVars PROVE [InboundNext]_inboundVars
    OBVIOUS
<1>1. CASE SenderStep
    BY <1>1 DEF SenderStep
<1>2. CASE ReceiverStep
    <2>1. ASSUME NEW d \in wire PROVE d \in SentDatagram
        <3>1. d \in built /\ d \in SizedDatagram
            BY DEF LinkBase, OutboundInv, WireInv
        <3>2. SentBy(queued) \subseteq Packets
            BY SentGrows DEF Numbering
        <3>3. d.packets \in Seq(Packets)
            BY <3>1, <3>2, SeqMonotone DEF Numbering
        <3> QED BY <3>1, <3>3 DEF SizedDatagram, SentDatagram
    <2> QED BY <1>2, <2>1 DEF ReceiverStep, ReceiverMoves, InboundNext
<1> QED BY <1>1, <1>2, LinkSplits DEF LinkBase

\* The base and the numbering hold throughout.
LEMMA LinkBaseHolds == LinkSpec => [](LinkBase /\ Numbering)
<1>1. LinkInit => LinkBase /\ Numbering
    BY LinkStarts, NumberingStarts DEF LinkInit, LinkInv
<1>2. LinkBase /\ Numbering /\ [LinkNext]_linkVars => (LinkBase /\ Numbering)'
    BY BaseSteps, NumberingSteps
<1> QED BY <1>1, <1>2, PTL DEF LinkSpec

\* Whatever the sender, the network and the flushes do, the peer's half does
\* what InboundSpec allows: all that is proved of the receiving half for a peer
\* that numbers as queue_packet does holds with this sender as the peer.
THEOREM LinkImplementsInbound == LinkSpec => InboundSpec
<1>1. LinkInit => InboundInit
    BY DEF LinkInit
<1> QED BY <1>1, InboundMoves, LinkBaseHolds, PTL DEF LinkSpec, InboundSpec

-----------------------------------------------------------------------------
(* Channel 0: what is handed over is what was sent.                        *)

\* All that is ever sent on channel 0, and what has been handed over of it.
Plan == OrderedUpTo(0, All)
Given(s) == FlattenSeq([i \in DOMAIN s |-> Shown(s[i], 0)])

\* Whole messages among the first n.
Said(n) == {w \in Whole : w.payload[1][1] \in 1 .. n}

OnZero(w) == IsOrdered(w.reliability) /\ w.ordering_channel = 0

\* What queue_packet writes on the first ordering channel.
LEMMA PacketPlace ==
    ASSUME 0 < OrderChannels, NEW q \in Packets, OnZero(q)
    PROVE  \E m \in 1 .. All :
            /\ \E i, n : q.payload = <<<<m, i, n>>>>
            /\ OrderedList(0)[m] = <<m>>
            /\ Offset(q.ordering_index) = Len(OrderedUpTo(0, m - 1))
<1>1. q \in SentBy(All)
    BY ConversationAssumption DEF All
<1>2. PICK m \in 1 .. All : Accepted(m) /\ \E i \in 1 .. Parts(Messages[m]) : q = PacketsOf(m)[i]
    BY <1>1 DEF SentBy
<1>3. PICK i \in 1 .. Parts(Messages[m]) : q = PacketsOf(m)[i]
    BY <1>2
<1>4. PICK msg, r, x : /\ msg = Messages[m] /\ r = SentReliability(msg)
                       /\ x = SeqAdd(SendStart, Len(OrderedUpTo(msg.channel, m - 1)))
    OBVIOUS
<1>5. /\ q.payload = <<<<m, i - 1, Parts(Messages[m])>>>> /\ q.reliability = r
      /\ q.ordering_index = IF IsOrdered(r) THEN x ELSE SendStart
      /\ q.ordering_channel = IF IsOrdered(r) THEN msg.channel ELSE 0
    BY <1>3, <1>4 DEF PacketsOf, NumberedPackets
<1>6. IsOrdered(r) <=> IsOrdered(msg.reliability)
    BY <1>4 DEF SentReliability, NormalizeForSplit, IsOrdered
<1>7. IsOrdered(msg.reliability) /\ msg.channel = 0 /\ q.ordering_index = x
    BY <1>5, <1>6 DEF OnZero
<1>8. OrderedList(0)[m] = <<m>>
    BY <1>4, <1>7 DEF OrderedList
<1>9. PICK k : k = Len(OrderedUpTo(0, m - 1))
    OBVIOUS
<1>10. k \in 0 .. Modulo - 1
    <2>1. 0 \in 0 .. OrderChannels - 1
        BY OutboundAssumption
    <2>2. k \in Nat /\ k + 1 < Half
        <3>1. PICK b : b = Len(OrderedUpTo(0, m))
            OBVIOUS
        <3>2. /\ k \in Nat /\ b < Half
              /\ b = k + (IF IsOrdered(Messages[m].reliability) /\ Messages[m].channel = 0 THEN 1 ELSE 0)
            BY <1>9, <2>1, <3>1, NumbersNext
        <3>3. b = k + 1
            BY <1>4, <1>7, <3>2
        <3> QED BY <3>2, <3>3
    <2> QED BY <2>2, HalfFacts
<1>11. Start \in SeqNum /\ SendStart = Start
    BY OutboundAssumption, LinkAssumption
<1>12. Offset(q.ordering_index) = k
    BY <1>4, <1>7, <1>9, <1>10, <1>11, DistanceAdd DEF Offset
<1> QED BY <1>5, <1>8, <1>9, <1>12

\* A message takes its place among those sent on the channel.
LEMMA ListPlace ==
    ASSUME NEW m \in 1 .. All, NEW n \in m .. All, OrderedList(0)[m] = <<m>>,
           NEW k, k = Len(OrderedUpTo(0, m - 1))
    PROVE  k \in 0 .. Len(OrderedUpTo(0, n)) - 1 /\ OrderedUpTo(0, n)[k + 1] = m
<1>1. PICK g, h, S : g = OrderedList(0) /\ h = Firsts(g, n) /\ S = 1 .. All
    OBVIOUS
<1>2. n \in Nat /\ n \in 0 .. All /\ m - 1 \in 0 .. All /\ m \in 1 .. n
    BY AllFacts
<1>3. Listed(h, n, S)
    <2>1. Listed(g, All, S)
        BY <1>1, ListFacts
    <2>2. \A i \in 1 .. n : i \in 1 .. All
        BY <1>2, AllFacts
    <2> QED BY <1>1, <2>1, <2>2 DEF Listed, Firsts
<1>4. h[m] = <<m>> /\ Firsts(h, m - 1) = Firsts(g, m - 1)
    <2>1. \A i \in 1 .. m - 1 : i \in 1 .. n
        BY <1>2
    <2> QED BY <1>1, <1>2, <2>1 DEF Firsts
<1>5. FlattenSeq(h) = OrderedUpTo(0, n) /\ FlattenSeq(Firsts(h, m - 1)) = OrderedUpTo(0, m - 1)
    BY <1>1, <1>2, <1>4, ListFacts
<1>6. m \in S
    BY <1>1
<1>7. Sits(h, m, m)
    BY <1>2, <1>3, <1>4, <1>6, FlattenPlace
<1> QED BY <1>5, <1>7 DEF Sits

\* Message m has offset o among those sent on the channel.
HasPlace(m, o) ==
    \A n \in m .. All : o \in 0 .. Len(OrderedUpTo(0, n)) - 1 /\ OrderedUpTo(0, n)[o + 1] = m

\* The message of a whole packet on channel 0 is the one that was sent with its
\* ordering index.
LEMMA WholePlace ==
    ASSUME 0 < OrderChannels, NEW w \in Whole, OnZero(w),
           NEW m, m = w.payload[1][1], NEW o, o = Offset(w.ordering_index)
    PROVE  m \in 1 .. All /\ HasPlace(m, o)
<1>1. PICK q \in Packets : SameHeader(q, w) /\ Pieces(q) \subseteq Pieces(w)
    BY DEF Whole
<1>2. OnZero(q) /\ q.ordering_index = w.ordering_index
    BY <1>1 DEF SameHeader, OnZero
<1>3. PICK j \in 1 .. All : /\ \E i, n : q.payload = <<<<j, i, n>>>>
                            /\ OrderedList(0)[j] = <<j>>
                            /\ Offset(q.ordering_index) = Len(OrderedUpTo(0, j - 1))
    BY <1>2, PacketPlace
<1>4. m = j
    <2>1. PICK i, n : q.payload = <<<<j, i, n>>>>
        BY <1>3
    <2>2. <<j, i, n>> \in Pieces(q)
        BY <2>1 DEF Pieces
    <2>3. PICK k \in DOMAIN w.payload : <<j, i, n>> = w.payload[k]
        BY <1>1, <2>2 DEF Pieces
    <2>4. PICK f : f = w.payload[1]
        OBVIOUS
    <2>5. w.payload = [x \in 1 .. f[3] |-> <<f[1], x - 1, f[3]>>]
        BY <2>4 DEF Whole, Intact
    <2>6. w.payload[k] = <<f[1], k - 1, f[3]>>
        BY <2>3, <2>5
    <2>7. f[1] = j
        BY <2>3, <2>6
    <2> QED BY <2>4, <2>7
<1>5. o = Len(OrderedUpTo(0, m - 1)) /\ OrderedList(0)[m] = <<m>> /\ m \in 1 .. All
    BY <1>2, <1>3, <1>4
<1>6. HasPlace(m, o)
    BY <1>5, ListPlace DEF HasPlace
<1> QED BY <1>5, <1>6

\* What each packet shows of channel 0.
Views(s) == [i \in DOMAIN s |-> Shown(s[i], 0)]

LEMMA ViewsTyped ==
    ASSUME 0 < OrderChannels, NEW s \in Seq(Whole)
    PROVE  /\ Views(s) \in Seq(Seq(1 .. All)) /\ Len(Views(s)) = Len(s)
           /\ \A i \in 1 .. Len(s) : Views(s)[i] = Shown(s[i], 0)
           /\ Given(s) = FlattenSeq(Views(s)) /\ Given(s) \in Seq(1 .. All)
<1>1. PICK n, v, S : n = Len(s) /\ v = Views(s) /\ S = 1 .. All
    OBVIOUS
<1>2. n \in Nat /\ DOMAIN s = 1 .. n /\ \A i \in 1 .. n : s[i] \in Whole
    BY <1>1, LenProperties, ElementOfSeq
<1>3. ASSUME NEW w \in Whole PROVE Shown(w, 0) \in Seq(S)
    <2>1. CASE OnZero(w)
        <3>1. w.payload[1][1] \in S
            BY <1>1, <2>1, WholePlace
        <3> QED BY <2>1, <3>1 DEF Shown, OnZero
    <2>2. CASE ~OnZero(w)
        BY <2>2, EmptySeq DEF Shown, OnZero
    <2> QED BY <2>1, <2>2
<1>4. v = [i \in 1 .. n |-> Shown(s[i], 0)]
    BY <1>1, <1>2 DEF Views
<1>5. v \in [1 .. n -> Seq(S)]
    BY <1>2, <1>3, <1>4
<1>6. v \in Seq(Seq(S)) /\ Len(v) = n
    BY <1>2, <1>5, FunctionIsSeq
<1>7. FlattenSeq(v) \in Seq(S)
    BY <1>6, FlattenTyped
<1> QED BY <1>1, <1>4, <1>6, <1>7 DEF Given, Views

\* What is handed over first shows first.
LEMMA GivenConcat ==
    ASSUME 0 < OrderChannels, NEW s \in Seq(Whole), NEW t \in Seq(Whole)
    PROVE  s \o t \in Seq(Whole) /\ Given(s \o t) = Given(s) \o Given(t)
<1>1. PICK u, a, b, c, S : /\ u = s \o t /\ a = Views(s) /\ b = Views(t) /\ c = Views(u)
                           /\ S = Seq(1 .. All)
    OBVIOUS
<1>2. /\ u \in Seq(Whole) /\ Len(u) = Len(s) + Len(t) /\ Len(s) \in Nat /\ Len(t) \in Nat
      /\ \A i \in 1 .. Len(s) + Len(t) : u[i] = IF i <= Len(s) THEN s[i] ELSE t[i - Len(s)]
    BY <1>1, ConcatProperties, LenProperties
<1>3. /\ a \in Seq(S) /\ Len(a) = Len(s) /\ \A i \in 1 .. Len(s) : a[i] = Shown(s[i], 0)
      /\ Given(s) = FlattenSeq(a)
    BY <1>1, ViewsTyped
<1>4. /\ b \in Seq(S) /\ Len(b) = Len(t) /\ \A i \in 1 .. Len(t) : b[i] = Shown(t[i], 0)
      /\ Given(t) = FlattenSeq(b)
    BY <1>1, ViewsTyped
<1>5. /\ c \in Seq(S) /\ Len(c) = Len(u) /\ \A i \in 1 .. Len(u) : c[i] = Shown(u[i], 0)
      /\ Given(u) = FlattenSeq(c)
    BY <1>1, <1>2, ViewsTyped
<1>6. c = a \o b
    <2>1. /\ a \o b \in Seq(S) /\ Len(a \o b) = Len(a) + Len(b)
          /\ \A i \in 1 .. Len(a) + Len(b) : (a \o b)[i] = IF i <= Len(a) THEN a[i] ELSE b[i - Len(a)]
        <3>1. a \in Seq(S) /\ b \in Seq(S)
            BY <1>3, <1>4
        <3> QED BY <3>1, ConcatProperties
    <2>2. PICK d, l, m : d = a \o b /\ l = Len(s) /\ m = Len(t)
        OBVIOUS
    <2>3. l \in Nat /\ m \in Nat /\ Len(d) = l + m /\ Len(c) = l + m
        BY <1>2, <1>3, <1>4, <1>5, <2>1, <2>2
    <2>4. ASSUME NEW i \in 1 .. l + m PROVE c[i] = d[i]
        <3>1. CASE i <= l
            BY <1>2, <1>3, <1>4, <1>5, <2>1, <2>2, <2>3, <3>1
        <3>2. CASE ~(i <= l)
            <4>1. PICK j : j = i - l
                OBVIOUS
            <4>2. j \in 1 .. m
                BY <2>3, <3>2, <4>1
            <4>3. u[i] = t[j] /\ d[i] = b[j] /\ c[i] = Shown(u[i], 0)
                BY <1>2, <1>3, <1>4, <1>5, <2>1, <2>2, <2>3, <3>2, <4>1
            <4> QED BY <1>4, <2>2, <4>2, <4>3
        <3> QED BY <3>1, <3>2
    <2>5. Len(c) = Len(d) /\ \A i \in 1 .. Len(c) : c[i] = d[i]
        BY <2>3, <2>4
    <2> QED BY <1>5, <2>1, <2>2, <2>5, SeqEqual
<1>7. FlattenSeq(a \o b) = FlattenSeq(a) \o FlattenSeq(b)
    BY <1>1, <1>3, <1>4, FlattenConcat
<1> QED BY <1>1, <1>2, <1>3, <1>4, <1>5, <1>6, <1>7

\* Packets of other channels, or of none, do not show.
LEMMA GivenAside ==
    ASSUME 0 < OrderChannels, NEW s \in Seq(Whole), \A i \in 1 .. Len(s) : ~OnZero(s[i])
    PROVE  Given(s) = <<>>
<1>1. PICK n, v : n = Len(s) /\ v = Views(s)
    OBVIOUS
<1>2. n \in Nat /\ DOMAIN s = 1 .. n
    BY <1>1, LenProperties
<1>3. v = [i \in 1 .. n |-> <<>>]
    BY <1>1, <1>2 DEF Views, Shown, OnZero
<1>4. FlattenSeq(v) = <<>>
    BY <1>2, <1>3, FlattenEmpties
<1> QED BY <1>1, <1>4, ViewsTyped

\* The plan is a sequence of messages.
LEMMA PlanTyped == Plan \in Seq(1 .. All) /\ Len(Plan) \in Nat
<1>1. PICK g, S : g = OrderedList(0) /\ S = 1 .. All
    OBVIOUS
<1>2. Listed(g, All, S) /\ All \in Nat /\ All \in 0 .. All
    BY <1>1, ListFacts, AllFacts
<1>3. Begins(S, FlattenSeq(Firsts(g, All)), FlattenSeq(g))
    BY <1>2, FlattenPrefix
<1>4. Plan = FlattenSeq(Firsts(g, All))
    BY <1>1, <1>2, ListFacts DEF Plan
<1>5. Plan \in Seq(S)
    BY <1>3, <1>4 DEF Begins
<1> QED BY <1>1, <1>5, LenProperties

\* A run of packets of channel 0 from offset o on shows what the plan has there.
LEMMA GivenRun ==
    ASSUME 0 < OrderChannels, NEW s \in Seq(Whole), NEW o \in Nat,
           \A i \in 1 .. Len(s) : OnZero(s[i]) /\ Offset(s[i].ordering_index) = o + (i - 1)
    PROVE  /\ Given(s) = SubSeq(Plan, o + 1, o + Len(s))
           /\ o + Len(s) <= Len(Plan) \/ s = <<>>
<1>1. PICK n, v, g : n = Len(s) /\ v = Views(s) /\ g = [i \in 1 .. n |-> s[i].payload[1][1]]
    OBVIOUS
<1>2. n \in Nat /\ DOMAIN s = 1 .. n /\ \A i \in 1 .. n : s[i] \in Whole
    BY <1>1, LenProperties, ElementOfSeq
<1>3. ASSUME NEW i \in 1 .. n
      PROVE  g[i] \in 1 .. All /\ o + i \in 1 .. Len(Plan) /\ Plan[o + i] = g[i]
    <2>1. PICK w, m, x : w = s[i] /\ m = w.payload[1][1] /\ x = Offset(w.ordering_index)
        OBVIOUS
    <2>2. w \in Whole /\ OnZero(w) /\ x = o + (i - 1) /\ g[i] = m
        BY <1>1, <1>2, <2>1
    <2>3. m \in 1 .. All /\ HasPlace(m, x)
        BY <2>1, <2>2, WholePlace
    <2>4. All \in m .. All
        BY <2>3, AllFacts
    <2>5. x \in 0 .. Len(Plan) - 1 /\ Plan[x + 1] = m
        BY <2>3, <2>4 DEF Plan, HasPlace
    <2>6. x + 1 = o + i
        BY <2>2
    <2>7. x + 1 \in 1 .. Len(Plan)
        BY <2>5, PlanTyped
    <2> QED BY <2>2, <2>3, <2>5, <2>6, <2>7
<1>4. v = Singles(n, g)
    <2>1. \A i \in 1 .. n : Shown(s[i], 0) = <<g[i]>>
        BY <1>1 DEF Shown, OnZero
    <2> QED BY <1>1, <1>2, <2>1 DEF Views, Singles
<1>5. g \in [1 .. n -> 1 .. All]
    BY <1>1, <1>3
<1>6. Given(s) = g
    BY <1>1, <1>2, <1>4, <1>5, FlattenSingles, ViewsTyped
<1>7. CASE n = 0
    <2>1. SubSeq(Plan, o + 1, o + n) = <<>>
        BY <1>7, SubSeqEmpty
    <2>2. s = <<>>
        BY <1>1, <1>7, EmptySeq
    <2>3. Given(s) = <<>>
        <3>1. \A i \in 1 .. Len(s) : ~OnZero(s[i])
            BY <1>1, <1>7
        <3> QED BY <3>1, GivenAside
    <2> QED BY <1>1, <2>1, <2>2, <2>3
<1>8. CASE n # 0
    <2>1. n \in 1 .. n /\ 1 \in 1 .. n
        BY <1>2, <1>8
    <2>2. o + n \in 1 .. Len(Plan) /\ o + 1 \in 1 .. Len(Plan)
        BY <1>3, <2>1
    <2>3. PICK a, b, P, t : a = o + 1 /\ b = o + n /\ P = Plan /\ t = SubSeq(P, a, b)
        OBVIOUS
    <2>4. /\ a \in Int /\ b \in Int /\ P \in Seq(1 .. All) /\ a \in 1 .. Len(P) /\ b \in 1 .. Len(P)
          /\ Len(P) \in Nat /\ a <= b /\ b - a + 1 = n
        BY <1>2, <1>8, <2>2, <2>3, PlanTyped
    <2>5. \A i \in a .. b : P[i] \in 1 .. All
        <3>1. \A i \in a .. b : i \in 1 .. Len(P)
            BY <2>4
        <3> QED BY <2>4, <3>1, ElementOfSeq
    <2>6. t \in Seq(1 .. All) /\ Len(t) = n /\ \A i \in 1 .. n : t[i] = P[a + i - 1]
        <3>1. PICK S : S = 1 .. All
            OBVIOUS
        <3>2. a \in Int /\ b \in Int /\ \A i \in a .. b : P[i] \in S
            BY <2>4, <2>5, <3>1
        <3>3. /\ t \in Seq(S) /\ Len(t) = (IF a <= b THEN b - a + 1 ELSE 0)
              /\ \A i \in 1 .. b - a + 1 : t[i] = P[a + i - 1]
            BY <2>3, <3>2, SubSeqProperties
        <3> QED BY <2>4, <3>1, <3>3
    <2>7. ASSUME NEW i \in 1 .. n PROVE t[i] = g[i]
        <3>1. a + i - 1 = o + i
            BY <2>3
        <3> QED BY <1>3, <2>3, <2>6, <3>1
    <2>8. g \in Seq(1 .. All) /\ Len(g) = n
        BY <1>2, <1>5, FunctionIsSeq
    <2>9. Len(t) = Len(g) /\ \A i \in 1 .. Len(t) : t[i] = g[i]
        BY <2>6, <2>7, <2>8
    <2>10. t = g
        BY <2>6, <2>8, <2>9, SeqEqual
    <2> QED BY <1>1, <1>6, <2>2, <2>3, <2>10
<1> QED BY <1>7, <1>8

\* A sequence and one it begins.
LEMMA BeginsFacts ==
    ASSUME NEW S, NEW a, NEW c, Begins(S, a, c)
    PROVE  /\ a \in Seq(S) /\ c \in Seq(S) /\ Len(a) \in Nat /\ Len(c) \in Nat /\ Len(a) <= Len(c)
           /\ \A k \in 0 .. Len(a) : SubSeq(a, 1, k) = SubSeq(c, 1, k)
<1>1. PICK b \in Seq(S) : c = a \o b
    BY DEF Begins
<1>2. a \in Seq(S) /\ c \in Seq(S)
    BY DEF Begins
<1>3. Len(a \o b) = Len(a) + Len(b) /\ Len(a) \in Nat /\ Len(b) \in Nat
    BY <1>2, ConcatProperties, LenProperties
<1>4. PICK l : l = Len(a)
    OBVIOUS
<1>5. l \in Nat /\ Len(c) \in Nat /\ l <= Len(c)
    BY <1>1, <1>3, <1>4
<1>6. ASSUME NEW k \in 0 .. l PROVE SubSeq(a, 1, k) = SubSeq(c, 1, k)
    <2>1. CASE k = 0
        <3>1. SubSeq(a, 1, 0) = <<>> /\ SubSeq(c, 1, 0) = <<>>
            BY SubSeqEmpty
        <3> QED BY <2>1, <3>1
    <2>2. CASE k # 0
        <3>1. 1 \in 1 .. Len(a) /\ k \in 1 .. Len(a)
            BY <1>4, <1>5, <2>2
        <3> QED BY <1>1, <1>2, <3>1, SubSeqOfConcat1
    <2> QED BY <2>1, <2>2
<1> QED BY <1>2, <1>4, <1>5, <1>6

\* What was sent begins what will have been sent.
LEMMA SentPrefix ==
    ASSUME NEW m \in 0 .. All, NEW n \in 0 .. All, m <= n
    PROVE  Begins(1 .. All, OrderedUpTo(0, m), OrderedUpTo(0, n))
<1>1. PICK g, h, S : g = OrderedList(0) /\ h = Firsts(g, n) /\ S = 1 .. All
    OBVIOUS
<1>2. n \in Nat /\ m \in 0 .. n
    BY AllFacts
<1>3. Listed(h, n, S)
    <2>1. Listed(g, All, S)
        BY <1>1, ListFacts
    <2>2. \A i \in 1 .. n : i \in 1 .. All
        BY <1>2, AllFacts
    <2> QED BY <1>1, <2>1, <2>2 DEF Listed, Firsts
<1>4. Firsts(h, m) = Firsts(g, m)
    <2>1. \A i \in 1 .. m : i \in 1 .. n
        BY <1>2
    <2> QED BY <1>1, <1>2, <2>1 DEF Firsts
<1>5. FlattenSeq(h) = OrderedUpTo(0, n) /\ FlattenSeq(Firsts(h, m)) = OrderedUpTo(0, m)
    BY <1>1, <1>2, <1>4, ListFacts
<1>6. Begins(S, FlattenSeq(Firsts(h, m)), FlattenSeq(h))
    BY <1>2, <1>3, FlattenPrefix
<1> QED BY <1>1, <1>5, <1>6

\* A whole message that carries a part of one of the first n is one of them.
LEMMA SaidWhole ==
    ASSUME NEW n \in 0 .. All, NEW p \in SentBy(n), NEW w \in Whole, Pieces(p) \subseteq Pieces(w)
    PROVE  w \in Said(n)
<1>1. PICK m \in 1 .. n : Accepted(m) /\ \E i \in 1 .. Parts(Messages[m]) : p = PacketsOf(m)[i]
    BY DEF SentBy
<1>2. PICK i \in 1 .. Parts(Messages[m]) : p = PacketsOf(m)[i]
    BY <1>1
<1>3. PICK x : x = <<m, i - 1, Parts(Messages[m])>>
    OBVIOUS
<1>4. p.payload = <<x>>
    BY <1>2, <1>3 DEF PacketsOf, NumberedPackets
<1>5. x \in Pieces(p)
    BY <1>4 DEF Pieces
<1>6. PICK k \in DOMAIN w.payload : x = w.payload[k]
    BY <1>5 DEF Pieces
<1>7. PICK f : f = w.payload[1]
    OBVIOUS
<1>8. w.payload = [j \in 1 .. f[3] |-> <<f[1], j - 1, f[3]>>]
    BY <1>7 DEF Whole, Intact
<1>9. w.payload[k] = <<f[1], k - 1, f[3]>>
    BY <1>6, <1>8
<1>10. f[1] = m
    BY <1>3, <1>6, <1>9
<1> QED BY <1>7, <1>10 DEF Said

\* What has been said stays said.
LEMMA SaidGrows ==
    ASSUME NEW m \in 0 .. All, NEW n \in 0 .. All, m <= n
    PROVE  /\ Said(m) \subseteq Said(n) /\ Said(n) \subseteq Whole
           /\ ChannelOver(Said(m)) \subseteq ChannelOver(Said(n))
<1>1. Said(m) \subseteq Said(n) /\ Said(n) \subseteq Whole
    BY AllFacts DEF Said
<1>2. Seq(Said(m)) \subseteq Seq(Said(n))
    BY <1>1, SeqMonotone
<1>3. PICK A, B : A = Seq(Said(m)) /\ B = Seq(Said(n))
    OBVIOUS
<1>4. ASSUME NEW s \in ChannelOver(Said(m)) PROVE s \in ChannelOver(Said(n))
    <2>1. s \in [read : SeqNum, heap : A] /\ Len(s.heap) <= HeapCapacity
        BY <1>3 DEF ChannelOver
    <2>2. s \in [read : SeqNum, heap : B]
        BY <1>2, <1>3, <2>1
    <2> QED BY <1>3, <2>1, <2>2 DEF ChannelOver
<1> QED BY <1>1, <1>4

\* The channel s once n messages have been sent and those of h handed over, with
\* the ones at hand: only messages that were sent wait in it or are behind its
\* read index, and what was handed over is what the read index has passed.
ChannelAt(s, n, h) ==
    /\ s \in ChannelOver(Said(n))
    /\ Offset(s.read) <= Len(OrderedUpTo(0, n))
    /\ Given(h) = SubSeq(Plan, 1, Offset(s.read))

\* A run of messages that were sent, from the read index on, moves both on.
LEMMA RunMoves ==
    ASSUME 0 < OrderChannels, NEW n \in 0 .. All, NEW s, NEW h \in Seq(Whole), ChannelAt(s, n, h),
           NEW t \in ChannelOver(Said(n)), NEW run \in Seq(Said(n)), NEW o, o = Offset(s.read),
           Offset(t.read) = o + Len(run),
           \A i \in 1 .. Len(run) : OnZero(run[i]) /\ Offset(run[i].ordering_index) = o + (i - 1)
    PROVE  ChannelAt(t, n, h \o run)
<1>1. PICK l, N, P : l = Len(run) /\ N = Len(OrderedUpTo(0, n)) /\ P = Len(Plan)
    OBVIOUS
<1>2. n <= All /\ All \in 0 .. All
    BY AllFacts
<1>3. N \in Nat /\ P \in Nat /\ N <= P
    BY <1>1, <1>2, SentPrefix, BeginsFacts DEF Plan
<1>4. o \in Nat /\ o <= N
    <2>1. s.read \in SeqNum
        BY DEF ChannelAt, ChannelOver
    <2> QED BY <1>1, <2>1, OffsetFacts DEF ChannelAt
<1>5. l \in Nat /\ \A i \in 1 .. l : run[i] \in Said(n)
    BY <1>1, LenProperties, ElementOfSeq
<1>6. run \in Seq(Whole)
    BY <1>2, SaidGrows, SeqMonotone
<1>7. o + l <= N
    <2>1. CASE l = 0
        BY <1>4, <2>1
    <2>2. CASE l # 0
        <3>1. PICK w, m, x : w = run[l] /\ m = w.payload[1][1] /\ x = Offset(w.ordering_index)
            OBVIOUS
        <3>2. l \in 1 .. l
            BY <1>5, <2>2
        <3>3. w \in Whole /\ OnZero(w) /\ m \in 1 .. n /\ x = o + (l - 1)
            BY <1>1, <1>5, <3>1, <3>2 DEF Said
        <3>4. HasPlace(m, x)
            BY <3>1, <3>3, WholePlace
        <3>5. n \in m .. All
            BY <3>3, AllFacts
        <3>6. x \in 0 .. N - 1
            BY <1>1, <3>4, <3>5 DEF HasPlace
        <3> QED BY <1>3, <1>4, <1>5, <3>3, <3>6
    <2> QED BY <2>1, <2>2
<1>8. Given(run) = SubSeq(Plan, o + 1, o + l)
    BY <1>1, <1>4, <1>6, GivenRun
<1>9. Given(h \o run) = Given(h) \o Given(run)
    BY <1>6, GivenConcat
<1>10. SubSeq(Plan, 1, o) \o SubSeq(Plan, o + 1, o + l) = SubSeq(Plan, 1, o + l)
    <2>1. PICK S, k : S = 1 .. All /\ k = o + l
        OBVIOUS
    <2>2. /\ Plan \in Seq(S) /\ 1 \in 1 .. Len(Plan) + 1 /\ o \in 1 - 1 .. Len(Plan)
          /\ k \in o .. Len(Plan)
        BY <1>1, <1>3, <1>4, <1>5, <1>7, <2>1, PlanTyped
    <2>3. SubSeq(Plan, 1, o) \o SubSeq(Plan, o + 1, k) = SubSeq(Plan, 1, k)
        BY <2>2, ConcatAdjacentSubSeq
    <2> QED BY <2>1, <2>3
<1>11. Given(h) = SubSeq(Plan, 1, o)
    BY DEF ChannelAt
<1> QED BY <1>1, <1>7, <1>8, <1>9, <1>10, <1>11 DEF ChannelAt

\* What does not show leaves the channel as it is.
LEMMA AsideMoves ==
    ASSUME 0 < OrderChannels, NEW n, NEW s, NEW h \in Seq(Whole), ChannelAt(s, n, h),
           NEW run \in Seq(Whole), \A i \in 1 .. Len(run) : ~OnZero(run[i])
    PROVE  ChannelAt(s, n, h \o run)
<1>1. Given(run) = <<>>
    BY GivenAside
<1>2. Given(h \o run) = Given(h) \o <<>>
    BY <1>1, GivenConcat
<1>3. PICK S, g : S = 1 .. All /\ g = Given(h)
    OBVIOUS
<1>4. g \in Seq(S)
    BY <1>3, ViewsTyped
<1>5. g \o <<>> = g
    BY <1>4, ConcatEmptySeq
<1> QED BY <1>2, <1>3, <1>5 DEF ChannelAt

\* A whole message that was sent goes to its channel.
LEMMA DispatchMoves ==
    ASSUME 0 < OrderChannels, 0 < MaxChannels, InboundInv, NEW n \in 0 .. All, NEW h \in Seq(Whole),
           ChannelAt(order[0], n, h), NEW whole \in Said(n), Dispatched(whole) \in Seq(Whole),
           NEW next, next = IF OnChannel(whole)
                            THEN [order EXCEPT ![whole.ordering_channel] = HandleOrdered(@, whole)]
                            ELSE order
    PROVE  ChannelAt(next[0], n, h \o Dispatched(whole))
<1>1. PICK s, run : s = order[0] /\ run = Dispatched(whole)
    OBVIOUS
<1>2. 0 \in Channels /\ order = [c \in Channels |-> order[c]] /\ \A c \in Channels : order[c] \in ChannelOf(c)
    BY InboundAssumption DEF InboundInv, ChannelsTyped, Channels
<1>3. whole \in Whole /\ whole \in Stretched /\ whole.ordering_index \in SeqNum
    BY DEF Said, Whole, Stretched, EncapsulatedPacket
<1>4. CASE OnZero(whole)
    <2>1. PICK t : t = HandleOrdered(s, whole)
        OBVIOUS
    <2>2. OnChannel(whole) /\ whole.ordering_channel = 0
        BY <1>2, <1>4 DEF OnZero, OnChannel
    <2>3. next[0] = t /\ run = Ready(s, whole)
        BY <1>1, <1>2, <2>1, <2>2 DEF Dispatched, OnChannel
    <2>4. whole \in Waiting(0) /\ s \in ChannelOf(0)
        BY <1>1, <1>2, <1>3, <1>4 DEF OnZero, Waiting
    <2>5. /\ run \in Seq(Waiting(0)) /\ Offset(t.read) = Offset(s.read) + Len(run)
          /\ \A i \in 1 .. Len(run) : Offset(run[i].ordering_index) = Offset(s.read) + (i - 1)
        BY <2>1, <2>3, <2>4, HandleOrderedRun
    <2>6. s \in ChannelOver(Said(n))
        BY <1>1 DEF ChannelAt
    <2>7. t \in ChannelOver(Said(n)) /\ run \in Seq(Said(n))
        BY <1>3, <2>1, <2>3, <2>6, HandleOrderedTyped
    <2>8. \A i \in 1 .. Len(run) : OnZero(run[i])
        <3>1. \A i \in 1 .. Len(run) : run[i] \in Waiting(0)
            BY <2>5, ElementOfSeq
        <3> QED BY <3>1 DEF Waiting, OnZero
    <2>9. ChannelAt(t, n, h \o run)
        BY <1>1, <2>5, <2>7, <2>8, RunMoves
    <2> QED BY <1>1, <2>3, <2>9
<1>5. CASE ~OnZero(whole)
    <2>1. next[0] = s
        <3>1. OnChannel(whole) => whole.ordering_channel # 0
            BY <1>5 DEF OnZero, OnChannel
        <3> QED BY <1>1, <1>2, <3>1
    <2>2. \A i \in 1 .. Len(run) : ~OnZero(run[i])
        <3>1. CASE ~IsOrdered(whole.reliability)
            <4>1. run = <<whole>>
                BY <1>1, <3>1 DEF Dispatched
            <4> QED BY <1>5, <4>1
        <3>2. CASE IsOrdered(whole.reliability) /\ OnChannel(whole)
            <4>1. PICK c : c = whole.ordering_channel
                OBVIOUS
            <4>2. c \in Channels /\ c # 0 /\ whole \in Waiting(c) /\ order[c] \in ChannelOf(c)
                BY <1>2, <1>3, <1>5, <3>2, <4>1 DEF OnChannel, Waiting, OnZero
            <4>3. run = Ready(order[c], whole)
                BY <1>1, <3>2, <4>1 DEF Dispatched
            <4>4. run \in Seq(Waiting(c))
                BY <4>2, <4>3, HandleOrderedRun
            <4>5. \A i \in 1 .. Len(run) : run[i] \in Waiting(c)
                BY <4>4, ElementOfSeq
            <4> QED BY <4>2, <4>5 DEF Waiting, OnZero
        <3>3. CASE IsOrdered(whole.reliability) /\ ~OnChannel(whole)
            <4>1. run = <<>>
                BY <1>1, <3>3 DEF Dispatched
            <4> QED BY <4>1
        <3> QED BY <3>1, <3>2, <3>3
    <2>3. ChannelAt(s, n, h \o run)
        BY <1>1, <2>2, AsideMoves
    <2> QED BY <1>1, <2>1, <2>3
<1> QED BY <1>4, <1>5

-----------------------------------------------------------------------------
(* The refinement of the ordered channel.                                  *)

ChannelInv == ChannelAt(order[0], queued, delivered \o out)

\* The hypothesis: a part that the split assembler refuses comes when no message
\* is at hand.  Otherwise the code drops what the datagram has brought so far
\* although the read index is past it.
RefusedAlone ==
    /\ handling
    /\ place < Len(current.packets)
    /\ AddFails(splits, current.packets[place + 1])
    => out = <<>>

\* handle_encapsulated accepts a packet that was sent.
LEMMA AcceptMoves ==
    ASSUME Malformed = {}, 0 < OrderChannels, 0 < MaxChannels, InboundInv, WholeInv, ChannelInv,
           queued \in 0 .. All, NEW p \in SentBy(queued), AcceptPacket(p), queued' = queued
    PROVE  ChannelInv'
<1>1. PICK whole, ready, h : /\ whole = Assembled(splits, p) /\ h = delivered \o out
                             /\ ready = IF Returns(splits, p) THEN Dispatched(whole) ELSE <<>>
    OBVIOUS
<1>2. p \in Packets
    <2>1. queued <= queued /\ queued \in 0 .. All
        BY AllFacts
    <2>2. SentBy(queued) \subseteq Packets
        BY <2>1, SentGrows
    <2> QED BY <2>2
<1>3. out \in Seq(Whole) /\ delivered \in Seq(Whole) /\ h \in Seq(Whole)
    BY <1>1, ConcatProperties DEF WholeInv
<1>4. CommitPacket(p, whole) /\ out' = out \o ready /\ delivered' = delivered
    <2>1. \A i : ~Undecodable(ready[i])
        BY DEF Undecodable
    <2> QED BY <1>1, <2>1 DEF AcceptPacket
<1>5. ChannelAt(order[0], queued, h)
    BY <1>1 DEF ChannelInv
<1>6. SplitMap(splits) /\ HonestSplits(splits)
    BY DEF InboundInv, WholeInv
<1>7. CASE Returns(splits, p)
    <2>1. whole \in Whole /\ Pieces(p) \subseteq Pieces(whole)
        BY <1>1, <1>2, <1>6, <1>7, AssembledWhole
    <2>2. whole \in Said(queued)
        BY <2>1, SaidWhole
    <2>3. order' = IF OnChannel(whole)
                   THEN [order EXCEPT ![whole.ordering_channel] = HandleOrdered(@, whole)]
                   ELSE order
        BY <1>4, <1>7 DEF CommitPacket
    <2>4. Dispatched(whole) \in Seq(Whole) /\ ready = Dispatched(whole)
        BY <1>1, <1>7, <2>1, <2>3, DispatchConserves
    <2>5. ChannelAt(order'[0], queued, h \o ready)
        BY <1>3, <1>5, <2>2, <2>3, <2>4, DispatchMoves
    <2>6. h \o ready = delivered \o (out \o ready)
        <3>1. ready \in Seq(Whole)
            BY <2>4
        <3>2. (delivered \o out) \o ready = delivered \o (out \o ready)
            BY <1>3, <3>1, ConcatAssociative
        <3> QED BY <1>1, <3>2
    <2> QED BY <1>4, <2>5, <2>6 DEF ChannelInv
<1>8. CASE ~Returns(splits, p)
    <2>1. order' = order
        BY <1>4, <1>8 DEF CommitPacket
    <2>2. out \o ready = out
        BY <1>1, <1>3, <1>8, ConcatEmptySeq
    <2> QED BY <1>1, <1>4, <1>5, <2>1, <2>2 DEF ChannelInv
<1> QED BY <1>7, <1>8

\* Messages that are sent leave the channel of the receiver alone.
LEMMA SendMoves ==
    ASSUME queued \in 0 .. All, queued' \in 0 .. All, queued <= queued', ChannelInv, UNCHANGED inboundVars
    PROVE  ChannelInv'
<1>1. PICK m, n, s, h : m = queued /\ n = queued' /\ s = order[0] /\ h = delivered \o out
    OBVIOUS
<1>2. m \in 0 .. All /\ n \in 0 .. All /\ m <= n /\ ChannelAt(s, m, h)
    BY <1>1 DEF ChannelInv
<1>3. order'[0] = s /\ delivered' \o out' = h
    BY <1>1 DEF inboundVars, sessionVars, handlerVars
<1>4. s \in ChannelOver(Said(n))
    BY <1>2, SaidGrows DEF ChannelAt
<1>5. PICK a, b, r, S : a = OrderedUpTo(0, m) /\ b = OrderedUpTo(0, n) /\ r = Offset(s.read) /\ S = 1 .. All
    OBVIOUS
<1>6. Begins(S, a, b)
    BY <1>2, <1>5, SentPrefix
<1>7. Len(a) \in Nat /\ Len(b) \in Nat /\ Len(a) <= Len(b)
    BY <1>6, BeginsFacts
<1>8. r \in Nat
    BY <1>4, <1>5, OffsetFacts DEF ChannelOver
<1>9. r <= Len(b)
    BY <1>2, <1>5, <1>7, <1>8 DEF ChannelAt
<1>10. ChannelAt(s, n, h)
    BY <1>2, <1>4, <1>5, <1>9 DEF ChannelAt
<1> QED BY <1>1, <1>3, <1>10 DEF ChannelInv

\* The messages of the application are queued one after the other.
LEMMA QueuedGrows ==
    ASSUME [OutboundNext]_outboundVars
    PROVE  \/ queued' = queued
           \/ queued' = queued + 1 /\ queued + 1 \in DOMAIN Messages
<1>1. ASSUME NEW m \in DOMAIN Messages, QueuePacket(m)
      PROVE  queued' = queued + 1 /\ queued + 1 \in DOMAIN Messages
    BY <1>1 DEF QueuePacket
<1>2. CASE BuildDatagram
    BY <1>2 DEF BuildDatagram
<1>3. ASSUME NEW ranges, HandleAckPayload(ranges) \/ HandleNackPayload(ranges) PROVE queued' = queued
    BY <1>3 DEF HandleAckPayload, HandleNackPayload
<1>4. ASSUME NEW timers, NEW expired, SenderTick(timers, expired) PROVE queued' = queued
    BY <1>4 DEF SenderTick
<1>5. CASE UNCHANGED outboundVars
    BY <1>5 DEF outboundVars
<1> QED BY <1>1, <1>2, <1>3, <1>4, <1>5 DEF OutboundNext

\* The packet at hand was sent.
LEMMA AtHandSent ==
    ASSUME LinkBase, Numbering, InboundInv, handling, place < Len(current.packets)
    PROVE  current.packets[place + 1] \in SentBy(queued)
<1>1. current \in built
    BY DEF LinkBase, Handled
<1>2. current.packets \in Seq(SentBy(queued))
    BY <1>1 DEF Numbering
<1>3. place + 1 \in 1 .. Len(current.packets)
    BY DEF InboundInv, HandlerTyped
<1> QED BY <1>2, <1>3, ElementOfSeq

\* What stays as it is.
LEMMA StayMoves ==
    ASSUME ChannelInv, order' = order, queued' = queued, delivered' \o out' = delivered \o out
    PROVE  ChannelInv'
BY DEF ChannelInv

\* Every step keeps what was handed over and what the read index has passed
\* together.
LEMMA ChannelSteps ==
    ASSUME Malformed = {}, 0 < OrderChannels, 0 < MaxChannels, LinkBase, Numbering, Numbering',
           InboundInv, WholeInv, RefusedAlone, ChannelInv, [LinkNext]_linkVars
    PROVE  ChannelInv'
<1>1. queued \in 0 .. All /\ queued' \in 0 .. All
    BY DEF Numbering
<1>2. out \in Seq(Whole) /\ delivered \in Seq(Whole) /\ delivered \o out \in Seq(Whole)
    BY ConcatProperties DEF WholeInv
<1>3. CASE SenderStep
    <2>1. queued <= queued'
        BY <1>1, <1>3, AllFacts, QueuedGrows DEF SenderStep
    <2> QED BY <1>1, <1>3, <2>1, SendMoves DEF SenderStep
<1>4. CASE ReceiverStep
    <2>1. queued' = queued
        BY <1>4 DEF ReceiverStep, senderVars
    <2>2. ASSUME NEW d \in wire, HandleDatagram(d) PROVE ChannelInv'
        <3>1. out = <<>> /\ out' = <<>> /\ delivered' = delivered /\ order' = order
            BY <2>2 DEF HandleDatagram, WholeInv, sessionVars
        <3> QED BY <2>1, <3>1, StayMoves
    <2>3. CASE HandleEncapsulated
        <3>1. PICK p : p = current.packets[place + 1]
            OBVIOUS
        <3>2. /\ handling /\ place < Len(current.packets)
              /\ DropDuplicate(p) \/ RefusePart(p) \/ AcceptPacket(p)
            BY <2>3, <3>1 DEF HandleEncapsulated
        <3>3. p \in SentBy(queued)
            BY <3>1, <3>2, AtHandSent
        <3>4. CASE DropDuplicate(p)
            BY <2>1, <3>4, StayMoves DEF DropDuplicate, sessionVars
        <3>5. CASE RefusePart(p)
            <4>1. out = <<>>
                BY <3>1, <3>2, <3>5 DEF RefusePart, RefusedAlone
            <4>2. out' = <<>> /\ delivered' = delivered /\ order' = order
                BY <3>5 DEF RefusePart, AbandonDatagram
            <4> QED BY <2>1, <4>1, <4>2, StayMoves
        <3>6. CASE AcceptPacket(p)
            BY <1>1, <2>1, <3>3, <3>6, AcceptMoves
        <3> QED BY <3>2, <3>4, <3>5, <3>6
    <2>4. CASE FinishDatagram
        <3>1. out' = <<>> /\ delivered' = delivered \o out /\ order' = order
            BY <2>4 DEF FinishDatagram
        <3>2. PICK h : h = delivered \o out
            OBVIOUS
        <3>3. h \in Seq(Whole)
            BY <1>2, <3>2
        <3>4. h \o <<>> = h
            BY <3>3, ConcatEmptySeq
        <3>5. delivered' \o out' = delivered \o out
            BY <3>1, <3>2, <3>4
        <3> QED BY <2>1, <3>1, <3>5, StayMoves
    <2>5. CASE UNCHANGED inboundVars
        BY <2>1, <2>5, StayMoves DEF inboundVars, sessionVars, handlerVars
    <2>6. CASE InboundTick
        BY <2>1, <2>6, StayMoves DEF InboundTick, handlerVars
    <2> QED BY <1>4, <2>2, <2>3, <2>4, <2>5, <2>6 DEF ReceiverStep, ReceiverMoves
<1> QED BY <1>3, <1>4, LinkSplits DEF LinkBase

\* A message that is queued is sent on the channel, or on none of concern.
LEMMA SendShows ==
    ASSUME queued \in 0 .. All, queued' = queued + 1, queued + 1 \in DOMAIN Messages
    PROVE  SentOn(0)' = SentOn(0) \/ SentOn(0)' = Append(SentOn(0), queued + 1)
<1>1. PICK g, S, m, k : g = OrderedList(0) /\ S = 1 .. All /\ m = queued /\ k = queued + 1
    OBVIOUS
<1>2. /\ All \in Nat /\ m \in 0 .. All /\ k \in 0 .. All /\ k \in 1 .. All /\ k - 1 = m
    BY <1>1, AllFacts
<1>3. Listed(g, All, S)
    BY <1>1, ListFacts
<1>4. /\ FlattenSeq(Firsts(g, k - 1)) \in Seq(S)
      /\ FlattenSeq(Firsts(g, k)) = FlattenSeq(Firsts(g, k - 1)) \o g[k]
    BY <1>2, <1>3, FlattenNext
<1>5. PICK a, b : a = OrderedUpTo(0, m) /\ b = OrderedUpTo(0, k)
    OBVIOUS
<1>6. a = FlattenSeq(Firsts(g, m)) /\ b = FlattenSeq(Firsts(g, k))
    BY <1>1, <1>2, <1>5, ListFacts
<1>7. a \in Seq(S) /\ b = a \o g[k]
    BY <1>2, <1>4, <1>6
<1>8. g[k] = <<k>> \/ g[k] = <<>>
    BY <1>1, <1>2 DEF OrderedList
<1>9. b = a \/ b = Append(a, k)
    <2>1. CASE g[k] = <<>>
        BY <1>7, <2>1, ConcatEmptySeq
    <2>2. CASE g[k] = <<k>>
        <3>1. k \in S
            BY <1>1, <1>2
        <3>2. a \o <<k>> = Append(a, k)
            BY <1>7, <3>1, AppendIsConcat
        <3> QED BY <1>7, <2>2, <3>2
    <2> QED BY <1>8, <2>1, <2>2
<1> QED BY <1>1, <1>5, <1>9 DEF SentOn

\* The end of a datagram gives what the read index has passed, if anything.
LEMMA FinishShows ==
    ASSUME 0 < OrderChannels, queued \in 0 .. All, WholeInv, ChannelInv, FinishDatagram, queued' = queued
    PROVE  \/ GivenOn(0)' = GivenOn(0)
           \/ \E n \in 1 .. Len(SentOn(0)) : Channel0!ChannelGive(n)
<1>1. PICK s, r, a, b, g : /\ s = SentOn(0) /\ r = Offset(order[0].read)
                           /\ a = Given(delivered) /\ b = Given(out) /\ g = Given(delivered')
    OBVIOUS
<1>2. GivenOn(0) = a /\ GivenOn(0)' = g /\ SentOn(0)' = s
    BY <1>1 DEF GivenOn, Given, SentOn
<1>3. out \in Seq(Whole) /\ delivered \in Seq(Whole) /\ delivered' = delivered \o out
    BY DEF WholeInv, FinishDatagram
<1>4. g = a \o b
    BY <1>1, <1>3, GivenConcat
<1>5. PICK S, P : S = 1 .. All /\ P = Plan
    OBVIOUS
<1>6. a \in Seq(S) /\ b \in Seq(S)
    BY <1>1, <1>3, <1>5, ViewsTyped
<1>7. ChannelAt(order[0], queued, delivered')
    BY <1>3 DEF ChannelInv
<1>8. r \in Nat /\ r <= Len(s) /\ g = SubSeq(P, 1, r)
    <2>1. order[0].read \in SeqNum
        BY <1>7 DEF ChannelAt, ChannelOver
    <2>2. r \in Nat
        BY <1>1, <2>1, OffsetFacts
    <2> QED BY <1>1, <1>5, <1>7, <2>2 DEF ChannelAt, SentOn
<1>9. Begins(S, s, P)
    <2>1. queued <= All /\ All \in 0 .. All
        BY AllFacts
    <2> QED BY <1>1, <1>5, <2>1, SentPrefix DEF SentOn, Plan
<1>10. s \in Seq(S) /\ Len(s) \in Nat /\ \A k \in 0 .. Len(s) : SubSeq(s, 1, k) = SubSeq(P, 1, k)
    BY <1>9, BeginsFacts
<1>11. g = SubSeq(s, 1, r)
    BY <1>8, <1>10
<1>12. Len(g) = r
    <2>1. \A i \in 1 .. r : s[i] \in S
        <3>1. \A i \in 1 .. r : i \in 1 .. Len(s)
            BY <1>8, <1>10
        <3> QED BY <1>10, <3>1, ElementOfSeq
    <2>2. 1 \in Int /\ r \in Int
        BY <1>8
    <2>3. Len(SubSeq(s, 1, r)) = IF 1 <= r THEN r - 1 + 1 ELSE 0
        BY <2>1, <2>2, SubSeqProperties
    <2> QED BY <1>8, <1>11, <2>3
<1>13. Len(a \o b) = Len(a) + Len(b) /\ Len(a) \in Nat /\ Len(b) \in Nat
    BY <1>6, ConcatProperties, LenProperties
<1>14. CASE b = <<>>
    <2>1. a \o <<>> = a
        BY <1>6, ConcatEmptySeq
    <2> QED BY <1>2, <1>4, <1>14, <2>1
<1>15. CASE b # <<>>
    <2>1. Len(b) # 0
        BY <1>6, <1>15, EmptySeq
    <2>2. r \in Len(a) + 1 .. Len(s) /\ r \in 1 .. Len(s)
        BY <1>4, <1>8, <1>10, <1>12, <1>13, <2>1
    <2>3. Channel0!ChannelGive(r)
        BY <1>1, <1>2, <1>11, <2>2 DEF Channel0!ChannelGive
    <2> QED BY <1>1, <2>2, <2>3
<1> QED BY <1>14, <1>15

\* Every step of the link is a step of the channel, or none.
LEMMA ChannelShows ==
    ASSUME 0 < OrderChannels, LinkBase, Numbering, WholeInv, ChannelInv, [LinkNext]_linkVars
    PROVE  [Channel0!ChannelNext]_(Channel0!channelVars)
<1>1. queued \in 0 .. All
    BY DEF Numbering
<1>2. ASSUME SentOn(0)' = SentOn(0), GivenOn(0)' = GivenOn(0)
      PROVE  [Channel0!ChannelNext]_(Channel0!channelVars)
    BY <1>2 DEF Channel0!channelVars
<1>3. ASSUME delivered' = delivered PROVE GivenOn(0)' = GivenOn(0)
    BY <1>3 DEF GivenOn
<1>4. ASSUME queued' = queued PROVE SentOn(0)' = SentOn(0)
    BY <1>4 DEF SentOn
<1>5. CASE SenderStep
    <2>1. GivenOn(0)' = GivenOn(0)
        BY <1>3, <1>5 DEF SenderStep, inboundVars, handlerVars
    <2>2. CASE queued' = queued
        BY <1>2, <1>4, <2>1, <2>2
    <2>3. CASE queued' = queued + 1 /\ queued + 1 \in DOMAIN Messages
        <3>1. SentOn(0)' = SentOn(0) \/ SentOn(0)' = Append(SentOn(0), queued + 1)
            BY <1>1, <2>3, SendShows
        <3>2. CASE SentOn(0)' = Append(SentOn(0), queued + 1)
            <4>1. Channel0!ChannelSend(queued + 1)
                BY <2>1, <3>2 DEF Channel0!ChannelSend
            <4> QED BY <2>3, <4>1 DEF Channel0!ChannelNext
        <3> QED BY <1>2, <2>1, <3>1, <3>2
    <2> QED BY <1>5, <2>2, <2>3, QueuedGrows DEF SenderStep
<1>6. CASE ReceiverStep
    <2>1. queued' = queued
        BY <1>6 DEF ReceiverStep, senderVars
    <2>2. CASE FinishDatagram
        <3>1. \/ GivenOn(0)' = GivenOn(0)
              \/ \E n \in 1 .. Len(SentOn(0)) : Channel0!ChannelGive(n)
            BY <1>1, <2>1, <2>2, FinishShows
        <3>2. CASE \E n \in 1 .. Len(SentOn(0)) : Channel0!ChannelGive(n)
            BY <3>2 DEF Channel0!ChannelNext
        <3> QED BY <1>2, <1>4, <2>1, <3>1, <3>2
    <2>3. CASE ~FinishDatagram
        <3>1. delivered' = delivered
            <4>1. ASSUME NEW d, HandleDatagram(d) PROVE delivered' = delivered
                BY <4>1 DEF HandleDatagram
            <4>2. CASE HandleEncapsulated
                BY <4>2 DEF HandleEncapsulated, DropDuplicate, RefusePart, AcceptPacket, AbandonDatagram
            <4>3. CASE UNCHANGED inboundVars
                BY <4>3 DEF inboundVars, handlerVars
            <4>4. CASE InboundTick
                BY <4>4 DEF InboundTick, handlerVars
            <4> QED BY <1>6, <2>3, <4>1, <4>2, <4>3, <4>4 DEF ReceiverStep, ReceiverMoves
        <3> QED BY <1>2, <1>3, <1>4, <2>1, <3>1
    <2> QED BY <2>2, <2>3
<1> QED BY <1>5, <1>6, LinkSplits DEF LinkBase

\* Nothing has been sent and nothing given.
LEMMA ChannelStarts ==
    ASSUME 0 < OrderChannels, 0 < MaxChannels, LinkInit
    PROVE  ChannelInv /\ Channel0!ChannelInit
<1>1. queued = 0 /\ delivered = <<>> /\ out = <<>> /\ order[0] = [read |-> Start, heap |-> <<>>]
    BY InboundAssumption DEF LinkInit, OutboundInit, InboundInit, Channels, NewChannel
<1>2. PICK q : q = [i \in 1 .. 0 |-> <<>>]
    OBVIOUS
<1>3. FlattenSeq(q) = <<>>
    BY <1>2, FlattenEmpties
<1>4. OrderedUpTo(0, 0) = <<>>
    <2>1. OrderedUpTo(0, 0) = FlattenSeq(q)
        BY <1>2 DEF OrderedUpTo
    <2> QED BY <1>3, <2>1
<1>5. Given(<<>>) = <<>>
    <2>1. Given(<<>>) = FlattenSeq(q)
        BY <1>2 DEF Given
    <2> QED BY <1>3, <2>1
<1>6. Channel0!ChannelInit
    <2>1. SentOn(0) = <<>>
        BY <1>1, <1>4 DEF SentOn
    <2>2. GivenOn(0) = Given(delivered)
        BY DEF GivenOn, Given
    <2> QED BY <1>1, <1>5, <2>1, <2>2 DEF Channel0!ChannelInit
<1>7. PICK s : s = order[0]
    OBVIOUS
<1>8. Offset(s.read) = 0
    BY <1>1, <1>7, OffsetFacts, ModuloAssumption DEF Offset, SeqDistance, SeqNum
<1>9. s \in ChannelOver(Said(0))
    <2>1. PICK A : A = Seq(Said(0))
        OBVIOUS
    <2>2. <<>> \in A /\ Len(<<>>) = 0
        BY <2>1, EmptySeq
    <2>3. s \in [read : SeqNum, heap : A]
        BY <1>1, <1>7, <2>2, OffsetFacts
    <2> QED BY <1>1, <1>7, <2>1, <2>2, <2>3, HeapCapacityAssumption DEF ChannelOver
<1>10. delivered \o out = <<>>
    BY <1>1
<1>11. SubSeq(Plan, 1, 0) = <<>>
    BY SubSeqEmpty
<1>12. Len(<<>>) = 0
    BY EmptySeq
<1>13. ChannelAt(s, 0, <<>>)
    <2>1. PICK e : e = <<>>
        OBVIOUS
    <2>2. Given(e) = SubSeq(Plan, 1, Offset(s.read)) /\ Offset(s.read) <= Len(OrderedUpTo(0, 0))
        <3>1. PICK a, r, g : a = OrderedUpTo(0, 0) /\ r = Offset(s.read) /\ g = SubSeq(Plan, 1, r)
            OBVIOUS
        <3>2. r = 0 /\ a = <<>>
            BY <1>4, <1>8, <3>1
        <3>3. g = <<>> /\ Given(e) = <<>>
            BY <1>5, <1>11, <2>1, <3>1, <3>2
        <3>4. r <= Len(a)
            BY <1>12, <3>2
        <3> QED BY <3>1, <3>3, <3>4
    <2>3. ChannelAt(s, 0, e)
        BY <1>9, <2>2 DEF ChannelAt
    <2> QED BY <2>1, <2>3
<1> QED BY <1>1, <1>6, <1>7, <1>10, <1>13 DEF ChannelInv

\* Channel 0 keeps its promise over a network that loses, repeats and reorders
\* as it likes, for every conversation, however it is split, numbered, resent
\* and reassembled, with any wrap of the numbers: the peer is given a prefix of
\* what was sent, as long as no datagram is abandoned with messages at hand.
THEOREM ImplementsChannelHolds ==
    ASSUME Malformed = {}, 0 < OrderChannels, 0 < MaxChannels
    PROVE  LinkSpec /\ []RefusedAlone => ImplementsChannel
<1>1. LinkInit => ChannelInv /\ Channel0!ChannelInit
    BY ChannelStarts
<1>2. /\ LinkBase /\ Numbering /\ Numbering' /\ InboundInv /\ WholeInv
      /\ RefusedAlone /\ ChannelInv /\ [LinkNext]_linkVars
      => ChannelInv' /\ [Channel0!ChannelNext]_(Channel0!channelVars)
    BY ChannelSteps, ChannelShows
<1>3. LinkSpec => [](InboundInv /\ WholeInv)
    BY LinkImplementsInbound, InboundInvHolds, FateHolds, PTL
<1>4. LinkSpec => [](LinkBase /\ Numbering)
    BY LinkBaseHolds
<1> QED BY <1>1, <1>2, <1>3, <1>4, PTL DEF LinkSpec, ImplementsChannel, Channel0!ChannelSpec

\* There is room for every split: the ids of the conversation and the parts of
\* a message are no more than the assembler takes.
SplitIds == {p.split.id : p \in {q \in Packets : IsSplit(q)}}
RoomForSplits ==
    /\ Cardinality(SplitIds) <= MaxConcurrentSplits
    /\ \A p \in Packets : p.split.count <= MaxSplitParts

\* Then the assembler refuses no part.
LEMMA RoomRefusesNone ==
    ASSUME RoomForSplits, InboundInv, WholeInv
    PROVE  RefusedAlone
<1> SUFFICES ASSUME place < Len(current.packets), AddFails(splits, current.packets[place + 1])
             PROVE  FALSE
    BY DEF RefusedAlone
<1>1. PICK p, id, D, K : /\ p = current.packets[place + 1] /\ id = p.split.id
                         /\ D = DOMAIN splits /\ K = SplitIds
    OBVIOUS
<1>2. p \in Packets /\ IsSplit(p)
    BY <1>1, PacketAtHand DEF InboundInv, AddFails
<1>3. ~SplitMismatch(splits, p)
    BY <1>2, WithPartHonest DEF InboundInv, WholeInv
<1>4. ~SplitTooLarge(p)
    <2>1. p.split.count <= MaxSplitParts /\ p.split.count \in Nat /\ MaxSplitParts \in Nat
        BY <1>2, InboundAssumption, SplitAssumption DEF RoomForSplits, EncapsulatedPacket, SplitInfo
    <2> QED BY <2>1 DEF SplitTooLarge
<1>5. Cardinality(D) >= MaxConcurrentSplits /\ id \notin D
    BY <1>1, <1>3, <1>4 DEF AddFails, SplitBufferFull
<1>6. K \subseteq Nat /\ IsFiniteSet(K)
    <2>1. ASSUME NEW q \in Packets PROVE q.split.id \in 0 .. 2^16 - 1
        <3>1. q \in SentBy(All)
            BY ConversationAssumption DEF All
        <3>2. PICK m \in 1 .. All : Accepted(m) /\ \E i \in 1 .. Parts(Messages[m]) : q = PacketsOf(m)[i]
            BY <3>1 DEF SentBy
        <3>3. PICK i \in 1 .. Parts(Messages[m]) : q = PacketsOf(m)[i]
            BY <3>2
        <3>4. PICK a, b : a = Len(SplitUpTo(m - 1)) /\ b = Len(SplitUpTo(m))
            OBVIOUS
        <3>5. q.split.id = 0 \/ q.split.id = a
            BY <3>3, <3>4 DEF PacketsOf, NumberedPackets, NotSplit
        <3>6. /\ a \in Nat /\ b < 2^16
              /\ b = a + (IF Accepted(m) /\ ~FitsWhole(Messages[m]) THEN 1 ELSE 0)
            BY <3>4, NumbersNext
        <3> QED BY <3>5, <3>6
    <2>2. PICK n, I : n = 2^16 - 1 /\ I = 0 .. n
        OBVIOUS
    <2>3. n \in Int /\ 0 \in Int /\ I \subseteq Nat
        BY <2>2
    <2>4. IsFiniteSet(I)
        BY <2>2, <2>3, FS_Interval
    <2>5. K \in SUBSET I
        BY <1>1, <2>1, <2>2 DEF SplitIds
    <2> QED BY <2>3, <2>4, <2>5, FS_Subset
<1>7. id \in K
    BY <1>1, <1>2 DEF SplitIds
<1>8. D \subseteq K
    <2> SUFFICES ASSUME NEW x \in D PROVE x \in K
        OBVIOUS
    <2>1. Honest(x, splits[x])
        BY <1>1 DEF WholeInv, HonestSplits
    <2>2. PICK i : i \in DOMAIN splits[x].parts
        BY <2>1 DEF Honest
    <2>3. PICK q : q \in PartsFrom(x)
        BY <2>1, <2>2 DEF Honest, Filled
    <2> QED BY <1>1, <2>3 DEF PartsFrom, SplitIds
<1>9. PICK E : E = K \ {id}
    OBVIOUS
<1>10. IsFiniteSet(E) /\ Cardinality(E) = Cardinality(K) - 1
    BY <1>6, <1>7, <1>9, FS_RemoveElement
<1>11. D \in SUBSET E
    BY <1>5, <1>8, <1>9
<1>12. Cardinality(D) <= Cardinality(E) /\ IsFiniteSet(D)
    BY <1>10, <1>11, FS_Subset
<1>13. Cardinality(D) \in Nat /\ Cardinality(K) \in Nat /\ MaxConcurrentSplits \in Nat
    BY <1>6, <1>12, FS_CardinalityType, SplitAssumption
<1>14. Cardinality(K) <= MaxConcurrentSplits
    BY <1>1 DEF RoomForSplits
<1> QED BY <1>5, <1>10, <1>12, <1>13, <1>14

\* A conversation for the splits of which the peer has room needs no hypothesis
\* on its course.
THEOREM ImplementsChannelWithRoom ==
    ASSUME Malformed = {}, 0 < OrderChannels, 0 < MaxChannels, RoomForSplits
    PROVE  LinkSpec => ImplementsChannel
<1>1. InboundInv /\ WholeInv => RefusedAlone
    BY RoomRefusesNone
<1>2. LinkSpec => [](InboundInv /\ WholeInv)
    BY LinkImplementsInbound, InboundInvHolds, FateHolds, PTL
<1>3. LinkSpec /\ []RefusedAlone => ImplementsChannel
    BY ImplementsChannelHolds
<1> QED BY <1>1, <1>2, <1>3, PTL
=============================================================================
