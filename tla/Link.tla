-------------------------------- MODULE Link --------------------------------
(***************************************************************************)
(* One direction of a connection: the sending half of one session and the  *)
(* receiving half of its peer, over UDP.  DATA datagrams travel in wire,   *)
(* ACK and NAK payloads in feedback; both may be lost, delivered twice and *)
(* overtaken, MaxLosses and MaxDuplicates times in all.                    *)
(*                                                                         *)
(* A session runs one handler at a time and flushes what it can build      *)
(* before the next one (flush_built_datagrams in                           *)
(* raknet/src/transport/stream.rs, flush_managed in mux.rs): flushing is   *)
(* TRUE during that loop, as handling is while the receiver handles a      *)
(* datagram.  The two sessions share nothing but the network, which these  *)
(* loops only read at their start and only add to, so that running them    *)
(* without interruption loses no behaviour.  No split expires.             *)
(***************************************************************************)
EXTENDS Outbound, Inbound

CONSTANTS
    MaxLosses, MaxDuplicates,
    MaxFeedback,    \* ACK and NAK payloads that can be under way at a tick
    MaxIncoming     \* ACK and NAK ranges that wait for one tick of the sender

ASSUME LinkAssumption ==
    /\ SendStart = Start
    /\ MaxLosses \in Nat /\ MaxDuplicates \in Nat
    /\ MaxFeedback \in Nat /\ MaxIncoming \in Nat

-----------------------------------------------------------------------------
(* The packets of the conversation, by the numbers the first n messages    *)
(* take: of the ordered messages of channel c each an ordering index, of   *)
(* those that are split each an id, and of reliable packets each an index. *)

Accepted(m) == Messages[m].channel < OrderChannels

OrderedUpTo(c, n) ==
    FlattenSeq([m \in 1 .. n |->
        IF IsOrdered(Messages[m].reliability) /\ Messages[m].channel = c THEN <<m>> ELSE <<>>])

SplitUpTo(n) ==
    FlattenSeq([m \in 1 .. n |-> IF Accepted(m) /\ ~FitsWhole(Messages[m]) THEN <<m>> ELSE <<>>])

ReliableUpTo(n) ==
    FlattenSeq([m \in 1 .. n |->
        IF Accepted(m) /\ IsReliable(SentReliability(Messages[m]))
        THEN [i \in 1 .. Parts(Messages[m]) |-> m] ELSE <<>>])

PacketsOf(m) ==
    NumberedPackets(m, SeqAdd(SendStart, Len(ReliableUpTo(m - 1))),
                    SeqAdd(SendStart, Len(OrderedUpTo(Messages[m].channel, m - 1))),
                    Len(SplitUpTo(m - 1)))

SentBy(n) ==
    UNION {{PacketsOf(m)[i] : i \in 1 .. Parts(Messages[m])} : m \in {k \in 1 .. n : Accepted(k)}}

\* What the peer may receive is what the conversation sends; and bounds of the
\* model: no number is used twice, and the ordering indexes of a channel lie
\* within half a lap.
ASSUME ConversationAssumption ==
    LET all == Len(Messages)
    IN  /\ Packets = SentBy(all)
        /\ Len(ReliableUpTo(all)) < Modulo
        /\ Len(SplitUpTo(all)) < 2^16
        /\ \A c \in 0 .. OrderChannels - 1 : Len(OrderedUpTo(c, all)) < Half

-----------------------------------------------------------------------------
VARIABLES feedback, flushing, overdue, losses, duplicates

linkVars == <<outboundVars, inboundVars, feedback, flushing, overdue, losses, duplicates>>

LinkInit ==
    /\ OutboundInit
    /\ InboundInit
    /\ feedback = {}
    /\ flushing = FALSE
    /\ overdue = FALSE
    /\ losses = 0
    /\ duplicates = 0

Idle == ~flushing /\ ~handling

-----------------------------------------------------------------------------
(* The sender: a message from the application or a tick, then the flush.   *)

AppSend ==
    /\ Idle
    /\ QueuePacket(queued + 1)
    /\ flushing' = TRUE
    /\ UNCHANGED <<inboundVars, feedback, overdue, losses, duplicates>>

SendTick(timers) ==
    /\ Idle
    /\ SenderTick(timers, {})
    /\ flushing' = TRUE
    /\ overdue' = (timers # {})
    /\ UNCHANGED <<inboundVars, feedback, losses, duplicates>>

CanBuild == \E s \in PopOrders(queue) : FillCount(s) > 0

Flush ==
    /\ flushing
    /\ IF CanBuild THEN BuildDatagram /\ UNCHANGED flushing
                   ELSE flushing' = FALSE /\ UNCHANGED outboundVars
    /\ overdue' = FALSE
    /\ UNCHANGED <<inboundVars, feedback, losses, duplicates>>

-----------------------------------------------------------------------------
(* The network: a message that arrives may stay behind as a duplicate.     *)

Leaves(net, x) ==
    \/ net' = net \ {x} /\ UNCHANGED duplicates
    \/ /\ duplicates < MaxDuplicates
       /\ duplicates' = duplicates + 1
       /\ UNCHANGED net

senderVars == <<indexVars, queueVars, windowVars, incomingVars,
                queued, built, confirmed, given_up>>

DeliverData(d) ==
    /\ Idle
    /\ d \in wire
    /\ Leaves(wire, d)
    /\ HandleDatagram(d)
    /\ UNCHANGED <<senderVars, feedback, flushing, overdue, losses>>

DeliverFeedback(f) ==
    /\ Idle
    /\ f \in feedback
    /\ Len(incoming_acks) + Len(incoming_naks) < MaxIncoming
    /\ Leaves(feedback, f)
    /\ IF f.kind = "ack" THEN HandleAckPayload(f.ranges) ELSE HandleNackPayload(f.ranges)
    /\ UNCHANGED <<inboundVars, flushing, overdue, losses>>

LoseData(d) ==
    /\ Idle
    /\ losses < MaxLosses
    /\ d \in wire
    /\ wire' = wire \ {d}
    /\ losses' = losses + 1
    /\ UNCHANGED <<senderVars, inboundVars, feedback, flushing, overdue, duplicates>>

LoseFeedback(f) ==
    /\ Idle
    /\ losses < MaxLosses
    /\ f \in feedback
    /\ feedback' = feedback \ {f}
    /\ losses' = losses + 1
    /\ UNCHANGED <<outboundVars, inboundVars, flushing, overdue, duplicates>>

-----------------------------------------------------------------------------
(* The receiver.                                                           *)

Receive ==
    /\ HandleEncapsulated \/ FinishDatagram
    /\ UNCHANGED <<outboundVars, feedback, flushing, overdue, losses, duplicates>>

Payloads ==
    {f \in {[kind |-> "ack", ranges |-> AckPayload], [kind |-> "nak", ranges |-> NakPayload]} :
        f.ranges # <<>>}

ReceiverTick ==
    /\ Idle
    /\ Cardinality(feedback) < MaxFeedback
    /\ InboundTick
    /\ feedback' = feedback \cup Payloads
    /\ UNCHANGED <<outboundVars, flushing, overdue, losses, duplicates>>

LinkNext ==
    \/ AppSend
    \/ \E timers \in SUBSET TrackedNumbers : SendTick(timers)
    \/ Flush
    \/ \E d \in wire : DeliverData(d) \/ LoseData(d)
    \/ \E f \in feedback : DeliverFeedback(f) \/ LoseFeedback(f)
    \/ Receive
    \/ ReceiverTick

(***************************************************************************)
(* Fairness, with the guards and effects of the actions written out where  *)
(* WF and SF would have TLC recompute whole handlers.  The loops of both   *)
(* tasks end.  Both tasks tick every 20 ms, and no retransmission timeout  *)
(* is longer than 2 s, so that as long as datagrams stay tracked some of   *)
(* them fall due at some tick.  The network delivers something again and   *)
(* again as long as there is something to deliver.                         *)
(***************************************************************************)
LinkFairness ==
    /\ []<>~flushing
    /\ []<>~handling
    /\ []<>(Idle /\ TrackedNumbers # {}) => []<>overdue
    /\ []<>(Idle /\ wire # {}) => []<>handling
    /\ []<>(Idle /\ feedback # {}) => []<>(incoming_acks # <<>> \/ incoming_naks # <<>>)
    /\ []<>(Idle /\ (outgoing_acks # <<>> \/ outgoing_naks # <<>>)) => []<>(feedback # {})

LinkSpec == LinkInit /\ [][LinkNext]_linkVars /\ LinkFairness

-----------------------------------------------------------------------------
(* Properties.                                                             *)

\* The ordered messages of channel c that the application sent and was given.
SentOn(c) == OrderedUpTo(c, queued)

Shown(p, c) ==
    IF IsOrdered(p.reliability) /\ p.ordering_channel = c THEN <<p.payload[1][1]>> ELSE <<>>

GivenOn(c) == FlattenSeq([i \in DOMAIN delivered |-> Shown(delivered[i], c)])

Channel0 == INSTANCE OrderedChannel
                WITH Payload <- DOMAIN Messages, sent <- SentOn(0), given <- GivenOn(0)

\* Channel 0 keeps its promise over the lossy network: the peer is given a
\* prefix of what was sent on it, no message twice, none out of order and none
\* skipped.
ImplementsChannel == Channel0!ChannelSpec

\* The sender lets go of a reliable datagram only when the peer has handled it
\* to the end: no ACK, merged, wrapped, delayed or repeated, releases another.
ReleasedWasReceived ==
    \A d \in built : HasReliable(d) /\ d.sequence \notin TrackedNumbers => d \in received

\* Once the network stops losing, every message leaves the queue and every
\* datagram comes to be acknowledged: the sender keeps resending what is due
\* and the window opens again.
Drains == []<>(queue.heap = {} /\ TrackedNumbers = {})
=============================================================================
