----------------------------- MODULE MCOutbound -----------------------------
(***************************************************************************)
(* Outbound against a peer and a network that may acknowledge, or ask for, *)
(* any range of the datagrams built so far, as often as they like and with *)
(* any delay, and a clock that may let any datagram fall due or expire.    *)
(***************************************************************************)
EXTENDS Outbound

CONSTANT MaxIncoming     \* ACK and NAK ranges waiting for one tick

MCMessage(length, reliability, level) ==
    [length |-> length, reliability |-> reliability, channel |-> 0, level |-> level]

\* A small message, one for a channel the session does not have, one that is
\* split in two, and one of a higher priority that is never tracked.
MCMessages ==
    <<MCMessage(4, "ReliableOrdered", 2),
      [MCMessage(4, "Reliable", 2) EXCEPT !.channel = 1],
      MCMessage(28, "Unreliable", 2),
      MCMessage(4, "Unreliable", 0)>>

SentNumbers == {d.sequence : d \in built}

SentRanges ==
    {r \in [start : SentNumbers, end : SentNumbers] : Members(r) \subseteq SentNumbers}

MCNext ==
    \/ QueuePacket(queued + 1)
    \/ BuildDatagram
    \/ \E r \in SentRanges :
            \/ Len(incoming_acks) < MaxIncoming /\ HandleAckPayload(<<r>>)
            \/ Len(incoming_naks) < MaxIncoming /\ HandleNackPayload(<<r>>)
    \/ \E timers \in SUBSET TrackedNumbers :
            \E expired \in SUBSET timers : SenderTick(timers, expired)

MCSpec == OutboundInit /\ [][MCNext]_outboundVars
=============================================================================
