------------------------ MODULE EncapsulatedPackets ------------------------
(***************************************************************************)
(* Encapsulated packets and datagrams as values                            *)
(* (raknet/src/protocol/encapsulated_packet.rs, datagram.rs,               *)
(* reliability.rs).  The payload is abstracted to the sequence of          *)
(* fragments it is made of, a fragment being a message, the number of a    *)
(* part of it and the count of its parts,                                  *)
(* so that a reassembled payload can be compared with what was sent.       *)
(* Optional header fields hold a value the code never reads when the       *)
(* reliability does not call for them.                                     *)
(***************************************************************************)
EXTENDS Sequence24, Sequences

CONSTANT Mtu        \* what one datagram may take, IP and UDP headers included

ASSUME MtuAssumption == Mtu \in Nat

\* RELIABILITY_TABLE.
Reliability ==
    {"Unreliable", "UnreliableSequenced", "Reliable", "ReliableOrdered",
     "ReliableSequenced", "UnreliableWithAckReceipt",
     "ReliableWithAckReceipt", "ReliableOrderedWithAckReceipt"}

IsReliable(r) ==
    r \in {"Reliable", "ReliableOrdered", "ReliableSequenced",
           "ReliableWithAckReceipt", "ReliableOrderedWithAckReceipt"}

IsOrdered(r) == r \in {"ReliableOrdered", "ReliableOrderedWithAckReceipt"}

IsSequenced(r) == r \in {"UnreliableSequenced", "ReliableSequenced"}

\* The header carries an ordering index and channel.
HasOrderingIndex(r) == IsOrdered(r) \/ IsSequenced(r)

\* SplitInfo; a count of 0 stands for a packet that is not split.
SplitInfo == [count : Nat, id : Nat, index : Nat]
NotSplit == [count |-> 0, id |-> 0, index |-> 0]

Fragment == Nat \X Nat \X Nat

EncapsulatedPacket ==
    [reliability : Reliability, reliable_index : SeqNum,
     ordering_index : SeqNum, ordering_channel : Nat,
     split : SplitInfo, payload : Seq(Fragment)]

IsSplit(p) == p.split.count # 0

\* EncapsulatedPacket::size without the payload.
HeaderOverhead(r, is_split) ==
    3 + (IF IsReliable(r) THEN 3 ELSE 0)
      + (IF IsSequenced(r) THEN 3 ELSE 0)
      + (IF HasOrderingIndex(r) THEN 4 ELSE 0)
      + (IF is_split THEN 10 ELSE 0)

\* IPV4_HEADER_SIZE + UDP_HEADER_SIZE, and RAKNET_DATAGRAM_HEADER_SIZE.
IpUdpHeaders == 28
DatagramHeader == 4

Datagram == [sequence : SeqNum, packets : Seq(EncapsulatedPacket)]

Fragments(packets) == UNION {{packets[i].payload[k] : k \in DOMAIN packets[i].payload} :
                                i \in DOMAIN packets}
=============================================================================
