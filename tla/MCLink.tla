------------------------------- MODULE MCLink -------------------------------
(***************************************************************************)
(* Link with a conversation of two messages on channel 0, in a datagram    *)
(* each, the numbers of which lie on the two sides of the wrap.            *)
(***************************************************************************)
EXTENDS Link

MCMessage(length, reliability) ==
    [length |-> length, reliability |-> reliability, channel |-> 0, level |-> 2]

MCMessages == <<MCMessage(4, "ReliableOrdered"), MCMessage(4, "ReliableOrdered")>>

MCPackets == SentBy(Len(Messages))
=============================================================================
