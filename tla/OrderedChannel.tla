--------------------------- MODULE OrderedChannel ---------------------------
(***************************************************************************)
(* What one ordering channel promises its two applications: the receiver   *)
(* is given a growing prefix of what the sender has sent, each message     *)
(* once and in order, several at a time when a gap closes.                 *)
(***************************************************************************)
EXTENDS Naturals, Sequences

CONSTANT Payload       \* the messages

VARIABLES sent, given

channelVars == <<sent, given>>

ChannelInit == sent = <<>> /\ given = <<>>

ChannelSend(m) ==
    /\ sent' = Append(sent, m)
    /\ UNCHANGED given

ChannelGive(n) ==
    /\ n \in Len(given) + 1 .. Len(sent)
    /\ given' = SubSeq(sent, 1, n)
    /\ UNCHANGED sent

ChannelNext ==
    \/ \E m \in Payload : ChannelSend(m)
    \/ \E n \in 1 .. Len(sent) : ChannelGive(n)

ChannelSpec == ChannelInit /\ [][ChannelNext]_channelVars
=============================================================================
