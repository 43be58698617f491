--------------------------- MODULE NethernetProofs ---------------------------
(***************************************************************************)
(* What holds of the two NetherNet modules.                                *)
(*                                                                         *)
(* Of a session, for every set of messages, every set of callers, every    *)
(* segment size and every capacity: the types, with the limits of the      *)
(* segment count and of the packet channel, the promise of poll_shutdown,  *)
(* and, for an application that keeps its sends apart, that the session    *)
(* implements OrderedChannel.                                              *)
(*                                                                         *)
(* Of a connect against a listener, for every set of candidates, every     *)
(* number of offers, every capacity of the broadcast channel and whatever  *)
(* the network does: the types, and that the listener hands no candidate   *)
(* to WebRTC before the description it belongs to.                         *)
(***************************************************************************)
EXTENDS NethernetSession, Negotiation, SequenceTheorems, TLAPS

\* The marked bytes, the segments a sender may produce, and what a sender holds.
Marks == Nat \X Nat
Segments == {g \in [remaining : Nat, data : Seq(Marks)] : IsSegment(g)}
Futures == [state : {"none", "busy", "failed"}, message : Messages \cup {0}, left : Seq(Segments)]
Accumulators == [expected : 0 .. SegmentModulus - 1, data : Seq(Marks)]

\* The sender: a send under way has a segment left.
SendTyped ==
    /\ unsent \subseteq Messages /\ accepted \subseteq Messages /\ finished \subseteq Messages
    /\ future \in [Senders -> Futures]
    /\ \A s \in Senders : future[s].state = "busy" => future[s].message \in Messages /\ future[s].left # <<>>
    /\ reported \in BOOLEAN /\ shutdown \in {"no", "closing", "ok"}

ChannelTyped ==
    /\ wire \in Seq(Segments) /\ open \in BOOLEAN
    /\ closed \in [Ends -> BOOLEAN]
    /\ closing \in [Ends -> {"no", "channel", "peer", "done"}]

\* The receiver: the handler holds one message at most.
ReceiveTyped ==
    /\ buffer \in Accumulators
    /\ handing \in Seq(Seq(Marks)) /\ Len(handing) <= 1
    /\ packets \in Seq(Seq(Marks)) /\ Len(packets) <= Capacity
    /\ reader \in {"idle", "waiting", "over"}

SessionTyped == SendTyped /\ ChannelTyped /\ ReceiveTyped

-----------------------------------------------------------------------------
(* Cutting a message *)

\* The bytes of a message.
LEMMA DataTyped ==
    ASSUME NEW m \in Nat
    PROVE  Data(m) \in Seq(Marks) /\ Len(Data(m)) = m
BY DEF Data, Marks

\* The number of segments is a positive number, whatever the length.
LEMMA SegmentCountTyped ==
    ASSUME NEW data \in Seq(Marks)
    PROVE  SegmentCount(data) \in Nat \ {0}
<1>1. CASE Len(data) <= MAX_MESSAGE_SIZE
    BY <1>1 DEF SegmentCount
<1>2. CASE ~(Len(data) <= MAX_MESSAGE_SIZE)
    <2> DEFINE n == Len(data) + MAX_MESSAGE_SIZE - 1
    <2>1. n \in Nat /\ MAX_MESSAGE_SIZE \in Nat \ {0} /\ n >= MAX_MESSAGE_SIZE
        BY <1>2, SizeAssumption, LenProperties
    <2>2. SegmentCount(data) = n \div MAX_MESSAGE_SIZE
        BY <1>2 DEF SegmentCount
    <2> HIDE DEF n
    <2>3. n \div MAX_MESSAGE_SIZE \in Nat \ {0}
        BY <2>1
    <2> QED BY <2>2, <2>3
<1> QED BY <1>1, <1>2

\* A chunk is a part of the data and fits a segment.
LEMMA ChunkTyped ==
    ASSUME NEW data \in Seq(Marks), NEW i \in Nat \ {0}
    PROVE  Chunk(data, i) \in Seq(Marks) /\ Len(Chunk(data, i)) <= MAX_MESSAGE_SIZE
<1> DEFINE a == (i - 1) * MAX_MESSAGE_SIZE
           b == i * MAX_MESSAGE_SIZE
           e == IF b < Len(data) THEN b ELSE Len(data)
<1>1. a \in Nat /\ b \in Nat /\ b = a + MAX_MESSAGE_SIZE
    BY SizeAssumption
<1>2. MAX_MESSAGE_SIZE \in Nat /\ Len(data) \in Nat
    BY SizeAssumption, LenProperties
<1>3. Chunk(data, i) = SubSeq(data, a + 1, e)
    BY DEF Chunk
<1> HIDE DEF a, b
<1>4. e \in Nat /\ e <= Len(data) /\ e <= a + MAX_MESSAGE_SIZE
    BY <1>1, <1>2
<1> HIDE DEF e
<1>5. \A j \in a + 1 .. e : data[j] \in Marks
    BY <1>1, <1>2, <1>4, ElementOfSeq
<1>6. /\ SubSeq(data, a + 1, e) \in Seq(Marks)
      /\ Len(SubSeq(data, a + 1, e)) = IF a + 1 <= e THEN e - (a + 1) + 1 ELSE 0
    <2>1. a + 1 \in Int /\ e \in Int
        BY <1>1, <1>4
    <2> QED BY <2>1, <1>5, SubSeqProperties
<1>7. Len(SubSeq(data, a + 1, e)) <= MAX_MESSAGE_SIZE
    BY <1>1, <1>2, <1>4, <1>6
<1> QED BY <1>3, <1>6, <1>7

\* A message that is not refused is cut into at least one segment, and no
\* segment overflows the count that the receiver computes from it.
LEMMA SplitTyped ==
    ASSUME NEW data \in Seq(Marks), ~TooLarge(data)
    PROVE  /\ split_into_segments(data) \in Seq(Segments)
           /\ Len(split_into_segments(data)) = SegmentCount(data)
           /\ split_into_segments(data) # <<>>
<1> DEFINE n == SegmentCount(data)
<1>1. n \in Nat \ {0} /\ n <= SegmentModulus - 1
    BY SegmentCountTyped, ModulusAssumption DEF TooLarge
<1>2. ASSUME NEW i \in 1 .. n
      PROVE  Segment(n - i, Chunk(data, i)) \in Segments
    <2>1. Chunk(data, i) \in Seq(Marks) /\ Len(Chunk(data, i)) <= MAX_MESSAGE_SIZE
        BY <1>1, ChunkTyped
    <2>2. n - i \in Nat /\ n - i + 1 \in 1 .. SegmentModulus - 1
        BY <1>1, ModulusAssumption
    <2> QED BY <2>1, <2>2 DEF Segment, Segments, IsSegment
<1>3. split_into_segments(data) = [i \in 1 .. n |-> Segment(n - i, Chunk(data, i))]
    BY DEF split_into_segments
<1> HIDE DEF n
<1>4. [i \in 1 .. n |-> Segment(n - i, Chunk(data, i))] \in Seq(Segments)
    BY <1>1, <1>2
<1>5. Len([i \in 1 .. n |-> Segment(n - i, Chunk(data, i))]) = n
    BY <1>1
<1>6. n # 0
    BY <1>1
<1> QED BY <1>3, <1>4, <1>5, <1>6, EmptySeq DEF n

\* What begins a send of a message that is not refused.
LEMMA SendingTyped ==
    ASSUME NEW m \in Messages, ~Refused(m)
    PROVE  /\ Sending(m) \in Futures
           /\ Sending(m).state = "busy" /\ Sending(m).message = m /\ Sending(m).left # <<>>
           /\ Sending(m).left = split_into_segments(Data(m))
<1>1. m \in Nat
    BY MessagesAssumption
<1>2. split_into_segments(Data(m)) \in Seq(Segments) /\ split_into_segments(Data(m)) # <<>>
    BY <1>1, DataTyped, SplitTyped DEF Refused
<1> QED BY <1>2 DEF Sending, Futures

\* A sender with nothing under way.
LEMMA NoFutureTyped ==
    /\ NoFuture \in Futures /\ NoFuture.state = "none"
    /\ Failed \in Futures /\ Failed.state = "failed"
<1>1. <<>> \in Seq(Segments)
    BY EmptySeq
<1> QED BY <1>1 DEF NoFuture, Failed, Futures

-----------------------------------------------------------------------------
(* Assembling a message *)

\* add_segment keeps the accumulator's count within a byte.
LEMMA AssemblerTyped ==
    ASSUME NEW message \in Accumulators, NEW segment \in Segments
    PROVE  /\ AfterSegment(message, segment) \in Accumulators
           /\ Completed(message, segment) \in Seq(Seq(Marks))
           /\ Len(Completed(message, segment)) <= 1
<1>1. /\ message.expected \in 0 .. SegmentModulus - 1 /\ message.data \in Seq(Marks)
      /\ segment.remaining \in Nat /\ segment.data \in Seq(Marks)
      /\ segment.remaining + 1 \in 1 .. SegmentModulus - 1
    BY DEF Accumulators, Segments, IsSegment
<1>2. message.data \o segment.data \in Seq(Marks)
    BY <1>1, ConcatProperties
<1>3. Expected(message, segment) \in 0 .. SegmentModulus - 1
    <2>1. (segment.remaining + 1) % SegmentModulus \in 0 .. SegmentModulus - 1
        BY <1>1, ModulusAssumption
    <2> QED BY <2>1, <1>1 DEF Expected
<1>4. EmptyMessage \in Accumulators
    BY EmptySeq, ModulusAssumption DEF EmptyMessage, Accumulators
<1>5. AfterSegment(message, segment) \in Accumulators
    <2> DEFINE n == IF Expected(message, segment) = 0 THEN 0 ELSE Expected(message, segment) - 1
    <2>1. n \in 0 .. SegmentModulus - 1
        BY <1>3, ModulusAssumption
    <2> HIDE DEF n
    <2>2. [expected |-> n, data |-> message.data \o segment.data] \in Accumulators
        BY <1>2, <2>1 DEF Accumulators
    <2> QED BY <1>4, <2>2 DEF AfterSegment, n
<1>6. <<message.data \o segment.data>> \in Seq(Seq(Marks)) /\ Len(<<message.data \o segment.data>>) = 1
    BY <1>2
<1>7. <<>> \in Seq(Seq(Marks)) /\ Len(<<>>) = 0
    BY EmptySeq
<1> QED BY <1>5, <1>6, <1>7 DEF Completed

-----------------------------------------------------------------------------
(* Types *)

\* The session starts within its types.
LEMMA TypedInit == Init => SessionTyped
<1> SUFFICES ASSUME Init PROVE SessionTyped
    OBVIOUS
<1>1. SendTyped
    BY NoFutureTyped DEF Init, SendTyped
<1>2. ChannelTyped
    BY EmptySeq DEF Init, ChannelTyped
<1>3. ReceiveTyped
    <2>1. EmptyMessage \in Accumulators
        BY EmptySeq, ModulusAssumption DEF EmptyMessage, Accumulators
    <2> QED BY <2>1, EmptySeq, CapacityAssumption DEF Init, ReceiveTyped
<1> QED BY <1>1, <1>2, <1>3 DEF SessionTyped

\* A segment on its way is one that was cut from the message.
LEMMA SendSegmentTyped ==
    ASSUME SessionTyped, NEW s \in Senders, SendSegment(s)
    PROVE  SendTyped' /\ ChannelTyped'
<1> DEFINE left == future[s].left
<1>1. /\ future[s] \in Futures /\ future[s].state = "busy"
      /\ future[s].message \in Messages /\ left # <<>>
    BY DEF SessionTyped, SendTyped, SendSegment
<1>2. left \in Seq(Segments)
    BY <1>1 DEF Futures
<1>3. Head(left) \in Segments /\ Tail(left) \in Seq(Segments) /\ Len(Tail(left)) = Len(left) - 1
    BY <1>1, <1>2, HeadTailProperties
<1> DEFINE rest == [future[s] EXCEPT !.left = Tail(left)]
<1>4. rest \in Futures /\ rest.left = Tail(left) /\ rest.message = future[s].message /\ rest.state = "busy"
    BY <1>1, <1>3 DEF Futures
<1>5. Len(left) # 1 => Tail(left) # <<>>
    <2>1. Len(left) \in Nat \ {0}
        BY <1>1, <1>2, EmptySeq
    <2>2. Len(left) # 1 => Len(Tail(left)) # 0
        BY <2>1, <1>3
    <2> HIDE DEF left
    <2>3. Len(<<>>) = 0
        BY EmptySeq
    <2> QED BY <2>2, <2>3
<1>6. CASE open
    <2> DEFINE next == IF Len(left) = 1 THEN NoFuture ELSE rest
    <2>1. future' = [future EXCEPT ![s] = next]
        BY <1>6 DEF SendSegment
    <2>2. next \in Futures /\ (next.state = "busy" => next.message \in Messages /\ next.left # <<>>)
        BY <1>1, <1>4, <1>5, NoFutureTyped
    <2> HIDE DEF next, rest, left
    <2>3. SendTyped'
        BY <1>1, <1>6, <2>1, <2>2 DEF SessionTyped, SendTyped, SendSegment
    <2>4. wire' = Append(wire, Head(left))
        BY <1>6 DEF SendSegment, left
    <2>5. wire' \in Seq(Segments)
        BY <2>4, <1>3, AppendProperties DEF SessionTyped, ChannelTyped
    <2> QED BY <2>3, <2>5 DEF SessionTyped, ChannelTyped, SendSegment, closeVars
<1>7. CASE ~open
    <2>1. PICK next \in {NoFuture, Failed} : future' = [future EXCEPT ![s] = next]
        BY <1>7 DEF SendSegment
    <2>2. next \in Futures /\ next.state # "busy"
        BY NoFutureTyped
    <2>3. SendTyped'
        BY <1>7, <2>1, <2>2 DEF SessionTyped, SendTyped, SendSegment
    <2> QED BY <2>3, <1>7 DEF SessionTyped, ChannelTyped, SendSegment, closeVars
<1> QED BY <1>6, <1>7

\* The other steps of the sender.
LEMMA SendStepTyped ==
    ASSUME SessionTyped,
           \/ \E s \in Callers, m \in Messages : CallSend(s, m)
           \/ \E s \in Callers : DropSend(s)
           \/ ReportError
           \/ \E m \in Messages : PollWrite(m)
           \/ PollShutdown
           \/ ClosePeer
    PROVE  SendTyped'
<1> USE DEF SessionTyped
<1>1. ASSUME NEW s \in Callers, NEW m \in Messages, CallSend(s, m) PROVE SendTyped'
    <2>1. CASE Refused(m)
        BY <1>1, <2>1 DEF CallSend, SendTyped
    <2>2. CASE ~Refused(m)
        <3>1. s \in Senders /\ future' = [future EXCEPT ![s] = Sending(m)]
            BY <1>1, <2>2 DEF CallSend, Senders
        <3>2. Sending(m) \in Futures /\ Sending(m).message = m /\ Sending(m).left # <<>>
            BY <2>2, SendingTyped
        <3> QED BY <1>1, <3>1, <3>2 DEF CallSend, SendTyped
    <2> QED BY <2>1, <2>2
<1>2. ASSUME NEW s \in Callers, DropSend(s) PROVE SendTyped'
    BY <1>2, NoFutureTyped DEF DropSend, SendTyped, Senders
<1>3. CASE ReportError
    BY <1>3, NoFutureTyped DEF ReportError, SendTyped, Senders
<1>4. ASSUME NEW m \in Messages, PollWrite(m) PROVE SendTyped'
    <2>1. CASE Refused(m)
        BY <1>4, <2>1, NoFutureTyped DEF PollWrite, SendTyped, Senders
    <2>2. CASE ~Refused(m)
        <3>1. future' = [future EXCEPT !["stream"] = Sending(m)] /\ accepted' = accepted \cup {m}
            BY <1>4, <2>2 DEF PollWrite
        <3>2. Sending(m) \in Futures /\ Sending(m).message = m /\ Sending(m).left # <<>>
            BY <2>2, SendingTyped
        <3> QED BY <1>4, <2>2, <3>1, <3>2 DEF PollWrite, SendTyped, Senders
    <2> QED BY <2>1, <2>2
<1>5. CASE PollShutdown
    BY <1>5 DEF PollShutdown, SendTyped
<1>6. CASE ClosePeer
    BY <1>6 DEF ClosePeer, SendTyped
<1> QED BY <1>1, <1>2, <1>3, <1>4, <1>5, <1>6

\* Closing the data channel keeps a prefix of what is on its way.
LEMMA CloseTyped ==
    ASSUME SessionTyped,
           \/ PollShutdown
           \/ \E e \in Ends : Close(e)
           \/ \E e \in Ends : CloseChannel(e)
           \/ ClosePeer
    PROVE  ChannelTyped'
<1> USE DEF SessionTyped
<1>1. CASE PollShutdown
    BY <1>1 DEF PollShutdown, ChannelTyped, closeVars, Ends
<1>2. ASSUME NEW e \in Ends, Close(e) PROVE ChannelTyped'
    BY <1>2 DEF Close, ChannelTyped
<1>3. ASSUME NEW e \in Ends, CloseChannel(e) PROVE ChannelTyped'
    <2>1. PICK n \in 0 .. Len(wire) : wire' = SubSeq(wire, 1, n)
        BY <1>3 DEF CloseChannel
    <2>2. wire \in Seq(Segments)
        BY DEF ChannelTyped
    <2>3. wire' \in Seq(Segments)
        BY <2>1, <2>2
    <2> QED BY <1>3, <2>3 DEF CloseChannel, ChannelTyped
<1>4. CASE ClosePeer
    BY <1>4 DEF ClosePeer, ChannelTyped, Ends
<1> QED BY <1>1, <1>2, <1>3, <1>4

\* The handler and the reader.
LEMMA ReceiveStepTyped ==
    ASSUME SessionTyped, OnMessage \/ HandOver \/ RecvCall \/ RecvReady
    PROVE  ChannelTyped' /\ ReceiveTyped'
<1> USE DEF SessionTyped
<1>1. CASE OnMessage
    <2>1. wire \in Seq(Segments) /\ wire # <<>>
        BY <1>1 DEF OnMessage, ChannelTyped
    <2>2. Head(wire) \in Segments /\ Tail(wire) \in Seq(Segments)
        BY <2>1, HeadTailProperties
    <2>3. ChannelTyped'
        BY <1>1, <2>2 DEF OnMessage, ChannelTyped, closeVars
    <2>4. ReceiveTyped'
        BY <1>1, <2>2, AssemblerTyped DEF OnMessage, ReceiveTyped
    <2> QED BY <2>3, <2>4
<1>2. CASE HandOver
    <2>1. handing \in Seq(Seq(Marks)) /\ packets \in Seq(Seq(Marks)) /\ handing # <<>> /\ Len(handing) <= 1
        BY <1>2 DEF HandOver, ReceiveTyped
    <2>2. packets \o handing \in Seq(Seq(Marks)) /\ Len(packets \o handing) = Len(packets) + Len(handing)
        BY <2>1, ConcatProperties
    <2>3. Len(packets) \in Nat /\ Len(handing) \in Nat /\ Len(packets) < Capacity /\ Capacity \in Nat
        BY <1>2, <2>1, LenProperties, CapacityAssumption DEF HandOver
    <2>4. Len(packets \o handing) <= Capacity
        BY <2>1, <2>2, <2>3
    <2>5. ReceiveTyped'
        BY <1>2, <2>2, <2>4, EmptySeq DEF HandOver, ReceiveTyped
    <2> QED BY <1>2, <2>5 DEF HandOver, ChannelTyped, closeVars
<1>3. CASE RecvCall
    BY <1>3 DEF RecvCall, ChannelTyped, ReceiveTyped, closeVars
<1>4. CASE RecvReady
    <2>1. Tail(packets) \in Seq(Seq(Marks)) /\ Len(Tail(packets)) <= Capacity
        BY <1>4, CapacityAssumption, HeadTailProperties, LenProperties DEF RecvReady, ReceiveTyped
    <2> QED BY <1>4, <2>1 DEF RecvReady, ChannelTyped, ReceiveTyped, closeVars
<1> QED BY <1>1, <1>2, <1>3, <1>4

\* Every step keeps the types.
LEMMA TypedStep == SessionTyped /\ [Next]_vars => SessionTyped'
<1> SUFFICES ASSUME SessionTyped, [Next]_vars PROVE SessionTyped'
    OBVIOUS
<1> USE DEF SessionTyped
<1>1. ASSUME NEW s \in Senders, SendSegment(s) PROVE SessionTyped'
    <2>1. ReceiveTyped'
        BY <1>1 DEF SendSegment, receiveVars, ReceiveTyped
    <2> QED BY <1>1, <2>1, SendSegmentTyped
<1>2. CASE \/ \E s \in Callers, m \in Messages : CallSend(s, m)
           \/ \E s \in Callers : DropSend(s)
           \/ ReportError
           \/ \E m \in Messages : PollWrite(m)
    <2>1. UNCHANGED <<receiveVars, closeVars, wire, open>>
        BY <1>2 DEF CallSend, DropSend, ReportError, PollWrite
    <2> QED BY <1>2, <2>1, SendStepTyped DEF receiveVars, closeVars, ReceiveTyped, ChannelTyped
<1>3. CASE PollShutdown \/ ClosePeer
    <2>1. ReceiveTyped'
        BY <1>3 DEF PollShutdown, ClosePeer, receiveVars, ReceiveTyped
    <2> QED BY <1>3, <2>1, SendStepTyped, CloseTyped
<1>4. CASE \E e \in Ends : Close(e) \/ CloseChannel(e)
    <2>1. UNCHANGED <<sendVars, receiveVars>>
        BY <1>4 DEF Close, CloseChannel
    <2> QED BY <1>4, <2>1, CloseTyped DEF sendVars, receiveVars, SendTyped, ReceiveTyped
<1>5. CASE OnMessage \/ HandOver \/ RecvCall \/ RecvReady
    <2>1. UNCHANGED sendVars
        BY <1>5 DEF OnMessage, HandOver, RecvCall, RecvReady
    <2> QED BY <1>5, <2>1, ReceiveStepTyped DEF sendVars, SendTyped
<1>6. CASE UNCHANGED vars
    BY <1>6 DEF vars, sendVars, receiveVars, closeVars, SendTyped, ChannelTyped, ReceiveTyped
<1> QED BY <1>1, <1>2, <1>3, <1>4, <1>5, <1>6 DEF Next

\* The types give the type invariant that the run checks.
LEMMA TypedTypeOK == SessionTyped => SessionTypeOK
<1> SUFFICES ASSUME SessionTyped PROVE SessionTypeOK
    OBVIOUS
<1> USE DEF SessionTyped
<1>1. ASSUME NEW s \in Senders
      PROVE  /\ future[s].state \in {"none", "busy", "failed"}
             /\ future[s].message \in Messages \cup {0}
             /\ \A i \in DOMAIN future[s].left : IsSegment(future[s].left[i])
    <2>1. future[s] \in Futures
        BY DEF SendTyped
    <2>2. \A i \in DOMAIN future[s].left : future[s].left[i] \in Segments
        BY <2>1, LenProperties, ElementOfSeq DEF Futures
    <2> QED BY <2>1, <2>2 DEF Futures, Segments
<1>2. \A i \in DOMAIN wire : IsSegment(wire[i])
    <2>1. \A i \in DOMAIN wire : wire[i] \in Segments
        BY LenProperties, ElementOfSeq DEF ChannelTyped
    <2> QED BY <2>1 DEF Segments
<1>3. buffer.expected \in 0 .. SegmentModulus - 1
    BY DEF ReceiveTyped, Accumulators
<1> QED BY <1>1, <1>2, <1>3 DEF SessionTypeOK, SendTyped, ChannelTyped, ReceiveTyped

\* The type invariant of the two sessions and the stream holds of every
\* behaviour: a message that is not refused never makes add_segment overflow
\* its count, and no handler puts more into the packet channel than it holds.
THEOREM SessionTypeOKHolds == Spec => []SessionTypeOK
<1>1. Init => SessionTyped
    BY TypedInit
<1>2. SessionTyped /\ [Next]_vars => SessionTyped'
    BY TypedStep
<1>3. SessionTyped => SessionTypeOK
    BY TypedTypeOK
<1> QED BY <1>1, <1>2, <1>3, PTL DEF Spec

-----------------------------------------------------------------------------
(* The promise of poll_shutdown *)

\* Every write accepted has left, or is the one under way; a shutdown begun
\* has nothing under way, and only a shutdown waits for the peer connection.
FlushInv ==
    /\ ~reported /\ future["stream"].state # "failed" =>
          accepted \subseteq finished \cup (IF future["stream"].state = "busy" THEN {future["stream"].message} ELSE {})
    /\ shutdown # "no" => Idle("stream")
    /\ closing["sender"] = "peer" => shutdown = "closing"

\* A segment of the stream, or of a caller.
LEMMA FlushSegment ==
    ASSUME SessionTyped, FlushInv, NEW s \in Senders, SendSegment(s)
    PROVE  FlushInv'
<1> DEFINE left == future[s].left
           m == future[s].message
<1>1. /\ future \in [Senders -> Futures] /\ "stream" \in Senders
      /\ future[s].state = "busy"
    BY DEF SessionTyped, SendTyped, SendSegment, Senders
<1>2. /\ accepted' = accepted /\ reported' = reported /\ shutdown' = shutdown /\ closing' = closing
    BY DEF SendSegment, closeVars
<1>3. finished \subseteq finished'
    BY DEF SendSegment
<1>4. CASE s # "stream"
    <2>1. future'["stream"] = future["stream"]
        BY <1>1, <1>4 DEF SendSegment
    <2> QED BY <1>2, <1>3, <2>1 DEF FlushInv, Idle
<1>5. CASE s = "stream" /\ open /\ Len(left) = 1
    <2>1. future'["stream"] = NoFuture /\ finished' = finished \cup {m}
        BY <1>1, <1>5 DEF SendSegment
    <2>2. ~reported => accepted \subseteq finished \cup {m}
        BY <1>1, <1>5 DEF FlushInv
    <2> QED BY <1>2, <2>1, <2>2, NoFutureTyped DEF FlushInv, Idle
<1>6. CASE s = "stream" /\ open /\ Len(left) # 1
    <2>1. future'["stream"] = [future["stream"] EXCEPT !.left = Tail(left)]
        BY <1>1, <1>6 DEF SendSegment
    <2>2. future["stream"] \in Futures
        BY <1>1
    <2>3. future'["stream"].state = future["stream"].state /\ future'["stream"].message = future["stream"].message
        BY <2>1, <2>2 DEF Futures
    <2> QED BY <1>2, <1>3, <2>3 DEF FlushInv, Idle
<1>7. CASE s = "stream" /\ ~open
    <2>1. future'["stream"] = Failed
        BY <1>1, <1>7 DEF SendSegment
    <2>2. shutdown = "no"
        BY <1>1, <1>7 DEF FlushInv, Idle
    <2> QED BY <1>2, <2>1, <2>2, NoFutureTyped DEF FlushInv, Idle
<1> QED BY <1>4, <1>5, <1>6, <1>7

\* The polls of the stream and the calls of the others.
LEMMA FlushCalls ==
    ASSUME SessionTyped, FlushInv,
           \/ \E s \in Callers, m \in Messages : CallSend(s, m)
           \/ \E s \in Callers : DropSend(s)
           \/ ReportError
           \/ \E m \in Messages : PollWrite(m)
    PROVE  FlushInv'
<1>1. future \in [Senders -> Futures] /\ "stream" \in Senders
    BY DEF SessionTyped, SendTyped, Senders
<1>2. ASSUME NEW s \in Callers, (\E m \in Messages : CallSend(s, m)) \/ DropSend(s)
      PROVE  FlushInv'
    <2>1. s # "stream"
        BY CallersAssumption
    <2>2. future'["stream"] = future["stream"]
        BY <1>1, <1>2, <2>1 DEF CallSend, DropSend
    <2> QED BY <1>2, <2>2 DEF CallSend, DropSend, FlushInv, Idle, closeVars
<1>3. CASE ReportError
    <2>1. future'["stream"] = NoFuture /\ reported' = TRUE
        BY <1>1, <1>3 DEF ReportError
    <2> QED BY <1>3, <2>1, NoFutureTyped DEF ReportError, FlushInv, Idle, closeVars
<1>4. ASSUME NEW m \in Messages, PollWrite(m) PROVE FlushInv'
    <2>1. shutdown = "no" /\ shutdown' = "no" /\ Idle("stream") /\ finished' = finished /\ closing' = closing
        BY <1>4 DEF PollWrite, closeVars
    <2>2. CASE Refused(m)
        <3>1. reported' = TRUE
            BY <1>4, <2>2 DEF PollWrite
        <3> QED BY <2>1, <3>1 DEF FlushInv
    <2>3. CASE ~Refused(m)
        <3>1. future'["stream"] = Sending(m) /\ accepted' = accepted \cup {m} /\ reported' = reported
            BY <1>1, <1>4, <2>3 DEF PollWrite
        <3>2. ~reported => accepted \subseteq finished
            BY <2>1 DEF FlushInv, Idle
        <3> QED BY <2>1, <2>3, <3>1, <3>2, SendingTyped DEF FlushInv
    <2> QED BY <2>2, <2>3
<1> QED BY <1>2, <1>3, <1>4

\* The steps of a close, by the shutdown or by the application.
LEMMA FlushClose ==
    ASSUME SessionTyped, FlushInv,
           \/ PollShutdown
           \/ \E e \in Ends : Close(e) \/ CloseChannel(e)
           \/ ClosePeer
    PROVE  FlushInv'
<1>1. closing \in [Ends -> {"no", "channel", "peer", "done"}] /\ "sender" \in Ends
    BY DEF SessionTyped, ChannelTyped, Ends
<1>2. CASE PollShutdown
    <2>1. closing["sender"] # "peer"
        BY <1>2 DEF PollShutdown, FlushInv
    <2>2. closing'["sender"] # "peer"
        BY <1>1, <1>2, <2>1 DEF PollShutdown, closeVars
    <2> QED BY <1>2, <2>2 DEF PollShutdown, Flushed, FlushInv, Idle
<1>3. ASSUME NEW e \in Ends, Close(e) PROVE FlushInv'
    <2>1. closing'["sender"] = "peer" => closing["sender"] = "peer"
        BY <1>1, <1>3 DEF Close
    <2> QED BY <1>3, <2>1 DEF Close, sendVars, FlushInv, Idle
<1>4. ASSUME NEW e \in Ends, CloseChannel(e) PROVE FlushInv'
    <2>1. closing'["sender"] = "peer" => closing["sender"] = "peer" \/ shutdown = "closing"
        BY <1>1, <1>4 DEF CloseChannel
    <2> QED BY <1>4, <2>1 DEF CloseChannel, sendVars, FlushInv, Idle
<1>5. CASE ClosePeer
    <2>1. shutdown = "closing" /\ Idle("stream")
        BY <1>5 DEF ClosePeer, FlushInv
    <2>2. closing'["sender"] = "done"
        BY <1>1, <1>5 DEF ClosePeer
    <2> QED BY <1>5, <2>1, <2>2 DEF ClosePeer, FlushInv, Idle
<1> QED BY <1>2, <1>3, <1>4, <1>5

\* Every step keeps the promise.
LEMMA FlushStep == SessionTyped /\ FlushInv /\ [Next]_vars => FlushInv'
<1> SUFFICES ASSUME SessionTyped, FlushInv, [Next]_vars PROVE FlushInv'
    OBVIOUS
<1>1. CASE OnMessage \/ HandOver \/ RecvCall \/ RecvReady
    <2>1. UNCHANGED <<sendVars, closeVars>>
        BY <1>1 DEF OnMessage, HandOver, RecvCall, RecvReady
    <2> QED BY <2>1 DEF sendVars, closeVars, FlushInv, Idle
<1>2. CASE UNCHANGED vars
    BY <1>2 DEF vars, sendVars, closeVars, FlushInv, Idle
<1> QED BY <1>1, <1>2, FlushSegment, FlushCalls, FlushClose DEF Next

\* A shutdown that ends well, with no error reported before, has put every
\* segment of every accepted write on the data channel, for every application
\* and whoever else closes the session.
THEOREM ShutdownFlushesHolds == Spec => []ShutdownFlushes
<1>1. Init => SessionTyped /\ FlushInv
    <2>1. Init => FlushInv
        BY NoFutureTyped DEF Init, FlushInv, Ends, Senders, Idle
    <2> QED BY <2>1, TypedInit
<1>2. SessionTyped /\ FlushInv /\ [Next]_vars => (SessionTyped /\ FlushInv)'
    BY TypedStep, FlushStep
<1>3. FlushInv => ShutdownFlushes
    BY DEF FlushInv, ShutdownFlushes, Idle
<1> QED BY <1>1, <1>2, <1>3, PTL DEF Spec

-----------------------------------------------------------------------------
(* Putting together what was cut *)

\* The data of the messages that leave: not empty, and not refused.
Whole == {Data(m) : m \in {k \in Messages \ {0} : ~TooLarge(Data(k))}}

\* What the accumulator holds after the first q segments of d, short of all.
Partial(d, q) ==
    IF q = 0 THEN EmptyMessage
    ELSE [expected |-> SegmentCount(d) - q, data |-> SubSeq(d, 1, q * MAX_MESSAGE_SIZE)]

\* Such a message has bytes, and its count fits.
LEMMA WholeTyped ==
    ASSUME NEW d \in Whole
    PROVE  /\ d \in Seq(Marks) /\ Len(d) \in Nat \ {0} /\ d \in Payload
           /\ SegmentCount(d) \in 1 .. SegmentModulus - 1
<1>1. PICK m \in Messages \ {0} : d = Data(m) /\ ~TooLarge(Data(m))
    BY DEF Whole
<1>2. m \in Nat \ {0}
    BY MessagesAssumption
<1>3. d \in Seq(Marks) /\ Len(d) = m
    BY <1>1, <1>2, DataTyped
<1>4. SegmentCount(d) \in Nat \ {0} /\ SegmentCount(d) <= SegmentModulus - 1
    BY <1>1, <1>3, SegmentCountTyped, ModulusAssumption DEF TooLarge
<1> QED BY <1>1, <1>2, <1>3, <1>4, ModulusAssumption DEF Payload

\* div_ceil: the last segment begins within the data and ends with it.
LEMMA CountCovers ==
    ASSUME NEW d \in Seq(Marks), Len(d) # 0, NEW q \in Nat, q < SegmentCount(d)
    PROVE  /\ q * MAX_MESSAGE_SIZE < Len(d)
           /\ q + 1 = SegmentCount(d) => Len(d) <= (q + 1) * MAX_MESSAGE_SIZE
<1> DEFINE M == MAX_MESSAGE_SIZE
           n == SegmentCount(d)
<1>1. M \in Nat \ {0} /\ Len(d) \in Nat \ {0} /\ n \in Nat \ {0}
    BY SizeAssumption, LenProperties, SegmentCountTyped
<1>2. CASE Len(d) <= M
    <2>1. n = 1 /\ q = 0
        BY <1>1, <1>2 DEF SegmentCount
    <2> QED BY <1>1, <1>2, <2>1
<1>3. CASE ~(Len(d) <= M)
    <2> DEFINE t == Len(d) + M - 1
    <2>1. n = t \div M
        BY <1>3 DEF SegmentCount
    <2>2. t \in Nat
        BY <1>1
    <2> HIDE DEF M, n
    <2>3. n * M <= t /\ t < (n + 1) * M
        <3> HIDE DEF t
        <3>1. t = M * (t \div M) + (t % M) /\ t % M \in 0 .. M - 1
            BY <1>1, <2>2
        <3>2. (n + 1) * M = n * M + M /\ n * M = M * n /\ n * M \in Nat
            BY <1>1
        <3>3. t \in Nat /\ M \in Nat
            BY <1>1, <2>2
        <3> QED BY <2>1, <3>1, <3>2, <3>3
    <2>4. (n + 1) * M = n * M + M /\ n * M \in Nat
        BY <1>1
    <2>5. Len(d) <= n * M /\ n * M <= Len(d) + M - 1
        BY <1>1, <2>3, <2>4
    <2>6. q * M \in Nat /\ q * M + M <= n * M
        <3>1. q + 1 <= n
            BY <1>1 DEF n
        <3>2. (q + 1) * M = q * M + M /\ q * M \in Nat
            BY <1>1
        <3>3. \E r \in Nat : n = q + 1 + r
            <4>1. n - (q + 1) \in Nat /\ n = q + 1 + (n - (q + 1))
                BY <1>1, <3>1
            <4> QED BY <4>1
        <3>4. PICK r \in Nat : n = q + 1 + r
            BY <3>3
        <3>5. n * M = (q + 1) * M + r * M /\ r * M \in Nat
            BY <1>1, <3>4
        <3> QED BY <1>1, <3>2, <3>5
    <2>7. q * M < Len(d)
        BY <1>1, <2>5, <2>6
    <2>8. q + 1 = n => Len(d) <= (q + 1) * M
        BY <2>5
    <2> QED BY <2>7, <2>8 DEF M, n
<1> QED BY <1>2, <1>3

\* The segment after the first q.
LEMMA SegmentAt ==
    ASSUME NEW d \in Whole, NEW q \in Nat, q < SegmentCount(d)
    PROVE  /\ split_into_segments(d)[q + 1].remaining = SegmentCount(d) - (q + 1)
           /\ split_into_segments(d)[q + 1].data = Chunk(d, q + 1)
           /\ split_into_segments(d)[q + 1] \in [remaining : Nat, data : Seq(Marks)]
<1>1. SegmentCount(d) \in Nat /\ q + 1 \in 1 .. SegmentCount(d) /\ SegmentCount(d) - (q + 1) \in Nat
    BY WholeTyped, ModulusAssumption
<1>2. split_into_segments(d)[q + 1] = [remaining |-> SegmentCount(d) - (q + 1), data |-> Chunk(d, q + 1)]
    BY <1>1 DEF split_into_segments, Segment
<1>3. Chunk(d, q + 1) \in Seq(Marks)
    BY WholeTyped, ChunkTyped
<1> QED BY <1>1, <1>2, <1>3

\* The chunk after the first q of them goes on where they end.
LEMMA ChunkJoins ==
    ASSUME NEW d \in Whole, NEW q \in Nat, q < SegmentCount(d)
    PROVE  /\ Len(Chunk(d, q + 1)) >= 1
           /\ q + 1 < SegmentCount(d) =>
                 SubSeq(d, 1, q * MAX_MESSAGE_SIZE) \o Chunk(d, q + 1) = SubSeq(d, 1, (q + 1) * MAX_MESSAGE_SIZE)
           /\ q + 1 = SegmentCount(d) =>
                 SubSeq(d, 1, q * MAX_MESSAGE_SIZE) \o Chunk(d, q + 1) = d
<1> DEFINE M == MAX_MESSAGE_SIZE
           a == q * M
           b == (q + 1) * M
           e == IF b < Len(d) THEN b ELSE Len(d)
<1>1. d \in Seq(Marks) /\ Len(d) \in Nat \ {0} /\ M \in Nat \ {0} /\ SegmentCount(d) \in Nat
    BY WholeTyped, SizeAssumption, ModulusAssumption
<1>2. a \in Nat /\ b \in Nat /\ b = a + M
    BY <1>1
<1>3. a < Len(d) /\ (q + 1 = SegmentCount(d) => Len(d) <= b)
    BY <1>1, CountCovers
<1>4. q + 1 < SegmentCount(d) => b < Len(d)
    <2>1. q + 1 \in Nat
        OBVIOUS
    <2> QED BY <2>1, <1>1, CountCovers
<1>5. Chunk(d, q + 1) = SubSeq(d, a + 1, e)
    <2>1. (q + 1) - 1 = q
        OBVIOUS
    <2> QED BY <2>1, Zenon DEF Chunk
<1> HIDE DEF a, b, M
<1>6. e \in a + 1 .. Len(d)
    BY <1>1, <1>2, <1>3
<1>7. SubSeq(d, 1, a) \o SubSeq(d, a + 1, e) = SubSeq(d, 1, e)
    <2>1. 1 \in 1 .. Len(d) + 1 /\ a \in 1 - 1 .. Len(d) /\ e \in a .. Len(d)
        BY <1>1, <1>2, <1>3, <1>6
    <2> HIDE DEF e
    <2> QED BY <1>1, <2>1, ConcatAdjacentSubSeq
<1>8. Len(SubSeq(d, a + 1, e)) >= 1
    <2> HIDE DEF e
    <2>1. a + 1 \in Int /\ e \in Int /\ a + 1 <= e
        BY <1>1, <1>2, <1>6
    <2>2. \A i \in a + 1 .. e : d[i] \in Marks
        BY <1>1, <1>2, <1>6, ElementOfSeq
    <2>3. Len(SubSeq(d, a + 1, e)) = e - (a + 1) + 1
        BY <2>1, <2>2, SubSeqProperties
    <2> QED BY <2>1, <2>3
<1>9. q + 1 = SegmentCount(d) => SubSeq(d, 1, e) = d
    BY <1>1, <1>2, <1>3, SubSeqFull
<1> QED BY <1>4, <1>5, <1>7, <1>8, <1>9 DEF a, b, M

\* add_segment of the next segment in order: the accumulator is one further,
\* and the last segment gives back the message.
LEMMA AddSegmentInOrder ==
    ASSUME NEW d \in Whole, NEW q \in Nat, q < SegmentCount(d)
    PROVE  LET g == split_into_segments(d)[q + 1]
           IN  /\ Decodes(g)
               /\ q + 1 < SegmentCount(d) =>
                     AfterSegment(Partial(d, q), g) = Partial(d, q + 1) /\ Completed(Partial(d, q), g) = <<>>
               /\ q + 1 = SegmentCount(d) =>
                     AfterSegment(Partial(d, q), g) = EmptyMessage /\ Completed(Partial(d, q), g) = <<d>>
<1> DEFINE g == split_into_segments(d)[q + 1]
           n == SegmentCount(d)
           before == Partial(d, q)
<1>1. n \in 1 .. SegmentModulus - 1 /\ SegmentModulus \in Nat /\ n \in Nat /\ d \in Seq(Marks)
    BY WholeTyped, ModulusAssumption
<1>2. g.remaining = n - (q + 1) /\ g.data = Chunk(d, q + 1)
    BY SegmentAt
<1>3. Decodes(g)
    BY <1>2, ChunkJoins DEF Decodes
<1>4. before.data = SubSeq(d, 1, q * MAX_MESSAGE_SIZE)
    <2>1. CASE q = 0
        <3>1. SubSeq(d, 1, 0) = <<>>
            BY SubSeqEmpty
        <3>2. q * MAX_MESSAGE_SIZE = 0
            BY <2>1, SizeAssumption
        <3> QED BY <2>1, <3>1, <3>2 DEF Partial, EmptyMessage
    <2>2. CASE q # 0
        BY <2>2 DEF Partial
    <2> QED BY <2>1, <2>2
<1>5. before.expected = IF q = 0 THEN 0 ELSE n - q
    BY DEF Partial, EmptyMessage
<1> HIDE DEF g, n, before
<1>6. Expected(before, g) = IF q = 0 /\ n = 1 THEN 0 ELSE n - q
    <2>1. n % SegmentModulus = n
        BY <1>1
    <2>2. q < n /\ g.remaining + 1 = n - q
        BY <1>1, <1>2 DEF n
    <2> QED BY <1>1, <1>2, <1>5, <2>1, <2>2 DEF Expected
<1>7. InSequence(before, g)
    BY <1>1, <1>2, <1>6 DEF InSequence
<1>8. ASSUME q + 1 < n
      PROVE  AfterSegment(before, g) = Partial(d, q + 1) /\ Completed(before, g) = <<>>
    <2>1. g.remaining > 0 /\ g.remaining # 0
        BY <1>1, <1>2, <1>8
    <2>2. Expected(before, g) # 0 /\ Expected(before, g) - 1 = n - (q + 1)
        BY <1>1, <1>6, <1>8
    <2>3. before.data \o g.data = SubSeq(d, 1, (q + 1) * MAX_MESSAGE_SIZE)
        BY <1>2, <1>4, <1>8, ChunkJoins DEF n
    <2>4. Partial(d, q + 1) = [expected |-> n - (q + 1), data |-> SubSeq(d, 1, (q + 1) * MAX_MESSAGE_SIZE)]
        BY DEF Partial, n
    <2> QED BY <1>7, <2>1, <2>2, <2>3, <2>4 DEF AfterSegment, Completed
<1>9. ASSUME q + 1 = n
      PROVE  AfterSegment(before, g) = EmptyMessage /\ Completed(before, g) = <<d>>
    <2>1. g.remaining = 0 /\ ~(g.remaining > 0)
        BY <1>1, <1>2, <1>9
    <2>2. before.data \o g.data = d
        BY <1>2, <1>4, <1>9, ChunkJoins DEF n
    <2> QED BY <1>7, <2>1, <2>2 DEF AfterSegment, Completed
<1> QED BY <1>3, <1>8, <1>9 DEF g, n, before

-----------------------------------------------------------------------------
(* One send at a time *)

\* What is left of a send are the last segments of its message.
LastSegments(f) ==
    LET segments == split_into_segments(Data(f.message))
        n == SegmentCount(Data(f.message))
    IN  /\ ~TooLarge(Data(f.message))
        /\ Len(f.left) \in 1 .. n
        /\ \A i \in 1 .. Len(f.left) : f.left[i] = segments[n - Len(f.left) + i]

\* An application that keeps its sends apart has one under way at most.
SendInv ==
    /\ \A s, t \in Senders : ~Idle(s) /\ ~Idle(t) => s = t
    /\ \A s \in Senders : future[s].state = "busy" => LastSegments(future[s])
    /\ sent \in Seq(Whole)

\* No send has put a segment of a message on the data channel without the last.
BetweenMessages == \A s \in Senders : ~Begun(s)

\* A send that begins has the whole message left.
LEMMA SendingWhole ==
    ASSUME NEW m \in Messages, ~Refused(m)
    PROVE  /\ LastSegments(Sending(m))
           /\ Len(Sending(m).left) = SegmentCount(Data(Sending(m).message))
<1> DEFINE segments == split_into_segments(Data(m))
           n == SegmentCount(Data(m))
<1>1. m \in Nat /\ ~TooLarge(Data(m)) /\ Data(m) \in Seq(Marks)
    BY MessagesAssumption, DataTyped DEF Refused
<1>2. segments \in Seq(Segments) /\ Len(segments) = n
    BY <1>1, SplitTyped
<1>3. n \in Nat \ {0}
    BY <1>1, SegmentCountTyped
<1>4. Sending(m).message = m /\ Sending(m).left = segments
    BY DEF Sending
<1> HIDE DEF n, segments
<1>5. \A i \in 1 .. n : n - n + i = i
    BY <1>3
<1>6. /\ ~TooLarge(Data(m)) /\ Len(segments) \in 1 .. n
      /\ \A i \in 1 .. Len(segments) : segments[i] = segments[n - Len(segments) + i]
    BY <1>1, <1>2, <1>3, <1>5
<1> QED BY <1>2, <1>4, <1>6 DEF LastSegments, n, segments

\* A send that begins or ends before its first segment, with no other under way.
LEMMA SendInvOutside ==
    ASSUME SessionTyped, SendInv, NEW s \in Senders, sent' = sent,
           \A t \in Senders \ {s} : Idle(t) /\ future'[t] = future[t],
           ~Begun(s),
           \/ future'[s].state # "busy"
           \/ \E m \in Messages : future'[s] = Sending(m) /\ ~Refused(m)
    PROVE  SendInv' /\ BetweenMessages /\ BetweenMessages'
<1>1. \A t \in Senders \ {s} : Idle(t)' /\ future'[t].state # "busy" /\ ~Begun(t) /\ ~Begun(t)'
    BY DEF Idle, Begun
<1>2. \A t, u \in Senders : ~Idle(t)' /\ ~Idle(u)' => t = u
    BY <1>1
<1>3. BetweenMessages
    BY <1>1 DEF BetweenMessages
<1>4. CASE future'[s].state # "busy"
    <2>1. ~Begun(s)'
        BY <1>4 DEF Begun
    <2>2. \A t \in Senders : future'[t].state # "busy"
        BY <1>1, <1>4
    <2> QED BY <1>1, <1>2, <1>3, <2>1, <2>2 DEF BetweenMessages, SendInv
<1>5. ASSUME NEW m \in Messages, future'[s] = Sending(m), ~Refused(m)
      PROVE  SendInv' /\ BetweenMessages'
    <2>1. LastSegments(future'[s]) /\ Len(future'[s].left) = SegmentCount(Data(future'[s].message))
        BY <1>5, SendingWhole
    <2>2. SegmentCount(Data(future'[s].message)) \in Nat
        BY <1>5, MessagesAssumption, DataTyped, SegmentCountTyped, SendingTyped
    <2>3. ~Begun(s)'
        BY <2>1, <2>2 DEF Begun
    <2>4. \A t \in Senders : future'[t].state = "busy" => LastSegments(future'[t])
        BY <1>1, <2>1
    <2> QED BY <1>1, <1>2, <2>3, <2>4 DEF BetweenMessages, SendInv
<1> QED BY <1>3, <1>4, <1>5

\* A call, a drop, a poll of the stream: one send at most, before its first
\* segment.
LEMMA SendInvCalls ==
    ASSUME Disciplined, SessionTyped, SendInv,
           \/ \E s \in Callers, m \in Messages : CallSend(s, m)
           \/ \E s \in Callers : DropSend(s)
           \/ ReportError
           \/ \E m \in Messages : PollWrite(m)
    PROVE  SendInv' /\ BetweenMessages /\ BetweenMessages'
<1>1. future \in [Senders -> Futures] /\ "stream" \in Senders /\ Callers \subseteq Senders
    BY DEF SessionTyped, SendTyped, Senders
<1>2. ASSUME NEW s \in Senders, ~Idle(s)
      PROVE  \A t \in Senders \ {s} : Idle(t)
    BY <1>2 DEF SendInv
<1>3. ASSUME NEW s \in Callers, NEW m \in Messages, CallSend(s, m)
      PROVE  SendInv' /\ BetweenMessages /\ BetweenMessages'
    <2>1. \A t \in Senders : Idle(t)
        BY <1>3 DEF CallSend, MayBegin
    <2>2. ~Begun(s) /\ s \in Senders
        BY <1>1, <2>1 DEF Begun, Idle
    <2>3. \A t \in Senders \ {s} : future'[t] = future[t]
        BY <1>1, <1>3 DEF CallSend
    <2>4. \/ future'[s].state # "busy"
          \/ future'[s] = Sending(m) /\ ~Refused(m)
        BY <1>1, <1>3, <2>1, <2>2 DEF CallSend, Idle
    <2>5. sent' = sent
        BY <1>3 DEF CallSend
    <2> QED BY <2>1, <2>2, <2>3, <2>4, <2>5, SendInvOutside
<1>4. ASSUME NEW s \in Callers, DropSend(s)
      PROVE  SendInv' /\ BetweenMessages /\ BetweenMessages'
    <2>1. ~Begun(s) /\ ~Idle(s) /\ s \in Senders /\ sent' = sent
        BY <1>1, <1>4 DEF DropSend, Idle
    <2>2. \A t \in Senders \ {s} : future'[t] = future[t]
        BY <1>1, <1>4 DEF DropSend
    <2>3. future'[s].state # "busy"
        BY <1>1, <1>4, <2>1, NoFutureTyped DEF DropSend
    <2> QED BY <1>2, <2>1, <2>2, <2>3, SendInvOutside
<1>5. CASE ReportError
    <2>1. ~Begun("stream") /\ ~Idle("stream") /\ sent' = sent
        BY <1>5 DEF ReportError, Begun, Idle
    <2>2. \A t \in Senders \ {"stream"} : future'[t] = future[t]
        BY <1>1, <1>5 DEF ReportError
    <2>3. future'["stream"].state # "busy"
        BY <1>1, <1>5, NoFutureTyped DEF ReportError
    <2> QED BY <1>1, <1>2, <2>1, <2>2, <2>3, SendInvOutside
<1>6. ASSUME NEW m \in Messages, PollWrite(m)
      PROVE  SendInv' /\ BetweenMessages /\ BetweenMessages'
    <2>1. \A t \in Senders : Idle(t)
        BY <1>6 DEF PollWrite, MayBegin
    <2>2. ~Begun("stream")
        BY <1>1, <2>1 DEF Begun, Idle
    <2>3. \A t \in Senders \ {"stream"} : future'[t] = future[t]
        BY <1>1, <1>6 DEF PollWrite
    <2>4. \/ future'["stream"].state # "busy"
          \/ future'["stream"] = Sending(m) /\ ~Refused(m)
        BY <1>1, <1>6, NoFutureTyped DEF PollWrite
    <2>5. sent' = sent
        BY <1>6 DEF PollWrite
    <2> QED BY <1>1, <2>1, <2>2, <2>3, <2>4, <2>5, SendInvOutside
<1> QED BY <1>3, <1>4, <1>5, <1>6

\* The message under way, of a sender that is busy.
LEMMA BusyMessage ==
    ASSUME SessionTyped, SendInv, NEW s \in Senders, future[s].state = "busy"
    PROVE  LET m == future[s].message
               left == future[s].left
               n == SegmentCount(Data(m))
           IN  /\ m \in Messages /\ m \in Nat /\ Data(m) \in Seq(Marks) /\ Len(Data(m)) = m
               /\ m # 0 => Data(m) \in Whole
               /\ n \in Nat \ {0} /\ left \in Seq(Segments) /\ left # <<>> /\ Len(left) \in 1 .. n
               /\ Head(left) = split_into_segments(Data(m))[n - Len(left) + 1]
               /\ m = 0 => n = 1
<1> DEFINE m == future[s].message
           left == future[s].left
           n == SegmentCount(Data(m))
<1>1. m \in Messages /\ left # <<>> /\ left \in Seq(Segments) /\ LastSegments(future[s])
    BY DEF SessionTyped, SendTyped, SendInv, Futures
<1>2. m \in Nat
    BY <1>1, MessagesAssumption
<1>3. Data(m) \in Seq(Marks) /\ Len(Data(m)) = m
    BY <1>2, DataTyped
<1>4. n \in Nat \ {0}
    BY <1>3, SegmentCountTyped
<1>5. ~TooLarge(Data(m)) /\ Len(left) \in 1 .. n /\ left[1] = split_into_segments(Data(m))[n - Len(left) + 1]
    BY <1>1, <1>4 DEF LastSegments
<1>6. Head(left) = left[1]
    BY <1>1
<1>7. m = 0 => n = 1
    BY <1>2, <1>3, SizeAssumption DEF SegmentCount
<1>8. m # 0 => Data(m) \in Whole
    BY <1>1, <1>5 DEF Whole
<1> QED BY <1>1, <1>2, <1>3, <1>4, <1>5, <1>6, <1>7, <1>8

\* A segment leaves: the rest are the last segments still.
LEMMA SendInvSegment ==
    ASSUME SessionTyped, SendInv, NEW s \in Senders, SendSegment(s)
    PROVE  /\ SendInv'
           /\ \A t \in Senders \ {s} : Idle(t) /\ ~Begun(t) /\ ~Begun(t)'
<1> DEFINE m == future[s].message
           left == future[s].left
           n == SegmentCount(Data(m))
<1>1. future \in [Senders -> Futures] /\ future[s].state = "busy"
    BY DEF SessionTyped, SendTyped, SendSegment
<1>2. \A t \in Senders \ {s} : Idle(t) /\ future'[t] = future[t]
    BY <1>1 DEF SendInv, Idle, SendSegment
<1>3. \A t \in Senders \ {s} : Idle(t)' /\ ~Begun(t) /\ ~Begun(t)' /\ future'[t].state # "busy"
    BY <1>2 DEF Idle, Begun
<1>4. \A t, u \in Senders : ~Idle(t)' /\ ~Idle(u)' => t = u
    BY <1>3
<1>5. /\ m \in Messages /\ n \in Nat \ {0} /\ left \in Seq(Segments) /\ left # <<>>
      /\ Len(left) \in 1 .. n /\ (m # 0 => Data(m) \in Whole) /\ m \in Nat
    BY <1>1, BusyMessage
<1>6. sent' \in Seq(Whole)
    <2>1. sent' = sent \/ (m > 0 /\ sent' = Append(sent, Data(m)))
        BY DEF SendSegment
    <2>2. m > 0 => Data(m) \in Whole
        BY <1>5
    <2>3. sent \in Seq(Whole)
        BY DEF SendInv
    <2> HIDE DEF m
    <2> QED BY <2>1, <2>2, <2>3, AppendProperties
<1>7. future'[s].state = "busy" => LastSegments(future'[s])
    <2> SUFFICES ASSUME future'[s].state = "busy" PROVE LastSegments(future'[s])
        OBVIOUS
    <2>1. open /\ Len(left) # 1 /\ future'[s] = [future[s] EXCEPT !.left = Tail(left)]
        BY <1>1, NoFutureTyped DEF SendSegment
    <2>2. future[s] \in Futures
        BY <1>1
    <2>3. future'[s].left = Tail(left) /\ future'[s].message = m
        BY <2>1, <2>2 DEF Futures
    <2>4. Len(Tail(left)) = Len(left) - 1 /\ \A i \in 1 .. Len(Tail(left)) : Tail(left)[i] = left[i + 1]
        BY <1>5, HeadTailProperties
    <2>5. LastSegments(future[s])
        BY <1>1 DEF SendInv
    <2> DEFINE segments == split_into_segments(Data(m))
               rest == Tail(left)
    <2>6. ~TooLarge(Data(m)) /\ \A i \in 1 .. Len(left) : left[i] = segments[n - Len(left) + i]
        BY <2>5 DEF LastSegments
    <2> HIDE DEF segments, rest, n, left
    <2>7. n \in Nat /\ Len(left) \in Nat /\ Len(rest) = Len(left) - 1 /\ Len(rest) \in 1 .. n
        BY <1>5, <2>1, <2>4 DEF rest
    <2>8. ASSUME NEW i \in 1 .. Len(rest) PROVE rest[i] = segments[n - Len(rest) + i]
        <3>1. i + 1 \in 1 .. Len(left) /\ n - Len(left) + (i + 1) = n - Len(rest) + i
            BY <2>7
        <3>2. rest[i] = left[i + 1]
            BY <2>4 DEF rest
        <3> QED BY <2>6, <3>1, <3>2
    <2> QED BY <2>3, <2>6, <2>7, <2>8 DEF LastSegments, segments, rest, n
<1>8. \A t \in Senders : future'[t].state = "busy" => LastSegments(future'[t])
    BY <1>3, <1>7
<1> QED BY <1>2, <1>3, <1>4, <1>6, <1>8 DEF SendInv

-----------------------------------------------------------------------------
(* From one end to the other *)

\* A position in the stream of segments: p messages whole, and q segments of
\* the next.  Segment g leads from (p, q) to (r, t); one without data, of an
\* empty message, leads nowhere.
Moves(p, q, g, r, t) ==
    \/ ~Decodes(g) /\ r = p /\ t = q
    \/ /\ p < Len(sent) /\ q < SegmentCount(sent[p + 1])
       /\ g = split_into_segments(sent[p + 1])[q + 1]
       /\ IF q + 1 = SegmentCount(sent[p + 1]) THEN r = p + 1 /\ t = 0 ELSE r = p /\ t = q + 1

\* The sender has put the segments up to (p, q) on the data channel.
SenderAt(p, q) ==
    \/ BetweenMessages /\ p = Len(sent) /\ q = 0
    \/ \E s \in Senders :
          /\ Begun(s) /\ p + 1 = Len(sent) /\ sent[p + 1] = Data(future[s].message)
          /\ q = SegmentCount(Data(future[s].message)) - Len(future[s].left)

\* The receiver has handled the segments up to (p, q).
ReceiverAt(p, q) ==
    /\ p = Len(given) + Len(packets) + Len(handing) /\ p <= Len(sent)
    /\ \A i \in 1 .. Len(given) : given[i] = sent[i]
    /\ \A i \in 1 .. Len(packets) : packets[i] = sent[Len(given) + i]
    /\ \A i \in 1 .. Len(handing) : handing[i] = sent[Len(given) + Len(packets) + i]
    /\ \/ q = 0 /\ buffer = EmptyMessage
       \/ p < Len(sent) /\ q < SegmentCount(sent[p + 1]) /\ buffer = Partial(sent[p + 1], q)

\* The segments on their way lead from the receiver's position to the sender's,
\* or to an earlier one once the data channel is closed.
Path(done, part) ==
    /\ ReceiverAt(done[0], part[0])
    /\ \A i \in 1 .. Len(wire) : Moves(done[i - 1], part[i - 1], wire[i], done[i], part[i])
    /\ open => SenderAt(done[Len(wire)], part[Len(wire)])

FlowInv ==
    /\ given \in Seq(Seq(Marks))
    /\ \E done, part \in [0 .. Len(wire) -> Nat] : Path(done, part)

\* A message more sent takes nothing from what was sent before.
LEMMA MovesKept ==
    ASSUME sent \in Seq(Whole), sent' \in Seq(Whole), Len(sent) <= Len(sent'),
           \A i \in 1 .. Len(sent) : sent'[i] = sent[i],
           NEW p \in Nat, NEW q \in Nat, NEW g, NEW r \in Nat, NEW t \in Nat,
           Moves(p, q, g, r, t)
    PROVE  Moves(p, q, g, r, t)'
<1>1. CASE ~Decodes(g) /\ r = p /\ t = q
    BY <1>1 DEF Moves
<1>2. CASE p < Len(sent)
    <2>1. p + 1 \in 1 .. Len(sent) /\ p < Len(sent')
        BY <1>2, LenProperties
    <2>2. sent'[p + 1] = sent[p + 1]
        BY <2>1
    <2> QED BY <2>1, <2>2 DEF Moves
<1> QED BY <1>1, <1>2 DEF Moves

\* The receiver's view of it.
LEMMA ReceiverKept ==
    ASSUME SessionTyped, given \in Seq(Seq(Marks)),
           sent \in Seq(Whole), sent' \in Seq(Whole), Len(sent) <= Len(sent'),
           \A i \in 1 .. Len(sent) : sent'[i] = sent[i],
           UNCHANGED receiveVars,
           NEW p \in Nat, NEW q \in Nat, ReceiverAt(p, q)
    PROVE  ReceiverAt(p, q)'
<1>1. /\ Len(sent) \in Nat /\ Len(sent') \in Nat
      /\ Len(given) \in Nat /\ Len(packets) \in Nat /\ Len(handing) \in Nat
    BY LenProperties DEF SessionTyped, ReceiveTyped
<1>2. /\ given' = given /\ packets' = packets /\ handing' = handing /\ buffer' = buffer
    BY DEF receiveVars
<1>3. /\ p = Len(given) + Len(packets) + Len(handing) /\ p <= Len(sent)
    BY DEF ReceiverAt
<1>4. \A i \in 1 .. Len(given) : given[i] = sent'[i]
    BY <1>1, <1>3 DEF ReceiverAt
<1>5. \A i \in 1 .. Len(packets) : packets[i] = sent'[Len(given) + i]
    BY <1>1, <1>3 DEF ReceiverAt
<1>6. \A i \in 1 .. Len(handing) : handing[i] = sent'[Len(given) + Len(packets) + i]
    BY <1>1, <1>3 DEF ReceiverAt
<1>7. p <= Len(sent')
    BY <1>1, <1>3
<1>8. \/ q = 0 /\ buffer = EmptyMessage
      \/ p < Len(sent') /\ q < SegmentCount(sent'[p + 1]) /\ buffer = Partial(sent'[p + 1], q)
    <2>1. CASE q = 0 /\ buffer = EmptyMessage
        BY <2>1
    <2>2. CASE p < Len(sent) /\ q < SegmentCount(sent[p + 1]) /\ buffer = Partial(sent[p + 1], q)
        <3>1. p + 1 \in 1 .. Len(sent) /\ p < Len(sent')
            BY <1>1, <2>2
        <3>2. sent'[p + 1] = sent[p + 1]
            BY <3>1
        <3> QED BY <2>2, <3>1, <3>2
    <2> QED BY <2>1, <2>2 DEF ReceiverAt
<1> QED BY <1>2, <1>3, <1>4, <1>5, <1>6, <1>7, <1>8 DEF ReceiverAt

\* One more segment leads the sender one further.
LEMMA SenderMoves ==
    ASSUME SessionTyped, SendInv, NEW s \in Senders, SendSegment(s), open,
           NEW p \in Nat, NEW q \in Nat, SenderAt(p, q),
           NEW g, g = Head(future[s].left)
    PROVE  \E r, t \in Nat : Moves(p, q, g, r, t)' /\ SenderAt(r, t)'
<1>0. PICK m, left : m = future[s].message /\ left = future[s].left
    OBVIOUS
<1> DEFINE n == SegmentCount(Data(m))
<1>1. future \in [Senders -> Futures] /\ future[s].state = "busy"
    BY DEF SessionTyped, SendTyped, SendSegment
<1>2. /\ m \in Messages /\ m \in Nat /\ Data(m) \in Seq(Marks) /\ Len(Data(m)) = m
      /\ m # 0 => Data(m) \in Whole
      /\ n \in Nat \ {0} /\ left \in Seq(Segments) /\ left # <<>> /\ Len(left) \in 1 .. n
      /\ g = split_into_segments(Data(m))[n - Len(left) + 1]
      /\ m = 0 => n = 1
    BY <1>0, <1>1, BusyMessage
<1> DEFINE k == Len(left)
<1>20. k \in Nat /\ 1 <= k /\ k <= n /\ n \in Nat
    BY <1>2
<1>3. SendInv' /\ \A t \in Senders \ {s} : ~Begun(t) /\ ~Begun(t)'
    BY SendInvSegment
<1>4. Begun(s) <=> Len(left) < n
    BY <1>0, <1>1 DEF Begun
<1>5. IF Len(left) = 1 THEN BetweenMessages' ELSE
         /\ Begun(s)'
         /\ future'[s].message = m /\ Len(future'[s].left) = Len(left) - 1
    <2>1. CASE Len(left) = 1
        <3>1. future'[s] = NoFuture
            BY <1>0, <1>1, <2>1 DEF SendSegment
        <3>2. ~Begun(s)'
            BY <3>1, NoFutureTyped DEF Begun
        <3> QED BY <1>3, <2>1, <3>2 DEF BetweenMessages
    <2>2. CASE Len(left) # 1
        <3>1. future'[s] = [future[s] EXCEPT !.left = Tail(left)]
            BY <1>0, <1>1, <2>2 DEF SendSegment
        <3>2. future[s] \in Futures
            BY <1>1
        <3>3. future'[s].state = "busy" /\ future'[s].message = m /\ future'[s].left = Tail(left)
            BY <1>0, <1>1, <3>1, <3>2 DEF Futures
        <3>4. Len(Tail(left)) = Len(left) - 1
            BY <1>2, HeadTailProperties
        <3>5. Len(left) - 1 < n
            BY <1>2
        <3> QED BY <2>2, <3>3, <3>4, <3>5 DEF Begun
    <2> QED BY <2>1, <2>2
<1>6. sent \in Seq(Whole) /\ Len(sent) \in Nat
    BY LenProperties DEF SendInv
<1>7. sent' = IF ~Begun(s) /\ m > 0 THEN Append(sent, Data(m)) ELSE sent
    BY <1>0 DEF SendSegment
<1>8. CASE m = 0
    <2>0. n = 1
        BY <1>2, <1>8
    <2> HIDE DEF n
    <2>00. k = 1
        <3> HIDE DEF k
        <3> QED BY <1>20, <2>0
    <2>1. Len(left) = 1 /\ n = 1 /\ ~Begun(s) /\ sent' = sent
        BY <1>4, <1>7, <1>8, <2>0, <2>00
    <2>2. BetweenMessages
        BY <1>3, <2>1 DEF BetweenMessages
    <2>3. p = Len(sent) /\ q = 0
        BY <2>2 DEF SenderAt, BetweenMessages
    <2>4. SenderAt(p, q)'
        BY <1>5, <2>1, <2>3 DEF SenderAt
    <2>5. g = split_into_segments(Data(m))[1]
        BY <1>2, <2>1
    <2>6. g.data = Chunk(Data(m), 1)
        BY <2>1, <2>5 DEF split_into_segments, Segment, n
    <2>7. Len(Chunk(Data(m), 1)) = 0
        <3>1. 1 * MAX_MESSAGE_SIZE = MAX_MESSAGE_SIZE /\ (1 - 1) * MAX_MESSAGE_SIZE + 1 = 1 /\ ~(MAX_MESSAGE_SIZE < 0)
            BY SizeAssumption
        <3>2. Chunk(Data(m), 1) = SubSeq(Data(m), 1, 0)
            BY <1>2, <1>8, <3>1 DEF Chunk
        <3> QED BY <3>2, SubSeqEmpty, EmptySeq
    <2>8. ~Decodes(g)
        BY <2>6, <2>7 DEF Decodes
    <2>9. Moves(p, q, g, p, q)'
        BY <2>8 DEF Moves
    <2> QED BY <2>4, <2>9
<1>9. CASE m # 0
    <2> DEFINE r == IF q + 1 = n THEN p + 1 ELSE p
               t == IF q + 1 = n THEN 0 ELSE q + 1
    <2>1. p + 1 = Len(sent') /\ sent'[p + 1] = Data(m) /\ q = n - Len(left)
        <3>1. CASE Begun(s)
            <4>1. ~BetweenMessages
                BY <3>1 DEF BetweenMessages
            <4>2. PICK u \in Senders : /\ Begun(u) /\ p + 1 = Len(sent) /\ sent[p + 1] = Data(future[u].message)
                                       /\ q = SegmentCount(Data(future[u].message)) - Len(future[u].left)
                BY <4>1 DEF SenderAt
            <4>3. u = s
                BY <1>3, <4>2
            <4>4. sent' = sent
                BY <1>7, <3>1
            <4> QED BY <1>0, <4>2, <4>3, <4>4
        <3>2. CASE ~Begun(s)
            <4>1. BetweenMessages
                BY <1>3, <3>2 DEF BetweenMessages
            <4>2. p = Len(sent) /\ q = 0
                BY <4>1 DEF SenderAt, BetweenMessages
            <4>3. sent' = Append(sent, Data(m))
                BY <1>2, <1>7, <1>9, <3>2
            <4>4. Len(left) = n
                BY <1>20, <1>4, <3>2
            <4>5. Len(sent') = Len(sent) + 1 /\ sent'[Len(sent) + 1] = Data(m)
                BY <1>2, <1>6, <1>9, <4>3, AppendProperties
            <4> QED BY <1>2, <4>2, <4>4, <4>5
        <3> QED BY <3>1, <3>2
    <2>2. r \in Nat /\ t \in Nat
        BY <1>2
    <2>3. p < Len(sent') /\ q < n /\ g = split_into_segments(Data(m))[q + 1]
        BY <1>2, <2>1
    <2> HIDE DEF n
    <2>4. q + 1 = n <=> Len(left) = 1
        <3>1. q = n - k
            BY <2>1
        <3> HIDE DEF k
        <3>2. q + 1 = n <=> k = 1
            BY <1>20, <3>1
        <3> QED BY <3>2 DEF k
    <2>5. Moves(p, q, g, r, t)'
        BY <2>1, <2>3 DEF Moves, n
    <2>6. SenderAt(r, t)'
        <3>1. CASE q + 1 = n
            BY <1>5, <2>1, <2>4, <3>1 DEF SenderAt
        <3>2. CASE q + 1 # n
            <4>1. Begun(s)' /\ future'[s].message = m /\ Len(future'[s].left) = Len(left) - 1
                BY <1>5, <2>4, <3>2
            <4>2. t = n - (Len(left) - 1)
                BY <1>20, <2>1, <3>2
            <4> QED BY <2>1, <3>2, <4>1, <4>2 DEF SenderAt, n
        <3> QED BY <3>1, <3>2
    <2> HIDE DEF r, t
    <2> QED BY <2>2, <2>5, <2>6
<1> QED BY <1>8, <1>9

\* Steps that leave alone what is on its way and both ends' part in it.
LEMMA FlowUnchanged ==
    ASSUME SendInv, FlowInv, UNCHANGED <<future, sent, wire, open, given, packets, handing, buffer>>
    PROVE  SendInv' /\ FlowInv'
<1>1. SendInv'
    BY DEF SendInv, Idle
<1>2. PICK done, part \in [0 .. Len(wire) -> Nat] : Path(done, part)
    BY DEF FlowInv
<1>3. Path(done, part)'
    <2>1. ReceiverAt(done[0], part[0])'
        BY <1>2 DEF Path, ReceiverAt
    <2>2. \A i \in 1 .. Len(wire) : Moves(done[i - 1], part[i - 1], wire[i], done[i], part[i])'
        BY <1>2 DEF Path, Moves
    <2>3. open => SenderAt(done[Len(wire)], part[Len(wire)])'
        BY <1>2 DEF Path, SenderAt, BetweenMessages, Begun
    <2> QED BY <2>1, <2>2, <2>3 DEF Path
<1> QED BY <1>1, <1>2, <1>3 DEF FlowInv

\* Steps of the sender between two messages.
LEMMA FlowCalls ==
    ASSUME FlowInv, BetweenMessages, BetweenMessages',
           UNCHANGED <<sent, wire, open, receiveVars>>
    PROVE  FlowInv'
<1>1. PICK done, part \in [0 .. Len(wire) -> Nat] : Path(done, part)
    BY DEF FlowInv
<1>2. Path(done, part)'
    <2>1. ReceiverAt(done[0], part[0])'
        BY <1>1 DEF Path, ReceiverAt, receiveVars
    <2>2. \A i \in 1 .. Len(wire) : Moves(done[i - 1], part[i - 1], wire[i], done[i], part[i])'
        BY <1>1 DEF Path, Moves
    <2>3. open => SenderAt(done[Len(wire)], part[Len(wire)])'
        BY <1>1 DEF Path, SenderAt, BetweenMessages
    <2> QED BY <2>1, <2>2, <2>3 DEF Path
<1> QED BY <1>1, <1>2 DEF FlowInv, receiveVars

\* A segment of a send.
LEMMA FlowSegment ==
    ASSUME SessionTyped, SendInv, FlowInv, NEW s \in Senders, SendSegment(s)
    PROVE  FlowInv'
<1>1. PICK done, part \in [0 .. Len(wire) -> Nat] : Path(done, part)
    BY DEF FlowInv
<1>2. UNCHANGED receiveVars /\ open' = open /\ given \in Seq(Seq(Marks)) /\ given' = given
    BY DEF SendSegment, receiveVars, FlowInv
<1>3. wire \in Seq(Segments) /\ Len(wire) \in Nat
    BY LenProperties DEF SessionTyped, ChannelTyped
<1>4. CASE ~open
    <2>1. wire' = wire /\ sent' = sent
        BY <1>4 DEF SendSegment
    <2>2. Path(done, part)'
        <3>1. ReceiverAt(done[0], part[0])'
            BY <1>1, <1>2, <2>1 DEF Path, ReceiverAt, receiveVars
        <3>2. \A i \in 1 .. Len(wire) : Moves(done[i - 1], part[i - 1], wire[i], done[i], part[i])'
            BY <1>1, <2>1 DEF Path, Moves
        <3> QED BY <1>2, <1>4, <2>1, <3>1, <3>2 DEF Path
    <2> QED BY <1>2, <2>1, <2>2 DEF FlowInv
<1>5. CASE open
    <2>1. PICK k, g : k = Len(wire) /\ g = Head(future[s].left)
        OBVIOUS
    <2>2. wire' = Append(wire, g)
        BY <1>5, <2>1 DEF SendSegment
    <2>3. g \in Segments
        <3>1. future[s].left \in Seq(Segments) /\ future[s].left # <<>>
            BY DEF SessionTyped, SendTyped, SendSegment, Futures
        <3> QED BY <2>1, <3>1, HeadTailProperties
    <2>4. k \in Nat /\ Len(wire') = k + 1 /\ wire'[k + 1] = g /\ \A i \in 1 .. k : wire'[i] = wire[i]
        BY <1>3, <2>1, <2>2, <2>3, AppendProperties
    <2>5. done \in [0 .. k -> Nat] /\ part \in [0 .. k -> Nat] /\ done[k] \in Nat /\ part[k] \in Nat
        BY <1>1, <2>1, <2>4
    <2>6. SenderAt(done[k], part[k])
        BY <1>1, <1>5, <2>1 DEF Path
    <2>7. PICK r, t \in Nat : Moves(done[k], part[k], g, r, t)' /\ SenderAt(r, t)'
        BY <1>5, <2>1, <2>5, <2>6, SenderMoves
    <2> DEFINE D == [i \in 0 .. k + 1 |-> IF i <= k THEN done[i] ELSE r]
               P == [i \in 0 .. k + 1 |-> IF i <= k THEN part[i] ELSE t]
    <2>8. /\ D \in [0 .. k + 1 -> Nat] /\ P \in [0 .. k + 1 -> Nat]
          /\ \A i \in 0 .. k : D[i] = done[i] /\ P[i] = part[i]
          /\ D[k + 1] = r /\ P[k + 1] = t
        BY <2>4, <2>5
    <2> HIDE DEF D, P
    <2>9. sent \in Seq(Whole) /\ sent' \in Seq(Whole) /\ Len(sent) <= Len(sent')
          /\ \A i \in 1 .. Len(sent) : sent'[i] = sent[i]
        <3>1. sent \in Seq(Whole)
            BY DEF SendInv
        <3>2. PICK d : sent' = sent \/ (d \in Whole /\ sent' = Append(sent, d))
            <4>1. future[s].state = "busy" /\ future[s].message \in Nat
                  /\ (future[s].message # 0 => Data(future[s].message) \in Whole)
                BY BusyMessage DEF SendSegment
            <4> QED BY <1>5, <4>1 DEF SendSegment
        <3>3. CASE sent' = sent
            BY <3>1, <3>3, LenProperties
        <3>4. CASE d \in Whole /\ sent' = Append(sent, d)
            <4>1. Len(sent') = Len(sent) + 1 /\ Len(sent) \in Nat
                BY <3>1, <3>4, AppendProperties, LenProperties
            <4> QED BY <3>1, <3>4, <4>1, AppendProperties
        <3> QED BY <3>2, <3>3, <3>4
    <2>10. ReceiverAt(D[0], P[0])'
        <3>1. D[0] = done[0] /\ P[0] = part[0] /\ done[0] \in Nat /\ part[0] \in Nat
            BY <2>4, <2>5, <2>8
        <3>2. ReceiverAt(done[0], part[0])'
            BY <1>1, <1>2, <2>9, <3>1, ReceiverKept DEF Path
        <3> QED BY <3>1, <3>2
    <2>11. ASSUME NEW i \in 1 .. k + 1
           PROVE  Moves(D[i - 1], P[i - 1], wire[i], D[i], P[i])'
        <3>1. CASE i = k + 1
            <4>1. D[i - 1] = done[k] /\ P[i - 1] = part[k] /\ D[i] = r /\ P[i] = t /\ wire'[i] = g
                BY <2>4, <2>8, <3>1
            <4> QED BY <2>7, <4>1
        <3>2. CASE i # k + 1
            <4>1. i \in 1 .. k /\ i - 1 \in 0 .. k /\ i \in 0 .. k
                BY <2>4, <3>2
            <4>2. /\ D[i - 1] = done[i - 1] /\ P[i - 1] = part[i - 1] /\ D[i] = done[i] /\ P[i] = part[i]
                  /\ done[i - 1] \in Nat /\ part[i - 1] \in Nat /\ done[i] \in Nat /\ part[i] \in Nat
                BY <2>5, <2>8, <4>1
            <4>3. PICK w : w = wire[i] /\ w = wire'[i]
                BY <2>4, <4>1
            <4>4. Moves(done[i - 1], part[i - 1], w, done[i], part[i])
                BY <1>1, <2>1, <4>1, <4>3 DEF Path
            <4>5. Moves(done[i - 1], part[i - 1], w, done[i], part[i])'
                BY <2>9, <4>2, <4>4, MovesKept
            <4> QED BY <4>2, <4>3, <4>5
        <3> QED BY <3>1, <3>2
    <2>12. SenderAt(D[k + 1], P[k + 1])'
        BY <2>7, <2>8
    <2>13. Path(D, P)'
        BY <2>4, <2>10, <2>11, <2>12 DEF Path
    <2> QED BY <1>2, <2>4, <2>8, <2>13 DEF FlowInv
<1> QED BY <1>4, <1>5

\* The data channel closes: a prefix of the path is left.
LEMMA FlowCloseChannel ==
    ASSUME SessionTyped, SendInv, FlowInv, NEW e \in Ends, CloseChannel(e)
    PROVE  SendInv' /\ FlowInv'
<1>1. PICK done, part \in [0 .. Len(wire) -> Nat] : Path(done, part)
    BY DEF FlowInv
<1>2. wire \in Seq(Segments) /\ Len(wire) \in Nat
    BY LenProperties DEF SessionTyped, ChannelTyped
<1>3. PICK n \in 0 .. Len(wire) : wire' = SubSeq(wire, 1, n)
    BY DEF CloseChannel
<1>4. Len(wire') = n /\ \A i \in 1 .. n : wire'[i] = wire[i]
    BY <1>2, <1>3
<1>5. open' = FALSE /\ UNCHANGED <<future, sent, given, packets, handing, buffer>>
    BY DEF CloseChannel, sendVars, receiveVars
<1>6. SendInv'
    BY <1>5 DEF SendInv, Idle
<1> DEFINE D == [i \in 0 .. n |-> done[i]]
           P == [i \in 0 .. n |-> part[i]]
<1>7. /\ D \in [0 .. n -> Nat] /\ P \in [0 .. n -> Nat]
      /\ \A i \in 0 .. n : D[i] = done[i] /\ P[i] = part[i]
    <2>1. \A i \in 0 .. n : i \in 0 .. Len(wire)
        BY <1>2
    <2>2. \A i \in 0 .. n : done[i] \in Nat /\ part[i] \in Nat
        BY <2>1
    <2> QED BY <2>2
<1> HIDE DEF D, P
<1>8. ReceiverAt(D[0], P[0])'
    <2>1. D[0] = done[0] /\ P[0] = part[0]
        BY <1>2, <1>7
    <2> QED BY <1>1, <1>5, <2>1 DEF Path, ReceiverAt
<1>9. ASSUME NEW i \in 1 .. n
      PROVE  Moves(D[i - 1], P[i - 1], wire[i], D[i], P[i])'
    <2>1. i \in 1 .. Len(wire) /\ i \in 0 .. n /\ i - 1 \in 0 .. n
        BY <1>2
    <2>2. /\ D[i - 1] = done[i - 1] /\ P[i - 1] = part[i - 1] /\ D[i] = done[i] /\ P[i] = part[i]
          /\ wire'[i] = wire[i]
        BY <1>4, <1>7, <2>1
    <2>3. Moves(done[i - 1], part[i - 1], wire[i], done[i], part[i])
        BY <1>1, <2>1 DEF Path
    <2> QED BY <1>5, <2>2, <2>3 DEF Moves
<1>10. Path(D, P)'
    BY <1>4, <1>5, <1>8, <1>9 DEF Path
<1> QED BY <1>4, <1>5, <1>6, <1>7, <1>10 DEF FlowInv

\* The handler takes a segment: the receiver moves on.
LEMMA FlowOnMessage ==
    ASSUME SessionTyped, SendInv, FlowInv, OnMessage
    PROVE  FlowInv'
<1>1. PICK done, part \in [0 .. Len(wire) -> Nat] : Path(done, part)
    BY DEF FlowInv
<1>2. PICK k, g : k = Len(wire) /\ g = Head(wire)
    OBVIOUS
<1>3. wire \in Seq(Segments) /\ wire # <<>>
    BY DEF SessionTyped, ChannelTyped, OnMessage
<1>4. k \in Nat \ {0} /\ g = wire[1] /\ Len(wire') = k - 1 /\ \A i \in 1 .. k - 1 : wire'[i] = wire[i + 1]
    BY <1>2, <1>3, HeadTailProperties, EmptySeq DEF OnMessage
<1>5. handing = <<>> /\ UNCHANGED <<future, sent, open, given, packets>>
    BY DEF OnMessage, sendVars
<1>6. done \in [0 .. k -> Nat] /\ part \in [0 .. k -> Nat]
    BY <1>1, <1>2
<1> DEFINE D == [i \in 0 .. k - 1 |-> done[i + 1]]
           P == [i \in 0 .. k - 1 |-> part[i + 1]]
<1>7. /\ D \in [0 .. k - 1 -> Nat] /\ P \in [0 .. k - 1 -> Nat]
      /\ \A i \in 0 .. k - 1 : D[i] = done[i + 1] /\ P[i] = part[i + 1]
    <2>1. \A i \in 0 .. k - 1 : i + 1 \in 0 .. k
        BY <1>4
    <2>2. \A i \in 0 .. k - 1 : done[i + 1] \in Nat /\ part[i + 1] \in Nat
        BY <1>6, <2>1
    <2> QED BY <2>2
<1> HIDE DEF D, P
<1>8. ReceiverAt(D[0], P[0])'
    <2>1. PICK p, q, r, t \in Nat : p = done[0] /\ q = part[0] /\ r = done[1] /\ t = part[1]
        BY <1>4, <1>6
    <2>2. D[0] = r /\ P[0] = t
        BY <1>4, <1>7, <2>1
    <2>3. ReceiverAt(p, q) /\ Moves(p, q, g, r, t)
        <3>1. 1 \in 1 .. Len(wire) /\ 1 - 1 = 0
            BY <1>2, <1>4
        <3> QED BY <1>1, <1>4, <2>1, <3>1 DEF Path
    <2>4. /\ given \in Seq(Seq(Marks)) /\ packets \in Seq(Seq(Marks)) /\ Len(given) \in Nat /\ Len(packets) \in Nat
          /\ sent \in Seq(Whole) /\ Len(sent) \in Nat
        BY LenProperties DEF SessionTyped, ReceiveTyped, FlowInv, SendInv
    <2>5. /\ p = Len(given) + Len(packets) /\ p <= Len(sent)
          /\ \A i \in 1 .. Len(given) : given[i] = sent[i]
          /\ \A i \in 1 .. Len(packets) : packets[i] = sent[Len(given) + i]
        BY <1>5, <2>3, <2>4, EmptySeq DEF ReceiverAt
    <2>6. CASE ~Decodes(g)
        <3>1. r = p /\ t = q
            <4>1. CASE p < Len(sent) /\ q < SegmentCount(sent[p + 1]) /\ g = split_into_segments(sent[p + 1])[q + 1]
                <5>1. sent[p + 1] \in Whole
                    BY <2>4, <4>1, ElementOfSeq
                <5> QED BY <2>6, <4>1, <5>1, AddSegmentInOrder
            <4> QED BY <2>3, <4>1 DEF Moves
        <3>2. buffer' = buffer /\ handing' = handing
            BY <1>2, <2>6 DEF OnMessage
        <3> QED BY <1>5, <2>2, <2>3, <3>1, <3>2 DEF ReceiverAt
    <2>7. CASE Decodes(g)
        <3>1. /\ p < Len(sent) /\ q < SegmentCount(sent[p + 1]) /\ g = split_into_segments(sent[p + 1])[q + 1]
              /\ IF q + 1 = SegmentCount(sent[p + 1]) THEN r = p + 1 /\ t = 0 ELSE r = p /\ t = q + 1
            BY <2>3, <2>7 DEF Moves
        <3>2. PICK d \in Whole : d = sent[p + 1]
            BY <2>4, <3>1, ElementOfSeq
        <3>3. SegmentCount(d) \in Nat
            BY WholeTyped, ModulusAssumption
        <3>4. buffer = Partial(d, q)
            BY <2>3, <3>2 DEF ReceiverAt, Partial
        <3>5. buffer' = AfterSegment(Partial(d, q), g) /\ handing' = Completed(Partial(d, q), g)
            BY <1>2, <2>7, <3>4 DEF OnMessage
        <3>6. CASE q + 1 = SegmentCount(d)
            <4>1. buffer' = EmptyMessage /\ handing' = <<d>> /\ r = p + 1 /\ t = 0
                BY <3>1, <3>2, <3>5, <3>6, AddSegmentInOrder
            <4>2. Len(handing') = 1 /\ handing'[1] = d
                BY <4>1
            <4>3. r = Len(given) + Len(packets) + Len(handing') /\ r <= Len(sent)
                BY <2>4, <2>5, <3>1, <4>1, <4>2
            <4>4. \A i \in 1 .. Len(handing') : handing'[i] = sent[Len(given) + Len(packets) + i]
                <5>1. Len(given) + Len(packets) + 1 = p + 1
                    BY <2>5
                <5> QED BY <3>2, <4>2, <5>1
            <4> QED BY <1>5, <2>2, <2>5, <4>1, <4>3, <4>4 DEF ReceiverAt
        <3>7. CASE q + 1 # SegmentCount(d)
            <4>1. q + 1 < SegmentCount(d)
                BY <3>1, <3>2, <3>3, <3>7
            <4>2. buffer' = Partial(d, q + 1) /\ handing' = <<>> /\ r = p /\ t = q + 1
                BY <3>1, <3>2, <3>5, <3>7, <4>1, AddSegmentInOrder
            <4>3. Len(handing') = 0
                BY <4>2
            <4>4. r = Len(given) + Len(packets) + Len(handing') /\ r <= Len(sent)
                BY <2>4, <2>5, <4>2, <4>3
            <4>5. \A i \in 1 .. Len(handing') : handing'[i] = sent[Len(given) + Len(packets) + i]
                BY <4>3
            <4>6. r < Len(sent) /\ t < SegmentCount(sent[r + 1]) /\ buffer' = Partial(sent[r + 1], t)
                BY <3>1, <3>2, <4>1, <4>2
            <4> QED BY <1>5, <2>2, <2>5, <4>4, <4>5, <4>6 DEF ReceiverAt
        <3> QED BY <3>6, <3>7
    <2> QED BY <2>6, <2>7
<1>9. ASSUME NEW i \in 1 .. k - 1
      PROVE  Moves(D[i - 1], P[i - 1], wire[i], D[i], P[i])'
    <2>1. i + 1 \in 1 .. k /\ i \in 0 .. k - 1 /\ i - 1 \in 0 .. k - 1 /\ (i - 1) + 1 = i /\ (i + 1) - 1 = i
        BY <1>4
    <2>2. /\ D[i - 1] = done[i] /\ P[i - 1] = part[i] /\ D[i] = done[i + 1] /\ P[i] = part[i + 1]
          /\ wire'[i] = wire[i + 1]
        BY <1>4, <1>7, <2>1
    <2>3. Moves(done[i], part[i], wire[i + 1], done[i + 1], part[i + 1])
        BY <1>1, <1>2, <2>1 DEF Path
    <2> QED BY <1>5, <2>2, <2>3 DEF Moves
<1>10. open => SenderAt(D[k - 1], P[k - 1])'
    <2>1. D[k - 1] = done[k] /\ P[k - 1] = part[k]
        <3>1. k - 1 \in 0 .. k - 1 /\ (k - 1) + 1 = k
            BY <1>4
        <3> QED BY <1>7, <3>1
    <2>2. open => SenderAt(done[k], part[k])
        BY <1>1, <1>2 DEF Path
    <2> QED BY <1>5, <2>1, <2>2 DEF SenderAt, BetweenMessages, Begun
<1>11. Path(D, P)'
    BY <1>4, <1>5, <1>8, <1>9, <1>10 DEF Path
<1> QED BY <1>4, <1>5, <1>7, <1>11 DEF FlowInv

\* A message goes to the packet channel, or from there to the reader.
LEMMA FlowTake ==
    ASSUME SessionTyped, SendInv, FlowInv, HandOver \/ RecvReady
    PROVE  FlowInv'
<1>1. PICK done, part \in [0 .. Len(wire) -> Nat] : Path(done, part)
    BY DEF FlowInv
<1>2. UNCHANGED <<future, sent, wire, open, buffer>>
    BY DEF HandOver, RecvReady, sendVars
<1>3. /\ given \in Seq(Seq(Marks)) /\ packets \in Seq(Seq(Marks)) /\ handing \in Seq(Seq(Marks))
      /\ Len(given) \in Nat /\ Len(packets) \in Nat /\ Len(handing) \in Nat
    BY LenProperties DEF SessionTyped, ReceiveTyped, FlowInv
<1>4. PICK p, q : p = done[0] /\ q = part[0]
    OBVIOUS
<1>5. ReceiverAt(p, q)
    BY <1>1, <1>4 DEF Path
<1>6. given' \in Seq(Seq(Marks)) /\ ReceiverAt(p, q)'
    <2>1. CASE HandOver
        <3>1. packets' = packets \o handing /\ handing' = <<>> /\ given' = given
            BY <2>1 DEF HandOver
        <3>2. /\ Len(packets') = Len(packets) + Len(handing)
              /\ \A i \in 1 .. Len(packets) + Len(handing) : packets'[i] =
                    IF i <= Len(packets) THEN packets[i] ELSE handing[i - Len(packets)]
            BY <1>3, <3>1, ConcatProperties
        <3>3. Len(handing') = 0
            BY <3>1
        <3>4. ASSUME NEW i \in 1 .. Len(packets') PROVE packets'[i] = sent[Len(given) + i]
            <4>1. CASE i <= Len(packets)
                <5>1. i \in 1 .. Len(packets)
                    BY <1>3, <3>2, <4>1
                <5> QED BY <1>5, <3>2, <4>1, <5>1 DEF ReceiverAt
            <4>2. CASE ~(i <= Len(packets))
                <5>1. PICK j \in 1 .. Len(handing) : j = i - Len(packets)
                    BY <1>3, <3>2, <4>2
                <5>2. packets'[i] = handing[j]
                    BY <3>2, <4>2, <5>1
                <5>3. Len(given) + Len(packets) + j = Len(given) + i
                    BY <1>3, <3>2, <5>1
                <5>4. handing[j] = sent[Len(given) + Len(packets) + j]
                    BY <1>5 DEF ReceiverAt
                <5> QED BY <5>2, <5>3, <5>4
            <4> QED BY <4>1, <4>2
        <3>5. \A i \in 1 .. Len(handing') : handing'[i] = sent[Len(given) + Len(packets') + i]
            BY <3>3
        <3>6. p = Len(given) + Len(packets') + Len(handing') /\ p <= Len(sent)
            BY <1>3, <1>5, <3>2, <3>3 DEF ReceiverAt
        <3> QED BY <1>2, <1>3, <1>5, <3>1, <3>4, <3>5, <3>6 DEF ReceiverAt
    <2>2. CASE RecvReady
        <3>1. given' = Append(given, Head(packets)) /\ packets' = Tail(packets) /\ handing' = handing /\ packets # <<>>
            BY <2>2 DEF RecvReady
        <3>2. /\ Head(packets) \in Seq(Marks) /\ Head(packets) = packets[1]
              /\ Len(packets) >= 1 /\ Len(packets') = Len(packets) - 1
              /\ \A i \in 1 .. Len(packets') : packets'[i] = packets[i + 1]
            BY <1>3, <3>1, HeadTailProperties, EmptySeq
        <3>3. /\ given' \in Seq(Seq(Marks)) /\ Len(given') = Len(given) + 1 /\ given'[Len(given) + 1] = packets[1]
              /\ \A i \in 1 .. Len(given) : given'[i] = given[i]
            BY <1>3, <3>1, <3>2, AppendProperties
        <3>4. ASSUME NEW i \in 1 .. Len(given') PROVE given'[i] = sent[i]
            <4>1. CASE i = Len(given) + 1
                <5>1. 1 \in 1 .. Len(packets)
                    BY <1>3, <3>2
                <5> QED BY <1>5, <3>3, <4>1, <5>1 DEF ReceiverAt
            <4>2. CASE i # Len(given) + 1
                <5>1. i \in 1 .. Len(given)
                    BY <1>3, <3>3, <4>2
                <5> QED BY <1>5, <3>3, <5>1 DEF ReceiverAt
            <4> QED BY <4>1, <4>2
        <3>5. ASSUME NEW i \in 1 .. Len(packets') PROVE packets'[i] = sent[Len(given') + i]
            <4>1. i + 1 \in 1 .. Len(packets) /\ Len(given) + (i + 1) = Len(given') + i
                BY <1>3, <3>2, <3>3
            <4>2. packets[i + 1] = sent[Len(given) + (i + 1)]
                BY <1>5, <4>1 DEF ReceiverAt
            <4> QED BY <3>2, <4>1, <4>2
        <3>6. \A i \in 1 .. Len(handing) : handing[i] = sent[Len(given') + Len(packets') + i]
            <4>1. Len(given') + Len(packets') = Len(given) + Len(packets)
                BY <1>3, <3>2, <3>3
            <4> QED BY <1>5, <4>1 DEF ReceiverAt
        <3>7. p = Len(given') + Len(packets') + Len(handing) /\ p <= Len(sent)
            BY <1>3, <1>5, <3>2, <3>3 DEF ReceiverAt
        <3> QED BY <1>2, <1>5, <3>1, <3>3, <3>4, <3>5, <3>6, <3>7 DEF ReceiverAt
    <2> QED BY <2>1, <2>2
<1>7. Path(done, part)'
    <2>1. \A i \in 1 .. Len(wire) : Moves(done[i - 1], part[i - 1], wire[i], done[i], part[i])'
        BY <1>1, <1>2 DEF Path, Moves
    <2>2. open => SenderAt(done[Len(wire)], part[Len(wire)])'
        BY <1>1, <1>2 DEF Path, SenderAt, BetweenMessages, Begun
    <2> QED BY <1>2, <1>4, <1>6, <2>1, <2>2 DEF Path
<1> QED BY <1>1, <1>2, <1>6, <1>7 DEF FlowInv

\* Every step keeps the flow.
LEMMA FlowStep ==
    ASSUME Disciplined, SessionTyped, SendInv, FlowInv, [Next]_vars
    PROVE  SendInv' /\ FlowInv'
<1>1. ASSUME NEW s \in Senders, SendSegment(s) PROVE SendInv' /\ FlowInv'
    BY <1>1, SendInvSegment, FlowSegment
<1>2. CASE \/ \E s \in Callers, m \in Messages : CallSend(s, m)
           \/ \E s \in Callers : DropSend(s)
           \/ ReportError
           \/ \E m \in Messages : PollWrite(m)
    <2>1. UNCHANGED <<sent, wire, open, receiveVars>>
        BY <1>2 DEF CallSend, DropSend, ReportError, PollWrite
    <2>2. SendInv' /\ BetweenMessages /\ BetweenMessages'
        BY <1>2, SendInvCalls
    <2> QED BY <2>1, <2>2, FlowCalls
<1>3. CASE PollShutdown \/ (\E e \in Ends : Close(e)) \/ ClosePeer \/ RecvCall \/ UNCHANGED vars
    <2>1. UNCHANGED <<future, sent, wire, open, given, packets, handing, buffer>>
        BY <1>3 DEF PollShutdown, Close, ClosePeer, RecvCall, vars, sendVars, receiveVars
    <2> QED BY <2>1, FlowUnchanged
<1>4. ASSUME NEW e \in Ends, CloseChannel(e) PROVE SendInv' /\ FlowInv'
    BY <1>4, FlowCloseChannel
<1>5. CASE OnMessage \/ HandOver \/ RecvReady
    <2>1. UNCHANGED <<future, sent>>
        BY <1>5 DEF OnMessage, HandOver, RecvReady, sendVars
    <2>2. SendInv'
        BY <2>1 DEF SendInv, Idle
    <2> QED BY <1>5, <2>2, FlowOnMessage, FlowTake
<1> QED BY <1>1, <1>2, <1>3, <1>4, <1>5 DEF Next

\* Nothing is on its way at first.
LEMMA FlowInit ==
    ASSUME Init
    PROVE  SendInv /\ FlowInv
<1>1. \A s \in Senders : future[s] = NoFuture
    BY DEF Init
<1>2. sent = <<>> /\ given = <<>> /\ wire = <<>> /\ handing = <<>> /\ packets = <<>> /\ buffer = EmptyMessage
    BY DEF Init
<1>3. SendInv
    BY <1>1, <1>2, NoFutureTyped, EmptySeq DEF SendInv, Idle
<1>4. BetweenMessages
    BY <1>1, NoFutureTyped DEF BetweenMessages, Begun
<1> DEFINE D == [i \in 0 .. 0 |-> 0]
<1>5. D \in [0 .. 0 -> Nat] /\ D[0] = 0
    OBVIOUS
<1>6. Len(sent) = 0 /\ Len(given) = 0 /\ Len(wire) = 0 /\ Len(handing) = 0 /\ Len(packets) = 0
    BY <1>2
<1> HIDE DEF D
<1>7. ReceiverAt(0, 0)
    BY <1>2, <1>6 DEF ReceiverAt
<1>8. SenderAt(0, 0)
    BY <1>4, <1>6 DEF SenderAt
<1>9. Path(D, D)
    BY <1>5, <1>6, <1>7, <1>8 DEF Path
<1>10. given \in Seq(Seq(Marks))
    BY <1>2, EmptySeq
<1> QED BY <1>3, <1>5, <1>6, <1>9, <1>10 DEF FlowInv

\* What a step does to what was sent and to what was given.
LEMMA ChannelStep ==
    ASSUME SessionTyped, SendInv, FlowInv, [Next]_vars
    PROVE  [MessageChannel!ChannelNext]_(MessageChannel!channelVars)
<1> USE DEF MessageChannel!ChannelNext, MessageChannel!channelVars
<1>1. ASSUME NEW s \in Senders, SendSegment(s)
      PROVE  [MessageChannel!ChannelNext]_(MessageChannel!channelVars)
    <2>1. future[s].state = "busy" /\ given' = given
        BY <1>1 DEF SendSegment, receiveVars
    <2>2. future[s].message \in Messages /\ future[s].message \in Nat
        BY <2>1, BusyMessage
    <2>3. sent' = sent \/ (future[s].message > 0 /\ sent' = Append(sent, Data(future[s].message)))
        BY <1>1 DEF SendSegment
    <2>4. future[s].message > 0 => Data(future[s].message) \in Payload
        BY <2>2 DEF Payload
    <2> QED BY <2>1, <2>3, <2>4 DEF MessageChannel!ChannelSend
<1>2. CASE RecvReady
    <2>1. PICK done, part \in [0 .. Len(wire) -> Nat] : Path(done, part)
        BY DEF FlowInv
    <2>2. given' \in Seq(Seq(Marks)) /\ FlowInv'
        BY <1>2, FlowTake DEF FlowInv
    <2>3. PICK done1, part1 : Path(done1, part1)'
        BY <2>2 DEF FlowInv
    <2>4. sent' = sent /\ sent \in Seq(Whole)
        BY <1>2 DEF RecvReady, sendVars, SendInv
    <2>5. \A i \in 1 .. Len(given') : given'[i] = sent[i]
        BY <2>3, <2>4 DEF Path, ReceiverAt
    <2>6. /\ Len(given) \in Nat /\ Len(given') = Len(given) + 1 /\ Len(sent) \in Nat
          /\ Len(packets') \in Nat /\ Len(handing') \in Nat
        <3>1. given \in Seq(Seq(Marks)) /\ packets \in Seq(Seq(Marks)) /\ handing \in Seq(Seq(Marks)) /\ packets # <<>>
            BY <1>2 DEF FlowInv, SessionTyped, ReceiveTyped, RecvReady
        <3>2. Head(packets) \in Seq(Marks) /\ Tail(packets) \in Seq(Seq(Marks))
            BY <3>1, HeadTailProperties
        <3> QED BY <1>2, <2>4, <3>1, <3>2, AppendProperties, LenProperties DEF RecvReady
    <2>7. Len(given') <= Len(sent)
        <3>1. \E p \in Int : p = Len(given') + Len(packets') + Len(handing') /\ p <= Len(sent)
            BY <2>3, <2>4, <2>6 DEF Path, ReceiverAt
        <3> QED BY <2>6, <3>1
    <2>8. PICK n \in Len(given) + 1 .. Len(sent) : n = Len(given')
        BY <2>6, <2>7
    <2>9. given' = SubSeq(sent, 1, n)
        <3>1. \A i \in 1 .. n : sent[i] \in Seq(Marks)
            BY <2>4, <2>6, <2>8, ElementOfSeq, WholeTyped
        <3>2. /\ SubSeq(sent, 1, n) \in Seq(Seq(Marks)) /\ Len(SubSeq(sent, 1, n)) = n
              /\ \A i \in 1 .. n : SubSeq(sent, 1, n)[i] = sent[i]
            BY <2>6, <2>8, <3>1, SubSeqProperties
        <3> QED BY <2>2, <2>5, <2>8, <3>2, SeqEqual
    <2>10. n \in 1 .. Len(sent)
        BY <2>6, <2>8
    <2> QED BY <2>4, <2>8, <2>9, <2>10 DEF MessageChannel!ChannelGive
<1>3. CASE \/ \E s \in Callers, m \in Messages : CallSend(s, m)
           \/ \E s \in Callers : DropSend(s)
           \/ ReportError
           \/ \E m \in Messages : PollWrite(m)
           \/ PollShutdown
           \/ \E e \in Ends : Close(e)
           \/ \E e \in Ends : CloseChannel(e)
           \/ ClosePeer \/ OnMessage \/ HandOver \/ RecvCall
           \/ UNCHANGED vars
    <2>1. UNCHANGED <<sent, given>>
        BY <1>3 DEF CallSend, DropSend, ReportError, PollWrite, PollShutdown, Close, CloseChannel, ClosePeer,
                    OnMessage, HandOver, RecvCall, vars, sendVars, receiveVars
    <2> QED BY <2>1
<1> QED BY <1>1, <1>2, <1>3 DEF Next

\* The two sessions implement an ordered channel of whole messages, for every
\* set of messages and callers, every segment size and every capacity, when the
\* application keeps its sends apart and drops none that has begun: whatever is
\* closed at whatever moment, recv returns a prefix of what was sent.
THEOREM ImplementsMessageChannelHolds ==
    ASSUME Disciplined
    PROVE  Spec => ImplementsMessageChannel
<1>1. Init => SessionTyped /\ SendInv /\ FlowInv
    BY TypedInit, FlowInit
<1>2. SessionTyped /\ SendInv /\ FlowInv /\ [Next]_vars => (SessionTyped /\ SendInv /\ FlowInv)'
    BY TypedStep, FlowStep
<1>3. Init => MessageChannel!ChannelInit
    BY DEF Init, MessageChannel!ChannelInit
<1>4. SessionTyped /\ SendInv /\ FlowInv /\ [Next]_vars => [MessageChannel!ChannelNext]_(MessageChannel!channelVars)
    BY ChannelStep
<1> QED BY <1>1, <1>2, <1>3, <1>4, PTL DEF Spec, ImplementsMessageChannel, MessageChannel!ChannelSpec

-----------------------------------------------------------------------------
(* A connect: the types of signals, packets, clients and peer connections *)

\* The candidates of both ends, the signals, and the packets.
Found == ({0} \cup Offers) \X Candidates
Signals ==
    {s \in [type : {"None", "Offer", "Answer", "Candidate"}, data : {0} \cup Offers \cup Found] :
        /\ s.type = "Answer" => s.data \in Offers
        /\ s.type = "Candidate" => s.data \in Found}
Packets == [to : Nodes, id : {"request", "response", "message"}, content : Signals]

Clients ==
    [at : {"new", "local", "offered", "opening", "ice"} \cup Returned, gathering : SUBSET Candidates,
     remote : {0} \cup Offers, pending : SUBSET Found, task : {"none", "running", "cancelled"},
     added : SUBSET Found]

Peers ==
    [at : {"none", "registered", "answered", "armed", "failed"}, gathering : SUBSET Candidates,
     remote : BOOLEAN, inbox : Seq(Signals), task : {"none", "running", "ended"},
     added : SUBSET Found, refused : SUBSET Found, channels : {"none", "ready", "lost"},
     queue : {"none", "candidate", "channels", "done"}]

LanTyped ==
    /\ net \subseteq Packets
    /\ address \in [Nodes -> {"none", "fresh", "old"}]
    /\ signals \in [Nodes -> Seq(Signals)]
    /\ \A n \in Nodes : Len(signals[n]) <= SignalCapacity
    /\ incidents \in 0 .. MaxIncidents

PeersTyped ==
    /\ peer \in [Offers -> Peers]
    /\ handling \in {0} \cup Offers /\ dispatcher \in {0} \cup Offers /\ notifier \in {0} \cup Offers
    /\ incoming \in Seq(Offers)

ClientTyped == client \in Clients /\ ice \in {"new", "connected", "failed"}

NegotiationTyped == LanTyped /\ PeersTyped /\ ClientTyped

\* How far the listener is with the offer of peer connection k: nothing of it
\* is there before it begins; while it is handled the loop does not dispatch;
\* once it is answered its description is set; and only an armed one is queued.
Stage(k) ==
    /\ peer[k].at = "none" => peer[k].task = "none" /\ dispatcher # k
    /\ peer[k].at \in {"registered", "answered"} => handling = k
    /\ peer[k].at = "registered" => peer[k].inbox = <<>>
    /\ peer[k].at \in {"answered", "armed"} => peer[k].remote
    /\ peer[k].refused # {} => peer[k].at = "failed" /\ ~peer[k].remote
    /\ peer[k].queue \in {"candidate", "channels"} => peer[k].at = "armed"

\* Sessions queued are of offers that were answered.
QueuedAnswered == \A i \in 1 .. Len(incoming) : Answered(incoming[i])

StageInv == (\A k \in Offers : Stage(k)) /\ QueuedAnswered

\* The client has no candidate task, and no candidate with WebRTC, before it has
\* the answer's description.
ClientWaits ==
    client.remote = 0 => client.added = {} /\ client.task = "none" /\ client.at \notin {"opening", "ice"}

\* What keeps the session of peer connection k from being stranded: its first
\* candidate has taken its notifier from the map; arming starts the task that
\* queues; and that task ends with the session queued.
Awake(k) ==
    /\ peer[k].added # {} => notifier # k
    /\ peer[k].at = "armed" => peer[k].queue # "none"
    /\ peer[k].queue = "done" => dropped \/ \E i \in 1 .. Len(incoming) : incoming[i] = k

\* The last step of the task that queues: by a timer, or with both channels.
Queues(k) ==
    /\ peer[k].queue \in {"candidate", "channels"}
    /\ peer' = [peer EXCEPT ![k].queue = "done"]
    /\ incoming' = Queued(k)
    /\ UNCHANGED <<lanVars, client, handling, dispatcher, notifier, ice, dropped>>

-----------------------------------------------------------------------------
(* Signals *)

\* The signals of both ends, in packets.
LEMMA SignalsTyped ==
    /\ None \in Signals /\ Signal("Offer", 0) \in Signals
    /\ \A k \in Offers : Signal("Answer", k) \in Signals
    /\ \A k \in {0} \cup Offers, c \in Candidates : CandidateOf(k, c) \in Signals
BY DEF None, Signal, Signals, CandidateOf, Found

\* Packets that carry them.
LEMMA PacketsTyped ==
    /\ RequestPacket \in Packets
    /\ \A n \in Nodes : ResponsePacket(n) \in Packets
    /\ \A n \in Nodes, s \in Signals : MessagePacket(n, s) \in Packets
BY SignalsTyped DEF RequestPacket, ResponsePacket, MessagePacket, Packet, Packets, Nodes

\* signal() puts a packet on the network.
LEMMA SignalledTyped ==
    ASSUME net \subseteq Packets, NEW n \in Nodes, NEW s \in Signals
    PROVE  Signalled(n, s) \subseteq Packets
<1>1. Other(n) \in Nodes
    BY DEF Other, Nodes
<1> QED BY <1>1, PacketsTyped DEF Signalled

\* The broadcast channel keeps its capacity: the oldest signal gives way.
LEMMA BroadcastTyped ==
    ASSUME LanTyped, NEW n \in Nodes, NEW s \in Signals
    PROVE  Broadcast(n, s) \in Seq(Signals) /\ Len(Broadcast(n, s)) <= SignalCapacity
<1> DEFINE q == signals[n]
<1>1. q \in Seq(Signals) /\ Len(q) \in Nat /\ Len(q) <= SignalCapacity /\ SignalCapacity \in Nat \ {0}
    BY LenProperties, SignalCapacityAssumption DEF LanTyped
<1>2. Append(q, s) \in Seq(Signals) /\ Len(Append(q, s)) = Len(q) + 1
    BY <1>1, AppendProperties
<1>3. CASE ~subscribed[n]
    BY <1>1, <1>3 DEF Broadcast
<1>4. CASE subscribed[n] /\ Len(q) < SignalCapacity
    <2>1. Broadcast(n, s) = Append(q, s)
        BY <1>4 DEF Broadcast
    <2>2. Len(Append(q, s)) <= SignalCapacity
        BY <1>1, <1>2, <1>4
    <2> QED BY <1>2, <2>1, <2>2
<1>5. CASE subscribed[n] /\ ~(Len(q) < SignalCapacity)
    <2>1. Broadcast(n, s) = Append(Tail(q), s)
        BY <1>5 DEF Broadcast
    <2>2. q # <<>>
        BY <1>1, <1>5, EmptySeq
    <2>3. Tail(q) \in Seq(Signals) /\ Len(Tail(q)) = Len(q) - 1
        BY <1>1, <2>2, HeadTailProperties
    <2>4. Append(Tail(q), s) \in Seq(Signals) /\ Len(Append(Tail(q), s)) = Len(q) - 1 + 1
        BY <2>3, AppendProperties
    <2>5. Len(q) - 1 + 1 <= SignalCapacity
        BY <1>1
    <2> QED BY <2>1, <2>4, <2>5
<1> QED BY <1>3, <1>4, <1>5

\* A subscriber takes its oldest signal.
LEMMA TakeTyped ==
    ASSUME LanTyped, NEW n \in Nodes, signals[n] # <<>>,
           signals' = [signals EXCEPT ![n] = Tail(@)]
    PROVE  /\ Head(signals[n]) \in Signals
           /\ signals' \in [Nodes -> Seq(Signals)]
           /\ \A m \in Nodes : Len(signals'[m]) <= SignalCapacity
<1>1. signals \in [Nodes -> Seq(Signals)] /\ signals[n] \in Seq(Signals) /\ Len(signals[n]) \in Nat
    BY LenProperties DEF LanTyped
<1>2. /\ Head(signals[n]) \in Signals /\ Tail(signals[n]) \in Seq(Signals)
      /\ Len(Tail(signals[n])) = Len(signals[n]) - 1
    BY <1>1, HeadTailProperties
<1>3. Len(signals[n]) - 1 <= SignalCapacity
    BY <1>1, SignalCapacityAssumption DEF LanTyped
<1> QED BY <1>1, <1>2, <1>3 DEF LanTyped

-----------------------------------------------------------------------------
(* Types *)

\* A handled packet.
LEMMA HandleTyped ==
    ASSUME LanTyped, NEW p \in net, HandlePacket(p)
    PROVE  /\ address' \in [Nodes -> {"none", "fresh", "old"}]
           /\ signals' \in [Nodes -> Seq(Signals)]
           /\ \A n \in Nodes : Len(signals'[n]) <= SignalCapacity
           /\ Answers(p) \subseteq Packets
<1>1. p \in Packets /\ p.to \in Nodes /\ p.content \in Signals
    BY DEF LanTyped, Packets
<1>2. address' \in [Nodes -> {"none", "fresh", "old"}]
    BY <1>1 DEF LanTyped, HandlePacket
<1>3. Broadcast(p.to, p.content) \in Seq(Signals) /\ Len(Broadcast(p.to, p.content)) <= SignalCapacity
    BY <1>1, BroadcastTyped
<1>4. signals' \in [Nodes -> Seq(Signals)] /\ \A n \in Nodes : Len(signals'[n]) <= SignalCapacity
    <2>1. CASE p.id = "message"
        <3>1. signals' = [signals EXCEPT ![p.to] = Broadcast(p.to, p.content)]
            BY <2>1 DEF HandlePacket
        <3> QED BY <1>1, <1>3, <3>1 DEF LanTyped
    <2>2. CASE p.id # "message"
        BY <2>2 DEF HandlePacket, LanTyped
    <2> QED BY <2>1, <2>2
<1>5. Answers(p) \subseteq Packets
    <2>1. Other(p.to) \in Nodes
        BY DEF Other, Nodes
    <2> QED BY <2>1, PacketsTyped DEF Answers
<1> QED BY <1>2, <1>4, <1>5

\* The signalling alone keeps its types.
LEMMA LanStepTyped ==
    ASSUME LanTyped, LanStep
    PROVE  LanTyped'
<1>1. ASSUME Incident PROVE incidents' \in 0 .. MaxIncidents
    BY <1>1, BoundsAssumption DEF LanTyped, Incident
<1>2. ASSUME NEW p \in net, Deliver(p) PROVE LanTyped'
    <2>1. HandlePacket(p) /\ net' = (net \ {p}) \cup Answers(p) /\ incidents' = incidents
        BY <1>2 DEF Deliver
    <2> QED BY <2>1, HandleTyped DEF LanTyped
<1>3. ASSUME NEW p \in net, Duplicate(p) PROVE LanTyped'
    <2>1. HandlePacket(p) /\ net' = net \cup Answers(p) /\ Incident
        BY <1>3 DEF Duplicate
    <2> QED BY <1>1, <2>1, HandleTyped DEF LanTyped
<1>4. ASSUME NEW p \in net, Lose(p) PROVE LanTyped'
    <2>1. Incident
        BY <1>4 DEF Lose
    <2> QED BY <1>1, <1>4, <2>1 DEF LanTyped, Lose
<1>5. CASE ClientInterval
    BY <1>5, PacketsTyped DEF LanTyped, ClientInterval, Nodes
<1>6. CASE ServerInterval
    BY <1>6 DEF LanTyped, ServerInterval, Nodes
<1>7. ASSUME NEW n \in Nodes, Age(n) PROVE LanTyped'
    <2>1. Incident
        BY <1>7 DEF Age
    <2> QED BY <1>1, <1>7, <2>1 DEF LanTyped, Age
<1>8. CASE set_pong_data
    <2>1. Incident
        BY <1>8 DEF set_pong_data
    <2> QED BY <1>1, <1>8, <2>1 DEF LanTyped, set_pong_data
<1> QED BY <1>2, <1>3, <1>4, <1>5, <1>6, <1>7, <1>8 DEF LanStep

\* The client.
LEMMA ClientNextTyped ==
    ASSUME NegotiationTyped, ClientNext
    PROVE  LanTyped' /\ ClientTyped'
<1> USE DEF NegotiationTyped
<1>1. client \in Clients /\ ice \in {"new", "connected", "failed"}
    BY DEF ClientTyped
<1>2. CASE SetLocalDescription
    <2>1. client' \in Clients
        BY <1>1, <1>2 DEF SetLocalDescription, Clients
    <2> QED BY <1>1, <1>2, <2>1 DEF SetLocalDescription, ClientTyped, LanTyped, lanVars
<1>3. ASSUME NEW c \in Candidates, ClientCandidate(c) PROVE LanTyped' /\ ClientTyped'
    <2>1. client' \in Clients
        BY <1>1, <1>3 DEF ClientCandidate, Clients
    <2>2. net' \subseteq Packets
        <3>1. "client" \in Nodes /\ CandidateOf(0, c) \in Signals /\ net \subseteq Packets
            BY SignalsTyped DEF Nodes, LanTyped
        <3> QED BY <1>3, <3>1, SignalledTyped DEF ClientCandidate
    <2> QED BY <1>1, <1>3, <2>1, <2>2 DEF ClientCandidate, ClientTyped, LanTyped
<1>4. CASE ClientOffer
    <2>1. client' \in Clients
        BY <1>1, <1>4 DEF ClientOffer, Clients, Returned
    <2>2. net' \subseteq Packets
        <3>1. "client" \in Nodes /\ Signal("Offer", 0) \in Signals /\ net \subseteq Packets
            BY SignalsTyped DEF Nodes, LanTyped
        <3> QED BY <1>4, <3>1, SignalledTyped DEF ClientOffer
    <2> QED BY <1>1, <1>4, <2>1, <2>2 DEF ClientOffer, ClientTyped, LanTyped
<1>5. CASE ClientSignal
    <2>1. "client" \in Nodes /\ signals["client"] # <<>> /\ signals' = [signals EXCEPT !["client"] = Tail(@)]
        BY <1>5 DEF ClientSignal, Nodes
    <2>2. PICK s \in Signals : s = Head(signals["client"])
        BY <2>1, TakeTyped
    <2>3. client' = AfterSignal(s)
        BY <1>5, <2>2 DEF ClientSignal
    <2>4. client' \in Clients
        <3>1. CASE s.type = "Answer"
            <4>1. s.data \in Offers
                BY <3>1 DEF Signals
            <4>2. client' = [client EXCEPT !.at = "opening", !.remote = s.data, !.task = "running",
                                           !.added = @ \cup client.pending, !.pending = {}]
                BY <2>3, <3>1 DEF AfterSignal
            <4> QED BY <1>1, <4>1, <4>2 DEF Clients
        <3>2. CASE s.type = "Candidate"
            <4>1. s.data \in Found
                BY <3>2 DEF Signals
            <4>2. client' = [client EXCEPT !.pending = @ \cup {s.data}]
                BY <2>3, <3>2 DEF AfterSignal
            <4> QED BY <1>1, <4>1, <4>2 DEF Clients
        <3>3. CASE s.type # "Answer" /\ s.type # "Candidate"
            BY <1>1, <2>3, <3>3 DEF AfterSignal
        <3> QED BY <3>1, <3>2, <3>3
    <2>5. LanTyped'
        BY <1>5, <2>1, TakeTyped DEF ClientSignal, LanTyped
    <2> QED BY <1>1, <1>5, <2>4, <2>5 DEF ClientSignal, ClientTyped
<1>6. CASE ClientCandidateTask
    <2>1. "client" \in Nodes /\ signals["client"] # <<>> /\ signals' = [signals EXCEPT !["client"] = Tail(@)]
        BY <1>6 DEF ClientCandidateTask, Nodes
    <2>2. PICK s \in Signals : s = Head(signals["client"])
        BY <2>1, TakeTyped
    <2>3. client' = IF s.type = "Candidate" THEN [client EXCEPT !.added = @ \cup {s.data}] ELSE client
        BY <1>6, <2>2 DEF ClientCandidateTask
    <2>4. client' \in Clients
        <3>1. s.type = "Candidate" => s.data \in Found
            BY DEF Signals
        <3> QED BY <1>1, <2>3, <3>1 DEF Clients
    <2>5. LanTyped'
        BY <1>6, <2>1, TakeTyped DEF ClientCandidateTask, LanTyped
    <2> QED BY <1>1, <1>6, <2>4, <2>5 DEF ClientCandidateTask, ClientTyped
<1>7. CASE ClientChannelsOpen
    <2>1. client' \in Clients
        BY <1>1, <1>7 DEF ClientChannelsOpen, Clients, Returned
    <2> QED BY <1>1, <1>7, <2>1 DEF ClientChannelsOpen, ClientTyped, LanTyped, lanVars
<1>8. CASE ClientIceWait
    <2>1. client' \in Clients
        BY <1>1, <1>8 DEF ClientIceWait, Clients, Returned
    <2>2. LanTyped'
        BY <1>8, EmptySeq, SignalCapacityAssumption DEF ClientIceWait, Unsubscribe, LanTyped, Nodes
    <2> QED BY <1>1, <1>8, <2>1, <2>2 DEF ClientIceWait, ClientTyped
<1>9. CASE ConnectFails
    <2>1. client' \in Clients
        BY <1>1, <1>9 DEF ConnectFails, Clients, Returned
    <2>2. incidents' \in 0 .. MaxIncidents
        BY <1>9, BoundsAssumption DEF ConnectFails, Incident, LanTyped
    <2>3. LanTyped'
        BY <1>9, <2>2, EmptySeq, SignalCapacityAssumption DEF ConnectFails, Unsubscribe, LanTyped, Nodes
    <2> QED BY <1>1, <1>9, <2>1, <2>3 DEF ConnectFails, ClientTyped
<1> QED BY <1>2, <1>3, <1>4, <1>5, <1>6, <1>7, <1>8, <1>9 DEF ClientNext

\* Its three last steps have the same effect.
LEMMA QueueSteps ==
    ASSUME NEW k \in Offers, CandidateTimeout(k) \/ ChannelsReady(k) \/ ChannelsTimeout(k)
    PROVE  Queues(k)
BY DEF Queues, CandidateTimeout, ChannelsReady, ChannelsTimeout

\* The loop of the listener takes a signal.
LEMMA LoopTyped ==
    ASSUME NegotiationTyped, Dispatch \/ \E k \in Offers : BeginOffer(k)
    PROVE  LanTyped' /\ PeersTyped'
<1> USE DEF NegotiationTyped
<1>1. "server" \in Nodes /\ signals["server"] # <<>> /\ signals' = [signals EXCEPT !["server"] = Tail(@)]
    BY DEF Dispatch, BeginOffer, Nodes
<1>2. PICK s \in Signals : s = Head(signals["server"])
    BY <1>1, TakeTyped
<1>3. LanTyped'
    BY <1>1, TakeTyped DEF Dispatch, BeginOffer, LanTyped
<1>4. ASSUME NEW k \in Offers, BeginOffer(k) PROVE PeersTyped'
    <2>1. [NoPeer EXCEPT !.at = "registered", !.task = "running"] \in Peers
        BY EmptySeq DEF NoPeer, Peers
    <2> QED BY <1>4, <2>1 DEF BeginOffer, PeersTyped
<1>5. CASE Dispatch
    <2>1. CASE dispatcher = 0
        BY <1>3, <1>5, <2>1 DEF Dispatch, PeersTyped
    <2>2. CASE dispatcher # 0
        <3>1. PICK d \in Offers : d = dispatcher
            BY <2>2 DEF PeersTyped
        <3>2. peer[d] \in Peers /\ peer[d].inbox \in Seq(Signals)
            BY DEF PeersTyped, Peers
        <3>3. Append(peer[d].inbox, s) \in Seq(Signals)
            BY <3>2, AppendProperties
        <3>4. peer' = [peer EXCEPT ![d] = [peer[d] EXCEPT !.inbox = Append(peer[d].inbox, s)]]
            BY <1>2, <1>5, <2>2, <3>1 DEF Dispatch
        <3>5. [peer[d] EXCEPT !.inbox = Append(peer[d].inbox, s)] \in Peers
            BY <3>2, <3>3 DEF Peers
        <3> QED BY <1>3, <1>5, <3>4, <3>5 DEF Dispatch, PeersTyped
    <2> QED BY <2>1, <2>2
<1> QED BY <1>3, <1>4, <1>5

\* The steps of handle_offer and of the tasks of a peer connection.
LEMMA OfferTyped ==
    ASSUME NegotiationTyped, NEW k \in Offers,
           \/ Answer(k) \/ FailOffer(k) \/ Arm(k) \/ \E c \in Candidates : ServerCandidate(k, c)
           \/ ServerCandidateTask(k) \/ ServerCandidateTaskEnds(k) \/ FirstCandidate(k) \/ Queues(k)
           \/ PeerGone(k) \/ DataChannels(k)
    PROVE  LanTyped' /\ PeersTyped'
<1> USE DEF NegotiationTyped
<1>1. /\ peer \in [Offers -> Peers] /\ peer[k] \in Peers
      /\ handling \in {0} \cup Offers /\ dispatcher \in {0} \cup Offers /\ notifier \in {0} \cup Offers
      /\ incoming \in Seq(Offers)
    BY DEF PeersTyped
<1>2. "server" \in Nodes /\ net \subseteq Packets
    BY DEF Nodes, LanTyped
<1>3. CASE Answer(k)
    <2>1. net' \subseteq Packets
        BY <1>2, <1>3, SignalsTyped, SignalledTyped DEF Answer
    <2>2. PICK at \in {"answered", "failed"} :
             peer' = [peer EXCEPT ![k] = [peer[k] EXCEPT !.at = at, !.remote = TRUE, !.gathering = Candidates]]
        BY <1>1, <1>3 DEF Answer, Peers
    <2>3. [peer[k] EXCEPT !.at = at, !.remote = TRUE, !.gathering = Candidates] \in Peers
        BY <1>1 DEF Peers
    <2> QED BY <1>1, <1>3, <2>1, <2>2, <2>3 DEF Answer, LanTyped, PeersTyped
<1>4. CASE FailOffer(k)
    <2>0. PICK described \in BOOLEAN : peer' = [peer EXCEPT ![k].at = "failed", ![k].remote = described]
        BY <1>4 DEF FailOffer
    <2>1. peer' = [peer EXCEPT ![k] = [peer[k] EXCEPT !.at = "failed", !.remote = described]]
        BY <1>1, <2>0
    <2>2. [peer[k] EXCEPT !.at = "failed", !.remote = described] \in Peers
        BY <1>1 DEF Peers
    <2>3. incidents' \in 0 .. MaxIncidents
        BY <1>4, BoundsAssumption DEF FailOffer, Incident, LanTyped
    <2>4. LanTyped'
        BY <1>4, <2>3 DEF FailOffer, LanTyped
    <2>5. handling' = 0 /\ UNCHANGED <<dispatcher, notifier, incoming>>
        BY <1>4 DEF FailOffer
    <2>6. PeersTyped'
        BY <1>1, <2>1, <2>2, <2>5 DEF PeersTyped
    <2> QED BY <2>4, <2>6
<1>5. CASE Arm(k)
    <2>1. peer' = [peer EXCEPT ![k] = [peer[k] EXCEPT !.at = "armed", !.queue = "candidate"]]
        BY <1>1, <1>5 DEF Arm, Peers
    <2>2. [peer[k] EXCEPT !.at = "armed", !.queue = "candidate"] \in Peers
        BY <1>1 DEF Peers
    <2> QED BY <1>1, <1>5, <2>1, <2>2 DEF Arm, LanTyped, PeersTyped, lanVars
<1>6. ASSUME NEW c \in Candidates, ServerCandidate(k, c) PROVE LanTyped' /\ PeersTyped'
    <2>1. net' \subseteq Packets
        BY <1>2, <1>6, SignalsTyped, SignalledTyped DEF ServerCandidate
    <2>2. peer' = [peer EXCEPT ![k] = [peer[k] EXCEPT !.gathering = peer[k].gathering \ {c}]]
        BY <1>1, <1>6 DEF ServerCandidate, Peers
    <2>3. [peer[k] EXCEPT !.gathering = peer[k].gathering \ {c}] \in Peers
        BY <1>1 DEF Peers
    <2> QED BY <1>1, <1>6, <2>1, <2>2, <2>3 DEF ServerCandidate, LanTyped, PeersTyped
<1>7. CASE ServerCandidateTask(k)
    <2>1. peer[k].inbox \in Seq(Signals) /\ peer[k].inbox # <<>>
        BY <1>1, <1>7 DEF ServerCandidateTask, Peers
    <2>2. PICK s \in Signals, tail \in Seq(Signals) : s = Head(peer[k].inbox) /\ tail = Tail(peer[k].inbox)
        BY <2>1, HeadTailProperties
    <2> DEFINE rest == [peer[k] EXCEPT !.inbox = tail]
    <2>3. rest \in Peers
        BY <1>1 DEF Peers
    <2>4. s.type = "Candidate" => s.data \in Found
        BY DEF Signals
    <2>5. \/ peer' = [peer EXCEPT ![k] = rest]
          \/ s.type = "Candidate" /\ peer' = [peer EXCEPT ![k] = [rest EXCEPT !.added = @ \cup {s.data}]]
          \/ s.type = "Candidate" /\ peer' = [peer EXCEPT ![k] = [rest EXCEPT !.refused = @ \cup {s.data}]]
        BY <1>7, <2>2 DEF ServerCandidateTask
    <2>6. s.type = "Candidate" => /\ [rest EXCEPT !.added = @ \cup {s.data}] \in Peers
                                  /\ [rest EXCEPT !.refused = @ \cup {s.data}] \in Peers
        <3> HIDE DEF rest
        <3> QED BY <2>3, <2>4 DEF Peers
    <2> HIDE DEF rest
    <2>7. peer' \in [Offers -> Peers]
        BY <1>1, <2>3, <2>5, <2>6
    <2>8. notifier' \in {0} \cup Offers
        BY <1>1, <1>7 DEF ServerCandidateTask
    <2> QED BY <1>1, <1>7, <2>7, <2>8 DEF ServerCandidateTask, LanTyped, PeersTyped, lanVars
<1>8. CASE ServerCandidateTaskEnds(k)
    <2>1. peer' = [peer EXCEPT ![k] = [peer[k] EXCEPT !.task = "ended"]]
        BY <1>1, <1>8 DEF ServerCandidateTaskEnds, Peers
    <2>2. [peer[k] EXCEPT !.task = "ended"] \in Peers
        BY <1>1 DEF Peers
    <2> QED BY <1>1, <1>8, <2>1, <2>2 DEF ServerCandidateTaskEnds, LanTyped, PeersTyped, lanVars
<1>9. CASE Queues(k)
    <2>1. peer' = [peer EXCEPT ![k] = [peer[k] EXCEPT !.queue = "done"]]
        BY <1>1, <1>9 DEF Queues, Peers
    <2>2. [peer[k] EXCEPT !.queue = "done"] \in Peers
        BY <1>1 DEF Peers
    <2>3. incoming' \in Seq(Offers)
        BY <1>1, <1>9, AppendProperties DEF Queues, Queued
    <2> QED BY <1>1, <1>9, <2>1, <2>2, <2>3 DEF Queues, LanTyped, PeersTyped, lanVars
<1>10. CASE PeerGone(k)
    BY <1>1, <1>10 DEF PeerGone, LanTyped, PeersTyped, lanVars
<1>11. CASE DataChannels(k)
    <2>1. PICK channels \in {"ready", "lost"} : peer' = [peer EXCEPT ![k] = [peer[k] EXCEPT !.channels = channels]]
        BY <1>1, <1>11 DEF DataChannels, Peers
    <2>2. [peer[k] EXCEPT !.channels = channels] \in Peers
        BY <1>1 DEF Peers
    <2>3. peer' \in [Offers -> Peers]
        BY <1>1, <2>1, <2>2
    <2>4. UNCHANGED <<lanVars, handling, dispatcher, notifier, incoming>>
        BY <1>11 DEF DataChannels
    <2> QED BY <2>3, <2>4 DEF LanTyped, PeersTyped, lanVars
<1>12. CASE FirstCandidate(k)
    <2>1. peer' = [peer EXCEPT ![k] = [peer[k] EXCEPT !.queue = "channels"]]
        BY <1>1, <1>12 DEF FirstCandidate, Peers
    <2>2. [peer[k] EXCEPT !.queue = "channels"] \in Peers
        BY <1>1 DEF Peers
    <2> QED BY <1>1, <1>12, <2>1, <2>2 DEF FirstCandidate, LanTyped, PeersTyped, lanVars
<1> QED BY <1>3, <1>4, <1>5, <1>6, <1>7, <1>8, <1>9, <1>10, <1>11, <1>12

\* Every step keeps the types.
LEMMA NegotiationTypedStep == NegotiationTyped /\ [NegotiationNext]_allVars => NegotiationTyped'
<1> SUFFICES ASSUME NegotiationTyped, [NegotiationNext]_allVars PROVE NegotiationTyped'
    OBVIOUS
<1> USE DEF NegotiationTyped
<1>1. CASE LanStep /\ UNCHANGED negotiationVars
    BY <1>1, LanStepTyped DEF negotiationVars, PeersTyped, ClientTyped
<1>2. CASE ClientNext
    <2>1. UNCHANGED <<peer, handling, dispatcher, notifier, incoming>>
        BY <1>2 DEF ClientNext, SetLocalDescription, ClientCandidate, ClientOffer, ClientSignal,
                    ConnectFails, ClientCandidateTask, ClientChannelsOpen, ClientIceWait
    <2> QED BY <1>2, <2>1, ClientNextTyped DEF PeersTyped
<1>3. CASE ListenerStart
    BY <1>3 DEF ListenerStart, negotiationVars, LanTyped, PeersTyped, ClientTyped
<1>4. CASE DropListener
    <2>1. incidents' \in 0 .. MaxIncidents
        BY <1>4, BoundsAssumption DEF DropListener, Incident, LanTyped
    <2> QED BY <1>4, <2>1, EmptySeq DEF DropListener, LanTyped, PeersTyped, ClientTyped
<1>5. CASE Dispatch \/ \E k \in Offers : BeginOffer(k)
    <2>1. UNCHANGED <<client, ice>>
        BY <1>5 DEF Dispatch, BeginOffer
    <2> QED BY <1>5, <2>1, LoopTyped DEF ClientTyped
<1>6. ASSUME NEW k \in Offers,
             \/ Answer(k) \/ FailOffer(k) \/ Arm(k) \/ \E c \in Candidates : ServerCandidate(k, c)
             \/ ServerCandidateTask(k) \/ ServerCandidateTaskEnds(k) \/ FirstCandidate(k) \/ Queues(k)
             \/ PeerGone(k) \/ DataChannels(k)
      PROVE  NegotiationTyped'
    <2>1. UNCHANGED <<client, ice>>
        BY <1>6 DEF Answer, FailOffer, Arm, ServerCandidate, ServerCandidateTask, ServerCandidateTaskEnds,
                    FirstCandidate, Queues, PeerGone, DataChannels
    <2>2. LanTyped' /\ PeersTyped'
        BY <1>6, OfferTyped
    <2> QED BY <2>1, <2>2 DEF ClientTyped
<1>7. CASE IceConnect \/ IceFail
    BY <1>7 DEF IceConnect, IceFail, lanVars, LanTyped, PeersTyped, ClientTyped
<1>8. CASE UNCHANGED allVars
    BY <1>8 DEF allVars, lanVars, negotiationVars, LanTyped, PeersTyped, ClientTyped
<1>9. CASE RejectOffer
    <2>1. "server" \in Nodes /\ signals["server"] # <<>> /\ signals' = [signals EXCEPT !["server"] = Tail(@)]
        BY <1>9 DEF RejectOffer, Nodes
    <2>2. incidents' \in 0 .. MaxIncidents
        BY <1>9, BoundsAssumption DEF RejectOffer, Incident, LanTyped
    <2>3. LanTyped'
        BY <1>9, <2>1, <2>2, TakeTyped DEF RejectOffer, LanTyped
    <2> QED BY <1>9, <2>3 DEF RejectOffer, negotiationVars, PeersTyped, ClientTyped
<1> QED BY <1>1, <1>2, <1>3, <1>4, <1>5, <1>6, <1>7, <1>8, <1>9, QueueSteps
        DEF NegotiationNext, ListenerNext, WebRtcNext

\* The initial state is within the types and before any offer.
LEMMA NegotiationStarts ==
    NegotiationInit => NegotiationTyped /\ StageInv /\ ClientWaits /\ \A k \in Offers : Awake(k)
<1> SUFFICES ASSUME NegotiationInit
             PROVE  NegotiationTyped /\ StageInv /\ ClientWaits /\ \A k \in Offers : Awake(k)
    OBVIOUS
<1>1. NoPeer \in Peers
    BY EmptySeq DEF NoPeer, Peers
<1>2. NoClient \in Clients
    BY DEF NoClient, Clients
<1>3. PeersTyped /\ ClientTyped
    BY <1>1, <1>2, EmptySeq DEF NegotiationInit, PeersTyped, ClientTyped
<1>4. LanTyped
    BY EmptySeq, BoundsAssumption, SignalCapacityAssumption DEF NegotiationInit, LanInit, LanTyped
<1>5. \A k \in Offers : Stage(k)
    BY DEF NegotiationInit, Stage, NoPeer, Offers
<1>6. QueuedAnswered
    BY EmptySeq DEF NegotiationInit, QueuedAnswered
<1>7. ClientWaits /\ \A k \in Offers : Awake(k)
    BY DEF NegotiationInit, ClientWaits, Awake, NoClient, NoPeer
<1> QED BY <1>3, <1>4, <1>5, <1>6, <1>7 DEF NegotiationTyped, StageInv

\* The types and the stages give the type invariant that the run checks.
LEMMA NegotiationTypedTypeOK == NegotiationTyped /\ StageInv => NegotiationTypeOK
<1> SUFFICES ASSUME NegotiationTyped, StageInv PROVE NegotiationTypeOK
    OBVIOUS
<1>1. \A n \in Nodes : Len(signals[n]) <= SignalCapacity /\ address[n] \in {"none", "fresh", "old"}
    BY DEF NegotiationTyped, LanTyped
<1>2. /\ client.at \in {"new", "local", "offered", "opening", "ice"} \cup Returned
      /\ client.remote \in {0} \cup Offers
    BY DEF NegotiationTyped, ClientTyped, Clients
<1>3. \A k \in Offers : peer[k].at \in {"none", "registered", "answered", "armed", "failed"}
    BY DEF NegotiationTyped, PeersTyped, Peers
<1>4. \A k \in Range(incoming) : Answered(k)
    <2>1. incoming \in Seq(Offers)
        BY DEF NegotiationTyped, PeersTyped
    <2> QED BY <2>1, LenProperties DEF StageInv, QueuedAnswered, Range
<1> QED BY <1>1, <1>2, <1>3, <1>4 DEF NegotiationTypeOK, NegotiationTyped, LanTyped, PeersTyped, ClientTyped

-----------------------------------------------------------------------------
(* Stages *)

\* What the loop and its owner read of the peer connections is left alone.
LEMMA StageUnchanged ==
    ASSUME StageInv, UNCHANGED <<peer, handling, dispatcher, incoming>>
    PROVE  StageInv'
BY DEF StageInv, Stage, QueuedAnswered, Answered

\* A step of one peer connection: enough is that its own stage is kept, that an
\* offer answered stays so, and that the others find the loop's state as before.
LEMMA StageOfOne ==
    ASSUME NegotiationTyped, StageInv, NEW k \in Offers,
           \A j \in Offers \ {k} : peer'[j] = peer[j],
           Stage(k)', Answered(k) => Answered(k)',
           handling' = handling \/ handling = k \/ handling = 0,
           handling' \in {handling, 0, k}, dispatcher' \in {dispatcher, 0, k},
           incoming' = incoming
    PROVE  StageInv'
<1>1. ASSUME NEW j \in Offers, j # k PROVE Stage(j)'
    <2>1. peer'[j] = peer[j] /\ Stage(j)
        BY <1>1 DEF StageInv
    <2>2. j # 0
        BY DEF Offers
    <2>3. handling = j => handling' = j
        BY <1>1, <2>2
    <2>4. dispatcher # j => dispatcher' # j
        BY <1>1, <2>2
    <2> QED BY <2>1, <2>3, <2>4 DEF Stage
<1>2. \A j \in Offers : Answered(j) => Answered(j)'
    BY DEF Answered
<1>3. QueuedAnswered'
    <2>1. \A i \in 1 .. Len(incoming) : incoming[i] \in Offers
        BY ElementOfSeq DEF NegotiationTyped, PeersTyped
    <2> QED BY <1>2, <2>1 DEF StageInv, QueuedAnswered
<1> QED BY <1>1, <1>3 DEF StageInv

\* The loop: an offer begins, or a signal goes to a peer connection whose offer
\* is no longer being handled.
LEMMA StageLoop ==
    ASSUME NegotiationTyped, StageInv, Dispatch \/ \E k \in Offers : BeginOffer(k)
    PROVE  StageInv'
<1>1. peer \in [Offers -> Peers] /\ handling = 0
    BY DEF NegotiationTyped, PeersTyped, Dispatch, BeginOffer, LoopFree
<1>2. ASSUME NEW k \in Offers, BeginOffer(k) PROVE StageInv'
    <2>1. peer'[k] = [NoPeer EXCEPT !.at = "registered", !.task = "running"] /\ peer[k].at = "none"
        BY <1>1, <1>2 DEF BeginOffer
    <2>2. Stage(k)' /\ ~Answered(k)
        <3>1. /\ peer'[k].at = "registered" /\ peer'[k].inbox = <<>> /\ peer'[k].refused = {}
              /\ peer'[k].queue = "none"
            BY <2>1 DEF NoPeer
        <3>2. handling' = k
            BY <1>2 DEF BeginOffer
        <3> QED BY <2>1, <3>1, <3>2 DEF Stage, Answered
    <2>3. \A j \in Offers \ {k} : peer'[j] = peer[j]
        BY <1>1, <1>2 DEF BeginOffer
    <2> QED BY <1>1, <1>2, <2>2, <2>3, StageOfOne DEF BeginOffer
<1>3. CASE Dispatch /\ dispatcher = 0
    <2>1. UNCHANGED <<peer, handling, dispatcher, incoming>>
        BY <1>3 DEF Dispatch
    <2> QED BY <2>1, StageUnchanged
<1>4. CASE Dispatch /\ dispatcher # 0
    <2>1. PICK d \in Offers : d = dispatcher
        BY <1>4 DEF NegotiationTyped, PeersTyped
    <2>2. peer[d] \in Peers /\ peer' = [peer EXCEPT ![d].inbox = Append(@, Head(signals["server"]))]
        BY <1>1, <1>4, <2>1 DEF Dispatch
    <2>3. /\ peer'[d].at = peer[d].at /\ peer'[d].task = peer[d].task /\ peer'[d].remote = peer[d].remote
          /\ peer'[d].refused = peer[d].refused /\ peer'[d].queue = peer[d].queue
        BY <1>1, <2>2 DEF Peers
    <2>4. UNCHANGED <<handling, dispatcher, incoming>>
        BY <1>4 DEF Dispatch
    <2>5. d # 0 /\ Stage(d)
        BY DEF Offers, StageInv
    <2>6. peer[d].at \notin {"registered", "answered"}
        BY <1>1, <2>5 DEF Stage
    <2>7. Stage(d)' /\ (Answered(d) => Answered(d)')
        BY <2>3, <2>4, <2>5, <2>6 DEF Stage, Answered
    <2>8. \A j \in Offers \ {d} : peer'[j] = peer[j]
        BY <1>1, <2>2
    <2> QED BY <2>4, <2>7, <2>8, StageOfOne
<1> QED BY <1>2, <1>3, <1>4

\* The steps of handle_offer.
LEMMA StageOffer ==
    ASSUME NegotiationTyped, StageInv, NEW k \in Offers, Answer(k) \/ FailOffer(k) \/ Arm(k)
    PROVE  StageInv'
<1>1. peer \in [Offers -> Peers] /\ peer[k] \in Peers /\ Stage(k)
    BY DEF NegotiationTyped, PeersTyped, StageInv
<1>2. \A j \in Offers \ {k} : peer'[j] = peer[j]
    BY <1>1 DEF Answer, FailOffer, Arm
<1>3. dispatcher' = dispatcher /\ incoming' = incoming
    BY DEF Answer, FailOffer, Arm
<1>4. handling = k /\ handling' \in {handling, 0}
    BY <1>1 DEF Answer, FailOffer, Arm, Stage
<1>5. Stage(k)' /\ (Answered(k) => Answered(k)')
    <2>1. CASE Answer(k)
        <3>1. /\ peer'[k].refused = peer[k].refused /\ peer'[k].queue = peer[k].queue
              /\ peer'[k].remote = TRUE
              /\ \/ peer'[k].at = "answered" /\ handling' = handling
                 \/ peer'[k].at = "failed"
            BY <1>1, <2>1 DEF Answer, Peers
        <3>2. peer[k].at = "registered"
            BY <2>1 DEF Answer
        <3> QED BY <1>1, <1>3, <1>4, <3>1, <3>2 DEF Stage, Answered
    <2>2. CASE FailOffer(k)
        <3>1. PICK described \in BOOLEAN : peer' = [peer EXCEPT ![k].at = "failed", ![k].remote = described]
            BY <2>2 DEF FailOffer
        <3>2. peer'[k].queue = peer[k].queue /\ peer'[k].at = "failed" /\ peer'[k].refused = peer[k].refused
            BY <1>1, <3>1 DEF Peers
        <3>3. peer[k].at = "registered"
            BY <2>2 DEF FailOffer
        <3> QED BY <1>1, <3>2, <3>3 DEF Stage, Answered
    <2>3. CASE Arm(k)
        <3>1. /\ peer'[k].refused = peer[k].refused /\ peer'[k].at = "armed"
              /\ peer'[k].remote = peer[k].remote
            BY <1>1, <2>3 DEF Arm, Peers
        <3>2. peer[k].at = "answered"
            BY <2>3 DEF Arm
        <3> QED BY <1>1, <3>1, <3>2 DEF Stage, Answered
    <2> QED BY <2>1, <2>2, <2>3
<1> QED BY <1>2, <1>3, <1>4, <1>5, StageOfOne

\* The tasks of a peer connection, and what WebRTC tells of it.
LEMMA StageTasks ==
    ASSUME NegotiationTyped, StageInv, NEW k \in Offers,
           \/ \E c \in Candidates : ServerCandidate(k, c)
           \/ ServerCandidateTask(k) \/ ServerCandidateTaskEnds(k) \/ FirstCandidate(k)
           \/ PeerGone(k) \/ DataChannels(k)
    PROVE  StageInv'
<1>1. peer \in [Offers -> Peers] /\ peer[k] \in Peers /\ Stage(k) /\ k # 0
    BY DEF NegotiationTyped, PeersTyped, StageInv, Offers
<1>2. \A j \in Offers \ {k} : peer'[j] = peer[j]
    BY <1>1 DEF ServerCandidate, ServerCandidateTask, ServerCandidateTaskEnds, FirstCandidate, PeerGone,
                DataChannels
<1>3. handling' = handling /\ incoming' = incoming /\ dispatcher' \in {dispatcher, 0}
    BY DEF ServerCandidate, ServerCandidateTask, ServerCandidateTaskEnds, FirstCandidate, PeerGone,
                DataChannels
<1>4. Stage(k)' /\ (Answered(k) => Answered(k)')
    <2>1. ASSUME NEW c \in Candidates, ServerCandidate(k, c) PROVE Stage(k)' /\ (Answered(k) => Answered(k)')
        <3>1. /\ peer'[k].at = peer[k].at /\ peer'[k].task = peer[k].task /\ peer'[k].remote = peer[k].remote
              /\ peer'[k].refused = peer[k].refused /\ peer'[k].queue = peer[k].queue
              /\ peer'[k].inbox = peer[k].inbox
            BY <1>1, <2>1 DEF ServerCandidate, Peers
        <3> QED BY <1>1, <1>3, <3>1 DEF Stage, Answered
    <2>2. CASE ServerCandidateTask(k)
        <3>1. PICK s, tail : s = Head(peer[k].inbox) /\ tail = Tail(peer[k].inbox)
            OBVIOUS
        <3> DEFINE rest == [peer[k] EXCEPT !.inbox = tail]
        <3>2. /\ peer[k].task = "running" /\ peer[k].inbox # <<>> /\ dispatcher' = dispatcher
              /\ \/ peer' = [peer EXCEPT ![k] = rest]
                 \/ peer' = [peer EXCEPT ![k] = [rest EXCEPT !.added = @ \cup {s.data}]]
                 \/ ~peer[k].remote /\ peer' = [peer EXCEPT ![k] = [rest EXCEPT !.refused = @ \cup {s.data}]]
            BY <2>2, <3>1 DEF ServerCandidateTask
        <3>3. /\ rest.at = peer[k].at /\ rest.task = peer[k].task /\ rest.remote = peer[k].remote
              /\ rest.refused = peer[k].refused /\ rest.queue = peer[k].queue
            BY <1>1 DEF Peers
        <3>4. rest \in [at : {"none", "registered", "answered", "armed", "failed"}, gathering : SUBSET Candidates,
                        remote : BOOLEAN, inbox : {tail}, task : {"none", "running", "ended"},
                        added : SUBSET Found, refused : SUBSET Found, channels : {"none", "ready", "lost"},
                        queue : {"none", "candidate", "channels", "done"}]
            BY <1>1 DEF Peers
        <3> HIDE DEF rest
        <3>5. /\ peer'[k].at = peer[k].at /\ peer'[k].task = peer[k].task /\ peer'[k].remote = peer[k].remote
              /\ peer'[k].queue = peer[k].queue
              /\ peer'[k].refused = peer[k].refused \/ ~peer[k].remote
            BY <1>1, <3>2, <3>3, <3>4
        <3>6. peer[k].at \in {"answered", "armed", "failed"}
            BY <1>1, <3>2 DEF Stage, Peers
        <3> QED BY <1>1, <1>3, <3>2, <3>5, <3>6 DEF Stage, Answered
    <2>3. CASE ServerCandidateTaskEnds(k)
        <3>1. /\ peer'[k].at = peer[k].at /\ peer'[k].remote = peer[k].remote
              /\ peer'[k].refused = peer[k].refused /\ peer'[k].queue = peer[k].queue
              /\ peer'[k].inbox = peer[k].inbox /\ peer[k].task = "running"
            BY <1>1, <2>3 DEF ServerCandidateTaskEnds, Peers
        <3> QED BY <1>1, <1>3, <3>1 DEF Stage, Answered
    <2>4. CASE PeerGone(k)
        <3>1. peer' = peer
            BY <2>4 DEF PeerGone
        <3> QED BY <1>1, <1>3, <3>1 DEF Stage, Answered
    <2>5. CASE DataChannels(k)
        <3>1. /\ peer'[k].at = peer[k].at /\ peer'[k].task = peer[k].task /\ peer'[k].remote = peer[k].remote
              /\ peer'[k].refused = peer[k].refused /\ peer'[k].queue = peer[k].queue
              /\ peer'[k].inbox = peer[k].inbox
            BY <1>1, <2>5 DEF DataChannels, Peers
        <3> QED BY <1>1, <1>3, <3>1 DEF Stage, Answered
    <2>6. CASE FirstCandidate(k)
        <3>1. /\ peer'[k].at = peer[k].at /\ peer'[k].task = peer[k].task /\ peer'[k].remote = peer[k].remote
              /\ peer'[k].refused = peer[k].refused /\ peer[k].queue = "candidate"
              /\ peer'[k].inbox = peer[k].inbox
            BY <1>1, <2>6 DEF FirstCandidate, Peers
        <3> QED BY <1>1, <1>3, <3>1 DEF Stage, Answered
    <2> QED BY <2>1, <2>2, <2>3, <2>4, <2>5, <2>6
<1> QED BY <1>2, <1>3, <1>4, StageOfOne

\* Queueing a session, and dropping the listener with its queue.
LEMMA StageQueue ==
    ASSUME NegotiationTyped, StageInv, DropListener \/ \E k \in Offers : Queues(k)
    PROVE  StageInv'
<1>1. peer \in [Offers -> Peers] /\ incoming \in Seq(Offers)
    BY DEF NegotiationTyped, PeersTyped
<1>2. CASE DropListener
    <2>1. incoming' = <<>> /\ UNCHANGED <<peer, handling, dispatcher>>
        BY <1>2 DEF DropListener
    <2>2. QueuedAnswered'
        BY <2>1, EmptySeq DEF QueuedAnswered
    <2> QED BY <2>1, <2>2 DEF StageInv, Stage
<1>3. ASSUME NEW k \in Offers, Queues(k) PROVE StageInv'
    <2>1. peer[k] \in Peers /\ Stage(k) /\ peer[k].queue \in {"candidate", "channels"}
        BY <1>1, <1>3 DEF Queues, StageInv
    <2>2. peer' = [peer EXCEPT ![k].queue = "done"] /\ UNCHANGED <<handling, dispatcher>>
        BY <1>3 DEF Queues
    <2>3. /\ peer'[k].at = peer[k].at /\ peer'[k].task = peer[k].task /\ peer'[k].remote = peer[k].remote
          /\ peer'[k].refused = peer[k].refused /\ peer'[k].queue = "done" /\ peer'[k].inbox = peer[k].inbox
        BY <1>1, <2>1, <2>2 DEF Peers
    <2>4. Stage(k)'
        BY <2>1, <2>2, <2>3 DEF Stage
    <2>5. \A j \in Offers \ {k} : peer'[j] = peer[j]
        BY <1>1, <2>2
    <2>6. \A j \in Offers : Stage(j)'
        BY <2>2, <2>4, <2>5 DEF StageInv, Stage
    <2>7. \A j \in Offers : Answered(j) => Answered(j)'
        BY <2>3, <2>5 DEF Answered
    <2>8. Answered(k)'
        BY <2>1, <2>3 DEF Stage, Answered
    <2>9. QueuedAnswered'
        <3>1. \A i \in 1 .. Len(incoming) : incoming[i] \in Offers
            BY <1>1, ElementOfSeq
        <3>2. CASE incoming' = incoming
            BY <2>7, <3>1, <3>2 DEF StageInv, QueuedAnswered
        <3>3. CASE incoming' = Append(incoming, k)
            <4>1. /\ Len(incoming) \in Nat /\ Len(incoming') = Len(incoming) + 1 /\ incoming'[Len(incoming) + 1] = k
                  /\ \A i \in 1 .. Len(incoming) : incoming'[i] = incoming[i]
                BY <1>1, <3>3, AppendProperties, LenProperties
            <4>2. ASSUME NEW i \in 1 .. Len(incoming') PROVE Answered(incoming[i])'
                <5>1. CASE i = Len(incoming) + 1
                    BY <2>8, <4>1, <5>1 DEF Answered
                <5>2. CASE i # Len(incoming) + 1
                    <6>1. i \in 1 .. Len(incoming)
                        BY <4>1, <5>2
                    <6>2. PICK j \in Offers : j = incoming[i] /\ j = incoming'[i]
                        BY <3>1, <4>1, <6>1
                    <6>3. Answered(j)
                        BY <6>1, <6>2 DEF StageInv, QueuedAnswered
                    <6> QED BY <2>7, <6>2, <6>3 DEF Answered
                <5> QED BY <5>1, <5>2
            <4> QED BY <4>2 DEF QueuedAnswered
        <3> QED BY <1>3, <3>2, <3>3 DEF Queues, Queued
    <2> QED BY <2>6, <2>9 DEF StageInv
<1> QED BY <1>2, <1>3

\* Every step keeps the stages.
LEMMA StageStep == NegotiationTyped /\ StageInv /\ [NegotiationNext]_allVars => StageInv'
<1> SUFFICES ASSUME NegotiationTyped, StageInv, [NegotiationNext]_allVars PROVE StageInv'
    OBVIOUS
<1>1. CASE \/ LanStep /\ UNCHANGED negotiationVars
           \/ ClientNext \/ ListenerStart \/ RejectOffer \/ IceConnect \/ IceFail
           \/ UNCHANGED allVars
    <2>1. UNCHANGED <<peer, handling, dispatcher, incoming>>
        BY <1>1 DEF negotiationVars, allVars, ClientNext, SetLocalDescription, ClientCandidate, ClientOffer, ClientSignal,
                    ConnectFails, ClientCandidateTask, ClientChannelsOpen, ClientIceWait, ListenerStart,
                    RejectOffer, IceConnect, IceFail
    <2> QED BY <2>1, StageUnchanged
<1>2. CASE Dispatch \/ \E k \in Offers : BeginOffer(k)
    BY <1>2, StageLoop
<1>3. ASSUME NEW k \in Offers, Answer(k) \/ FailOffer(k) \/ Arm(k) PROVE StageInv'
    BY <1>3, StageOffer
<1>4. ASSUME NEW k \in Offers,
             \/ \E c \in Candidates : ServerCandidate(k, c)
             \/ ServerCandidateTask(k) \/ ServerCandidateTaskEnds(k) \/ FirstCandidate(k)
             \/ PeerGone(k) \/ DataChannels(k)
      PROVE  StageInv'
    BY <1>4, StageTasks
<1>5. CASE DropListener \/ \E k \in Offers : Queues(k)
    BY <1>5, StageQueue
<1> QED BY <1>1, <1>2, <1>3, <1>4, <1>5, QueueSteps DEF NegotiationNext, ListenerNext, WebRtcNext

\* The client gives WebRTC no candidate before the answer's description.
LEMMA ClientWaitsStep == NegotiationTyped /\ ClientWaits /\ [NegotiationNext]_allVars => ClientWaits'
<1> SUFFICES ASSUME NegotiationTyped, ClientWaits, [NegotiationNext]_allVars PROVE ClientWaits'
    OBVIOUS
<1>1. client \in Clients
    BY DEF NegotiationTyped, ClientTyped
<1>2. CASE client' = client
    BY <1>2 DEF ClientWaits
<1>3. CASE ClientSignal
    <2>1. "client" \in Nodes /\ signals["client"] # <<>> /\ client.at = "offered"
          /\ signals' = [signals EXCEPT !["client"] = Tail(@)]
        BY <1>3 DEF ClientSignal, Nodes
    <2>2. PICK s \in Signals : s = Head(signals["client"])
        BY <2>1, TakeTyped DEF NegotiationTyped
    <2>3. client' = AfterSignal(s)
        BY <1>3, <2>2 DEF ClientSignal
    <2>4. CASE s.type = "Answer"
        <3>1. s.data \in Offers /\ s.data # 0
            BY <2>4 DEF Signals, Offers
        <3>2. client'.remote = s.data
            BY <1>1, <2>3, <2>4 DEF AfterSignal, Clients
        <3> QED BY <3>1, <3>2 DEF ClientWaits
    <2>5. CASE s.type # "Answer"
        <3>1. /\ client'.remote = client.remote /\ client'.added = client.added
              /\ client'.task = client.task /\ client'.at = client.at
            BY <1>1, <2>3, <2>5 DEF AfterSignal, Clients
        <3> QED BY <3>1 DEF ClientWaits
    <2> QED BY <2>4, <2>5
<1>4. CASE ClientCandidateTask \/ ClientChannelsOpen \/ ClientIceWait
    <2>1. client.remote # 0
        BY <1>4 DEF ClientWaits, ClientCandidateTask, ClientChannelsOpen, ClientIceWait
    <2>2. client'.remote = client.remote
        BY <1>1, <1>4 DEF Clients, ClientCandidateTask, ClientChannelsOpen, ClientIceWait
    <2> QED BY <2>1, <2>2 DEF ClientWaits
<1>5. CASE SetLocalDescription \/ (\E c \in Candidates : ClientCandidate(c)) \/ ClientOffer \/ ConnectFails
    <2>1. /\ client'.remote = client.remote /\ client'.added = client.added /\ client'.task = client.task
          /\ client'.at \in {client.at, "local", "offered", "error"}
        BY <1>1, <1>5 DEF Clients, SetLocalDescription, ClientCandidate, ClientOffer, ConnectFails
    <2> QED BY <2>1 DEF ClientWaits
<1>6. CASE ListenerNext \/ WebRtcNext
    <2>1. ASSUME NEW k \in Offers,
                 \/ BeginOffer(k) \/ Answer(k) \/ FailOffer(k) \/ Arm(k) \/ FirstCandidate(k) \/ Queues(k)
                 \/ ServerCandidateTask(k) \/ ServerCandidateTaskEnds(k) \/ PeerGone(k) \/ DataChannels(k)
          PROVE  client' = client
        BY <2>1 DEF BeginOffer, Answer, FailOffer, Arm, FirstCandidate, Queues, ServerCandidateTask,
                    ServerCandidateTaskEnds, PeerGone, DataChannels
    <2>2. ASSUME NEW k \in Offers, NEW c \in Candidates, ServerCandidate(k, c) PROVE client' = client
        BY <2>2 DEF ServerCandidate
    <2>3. CASE ListenerStart \/ Dispatch \/ RejectOffer \/ DropListener \/ IceConnect \/ IceFail
        BY <1>2, <2>3 DEF ListenerStart, Dispatch, RejectOffer, DropListener, IceConnect, IceFail, negotiationVars
    <2> QED BY <1>2, <1>6, <2>1, <2>2, <2>3, QueueSteps DEF ListenerNext, WebRtcNext
<1>7. CASE (LanStep /\ UNCHANGED negotiationVars) \/ UNCHANGED allVars
    BY <1>2, <1>7 DEF negotiationVars, allVars
<1> QED BY <1>3, <1>4, <1>5, <1>6, <1>7 DEF NegotiationNext, ClientNext

\* No step strands a session.
LEMMA AwakeStep ==
    NegotiationTyped /\ (\A k \in Offers : Awake(k)) /\ [NegotiationNext]_allVars => (\A k \in Offers : Awake(k))'
<1> SUFFICES ASSUME NegotiationTyped, \A k \in Offers : Awake(k), [NegotiationNext]_allVars, NEW j \in Offers
             PROVE  Awake(j)'
    OBVIOUS
<1>1. /\ peer \in [Offers -> Peers] /\ peer[j] \in Peers /\ incoming \in Seq(Offers)
      /\ j # 0 /\ Awake(j)
    BY DEF NegotiationTyped, PeersTyped, Offers
<1>2. ASSUME notifier' \in {notifier, 0}, peer'[j].added = peer[j].added, peer'[j].at = peer[j].at,
             peer'[j].queue = peer[j].queue, UNCHANGED <<incoming, dropped>>
      PROVE  Awake(j)'
    BY <1>1, <1>2 DEF Awake
<1>3. CASE \/ LanStep /\ UNCHANGED negotiationVars
           \/ ClientNext \/ ListenerStart \/ RejectOffer \/ IceConnect \/ IceFail
           \/ \E k \in Offers : PeerGone(k)
           \/ UNCHANGED allVars
    <2>1. UNCHANGED <<peer, notifier, incoming, dropped>>
        BY <1>3 DEF negotiationVars, allVars, ClientNext, SetLocalDescription, ClientCandidate, ClientOffer, ClientSignal,
                    ConnectFails, ClientCandidateTask, ClientChannelsOpen, ClientIceWait, ListenerStart,
                    RejectOffer, IceConnect, IceFail, PeerGone
    <2> QED BY <1>2, <2>1
<1>4. ASSUME NEW k \in Offers, BeginOffer(k) PROVE Awake(j)'
    <2>1. notifier' = k /\ UNCHANGED <<incoming, dropped>>
          /\ peer' = [peer EXCEPT ![k] = [NoPeer EXCEPT !.at = "registered", !.task = "running"]]
        BY <1>4 DEF BeginOffer
    <2>2. CASE j = k
        <3>1. peer'[j].added = {} /\ peer'[j].at = "registered" /\ peer'[j].queue = "none"
            BY <1>1, <2>1, <2>2 DEF NoPeer
        <3> QED BY <3>1 DEF Awake
    <2>3. CASE j # k
        <3>1. peer'[j] = peer[j]
            BY <1>1, <2>1, <2>3
        <3> QED BY <1>1, <2>1, <2>3, <3>1 DEF Awake
    <2> QED BY <2>2, <2>3
<1>5. CASE Dispatch
    <2>1. UNCHANGED <<notifier, incoming, dropped>>
        BY <1>5 DEF Dispatch
    <2>2. PICK s : s = Head(signals["server"])
        OBVIOUS
    <2>3. peer'[j].added = peer[j].added /\ peer'[j].at = peer[j].at /\ peer'[j].queue = peer[j].queue
        <3>1. CASE dispatcher = 0
            BY <1>5, <3>1 DEF Dispatch
        <3>2. CASE dispatcher # 0
            <4>1. PICK d \in Offers : d = dispatcher
                BY <3>2 DEF NegotiationTyped, PeersTyped
            <4>2. peer' = [peer EXCEPT ![d] = [peer[d] EXCEPT !.inbox = Append(peer[d].inbox, s)]]
                BY <1>5, <2>2, <3>2, <4>1 DEF Dispatch
            <4>3. CASE d # j
                BY <1>1, <4>2, <4>3
            <4>4. CASE d = j
                <5>1. peer'[j] = [peer[j] EXCEPT !.inbox = Append(peer[j].inbox, s)]
                    BY <1>1, <4>2, <4>4
                <5> QED BY <1>1, <5>1 DEF Peers
            <4> QED BY <4>3, <4>4
        <3> QED BY <3>1, <3>2
    <2> QED BY <1>2, <2>1, <2>3
<1>6. ASSUME NEW k \in Offers, Answer(k) \/ FailOffer(k) PROVE Awake(j)'
    <2>1. UNCHANGED <<notifier, incoming, dropped>>
        BY <1>6 DEF Answer, FailOffer
    <2>2. /\ peer'[j].added = peer[j].added /\ peer'[j].queue = peer[j].queue
          /\ peer'[j].at \in {peer[j].at, "answered", "failed"}
        <3>1. CASE Answer(k)
            <4>1. PICK at \in {"answered", "failed"} :
                     peer' = [peer EXCEPT ![k] = [peer[k] EXCEPT !.at = at, !.remote = TRUE, !.gathering = Candidates]]
                BY <1>1, <3>1 DEF Answer, Peers
            <4> QED BY <1>1, <4>1 DEF Peers
        <3>2. CASE FailOffer(k)
            <4>1. PICK described \in BOOLEAN : peer' = [peer EXCEPT ![k].at = "failed", ![k].remote = described]
                BY <3>2 DEF FailOffer
            <4> QED BY <1>1, <4>1 DEF Peers
        <3> QED BY <1>6, <3>1, <3>2
    <2> QED BY <1>1, <2>1, <2>2 DEF Awake
<1>7. ASSUME NEW k \in Offers, Arm(k) PROVE Awake(j)'
    <2>1. UNCHANGED <<notifier, incoming, dropped>>
        BY <1>7 DEF Arm
    <2>2. /\ peer'[j].added = peer[j].added
          /\ (peer'[j].at = peer[j].at /\ peer'[j].queue = peer[j].queue) \/ peer'[j].queue = "candidate"
        BY <1>1, <1>7 DEF Arm, Peers
    <2> QED BY <1>1, <2>1, <2>2 DEF Awake
<1>8. ASSUME NEW k \in Offers,
             (\E c \in Candidates : ServerCandidate(k, c)) \/ ServerCandidateTaskEnds(k) \/ DataChannels(k)
      PROVE  Awake(j)'
    <2>1. notifier' \in {notifier, 0} /\ UNCHANGED <<incoming, dropped>>
        BY <1>8 DEF ServerCandidate, ServerCandidateTaskEnds, DataChannels
    <2>2. peer'[j].added = peer[j].added /\ peer'[j].at = peer[j].at /\ peer'[j].queue = peer[j].queue
        <3>1. CASE \E c \in Candidates : ServerCandidate(k, c)
            BY <1>1, <3>1 DEF ServerCandidate, Peers
        <3>2. CASE ServerCandidateTaskEnds(k)
            BY <1>1, <3>2 DEF ServerCandidateTaskEnds, Peers
        <3>3. CASE DataChannels(k)
            BY <1>1, <3>3 DEF DataChannels, Peers
        <3> QED BY <1>8, <3>1, <3>2, <3>3
    <2> QED BY <1>2, <2>1, <2>2
<1>9. ASSUME NEW k \in Offers, ServerCandidateTask(k) PROVE Awake(j)'
    <2>1. PICK s, tail : s = Head(peer[k].inbox) /\ tail = Tail(peer[k].inbox)
        OBVIOUS
    <2> DEFINE rest == [peer[k] EXCEPT !.inbox = tail]
    <2>2. /\ UNCHANGED <<incoming, dropped>>
          /\ \/ peer' = [peer EXCEPT ![k] = rest] /\ notifier' = notifier
             \/ /\ peer' = [peer EXCEPT ![k] = [rest EXCEPT !.added = @ \cup {s.data}]]
                /\ notifier' = IF peer[k].added = {} THEN 0 ELSE notifier
             \/ peer' = [peer EXCEPT ![k] = [rest EXCEPT !.refused = @ \cup {s.data}]] /\ notifier' = notifier
        BY <1>9, <2>1 DEF ServerCandidateTask
    <2>3. peer[k] \in Peers
        BY <1>1
    <2>4. rest.at = peer[k].at /\ rest.added = peer[k].added /\ rest.queue = peer[k].queue
        BY <2>3 DEF Peers
    <2>5. rest \in [at : {"none", "registered", "answered", "armed", "failed"}, gathering : SUBSET Candidates,
                    remote : BOOLEAN, inbox : {tail}, task : {"none", "running", "ended"},
                    added : SUBSET Found, refused : SUBSET Found, channels : {"none", "ready", "lost"},
                    queue : {"none", "candidate", "channels", "done"}]
        BY <2>3 DEF Peers
    <2> HIDE DEF rest
    <2>6. peer'[j].at = peer[j].at /\ peer'[j].queue = peer[j].queue
        BY <1>1, <2>2, <2>4, <2>5
    <2>7. peer'[j].added # {} => notifier' # j
        <3>1. CASE j # k
            <4>1. peer'[j] = peer[j] /\ notifier' \in {notifier, 0}
                BY <1>1, <2>2, <3>1
            <4> QED BY <1>1, <4>1 DEF Awake
        <3>2. CASE j = k /\ notifier' = 0
            BY <1>1, <3>2
        <3>3. CASE j = k /\ peer[k].added # {} /\ notifier' = notifier
            BY <1>1, <3>3 DEF Awake
        <3>4. CASE j = k /\ peer'[k].added = peer[k].added /\ notifier' = notifier
            BY <1>1, <3>4 DEF Awake
        <3>5. \/ notifier' = 0
              \/ peer[k].added # {} /\ notifier' = notifier
              \/ peer'[k].added = peer[k].added /\ notifier' = notifier
            BY <1>1, <2>2, <2>4, <2>5
        <3> QED BY <3>1, <3>2, <3>3, <3>4, <3>5
    <2> QED BY <1>1, <2>2, <2>6, <2>7 DEF Awake
<1>10. ASSUME NEW k \in Offers, FirstCandidate(k) PROVE Awake(j)'
    <2>1. UNCHANGED <<notifier, incoming, dropped>>
        BY <1>10 DEF FirstCandidate
    <2>2. /\ peer'[j].added = peer[j].added /\ peer'[j].at = peer[j].at
          /\ peer'[j].queue \in {peer[j].queue, "channels"}
        BY <1>1, <1>10 DEF FirstCandidate, Peers
    <2> QED BY <1>1, <2>1, <2>2 DEF Awake
<1>11. ASSUME NEW k \in Offers, Queues(k) PROVE Awake(j)'
    <2>1. UNCHANGED <<notifier, dropped>> /\ incoming' = Queued(k)
        BY <1>11 DEF Queues
    <2>2. /\ peer'[j].added = peer[j].added /\ peer'[j].at = peer[j].at
          /\ peer'[j].queue = peer[j].queue \/ (j = k /\ peer'[j].queue = "done")
        BY <1>1, <1>11 DEF Queues, Peers
    <2>3. CASE dropped
        BY <1>1, <2>1, <2>2, <2>3 DEF Awake
    <2>4. CASE ~dropped
        <3>1. /\ Len(incoming) \in Nat /\ Len(incoming') = Len(incoming) + 1 /\ incoming'[Len(incoming) + 1] = k
              /\ \A i \in 1 .. Len(incoming) : incoming'[i] = incoming[i]
            BY <1>1, <2>1, <2>4, AppendProperties, LenProperties DEF Queued
        <3>2. /\ Len(incoming) + 1 \in 1 .. Len(incoming')
              /\ \A i \in 1 .. Len(incoming) : i \in 1 .. Len(incoming')
            BY <3>1
        <3>3. j = k => \E i \in 1 .. Len(incoming') : incoming'[i] = j
            BY <3>1, <3>2
        <3>4. (\E i \in 1 .. Len(incoming) : incoming[i] = j) => \E i \in 1 .. Len(incoming') : incoming'[i] = j
            BY <3>1, <3>2
        <3> QED BY <1>1, <2>1, <2>2, <2>4, <3>3, <3>4 DEF Awake
    <2> QED BY <2>3, <2>4
<1>12. CASE DropListener
    BY <1>1, <1>12 DEF DropListener, Awake
<1> QED BY <1>3, <1>4, <1>5, <1>6, <1>7, <1>8, <1>9, <1>10, <1>11, <1>12, QueueSteps
        DEF NegotiationNext, ListenerNext, WebRtcNext

-----------------------------------------------------------------------------
\* The type invariant of a connect against a listener holds of every behaviour:
\* no subscriber's queue outgrows the broadcast channel, and only sessions whose
\* offer was answered are queued for accept().
THEOREM NegotiationTypeOKHolds == NegotiationSpec => []NegotiationTypeOK
<1>1. NegotiationInit => NegotiationTyped /\ StageInv
    BY NegotiationStarts
<1>2. NegotiationTyped /\ StageInv /\ [NegotiationNext]_allVars => (NegotiationTyped /\ StageInv)'
    BY NegotiationTypedStep, StageStep
<1>3. NegotiationTyped /\ StageInv => NegotiationTypeOK
    BY NegotiationTypedTypeOK
<1> QED BY <1>1, <1>2, <1>3, PTL DEF NegotiationSpec

\* Whatever is lost, duplicated, late or repeated, and however many offers and
\* candidates there are: the client gives WebRTC no candidate before it has set
\* the answer, and the listener none of which it could be turned down, except
\* to the peer connection of an offer that failed before its description.
THEOREM NoCandidateRefusedHolds == NegotiationSpec => []NoCandidateRefused
<1>1. NegotiationInit => NegotiationTyped /\ StageInv /\ ClientWaits
    BY NegotiationStarts
<1>2. NegotiationTyped /\ StageInv /\ ClientWaits /\ [NegotiationNext]_allVars
        => (NegotiationTyped /\ StageInv /\ ClientWaits)'
    BY NegotiationTypedStep, StageStep, ClientWaitsStep
<1>3. StageInv /\ ClientWaits => NoCandidateRefused
    BY DEF StageInv, Stage, ClientWaits, NoCandidateRefused
<1> QED BY <1>1, <1>2, <1>3, PTL DEF NegotiationSpec

\* For every number of offers and candidates: the session of an answered offer
\* is queued for accept(), or its task waits for the channels or for a first
\* candidate that it has not missed, however notifiers are replaced, removed by
\* other tasks or outrun by timers.
THEOREM SessionNotStrandedHolds == NegotiationSpec => []SessionNotStranded
<1>1. NegotiationInit => NegotiationTyped /\ \A k \in Offers : Awake(k)
    BY NegotiationStarts
<1>2. NegotiationTyped /\ (\A k \in Offers : Awake(k)) /\ [NegotiationNext]_allVars
        => (NegotiationTyped /\ \A k \in Offers : Awake(k))'
    BY NegotiationTypedStep, AwakeStep
<1>3. NegotiationTyped /\ (\A k \in Offers : Awake(k)) => SessionNotStranded
    <2> SUFFICES ASSUME NegotiationTyped, NEW k \in Offers, Awake(k), peer[k].at = "armed"
                 PROVE  \/ dropped \/ k \in Range(incoming)
                        \/ peer[k].queue = "channels"
                        \/ peer[k].queue = "candidate" /\ (peer[k].added # {} => notifier # k)
        BY DEF SessionNotStranded
    <2>1. peer[k].queue \in {"candidate", "channels", "done"} /\ incoming \in Seq(Offers)
        BY DEF Awake, NegotiationTyped, PeersTyped, Peers
    <2>2. (\E i \in 1 .. Len(incoming) : incoming[i] = k) => k \in Range(incoming)
        BY <2>1, LenProperties DEF Range
    <2> QED BY <2>1, <2>2 DEF Awake
<1> QED BY <1>1, <1>2, <1>3, PTL DEF NegotiationSpec
=============================================================================
