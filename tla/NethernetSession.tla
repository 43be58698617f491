-------------------------- MODULE NethernetSession --------------------------
(***************************************************************************)
(* Messages from one NetherNet session to another: a stream with its       *)
(* poll-based writer, other tasks that call Session::send on the same      *)
(* session, the reliable data channel, the handler that assembles          *)
(* segments, the bounded packet channel, the reader, and close at either   *)
(* end.                                                                    *)
(*                                                                         *)
(* A message is named by its length.  The data channel is external: it     *)
(* keeps order, calls the handler for one message at a time and drops what *)
(* has not arrived when an end closes it.  A future of a send makes one    *)
(* step per segment, at an await; whoever started it polls it until it is  *)
(* ready or drops it.                                                      *)
(***************************************************************************)
EXTENDS MessageSegments, FiniteSets, Functions

CONSTANTS
    Messages,       \* lengths of the messages that may be sent, each once
    Callers,        \* tasks that call Session::send
    Capacity,       \* of the packet channel
    Disciplined     \* whether the application keeps its sends apart and drops
                    \* no send that has begun

ASSUME MessagesAssumption == Messages \subseteq Nat /\ IsFiniteSet(Messages)
ASSUME CapacityAssumption == Capacity \in Nat \ {0}
ASSUME CallersAssumption == "stream" \notin Callers

VARIABLES
    unsent,     \* messages not handed over yet
    future,     \* per sender: the send under way
    accepted,   \* messages poll_write returned Ok for
    reported,   \* whether a poll of the stream has returned an error
    shutdown,   \* poll_shutdown: no, closing, ok
    wire,       \* segments in the data channel
    open,       \* the data channel
    closed,     \* per end: Session::closed
    closing,    \* per end: the step close() is at
    buffer,     \* receiver: the accumulator
    handing,    \* receiver: the message whose handler waits for room
    packets,    \* receiver: the packet channel
    reader,     \* receiver: idle, waiting in recv, or told that it is over
    sent,       \* history: messages whose first segment left
    finished,   \* history: messages whose last segment left
    given       \* history: what recv returned

sendVars == <<unsent, future, accepted, reported, shutdown, sent, finished>>
receiveVars == <<buffer, handing, packets, reader, given>>
closeVars == <<closed, closing>>
vars == <<sendVars, receiveVars, closeVars, wire, open>>

Senders == {"stream"} \cup Callers
Ends == {"sender", "receiver"}

\* The bytes of message m.
Data(m) == [i \in 1 .. m |-> <<m, i>>]

NoFuture == [state |-> "none", message |-> 0, left |-> <<>>]
Failed == [NoFuture EXCEPT !.state = "failed"]
Sending(m) == [state |-> "busy", message |-> m, left |-> split_into_segments(Data(m))]

Begun(s) == future[s].state = "busy" /\ Len(future[s].left) < SegmentCount(Data(future[s].message))

\* No send under way: the last one, if any, has returned Ok.
Idle(s) == future[s].state = "none"

\* An application that keeps its sends apart begins one when no other is under way.
MayBegin == Disciplined => \A s \in Senders : Idle(s)

-----------------------------------------------------------------------------
(* Session::send *)

\* The first poll: the closed flag, then the split.  An error is returned at once.
Refused(m) == closed["sender"] \/ TooLarge(Data(m))

\* channel.send of the next segment; it fails once the channel is closed.  A
\* caller has its result at once, the stream keeps an error for its next poll.
SendSegment(s) ==
    /\ future[s].state = "busy"
    /\ LET m == future[s].message
           left == future[s].left
       IN  IF open
           THEN /\ wire' = Append(wire, Head(left))
                /\ future' = [future EXCEPT ![s] = IF Len(left) = 1 THEN NoFuture ELSE [@ EXCEPT !.left = Tail(left)]]
                /\ sent' = IF ~Begun(s) /\ m > 0 THEN Append(sent, Data(m)) ELSE sent
                /\ finished' = IF Len(left) = 1 THEN finished \cup {m} ELSE finished
           ELSE /\ future' = [future EXCEPT ![s] = IF s = "stream" THEN Failed ELSE NoFuture]
                /\ UNCHANGED <<wire, sent, finished>>
    /\ UNCHANGED <<unsent, accepted, reported, shutdown, receiveVars, closeVars, open>>

CallSend(s, m) ==
    /\ s \in Callers /\ future[s].state = "none" /\ MayBegin
    /\ m \in unsent
    /\ unsent' = unsent \ {m}
    /\ future' = IF Refused(m) THEN future ELSE [future EXCEPT ![s] = Sending(m)]
    /\ UNCHANGED <<accepted, reported, shutdown, sent, finished, receiveVars, closeVars, wire, open>>

\* The task drops the call, in a select or a timeout.
DropSend(s) ==
    /\ s \in Callers /\ future[s].state = "busy"
    /\ Disciplined => ~Begun(s)
    /\ future' = [future EXCEPT ![s] = NoFuture]
    /\ UNCHANGED <<unsent, accepted, reported, shutdown, sent, finished, receiveVars, closeVars, wire, open>>

-----------------------------------------------------------------------------
(* AsyncWrite for NethernetStream *)

\* Any poll that finds the last send failed reports it and forgets the future.
ReportError ==
    /\ future["stream"].state = "failed"
    /\ reported' = TRUE
    /\ future' = [future EXCEPT !["stream"] = NoFuture]
    /\ UNCHANGED <<unsent, accepted, shutdown, sent, finished, receiveVars, closeVars, wire, open>>

\* Ok(len) is returned while the send goes on; pending while the last one does.
PollWrite(m) ==
    /\ shutdown = "no" /\ Idle("stream") /\ MayBegin
    /\ m \in unsent
    /\ unsent' = unsent \ {m}
    /\ IF Refused(m)
       THEN /\ future' = [future EXCEPT !["stream"] = NoFuture]
            /\ reported' = TRUE
            /\ UNCHANGED accepted
       ELSE /\ future' = [future EXCEPT !["stream"] = Sending(m)]
            /\ accepted' = accepted \cup {m}
            /\ UNCHANGED reported
    /\ UNCHANGED <<shutdown, sent, finished, receiveVars, closeVars, wire, open>>

\* Mutant: shutdown closes without waiting for the write.
FlushedAlways == TRUE

\* poll_flush is ready: no future, or one that has returned Ok.
Flushed == Idle("stream")

\* Flush, then close() of the session, which is Ok at once when it is closed.
PollShutdown ==
    /\ shutdown = "no" /\ Flushed
    /\ IF closed["sender"]
       THEN /\ shutdown' = "ok"
            /\ UNCHANGED closeVars
       ELSE /\ shutdown' = "closing"
            /\ closed' = [closed EXCEPT !["sender"] = TRUE]
            /\ closing' = [closing EXCEPT !["sender"] = "channel"]
    /\ UNCHANGED <<unsent, future, accepted, reported, sent, finished, receiveVars, wire, open>>

-----------------------------------------------------------------------------
(* Session::close, at either end *)

\* Called by the application; a second call changes nothing.
Close(e) ==
    /\ ~closed[e]
    /\ closed' = [closed EXCEPT ![e] = TRUE]
    /\ closing' = [closing EXCEPT ![e] = "channel"]
    /\ UNCHANGED <<sendVars, receiveVars, wire, open>>

\* channel.close(): what is on its way may or may not arrive, in order.  The
\* peer connection's close comes next; only a shutdown waits for its result.
CloseChannel(e) ==
    /\ closing[e] = "channel"
    /\ closing' = [closing EXCEPT ![e] = IF e = "sender" /\ shutdown = "closing" THEN "peer" ELSE "done"]
    /\ open' = FALSE
    /\ \E n \in 0 .. Len(wire) : wire' = SubSeq(wire, 1, n)
    /\ UNCHANGED <<sendVars, receiveVars, closed>>

\* peer_connection.close(), whose error the shutdown reports; a shutdown polled
\* again finds the session closed.
ClosePeer ==
    /\ closing["sender"] = "peer"
    /\ closing' = [closing EXCEPT !["sender"] = "done"]
    /\ \/ shutdown' = "ok" /\ UNCHANGED reported
       \/ shutdown' = "no" /\ reported' = TRUE
    /\ UNCHANGED <<unsent, future, accepted, sent, finished, receiveVars, closed, wire, open>>

-----------------------------------------------------------------------------
(* The on_message handler of set_reliable_channel *)

\* One segment: decode, add_segment, and the message it completes to the channel.
OnMessage ==
    /\ wire # <<>> /\ handing = <<>>
    /\ wire' = Tail(wire)
    /\ IF Decodes(Head(wire))
       THEN /\ buffer' = AfterSegment(buffer, Head(wire))
            /\ handing' = Completed(buffer, Head(wire))
       ELSE UNCHANGED <<buffer, handing>>
    /\ UNCHANGED <<sendVars, closeVars, packets, reader, given, open>>

\* Mutant: try_send, which loses the message when the channel is full.
HandOverTry ==
    /\ handing # <<>>
    /\ packets' = IF Len(packets) < Capacity THEN packets \o handing ELSE packets
    /\ handing' = <<>>
    /\ UNCHANGED <<sendVars, closeVars, buffer, reader, given, wire, open>>

\* tx.send(..).await: the handler, and with it the data channel, waits for room.
HandOver ==
    /\ handing # <<>> /\ Len(packets) < Capacity
    /\ packets' = packets \o handing
    /\ handing' = <<>>
    /\ UNCHANGED <<sendVars, closeVars, buffer, reader, given, wire, open>>

-----------------------------------------------------------------------------
(* Session::recv, called again and again by SessionStream or the application *)

\* The closed flag is read once, before the wait.
RecvCall ==
    /\ reader = "idle"
    /\ reader' = IF closed["receiver"] THEN "over" ELSE "waiting"
    /\ UNCHANGED <<sendVars, closeVars, buffer, handing, packets, given, wire, open>>

RecvReady ==
    /\ reader = "waiting" /\ packets # <<>>
    /\ given' = Append(given, Head(packets))
    /\ packets' = Tail(packets)
    /\ reader' = "idle"
    /\ UNCHANGED <<sendVars, closeVars, buffer, handing, wire, open>>

-----------------------------------------------------------------------------
Init ==
    /\ unsent = Messages
    /\ future = [s \in Senders |-> NoFuture]
    /\ accepted = {} /\ reported = FALSE /\ shutdown = "no"
    /\ sent = <<>> /\ finished = {}
    /\ wire = <<>> /\ open = TRUE
    /\ closed = [e \in Ends |-> FALSE]
    /\ closing = [e \in Ends |-> "no"]
    /\ buffer = EmptyMessage /\ handing = <<>> /\ packets = <<>>
    /\ reader = "idle" /\ given = <<>>

Next ==
    \/ \E s \in Senders : SendSegment(s)
    \/ \E s \in Callers, m \in Messages : CallSend(s, m)
    \/ \E s \in Callers : DropSend(s)
    \/ ReportError
    \/ \E m \in Messages : PollWrite(m)
    \/ PollShutdown
    \/ \E e \in Ends : Close(e)
    \/ \E e \in Ends : CloseChannel(e)
    \/ ClosePeer
    \/ OnMessage
    \/ HandOver
    \/ RecvCall
    \/ RecvReady

\* The data channel's read loop and its handler are a task of their own, and
\* the receiving application reads on; nothing is assumed of the sender.
Fairness == WF_vars(OnMessage) /\ WF_vars(HandOver) /\ WF_vars(RecvCall) /\ WF_vars(RecvReady)

Spec == Init /\ [][Next]_vars /\ Fairness

-----------------------------------------------------------------------------
(* Properties *)

Payload == {Data(m) : m \in Messages \ {0}}

IsSegment(segment) ==
    segment.remaining + 1 \in 1 .. SegmentModulus - 1 /\ Len(segment.data) <= MAX_MESSAGE_SIZE

\* Type invariant of the two sessions and the stream: no segment overflows the
\* count that add_segment computes from it, and the packet channel keeps its
\* capacity.
SessionTypeOK ==
    /\ unsent \subseteq Messages /\ accepted \subseteq Messages /\ finished \subseteq Messages
    /\ \A s \in Senders :
          /\ future[s].state \in {"none", "busy", "failed"}
          /\ future[s].message \in Messages \cup {0}
          /\ \A i \in DOMAIN future[s].left : IsSegment(future[s].left[i])
    /\ reported \in BOOLEAN /\ shutdown \in {"no", "closing", "ok"} /\ open \in BOOLEAN
    /\ closed \in [Ends -> BOOLEAN]
    /\ closing \in [Ends -> {"no", "channel", "peer", "done"}]
    /\ \A i \in DOMAIN wire : IsSegment(wire[i])
    /\ buffer.expected \in 0 .. SegmentModulus - 1
    /\ Len(handing) <= 1 /\ Len(packets) <= Capacity
    /\ reader \in {"idle", "waiting", "over"}

\* While the application keeps its sends apart, the segments, the assembler,
\* the back-pressure of the packet channel and a close at either end at any
\* moment still make an ordered channel of whole messages: recv returns a
\* prefix of what was sent (Message::split_into_segments, add_segment,
\* Session::send and recv).
MessageChannel == INSTANCE OrderedChannel
ImplementsMessageChannel == MessageChannel!ChannelSpec

\* A shutdown of the stream that ends well, with no write reported as failed
\* before, has put every segment of every write it accepted on the data
\* channel, whoever else closes the session meanwhile (poll_write answers Ok
\* before the send is done; poll_shutdown must wait for it).
ShutdownFlushes ==
    shutdown = "ok" /\ ~reported => accepted \subseteq finished

\* A message whose last segment left is returned by recv, if neither end ever
\* closes: none is lost when the reader is slow and the packet channel is full
\* (the handler of set_reliable_channel waits).
AllGiven ==
    \A m \in Messages \ {0} :
        m \in finished ~> (Data(m) \in Range(given) \/ \E e \in Ends : closed[e])

\* Everything recv returns is a whole message that was sent ("Receives the
\* next complete packet from the session", Session::recv).
OnlyWholeMessages == Range(given) \subseteq Payload

\* A recv under way when the session is closed, at this end or at the other,
\* comes back ("If the session has been closed, ... this returns Ok(None)").
CloseEndsRecv ==
    (reader = "waiting" /\ closed["receiver"]) ~> reader # "waiting"
=============================================================================
