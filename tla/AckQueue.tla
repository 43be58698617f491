------------------------------ MODULE AckQueue ------------------------------
(***************************************************************************)
(* AckQueue as a component: the session pushes ranges when datagrams come  *)
(* in and a tick pops as many as fit one datagram                          *)
(* (raknet/src/session/ack_queue.rs).                                      *)
(*                                                                         *)
(* watched is an arbitrary sequence number, fixed in the initial state,    *)
(* and due what the peer is due about it: nothing yet, a record, or no     *)
(* more than it has been sent.                                             *)
(***************************************************************************)
EXTENDS AckRanges

CONSTANTS
    MaxRanges,      \* ack_queue_capacity
    Span,           \* numbers alive at one time: no more than Half between ticks
    AckMtu,         \* what one ACK datagram may take
    AckOverhead     \* and what its headers take of that

ASSUME AckQueueAssumption ==
    /\ MaxRanges \in Nat
    /\ Span \in 1 .. Half
    /\ AckMtu \in Nat
    /\ AckOverhead \in Nat

VARIABLES queue, watched, due

vars == <<queue, watched, due>>

RangesIn == [w \in {SeqStretch(o, Span) : o \in SeqNum} |->
                {r \in SequenceRange : Members(r) \subseteq w}]

\* The ranges that can come next: the queue and the range lie within Span
\* consecutive numbers, as they do when the datagrams of one lap are spread
\* over more than two ticks.
Pushable == UNION {RangesIn[w] : w \in {v \in DOMAIN RangesIn : Contents(queue) \subseteq v}}

TypeOK ==
    /\ queue \in Seq(SequenceRange)
    /\ watched \in SeqNum
    /\ due \in {"nothing", "record", "sent"}

Init ==
    /\ queue = <<>>
    /\ watched \in SeqNum
    /\ due = "nothing"

\* push drops a range when the queue is full, and the head of a wrapping range
\* when its tail took the last place; everything else is due from now on.
Accepts(r) ==
    \/ /\ Len(queue) < MaxRanges
       /\ watched \in Members(r)
       /\ ~(Wraps(r) /\ watched \in Members(WrapHead(r)))
    \/ /\ Len(queue) < MaxRanges
       /\ Wraps(r)
       /\ watched \in Members(WrapHead(r))
       /\ \/ queue # <<>> /\ (Adjacent(Last(queue), r) \/ Overlaps(Last(queue), r))
          \/ Len(PushPlain(queue, WrapTail(r), MaxRanges)) < MaxRanges

PushRange(r) ==
    /\ queue' = Push(queue, r, MaxRanges)
    /\ due' = IF Accepts(r) THEN "record" ELSE due
    /\ UNCHANGED watched

PopForMtu ==
    LET n == PopCount(queue, AckMtu, AckOverhead)
    IN  /\ queue # <<>>
        /\ queue' = SubSeq(queue, n + 1, Len(queue))
        /\ due' = IF watched \in Contents(SubSeq(queue, 1, n)) THEN "sent" ELSE due
        /\ UNCHANGED watched

Next ==
    \/ \E r \in Pushable : PushRange(r)
    \/ PopForMtu

Spec == Init /\ [][Next]_vars

-----------------------------------------------------------------------------
\* The queue never reports a number nobody pushed, whatever merging and
\* splitting push does to the ranges around the wrap.
NothingInvented == watched \in Contents(queue) => due # "nothing"

\* A number that push accepted stays in the queue until a datagram carries it.
NothingForgotten == due = "record" => watched \in Contents(queue)
=============================================================================
