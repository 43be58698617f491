--------------------------- MODULE AckQueueProofs ---------------------------
(***************************************************************************)
(* The queue of ACK and NAK ranges, for every modulus, capacity and MTU:   *)
(* merging, splitting at the wrap and popping lose no number and invent    *)
(* none.  The argument is made in offsets from the origin of the stretch   *)
(* of at most Half numbers in which the queue and the next range lie; on   *)
(* such a stretch the serial order of Sequence24 is the order of offsets.  *)
(***************************************************************************)
EXTENDS AckQueue, SessionLemmas

-----------------------------------------------------------------------------
(* The queue as a component.                                               *)

\* push: the queue gains watched when Accepts says so, and loses no number.
LEMMA PushExact ==
    ASSUME NEW r \in Pushable, TypeOK
    PROVE  /\ Push(queue, r, MaxRanges) \in Seq(SequenceRange)
           /\ watched \in Contents(Push(queue, r, MaxRanges))
                <=> watched \in Contents(queue) \/ Accepts(r)
<1>1. PICK o \in SeqNum : /\ r \in SequenceRange
                          /\ Contents(queue) \subseteq SeqStretch(o, Span)
                          /\ Members(r) \subseteq SeqStretch(o, Span)
    BY DEF Pushable, RangesIn
<1>2. /\ Span \in 1 .. Half /\ MaxRanges \in Nat /\ queue \in Seq(SequenceRange)
      /\ Len(queue) \in Nat
    BY AckQueueAssumption, LenProperties DEF TypeOK
<1> DEFINE merges == queue # <<>> /\ (Adjacent(Last(queue), r) \/ Overlaps(Last(queue), r))
           first == PushPlain(queue, WrapTail(r), MaxRanges)
<1>3. CASE Wraps(r) /\ Len(queue) < MaxRanges /\ ~merges
    <2>1. /\ WrapTail(r) \in SequenceRange /\ WrapHead(r) \in SequenceRange
          /\ Members(r) = Members(WrapTail(r)) \cup Members(WrapHead(r))
          /\ Members(WrapTail(r)) \cap Members(WrapHead(r)) = {}
        BY <1>1, <1>3, SplitExact
    <2>2. ~(Len(queue) >= MaxRanges)
        BY <1>2, <1>3
    <2>3. /\ first \in Seq(SequenceRange)
          /\ Contents(first) = Contents(queue) \cup Members(WrapTail(r))
        BY <1>1, <1>2, <2>1, <2>2, PushPlainExact
    <2>4. Contents(first) \subseteq SeqStretch(o, Span)
          /\ Members(WrapHead(r)) \subseteq SeqStretch(o, Span)
        BY <1>1, <2>1, <2>3
    <2>5. Push(queue, r, MaxRanges) = PushPlain(first, WrapHead(r), MaxRanges)
        BY <1>3 DEF Push
    <2>6. Len(first) \in Nat
        BY <2>3, LenProperties
    <2> HIDE DEF first
    <2>7. /\ PushPlain(first, WrapHead(r), MaxRanges) \in Seq(SequenceRange)
          /\ Contents(PushPlain(first, WrapHead(r), MaxRanges)) =
                IF Len(first) >= MaxRanges THEN Contents(first)
                ELSE Contents(first) \cup Members(WrapHead(r))
        BY <1>1, <1>2, <2>1, <2>3, <2>4, PushPlainExact
    <2>8. Accepts(r) <=> \/ watched \in Members(r) /\ watched \notin Members(WrapHead(r))
                         \/ watched \in Members(WrapHead(r)) /\ Len(first) < MaxRanges
        BY <1>3 DEF Accepts, first
    <2>9. Len(first) >= MaxRanges <=> ~(Len(first) < MaxRanges)
        BY <1>2, <2>6
    <2> QED BY <2>1, <2>3, <2>5, <2>7, <2>8, <2>9
<1>4. CASE ~(Wraps(r) /\ Len(queue) < MaxRanges /\ ~merges)
    <2>1. Push(queue, r, MaxRanges) = PushPlain(queue, r, MaxRanges)
        BY <1>4 DEF Push
    <2>2. /\ PushPlain(queue, r, MaxRanges) \in Seq(SequenceRange)
          /\ Contents(PushPlain(queue, r, MaxRanges)) =
                IF Len(queue) >= MaxRanges THEN Contents(queue)
                ELSE Contents(queue) \cup Members(r)
        BY <1>1, <1>2, PushPlainExact
    <2>3. Len(queue) >= MaxRanges <=> ~(Len(queue) < MaxRanges)
        BY <1>2
    <2>4. Wraps(r) => Members(WrapHead(r)) \subseteq Members(r)
        BY <1>1, SplitExact
    <2>5. Accepts(r) <=> Len(queue) < MaxRanges /\ watched \in Members(r)
        BY <1>4, <2>4 DEF Accepts
    <2> QED BY <2>1, <2>2, <2>3, <2>5
<1> QED BY <1>3, <1>4

QueueInv == TypeOK /\ NothingInvented /\ NothingForgotten

\* The empty queue owes nothing.
LEMMA QueueInit == Init => QueueInv
BY DEF Init, QueueInv, TypeOK, NothingInvented, NothingForgotten, Contents

\* push and pop_for_mtu keep the account of every number.
LEMMA QueueStep == QueueInv /\ [Next]_vars => QueueInv'
<1> SUFFICES ASSUME QueueInv, [Next]_vars PROVE QueueInv'
    OBVIOUS
<1>1. ASSUME NEW r \in Pushable, PushRange(r) PROVE QueueInv'
    <2>1. /\ queue' \in Seq(SequenceRange)
          /\ watched \in Contents(queue') <=> watched \in Contents(queue) \/ Accepts(r)
        BY <1>1, PushExact DEF QueueInv, PushRange
    <2>2. due' = (IF Accepts(r) THEN "record" ELSE due) /\ watched' = watched
        BY <1>1 DEF PushRange
    <2> QED BY <2>1, <2>2 DEF QueueInv, TypeOK, NothingInvented, NothingForgotten
<1>2. CASE PopForMtu
    <2> DEFINE n == PopCount(queue, AckMtu, AckOverhead)
    <2>1. queue \in Seq(SequenceRange) /\ Len(queue) \in Nat
        BY LenProperties DEF QueueInv, TypeOK
    <2>2. n \in 0 .. Len(queue)
        BY <2>1, PopCountType
    <2>3. /\ queue' = SubSeq(queue, n + 1, Len(queue)) /\ watched' = watched
          /\ due' = IF watched \in Contents(SubSeq(queue, 1, n)) THEN "sent" ELSE due
        BY <1>2 DEF PopForMtu
    <2> HIDE DEF n
    <2>4. /\ queue' \in Seq(SequenceRange)
          /\ Contents(queue) = Contents(SubSeq(queue, 1, n)) \cup Contents(queue')
        BY <2>1, <2>2, <2>3, PopExact
    <2> QED BY <2>3, <2>4 DEF QueueInv, TypeOK, NothingInvented, NothingForgotten
<1>3. CASE UNCHANGED vars
    BY <1>3 DEF vars, QueueInv, TypeOK, NothingInvented, NothingForgotten, Contents
<1> QED BY <1>1, <1>2, <1>3 DEF Next

\* The queue holds ranges of sequence numbers, also after the end of a range
\* has been moved across the wrap.
THEOREM TypeCorrect == Spec => []TypeOK
<1>1. QueueInv => TypeOK
    BY DEF QueueInv
<1> QED BY QueueInit, QueueStep, <1>1, PTL DEF Spec

\* Whatever ranges are merged, split at the wrap and popped, no number is
\* reported that push was not given (AckQueue::push, pop_for_mtu).
THEOREM NothingInventedHolds == Spec => []NothingInvented
<1>1. QueueInv => NothingInvented
    BY DEF QueueInv
<1> QED BY QueueInit, QueueStep, <1>1, PTL DEF Spec

\* A number that push accepted is in the queue until it leaves in a datagram.
THEOREM NothingForgottenHolds == Spec => []NothingForgotten
<1>1. QueueInv => NothingForgotten
    BY DEF QueueInv
<1> QED BY QueueInit, QueueStep, <1>1, PTL DEF Spec
=============================================================================
