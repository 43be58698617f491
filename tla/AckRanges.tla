------------------------------ MODULE AckRanges ------------------------------
(***************************************************************************)
(* ACK and NAK ranges: SequenceRange and its wire form                     *)
(* (raknet/src/protocol/ack.rs) and the merging queue the session keeps    *)
(* them in (raknet/src/session/ack_queue.rs), as operators on values.      *)
(* A queue is a sequence of ranges, its back is its last element.          *)
(***************************************************************************)
EXTENDS Sequence24, Sequences, FiniteSets, SequencesExt

SequenceRange == [start : SeqNum, end : SeqNum]

Singleton(seq) == [start |-> seq, end |-> seq]

\* The numbers for_each_sequence_in_range visits: forward from start, up to and
\* including end, across the wrap if need be.
Members(r) ==
    {x \in SeqNum : SeqDistance(r.start, x) <= SeqDistance(r.start, r.end)}

Contents(queue) == UNION {Members(queue[i]) : i \in DOMAIN queue}

Wraps(r) == r.start > r.end

\* Mutant: the tail ends one too far.
WrapTailTooLong(r) == [r EXCEPT !.end = Modulo]

\* split_wrapping: the part up to the last number, and the part from 0.
WrapTail(r) == [r EXCEPT !.end = Modulo - 1]
WrapHead(r) == [r EXCEPT !.start = 0]

RangeSize(r) == IF r.start = r.end THEN 4 ELSE 7

EncodedSize(r) ==
    IF Wraps(r) THEN RangeSize(WrapTail(r)) + RangeSize(WrapHead(r))
                ELSE RangeSize(r)

\* What the peer decodes from an encoded payload: a wrapping range arrives as
\* two records.  The limit of records is above what any datagram holds.
WireRanges(ranges) ==
    LET wire[k \in 0 .. Len(ranges)] ==
            IF k = 0 THEN <<>>
            ELSE wire[k - 1] \o (IF Wraps(ranges[k]) THEN <<WrapTail(ranges[k]), WrapHead(ranges[k])>>
                                                    ELSE <<ranges[k]>>)
    IN  wire[Len(ranges)]

-----------------------------------------------------------------------------
Adjacent(last, r) == SeqNext(last.end) = r.start

\* Mutant: a range that ends before the last one begins counts as overlapping.
OverlapsEnd(last, r) == ~SeqLess(last.end, r.start)

Overlaps(last, r) ==
    /\ ~SeqLess(last.end, r.start)
    /\ ~SeqLess(r.end, last.start)

\* Mutant: the union of adjacent ranges used for overlapping ones.
MergeRangesExtend(last, r) == [last EXCEPT !.end = r.end]

MergeRanges(last, r) ==
    [start |-> SeqMin(last.start, r.start), end |-> SeqMax(last.end, r.end)]

ReplaceBack(queue, r) == [queue EXCEPT ![Len(queue)] = r]

\* AckQueue::push of a range that does not wrap.
PushPlain(queue, r, max_ranges) ==
    IF Len(queue) >= max_ranges THEN queue
    ELSE IF queue # <<>> /\ Adjacent(Last(queue), r)
         THEN ReplaceBack(queue, [Last(queue) EXCEPT !.end = r.end])
    ELSE IF queue # <<>> /\ Overlaps(Last(queue), r)
         THEN ReplaceBack(queue, MergeRanges(Last(queue), r))
    ELSE Append(queue, r)

\* AckQueue::push.  A range that wraps and merges with nothing is pushed as its
\* tail and then its head (neither wraps, so the code's recursion stops there).
Push(queue, r, max_ranges) ==
    IF /\ Wraps(r)
       /\ Len(queue) < max_ranges
       /\ queue # <<>> => ~Adjacent(Last(queue), r) /\ ~Overlaps(Last(queue), r)
    THEN PushPlain(PushPlain(queue, WrapTail(r), max_ranges), WrapHead(r), max_ranges)
    ELSE PushPlain(queue, r, max_ranges)

\* pop_for_mtu: how many ranges leave.  The first one always does.
PopCount(queue, mtu, base_overhead) ==
    LET Used(n) == FoldLeft(LAMBDA sum, r : sum + EncodedSize(r), base_overhead,
                            SubSeq(queue, 1, n))
        Fits(n) == \A k \in 2 .. n : Used(k) <= mtu
    IN  Max({n \in 0 .. Len(queue) : Fits(n)})
==============================================================================
