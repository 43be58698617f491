--------------------------- MODULE MessageSegments ---------------------------
(***************************************************************************)
(* How NetherNet cuts a message into segments of one data channel message  *)
(* each, and puts segments together again.  A segment carries the number   *)
(* of segments still to come in one byte, of SegmentModulus values, and    *)
(* nothing that tells one message from another.  Data is a sequence of     *)
(* marked bytes; logging and allocation are left out.                      *)
(***************************************************************************)
EXTENDS Naturals, Sequences

CONSTANTS
    MAX_MESSAGE_SIZE,   \* bytes of data in a segment
    SegmentModulus      \* values of remaining_segments, 256 in the code

ASSUME SizeAssumption == MAX_MESSAGE_SIZE \in Nat \ {0}
ASSUME ModulusAssumption == SegmentModulus \in Nat \ {0, 1}

Segment(remaining, data) == [remaining |-> remaining, data |-> data]

\* len.div_ceil(MAX_MESSAGE_SIZE); one segment for a message that fits.
SegmentCount(data) ==
    IF Len(data) <= MAX_MESSAGE_SIZE THEN 1
    ELSE (Len(data) + MAX_MESSAGE_SIZE - 1) \div MAX_MESSAGE_SIZE

\* Mutant: as many segments as there are values of remaining_segments.
TooLargeLate(data) == SegmentCount(data) > SegmentModulus

TooLarge(data) == SegmentCount(data) > SegmentModulus - 1

\* The i-th chunk of the data.
Chunk(data, i) ==
    LET end == IF i * MAX_MESSAGE_SIZE < Len(data) THEN i * MAX_MESSAGE_SIZE ELSE Len(data)
    IN  SubSeq(data, (i - 1) * MAX_MESSAGE_SIZE + 1, end)

split_into_segments(data) ==
    [i \in 1 .. SegmentCount(data) |-> Segment(SegmentCount(data) - i, Chunk(data, i))]

\* decode refuses a segment without data: so an empty message never arrives.
Decodes(segment) == Len(segment.data) >= 1

EmptyMessage == [expected |-> 0, data |-> <<>>]

\* The number of segments expected once the first of a message is seen.
Expected(message, segment) ==
    IF message.expected = 0 /\ segment.remaining > 0
    THEN (segment.remaining + 1) % SegmentModulus
    ELSE message.expected

InSequence(message, segment) ==
    \/ Expected(message, segment) = 0
    \/ Expected(message, segment) - 1 = segment.remaining

\* Mutant: the data of a complete message stays.
AfterSegmentKept(message, segment) ==
    IF InSequence(message, segment)
    THEN [expected |-> segment.remaining, data |-> message.data \o segment.data]
    ELSE EmptyMessage

\* What add_segment leaves in the accumulator: nothing after an error, too.
AfterSegment(message, segment) ==
    IF InSequence(message, segment) /\ segment.remaining > 0
    THEN [expected |-> IF Expected(message, segment) = 0 THEN 0 ELSE Expected(message, segment) - 1,
          data |-> message.data \o segment.data]
    ELSE EmptyMessage

\* What add_segment returns: the message completed, if any.
Completed(message, segment) ==
    IF InSequence(message, segment) /\ segment.remaining = 0
    THEN <<message.data \o segment.data>>
    ELSE <<>>
=============================================================================
