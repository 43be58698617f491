-------------------------- MODULE OrderingChannels --------------------------
(***************************************************************************)
(* One ordering channel (raknet/src/session/ordering_channels.rs) as       *)
(* operators on its state: read, the ordering index expected next, and     *)
(* heap, the buffered packets in the order the binary heap would pop them. *)
(***************************************************************************)
EXTENDS EncapsulatedPackets, SequencesExt

CONSTANT HeapCapacity    \* 2048, the length at which packets are dropped

\* The capacity is far below a lap of the indexes.
ASSUME HeapCapacityAssumption == HeapCapacity \in 0 .. Modulo - 1

ChannelState == [read : SeqNum, heap : Seq(EncapsulatedPacket)]

NewChannel(start) == [read |-> start, heap |-> <<>>]

\* Push onto the heap, behind every packet that pops before it.
HeapInsert(heap, p) ==
    LET ahead == {i \in 1 .. Len(heap) :
                    ~SeqGreater(heap[i].ordering_index, p.ordering_index)}
        k == Cardinality(ahead)
    IN  SubSeq(heap, 1, k) \o <<p>> \o SubSeq(heap, k + 1, Len(heap))

\* How many packets the drain loop pops once read is the index expected: it
\* stops at the first top whose index is not the next one.
ReadyLen(read, heap) ==
    Min({n \in 0 .. Len(heap) :
            n = Len(heap) \/ heap[n + 1].ordering_index # SeqAdd(read, n)})

\* Mutant: what the drain loop pops is not handed on.
ReleasedNothing(c) == <<>>

\* Advance past one index and release what has become ready.
Release(c) ==
    LET read == SeqNext(c.read)
        n == ReadyLen(read, c.heap)
    IN  [read |-> SeqAdd(read, n), heap |-> SubSeq(c.heap, n + 1, Len(c.heap))]

Released(c) == SubSeq(c.heap, 1, ReadyLen(SeqNext(c.read), c.heap))

\* handle_ordered: the channel afterwards, and the packets it hands over.
Overflows(c, p) ==
    SeqLess(c.read, p.ordering_index) /\ Len(c.heap) >= HeapCapacity

HandleOrdered(c, p) ==
    IF c.read = p.ordering_index THEN Release(c)
    ELSE IF SeqGreater(c.read, p.ordering_index) \/ Overflows(c, p) THEN c
    ELSE [c EXCEPT !.heap = HeapInsert(@, p)]

\* Mutant: an old packet is handed over instead of dropped.
ReadyOld(c, p) ==
    IF SeqGreater(c.read, p.ordering_index) THEN <<p>>
    ELSE IF c.read = p.ordering_index THEN <<p>> \o Released(c) ELSE <<>>

Ready(c, p) == IF c.read = p.ordering_index THEN <<p>> \o Released(c) ELSE <<>>

\* Mutant: an index is skipped whether it is the one expected or not.
SkipIndexAny(c, index) == Release(c)

\* skip_index: only an index that is the one expected is skipped.
SkipIndex(c, index) == IF c.read = index THEN Release(c) ELSE c

Skipped(c, index) == IF c.read = index THEN Released(c) ELSE <<>>
=============================================================================
