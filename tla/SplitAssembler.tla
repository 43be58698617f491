--------------------------- MODULE SplitAssembler ---------------------------
(***************************************************************************)
(* SplitAssembler (raknet/src/session/split_assembler.rs) as operators on  *)
(* its map from split ids to entries.  An entry keeps the header of the    *)
(* first part that arrived, the part count it announced, and the payloads  *)
(* received so far.  Time is abstracted: which entries have outlived the   *)
(* ttl is the caller's choice.                                             *)
(***************************************************************************)
EXTENDS EncapsulatedPackets, SequencesExt

CONSTANTS
    MaxSplitParts,          \* max_split_parts
    MaxConcurrentSplits     \* max_concurrent_splits

ASSUME SplitAssumption == MaxSplitParts \in Nat /\ MaxConcurrentSplits \in Nat

\* A map with a key set to a value, and without a key.
With(m, k, v) == [i \in DOMAIN m \cup {k} |-> IF i = k THEN v ELSE m[i]]
Without(m, k) == [i \in DOMAIN m \ {k} |-> m[i]]

NewEntry(p) ==
    [header |-> [p EXCEPT !.split = NotSplit, !.payload = <<>>],
     count |-> p.split.count, parts |-> <<>>]

EntryFor(splits, p) ==
    IF p.split.id \in DOMAIN splits THEN splits[p.split.id] ELSE NewEntry(p)

\* The checks of add, in the code's order.  The entry exists from the second
\* one on, even when a later check fails.
SplitTooLarge(p) == p.split.count > MaxSplitParts

SplitBufferFull(splits, p) ==
    /\ Cardinality(DOMAIN splits) >= MaxConcurrentSplits
    /\ p.split.id \notin DOMAIN splits

SplitMismatch(splits, p) ==
    LET entry == EntryFor(splits, p)
    IN  entry.count # p.split.count \/ p.split.index >= entry.count

AddFails(splits, p) ==
    /\ IsSplit(p)
    /\ SplitTooLarge(p) \/ SplitBufferFull(splits, p) \/ SplitMismatch(splits, p)

\* The entry once the part is stored; a part that is already there is kept.
WithPart(splits, p) ==
    LET entry == EntryFor(splits, p)
    IN  IF p.split.index \in DOMAIN entry.parts THEN entry
        ELSE [entry EXCEPT !.parts = With(@, p.split.index, p.payload)]

Completes(splits, p) ==
    /\ p.split.index \notin DOMAIN EntryFor(splits, p).parts
    /\ Cardinality(DOMAIN WithPart(splits, p).parts) = p.split.count

\* The map after add.
AddPart(splits, p) ==
    IF ~IsSplit(p) \/ SplitTooLarge(p) \/ SplitBufferFull(splits, p) THEN splits
    ELSE IF SplitMismatch(splits, p)
         THEN With(splits, p.split.id, EntryFor(splits, p))
    ELSE IF Completes(splits, p) THEN Without(splits, p.split.id)
    ELSE With(splits, p.split.id, WithPart(splits, p))

\* add returns a packet: the packet itself, or the payloads in part order
\* under the header of the part that came first.
Returns(splits, p) == ~IsSplit(p) \/ Completes(splits, p)

\* Mutant: the payloads joined from the last part to the first.
AssembledReversed(splits, p) ==
    LET entry == WithPart(splits, p)
    IN  IF ~IsSplit(p) THEN p
        ELSE [entry.header EXCEPT
                !.payload = FlattenSeq([k \in 1 .. entry.count |-> entry.parts[entry.count - k]])]

Assembled(splits, p) ==
    LET entry == WithPart(splits, p)
    IN  IF ~IsSplit(p) THEN p
        ELSE [entry.header EXCEPT
                !.payload = FlattenSeq([k \in 1 .. entry.count |-> entry.parts[k - 1]])]

HeldFragments(splits) ==
    UNION {UNION {{splits[id].parts[i][k] : k \in DOMAIN splits[id].parts[i]} :
                    i \in DOMAIN splits[id].parts} : id \in DOMAIN splits}
=============================================================================
