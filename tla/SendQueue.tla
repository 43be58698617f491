------------------------------ MODULE SendQueue ------------------------------
(***************************************************************************)
(* The weighted send queue of a session (push_outgoing_encap and           *)
(* get_next_weight in raknet/src/session/outbound.rs, QueuedEncap in       *)
(* mod.rs) as operators on a record: heap, the queued packets with their   *)
(* weights; next_weights, one per priority level; last_min_weight.         *)
(***************************************************************************)
EXTENDS EncapsulatedPackets, SequencesExt

Levels == 0 .. 3       \* RakPriority::as_index, Immediate to Low

BaseWeight(level) == 2^level * level + level

QueueState ==
    [heap : SUBSET [weight : Nat, pkt : EncapsulatedPacket],
     next_weights : [Levels -> Nat], last_min_weight : Nat]

NewQueue ==
    [heap |-> {}, next_weights |-> [l \in Levels |-> BaseWeight(l)], last_min_weight |-> 0]

\* get_next_weight.  The weight is read before an empty heap resets the table,
\* and a level that has fallen behind last_min_weight keeps its old weight.
NextWeight(q, level) ==
    IF q.heap # {} /\ q.next_weights[level] >= q.last_min_weight
    THEN q.last_min_weight + BaseWeight(level)
    ELSE q.next_weights[level]

NextWeights(q, level) ==
    IF q.heap = {} THEN [l \in Levels |-> BaseWeight(l)]
    ELSE IF q.next_weights[level] >= q.last_min_weight
    THEN [q.next_weights EXCEPT
            ![level] = NextWeight(q, level) + 2^level * (level + 1) + level]
    ELSE q.next_weights

\* push_outgoing_encap.
PushEncap(q, pkt, level) ==
    LET weight == NextWeight(q, level)
    IN  [heap |-> q.heap \cup {[weight |-> weight, pkt |-> pkt]},
         next_weights |-> NextWeights(q, level),
         last_min_weight |-> weight - 2^level * level + level]

PushAll(q, packets, level) ==
    LET pushed[n \in 0 .. Len(packets)] ==
            IF n = 0 THEN q
            ELSE LET before == pushed[n - 1] IN PushEncap(before, packets[n], level)
    IN  pushed[Len(packets)]

\* The orders in which pop may empty the heap: by weight, and in any order
\* among equal weights, where the binary heap makes no promise.
PopOrders(q) ==
    {s \in [1 .. Cardinality(q.heap) -> q.heap] :
        \A i, j \in DOMAIN s : i < j => s[i] # s[j] /\ s[i].weight <= s[j].weight}
=============================================================================
