--------------------------- MODULE OutboundProofs ---------------------------
(***************************************************************************)
(* The sending half of a session, for every modulus, MTU, capacity and     *)
(* conversation: its types; that a slot of the window always holds the     *)
(* datagram whose number the code computes for it, and no reliable         *)
(* datagram is let go before its time; that datagrams fit the MTU and      *)
(* what is queued can leave; that the count of queued bytes is exact, and  *)
(* that the unacknowledged bytes cover all that is tracked.                *)
(*                                                                         *)
(* Sizes are sums over sequences and sets.  They are carried through the   *)
(* queue, a datagram and the window as sums over finite sets, of which     *)
(* SessionLemmas has the lemmas.                                           *)
(***************************************************************************)
EXTENDS Outbound, SessionLemmas

Slots == {sent_datagrams[k] : k \in DOMAIN sent_datagrams}

\* The window is a sequence; a slot in use is a single tracked datagram.
WindowShape ==
    /\ sent_datagrams \in Seq(Slots)
    /\ \A k \in DOMAIN sent_datagrams :
            IsTracked(sent_datagrams[k]) =>
                sent_datagrams[k] = <<[datagram |-> sent_datagrams[k][1].datagram,
                                       due |-> sent_datagrams[k][1].due]>>

\* All slots are for numbers that have been given out: there are no more of
\* them than numbers from the base to the next one, which is less than a lap.
WindowBehindWrite ==
    /\ datagram_write_index \in SeqNum
    /\ sent_datagrams_base \in SeqNum
    /\ Len(sent_datagrams) <= SeqDistance(sent_datagrams_base, datagram_write_index)

WindowInv == WindowShape /\ WindowBehindWrite /\ SlotIdentity /\ NoPrematureRelease

-----------------------------------------------------------------------------
\* A window given by its slots: what WindowShape says of length and domain.
LEMMA ShapeFacts ==
    ASSUME WindowShape
    PROVE  /\ Len(sent_datagrams) \in Nat
           /\ DOMAIN sent_datagrams = 1 .. Len(sent_datagrams)
BY LenProperties DEF WindowShape

\* Whatever is written as a function on 1 .. n is a sequence of its values.
LEMMA ShapeOfFunction ==
    ASSUME NEW n \in Nat, NEW f, f = [k \in 1 .. n |-> f[k]]
    PROVE  /\ f \in Seq({f[k] : k \in DOMAIN f})
           /\ Len(f) = n
           /\ DOMAIN f = 1 .. n
<1> DEFINE S == {f[k] : k \in DOMAIN f}
<1>1. DOMAIN f = 1 .. n
    OBVIOUS
<1>2. f \in [1 .. n -> S]
    BY <1>1
<1> QED BY <1>1, <1>2, FunctionIsSeq

\* The window is empty and nothing has been built.
LEMMA WindowInit == OutboundInit => WindowInv
<1> SUFFICES ASSUME OutboundInit PROVE WindowInv
    OBVIOUS
<1>1. sent_datagrams = <<>> /\ built = {}
    BY DEF OutboundInit
<1>2. DOMAIN sent_datagrams = {} /\ Len(sent_datagrams) = 0 /\ sent_datagrams \in Seq(Slots)
    BY <1>1
<1>3. SeqDistance(sent_datagrams_base, datagram_write_index) \in Nat
    BY OutboundAssumption, DistanceType DEF OutboundInit
<1> QED
    BY <1>1, <1>2, <1>3, OutboundAssumption
    DEF WindowInv, WindowShape, WindowBehindWrite, SlotIdentity, NoPrematureRelease, OutboundInit

\* Every step that leaves the window, the built datagrams and their fates alone.
LEMMA WindowUntouched ==
    ASSUME WindowInv,
           UNCHANGED <<sent_datagrams, sent_datagrams_base, datagram_write_index,
                       built, confirmed, given_up>>
    PROVE  WindowInv'
BY DEF WindowInv, WindowShape, Slots, WindowBehindWrite, SlotIdentity, NoPrematureRelease,
       TrackedNumbers, TrackedDatagrams, HasReliable, IsTracked

-----------------------------------------------------------------------------
\* track_sent_datagram for the number that is next: it takes a new slot at the
\* end, behind numbers that are not tracked, and overwrites none.
LEMMA TrackingKeepsWindow ==
    ASSUME WindowInv, WithinLap, NEW d, d.sequence = datagram_write_index,
           TrackSentDatagram(d),
           datagram_write_index' = SeqNext(datagram_write_index),
           built' = built \cup {d},
           UNCHANGED <<sent_datagrams_base, confirmed, given_up>>
    PROVE  WindowInv'
<1> DEFINE dist == SeqDistance(sent_datagrams_base, datagram_write_index)
           len == Len(sent_datagrams)
           Slot1 == <<[datagram |-> d, due |-> FALSE]>>
<1>1. /\ len \in Nat /\ DOMAIN sent_datagrams = 1 .. len
      /\ dist \in Nat /\ len <= dist /\ dist < Modulo - 1
      /\ sent_datagrams_base \in SeqNum /\ datagram_write_index \in SeqNum
    BY ShapeFacts, DistanceType DEF WindowInv, WindowBehindWrite, WithinLap
<1>2. sent_datagrams' = [k \in 1 .. dist + 1 |->
                            IF k = dist + 1 THEN Slot1
                            ELSE IF k <= len THEN sent_datagrams[k] ELSE <<>>]
    BY <1>1 DEF TrackSentDatagram
<1> HIDE DEF dist, len, Slot1
<1>3. sent_datagrams' \in Seq(Slots') /\ Len(sent_datagrams') = dist + 1
      /\ DOMAIN sent_datagrams' = 1 .. dist + 1
    BY <1>1, <1>2, ShapeOfFunction DEF Slots
<1>4. \A k \in 1 .. dist + 1 :
            IsTracked(sent_datagrams'[k]) =>
                \/ k = dist + 1 /\ sent_datagrams'[k] = Slot1
                \/ k \in DOMAIN sent_datagrams /\ sent_datagrams'[k] = sent_datagrams[k]
    BY <1>1, <1>2 DEF IsTracked
<1>5. Slot1 = <<[datagram |-> Slot1[1].datagram, due |-> Slot1[1].due]>>
      /\ Slot1[1].datagram = d /\ IsTracked(Slot1)
    BY DEF Slot1, IsTracked
<1>6. WindowShape'
    BY <1>3, <1>4, <1>5 DEF WindowInv, WindowShape
<1>7. WindowBehindWrite'
    BY <1>1, <1>3, NextType, DistanceNext DEF WindowBehindWrite, dist
<1>8. SlotIdentity'
    <2>1. d.sequence = SlotNumber(sent_datagrams_base, dist + 1)
        <3>1. (dist + 1) - 1 = dist
            BY <1>1
        <3> QED BY <1>1, <3>1, AddDistance DEF SlotNumber, dist
    <2> QED BY <1>3, <1>4, <1>5, <2>1 DEF WindowInv, SlotIdentity, SlotNumber
<1>9. NoPrematureRelease'
    <2>1. d.sequence \in TrackedNumbers'
        <3>1. sent_datagrams'[dist + 1] = Slot1 /\ dist + 1 \in 1 .. dist + 1
            BY <1>1, <1>2
        <3> QED BY <1>3, <1>5, <3>1 DEF TrackedNumbers, TrackedDatagrams
    <2>2. TrackedNumbers \subseteq TrackedNumbers'
        <3>1. \A k \in 1 .. len : k \in 1 .. dist + 1 /\ sent_datagrams'[k] = sent_datagrams[k]
            BY <1>1, <1>2
        <3> QED BY <1>1, <1>3, <3>1 DEF TrackedNumbers, TrackedDatagrams
    <2> QED BY <2>1, <2>2 DEF WindowInv, NoPrematureRelease, HasReliable
<1> QED BY <1>6, <1>7, <1>8, <1>9 DEF WindowInv

\* A datagram without a reliable packet only uses up a number.
LEMMA UntrackedKeepsWindow ==
    ASSUME WindowInv, WithinLap, NEW d, ~HasReliable(d),
           datagram_write_index' = SeqNext(datagram_write_index),
           built' = built \cup {d},
           UNCHANGED <<sent_datagrams, sent_datagrams_base, confirmed, given_up>>
    PROVE  WindowInv'
<1>1. WindowShape' /\ SlotIdentity'
    BY DEF WindowInv, WindowShape, Slots, SlotIdentity, IsTracked
<1>2. WindowBehindWrite'
    BY ShapeFacts, NextType, DistanceNext, DistanceType
    DEF WindowInv, WindowBehindWrite, WithinLap
<1>3. NoPrematureRelease'
    BY DEF WindowInv, NoPrematureRelease, HasReliable, TrackedNumbers, TrackedDatagrams, IsTracked
<1> QED BY <1>1, <1>2, <1>3 DEF WindowInv

\* build_data_datagram.
LEMMA BuildKeepsWindow ==
    ASSUME WindowInv, BuildDatagram
    PROVE  WindowInv'
<1>1. PICK s \in PopOrders(queue) :
        LET n == FillCount(s)
            d == [sequence |-> datagram_write_index, packets |-> [i \in 1 .. n |-> s[i].pkt]]
        IN  /\ datagram_write_index' = SeqNext(datagram_write_index)
            /\ IF HasReliable(d) THEN TrackSentDatagram(d)
                                 ELSE UNCHANGED <<sliding, sent_datagrams>>
            /\ built' = built \cup {d}
            /\ UNCHANGED <<sent_datagrams_base, confirmed, given_up>>
    BY DEF BuildDatagram
<1> DEFINE d == [sequence |-> datagram_write_index,
                 packets |-> [i \in 1 .. FillCount(s) |-> s[i].pkt]]
<1>2. WithinLap
    BY DEF BuildDatagram
<1>3. d.sequence = datagram_write_index
    OBVIOUS
<1>4. /\ datagram_write_index' = SeqNext(datagram_write_index)
      /\ IF HasReliable(d) THEN TrackSentDatagram(d)
                           ELSE UNCHANGED <<sliding, sent_datagrams>>
      /\ built' = built \cup {d}
      /\ UNCHANGED <<sent_datagrams_base, confirmed, given_up>>
    BY <1>1
<1> HIDE DEF d
<1>5. CASE HasReliable(d)
    BY <1>2, <1>3, <1>4, <1>5, TrackingKeepsWindow
<1>6. CASE ~HasReliable(d)
    BY <1>2, <1>4, <1>6, UntrackedKeepsWindow
<1> QED BY <1>5, <1>6

-----------------------------------------------------------------------------
\* clean_sent_datagrams pops a number of slots that are there.
LEMMA FrontType ==
    ASSUME NEW slots, NEW expired, Len(slots) \in Nat
    PROVE  CleanedFront(slots, expired) \in 0 .. Len(slots)
<1> DEFINE len == Len(slots)
           stops == {n \in 0 .. len :
                        \/ n = len
                        \/ /\ IsTracked(slots[n + 1])
                           /\ slots[n + 1][1].datagram.sequence \notin expired}
           two == {Min(stops), len - MaxSent}
<1>1. stops \subseteq Nat /\ stops \subseteq 0 .. len /\ len \in stops
    OBVIOUS
<1>2. CleanedFront(slots, expired) = Max(two)
    BY DEF CleanedFront
<1> HIDE DEF stops, len
<1>3. Min(stops) \in stops
    BY <1>1, MinFacts
<1>4. /\ len \in Nat /\ len \in Int /\ MaxSent \in Nat
      /\ Min(stops) \in 0 .. len
    <2>1. len \in Nat /\ MaxSent \in Nat
        BY OutboundAssumption DEF len
    <2>2. Min(stops) \in 0 .. len
        BY <1>1, <1>3, Zenon
    <2> QED BY <2>1, <2>2
<1>5. two \subseteq Int /\ two # {} /\ \A x \in two : x <= len
    <2>1. len - MaxSent \in Int /\ len - MaxSent <= len
        BY <1>4
    <2> QED BY <1>4, <2>1
<1>6. Min(stops) \in two
    OBVIOUS
<1> HIDE DEF two
<1>7. Max(two) \in two /\ \A y \in two : Max(two) >= y
    BY <1>4, <1>5, MaxFacts, Zenon
<1>8. Max(two) \in Int /\ Max(two) <= len /\ Max(two) >= Min(stops)
    BY <1>5, <1>6, <1>7, Zenon
<1>9. Max(two) \in 0 .. len
    BY <1>4, <1>8
<1> QED BY <1>2, <1>9 DEF len

\* Trimming keeps every tracked slot behind the front, each in its place.
LEMMA TrimmedFacts ==
    ASSUME NEW slots, NEW n \in Nat, DOMAIN slots = 1 .. n, NEW front \in 0 .. n
    PROVE  \E last \in front .. n :
              /\ Trimmed(slots, front) = [k \in 1 .. last - front |-> slots[front + k]]
              /\ \A k \in 1 .. n : IsTracked(slots[k]) => k <= last
<1> DEFINE T == {front} \cup {k \in DOMAIN slots : IsTracked(slots[k])}
<1>1. /\ T \subseteq Int /\ T # {} /\ \A x \in T : x <= n
      /\ front \in T /\ \A k \in 1 .. n : IsTracked(slots[k]) => k \in T
    OBVIOUS
<1>2. Trimmed(slots, front) = [k \in 1 .. Max(T) - front |-> slots[front + k]]
    BY DEF Trimmed
<1> HIDE DEF T
<1>3. Max(T) \in T /\ \A y \in T : Max(T) >= y
    <2>1. n \in Int
        OBVIOUS
    <2> QED BY <1>1, <2>1, MaxFacts, Zenon
<1>4. Max(T) \in front .. n
    <2>1. Max(T) \in Int /\ Max(T) <= n /\ Max(T) >= front
        BY <1>1, <1>3, Zenon
    <2> QED BY <2>1
<1>5. \A k \in 1 .. n : IsTracked(slots[k]) => k <= Max(T)
    BY <1>1, <1>3
<1> QED BY <1>2, <1>4, <1>5

\* Setting next_send leaves the datagram.
LEMMA SetDue ==
    ASSUME NEW r, NEW d, NEW b, NEW c, r = [datagram |-> d, due |-> b]
    PROVE  [r EXCEPT !.due = c] = [datagram |-> d, due |-> c]
OBVIOUS

\* collect_resendable_datagrams picks slots that are in use.
LEMMA ResendableTracked ==
    ASSUME NEW slots, NEW bandwidth, NEW k \in Resendable(slots, bandwidth)
    PROVE  IsTracked(slots[k])
BY DEF Resendable

-----------------------------------------------------------------------------
\* What a tick keeps, resends and gives up was tracked, and what it keeps is
\* not acknowledged.
TickKept ==
    /\ \A k \in DOMAIN sent_datagrams' : IsTracked(sent_datagrams'[k]) =>
            /\ sent_datagrams'[k][1].due \in BOOLEAN
            /\ sent_datagrams'[k][1].datagram \in TrackedDatagrams
            /\ sent_datagrams'[k][1].datagram.sequence \notin Contents(incoming_acks)
    /\ wire' \subseteq wire \cup TrackedDatagrams
    /\ given_up' \subseteq given_up \cup TrackedNumbers

\* on_tick.  Place k of the new window is place front + k of the old one, with
\* the datagram that was there, unless an ACK has taken it.
LEMMA TickKeepsWindow ==
    ASSUME WindowInv, NEW timers, NEW expired, SenderTick(timers, expired)
    PROVE  WindowInv' /\ TickKept
<1> DEFINE len == Len(sent_datagrams)
           acks == Contents(incoming_acks)
           remaining == AfterAcks
           front == CleanedFront(remaining, expired)
           cleaned == Trimmed(remaining, front)
           base == SeqAdd(sent_datagrams_base, front)
           nakked == {k \in DOMAIN cleaned : /\ IsTracked(cleaned[k])
                                             /\ SlotNumber(base, k) \in Contents(incoming_naks)}
           marked == [k \in DOMAIN cleaned |->
                        IF IsTracked(cleaned[k])
                        THEN <<[cleaned[k][1] EXCEPT
                                !.due = @ \/ k \in nakked
                                          \/ cleaned[k][1].datagram.sequence \in timers]>>
                        ELSE <<>>]
           afterNaks == IF nakked = {} THEN SlidingAfterAcks ELSE OnNak(SlidingAfterAcks)
           resent == Resendable(marked, RetransmissionBandwidth(afterNaks))
<1>1. /\ sent_datagrams_base' = base
      /\ sent_datagrams' =
            [k \in DOMAIN marked |->
                IF k \in resent THEN <<[marked[k][1] EXCEPT !.due = FALSE]>> ELSE marked[k]]
      /\ confirmed' = confirmed \cup acks
      /\ given_up' = given_up \cup {remaining[k][1].datagram.sequence :
                                        k \in {j \in 1 .. front : IsTracked(remaining[j])}}
      /\ wire' = wire \cup {marked[k][1].datagram : k \in resent}
      /\ UNCHANGED <<datagram_write_index, built>>
    BY DEF SenderTick, indexVars
<1>2. /\ len \in Nat /\ DOMAIN sent_datagrams = 1 .. len
      /\ sent_datagrams_base \in SeqNum /\ datagram_write_index \in SeqNum
      /\ SeqDistance(sent_datagrams_base, datagram_write_index) \in 0 .. Modulo - 1
      /\ len <= SeqDistance(sent_datagrams_base, datagram_write_index)
    BY ShapeFacts, DistanceType DEF WindowInv, WindowBehindWrite
<1> HIDE DEF len, resent
<1>3. /\ remaining = [k \in 1 .. len |-> remaining[k]]
      /\ \A k \in 1 .. len :
            remaining[k] = IF SlotNumber(sent_datagrams_base, k) \in acks
                           THEN <<>> ELSE sent_datagrams[k]
    BY <1>2 DEF AfterAcks
<1> HIDE DEF remaining, acks
<1>4. DOMAIN remaining = 1 .. len /\ Len(remaining) = len
    BY <1>2, <1>3, ShapeOfFunction
<1>5. front \in 0 .. len
    BY <1>2, <1>4, FrontType
<1> HIDE DEF front
<1>6. PICK last \in front .. len :
            /\ cleaned = [k \in 1 .. last - front |-> remaining[front + k]]
            /\ \A k \in 1 .. len : IsTracked(remaining[k]) => k <= last
    BY <1>2, <1>4, <1>5, TrimmedFacts
<1> DEFINE n == last - front
           Kept(k) == sent_datagrams[front + k][1].datagram
<1>7. n \in Nat /\ last \in Nat /\ front \in Nat /\ n + front = last
      /\ \A k \in 1 .. n : front + k \in 1 .. len
    BY <1>2, <1>5, <1>6
<1> HIDE DEF n, cleaned
<1>8. /\ DOMAIN cleaned = 1 .. n
      /\ \A k \in 1 .. n : cleaned[k] = remaining[front + k]
    BY <1>6 DEF n
<1>9. \A k \in 1 .. len : IsTracked(remaining[k]) =>
            /\ SlotNumber(sent_datagrams_base, k) \notin acks
            /\ IsTracked(sent_datagrams[k])
            /\ remaining[k] = <<[datagram |-> sent_datagrams[k][1].datagram,
                                 due |-> sent_datagrams[k][1].due]>>
            /\ sent_datagrams[k][1].datagram.sequence = SlotNumber(sent_datagrams_base, k)
    BY <1>2, <1>3 DEF WindowInv, WindowShape, SlotIdentity, IsTracked
<1> DEFINE Due(k) == (k \in nakked) \/ (cleaned[k][1].datagram.sequence \in timers)
<1>10. \A k \in 1 .. n :
            marked[k] = IF IsTracked(cleaned[k])
                        THEN <<[datagram |-> Kept(k), due |-> cleaned[k][1].due \/ Due(k)]>>
                        ELSE <<>>
    <2> SUFFICES ASSUME NEW k \in 1 .. n, IsTracked(cleaned[k])
                 PROVE  marked[k] = <<[datagram |-> Kept(k), due |-> cleaned[k][1].due \/ Due(k)]>>
        BY <1>8
    <2> HIDE DEF nakked
    <2>1. cleaned[k] = <<[datagram |-> Kept(k), due |-> sent_datagrams[front + k][1].due]>>
        BY <1>7, <1>8, <1>9
    <2>2. cleaned[k][1] = [datagram |-> Kept(k), due |-> sent_datagrams[front + k][1].due]
        BY <2>1
    <2>3. marked[k] = <<[cleaned[k][1] EXCEPT !.due = @ \/ k \in nakked
                              \/ cleaned[k][1].datagram.sequence \in timers]>>
        BY <1>8
    <2> QED BY <2>2, <2>3
<1>11. DOMAIN marked = 1 .. n
    BY <1>8
<1> HIDE DEF marked
<1>12. \A k \in resent : IsTracked(marked[k])
    BY ResendableTracked DEF resent
<1>13. \A k \in 1 .. n : \E b \in BOOLEAN :
            sent_datagrams'[k] = IF IsTracked(remaining[front + k])
                                 THEN <<[datagram |-> Kept(k), due |-> b]>>
                                 ELSE <<>>
    <2> SUFFICES ASSUME NEW k \in 1 .. n
                 PROVE  \E b \in BOOLEAN : sent_datagrams'[k] =
                                  IF IsTracked(remaining[front + k])
                                  THEN <<[datagram |-> Kept(k), due |-> b]>> ELSE <<>>
        OBVIOUS
    <2> DEFINE b0 == cleaned[k][1].due \/ Due(k)
    <2>1. marked[k] = IF IsTracked(remaining[front + k])
                      THEN <<[datagram |-> Kept(k), due |-> b0]>> ELSE <<>>
        BY <1>8, <1>10
    <2>2. sent_datagrams'[k] = IF k \in resent THEN <<[marked[k][1] EXCEPT !.due = FALSE]>>
                                               ELSE marked[k]
        BY <1>1, <1>11
    <2>0. b0 \in BOOLEAN
        OBVIOUS
    <2> HIDE DEF b0, Kept
    <2>3. CASE k \in resent
        <3>1. IsTracked(marked[k])
            BY <1>12, <2>3
        <3>2. IsTracked(remaining[front + k]) /\ marked[k] = <<[datagram |-> Kept(k), due |-> b0]>>
            BY <2>1, <3>1 DEF IsTracked
        <3>3. marked[k][1] = [datagram |-> Kept(k), due |-> b0]
            BY <3>2
        <3>4. [marked[k][1] EXCEPT !.due = FALSE] = [datagram |-> Kept(k), due |-> FALSE]
            BY <3>3, SetDue, Zenon
        <3>5. sent_datagrams'[k] = <<[datagram |-> Kept(k), due |-> FALSE]>>
            BY <2>2, <2>3, <3>4
        <3> QED BY <3>2, <3>5
    <2>4. CASE k \notin resent
        BY <2>0, <2>1, <2>2, <2>4
    <2> QED BY <2>3, <2>4
<1>14. sent_datagrams' \in Seq(Slots') /\ Len(sent_datagrams') = n
       /\ DOMAIN sent_datagrams' = 1 .. n
    <2>1. DOMAIN sent_datagrams' = 1 .. n
        BY <1>1, <1>11
    <2>2. sent_datagrams' = [k \in 1 .. n |-> sent_datagrams'[k]]
        BY <1>1, <2>1
    <2> QED BY <1>7, <2>2, ShapeOfFunction DEF Slots
<1>15. \A k \in 1 .. n :
            /\ IsTracked(sent_datagrams'[k]) <=> IsTracked(remaining[front + k])
            /\ IsTracked(sent_datagrams'[k]) =>
                 /\ sent_datagrams'[k] = <<[datagram |-> sent_datagrams'[k][1].datagram,
                                            due |-> sent_datagrams'[k][1].due]>>
                 /\ sent_datagrams'[k][1].due \in BOOLEAN
                 /\ sent_datagrams'[k][1].datagram = Kept(k)
    <2> HIDE DEF Kept
    <2> SUFFICES ASSUME NEW k \in 1 .. n
                 PROVE  /\ IsTracked(sent_datagrams'[k]) <=> IsTracked(remaining[front + k])
                        /\ IsTracked(sent_datagrams'[k]) =>
                             /\ sent_datagrams'[k] = <<[datagram |-> sent_datagrams'[k][1].datagram,
                                                        due |-> sent_datagrams'[k][1].due]>>
                             /\ sent_datagrams'[k][1].due \in BOOLEAN
                             /\ sent_datagrams'[k][1].datagram = Kept(k)
        OBVIOUS
    <2>1. PICK b \in BOOLEAN :
            sent_datagrams'[k] = IF IsTracked(remaining[front + k])
                                        THEN <<[datagram |-> Kept(k), due |-> b]>>
                                        ELSE <<>>
        BY <1>13
    <2> QED BY <2>1 DEF IsTracked
<1>16. WindowShape'
    BY <1>14, <1>15 DEF WindowShape
<1>17. WindowBehindWrite'
    <2>1. front <= SeqDistance(sent_datagrams_base, datagram_write_index)
          /\ front \in 0 .. Modulo - 1
        BY <1>2, <1>5, <1>7, ModuloAssumption
    <2>2. base \in SeqNum
        BY <1>2, <2>1, AddType
    <2>3. SeqDistance(base, datagram_write_index)
            = SeqDistance(sent_datagrams_base, datagram_write_index) - front
        BY <1>2, <1>7, <2>1, DistanceShift
    <2>4. n <= SeqDistance(sent_datagrams_base, datagram_write_index) - front
        BY <1>2, <1>6, <1>7
    <2> QED BY <1>1, <1>2, <1>14, <2>2, <2>3, <2>4 DEF WindowBehindWrite
<1>18. SlotIdentity'
    <2> SUFFICES ASSUME NEW k \in 1 .. n, IsTracked(sent_datagrams'[k])
                 PROVE  sent_datagrams'[k][1].datagram.sequence = SlotNumber(base, k)
        BY <1>1, <1>14 DEF SlotIdentity, SlotNumber
    <2>1. Kept(k).sequence = SlotNumber(sent_datagrams_base, front + k)
        BY <1>7, <1>9, <1>15
    <2>2. /\ k - 1 \in Nat /\ front + (k - 1) < Modulo /\ front + (k - 1) = (front + k) - 1
        BY <1>2, <1>7, ModuloAssumption
    <2>3. SlotNumber(base, k) = SlotNumber(sent_datagrams_base, front + k)
        BY <1>2, <1>7, <2>2, AddAdd DEF SlotNumber
    <2> QED BY <1>15, <2>1, <2>3
<1>19. NoPrematureRelease'
    <2> SUFFICES ASSUME NEW x \in TrackedNumbers
                 PROVE  x \in TrackedNumbers' \/ x \in confirmed' \/ x \in given_up'
        BY <1>1 DEF WindowInv, NoPrematureRelease, HasReliable
    <2>1. PICK k \in 1 .. len : IsTracked(sent_datagrams[k])
                                /\ x = sent_datagrams[k][1].datagram.sequence
        BY <1>2 DEF TrackedNumbers, TrackedDatagrams
    <2>2. x = SlotNumber(sent_datagrams_base, k)
        BY <1>2, <2>1 DEF WindowInv, SlotIdentity
    <2>3. CASE x \in acks
        BY <1>1, <2>3
    <2>4. CASE x \notin acks
        <3>1. remaining[k] = sent_datagrams[k] /\ IsTracked(remaining[k])
            BY <1>3, <2>1, <2>2, <2>4
        <3>2. CASE k <= front
            <4>1. k \in 1 .. front
                BY <1>7, <3>2
            <4>2. remaining[k][1].datagram.sequence \in given_up'
                BY <1>1, <3>1, <4>1
            <4> QED BY <2>1, <3>1, <4>2
        <3>3. CASE k > front
            <4>1. k <= last
                BY <1>6, <3>1
            <4>2. k - front \in 1 .. n /\ front + (k - front) = k
                BY <1>7, <3>3, <4>1
            <4>3. IsTracked(sent_datagrams'[k - front])
                  /\ sent_datagrams'[k - front][1].datagram = sent_datagrams[k][1].datagram
                BY <1>15, <3>1, <4>2
            <4> QED BY <1>14, <2>1, <4>2, <4>3 DEF TrackedNumbers, TrackedDatagrams
        <3>4. k <= front \/ k > front
            BY <1>7
        <3> QED BY <3>2, <3>3, <3>4
    <2> QED BY <2>3, <2>4
<1>20. ASSUME NEW k \in 1 .. len, IsTracked(remaining[k])
       PROVE  /\ remaining[k][1].datagram = sent_datagrams[k][1].datagram
              /\ remaining[k][1].datagram \in TrackedDatagrams
              /\ remaining[k][1].datagram.sequence \notin acks
    <2>1. /\ SlotNumber(sent_datagrams_base, k) \notin acks /\ IsTracked(sent_datagrams[k])
          /\ remaining[k] = <<[datagram |-> sent_datagrams[k][1].datagram,
                               due |-> sent_datagrams[k][1].due]>>
          /\ sent_datagrams[k][1].datagram.sequence = SlotNumber(sent_datagrams_base, k)
        BY <1>9, <1>20
    <2>2. remaining[k][1].datagram = sent_datagrams[k][1].datagram
        BY <2>1
    <2>3. sent_datagrams[k][1].datagram \in TrackedDatagrams
        BY <1>2, <2>1 DEF TrackedDatagrams
    <2> QED BY <2>1, <2>2, <2>3
<1>21. ASSUME NEW k \in DOMAIN sent_datagrams', IsTracked(sent_datagrams'[k])
       PROVE  /\ sent_datagrams'[k][1].due \in BOOLEAN
              /\ sent_datagrams'[k][1].datagram \in TrackedDatagrams
              /\ sent_datagrams'[k][1].datagram.sequence \notin acks
    <2>1. k \in 1 .. n /\ front + k \in 1 .. len /\ IsTracked(remaining[front + k])
        BY <1>7, <1>14, <1>15, <1>21
    <2> QED BY <1>15, <1>20, <1>21, <2>1
<1>22. wire' \subseteq wire \cup TrackedDatagrams
    <2> SUFFICES ASSUME NEW k \in resent PROVE marked[k][1].datagram \in TrackedDatagrams
        BY <1>1
    <2>1. k \in 1 .. n
        <3>1. k \in 1 .. Len(marked)
            BY DEF resent, Resendable
        <3>2. marked = [j \in 1 .. n |-> marked[j]]
            BY <1>11 DEF marked
        <3>3. Len(marked) = n
            BY <1>7, <3>2, ShapeOfFunction
        <3> QED BY <3>1, <3>3
    <2>2. IsTracked(marked[k])
        BY <1>12
    <2>3. IsTracked(cleaned[k]) /\ marked[k][1].datagram = Kept(k)
        <3> HIDE DEF Kept, Due
        <3>1. PICK b : marked[k] = IF IsTracked(cleaned[k]) THEN <<[datagram |-> Kept(k), due |-> b]>>
                                                           ELSE <<>>
            BY <1>10, <2>1
        <3> QED BY <2>2, <3>1 DEF IsTracked
    <2>4. front + k \in 1 .. len /\ IsTracked(remaining[front + k])
        BY <1>7, <1>8, <2>1, <2>3
    <2> QED BY <1>20, <2>3, <2>4
<1>23. given_up' \subseteq given_up \cup TrackedNumbers
    <2> SUFFICES ASSUME NEW k \in 1 .. front, IsTracked(remaining[k])
                 PROVE  remaining[k][1].datagram.sequence \in TrackedNumbers
        BY <1>1
    <2>1. k \in 1 .. len
        BY <1>2, <1>5
    <2> QED BY <1>20, <2>1 DEF TrackedNumbers
<1>24. TickKept
    BY <1>21, <1>22, <1>23 DEF TickKept, acks
<1> QED BY <1>16, <1>17, <1>18, <1>19, <1>24 DEF WindowInv

-----------------------------------------------------------------------------
\* Every step of the sender keeps the window's invariant.
LEMMA WindowStep == WindowInv /\ [OutboundNext]_outboundVars => WindowInv'
<1> SUFFICES ASSUME WindowInv, [OutboundNext]_outboundVars PROVE WindowInv'
    OBVIOUS
<1>1. ASSUME NEW m \in DOMAIN Messages, QueuePacket(m) PROVE WindowInv'
    BY <1>1, WindowUntouched DEF QueuePacket, windowVars
<1>2. CASE BuildDatagram
    BY <1>2, BuildKeepsWindow
<1>3. ASSUME NEW ranges \in Seq(SequenceRange),
             HandleAckPayload(ranges) \/ HandleNackPayload(ranges)
      PROVE  WindowInv'
    BY <1>3, WindowUntouched DEF HandleAckPayload, HandleNackPayload, windowVars, indexVars
<1>4. ASSUME NEW timers, NEW expired, SenderTick(timers, expired) PROVE WindowInv'
    BY <1>4, TickKeepsWindow
<1>5. CASE UNCHANGED outboundVars
    BY <1>5, WindowUntouched DEF outboundVars, windowVars, indexVars
<1> QED BY <1>1, <1>2, <1>3, <1>4, <1>5 DEF OutboundNext

\* Whatever is acknowledged, resent, given up and skipped over, an ACK or NAK
\* finds in its slot the datagram it names (process_incoming_acks and _naks,
\* clean_sent_datagrams, track_sent_datagram).
THEOREM SlotIdentityHolds == OutboundSpec => []SlotIdentity
<1>1. WindowInv => SlotIdentity
    BY DEF WindowInv
<1> QED BY WindowInit, WindowStep, <1>1, PTL DEF OutboundSpec

\* A datagram with a reliable packet stays tracked until an ACK names it, it
\* outlives its time or it is evicted, for every size of the window and across
\* the wrap of its numbers.
THEOREM NoPrematureReleaseHolds == OutboundSpec => []NoPrematureRelease
<1>1. WindowInv => NoPrematureRelease
    BY DEF WindowInv
<1> QED BY WindowInit, WindowStep, <1>1, PTL DEF OutboundSpec
-----------------------------------------------------------------------------
(* Sizes.                                                                  *)

\* The larger of two numbers.
LEMMA MaxTwo ==
    ASSUME NEW a \in Int, NEW b \in Int
    PROVE  Max({a, b}) = IF a >= b THEN a ELSE b
<1>1. PICK n : n = IF a >= b THEN a ELSE b
    OBVIOUS
<1>2. {a, b} \subseteq Int /\ {a, b} # {} /\ n \in Int /\ \A x \in {a, b} : x <= n
    BY <1>1
<1>3. Max({a, b}) \in {a, b} /\ \A y \in {a, b} : Max({a, b}) >= y
    BY <1>2, MaxFacts
<1> QED BY <1>3

\* What queue_packet makes: a packet that fits a datagram of its own.
SizedPacket ==
    {p \in EncapsulatedPacket :
        /\ PacketSize(p) \in Nat
        /\ IpUdpHeaders + DatagramHeader + PacketSize(p) <= Mtu}

Queueable == [weight : Int, pkt : SizedPacket]

\* What build_data_datagram makes.
SizedDatagram ==
    {d \in [sequence : SeqNum, packets : Seq(SizedPacket)] :
        DatagramSize(d) \in Nat /\ IpUdpHeaders + DatagramSize(d) <= Mtu}

\* The numbers that are summed, as functions.
Bytes == [q \in Queueable |-> ReliableBytes(q)]
Sizes == [d \in SizedDatagram |-> DatagramSize(d)]
Lengths(packets) == [i \in DOMAIN packets |-> PacketSize(packets[i])]

\* The reliable bytes of queued packets.
LEMMA BytesSum ==
    ASSUME NEW S, IsFiniteSet(S), S \subseteq Queueable
    PROVE  /\ \A q \in S : Bytes[q] \in Nat
           /\ MapThenSumSet(ReliableBytes, S) = SumOf(Bytes, S)
<1>1. \A q \in S : Bytes[q] \in Nat /\ Bytes[q] = ReliableBytes(q)
    BY DEF Queueable, SizedPacket, ReliableBytes, Bytes
<1>2. PICK h : IsSum(h, Bytes, S) /\ SumOf(Bytes, S) = h[S]
    BY SumOfFact
<1>3. \A f : IsSum(f, Bytes, S) <=>
             f = [s \in SUBSET S |->
                    IF s = {} THEN 0
                    ELSE ReliableBytes(CHOOSE x \in s : TRUE) + f[s \ {CHOOSE x \in s : TRUE}]]
    BY <1>1 DEF IsSum
<1>4. PICK f : IsSum(f, Bytes, S) /\ MapThenSumSet(ReliableBytes, S) = f[S]
    BY <1>2, <1>3 DEF MapThenSumSet, MapThenFoldSet
<1>5. f[S] = h[S]
    <2>1. IsFiniteSet(S) /\ S \in SUBSET S /\ (\A x \in S : Bytes[x] \in Nat) /\ IsSum(h, Bytes, S) /\ IsSum(f, Bytes, S)
        BY <1>1, <1>2, <1>4
    <2> QED BY <2>1, SumLocal
<1> QED BY <1>1, <1>2, <1>4, <1>5

\* The bytes of datagrams.
LEMMA SizesSum ==
    ASSUME NEW S, IsFiniteSet(S), S \subseteq SizedDatagram
    PROVE  /\ \A d \in S : Sizes[d] \in Nat
           /\ MapThenSumSet(DatagramSize, S) = SumOf(Sizes, S)
<1>1. \A d \in S : Sizes[d] \in Nat /\ Sizes[d] = DatagramSize(d)
    BY DEF SizedDatagram, Sizes
<1>2. PICK h : IsSum(h, Sizes, S) /\ SumOf(Sizes, S) = h[S]
    BY SumOfFact
<1>3. \A f : IsSum(f, Sizes, S) <=>
             f = [s \in SUBSET S |->
                    IF s = {} THEN 0
                    ELSE DatagramSize(CHOOSE x \in s : TRUE) + f[s \ {CHOOSE x \in s : TRUE}]]
    BY <1>1 DEF IsSum
<1>4. PICK f : IsSum(f, Sizes, S) /\ MapThenSumSet(DatagramSize, S) = f[S]
    BY <1>2, <1>3 DEF MapThenSumSet, MapThenFoldSet
<1>5. f[S] = h[S]
    <2>1. IsFiniteSet(S) /\ S \in SUBSET S /\ (\A x \in S : Sizes[x] \in Nat) /\ IsSum(h, Sizes, S) /\ IsSum(f, Sizes, S)
        BY <1>1, <1>2, <1>4
    <2> QED BY <2>1, SumLocal
<1> QED BY <1>1, <1>2, <1>4, <1>5

\* The bytes of the packets of a datagram.
LEMMA TotalSum ==
    ASSUME NEW n \in Nat, NEW packets \in [1 .. n -> SizedPacket]
    PROVE  /\ IsFiniteSet(1 .. n) /\ \A i \in 1 .. n : Lengths(packets)[i] \in Nat
           /\ TotalSize(packets) = SumOf(Lengths(packets), 1 .. n)
           /\ TotalSize(packets) \in Nat
<1> DEFINE S == 1 .. n
           w == Lengths(packets)
<1>1. \A i \in S : w[i] \in Nat /\ w[i] = PacketSize(packets[i])
    BY DEF SizedPacket, Lengths
<1>2. DOMAIN packets = S /\ IsFiniteSet(S)
    BY FS_Interval
<1> HIDE DEF S, w
<1>3. PICK h : IsSum(h, w, S) /\ SumOf(w, S) = h[S]
    BY <1>2, SumOfFact
<1>4. \A f : IsSum(f, w, S) <=>
             f = [s \in SUBSET S |->
                    IF s = {} THEN 0
                    ELSE PacketSize(packets[CHOOSE x \in s : TRUE]) + f[s \ {CHOOSE x \in s : TRUE}]]
    BY <1>1 DEF IsSum
<1>5. PICK f : IsSum(f, w, S) /\ TotalSize(packets) = f[S]
    BY <1>2, <1>3, <1>4 DEF TotalSize, MapThenSumSet, MapThenFoldSet
<1>6. f[S] = h[S]
    BY <1>1, <1>2, <1>3, <1>5, SumLocal
<1>7. SumOf(w, S) \in Nat
    BY <1>1, <1>2, SumType
<1> QED BY <1>1, <1>2, <1>3, <1>5, <1>6, <1>7 DEF S, w
\* A datagram has room for one packet of any header and at least a byte.
LEMMA PayloadRoom ==
    ASSUME NEW r \in Reliability, ~IsSequenced(r), NEW b \in BOOLEAN,
           NEW h, h = HeaderOverhead(r, b), NEW c, c = MaxPayload(r, b)
    PROVE  h \in Nat /\ c \in Nat \ {0} /\ 32 + h + c = Mtu
<1>1. h \in 3 .. 20
    BY DEF HeaderOverhead, HasOrderingIndex, IsOrdered
<1>2. HeaderOverhead("ReliableOrdered", TRUE) = 20
    BY DEF HeaderOverhead, HasOrderingIndex, IsOrdered, IsReliable, IsSequenced
<1>3. Mtu \in Nat /\ 52 < Mtu
    <2>1. IpUdpHeaders + DatagramHeader + HeaderOverhead("ReliableOrdered", TRUE) < Mtu
        BY OutboundAssumption
    <2>2. IpUdpHeaders + DatagramHeader + 20 < Mtu
        BY <1>2, <2>1, Zenon
    <2> QED BY <2>2, MtuAssumption DEF IpUdpHeaders, DatagramHeader
<1>4. PICK x : x = Mtu - h - IpUdpHeaders - DatagramHeader
    OBVIOUS
<1>5. x \in Int /\ x >= 1 /\ x = Mtu - h - 32
    BY <1>1, <1>3, <1>4 DEF IpUdpHeaders, DatagramHeader
<1>6. c = Max({1, x})
    BY <1>4, Zenon DEF MaxPayload
<1>7. c = x
    BY <1>5, <1>6, MaxTwo
<1> QED BY <1>1, <1>3, <1>5, <1>7

\* Cutting a payload of length l into chunks of length c.
LEMMA Chunks ==
    ASSUME NEW l \in Nat \ {0}, NEW c \in Nat \ {0}, NEW n, n = (l - 1) \div c + 1
    PROVE  n \in Nat \ {0} /\ l - (n - 1) * c \in 1 .. c
OBVIOUS

\* A message that the session has been given, and how it is sent.
LEMMA MessageFacts ==
    ASSUME NEW m \in DOMAIN Messages
    PROVE  /\ Messages[m] \in Message /\ m \in Nat
           /\ Messages[m].reliability \in Reliability /\ ~IsSequenced(Messages[m].reliability)
           /\ NormalizeForSplit(Messages[m].reliability) \in Reliability
           /\ ~IsSequenced(NormalizeForSplit(Messages[m].reliability))
           /\ Parts(Messages[m]) \in 1 .. Modulo - 1
           /\ Messages[m].length \in Nat \ {0} /\ Messages[m].channel \in Nat
           /\ Messages[m].level \in Levels
<1>1. Messages[m] \in Message /\ m \in Nat /\ ~IsSequenced(Messages[m].reliability)
    BY OutboundAssumption, ElementOfSeq, LenProperties
<1>2. /\ Messages[m].reliability \in Reliability /\ Messages[m].length \in Nat \ {0}
      /\ Messages[m].channel \in Nat /\ Messages[m].level \in Levels
    BY <1>1 DEF Message
<1>3. \A r \in Reliability : ~IsSequenced(r) =>
            NormalizeForSplit(r) \in Reliability /\ ~IsSequenced(NormalizeForSplit(r))
    BY DEF NormalizeForSplit, Reliability, IsSequenced
<1>4. Parts(Messages[m]) \in Nat \ {0}
    <2>1. CASE FitsWhole(Messages[m])
        BY <2>1 DEF Parts
    <2>2. CASE ~FitsWhole(Messages[m])
        <3>1. PICK c : c = MaxPayload(NormalizeForSplit(Messages[m].reliability), TRUE)
            OBVIOUS
        <3>2. c \in Nat \ {0}
            BY <1>1, <1>2, <1>3, <3>1, PayloadRoom
        <3>3. Parts(Messages[m]) = (Messages[m].length - 1) \div c + 1
            BY <2>2, <3>1, Zenon DEF Parts
        <3> QED BY <1>2, <3>2, <3>3, Chunks
    <2> QED BY <2>1, <2>2
<1>5. Parts(Messages[m]) < Modulo
    BY PartsAssumption
<1> QED BY <1>1, <1>2, <1>3, <1>4, <1>5, ModuloAssumption

\* queue_packet writes packets that fit, all with the same reliability, each
\* with its own fragment.
LEMMA EncapFacts ==
    ASSUME NEW m \in DOMAIN Messages, Messages[m].channel < OrderChannels,
           reliability_write_index \in SeqNum, split_index \in Nat,
           order_write \in [0 .. OrderChannels - 1 -> SeqNum]
    PROVE  /\ Encaps(m) \in [1 .. Parts(Messages[m]) -> SizedPacket]
           /\ \A i \in 1 .. Parts(Messages[m]) :
                /\ Encaps(m)[i].reliability = Encaps(m)[1].reliability
                /\ Encaps(m)[i].payload = <<<<m, i - 1, Parts(Messages[m])>>>>
<1> DEFINE msg == Messages[m]
           r == SentReliability(msg)
           n == Parts(msg)
           Encap(i) ==
               [reliability |-> r,
                reliable_index |-> IF IsReliable(r) THEN SeqAdd(reliability_write_index, i - 1) ELSE 0,
                ordering_index |-> IF IsOrdered(r) THEN order_write[msg.channel] ELSE SendStart,
                ordering_channel |-> IF IsOrdered(r) THEN msg.channel ELSE 0,
                split |-> IF FitsWhole(msg) THEN NotSplit
                          ELSE [count |-> n, id |-> split_index, index |-> i - 1],
                payload |-> <<<<m, i - 1, n>>>>]
<1>1. Encaps(m) = [i \in 1 .. n |-> Encap(i)]
    BY DEF Encaps, NumberedPackets
<1>2. /\ m \in Nat /\ n \in 1 .. Modulo - 1 /\ r \in Reliability /\ ~IsSequenced(r)
      /\ msg.length \in Nat \ {0} /\ msg.channel \in 0 .. OrderChannels - 1
    BY MessageFacts, OutboundAssumption DEF SentReliability
<1> HIDE DEF n, r
<1>3. ASSUME NEW i \in 1 .. n PROVE Encap(i) \in SizedPacket
    <2>1. i - 1 \in 0 .. Modulo - 1 /\ i - 1 \in Nat /\ n \in Nat /\ n # 0
        BY <1>2, ModuloAssumption
    <2>2. Encap(i).reliable_index \in SeqNum
        <3>1. SeqAdd(reliability_write_index, i - 1) \in SeqNum
            BY <2>1, AddType
        <3>2. 0 \in SeqNum
            BY ModuloAssumption DEF SeqNum
        <3> QED BY <3>1, <3>2
    <2>3. Encap(i).ordering_index \in SeqNum /\ Encap(i).ordering_channel \in Nat
        BY <1>2, OutboundAssumption
    <2>4. Encap(i).split \in SplitInfo
        BY <2>1 DEF SplitInfo, NotSplit
    <2>5. Encap(i).payload \in Seq(Fragment)
        <3>1. <<m, i - 1, n>> \in Fragment
            BY <1>2, <2>1 DEF Fragment
        <3> QED BY <3>1
    <2>6. Encap(i) \in EncapsulatedPacket
        BY <1>2, <2>2, <2>3, <2>4, <2>5 DEF EncapsulatedPacket
    <2>7. PICK e : e = Encap(i)
        OBVIOUS
    <2>8. /\ e.reliability = r
          /\ e.payload[1][1] = m /\ e.payload[1][2] = i - 1 /\ e.payload[1][3] = n
          /\ e.split = IF FitsWhole(msg) THEN NotSplit
                       ELSE [count |-> n, id |-> split_index, index |-> i - 1]
        BY <2>7
    <2>9. IsSplit(e) <=> ~FitsWhole(msg)
        BY <2>1, <2>8 DEF IsSplit, NotSplit
    <2>10. /\ PacketSize(e) \in Nat
           /\ IpUdpHeaders + DatagramHeader + PacketSize(e) <= Mtu
        <3>1. CASE FitsWhole(msg)
            <4>1. PICK h, c : h = HeaderOverhead(r, FALSE) /\ c = MaxPayload(r, FALSE)
                OBVIOUS
            <4>2. h \in Nat /\ c \in Nat \ {0} /\ 32 + h + c = Mtu
                BY <1>2, <4>1, PayloadRoom
            <4>3. msg.length <= c
                BY <3>1, <4>1, Zenon DEF FitsWhole, r, SentReliability
            <4>4. ~IsSplit(e)
                BY <2>9, <3>1
            <4>5. PayloadLength(e) = msg.length
                BY <2>8, <4>4 DEF PayloadLength
            <4>6. IsSplit(e) = FALSE
                BY <4>4 DEF IsSplit
            <4>7. PacketSize(e) = h + msg.length
                BY <2>8, <4>1, <4>5, <4>6, Zenon DEF PacketSize
            <4> QED BY <1>2, <4>2, <4>3, <4>7, MtuAssumption DEF IpUdpHeaders, DatagramHeader
        <3>2. CASE ~FitsWhole(msg)
            <4>1. PICK h, c : h = HeaderOverhead(r, TRUE) /\ c = MaxPayload(r, TRUE)
                OBVIOUS
            <4>2. h \in Nat /\ c \in Nat \ {0} /\ 32 + h + c = Mtu
                BY <1>2, <4>1, PayloadRoom
            <4>3. n = (msg.length - 1) \div c + 1
                BY <3>2, <4>1, Zenon DEF n, r, Parts, SentReliability
            <4>4. PICK last : last = msg.length - (n - 1) * c
                OBVIOUS
            <4>5. last \in 1 .. c
                BY <1>2, <4>2, <4>3, <4>4, Chunks
            <4>6. IsSplit(e) = TRUE
                BY <2>9, <3>2 DEF IsSplit
            <4>7. PayloadLength(e) = IF i - 1 < n - 1 THEN c ELSE last
                BY <2>8, <4>1, <4>4, <4>6, Zenon DEF PayloadLength
            <4>8. PacketSize(e) = h + PayloadLength(e)
                BY <2>8, <4>1, <4>6, Zenon DEF PacketSize
            <4>9. PayloadLength(e) \in 1 .. c
                BY <4>2, <4>5, <4>7
            <4> QED BY <4>2, <4>8, <4>9, MtuAssumption DEF IpUdpHeaders, DatagramHeader
        <3> QED BY <3>1, <3>2
    <2> QED BY <2>6, <2>7, <2>10 DEF SizedPacket
<1>4. \A i \in 1 .. n : Encap(i).reliability = r /\ Encap(i).payload = <<<<m, i - 1, n>>>>
    OBVIOUS
<1> HIDE DEF Encap
<1>5. 1 \in 1 .. n
    BY <1>2
<1> QED BY <1>1, <1>3, <1>4, <1>5 DEF n
-----------------------------------------------------------------------------
(* The send queue.                                                         *)

Queues ==
    {q \in [heap : SUBSET Queueable, next_weights : [Levels -> Int], last_min_weight : Int] :
        IsFiniteSet(q.heap)}

\* push_outgoing_encap adds one packet.
LEMMA PushEncapFacts ==
    ASSUME NEW q \in Queues, NEW p \in SizedPacket, NEW level \in Levels
    PROVE  /\ PushEncap(q, p, level) \in Queues
           /\ \E e \in Queueable : /\ e.pkt = p
                                   /\ PushEncap(q, p, level).heap = q.heap \cup {e}
<1>1. /\ q.heap \in SUBSET Queueable /\ IsFiniteSet(q.heap)
      /\ q.next_weights \in [Levels -> Int] /\ q.last_min_weight \in Int
    BY DEF Queues
<1>2. \A l \in Levels : l \in Int /\ 2^l \in Int /\ BaseWeight(l) \in Int
    BY DEF Levels, BaseWeight
<1>3. NextWeight(q, level) \in Int
    BY <1>1, <1>2 DEF NextWeight
<1>4. NextWeights(q, level) \in [Levels -> Int]
    <2>1. NextWeight(q, level) + 2^level * (level + 1) + level \in Int
        BY <1>2, <1>3
    <2> QED BY <1>1, <1>2, <2>1 DEF NextWeights
<1>5. NextWeight(q, level) - 2^level * level + level \in Int
    BY <1>2, <1>3
<1>6. PICK e : e = [weight |-> NextWeight(q, level), pkt |-> p]
    OBVIOUS
<1>7. e \in Queueable /\ e.pkt = p
    BY <1>3, <1>6 DEF Queueable
<1>8. IsFiniteSet(q.heap \cup {e})
    BY <1>1, FS_AddElement
<1>9. PushEncap(q, p, level) = [heap |-> q.heap \cup {e}, next_weights |-> NextWeights(q, level),
                                last_min_weight |-> NextWeight(q, level) - 2^level * level + level]
    BY <1>6 DEF PushEncap
<1>10. PushEncap(q, p, level).heap = q.heap \cup {e}
    BY <1>9
<1>11. q.heap \cup {e} \in SUBSET Queueable
    BY <1>1, <1>7
<1>12. PushEncap(q, p, level) \in Queues
    <2>1. PICK h, ws, min : h = q.heap \cup {e} /\ ws = NextWeights(q, level)
                            /\ min = NextWeight(q, level) - 2^level * level + level
        OBVIOUS
    <2>2. PushEncap(q, p, level) = [heap |-> h, next_weights |-> ws, last_min_weight |-> min]
        BY <1>9, <2>1, Zenon
    <2>3. h \in SUBSET Queueable /\ IsFiniteSet(h) /\ ws \in [Levels -> Int] /\ min \in Int
        BY <1>4, <1>5, <1>8, <1>11, <2>1, Zenon
    <2> QED BY <2>2, <2>3 DEF Queues
<1> QED BY <1>7, <1>10, <1>12

\* f is the queue after each push of packets.
Pushes(f, q, packets, n) ==
    /\ f[0] = q
    /\ \A k \in 0 .. n : f[k] \in Queues
    /\ \A k \in 1 .. n :
          \E e \in Queueable : e.pkt = packets[k] /\ f[k].heap = f[k - 1].heap \cup {e}

\* One packet of a message after the other is pushed.
LEMMA PushAllFacts ==
    ASSUME NEW q \in Queues, NEW n \in Nat, NEW packets \in [1 .. n -> SizedPacket],
           NEW level \in Levels
    PROVE  \E f : Pushes(f, q, packets, n) /\ PushAll(q, packets, level) = f[n]
<1> DEFINE D == Queues
           A == SizedPacket
           pushed == CHOOSE g : g = [k \in 0 .. n |->
                        IF k = 0 THEN q ELSE PushEncap(g[k - 1], packets[k], level)]
<1>1. packets \in Seq(A) /\ Len(packets) = n /\ \A k \in 1 .. n : packets[k] \in A
    BY FunctionIsSeq
<1>2. \A x \in D, p \in A : PushEncap(x, p, level) \in D
    BY PushEncapFacts
<1>3. PushAll(q, packets, level) = pushed[n]
    BY <1>1 DEF PushAll
<1>4. PICK op : op = [x \in D |-> [p \in A |-> PushEncap(x, p, level)]]
    OBVIOUS
<1>5. q \in D
    OBVIOUS
<1> HIDE DEF D, A
<1>6. op \in [D -> [A -> D]]
    BY <1>2, <1>4
<1>7. PICK h \in [0 .. n -> D] : IsFold(h, op, q, packets)
    BY <1>1, <1>5, <1>6, FoldExists
<1>8. h = [k \in 0 .. n |-> IF k = 0 THEN q ELSE PushEncap(h[k - 1], packets[k], level)]
    <2>1. ASSUME NEW k \in 0 .. n, k # 0
          PROVE  op[h[k - 1]][packets[k]] = PushEncap(h[k - 1], packets[k], level)
        <3>1. packets[k] \in A /\ h[k - 1] \in D
            BY <2>1, <1>1
        <3> QED BY <3>1, <1>4
    <2> QED BY <1>1, <1>7, <2>1 DEF IsFold
<1>9. pushed = [k \in 0 .. n |-> IF k = 0 THEN q ELSE PushEncap(pushed[k - 1], packets[k], level)]
    BY <1>8
<1> HIDE DEF pushed
<1>10. pushed[0] = q
    BY <1>9
<1>11. \A k \in 1 .. n : pushed[k] = PushEncap(pushed[k - 1], packets[k], level)
    BY <1>9
<1>12. \A k \in 1 .. n : pushed[k - 1] \in D => pushed[k] \in D
    BY <1>1, <1>2, <1>11
<1>13. \A k \in 0 .. n : pushed[k] \in D
    BY <1>5, <1>10, <1>12, StepInduction
<1>14. ASSUME NEW k \in 1 .. n
       PROVE  \E e \in Queueable : e.pkt = packets[k] /\ pushed[k].heap = pushed[k - 1].heap \cup {e}
    <2>1. pushed[k - 1] \in Queues /\ packets[k] \in SizedPacket
        BY <1>1, <1>13 DEF D, A
    <2>2. \E e \in Queueable :
            /\ e.pkt = packets[k]
            /\ PushEncap(pushed[k - 1], packets[k], level).heap = pushed[k - 1].heap \cup {e}
        <3>1. PICK x, p : x = pushed[k - 1] /\ p = packets[k]
            OBVIOUS
        <3>2. x \in Queues /\ p \in SizedPacket
            BY <2>1, <3>1
        <3>3. \E e \in Queueable : e.pkt = p /\ PushEncap(x, p, level).heap = x.heap \cup {e}
            BY <3>2, PushEncapFacts
        <3> QED BY <3>1, <3>3
    <2> QED BY <1>11, <2>2
<1> HIDE DEF D, pushed
<1>15. Pushes(pushed, q, packets, n)
    BY <1>10, <1>13, <1>14 DEF D, Pushes
<1> QED BY <1>3, <1>15

\* Packets of one message that are different and not in the queue.
Fresh(q, packets, n, r) ==
    /\ \A i \in 1 .. n : packets[i].reliability = r
    /\ \A i, j \in 1 .. n : packets[i] = packets[j] => i = j
    /\ \A e \in q.heap, i \in 1 .. n : e.pkt # packets[i]

\* Pushing the packets of a new message adds their bytes, if they are reliable.
LEMMA PushAllBytes ==
    ASSUME NEW q \in Queues, NEW n \in Nat, NEW packets \in [1 .. n -> SizedPacket],
           NEW level \in Levels, NEW r, Fresh(q, packets, n, r)
    PROVE  /\ PushAll(q, packets, level) \in Queues
           /\ \A e \in PushAll(q, packets, level).heap :
                e \in q.heap \/ \E i \in 1 .. n : e.pkt = packets[i]
           /\ SumOf(Bytes, PushAll(q, packets, level).heap) =
                SumOf(Bytes, q.heap) + (IF IsReliable(r) THEN TotalSize(packets) ELSE 0)
<1>0. PICK f : Pushes(f, q, packets, n) /\ PushAll(q, packets, level) = f[n]
    BY PushAllFacts
<1>1. /\ f[0] = q /\ PushAll(q, packets, level) = f[n]
      /\ \A k \in 0 .. n : f[k] \in Queues
      /\ \A k \in 1 .. n :
            \E e \in Queueable : e.pkt = packets[k] /\ f[k].heap = f[k - 1].heap \cup {e}
    BY <1>0 DEF Pushes
<1>2. PICK w : w = Lengths(packets)
    OBVIOUS
<1>3. /\ \A i \in 1 .. n : w[i] \in Nat /\ w[i] = PacketSize(packets[i])
      /\ TotalSize(packets) = SumOf(w, 1 .. n)
    BY <1>2, TotalSum DEF Lengths
<1> DEFINE Part(k) == IF IsReliable(r) THEN SumOf(w, 1 .. k) ELSE 0
           Good(k) == /\ \A e \in f[k].heap : e \in q.heap \/ \E i \in 1 .. k : e.pkt = packets[i]
                      /\ SumOf(Bytes, f[k].heap) = SumOf(Bytes, q.heap) + Part(k)
           D == {k \in 0 .. n : Good(k)}
<1>4. \A k \in 0 .. n : /\ IsFiniteSet(f[k].heap) /\ f[k].heap \subseteq Queueable
                        /\ SumOf(Bytes, f[k].heap) \in Nat
    <2> TAKE k \in 0 .. n
    <2>1. IsFiniteSet(f[k].heap) /\ f[k].heap \subseteq Queueable
        BY <1>1 DEF Queues
    <2>2. \A e \in f[k].heap : Bytes[e] \in Nat
        BY <2>1, BytesSum
    <2> QED BY <2>1, <2>2, SumType
<1>5. 0 \in D
    <2>1. Part(0) = 0
        <3>1. 1 .. 0 = {}
            OBVIOUS
        <3> QED BY <3>1, SumEmpty
    <2>2. SumOf(Bytes, q.heap) \in Nat
        BY <1>1, <1>4
    <2> QED BY <1>1, <2>1, <2>2
<1>6. ASSUME NEW k \in 1 .. n, k - 1 \in D PROVE k \in D
    <2>1. k - 1 \in 0 .. n /\ k \in 0 .. n /\ Good(k - 1)
        BY <1>6
    <2>2. PICK e \in Queueable : e.pkt = packets[k] /\ f[k].heap = f[k - 1].heap \cup {e}
        BY <1>1
    <2>3. e \notin f[k - 1].heap
        <3>1. \A i \in 1 .. k - 1 : i \in 1 .. n /\ i # k
            OBVIOUS
        <3> QED BY <2>1, <2>2, <3>1 DEF Fresh
    <2>4. SumOf(Bytes, f[k].heap) = Bytes[e] + SumOf(Bytes, f[k - 1].heap)
        <3>1. IsFiniteSet(f[k - 1].heap) /\ f[k - 1].heap \cup {e} \subseteq Queueable
              /\ IsFiniteSet(f[k - 1].heap \cup {e})
            BY <1>4, <2>1, <2>2
        <3>2. \A x \in f[k - 1].heap \cup {e} : Bytes[x] \in Nat
            BY <3>1, BytesSum
        <3>3. SumOf(Bytes, f[k - 1].heap \cup {e}) = Bytes[e] + SumOf(Bytes, f[k - 1].heap)
            <4>1. PICK h : h = f[k - 1].heap
                OBVIOUS
            <4>2. IsFiniteSet(h) /\ e \notin h /\ \A x \in h \cup {e} : Bytes[x] \in Nat
                BY <2>3, <3>1, <3>2, <4>1
            <4>3. SumOf(Bytes, h \cup {e}) = Bytes[e] + SumOf(Bytes, h)
                BY <4>2, SumAdd
            <4> QED BY <4>1, <4>3
        <3> QED BY <2>2, <3>3
    <2>5. Bytes[e] = IF IsReliable(r) THEN w[k] ELSE 0
        BY <1>3, <2>2 DEF Bytes, ReliableBytes, Fresh
    <2>6. SumOf(w, 1 .. k) = w[k] + SumOf(w, 1 .. k - 1) /\ SumOf(w, 1 .. k - 1) \in Nat
        <3>0. k \notin 1 .. k - 1 /\ 1 .. k = (1 .. k - 1) \cup {k}
            OBVIOUS
        <3>1. IsFiniteSet(1 .. k - 1)
            <4>1. k - 1 \in Int
                OBVIOUS
            <4> QED BY <4>1, FS_Interval
        <3>2. \A i \in (1 .. k - 1) \cup {k} : w[i] \in Nat
            BY <1>3
        <3> QED BY <3>0, <3>1, <3>2, SumAdd, SumType
    <2>7. Part(k) = Bytes[e] + Part(k - 1) /\ Part(k - 1) \in Nat /\ Bytes[e] \in Nat
        BY <1>3, <2>5, <2>6
    <2>8. SumOf(Bytes, q.heap) \in Nat /\ SumOf(Bytes, f[k - 1].heap) \in Nat
        BY <1>1, <1>4, <2>1
    <2> HIDE DEF Part
    <2>9. SumOf(Bytes, f[k].heap) = SumOf(Bytes, q.heap) + Part(k)
        BY <2>1, <2>4, <2>7, <2>8
    <2>10. \A x \in f[k].heap : x \in q.heap \/ \E i \in 1 .. k : x.pkt = packets[i]
        <3>1. k \in 1 .. k /\ \A i \in 1 .. k - 1 : i \in 1 .. k
            OBVIOUS
        <3> QED BY <2>1, <2>2, <3>1
    <2> QED BY <2>1, <2>9, <2>10
<1>7. PICK g : g = [k \in 0 .. n |-> k]
    OBVIOUS
<1> HIDE DEF D
<1>8. g[0] \in D /\ \A k \in 1 .. n : g[k - 1] \in D => g[k] \in D
    BY <1>5, <1>6, <1>7
<1>9. n \in D
    <2>1. \A k \in 0 .. n : g[k] \in D
        BY <1>8, StepInduction
    <2>2. n \in 0 .. n /\ g[n] = n
        BY <1>7
    <2> QED BY <2>1, <2>2
<1>10. n \in 0 .. n
    OBVIOUS
<1> QED BY <1>1, <1>3, <1>9, <1>10 DEF D

-----------------------------------------------------------------------------
(* Filling a datagram.                                                     *)

\* The packets of a queue, in an order in which they may be popped.
LEMMA PopFacts ==
    ASSUME NEW q \in Queues, NEW s \in PopOrders(q)
    PROVE  \E n \in Nat : /\ s \in [1 .. n -> q.heap] /\ s \in [1 .. n -> Queueable]
                          /\ Len(s) = n
                          /\ \A i, j \in 1 .. n : s[i] = s[j] => i = j
<1>1. q.heap \subseteq Queueable /\ IsFiniteSet(q.heap)
    BY DEF Queues
<1>2. PICK n : n = Cardinality(q.heap)
    OBVIOUS
<1>3. n \in Nat
    BY <1>1, <1>2, FS_CardinalityType
<1>4. s \in [1 .. n -> q.heap] /\ \A i, j \in DOMAIN s : i < j => s[i] # s[j]
    BY <1>2 DEF PopOrders
<1>5. \A i, j \in 1 .. n : s[i] = s[j] => i = j
    BY <1>4
<1>6. Len(s) = n
    BY <1>3, <1>4, FunctionIsSeq
<1> QED BY <1>1, <1>3, <1>4, <1>5, <1>6

\* fill_datagram takes a number of packets that fits.
LEMMA FillFacts ==
    ASSUME NEW N \in Nat, NEW s \in [1 .. N -> Queueable], Len(s) = N, sliding \in WindowState
    PROVE  /\ FillCount(s) \in 0 .. N
           /\ [i \in 1 .. FillCount(s) |-> s[i].pkt] \in [1 .. FillCount(s) -> SizedPacket]
           /\ IpUdpHeaders + DatagramHeader + TotalSize([i \in 1 .. FillCount(s) |-> s[i].pkt]) <= Mtu
<1> DEFINE Used(k) == TotalSize([i \in 1 .. k |-> s[i].pkt])
           T == {k \in 0 .. N : /\ Used(k) <= TransmissionBandwidth(sliding)
                                /\ IpUdpHeaders + DatagramHeader + Used(k) <= Mtu}
<1>1. ASSUME NEW k \in 0 .. N
      PROVE  [i \in 1 .. k |-> s[i].pkt] \in [1 .. k -> SizedPacket]
    BY DEF Queueable
<1>2. Used(0) = 0
    <2>1. PICK f : f = [i \in 1 .. 0 |-> s[i].pkt]
        OBVIOUS
    <2>2. f \in [1 .. 0 -> SizedPacket]
        BY <2>1
    <2>3. TotalSize(f) = SumOf(Lengths(f), 1 .. 0)
        BY <2>2, TotalSum
    <2>4. 1 .. 0 = {}
        OBVIOUS
    <2> QED BY <2>1, <2>3, <2>4, SumEmpty
<1>3. TransmissionBandwidth(sliding) \in Nat
    BY DEF WindowState, TransmissionBandwidth
<1>4. 32 <= Mtu /\ Mtu \in Nat
    <2>1. PICK h, c : h = HeaderOverhead("Reliable", FALSE) /\ c = MaxPayload("Reliable", FALSE)
        OBVIOUS
    <2>2. "Reliable" \in Reliability /\ ~IsSequenced("Reliable") /\ FALSE \in BOOLEAN
        BY DEF Reliability, IsSequenced
    <2>3. h \in Nat /\ c \in Nat \ {0} /\ 32 + h + c = Mtu
        BY <2>1, <2>2, PayloadRoom
    <2> QED BY <2>3, MtuAssumption
<1> HIDE DEF Used
<1>5. 0 \in T
    BY <1>2, <1>3, <1>4 DEF IpUdpHeaders, DatagramHeader
<1>6. T \subseteq Int /\ T # {} /\ N \in Int /\ \A x \in T : x <= N
    BY <1>5
<1>7. FillCount(s) = Max(T)
    BY DEF FillCount, Used
<1>8. Max(T) \in T
    BY <1>6, MaxFacts
<1>9. PICK m : m = FillCount(s)
    OBVIOUS
<1>10. m \in 0 .. N /\ IpUdpHeaders + DatagramHeader + Used(m) <= Mtu
    BY <1>7, <1>8, <1>9
<1> QED BY <1>1, <1>9, <1>10 DEF Used

\* debit_reliable_bytes, one packet after the other.
LEMMA DebitFacts ==
    ASSUME NEW n \in Nat, NEW packets \in [1 .. n -> SizedPacket], queued_reliable_bytes \in Nat
    PROVE  \E f : /\ f[0] = queued_reliable_bytes /\ Debited(packets) = f[n]
                  /\ \A k \in 1 .. n :
                        f[k] = IF IsReliable(packets[k].reliability)
                               THEN Max({0, f[k - 1] - PacketSize(packets[k])}) ELSE f[k - 1]
<1> DEFINE D == Nat
           A == SizedPacket
           Less(x, p) == IF IsReliable(p.reliability) THEN Max({0, x - PacketSize(p)}) ELSE x
           left == CHOOSE g : g = [k \in 0 .. n |->
                        IF k = 0 THEN queued_reliable_bytes ELSE Less(g[k - 1], packets[k])]
<1>1. packets \in Seq(A) /\ Len(packets) = n /\ \A k \in 1 .. n : packets[k] \in A
    BY FunctionIsSeq
<1>2. \A x \in D, p \in A : Less(x, p) \in D
    <2> TAKE x \in D, p \in A
    <2>1. PacketSize(p) \in Nat
        BY DEF SizedPacket
    <2>2. PICK y : y = x - PacketSize(p)
        OBVIOUS
    <2>3. y \in Int
        BY <2>1, <2>2
    <2>4. Max({0, y}) \in Nat
        BY <2>3, MaxTwo
    <2> QED BY <2>2, <2>4
<1>3. Debited(packets) = left[n]
    BY <1>1 DEF Debited
<1>4. PICK op : op = [x \in D |-> [p \in A |-> Less(x, p)]]
    OBVIOUS
<1>5. queued_reliable_bytes \in D
    OBVIOUS
<1> HIDE DEF D, A, Less
<1>6. op \in [D -> [A -> D]]
    BY <1>2, <1>4
<1>7. PICK h \in [0 .. n -> D] : IsFold(h, op, queued_reliable_bytes, packets)
    BY <1>1, <1>5, <1>6, FoldExists
<1>8. h = [k \in 0 .. n |-> IF k = 0 THEN queued_reliable_bytes ELSE Less(h[k - 1], packets[k])]
    <2>1. ASSUME NEW k \in 0 .. n, k # 0
          PROVE  op[h[k - 1]][packets[k]] = Less(h[k - 1], packets[k])
        <3>1. packets[k] \in A /\ h[k - 1] \in D
            BY <2>1, <1>1
        <3> QED BY <3>1, <1>4
    <2> QED BY <1>1, <1>7, <2>1 DEF IsFold
<1>9. left = [k \in 0 .. n |-> IF k = 0 THEN queued_reliable_bytes ELSE Less(left[k - 1], packets[k])]
    BY <1>8
<1> HIDE DEF left
<1>10. left[0] = queued_reliable_bytes
    BY <1>9
<1>11. \A k \in 1 .. n : left[k] = Less(left[k - 1], packets[k])
    BY <1>9
<1> QED BY <1>3, <1>10, <1>11 DEF Less

\* packets are the first n of the N different members of heap that s lists.
Draws(heap, s, N, n, packets) ==
    /\ s \in [1 .. N -> heap] /\ \A i, j \in 1 .. N : s[i] = s[j] => i = j
    /\ packets = [i \in 1 .. n |-> s[i].pkt] /\ packets \in [1 .. n -> SizedPacket]

\* Debiting the packets that are popped leaves the bytes of those that remain.
LEMMA DebitExact ==
    ASSUME NEW heap, IsFiniteSet(heap), heap \subseteq Queueable,
           NEW N \in Nat, NEW n \in 0 .. N, NEW s, NEW packets, Draws(heap, s, N, n, packets),
           queued_reliable_bytes = SumOf(Bytes, heap)
    PROVE  Debited(packets) = SumOf(Bytes, heap \ {s[i] : i \in 1 .. n})
<1>0. /\ s \in [1 .. N -> heap] /\ \A i, j \in 1 .. N : s[i] = s[j] => i = j
      /\ packets = [i \in 1 .. n |-> s[i].pkt] /\ packets \in [1 .. n -> SizedPacket]
    BY DEF Draws
<1> DEFINE Rest(k) == heap \ {s[i] : i \in 1 .. k}
<1>1. n \in Nat /\ \A q \in heap : Bytes[q] \in Nat
    BY BytesSum
<1>2. \A T \in SUBSET heap : IsFiniteSet(T) /\ SumOf(Bytes, T) \in Nat
    <2> TAKE T \in SUBSET heap
    <2>1. IsFiniteSet(T) /\ \A q \in T : Bytes[q] \in Nat
        BY <1>1, FS_Subset
    <2> QED BY <2>1, SumType
<1>3. queued_reliable_bytes \in Nat
    BY <1>2
<1>4. PICK f : /\ f[0] = queued_reliable_bytes /\ Debited(packets) = f[n]
               /\ \A k \in 1 .. n :
                    f[k] = IF IsReliable(packets[k].reliability)
                           THEN Max({0, f[k - 1] - PacketSize(packets[k])}) ELSE f[k - 1]
    BY <1>0, <1>1, <1>3, DebitFacts
<1> DEFINE Good(k) == f[k] = SumOf(Bytes, Rest(k))
           D == {k \in 0 .. n : Good(k)}
<1>5. 0 \in D
    <2>1. Rest(0) = heap
        OBVIOUS
    <2>2. SumOf(Bytes, Rest(0)) = SumOf(Bytes, heap)
        BY <2>1
    <2>3. 0 \in 0 .. n /\ f[0] = SumOf(Bytes, heap)
        BY <1>1, <1>4
    <2> HIDE DEF Rest
    <2> QED BY <2>2, <2>3
<1>6. ASSUME NEW k \in 1 .. n, k - 1 \in D PROVE k \in D
    <2>1. k - 1 \in 0 .. n /\ f[k - 1] = SumOf(Bytes, Rest(k - 1)) /\ k \in 1 .. N /\ k \in 0 .. n
        BY <1>6
    <2>2. s[k] \in Rest(k - 1) /\ Rest(k) = Rest(k - 1) \ {s[k]}
        <3>1. \A i \in 1 .. k - 1 : i \in 1 .. N /\ i # k
            BY <2>1
        <3>2. \A i \in 1 .. k : i \in 1 .. k - 1 \/ i = k
            OBVIOUS
        <3>3. k \in 1 .. k /\ \A i \in 1 .. k - 1 : i \in 1 .. k
            OBVIOUS
        <3> QED BY <1>0, <2>1, <3>1, <3>2, <3>3
    <2>3. SumOf(Bytes, Rest(k - 1)) = Bytes[s[k]] + SumOf(Bytes, Rest(k))
        <3>1. IsFiniteSet(Rest(k - 1)) /\ \A q \in Rest(k - 1) : Bytes[q] \in Nat
            BY <1>1, <1>2
        <3>2. PICK T, U : T = Rest(k - 1) /\ U = Rest(k)
            OBVIOUS
        <3>3. s[k] \in T /\ U = T \ {s[k]} /\ IsFiniteSet(T) /\ \A q \in T : Bytes[q] \in Nat
            BY <2>2, <3>1, <3>2
        <3>4. SumOf(Bytes, T) = Bytes[s[k]] + SumOf(Bytes, U)
            BY <3>3, SumRemove
        <3> QED BY <3>2, <3>4
    <2>4. s[k] \in Queueable /\ packets[k] = s[k].pkt /\ packets[k] \in SizedPacket
        BY <1>0, <2>1
    <2>5. Bytes[s[k]] = IF IsReliable(packets[k].reliability) THEN PacketSize(packets[k]) ELSE 0
        BY <2>4 DEF Bytes, ReliableBytes
    <2>6. PICK size, rest : size = PacketSize(packets[k]) /\ rest = SumOf(Bytes, Rest(k))
        OBVIOUS
    <2>7. size \in Nat /\ rest \in Nat
        BY <1>2, <2>4, <2>6 DEF SizedPacket
    <2>8. CASE IsReliable(packets[k].reliability)
        <3>1. f[k - 1] = size + rest
            BY <2>1, <2>3, <2>5, <2>6, <2>8
        <3>2. f[k - 1] - size = rest
            BY <2>7, <3>1
        <3>3. f[k] = Max({0, rest})
            BY <1>4, <2>6, <2>8, <3>2
        <3>4. Max({0, rest}) = rest
            BY <2>7, MaxTwo
        <3> QED BY <2>1, <2>6, <3>3, <3>4
    <2>9. CASE ~IsReliable(packets[k].reliability)
        <3>1. f[k] = f[k - 1] /\ Bytes[s[k]] = 0
            BY <1>4, <2>5, <2>9
        <3>2. f[k] = rest
            BY <2>1, <2>3, <2>6, <2>7, <3>1
        <3> QED BY <2>1, <2>6, <3>2
    <2> QED BY <2>8, <2>9
<1>7. PICK g : g = [k \in 0 .. n |-> k]
    OBVIOUS
<1> HIDE DEF D
<1>8. g[0] \in D /\ \A k \in 1 .. n : g[k - 1] \in D => g[k] \in D
    BY <1>5, <1>6, <1>7
<1>9. \A k \in 0 .. n : g[k] \in D
    BY <1>1, <1>8, StepInduction
<1>10. n \in 0 .. n /\ g[n] = n
    BY <1>7
<1>11. n \in D
    BY <1>9, <1>10
<1> QED BY <1>4, <1>11 DEF D

-----------------------------------------------------------------------------
(* The sliding window.                                                     *)

\* The congestion window never closes below the MTU.
Windows == {w \in WindowState : w.cwnd >= Mtu}

\* A window given by its fields.
LEMMA WindowFields ==
    ASSUME NEW w \in Windows
    PROVE  /\ w = [cwnd |-> w.cwnd, ss_thresh |-> w.ss_thresh,
                   next_congestion_block |-> w.next_congestion_block,
                   backoff_this_block |-> w.backoff_this_block, unacked_bytes |-> w.unacked_bytes]
           /\ w.cwnd \in Nat /\ w.cwnd >= Mtu /\ w.ss_thresh \in Nat /\ w.unacked_bytes \in Nat
           /\ w.next_congestion_block \in SeqNum /\ w.backoff_this_block \in BOOLEAN
           /\ Mtu \in Nat \ {0}
<1>1. Mtu \in Nat \ {0}
    <2>1. PICK h, c : h = HeaderOverhead("Reliable", FALSE) /\ c = MaxPayload("Reliable", FALSE)
        OBVIOUS
    <2>2. "Reliable" \in Reliability /\ ~IsSequenced("Reliable") /\ FALSE \in BOOLEAN
        BY DEF Reliability, IsSequenced
    <2>3. h \in Nat /\ c \in Nat \ {0} /\ 32 + h + c = Mtu
        BY <2>1, <2>2, PayloadRoom
    <2> QED BY <2>3, MtuAssumption
<1> QED BY <1>1 DEF Windows, WindowState

\* A window made of fields.
LEMMA WindowMade ==
    ASSUME NEW c \in Nat, c >= Mtu, NEW t \in Nat, NEW b \in SeqNum, NEW f \in BOOLEAN, NEW u \in Nat,
           NEW w, w = [cwnd |-> c, ss_thresh |-> t, next_congestion_block |-> b,
                       backoff_this_block |-> f, unacked_bytes |-> u]
    PROVE  w \in Windows /\ w.unacked_bytes = u
BY DEF Windows, WindowState

\* on_reliable_send, on_nak and on_resend keep the window open; only the first
\* touches the unacknowledged bytes.
LEMMA SlidingMoves ==
    ASSUME NEW w \in Windows, NEW size \in Nat, NEW seq \in SeqNum
    PROVE  /\ OnReliableSend(w, size) \in Windows
           /\ OnReliableSend(w, size).unacked_bytes = w.unacked_bytes + size
           /\ OnNak(w) \in Windows /\ OnNak(w).unacked_bytes = w.unacked_bytes
           /\ OnResend(w, seq) \in Windows /\ OnResend(w, seq).unacked_bytes = w.unacked_bytes
<1>1. PICK c, t, b, f, u : /\ c = w.cwnd /\ t = w.ss_thresh /\ b = w.next_congestion_block
                           /\ f = w.backoff_this_block /\ u = w.unacked_bytes
    OBVIOUS
<1>2. /\ w = [cwnd |-> c, ss_thresh |-> t, next_congestion_block |-> b,
              backoff_this_block |-> f, unacked_bytes |-> u]
      /\ c \in Nat /\ c >= Mtu /\ t \in Nat /\ u \in Nat /\ b \in SeqNum /\ f \in BOOLEAN
      /\ Mtu \in Nat \ {0}
    BY <1>1, WindowFields
<1>3. OnReliableSend(w, size) \in Windows /\ OnReliableSend(w, size).unacked_bytes = u + size
    <2>1. OnReliableSend(w, size) = [cwnd |-> c, ss_thresh |-> t, next_congestion_block |-> b,
                                     backoff_this_block |-> f, unacked_bytes |-> u + size]
        BY <1>2 DEF OnReliableSend
    <2>2. u + size \in Nat
        BY <1>2
    <2> QED BY <1>2, <2>1, <2>2, WindowMade
<1>4. OnNak(w) \in Windows /\ OnNak(w).unacked_bytes = u
    <2>1. CASE f
        BY <1>1, <2>1 DEF OnNak
    <2>2. CASE ~f
        <3>1. PICK x : x = (3 * c) \div 4
            OBVIOUS
        <3>2. x \in Nat
            BY <1>2, <3>1
        <3>3. OnNak(w) = [w EXCEPT !.ss_thresh = x]
            BY <1>1, <2>2, <3>1, Zenon DEF OnNak
        <3>4. OnNak(w) = [cwnd |-> c, ss_thresh |-> x, next_congestion_block |-> b,
                          backoff_this_block |-> f, unacked_bytes |-> u]
            BY <1>2, <3>3
        <3> QED BY <1>2, <3>2, <3>4, WindowMade
    <2> QED BY <2>1, <2>2
<1>5. OnResend(w, seq) \in Windows /\ OnResend(w, seq).unacked_bytes = u
    <2>1. CASE f \/ c <= 2 * Mtu
        BY <1>1, <2>1 DEF OnResend
    <2>2. CASE ~(f \/ c <= 2 * Mtu)
        <3>1. PICK x : x = IF c \div 2 < Mtu THEN Mtu ELSE c \div 2
            OBVIOUS
        <3>2. x \in Nat
            BY <1>2, <3>1
        <3>3. OnResend(w, seq) = [w EXCEPT !.ss_thresh = x, !.cwnd = Mtu,
                                  !.next_congestion_block = seq, !.backoff_this_block = TRUE]
            BY <1>1, <2>2, <3>1, Zenon DEF OnResend
        <3>4. OnResend(w, seq) = [cwnd |-> Mtu, ss_thresh |-> x, next_congestion_block |-> seq,
                                  backoff_this_block |-> TRUE, unacked_bytes |-> u]
            BY <1>2, <3>3
        <3>5. Mtu \in Nat /\ Mtu >= Mtu /\ TRUE \in BOOLEAN
            BY <1>2
        <3>6. PICK m, yes, v : m = Mtu /\ yes = TRUE /\ v = OnResend(w, seq)
            OBVIOUS
        <3>7. /\ m \in Nat /\ m >= Mtu /\ yes \in BOOLEAN
              /\ v = [cwnd |-> m, ss_thresh |-> x, next_congestion_block |-> seq,
                      backoff_this_block |-> yes, unacked_bytes |-> u]
            BY <3>4, <3>5, <3>6
        <3>8. v \in Windows /\ v.unacked_bytes = u
            BY <1>2, <3>2, <3>7, WindowMade
        <3> QED BY <3>6, <3>8
    <2> QED BY <2>1, <2>2
<1> QED BY <1>1, <1>3, <1>4, <1>5

\* on_ack never closes the window, and takes no more than the datagram's size
\* off the unacknowledged bytes.
LEMMA AckMove ==
    ASSUME NEW w \in Windows, NEW size \in Nat, NEW seq \in SeqNum
    PROVE  /\ OnAck(w, size, seq) \in Windows
           /\ OnAck(w, size, seq).unacked_bytes >= w.unacked_bytes - size
<1>1. PICK c, t, b, f, u : /\ c = w.cwnd /\ t = w.ss_thresh /\ b = w.next_congestion_block
                           /\ f = w.backoff_this_block /\ u = w.unacked_bytes
    OBVIOUS
<1>2. /\ w = [cwnd |-> c, ss_thresh |-> t, next_congestion_block |-> b,
              backoff_this_block |-> f, unacked_bytes |-> u]
      /\ c \in Nat /\ c >= Mtu /\ t \in Nat /\ u \in Nat /\ b \in SeqNum /\ f \in BOOLEAN
      /\ Mtu \in Nat \ {0}
    BY <1>1, WindowFields
<1>3. PICK new : new = SeqGreater(seq, b)
    OBVIOUS
<1>4. PICK u2, f2, b2, c2 :
        /\ u2 = IF u < size THEN 0 ELSE u - size
        /\ f2 = (f /\ ~new)
        /\ b2 = IF new THEN seq ELSE b
        /\ c2 = IF IsInSlowStart(w)
                THEN IF t # 0 /\ c + Mtu > t THEN t + Increment(c + Mtu) ELSE c + Mtu
                ELSE IF new THEN c + Increment(c) ELSE c
    OBVIOUS
<1>5. OnAck(w, size, seq) = [w EXCEPT !.unacked_bytes = u2, !.backoff_this_block = f2,
                             !.next_congestion_block = b2, !.cwnd = c2]
    BY <1>1, <1>3, <1>4, Zenon DEF OnAck
<1>6. OnAck(w, size, seq) = [cwnd |-> c2, ss_thresh |-> t, next_congestion_block |-> b2,
                             backoff_this_block |-> f2, unacked_bytes |-> u2]
    BY <1>2, <1>5
<1>7. u2 \in Nat /\ u2 >= u - size /\ b2 \in SeqNum
    BY <1>2, <1>4
<1>8. f2 \in BOOLEAN
    BY <1>4
<1>9. c2 \in Nat /\ c2 >= Mtu
    <2>1. \A x \in Nat : x >= Mtu => Increment(x) \in Nat
        BY <1>2 DEF Increment
    <2>2. PICK x, y : x = Increment(c + Mtu) /\ y = Increment(c)
        OBVIOUS
    <2>3. c + Mtu \in Nat /\ c + Mtu >= Mtu
        BY <1>2
    <2>4. x \in Nat /\ y \in Nat
        BY <1>2, <2>1, <2>2, <2>3
    <2>5. IsInSlowStart(w) => t = 0 \/ c <= t
        BY <1>1 DEF IsInSlowStart
    <2>6. c2 \in {t + x, c + Mtu, c + y, c} /\ (c2 = t + x => c <= t \/ c2 \in {c + Mtu, c + y, c})
        BY <1>4, <2>2, <2>5
    <2> QED BY <1>2, <2>4, <2>6
<1>10. OnAck(w, size, seq) \in Windows /\ OnAck(w, size, seq).unacked_bytes = u2
    BY <1>2, <1>6, <1>7, <1>8, <1>9, WindowMade
<1> QED BY <1>1, <1>7, <1>10

-----------------------------------------------------------------------------
(* Acknowledgements.                                                       *)

\* for_each_sequence_in_range visits the numbers that the ranges cover.
LEMMA VisitedTyped ==
    ASSUME NEW q \in Seq(SequenceRange)
    PROVE  Visited(q) \in Seq(Contents(q)) /\ Contents(q) \subseteq SeqNum
<1> DEFINE S == Contents(q)
           Run(i) == [n \in 1 .. SeqDistance(q[i].start, q[i].end) + 1 |-> SeqAdd(q[i].start, n - 1)]
           runs == [i \in DOMAIN q |-> Run(i)]
<1>1. S \subseteq SeqNum
    BY DEF Contents, Members
<1>2. Len(q) \in Nat /\ DOMAIN q = 1 .. Len(q) /\ \A i \in 1 .. Len(q) : q[i] \in SequenceRange
    BY LenProperties, ElementOfSeq
<1>3. ASSUME NEW i \in 1 .. Len(q) PROVE Run(i) \in Seq(S)
    <2>1. PICK a, b, m : a = q[i].start /\ b = q[i].end /\ m = SeqDistance(a, b)
        OBVIOUS
    <2>2. a \in SeqNum /\ b \in SeqNum /\ m \in 0 .. Modulo - 1
        BY <1>2, <2>1, DistanceType DEF SequenceRange
    <2>3. ASSUME NEW n \in 1 .. m + 1 PROVE SeqAdd(a, n - 1) \in S
        <3>1. n - 1 \in 0 .. Modulo - 1 /\ n - 1 <= m
            BY <2>2, ModuloAssumption
        <3>2. SeqAdd(a, n - 1) \in SeqNum /\ SeqDistance(a, SeqAdd(a, n - 1)) = n - 1
            BY <2>2, <3>1, AddType, DistanceAdd
        <3>3. SeqAdd(a, n - 1) \in Members(q[i])
            BY <2>1, <3>1, <3>2 DEF Members
        <3> QED BY <1>2, <3>3 DEF Contents
    <2>4. m + 1 \in Nat /\ [n \in 1 .. m + 1 |-> SeqAdd(a, n - 1)] \in [1 .. m + 1 -> S]
        BY <2>2, <2>3, ModuloAssumption
    <2>5. [n \in 1 .. m + 1 |-> SeqAdd(a, n - 1)] \in Seq(S)
        BY <2>4, FunctionIsSeq
    <2> QED BY <2>1, <2>5
<1> HIDE DEF S, Run
<1>4. runs \in [1 .. Len(q) -> Seq(S)]
    BY <1>2, <1>3
<1>5. runs \in Seq(Seq(S))
    BY <1>2, <1>4, FunctionIsSeq
<1>6. Visited(q) = FlattenSeq(runs)
    BY DEF Visited, Run
<1>7. FlattenSeq(runs) \in Seq(S)
    BY <1>5, FlattenTyped
<1> QED BY <1>1, <1>6, <1>7 DEF S

\* The tracked datagrams are finitely many and have different numbers.
LEMMA TrackedFacts ==
    ASSUME WindowInv
    PROVE  /\ IsFiniteSet(TrackedDatagrams)
           /\ \A d \in TrackedDatagrams :
                \E k \in 1 .. Len(sent_datagrams) :
                    /\ IsTracked(sent_datagrams[k]) /\ d = sent_datagrams[k][1].datagram
                    /\ d.sequence = SlotNumber(sent_datagrams_base, k)
           /\ \A d, e \in TrackedDatagrams : d.sequence = e.sequence => d = e
<1>1. /\ Len(sent_datagrams) \in Nat /\ DOMAIN sent_datagrams = 1 .. Len(sent_datagrams)
      /\ sent_datagrams_base \in SeqNum
      /\ Len(sent_datagrams) <= SeqDistance(sent_datagrams_base, datagram_write_index)
      /\ SeqDistance(sent_datagrams_base, datagram_write_index) \in 0 .. Modulo - 1
    BY ShapeFacts, DistanceType DEF WindowInv, WindowBehindWrite
<1>2. IsFiniteSet(TrackedDatagrams)
    <2> DEFINE K == {j \in DOMAIN sent_datagrams : IsTracked(sent_datagrams[j])}
    <2>1. IsFiniteSet(1 .. Len(sent_datagrams))
        BY <1>1, FS_Interval
    <2>2. K \subseteq 1 .. Len(sent_datagrams)
        BY <1>1
    <2>3. IsFiniteSet(K)
        BY <2>1, <2>2, FS_Subset
    <2>4. PICK f : f = [k \in K |-> sent_datagrams[k][1].datagram]
        OBVIOUS
    <2>5. TrackedDatagrams = {f[k] : k \in K}
        BY <2>4 DEF TrackedDatagrams
    <2> HIDE DEF K
    <2>6. f \in [K -> TrackedDatagrams] /\ \A d \in TrackedDatagrams : \E k \in K : f[k] = d
        BY <2>4, <2>5
    <2>7. f \in Surjection(K, TrackedDatagrams)
        BY <2>6 DEF Surjection
    <2> QED BY <2>3, <2>7, FS_Surjection
<1>3. \A d \in TrackedDatagrams :
        \E k \in 1 .. Len(sent_datagrams) :
            /\ IsTracked(sent_datagrams[k]) /\ d = sent_datagrams[k][1].datagram
            /\ d.sequence = SlotNumber(sent_datagrams_base, k)
    BY <1>1 DEF TrackedDatagrams, WindowInv, SlotIdentity
<1>4. ASSUME NEW d \in TrackedDatagrams, NEW e \in TrackedDatagrams, d.sequence = e.sequence
      PROVE  d = e
    <2>1. PICK k \in 1 .. Len(sent_datagrams) :
            d = sent_datagrams[k][1].datagram /\ d.sequence = SlotNumber(sent_datagrams_base, k)
        BY <1>3
    <2>2. PICK j \in 1 .. Len(sent_datagrams) :
            e = sent_datagrams[j][1].datagram /\ e.sequence = SlotNumber(sent_datagrams_base, j)
        BY <1>3
    <2>3. k - 1 \in 0 .. Modulo - 1 /\ j - 1 \in 0 .. Modulo - 1
        BY <1>1, ModuloAssumption
    <2>4. SeqAdd(sent_datagrams_base, k - 1) = SeqAdd(sent_datagrams_base, j - 1)
        BY <1>4, <2>1, <2>2 DEF SlotNumber
    <2>5. k - 1 = j - 1
        BY <1>1, <2>3, <2>4, AddInjective
    <2>6. k = j
        BY <2>5
    <2> QED BY <2>1, <2>2, <2>6
<1> QED BY <1>2, <1>3, <1>4

\* process_incoming_acks tells the sliding window of the datagrams it takes.
LEMMA AckedFold ==
    ASSUME WindowInv, sliding \in Windows, TrackedDatagrams \subseteq SizedDatagram,
           NEW numbers \in Seq(SeqNum), numbers = Visited(incoming_acks)
    PROVE  \E f : /\ f[0] = sliding /\ SlidingAfterAcks = f[Len(numbers)]
                  /\ \A k \in 0 .. Len(numbers) : f[k] \in Windows
                  /\ \A k \in 1 .. Len(numbers) :
                       \/ f[k] = f[k - 1]
                       \/ \E d \in TrackedDatagrams :
                            /\ d.sequence = numbers[k]
                            /\ \A j \in 1 .. k - 1 : numbers[j] # numbers[k]
                            /\ f[k] = OnAck(f[k - 1], Sizes[d], numbers[k])
<1> DEFINE n == Len(numbers)
           A == 1 .. n
           D == Windows
           Place(k) == SeqDistance(sent_datagrams_base, numbers[k]) + 1
           Takes(k) == /\ Place(k) <= Len(sent_datagrams)
                       /\ IsTracked(sent_datagrams[Place(k)])
                       /\ \A j \in 1 .. k - 1 : numbers[j] # numbers[k]
           Size(k) == DatagramSize(sent_datagrams[Place(k)][1].datagram)
           Move(w, k) == IF Takes(k) THEN OnAck(w, Size(k), numbers[k]) ELSE w
           window == CHOOSE g : g = [k \in 0 .. n |-> IF k = 0 THEN sliding ELSE Move(g[k - 1], k)]
<1>1. n \in Nat /\ \A k \in 1 .. n : numbers[k] \in SeqNum
    BY LenProperties, ElementOfSeq
<1>2. /\ Len(sent_datagrams) \in Nat /\ DOMAIN sent_datagrams = 1 .. Len(sent_datagrams)
      /\ sent_datagrams_base \in SeqNum
    BY ShapeFacts DEF WindowInv, WindowBehindWrite
<1>3. ASSUME NEW k \in 1 .. n, Takes(k)
      PROVE  \E d \in TrackedDatagrams :
                 d.sequence = numbers[k] /\ Size(k) = Sizes[d] /\ Sizes[d] \in Nat
    <2>1. PICK p : p = Place(k)
        OBVIOUS
    <2>2. p - 1 = SeqDistance(sent_datagrams_base, numbers[k]) /\ p \in 1 .. Len(sent_datagrams)
          /\ IsTracked(sent_datagrams[p])
        <3>1. SeqDistance(sent_datagrams_base, numbers[k]) \in 0 .. Modulo - 1
            BY <1>1, <1>2, DistanceType
        <3> QED BY <1>2, <1>3, <2>1, <3>1
    <2>3. PICK d : d = sent_datagrams[p][1].datagram
        OBVIOUS
    <2>4. d \in TrackedDatagrams /\ d.sequence = SlotNumber(sent_datagrams_base, p)
        BY <1>2, <2>2, <2>3 DEF TrackedDatagrams, WindowInv, SlotIdentity
    <2>5. SlotNumber(sent_datagrams_base, p) = numbers[k]
        BY <1>1, <1>2, <2>2, AddDistance DEF SlotNumber
    <2>6. Size(k) = Sizes[d] /\ Sizes[d] \in Nat
        BY <2>1, <2>3, <2>4 DEF Sizes, SizedDatagram
    <2> QED BY <2>4, <2>5, <2>6
<1>4. \A w \in D, k \in A : Move(w, k) \in D
    <2> TAKE w \in D, k \in A
    <2>1. CASE Takes(k)
        <3>1. Size(k) \in Nat /\ numbers[k] \in SeqNum
            BY <1>1, <1>3, <2>1
        <3> HIDE DEF Size
        <3> QED BY <2>1, <3>1, AckMove
    <2>2. CASE ~Takes(k)
        BY <2>2
    <2> QED BY <2>1, <2>2
<1>5. SlidingAfterAcks = window[n]
    BY DEF SlidingAfterAcks
<1>6. PICK op, seq : op = [w \in D |-> [k \in A |-> Move(w, k)]] /\ seq = [k \in 1 .. n |-> k]
    OBVIOUS
<1>7. sliding \in D
    OBVIOUS
<1>8. seq \in Seq(A) /\ Len(seq) = n /\ \A k \in 1 .. n : seq[k] = k /\ k \in A
    BY <1>1, <1>6, FunctionIsSeq
<1> HIDE DEF D, A, Move, n
<1>9. op \in [D -> [A -> D]]
    BY <1>4, <1>6
<1>10. PICK h \in [0 .. n -> D] : IsFold(h, op, sliding, seq)
    BY <1>7, <1>8, <1>9, FoldExists
<1>11. h = [k \in 0 .. n |-> IF k = 0 THEN sliding ELSE Move(h[k - 1], k)]
    <2>1. ASSUME NEW k \in 0 .. n, k # 0
          PROVE  op[h[k - 1]][seq[k]] = Move(h[k - 1], k)
        <3>1. seq[k] = k /\ k \in A /\ h[k - 1] \in D
            BY <2>1, <1>1, <1>8
        <3> QED BY <3>1, <1>6
    <2> QED BY <1>1, <1>8, <1>10, <2>1 DEF IsFold
<1>12. window = [k \in 0 .. n |-> IF k = 0 THEN sliding ELSE Move(window[k - 1], k)]
    BY <1>11
<1> HIDE DEF window
<1>13. 0 \in 0 .. n /\ \A k \in 1 .. n : k \in 0 .. n /\ k # 0
    BY <1>1
<1>14. window[0] = sliding
    BY <1>12, <1>13
<1>15. \A k \in 1 .. n : window[k] = Move(window[k - 1], k)
    BY <1>12, <1>13
<1>16. \A k \in 1 .. n : window[k - 1] \in D => window[k] \in D
    BY <1>4, <1>8, <1>15
<1>17. \A k \in 0 .. n : window[k] \in D
    BY <1>1, <1>7, <1>14, <1>16, StepInduction
<1>18. ASSUME NEW k \in 1 .. n
       PROVE  \/ window[k] = window[k - 1]
              \/ \E d \in TrackedDatagrams :
                    /\ d.sequence = numbers[k]
                    /\ \A j \in 1 .. k - 1 : numbers[j] # numbers[k]
                    /\ window[k] = OnAck(window[k - 1], Sizes[d], numbers[k])
    <2>1. CASE Takes(k)
        <3>1. PICK d \in TrackedDatagrams : d.sequence = numbers[k] /\ Size(k) = Sizes[d]
            BY <1>3, <2>1
        <3>2. window[k] = OnAck(window[k - 1], Size(k), numbers[k])
            BY <1>15, <2>1 DEF Move
        <3> HIDE DEF Size
        <3> QED BY <2>1, <3>1, <3>2
    <2>2. CASE ~Takes(k)
        BY <1>15, <2>2 DEF Move
    <2> QED BY <2>1, <2>2
<1> QED BY <1>5, <1>14, <1>17, <1>18 DEF D, n

\* What the ACKs leave of the budget covers what they leave tracked.
LEMMA AckedBudget ==
    ASSUME WindowInv, sliding \in Windows, TrackedDatagrams \subseteq SizedDatagram,
           incoming_acks \in Seq(SequenceRange),
           sliding.unacked_bytes >= SumOf(Sizes, TrackedDatagrams)
    PROVE  /\ SlidingAfterAcks \in Windows
           /\ SlidingAfterAcks.unacked_bytes >=
                SumOf(Sizes, {d \in TrackedDatagrams : d.sequence \notin Contents(incoming_acks)})
<1>1. PICK numbers : numbers = Visited(incoming_acks)
    OBVIOUS
<1>2. numbers \in Seq(Contents(incoming_acks)) /\ Contents(incoming_acks) \subseteq SeqNum
    BY <1>1, VisitedTyped
<1>3. numbers \in Seq(SeqNum)
    BY <1>2, SeqMonotone
<1>4. PICK n : n = Len(numbers)
    OBVIOUS
<1>5. n \in Nat /\ \A k \in 1 .. n : numbers[k] \in Contents(incoming_acks) /\ numbers[k] \in SeqNum
    BY <1>2, <1>4, LenProperties, ElementOfSeq
<1>6. PICK f : /\ f[0] = sliding /\ SlidingAfterAcks = f[n]
               /\ \A k \in 0 .. n : f[k] \in Windows
               /\ \A k \in 1 .. n :
                    \/ f[k] = f[k - 1]
                    \/ \E d \in TrackedDatagrams :
                         /\ d.sequence = numbers[k]
                         /\ \A j \in 1 .. k - 1 : numbers[j] # numbers[k]
                         /\ f[k] = OnAck(f[k - 1], Sizes[d], numbers[k])
    BY <1>1, <1>3, <1>4, AckedFold
<1>7. /\ IsFiniteSet(TrackedDatagrams)
      /\ \A d, e \in TrackedDatagrams : d.sequence = e.sequence => d = e
      /\ \A d \in TrackedDatagrams : Sizes[d] \in Nat
    BY TrackedFacts, SizesSum
<1>8. \A T \in SUBSET TrackedDatagrams :
        IsFiniteSet(T) /\ SumOf(Sizes, T) \in Nat /\ \A d \in T : Sizes[d] \in Nat
    <2> TAKE T \in SUBSET TrackedDatagrams
    <2>1. IsFiniteSet(T) /\ \A d \in T : Sizes[d] \in Nat
        BY <1>7, FS_Subset
    <2> QED BY <2>1, SumType
<1> DEFINE Left(k) == {d \in TrackedDatagrams : \A j \in 1 .. k : d.sequence # numbers[j]}
           Good(k) == f[k].unacked_bytes >= SumOf(Sizes, Left(k))
           D == {k \in 0 .. n : Good(k)}
<1>9. 0 \in D
    <2>1. Left(0) = TrackedDatagrams
        OBVIOUS
    <2>2. SumOf(Sizes, Left(0)) = SumOf(Sizes, TrackedDatagrams)
        BY <2>1
    <2>3. 0 \in 0 .. n /\ f[0] = sliding
        BY <1>5, <1>6
    <2> HIDE DEF Left
    <2> QED BY <2>2, <2>3
<1>10. ASSUME NEW k \in 1 .. n, k - 1 \in D PROVE k \in D
    <2>1. /\ k - 1 \in 0 .. n /\ k \in 0 .. n /\ k \in 1 .. k
          /\ \A j \in 1 .. k : j \in 1 .. k - 1 \/ j = k
          /\ \A j \in 1 .. k - 1 : j \in 1 .. k
        BY <1>5
    <2>2. PICK before, after, x, y, w, v :
            /\ before = Left(k - 1) /\ after = Left(k)
            /\ x = SumOf(Sizes, before) /\ y = SumOf(Sizes, after)
            /\ w = f[k - 1] /\ v = f[k]
        OBVIOUS
    <2>3. /\ before \in SUBSET TrackedDatagrams /\ after \in SUBSET before
          /\ x \in Nat /\ y \in Nat /\ w.unacked_bytes >= x /\ w \in Windows
          /\ w.unacked_bytes \in Nat
        <3>1. before \in SUBSET TrackedDatagrams /\ after \in SUBSET before
            BY <2>1, <2>2
        <3>2. w.unacked_bytes >= x
            BY <1>10, <2>2
        <3>3. w \in Windows
            BY <1>6, <2>1, <2>2
        <3> QED BY <1>8, <2>2, <3>1, <3>2, <3>3, WindowFields
    <2>4. y <= x
        BY <1>8, <2>2, <2>3, SumSubset
    <2>5. CASE v = w
        <3>1. v.unacked_bytes >= y
            BY <2>3, <2>4, <2>5
        <3> QED BY <2>1, <2>2, <3>1
    <2>6. ASSUME NEW d \in TrackedDatagrams, d.sequence = numbers[k],
                 \A j \in 1 .. k - 1 : numbers[j] # numbers[k],
                 v = OnAck(w, Sizes[d], numbers[k])
          PROVE  k \in D
        <3>1. d \in before
            BY <2>2, <2>6
        <3>2. after = before \ {d}
            <4>1. \A e \in after : e \in before /\ e # d
                BY <2>1, <2>2, <2>6
            <4>2. \A e \in before : e # d => e \in after
                BY <1>7, <2>1, <2>2, <2>6
            <4> QED BY <2>3, <4>1, <4>2
        <3>3. x = Sizes[d] + y
            <4>1. IsFiniteSet(before) /\ d \in before /\ \A e \in before : Sizes[e] \in Nat
                BY <1>8, <2>3, <3>1
            <4>2. SumOf(Sizes, before) = Sizes[d] + SumOf(Sizes, after)
                BY <3>2, <4>1, SumRemove
            <4> QED BY <2>2, <4>2
        <3>4. v.unacked_bytes >= w.unacked_bytes - Sizes[d] /\ v \in Windows /\ Sizes[d] \in Nat
            BY <1>5, <1>7, <2>3, <2>6, AckMove
        <3>5. v.unacked_bytes \in Nat
            BY <3>4, WindowFields
        <3>6. v.unacked_bytes >= y
            BY <2>3, <3>3, <3>4, <3>5
        <3> QED BY <2>1, <2>2, <3>6
    <2> QED BY <1>6, <2>2, <2>5, <2>6
<1>11. PICK g : g = [k \in 0 .. n |-> k]
    OBVIOUS
<1> HIDE DEF D
<1>12. g[0] \in D /\ \A k \in 1 .. n : g[k - 1] \in D => g[k] \in D
    BY <1>5, <1>9, <1>10, <1>11
<1>13. \A k \in 0 .. n : g[k] \in D
    BY <1>5, <1>12, StepInduction
<1>14. n \in 0 .. n /\ g[n] = n
    BY <1>5, <1>11
<1>15. n \in D
    BY <1>13, <1>14
<1>16. PICK rest, all :
        /\ rest = {d \in TrackedDatagrams : d.sequence \notin Contents(incoming_acks)}
        /\ all = Left(n)
    OBVIOUS
<1>17. rest \in SUBSET all /\ all \in SUBSET TrackedDatagrams
    BY <1>5, <1>16
<1>18. f[n].unacked_bytes >= SumOf(Sizes, all)
    BY <1>15, <1>16 DEF D
<1>19. SumOf(Sizes, rest) <= SumOf(Sizes, all)
    BY <1>8, <1>17, SumSubset
<1>20. /\ f[n] \in Windows /\ f[n].unacked_bytes \in Nat
       /\ SumOf(Sizes, rest) \in Nat /\ SumOf(Sizes, all) \in Nat
    BY <1>6, <1>8, <1>14, <1>17, WindowFields
<1>21. f[n].unacked_bytes >= SumOf(Sizes, rest)
    BY <1>18, <1>19, <1>20
<1> QED BY <1>6, <1>16, <1>20, <1>21

-----------------------------------------------------------------------------
(* The sender's invariant.                                                 *)

\* The queue holds packets of messages that have been handed over, each of
\* which fits a datagram, and their reliable bytes are counted.
QueueInv ==
    /\ reliability_write_index \in SeqNum
    /\ order_write \in [0 .. OrderChannels - 1 -> SeqNum]
    /\ split_index \in Nat /\ queued \in Nat
    /\ queue \in Queues
    /\ \A e \in queue.heap : e.pkt.payload[1][1] \in 0 .. queued
    /\ queued_reliable_bytes = SumOf(Bytes, queue.heap)

\* What is tracked or under way was built and fits the MTU.
WireInv ==
    /\ built \subseteq SizedDatagram /\ wire \subseteq built
    /\ \A k \in DOMAIN sent_datagrams : IsTracked(sent_datagrams[k]) =>
            sent_datagrams[k][1].datagram \in built /\ sent_datagrams[k][1].due \in BOOLEAN
    /\ incoming_acks \in Seq(SequenceRange) /\ incoming_naks \in Seq(SequenceRange)
    /\ confirmed \subseteq SeqNum /\ given_up \subseteq SeqNum

\* The window stays open, and its unacknowledged bytes cover what is tracked.
SlidingInv ==
    /\ sliding \in Windows
    /\ sliding.unacked_bytes >= SumOf(Sizes, TrackedDatagrams)

OutboundInv == WindowInv /\ QueueInv /\ WireInv /\ SlidingInv

\* What is tracked was built.
LEMMA TrackedBuilt ==
    ASSUME WireInv
    PROVE  TrackedDatagrams \subseteq built /\ TrackedDatagrams \subseteq SizedDatagram
BY DEF WireInv, TrackedDatagrams

\* Nothing is queued, built or tracked.
LEMMA OutboundStarts == OutboundInit => OutboundInv
<1> SUFFICES ASSUME OutboundInit PROVE OutboundInv
    OBVIOUS
<1>1. WindowInv
    BY WindowInit
<1>2. QueueInv
    <2>1. NewQueue \in Queues /\ NewQueue.heap = {}
        <3>1. IsFiniteSet({})
            BY FS_EmptySet
        <3>2. \A l \in Levels : BaseWeight(l) \in Int
            BY DEF Levels, BaseWeight
        <3>3. NewQueue = [heap |-> {}, next_weights |-> [l \in Levels |-> BaseWeight(l)],
                          last_min_weight |-> 0]
            BY DEF NewQueue
        <3> QED BY <3>1, <3>2, <3>3 DEF Queues
    <2>2. SumOf(Bytes, {}) = 0
        BY SumEmpty
    <2>3. order_write \in [0 .. OrderChannels - 1 -> SeqNum]
        BY OutboundAssumption DEF OutboundInit
    <2>4. queued = 0 /\ split_index = 0 /\ queue = NewQueue /\ queued_reliable_bytes = 0
          /\ reliability_write_index \in SeqNum
        BY OutboundAssumption DEF OutboundInit
    <2> QED BY <2>1, <2>2, <2>3, <2>4 DEF QueueInv
<1>3. WireInv
    <2>1. sent_datagrams = <<>> /\ DOMAIN sent_datagrams = {}
        BY DEF OutboundInit
    <2>2. <<>> \in Seq(SequenceRange)
        BY EmptySeq
    <2> QED BY <2>1, <2>2 DEF WireInv, OutboundInit
<1>4. SlidingInv
    <2>1. sent_datagrams = <<>> /\ DOMAIN sent_datagrams = {}
        BY DEF OutboundInit
    <2>2. TrackedDatagrams = {}
        BY <2>1 DEF TrackedDatagrams
    <2>3. SumOf(Sizes, TrackedDatagrams) = 0
        BY <2>2, SumEmpty
    <2>4. PICK m, no : m = Mtu /\ no = FALSE
        OBVIOUS
    <2>5. sliding = [cwnd |-> m, ss_thresh |-> 0, next_congestion_block |-> SendStart,
                     backoff_this_block |-> no, unacked_bytes |-> 0]
        BY <2>4 DEF OutboundInit, NewWindow
    <2>6. m \in Nat /\ m >= Mtu /\ no \in BOOLEAN /\ SendStart \in SeqNum /\ 0 \in Nat
        <3>1. SendStart \in SeqNum
            BY OutboundAssumption
        <3>2. m \in Nat /\ m >= Mtu
            BY <2>4, MtuAssumption
        <3>3. no \in BOOLEAN
            BY <2>4
        <3> QED BY <3>1, <3>2, <3>3
    <2>7. sliding \in Windows /\ sliding.unacked_bytes = 0
        BY <2>5, <2>6, WindowMade
    <2> QED BY <2>3, <2>7 DEF SlidingInv
<1> QED BY <1>1, <1>2, <1>3, <1>4 DEF OutboundInv

\* Every step that leaves the queue alone.
LEMMA QueueUntouched ==
    ASSUME QueueInv,
           UNCHANGED <<queueVars, reliability_write_index, order_write, split_index, queued>>
    PROVE  QueueInv'
BY DEF QueueInv, queueVars

\* Every step that leaves the window and what was built alone.
LEMMA WireUntouched ==
    ASSUME WireInv, UNCHANGED <<sent_datagrams, wire, built, confirmed, given_up>>,
           incoming_acks' \in Seq(SequenceRange), incoming_naks' \in Seq(SequenceRange)
    PROVE  WireInv'
BY DEF WireInv, IsTracked

\* Every step that leaves the tracked datagrams and the sliding window alone.
LEMMA SlidingUntouched ==
    ASSUME SlidingInv, UNCHANGED <<sent_datagrams, sliding>>
    PROVE  SlidingInv'
BY DEF SlidingInv, TrackedDatagrams, IsTracked

\* queue_packet: the packets of the message are new to the queue.
LEMMA QueuePacketKeeps ==
    ASSUME QueueInv, NEW m \in DOMAIN Messages, QueuePacket(m)
    PROVE  QueueInv'
<1>1. /\ m = queued + 1 /\ queued' = m /\ queued \in Nat
      /\ reliability_write_index \in SeqNum /\ split_index \in Nat
      /\ order_write \in [0 .. OrderChannels - 1 -> SeqNum]
      /\ queue \in Queues /\ queued_reliable_bytes = SumOf(Bytes, queue.heap)
      /\ \A e \in queue.heap : e.pkt.payload[1][1] \in 0 .. queued
    BY DEF QueuePacket, QueueInv
<1>2. CASE Messages[m].channel >= OrderChannels
    <2>1. UNCHANGED <<queueVars, reliability_write_index, order_write, split_index>>
        BY <1>2 DEF QueuePacket
    <2>2. \A x \in 0 .. queued : x \in 0 .. m
        BY <1>1
    <2> QED BY <1>1, <2>1, <2>2 DEF QueueInv, queueVars
<1>3. CASE ~(Messages[m].channel >= OrderChannels)
    <2>1. PICK packets, n, level, ch, r :
            /\ packets = Encaps(m) /\ n = Parts(Messages[m]) /\ level = Messages[m].level
            /\ ch = Messages[m].channel /\ r = packets[1].reliability
        OBVIOUS
    <2>2. /\ queue' = PushAll(queue, packets, level)
          /\ reliability_write_index' =
                IF IsReliable(r) THEN SeqAdd(reliability_write_index, Len(packets))
                                 ELSE reliability_write_index
          /\ order_write' = IF IsOrdered(r) THEN [order_write EXCEPT ![ch] = SeqNext(@)]
                                            ELSE order_write
          /\ split_index' = IF FitsWhole(Messages[m]) THEN split_index ELSE (split_index + 1) % 2^16
          /\ queued_reliable_bytes' =
                queued_reliable_bytes + (IF IsReliable(r) THEN TotalSize(packets) ELSE 0)
        BY <1>3, <2>1 DEF QueuePacket
    <2>3. /\ n \in 1 .. Modulo - 1 /\ n \in Nat /\ level \in Levels /\ ch \in 0 .. OrderChannels - 1
          /\ Messages[m].channel < OrderChannels
        BY <1>3, <2>1, MessageFacts, OutboundAssumption, ModuloAssumption
    <2>4. /\ packets \in [1 .. n -> SizedPacket]
          /\ \A i \in 1 .. n : /\ packets[i].reliability = r
                               /\ packets[i].payload = <<<<m, i - 1, n>>>>
        BY <1>1, <2>1, <2>3, EncapFacts
    <2>5. \A i \in 1 .. n : packets[i].payload[1][1] = m /\ packets[i].payload[1][2] = i - 1
        BY <2>4
    <2>6. \A i, j \in 1 .. n : packets[i] = packets[j] => i = j
        <3> TAKE i, j \in 1 .. n
        <3> HAVE packets[i] = packets[j]
        <3>1. i - 1 = j - 1
            BY <2>5
        <3> QED BY <3>1
    <2>7. \A e \in queue.heap, i \in 1 .. n : e.pkt # packets[i]
        <3>1. m \notin 0 .. queued
            BY <1>1
        <3> QED BY <1>1, <2>5, <3>1
    <2>8. /\ queue' \in Queues
          /\ \A e \in queue'.heap : e \in queue.heap \/ \E i \in 1 .. n : e.pkt = packets[i]
          /\ SumOf(Bytes, queue'.heap) =
                SumOf(Bytes, queue.heap) + (IF IsReliable(r) THEN TotalSize(packets) ELSE 0)
        <3>1. /\ queue \in Queues /\ n \in Nat /\ level \in Levels
              /\ packets \in [1 .. n -> SizedPacket]
            BY <1>1, <2>3, <2>4
        <3>0. Fresh(queue, packets, n, r)
            BY <2>4, <2>6, <2>7 DEF Fresh
        <3>2. PICK q : q = PushAll(queue, packets, level)
            OBVIOUS
        <3>3. /\ q \in Queues
              /\ \A e \in q.heap : e \in queue.heap \/ \E i \in 1 .. n : e.pkt = packets[i]
              /\ SumOf(Bytes, q.heap) =
                    SumOf(Bytes, queue.heap) + (IF IsReliable(r) THEN TotalSize(packets) ELSE 0)
            BY <3>0, <3>1, <3>2, PushAllBytes
        <3> QED BY <2>2, <3>2, <3>3
    <2>9. \A e \in queue'.heap : e.pkt.payload[1][1] \in 0 .. queued'
        <3>1. m \in 0 .. m /\ \A x \in 0 .. queued : x \in 0 .. m
            BY <1>1
        <3> QED BY <1>1, <2>5, <2>8, <3>1
    <2>10. queued_reliable_bytes' = SumOf(Bytes, queue'.heap)
        BY <1>1, <2>2, <2>8
    <2>11. reliability_write_index' \in SeqNum
        <3>1. Len(packets) = n /\ n \in 0 .. Modulo - 1
            BY <2>3, <2>4, FunctionIsSeq
        <3> QED BY <1>1, <2>2, <3>1, AddType
    <2>12. order_write' \in [0 .. OrderChannels - 1 -> SeqNum]
        <3>1. order_write[ch] \in SeqNum
            BY <1>1, <2>3
        <3>2. SeqNext(order_write[ch]) \in SeqNum
            BY <3>1, NextType
        <3> QED BY <1>1, <2>2, <3>2
    <2>13. split_index' \in Nat
        BY <1>1, <2>2
    <2>14. queued' \in Nat
        BY <1>1
    <2> QED BY <2>8, <2>9, <2>10, <2>11, <2>12, <2>13, <2>14 DEF QueueInv
<1> QED BY <1>2, <1>3

\* build_data_datagram: what leaves the queue is debited, and fits the MTU.
LEMMA BuildKeeps ==
    ASSUME OutboundInv, BuildDatagram
    PROVE  QueueInv' /\ WireInv' /\ SlidingInv'
<1>0. WindowInv /\ QueueInv /\ WireInv /\ SlidingInv
    BY DEF OutboundInv
<1>1. PICK s \in PopOrders(queue) :
        LET n == FillCount(s)
            d == [sequence |-> datagram_write_index, packets |-> [i \in 1 .. n |-> s[i].pkt]]
        IN  /\ queue' = [queue EXCEPT !.heap = @ \ {s[i] : i \in 1 .. n}]
            /\ queued_reliable_bytes' = Debited(d.packets)
            /\ IF HasReliable(d) THEN TrackSentDatagram(d) ELSE UNCHANGED <<sliding, sent_datagrams>>
            /\ wire' = wire \cup {d}
            /\ built' = built \cup {d}
            /\ UNCHANGED <<reliability_write_index, order_write, split_index,
                           sent_datagrams_base, incomingVars, queued, confirmed, given_up>>
    BY DEF BuildDatagram
<1>2. PICK n, packets : n = FillCount(s) /\ packets = [i \in 1 .. n |-> s[i].pkt]
    OBVIOUS
<1>3. PICK d : d = [sequence |-> datagram_write_index, packets |-> packets]
    OBVIOUS
<1>4. /\ queue' = [queue EXCEPT !.heap = @ \ {s[i] : i \in 1 .. n}]
      /\ queued_reliable_bytes' = Debited(packets)
      /\ IF HasReliable(d) THEN TrackSentDatagram(d) ELSE UNCHANGED <<sliding, sent_datagrams>>
      /\ wire' = wire \cup {d}
      /\ built' = built \cup {d}
      /\ UNCHANGED <<reliability_write_index, order_write, split_index,
                     sent_datagrams_base, incomingVars, queued, confirmed, given_up>>
    BY <1>1, <1>2, <1>3
<1>5. PICK N \in Nat : /\ s \in [1 .. N -> queue.heap] /\ s \in [1 .. N -> Queueable]
                       /\ Len(s) = N
                       /\ \A i, j \in 1 .. N : s[i] = s[j] => i = j
    BY <1>0, PopFacts DEF QueueInv
<1>6. sliding \in Windows /\ sliding \in WindowState
    BY <1>0 DEF SlidingInv, Windows
<1>7. /\ n \in 0 .. N /\ n \in Nat /\ packets \in [1 .. n -> SizedPacket]
      /\ IpUdpHeaders + DatagramHeader + TotalSize(packets) <= Mtu
    BY <1>2, <1>5, <1>6, FillFacts
<1>8. d \in SizedDatagram
    <2>1. TotalSize(packets) \in Nat
        BY <1>7, TotalSum
    <2>2. packets \in Seq(SizedPacket)
        BY <1>7, FunctionIsSeq
    <2>3. datagram_write_index \in SeqNum
        BY <1>0 DEF WindowInv, WindowBehindWrite
    <2>4. d.packets = packets /\ d \in [sequence : SeqNum, packets : Seq(SizedPacket)]
        BY <1>3, <2>2, <2>3
    <2>5. DatagramSize(d) = DatagramHeader + TotalSize(packets)
        BY <2>4 DEF DatagramSize
    <2>6. DatagramSize(d) \in Nat /\ IpUdpHeaders + DatagramSize(d) <= Mtu
        BY <1>7, <2>1, <2>5, MtuAssumption DEF DatagramHeader, IpUdpHeaders
    <2> QED BY <2>4, <2>6 DEF SizedDatagram
<1>9. QueueInv'
    <2>1. PICK heap, rest : heap = queue.heap /\ rest = heap \ {s[i] : i \in 1 .. n}
        OBVIOUS
    <2>2. /\ heap \subseteq Queueable /\ IsFiniteSet(heap) /\ queue \in Queues
          /\ queued_reliable_bytes = SumOf(Bytes, heap) /\ s \in [1 .. N -> heap]
        BY <1>0, <1>5, <2>1 DEF QueueInv, Queues
    <2>3. Debited(packets) = SumOf(Bytes, rest)
        <3>1. /\ n \in 0 .. N /\ queued_reliable_bytes = SumOf(Bytes, heap)
              /\ IsFiniteSet(heap) /\ heap \subseteq Queueable
            BY <1>7, <2>2
        <3>2. Draws(heap, s, N, n, packets)
            BY <1>2, <1>5, <1>7, <2>2 DEF Draws
        <3>3. Debited(packets) = SumOf(Bytes, heap \ {s[i] : i \in 1 .. n})
            BY <3>1, <3>2, DebitExact
        <3> QED BY <2>1, <3>3
    <2>4. queue' = [queue EXCEPT !.heap = rest]
        BY <1>4, <2>1
    <2>5. rest \subseteq Queueable /\ IsFiniteSet(rest) /\ rest \subseteq heap
        BY <2>1, <2>2, FS_Subset
    <2>6. queue' \in Queues /\ queue'.heap = rest
        BY <2>2, <2>4, <2>5 DEF Queues
    <2> QED BY <1>0, <1>4, <2>1, <2>3, <2>5, <2>6 DEF QueueInv
<1>10. \A k \in DOMAIN sent_datagrams' : IsTracked(sent_datagrams'[k]) =>
            \/ sent_datagrams'[k] = <<[datagram |-> d, due |-> FALSE]>> /\ HasReliable(d)
            \/ k \in DOMAIN sent_datagrams /\ sent_datagrams'[k] = sent_datagrams[k]
    <2>1. CASE HasReliable(d)
        <3>1. Len(sent_datagrams) \in Nat /\ DOMAIN sent_datagrams = 1 .. Len(sent_datagrams)
            BY <1>0, ShapeFacts DEF WindowInv
        <3>2. PICK dist, last :
                sent_datagrams' = [k \in 1 .. last |->
                    IF k = dist + 1 THEN <<[datagram |-> d, due |-> FALSE]>>
                    ELSE IF k <= Len(sent_datagrams) THEN sent_datagrams[k] ELSE <<>>]
            BY <1>4, <2>1 DEF TrackSentDatagram
        <3>3. PICK slot : slot = <<[datagram |-> d, due |-> FALSE]>>
            OBVIOUS
        <3>4. \A k \in 1 .. last : sent_datagrams'[k] =
                    IF k = dist + 1 THEN slot
                    ELSE IF k <= Len(sent_datagrams) THEN sent_datagrams[k] ELSE <<>>
            BY <3>2, <3>3
        <3>5. DOMAIN sent_datagrams' = 1 .. last
            BY <3>2
        <3> SUFFICES ASSUME NEW k \in 1 .. last, IsTracked(sent_datagrams'[k])
                     PROVE  \/ sent_datagrams'[k] = slot
                            \/ k \in DOMAIN sent_datagrams /\ sent_datagrams'[k] = sent_datagrams[k]
            BY <2>1, <3>3, <3>5
        <3> QED BY <3>1, <3>4 DEF IsTracked
    <2>2. CASE ~HasReliable(d)
        BY <1>4, <2>2
    <2> QED BY <2>1, <2>2
<1>11. WireInv'
    <2>1. built' \subseteq SizedDatagram /\ wire' \subseteq built'
        BY <1>0, <1>4, <1>8 DEF WireInv
    <2>2. ASSUME NEW k \in DOMAIN sent_datagrams', IsTracked(sent_datagrams'[k])
          PROVE  sent_datagrams'[k][1].datagram \in built' /\ sent_datagrams'[k][1].due \in BOOLEAN
        <3>1. CASE sent_datagrams'[k] = <<[datagram |-> d, due |-> FALSE]>>
            <4>1. sent_datagrams'[k][1] = [datagram |-> d, due |-> FALSE]
                BY <3>1
            <4>2. sent_datagrams'[k][1].datagram = d /\ sent_datagrams'[k][1].due = FALSE
                BY <4>1
            <4> QED BY <1>4, <4>2
        <3>2. CASE k \in DOMAIN sent_datagrams /\ sent_datagrams'[k] = sent_datagrams[k]
            <4>1. IsTracked(sent_datagrams[k])
                BY <2>2, <3>2 DEF IsTracked
            <4> QED BY <1>0, <1>4, <3>2, <4>1 DEF WireInv
        <3> QED BY <1>10, <2>2, <3>1, <3>2
    <2>3. UNCHANGED <<incoming_acks, incoming_naks, confirmed, given_up>>
        BY <1>4 DEF incomingVars
    <2> QED BY <1>0, <2>1, <2>2, <2>3 DEF WireInv
<1>12. SlidingInv'
    <2>1. CASE ~HasReliable(d)
        BY <1>0, <1>4, <2>1, SlidingUntouched
    <2>2. CASE HasReliable(d)
        <3>1. PICK tracked, after : tracked = TrackedDatagrams /\ after = TrackedDatagrams'
            OBVIOUS
        <3>2. after \subseteq tracked \cup {d}
            <4>1. ASSUME NEW k \in DOMAIN sent_datagrams', IsTracked(sent_datagrams'[k])
                  PROVE  sent_datagrams'[k][1].datagram \in tracked \cup {d}
                <5>1. CASE sent_datagrams'[k] = <<[datagram |-> d, due |-> FALSE]>>
                    BY <5>1
                <5>2. CASE k \in DOMAIN sent_datagrams /\ sent_datagrams'[k] = sent_datagrams[k]
                    <6>1. IsTracked(sent_datagrams[k])
                        BY <4>1, <5>2 DEF IsTracked
                    <6> QED BY <3>1, <5>2, <6>1 DEF TrackedDatagrams
                <5> QED BY <1>10, <4>1, <5>1, <5>2
            <4>2. TrackedDatagrams' = {sent_datagrams'[k][1].datagram :
                        k \in {j \in DOMAIN sent_datagrams' : IsTracked(sent_datagrams'[j])}}
                BY DEF TrackedDatagrams, IsTracked
            <4> QED BY <3>1, <4>1, <4>2
        <3>3. tracked \subseteq SizedDatagram /\ IsFiniteSet(tracked)
            BY <1>0, <3>1, TrackedBuilt, TrackedFacts
        <3>4. PICK union : union = tracked \cup {d}
            OBVIOUS
        <3>5. IsFiniteSet(union) /\ union \subseteq SizedDatagram
            BY <1>8, <3>3, <3>4, FS_AddElement
        <3>6. /\ \A x \in union : Sizes[x] \in Nat
              /\ \A x \in tracked : Sizes[x] \in Nat
            BY <3>3, <3>5, SizesSum
        <3>7. SumOf(Sizes, after) <= SumOf(Sizes, union)
            BY <3>2, <3>4, <3>5, <3>6, SumSubset
        <3>8. SumOf(Sizes, union) <= Sizes[d] + SumOf(Sizes, tracked)
              /\ SumOf(Sizes, union) \in Nat /\ SumOf(Sizes, tracked) \in Nat /\ Sizes[d] \in Nat
            <4>1. SumOf(Sizes, union) \in Nat /\ SumOf(Sizes, tracked) \in Nat
                BY <3>3, <3>5, <3>6, SumType
            <4>2. Sizes[d] \in Nat
                BY <3>4, <3>6
            <4>3. CASE d \in tracked
                <5>1. union = tracked
                    BY <3>4, <4>3
                <5> QED BY <4>1, <4>2, <5>1
            <4>4. CASE d \notin tracked
                <5>1. SumOf(Sizes, tracked \cup {d}) = Sizes[d] + SumOf(Sizes, tracked)
                    BY <3>3, <3>4, <3>6, <4>4, SumAdd
                <5> QED BY <3>4, <4>1, <4>2, <5>1
            <4> QED BY <4>3, <4>4
        <3>9. SumOf(Sizes, after) \in Nat
            <4>1. after \in SUBSET union
                BY <3>2, <3>4
            <4>2. IsFiniteSet(after) /\ \A x \in after : Sizes[x] \in Nat
                BY <3>5, <3>6, <4>1, FS_Subset
            <4> QED BY <4>2, SumType
        <3>10. DatagramSize(d) = Sizes[d]
            BY <1>8 DEF Sizes
        <3>11. sliding' = OnReliableSend(sliding, Sizes[d])
            BY <1>4, <2>2, <3>10 DEF TrackSentDatagram
        <3>12. /\ sliding' \in Windows /\ sliding'.unacked_bytes = sliding.unacked_bytes + Sizes[d]
               /\ sliding.unacked_bytes \in Nat
            <4>1. datagram_write_index \in SeqNum
                BY <1>0 DEF WindowInv, WindowBehindWrite
            <4> QED BY <1>6, <3>8, <3>11, <4>1, SlidingMoves, WindowFields
        <3>13. sliding.unacked_bytes >= SumOf(Sizes, tracked)
            BY <1>0, <3>1 DEF SlidingInv
        <3>14. sliding'.unacked_bytes >= SumOf(Sizes, after)
            BY <3>7, <3>8, <3>9, <3>12, <3>13
        <3>15. sliding'.unacked_bytes >= SumOf(Sizes, TrackedDatagrams')
            BY <3>1, <3>14
        <3>16. SlidingInv' <=> /\ sliding' \in Windows
                               /\ sliding'.unacked_bytes >= SumOf(Sizes, TrackedDatagrams')
            BY DEF SlidingInv
        <3> QED BY <3>12, <3>15, <3>16
    <2> QED BY <2>1, <2>2
<1> QED BY <1>9, <1>11, <1>12

\* on_tick: the ACKs take the bytes of the datagrams they release, and NAKs and
\* resends leave the unacknowledged bytes alone.
LEMMA TickKeeps ==
    ASSUME OutboundInv, NEW timers, NEW expired, SenderTick(timers, expired)
    PROVE  WindowInv' /\ QueueInv' /\ WireInv' /\ SlidingInv'
<1>0. WindowInv /\ QueueInv /\ WireInv /\ SlidingInv
    BY DEF OutboundInv
<1>1. WindowInv' /\ TickKept
    BY <1>0, TickKeepsWindow
<1>2. QueueInv'
    BY <1>0, QueueUntouched DEF SenderTick, indexVars
<1>3. /\ incoming_acks' = <<>> /\ incoming_naks' = <<>> /\ built' = built
      /\ confirmed' = confirmed \cup Contents(incoming_acks)
    BY DEF SenderTick
<1>4. /\ TrackedDatagrams \subseteq built /\ TrackedDatagrams \subseteq SizedDatagram
      /\ built \subseteq SizedDatagram
    BY <1>0, TrackedBuilt DEF WireInv
<1>5. WireInv'
    <2>1. wire' \subseteq built'
        BY <1>0, <1>1, <1>3, <1>4 DEF WireInv, TickKept
    <2>2. ASSUME NEW k \in DOMAIN sent_datagrams', IsTracked(sent_datagrams'[k])
          PROVE  sent_datagrams'[k][1].datagram \in built' /\ sent_datagrams'[k][1].due \in BOOLEAN
        BY <1>1, <1>3, <1>4, <2>2 DEF TickKept
    <2>3. <<>> \in Seq(SequenceRange)
        BY EmptySeq
    <2>4. confirmed' \subseteq SeqNum
        BY <1>0, <1>3 DEF WireInv, Contents, Members
    <2>5. given_up' \subseteq SeqNum
        <3>1. TrackedNumbers \subseteq SeqNum
            BY <1>4 DEF TrackedNumbers, SizedDatagram
        <3> QED BY <1>0, <1>1, <3>1 DEF WireInv, TickKept
    <2> QED BY <1>3, <1>4, <2>1, <2>2, <2>3, <2>4, <2>5 DEF WireInv
<1>6. SlidingInv'
    <2>1. PICK tracked, rest, after :
            /\ tracked = TrackedDatagrams
            /\ rest = {d \in TrackedDatagrams : d.sequence \notin Contents(incoming_acks)}
            /\ after = TrackedDatagrams'
        OBVIOUS
    <2>2. PICK w : w = SlidingAfterAcks
        OBVIOUS
    <2>3. w \in Windows /\ w.unacked_bytes >= SumOf(Sizes, rest)
        <3>1. /\ sliding \in Windows /\ incoming_acks \in Seq(SequenceRange)
              /\ sliding.unacked_bytes >= SumOf(Sizes, TrackedDatagrams)
            BY <1>0 DEF WireInv, SlidingInv
        <3>2. SlidingAfterAcks \in Windows
            BY <1>0, <1>4, <3>1, AckedBudget
        <3>3. SlidingAfterAcks.unacked_bytes >=
                SumOf(Sizes, {d \in TrackedDatagrams : d.sequence \notin Contents(incoming_acks)})
            BY <1>0, <1>4, <3>1, AckedBudget
        <3> QED BY <2>1, <2>2, <3>2, <3>3
    <2>4. after \subseteq rest /\ rest \subseteq tracked
        <3>1. TrackedDatagrams' = {sent_datagrams'[k][1].datagram :
                    k \in {j \in DOMAIN sent_datagrams' : IsTracked(sent_datagrams'[j])}}
            BY DEF TrackedDatagrams, IsTracked
        <3> QED BY <1>1, <2>1, <3>1 DEF TickKept
    <2>5. IsFiniteSet(tracked) /\ \A d \in tracked : Sizes[d] \in Nat
        BY <1>0, <1>4, <2>1, TrackedFacts, SizesSum
    <2>6. IsFiniteSet(rest) /\ IsFiniteSet(after)
          /\ (\A d \in rest : Sizes[d] \in Nat) /\ (\A d \in after : Sizes[d] \in Nat)
        BY <2>4, <2>5, FS_Subset
    <2>7. SumOf(Sizes, after) <= SumOf(Sizes, rest)
        BY <2>4, <2>6, SumSubset
    <2>8. SumOf(Sizes, after) \in Nat /\ SumOf(Sizes, rest) \in Nat
        BY <2>6, SumType
    <2>9. PICK v : (v = w \/ v = OnNak(w))
                   /\ (sliding' = v \/ sliding' = OnResend(v, datagram_write_index))
        BY <2>2 DEF SenderTick
    <2>10. datagram_write_index \in SeqNum /\ 0 \in Nat
        BY <1>0 DEF WindowInv, WindowBehindWrite
    <2>11. v \in Windows /\ v.unacked_bytes = w.unacked_bytes
        BY <2>3, <2>9, <2>10, SlidingMoves
    <2>12. sliding' \in Windows /\ sliding'.unacked_bytes = w.unacked_bytes
        BY <2>9, <2>10, <2>11, SlidingMoves
    <2>13. w.unacked_bytes \in Nat
        BY <2>3, WindowFields
    <2>14. sliding'.unacked_bytes >= SumOf(Sizes, after)
        BY <2>3, <2>7, <2>8, <2>12, <2>13
    <2>15. sliding'.unacked_bytes >= SumOf(Sizes, TrackedDatagrams')
        BY <2>1, <2>14
    <2>16. SlidingInv' <=> /\ sliding' \in Windows
                           /\ sliding'.unacked_bytes >= SumOf(Sizes, TrackedDatagrams')
        BY DEF SlidingInv
    <2> QED BY <2>12, <2>15, <2>16
<1> QED BY <1>1, <1>2, <1>5, <1>6

\* Every step of the sender keeps the invariant.
LEMMA OutboundSteps == OutboundInv /\ [OutboundNext]_outboundVars => OutboundInv'
<1> SUFFICES ASSUME OutboundInv, [OutboundNext]_outboundVars PROVE OutboundInv'
    OBVIOUS
<1>0. WindowInv /\ QueueInv /\ WireInv /\ SlidingInv /\ WindowInv'
    BY WindowStep DEF OutboundInv
<1>1. ASSUME NEW m \in DOMAIN Messages, QueuePacket(m) PROVE OutboundInv'
    <2>1. /\ UNCHANGED <<sent_datagrams, wire, built, confirmed, given_up>>
          /\ UNCHANGED <<sent_datagrams, sliding>> /\ UNCHANGED <<incoming_acks, incoming_naks>>
        BY <1>1 DEF QueuePacket, windowVars, incomingVars
    <2>2. QueueInv'
        BY <1>0, <1>1, QueuePacketKeeps
    <2>3. WireInv'
        BY <1>0, <2>1, WireUntouched DEF WireInv
    <2>4. SlidingInv'
        BY <1>0, <2>1, SlidingUntouched
    <2> QED BY <1>0, <2>2, <2>3, <2>4 DEF OutboundInv
<1>2. CASE BuildDatagram
    BY <1>0, <1>2, BuildKeeps DEF OutboundInv
<1>3. ASSUME NEW ranges \in Seq(SequenceRange),
             HandleAckPayload(ranges) \/ HandleNackPayload(ranges)
      PROVE  OutboundInv'
    <2>1. /\ UNCHANGED <<sent_datagrams, wire, built, confirmed, given_up>>
          /\ UNCHANGED <<sent_datagrams, sliding>>
          /\ UNCHANGED <<queueVars, reliability_write_index, order_write, split_index, queued>>
        BY <1>3 DEF HandleAckPayload, HandleNackPayload, windowVars, indexVars
    <2>2. incoming_acks' \in Seq(SequenceRange) /\ incoming_naks' \in Seq(SequenceRange)
        <3>1. incoming_acks \in Seq(SequenceRange) /\ incoming_naks \in Seq(SequenceRange)
            BY <1>0 DEF WireInv
        <3>2. /\ incoming_acks \o ranges \in Seq(SequenceRange)
              /\ incoming_naks \o ranges \in Seq(SequenceRange)
            BY <3>1, ConcatProperties
        <3> QED BY <1>3, <3>1, <3>2 DEF HandleAckPayload, HandleNackPayload
    <2>3. QueueInv' /\ SlidingInv'
        BY <1>0, <2>1, QueueUntouched, SlidingUntouched
    <2>4. WireInv'
        BY <1>0, <2>1, <2>2, WireUntouched
    <2> QED BY <1>0, <2>3, <2>4 DEF OutboundInv
<1>4. ASSUME NEW timers, NEW expired, SenderTick(timers, expired) PROVE OutboundInv'
    BY <1>4, TickKeeps DEF OutboundInv
<1>5. CASE UNCHANGED outboundVars
    <2>1. /\ UNCHANGED <<sent_datagrams, wire, built, confirmed, given_up>>
          /\ UNCHANGED <<sent_datagrams, sliding>> /\ UNCHANGED <<incoming_acks, incoming_naks>>
          /\ UNCHANGED <<queueVars, reliability_write_index, order_write, split_index, queued>>
        BY <1>5 DEF outboundVars, windowVars, incomingVars, indexVars
    <2>2. QueueInv' /\ SlidingInv'
        BY <1>0, <2>1, QueueUntouched, SlidingUntouched
    <2>3. WireInv'
        BY <1>0, <2>1, WireUntouched DEF WireInv
    <2> QED BY <1>0, <2>2, <2>3 DEF OutboundInv
<1> QED BY <1>1, <1>2, <1>3, <1>4, <1>5 DEF OutboundNext

\* The sender's invariant holds throughout.
LEMMA OutboundInvHolds == OutboundSpec => []OutboundInv
BY OutboundStarts, OutboundSteps, PTL DEF OutboundSpec

-----------------------------------------------------------------------------
\* Every field of the sending half keeps its type, for every modulus, window,
\* MTU and sequence of messages.
THEOREM OutboundTypeOKHolds == OutboundSpec => []OutboundTypeOK
<1>1. OutboundInv => OutboundTypeOK
    <2> SUFFICES ASSUME OutboundInv PROVE OutboundTypeOK
        OBVIOUS
    <2>0. WindowInv /\ QueueInv /\ WireInv
        BY DEF OutboundInv
    <2>1. SizedDatagram \subseteq Datagram
        <3> SUFFICES ASSUME NEW d \in SizedDatagram PROVE d \in Datagram
            OBVIOUS
        <3>1. /\ d = [sequence |-> d.sequence, packets |-> d.packets]
              /\ d.sequence \in SeqNum /\ d.packets \in Seq(SizedPacket)
            BY DEF SizedDatagram
        <3>2. SizedPacket \subseteq EncapsulatedPacket
            BY DEF SizedPacket
        <3>3. d.packets \in Seq(EncapsulatedPacket)
            BY <3>1, <3>2, SeqMonotone
        <3> QED BY <3>1, <3>3 DEF Datagram
    <2>2. built \subseteq Datagram /\ wire \subseteq Datagram
        BY <2>0, <2>1 DEF WireInv
    <2>3. sent_datagrams \in Seq(Slot)
        <3>1. /\ Len(sent_datagrams) \in Nat /\ DOMAIN sent_datagrams = 1 .. Len(sent_datagrams)
              /\ sent_datagrams = [k \in 1 .. Len(sent_datagrams) |-> sent_datagrams[k]]
            BY <2>0, LenProperties DEF WindowInv, WindowShape
        <3>2. ASSUME NEW k \in 1 .. Len(sent_datagrams) PROVE sent_datagrams[k] \in Slot
            <4>1. CASE ~IsTracked(sent_datagrams[k])
                <5>1. sent_datagrams[k] = <<>>
                    BY <4>1 DEF IsTracked
                <5> QED BY <5>1 DEF Slot
            <4>2. CASE IsTracked(sent_datagrams[k])
                <5>1. PICK d, b : d = sent_datagrams[k][1].datagram /\ b = sent_datagrams[k][1].due
                    OBVIOUS
                <5>2. sent_datagrams[k] = <<[datagram |-> d, due |-> b]>>
                    BY <2>0, <3>1, <4>2, <5>1 DEF WindowInv, WindowShape
                <5>3. d \in Datagram /\ b \in BOOLEAN
                    BY <2>0, <2>2, <3>1, <4>2, <5>1 DEF WireInv
                <5>4. PICK r : r = [datagram |-> d, due |-> b]
                    OBVIOUS
                <5>5. r \in [datagram : Datagram, due : BOOLEAN]
                    BY <5>3, <5>4
                <5>6. <<r>> \in Slot
                    BY <5>5 DEF Slot
                <5> QED BY <5>2, <5>4, <5>6
            <4> QED BY <4>1, <4>2
        <3>3. sent_datagrams \in [1 .. Len(sent_datagrams) -> Slot]
            BY <3>1, <3>2
        <3> QED BY <3>1, <3>3, FunctionIsSeq
    <2> QED BY <2>0, <2>2, <2>3 DEF OutboundTypeOK, WindowInv, WindowBehindWrite, QueueInv, WireInv
<1> QED BY OutboundInvHolds, <1>1, PTL

\* Whatever the application sends, a datagram that build_data_datagram makes,
\* headers included, does not exceed the MTU.
THEOREM DatagramsFitHolds == OutboundSpec => []DatagramsFit
<1>1. OutboundInv => DatagramsFit
    BY DEF OutboundInv, WireInv, DatagramsFit, SizedDatagram
<1> QED BY OutboundInvHolds, <1>1, PTL

\* What queue_packet splits fits a datagram, and no sequence of ACKs, NAKs and
\* resends closes the congestion window below the size of a queued packet.
THEOREM QueuedCanLeaveHolds == OutboundSpec => []QueuedCanLeave
<1>1. OutboundInv => QueuedCanLeave
    <2> SUFFICES ASSUME OutboundInv, NEW q \in queue.heap
                 PROVE  /\ IpUdpHeaders + DatagramHeader + PacketSize(q.pkt) <= Mtu
                        /\ PacketSize(q.pkt) <= sliding.cwnd
        BY DEF QueuedCanLeave
    <2>1. q.pkt \in SizedPacket
        BY DEF OutboundInv, QueueInv, Queues, Queueable
    <2>2. PacketSize(q.pkt) \in Nat /\ IpUdpHeaders + DatagramHeader + PacketSize(q.pkt) <= Mtu
        BY <2>1 DEF SizedPacket
    <2>3. sliding.cwnd \in Nat /\ sliding.cwnd >= Mtu
        BY WindowFields DEF OutboundInv, SlidingInv
    <2> QED BY <2>2, <2>3, MtuAssumption DEF IpUdpHeaders, DatagramHeader
<1> QED BY OutboundInvHolds, <1>1, PTL

\* queued_reliable_bytes, by which the session decides that its peer has
\* stalled, is neither too large nor too small: the saturating subtraction of
\* debit_reliable_bytes never saturates.
THEOREM QueuedBytesExactHolds == OutboundSpec => []QueuedBytesExact
<1>1. OutboundInv => QueuedBytesExact
    <2> SUFFICES ASSUME OutboundInv PROVE QueuedBytesExact
        OBVIOUS
    <2>1. /\ IsFiniteSet(queue.heap) /\ queue.heap \subseteq Queueable
          /\ queued_reliable_bytes = SumOf(Bytes, queue.heap)
        BY DEF OutboundInv, QueueInv, Queues
    <2>2. MapThenSumSet(ReliableBytes, queue.heap) = SumOf(Bytes, queue.heap)
        BY <2>1, BytesSum
    <2> QED BY <2>1, <2>2 DEF QueuedBytesExact
<1> QED BY OutboundInvHolds, <1>1, PTL

\* However often numbers are acknowledged, given up and resent, the budget for
\* retransmission covers every datagram that is still tracked.
THEOREM BudgetCoversTrackedHolds == OutboundSpec => []BudgetCoversTracked
<1>1. OutboundInv => BudgetCoversTracked
    <2> SUFFICES ASSUME OutboundInv PROVE BudgetCoversTracked
        OBVIOUS
    <2>1. IsFiniteSet(TrackedDatagrams) /\ TrackedDatagrams \subseteq SizedDatagram
        BY TrackedFacts, TrackedBuilt DEF OutboundInv
    <2>2. MapThenSumSet(DatagramSize, TrackedDatagrams) = SumOf(Sizes, TrackedDatagrams)
        BY <2>1, SizesSum
    <2>3. sliding.unacked_bytes >= SumOf(Sizes, TrackedDatagrams)
        BY DEF OutboundInv, SlidingInv
    <2> QED BY <2>2, <2>3 DEF BudgetCoversTracked, RetransmissionBandwidth
<1> QED BY OutboundInvHolds, <1>1, PTL
=============================================================================
