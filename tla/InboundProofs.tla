---------------------------- MODULE InboundProofs ----------------------------
(***************************************************************************)
(* The receiving half of a session, for every modulus, every set of        *)
(* packets whose ordering indexes lie within half a lap, every capacity    *)
(* and every number of channels: its types, that the application is given  *)
(* the ordered packets of a channel in order and none of them twice, that  *)
(* ACKs name handled datagrams only, and that every gap is NAKed; for a    *)
(* peer that numbers as the code does, also that messages come whole,      *)
(* that nothing vanishes without a record, and that no index is skipped    *)
(* silently.                                                               *)
(*                                                                         *)
(* Order is shown in offsets, the steps from Start: every ordered packet   *)
(* that has been handed over lies behind the read index of its channel,    *)
(* and what a channel releases lies between the read index before and the  *)
(* one after.  ACKs and NAKs are followed as sets of numbers through       *)
(* pushing, popping, sorting, encoding and decoding, and what packets      *)
(* carry as sets of fragments through splits, heaps and hand-over.         *)
(***************************************************************************)
EXTENDS Inbound, SessionLemmas

Offset(x) == SeqDistance(Start, x)

\* The packets of the stretch, and those that wait on channel c.
Stretched == {p \in EncapsulatedPacket : Offset(p.ordering_index) < Half - 1}
Waiting(c) == {p \in Stretched : IsOrdered(p.reliability) /\ p.ordering_channel = c}

ChannelOf(c) == {s \in ChannelOver(Waiting(c)) : Offset(s.read) < Half}

-----------------------------------------------------------------------------
(* The ordering channel in offsets.                                        *)

\* The start of the stretch, and a packet's place in it.
LEMMA OffsetFacts ==
    /\ Start \in SeqNum
    /\ \A x \in SeqNum : Offset(x) \in 0 .. Modulo - 1
    /\ \A x \in SeqNum : Offset(x) < Half => Offset(SeqNext(x)) = Offset(x) + 1
    /\ \A x, y \in SeqNum : Offset(x) = Offset(y) => x = y
<1>1. Start \in SeqNum
    BY InboundAssumption
<1>2. ASSUME NEW x \in SeqNum PROVE Offset(x) \in 0 .. Modulo - 1
    BY <1>1, DistanceType DEF Offset
<1>3. ASSUME NEW x \in SeqNum, Offset(x) < Half PROVE Offset(SeqNext(x)) = Offset(x) + 1
    <2>1. Offset(x) < Modulo - 1
        BY <1>2, <1>3, HalfFacts, ModuloAssumption
    <2> QED BY <1>1, <2>1, DistanceNext DEF Offset
<1>4. ASSUME NEW x \in SeqNum, NEW y \in SeqNum, Offset(x) = Offset(y) PROVE x = y
    BY <1>1, <1>4, ModuloAssumption DEF Offset, SeqDistance, SeqNum
<1> QED BY <1>1, <1>2, <1>3, <1>4

\* Steps that stay within the lap add to the offset.
LEMMA OffsetAdd ==
    ASSUME NEW x \in SeqNum, NEW n \in Nat, Offset(x) + n < Modulo
    PROVE  Offset(SeqAdd(x, n)) = Offset(x) + n
BY OffsetFacts, ModuloAssumption DEF Offset, SeqDistance, SeqAdd, SeqNum

\* What a channel releases once its read index has moved on to read: packets
\* of consecutive offsets from there on, all of them within the stretch.
LEMMA ReadyInStretch ==
    ASSUME NEW c, NEW s \in ChannelOver(Waiting(c)), NEW read \in SeqNum, Offset(read) < Half
    PROVE  LET n == ReadyLen(read, s.heap)
           IN  /\ n \in Nat /\ n < Modulo /\ Offset(read) + n < Half
               /\ \A i \in 1 .. n : Offset(s.heap[i].ordering_index) = Offset(read) + (i - 1)
<1> DEFINE n == ReadyLen(read, s.heap)
           o == Offset(read)
<1>1. /\ n \in 0 .. Len(s.heap) /\ Len(s.heap) \in 0 .. Modulo - 1
      /\ \A i \in 1 .. n : s.heap[i].ordering_index = SeqAdd(read, i - 1)
    BY ReadyLenFacts
<1>2. \A i \in 1 .. Len(s.heap) : s.heap[i] \in Waiting(c)
    BY ElementOfSeq DEF ChannelOver
<1>3. o \in Nat /\ o < Half /\ Half \in Nat /\ 2 * Half = Modulo /\ Half >= 2
    BY OffsetFacts, HalfFacts
<1>4. n \in Nat /\ n < Modulo /\ \A i \in 1 .. n : i \in 1 .. Len(s.heap)
    BY <1>1, ModuloAssumption
<1> HIDE DEF n, o
<1>5. \A i \in 1 .. n : Offset(s.heap[i].ordering_index) < Half - 1
    BY <1>2, <1>4 DEF Waiting, Stretched
<1>6. o + n < Half
    <2> SUFFICES ASSUME o + n >= Half PROVE FALSE
        BY <1>3, <1>4
    <2>1. PICK i : i = Half - o
        OBVIOUS
    <2>2. i \in 1 .. n /\ o + (i - 1) = Half - 1 /\ i - 1 \in Nat /\ Half - 1 < Modulo
        BY <1>3, <1>4, <2>1
    <2>3. Offset(SeqAdd(read, i - 1)) = o + (i - 1)
        BY <2>2, <1>3, OffsetAdd DEF o
    <2>4. Offset(s.heap[i].ordering_index) = Half - 1
        BY <1>1, <2>2, <2>3
    <2> QED BY <1>3, <1>5, <2>2, <2>4
<1>7. ASSUME NEW i \in 1 .. n PROVE Offset(s.heap[i].ordering_index) = o + (i - 1)
    <2>1. i - 1 \in Nat /\ o + (i - 1) < Modulo
        BY <1>3, <1>4, <1>6
    <2>2. Offset(SeqAdd(read, i - 1)) = o + (i - 1)
        BY <2>1, OffsetAdd DEF o
    <2> QED BY <1>1, <2>2
<1> QED BY <1>4, <1>6, <1>7 DEF n, o

\* Advancing past an index releases a run of offsets and leaves the read index
\* behind its end.
LEMMA ReleaseRun ==
    ASSUME NEW c, NEW s \in ChannelOf(c), Offset(s.read) < Half - 1
    PROVE  /\ Release(s) \in ChannelOf(c) /\ Released(s) \in Seq(Waiting(c))
           /\ Offset(Release(s).read) = Offset(s.read) + 1 + Len(Released(s))
           /\ \A i \in 1 .. Len(Released(s)) :
                    Offset(Released(s)[i].ordering_index) = Offset(s.read) + i
<1> DEFINE read == SeqNext(s.read)
           n == ReadyLen(read, s.heap)
           o == Offset(s.read)
<1>1. s \in ChannelOver(Waiting(c)) /\ s.read \in SeqNum /\ s.heap \in Seq(Waiting(c))
    BY DEF ChannelOf, ChannelOver
<1>2. o \in Nat /\ o < Half - 1 /\ Half \in Nat /\ 2 * Half = Modulo /\ Half >= 2
    BY <1>1, OffsetFacts, HalfFacts
<1>3. read \in SeqNum /\ Offset(read) = o + 1 /\ Offset(read) < Half
    BY <1>1, <1>2, OffsetFacts, NextType
<1>4. Release(s) \in ChannelOver(Waiting(c)) /\ Released(s) \in Seq(Waiting(c))
    BY <1>1, ReleaseTyped
<1>5. /\ n \in Nat /\ n < Modulo /\ Offset(read) + n < Half
      /\ \A i \in 1 .. n : Offset(s.heap[i].ordering_index) = Offset(read) + (i - 1)
    BY <1>1, <1>3, ReadyInStretch
<1>6. n <= Len(s.heap) /\ Len(s.heap) \in Nat
    BY <1>1, <1>3, ReadyLenFacts, LenProperties
<1>7. Release(s).read = SeqAdd(read, n) /\ Released(s) = SubSeq(s.heap, 1, n)
    BY DEF Release, Released
<1> HIDE DEF n, read, o
<1>8. Offset(SeqAdd(read, n)) = o + 1 + n
    <2>1. Offset(read) + n < Modulo
        BY <1>2, <1>3, <1>5
    <2> QED BY <2>1, <1>2, <1>3, <1>5, OffsetAdd
<1>9. Len(Released(s)) = n /\ \A i \in 1 .. n : Released(s)[i] = s.heap[i]
    <2>1. \A i \in 1 .. n : s.heap[i] \in Waiting(c)
        BY <1>1, <1>5, <1>6, ElementOfSeq
    <2>2. n \in Int /\ (IF 1 <= n THEN (n - 1) + 1 ELSE 0) = n
        BY <1>5
    <2> QED BY <1>5, <1>7, <2>1, <2>2, SubSeqProperties
<1>10. Offset(Release(s).read) < Half
    BY <1>2, <1>3, <1>5, <1>7, <1>8
<1> QED BY <1>2, <1>3, <1>4, <1>5, <1>7, <1>8, <1>9, <1>10 DEF ChannelOf, o

\* handle_ordered hands over a run that begins at the read index, and moves the
\* read index behind it.
LEMMA HandleOrderedRun ==
    ASSUME NEW c, NEW s \in ChannelOf(c), NEW p \in Waiting(c)
    PROVE  /\ HandleOrdered(s, p) \in ChannelOf(c) /\ Ready(s, p) \in Seq(Waiting(c))
           /\ Offset(HandleOrdered(s, p).read) = Offset(s.read) + Len(Ready(s, p))
           /\ \A i \in 1 .. Len(Ready(s, p)) :
                    Offset(Ready(s, p)[i].ordering_index) = Offset(s.read) + (i - 1)
<1>1. /\ s \in ChannelOver(Waiting(c)) /\ s.read \in SeqNum /\ Offset(s.read) < Half
      /\ p.ordering_index \in SeqNum /\ Offset(p.ordering_index) < Half - 1
    BY DEF ChannelOf, ChannelOver, Waiting, Stretched, EncapsulatedPacket
<1>2. HandleOrdered(s, p) \in ChannelOver(Waiting(c)) /\ Ready(s, p) \in Seq(Waiting(c))
    BY <1>1, HandleOrderedTyped
<1>3. Offset(s.read) \in Nat
    BY <1>1, OffsetFacts
<1>4. CASE s.read = p.ordering_index
    <2>1. PICK run, d : run = Released(s) /\ d = Release(s)
        OBVIOUS
    <2>2. /\ d \in ChannelOf(c) /\ run \in Seq(Waiting(c)) /\ Len(run) \in Nat
          /\ Offset(d.read) = Offset(s.read) + 1 + Len(run)
          /\ \A i \in 1 .. Len(run) : Offset(run[i].ordering_index) = Offset(s.read) + i
        BY <1>1, <1>4, <2>1, ReleaseRun, LenProperties
    <2>3. PICK t : t = <<p>> \o run
        OBVIOUS
    <2>4. Ready(s, p) = t /\ HandleOrdered(s, p) = d
        BY <1>4, <2>1, <2>3 DEF Ready, HandleOrdered
    <2>5. /\ Len(t) = 1 + Len(run) /\ t[1] = p
          /\ \A i \in 1 .. Len(t) : i > 1 => t[i] = run[i - 1]
        BY <2>2, <2>3, ConcatProperties
    <2>6. ASSUME NEW i \in 1 .. Len(t)
          PROVE  Offset(t[i].ordering_index) = Offset(s.read) + (i - 1)
        <3>1. CASE i = 1
            BY <3>1, <1>3, <1>4, <2>5
        <3>2. CASE i > 1
            <4>1. i - 1 \in 1 .. Len(run)
                BY <3>2, <2>2, <2>5
            <4> QED BY <4>1, <3>2, <2>2, <2>5
        <3> QED BY <2>2, <2>5, <3>1, <3>2
    <2> QED BY <1>2, <1>3, <2>2, <2>4, <2>5, <2>6
<1>5. CASE s.read # p.ordering_index
    <2>1. Ready(s, p) = <<>> /\ Len(Ready(s, p)) = 0
        BY <1>5, EmptySeq DEF Ready
    <2>2. HandleOrdered(s, p).read = s.read
        BY <1>1, <1>5 DEF HandleOrdered, ChannelOver
    <2>3. HandleOrdered(s, p) \in ChannelOf(c)
        BY <1>1, <1>2, <2>2 DEF ChannelOf
    <2>4. \A i \in 1 .. Len(Ready(s, p)) : FALSE
        BY <2>1
    <2> QED BY <1>2, <1>3, <2>1, <2>2, <2>3, <2>4
<1> QED BY <1>4, <1>5

\* skip_index does not move the read index back.
LEMMA SkipIndexRun ==
    ASSUME NEW c, NEW s \in ChannelOf(c), NEW x \in SeqNum, Offset(x) < Half - 1
    PROVE  /\ SkipIndex(s, x) \in ChannelOf(c)
           /\ Offset(SkipIndex(s, x).read) >= Offset(s.read)
<1>1. Offset(s.read) \in Nat
    BY OffsetFacts DEF ChannelOf, ChannelOver
<1>2. CASE s.read = x
    <2>1. PICK d, n : d = Release(s) /\ n = Len(Released(s))
        OBVIOUS
    <2>2. d \in ChannelOf(c) /\ n \in Nat /\ Offset(d.read) = Offset(s.read) + 1 + n
        BY <1>2, <2>1, ReleaseRun, LenProperties
    <2>3. SkipIndex(s, x) = d
        BY <1>2, <2>1 DEF SkipIndex
    <2> QED BY <1>1, <2>2, <2>3
<1>3. CASE s.read # x
    BY <1>1, <1>3 DEF SkipIndex
<1> QED BY <1>2, <1>3

-----------------------------------------------------------------------------
(* What has been handed over.                                              *)

\* The ordered packets of a channel come with growing offsets ...
InOrder(s) ==
    \A a, b \in DOMAIN s :
        OrderedPair(s, a, b) => Offset(s[a].ordering_index) < Offset(s[b].ordering_index)

\* ... and lie behind the read index of their channel.
Behind(s, ord) ==
    \A a \in DOMAIN s : IsOrdered(s[a].reliability) =>
        /\ s[a].ordering_channel \in Channels
        /\ Offset(s[a].ordering_index) < Offset(ord[s[a].ordering_channel].read)

\* Both hold of the first part of a sequence they hold of.
LEMMA FirstPart ==
    ASSUME NEW s \in Seq(Stretched), NEW t \in Seq(Stretched), NEW ord,
           InOrder(s \o t), Behind(s \o t, ord)
    PROVE  InOrder(s) /\ Behind(s, ord)
<1>1. PICK u : u = s \o t
    OBVIOUS
<1>2. /\ DOMAIN u = 1 .. Len(u) /\ Len(u) = Len(s) + Len(t) /\ DOMAIN s = 1 .. Len(s)
      /\ Len(s) \in Nat /\ Len(t) \in Nat /\ \A i \in 1 .. Len(s) : u[i] = s[i]
    BY <1>1, ConcatProperties, LenProperties
<1>3. \A a \in DOMAIN s : a \in DOMAIN u /\ u[a] = s[a]
    BY <1>2
<1>4. InOrder(u) /\ Behind(u, ord)
    BY <1>1
<1> HIDE <1>2
<1>5. InOrder(s)
    BY <1>3, <1>4 DEF InOrder, OrderedPair
<1>6. Behind(s, ord)
    BY <1>3, <1>4 DEF Behind
<1> QED BY <1>5, <1>6

\* A read index that moves forward leaves no packet in front of it.
LEMMA BehindGrows ==
    ASSUME NEW s \in Seq(Stretched), NEW ord, NEW next, Behind(s, ord),
           \A c \in Channels : /\ Offset(ord[c].read) \in Nat /\ Offset(next[c].read) \in Nat
                               /\ Offset(ord[c].read) <= Offset(next[c].read)
    PROVE  Behind(s, next)
<1> SUFFICES ASSUME NEW a \in DOMAIN s, IsOrdered(s[a].reliability)
             PROVE  /\ s[a].ordering_channel \in Channels
                    /\ Offset(s[a].ordering_index) < Offset(next[s[a].ordering_channel].read)
    BY DEF Behind
<1>1. PICK c, x : c = s[a].ordering_channel /\ x = s[a].ordering_index
    OBVIOUS
<1>2. c \in Channels /\ Offset(x) < Offset(ord[c].read)
    BY <1>1 DEF Behind
<1>3. Offset(x) \in Nat
    BY <1>1, ElementOfSeq, LenProperties, OffsetFacts DEF Stretched, EncapsulatedPacket
<1>4. Offset(x) < Offset(next[c].read)
    BY <1>2, <1>3
<1> QED BY <1>1, <1>2, <1>4

\* A run that begins at the read index of its channel comes after everything
\* handed over before.
LEMMA RunFollows ==
    ASSUME NEW s \in Seq(Stretched), NEW c \in Channels, NEW t \in Seq(Waiting(c)),
           NEW ord, NEW next, NEW o \in Nat, InOrder(s), Behind(s, ord),
           \A k \in Channels : Offset(ord[k].read) \in Nat,
           \A k \in Channels : k # c => next[k].read = ord[k].read,
           o = Offset(ord[c].read), Offset(next[c].read) = o + Len(t),
           \A i \in 1 .. Len(t) : Offset(t[i].ordering_index) = o + (i - 1)
    PROVE  InOrder(s \o t) /\ Behind(s \o t, next)
<1>1. PICK u, m, n : u = s \o t /\ m = Len(s) /\ n = Len(t)
    OBVIOUS
<1>2. m \in Nat /\ n \in Nat /\ DOMAIN s = 1 .. m
    BY <1>1, LenProperties
<1>2a. t \in Seq(Stretched)
    BY ElementOfSeq, IsASeq, LenProperties DEF Waiting
<1>3. /\ DOMAIN u = 1 .. m + n
      /\ \A i \in 1 .. m : u[i] = s[i]
      /\ \A i \in 1 .. m + n : i > m => u[i] = t[i - m]
    BY <1>1, <1>2, <1>2a, ConcatProperties, LenProperties
<1>4. \A i \in 1 .. m : s[i] \in Stretched /\ Offset(s[i].ordering_index) \in Nat
    <2> SUFFICES ASSUME NEW i \in 1 .. m
                 PROVE  s[i] \in Stretched /\ Offset(s[i].ordering_index) \in Nat
        OBVIOUS
    <2>1. s[i] \in Stretched
        BY <1>1, <1>2, ElementOfSeq
    <2>2. s[i].ordering_index \in SeqNum
        BY <2>1 DEF Stretched, EncapsulatedPacket
    <2> QED BY <2>1, <2>2, OffsetFacts
<1>5. \A i \in 1 .. n : t[i] \in Waiting(c) /\ Offset(t[i].ordering_index) = o + (i - 1)
    BY <1>1, <1>2, ElementOfSeq
<1>6. \A k \in Channels : Offset(ord[k].read) <= Offset(next[k].read) /\ Offset(next[k].read) \in Nat
    <2> SUFFICES ASSUME NEW k \in Channels
                 PROVE  /\ Offset(ord[k].read) <= Offset(next[k].read)
                        /\ Offset(next[k].read) \in Nat
        OBVIOUS
    <2>1. CASE k = c
        BY <2>1, <1>1, <1>2
    <2>2. CASE k # c
        <3>1. next[k].read = ord[k].read /\ Offset(ord[k].read) \in Nat
            BY <2>2
        <3> QED BY <3>1
    <2> QED BY <2>1, <2>2
<1>7. Behind(s, next)
    BY <1>6, BehindGrows
<1>8. Behind(u, next)
    <2> SUFFICES ASSUME NEW a \in 1 .. m + n, IsOrdered(u[a].reliability)
                 PROVE  /\ u[a].ordering_channel \in Channels
                        /\ Offset(u[a].ordering_index) < Offset(next[u[a].ordering_channel].read)
        BY <1>3 DEF Behind
    <2>1. CASE a \in 1 .. m
        BY <2>1, <1>2, <1>3, <1>7 DEF Behind
    <2>2. CASE a \notin 1 .. m
        <3>1. a - m \in 1 .. n /\ u[a] = t[a - m]
            BY <2>2, <1>2, <1>3
        <3>2. /\ t[a - m].ordering_channel = c
              /\ Offset(t[a - m].ordering_index) = o + ((a - m) - 1)
            BY <3>1, <1>5 DEF Waiting
        <3> QED BY <3>1, <3>2, <1>1, <1>2
    <2> QED BY <2>1, <2>2
<1>9. InOrder(u)
    <2> SUFFICES ASSUME NEW a \in 1 .. m + n, NEW b \in 1 .. m + n, OrderedPair(u, a, b)
                 PROVE  Offset(u[a].ordering_index) < Offset(u[b].ordering_index)
        BY <1>3 DEF InOrder
    <2>0. /\ a < b /\ IsOrdered(u[a].reliability) /\ IsOrdered(u[b].reliability)
          /\ u[a].ordering_channel = u[b].ordering_channel
        BY DEF OrderedPair
    <2>1. CASE a \in 1 .. m /\ b \in 1 .. m
        <3>1. u[a] = s[a] /\ u[b] = s[b]
            BY <2>1, <1>3
        <3>2. OrderedPair(s, a, b)
            BY <2>0, <3>1 DEF OrderedPair
        <3> QED BY <2>1, <3>1, <3>2, <1>2 DEF InOrder
    <2>2. CASE a \in 1 .. m /\ b \notin 1 .. m
        <3>1. b - m \in 1 .. n /\ u[b] = t[b - m] /\ u[a] = s[a]
            BY <2>2, <1>2, <1>3
        <3>2. /\ t[b - m].ordering_channel = c
              /\ Offset(t[b - m].ordering_index) = o + ((b - m) - 1)
            BY <3>1, <1>5 DEF Waiting
        <3>3. Offset(s[a].ordering_index) < o
            BY <2>0, <2>2, <3>1, <3>2, <1>2 DEF Behind
        <3> QED BY <2>2, <3>1, <3>2, <3>3, <1>2, <1>4
    <2>3. CASE a \notin 1 .. m
        <3>1. a - m \in 1 .. n /\ u[a] = t[a - m] /\ b - m \in 1 .. n /\ u[b] = t[b - m]
            BY <2>0, <2>3, <1>2, <1>3
        <3>2. /\ Offset(t[a - m].ordering_index) = o + ((a - m) - 1)
              /\ Offset(t[b - m].ordering_index) = o + ((b - m) - 1)
            BY <3>1, <1>5
        <3> QED BY <2>0, <3>1, <3>2, <1>2
    <2> QED BY <2>1, <2>2, <2>3
<1> QED BY <1>1, <1>8, <1>9

\* A packet that is not ordered disturbs neither.
LEMMA AsideFollows ==
    ASSUME NEW s \in Seq(Stretched), NEW p \in Stretched, ~IsOrdered(p.reliability), NEW ord,
           InOrder(s), Behind(s, ord)
    PROVE  InOrder(s \o <<p>>) /\ Behind(s \o <<p>>, ord)
<1>1. PICK u, m : u = s \o <<p>> /\ m = Len(s)
    OBVIOUS
<1>2. <<p>> \in Seq(Stretched) /\ Len(<<p>>) = 1 /\ <<p>>[1] = p
    OBVIOUS
<1>3. /\ m \in Nat /\ DOMAIN s = 1 .. m /\ DOMAIN u = 1 .. m + 1
      /\ (\A i \in 1 .. m : u[i] = s[i]) /\ u[m + 1] = p
    BY <1>1, <1>2, ConcatProperties, LenProperties
<1>4. \A a \in DOMAIN u : IsOrdered(u[a].reliability) => a \in DOMAIN s /\ u[a] = s[a]
    BY <1>3
<1> HIDE <1>3
<1>5. InOrder(u)
    BY <1>4 DEF InOrder, OrderedPair
<1>6. Behind(u, ord)
    BY <1>4 DEF Behind
<1> QED BY <1>1, <1>5, <1>6

-----------------------------------------------------------------------------
(* Splits.                                                                 *)

\* The entry of a split: its parts are numbered below its count.
PartMaps == UNION {[D -> Seq(Fragment)] : D \in SUBSET Nat}
Entries ==
    {e \in [header : Stretched, count : Nat, parts : PartMaps] : DOMAIN e.parts \subseteq 0 .. e.count - 1}

SplitMap(m) == \A id \in DOMAIN m : m[id] \in Entries

\* What the parts of an entry are.
LEMMA PartsFacts ==
    ASSUME NEW f
    PROVE  f \in PartMaps <=> /\ f = [i \in DOMAIN f |-> f[i]]
                           /\ DOMAIN f \subseteq Nat
                           /\ \A i \in DOMAIN f : f[i] \in Seq(Fragment)
<1>1. ASSUME f \in PartMaps
      PROVE  /\ f = [i \in DOMAIN f |-> f[i]] /\ DOMAIN f \subseteq Nat
             /\ \A i \in DOMAIN f : f[i] \in Seq(Fragment)
    BY <1>1 DEF PartMaps
<1>2. ASSUME f = [i \in DOMAIN f |-> f[i]], DOMAIN f \subseteq Nat,
             \A i \in DOMAIN f : f[i] \in Seq(Fragment)
      PROVE  f \in PartMaps
    <2>1. PICK D : D = DOMAIN f
        OBVIOUS
    <2>2. f \in [D -> Seq(Fragment)] /\ D \in SUBSET Nat
        BY <1>2, <2>1
    <2> QED BY <2>2 DEF PartMaps
<1> QED BY <1>1, <1>2

\* The entry a part belongs to, an old one or a new one.
LEMMA EntryForTyped ==
    ASSUME NEW m, SplitMap(m), NEW p \in Stretched
    PROVE  EntryFor(m, p) \in Entries
<1>1. CASE p.split.id \in DOMAIN m
    BY <1>1 DEF EntryFor, SplitMap
<1>2. CASE p.split.id \notin DOMAIN m
    <2> DEFINE h == [p EXCEPT !.split = NotSplit, !.payload = <<>>]
    <2>1. p \in EncapsulatedPacket /\ NotSplit \in SplitInfo /\ <<>> \in Seq(Fragment)
        BY EmptySeq DEF Stretched, NotSplit, SplitInfo
    <2>2. h \in EncapsulatedPacket /\ h.ordering_index = p.ordering_index
        BY <2>1 DEF EncapsulatedPacket
    <2>3. h \in Stretched
        BY <2>2 DEF Stretched
    <2>4. <<>> \in PartMaps /\ DOMAIN <<>> = {}
        <3>1. PICK e : e = <<>>
            OBVIOUS
        <3>2. DOMAIN e = {} /\ e = [i \in DOMAIN e |-> e[i]]
            BY <3>1
        <3>3. e \in PartMaps
            BY <3>2, PartsFacts
        <3> QED BY <3>1, <3>2, <3>3
    <2>5. p.split.count \in Nat
        BY <2>1 DEF EncapsulatedPacket, SplitInfo
    <2>6. EntryFor(m, p) = [header |-> h, count |-> p.split.count, parts |-> <<>>]
        BY <1>2 DEF EntryFor, NewEntry
    <2> HIDE DEF h
    <2> QED BY <2>3, <2>4, <2>5, <2>6 DEF Entries
<1> QED BY <1>1, <1>2

\* The entry once the part is stored.
LEMMA WithPartTyped ==
    ASSUME NEW m, SplitMap(m), NEW p \in Stretched, ~SplitMismatch(m, p)
    PROVE  WithPart(m, p) \in Entries /\ WithPart(m, p).count = p.split.count
<1>1. PICK e, i, g : e = EntryFor(m, p) /\ i = p.split.index /\ g = With(e.parts, i, p.payload)
    OBVIOUS
<1>2. /\ e \in Entries /\ e.parts \in PartMaps /\ e.count \in Nat
      /\ DOMAIN e.parts \subseteq 0 .. e.count - 1
    BY <1>1, EntryForTyped DEF Entries
<1>3. p.payload \in Seq(Fragment) /\ i \in Nat /\ p.split.count \in Nat
    BY <1>1 DEF Stretched, EncapsulatedPacket, SplitInfo
<1>4. e.count = p.split.count /\ i < e.count
    BY <1>1, <1>2, <1>3 DEF SplitMismatch
<1>5. CASE i \in DOMAIN e.parts
    BY <1>1, <1>2, <1>4, <1>5 DEF WithPart
<1>6. CASE i \notin DOMAIN e.parts
    <2>1. WithPart(m, p) = [e EXCEPT !.parts = g]
        BY <1>1, <1>6 DEF WithPart
    <2>2. /\ DOMAIN g = {i} \cup DOMAIN e.parts /\ g = [k \in DOMAIN g |-> g[k]]
          /\ g[i] = p.payload /\ \A k \in DOMAIN e.parts : k # i => g[k] = e.parts[k]
        BY <1>1 DEF With
    <2>3. \A k \in DOMAIN e.parts : k \in Nat /\ e.parts[k] \in Seq(Fragment)
        BY <1>2, PartsFacts
    <2>4. \A k \in DOMAIN g : k \in Nat /\ g[k] \in Seq(Fragment)
        BY <1>3, <2>2, <2>3
    <2>5. g \in PartMaps
        BY <2>2, <2>4, PartsFacts
    <2>6. DOMAIN g \subseteq 0 .. e.count - 1
        BY <1>2, <1>3, <1>4, <2>2
    <2> QED BY <1>2, <1>4, <2>1, <2>5, <2>6 DEF Entries
<1> QED BY <1>5, <1>6

\* The map after add, and after an entry is taken out.
LEMMA AddPartTyped ==
    ASSUME NEW m, SplitMap(m), NEW p \in Stretched
    PROVE  SplitMap(AddPart(m, p)) /\ \A id : SplitMap(Without(m, id))
<1>1. \A id : SplitMap(Without(m, id))
    BY DEF SplitMap, Without
<1>2. ASSUME NEW e \in Entries, NEW id PROVE SplitMap(With(m, id, e))
    <2>1. PICK g : g = With(m, id, e)
        OBVIOUS
    <2>2. /\ DOMAIN g = {id} \cup DOMAIN m /\ g[id] = e
          /\ \A k \in DOMAIN m : k # id => g[k] = m[k]
        BY <2>1 DEF With
    <2>3. SplitMap(g)
        BY <2>2 DEF SplitMap
    <2> QED BY <2>1, <2>3
<1>3. EntryFor(m, p) \in Entries
    BY EntryForTyped
<1>4. ~SplitMismatch(m, p) => WithPart(m, p) \in Entries
    BY WithPartTyped
<1>5. SplitMap(With(m, p.split.id, EntryFor(m, p)))
    BY <1>2, <1>3
<1>6. ~SplitMismatch(m, p) => SplitMap(With(m, p.split.id, WithPart(m, p)))
    BY <1>2, <1>4
<1> QED BY <1>1, <1>5, <1>6 DEF AddPart

\* What add returns: the packet itself, or the joined parts of a split that is
\* complete, under the header that came first.
LEMMA AssembledTyped ==
    ASSUME NEW m, SplitMap(m), NEW p \in Stretched, ~AddFails(m, p), Returns(m, p)
    PROVE  Assembled(m, p) \in Stretched
<1>1. CASE ~IsSplit(p)
    BY <1>1 DEF Assembled
<1>2. CASE IsSplit(p)
    <2>1. ~SplitMismatch(m, p) /\ Completes(m, p)
        BY <1>2 DEF AddFails, Returns
    <2>2. PICK e, n : e = WithPart(m, p) /\ n = p.split.count
        OBVIOUS
    <2>3. e \in Entries /\ e.count = n
        BY <2>1, <2>2, WithPartTyped
    <2>4. /\ n \in Nat /\ e.parts \in PartMaps /\ DOMAIN e.parts \subseteq 0 .. n - 1
          /\ e.header \in Stretched
        BY <2>3 DEF Entries
    <2>5. Cardinality(DOMAIN e.parts) = n
        BY <2>1, <2>2 DEF Completes
    <2>6. DOMAIN e.parts = 0 .. n - 1
        <3>1. IsFiniteSet(0 .. n - 1) /\ Cardinality(0 .. n - 1) = n
            <4>1. 0 \in Int /\ n - 1 \in Int /\ (IF 0 > n - 1 THEN 0 ELSE (n - 1) - 0 + 1) = n
                BY <2>4
            <4> QED BY <4>1, FS_Interval
        <3>2. DOMAIN e.parts \in SUBSET (0 .. n - 1)
            BY <2>4
        <3> QED BY <3>1, <3>2, <2>5, FS_Subset
    <2>7. PICK q : q = [k \in 1 .. n |-> e.parts[k - 1]]
        OBVIOUS
    <2>8. q \in [1 .. n -> Seq(Fragment)]
        BY <2>4, <2>6, <2>7, PartsFacts
    <2>9. q \in Seq(Seq(Fragment))
        BY <2>4, <2>8, FunctionIsSeq
    <2>10. PICK y : y = FlattenSeq(q)
        OBVIOUS
    <2>11. y \in Seq(Fragment)
        BY <2>9, <2>10, FlattenTyped
    <2>12. Assembled(m, p) = [e.header EXCEPT !.payload = y]
        BY <1>2, <2>2, <2>3, <2>7, <2>10 DEF Assembled
    <2>13. PICK h : h = e.header
        OBVIOUS
    <2>14. [h EXCEPT !.payload = y] \in EncapsulatedPacket
        BY <2>4, <2>11, <2>13 DEF Stretched, EncapsulatedPacket
    <2>15. [h EXCEPT !.payload = y].ordering_index = h.ordering_index
        BY <2>4, <2>13 DEF Stretched, EncapsulatedPacket
    <2> QED BY <2>4, <2>12, <2>13, <2>14, <2>15 DEF Stretched
<1> QED BY <1>1, <1>2

-----------------------------------------------------------------------------
(* ACKs and NAKs.                                                          *)

\* y is x with r in between two parts of it.
Between(A, x, r, y) == \E a, b \in Seq(A) : x = a \o b /\ y = (a \o <<r>>) \o b

\* A range is placed between two parts of what is sorted already.
LEMMA PlacedBetween ==
    ASSUME NEW A, NEW x \in Seq(A), NEW r
    PROVE  Between(A, x, r, Placed(x, r))
<1>1. PICK L, J, k : /\ L = Len(x) /\ J = {i \in DOMAIN x : x[i].start <= r.start}
                     /\ k = Cardinality(J)
    OBVIOUS
<1>2. L \in Nat /\ DOMAIN x = 1 .. L /\ \A i \in 1 .. L : x[i] \in A
    BY <1>1, LenProperties, ElementOfSeq
<1>3. k \in 0 .. L
    <2>0. J \in SUBSET (1 .. L)
        BY <1>1, <1>2
    <2>1. IsFiniteSet(1 .. L) /\ Cardinality(1 .. L) = L
        BY <1>2, FS_Interval
    <2>2. IsFiniteSet(J) /\ Cardinality(J) <= L
        BY <2>0, <2>1, FS_Subset
    <2>3. Cardinality(J) \in Nat
        BY <2>2, FS_CardinalityType
    <2> QED BY <1>1, <1>2, <2>2, <2>3
<1>4. PICK a, b : a = SubSeq(x, 1, (k + 1) - 1) /\ b = SubSeq(x, k + 1, L)
    OBVIOUS
<1>5. /\ a \in Seq(A) /\ Len(a) = k /\ \A i \in 1 .. k : a[i] = x[i]
      /\ b \in Seq(A) /\ Len(b) = L - k /\ \A i \in 1 .. L - k : b[i] = x[k + i]
    <2>1. (k + 1) - 1 \in Int /\ k + 1 \in Int /\ L \in Int /\ (k + 1) - 1 = k
        BY <1>2, <1>3
    <2>2. \A i \in 1 .. (k + 1) - 1 : x[i] \in A
        BY <1>2, <1>3
    <2>3. \A i \in k + 1 .. L : x[i] \in A
        BY <1>2, <1>3
    <2>4. a \in Seq(A) /\ Len(a) = k /\ \A i \in 1 .. k : a[i] = x[i]
        BY <1>3, <1>4, <2>1, <2>2, SubSeqProperties
    <2>5. b \in Seq(A) /\ Len(b) = L - k /\ \A i \in 1 .. L - k : b[i] = x[k + i]
        BY <1>2, <1>3, <1>4, <2>1, <2>3, SubSeqProperties
    <2> QED BY <2>4, <2>5
<1>6. x = a \o b
    <2>1. PICK c : c = a \o b
        OBVIOUS
    <2>2. /\ c \in Seq(A) /\ Len(c) = L
          /\ \A i \in 1 .. L : c[i] = IF i <= k THEN a[i] ELSE b[i - k]
        <3>1. c \in Seq(A) /\ Len(c) = Len(a) + Len(b)
            BY <1>5, <2>1, ConcatProperties
        <3>2. \A i \in 1 .. Len(a) + Len(b) : c[i] = IF i <= Len(a) THEN a[i] ELSE b[i - Len(a)]
            BY <1>5, <2>1, ConcatProperties
        <3>3. Len(a) = k /\ Len(a) + Len(b) = L
            BY <1>2, <1>3, <1>5
        <3> QED BY <3>1, <3>2, <3>3
    <2>3. ASSUME NEW i \in 1 .. L PROVE c[i] = x[i]
        <3>1. CASE i <= k
            BY <1>2, <1>3, <1>5, <2>2, <3>1
        <3>2. CASE ~(i <= k)
            <4>1. i - k \in 1 .. L - k /\ k + (i - k) = i
                BY <1>2, <1>3, <3>2
            <4> QED BY <1>5, <2>2, <3>2, <4>1
        <3> QED BY <3>1, <3>2
    <2> QED BY <1>1, <2>1, <2>2, <2>3, SeqEqual
<1>7. Placed(x, r) = (a \o <<r>>) \o b
    BY <1>1, <1>4 DEF Placed, InsertAt
<1> QED BY <1>5, <1>6, <1>7 DEF Between

\* Sorting a payload brings no number in; the ranges are placed one at a time.
LEMMA SortedSound ==
    ASSUME NEW S, NEW q \in QueuesWithin(S)
    PROVE  /\ Sorted(q) \in QueuesWithin(S)
           /\ \E f : /\ Sorted(q) = f[Len(q)]
                     /\ \A k \in 0 .. Len(q) : f[k] \in Seq(SequenceRange)
                     /\ \A k \in 1 .. Len(q) : f[k] = Placed(f[k - 1], q[k])
<1> DEFINE A == RangesWithin(S)
           D == Seq(A)
           n == Len(q)
           sorted == CHOOSE g : g = [k \in 0 .. n |-> IF k = 0 THEN <<>> ELSE Placed(g[k - 1], q[k])]
<1>1. q \in D /\ n \in Nat /\ \A k \in 1 .. n : q[k] \in A
    BY WithinByRange, LenProperties, ElementOfSeq
<1>2. ASSUME NEW x \in D, NEW r \in A PROVE Placed(x, r) \in D
    <2>0. Between(A, x, r, Placed(x, r))
        BY PlacedBetween
    <2>1. PICK a, b \in Seq(A) : Placed(x, r) = (a \o <<r>>) \o b
        BY <2>0 DEF Between
    <2>2. a \o <<r>> \in Seq(A)
        BY ConcatProperties
    <2>3. PICK c : c = a \o <<r>>
        OBVIOUS
    <2> QED BY <2>1, <2>2, <2>3, ConcatProperties
<1>3. Sorted(q) = sorted[n]
    BY DEF Sorted
<1>4. PICK op, e : op = [x \in D |-> [r \in A |-> Placed(x, r)]] /\ e = <<>>
    OBVIOUS
<1>5. e \in D
    BY <1>4, EmptySeq
<1> HIDE DEF D, A
<1>6. op \in [D -> [A -> D]] /\ q \in Seq(A)
    BY <1>1, <1>2, <1>4 DEF D
<1>7. PICK h \in [0 .. n -> D] : IsFold(h, op, e, q)
    BY <1>5, <1>6, FoldExists
<1>8. h = [k \in 0 .. n |-> IF k = 0 THEN e ELSE Placed(h[k - 1], q[k])]
    <2>1. ASSUME NEW k \in 0 .. n, k # 0
          PROVE  op[h[k - 1]][q[k]] = Placed(h[k - 1], q[k])
        <3>1. q[k] \in A /\ h[k - 1] \in D
            BY <2>1, <1>1
        <3> QED BY <3>1, <1>4
    <2> QED BY <1>7, <2>1 DEF IsFold
<1>9. sorted = [k \in 0 .. n |-> IF k = 0 THEN e ELSE Placed(sorted[k - 1], q[k])]
    <2> DEFINE Solves(g, b) == g = [k \in 0 .. n |-> IF k = 0 THEN b ELSE Placed(g[k - 1], q[k])]
    <2>1. sorted = CHOOSE g : Solves(g, e)
        BY <1>4
    <2>2. Solves(h, e)
        BY <1>8
    <2> HIDE DEF Solves, sorted
    <2>3. Solves(sorted, e)
        BY <2>1, <2>2
    <2> QED BY <2>3 DEF Solves
<1> HIDE DEF sorted, n
<1>10. sorted[0] \in D /\ \A k \in 1 .. n : sorted[k] = Placed(sorted[k - 1], q[k])
    BY <1>1, <1>5, <1>9
<1>11. \A k \in 1 .. n : sorted[k - 1] \in D => sorted[k] \in D
    BY <1>1, <1>2, <1>10
<1>12. \A k \in 0 .. n : sorted[k] \in D
    BY <1>1, <1>10, <1>11, StepInduction
<1>13. sorted[n] \in D
    BY <1>1, <1>12
<1>14. ASSUME NEW k \in 0 .. n PROVE sorted[k] \in Seq(SequenceRange)
    BY <1>12, WithinByRange DEF D, A, QueuesWithin
<1> QED BY <1>3, <1>10, <1>13, <1>14, WithinByRange DEF D, A, n

\* Sorting a payload loses no number.
LEMMA SortedComplete ==
    ASSUME NEW q \in Seq(SequenceRange)
    PROVE  Sorted(q) \in Seq(SequenceRange) /\ Contents(q) \subseteq Contents(Sorted(q))
<1>1. q \in QueuesWithin(Contents(q)) /\ Len(q) \in Nat /\ \A k \in 1 .. Len(q) : q[k] \in SequenceRange
    BY LenProperties, ElementOfSeq DEF QueuesWithin
<1>2. PICK f : /\ Sorted(q) = f[Len(q)]
               /\ \A k \in 0 .. Len(q) : f[k] \in Seq(SequenceRange)
               /\ \A k \in 1 .. Len(q) : f[k] = Placed(f[k - 1], q[k])
    BY <1>1, SortedSound
<1>3. ASSUME NEW k \in 1 .. Len(q)
      PROVE  Contents(f[k - 1]) \cup Members(q[k]) \subseteq Contents(f[k])
    <2>1. PICK x, r : x = f[k - 1] /\ r = q[k]
        OBVIOUS
    <2>2. x \in Seq(SequenceRange) /\ r \in SequenceRange
        BY <1>1, <1>2, <2>1
    <2>b. Between(SequenceRange, x, r, Placed(x, r))
        BY <2>2, PlacedBetween
    <2>3. PICK a, b \in Seq(SequenceRange) : x = a \o b /\ Placed(x, r) = (a \o <<r>>) \o b
        BY <2>b DEF Between
    <2>4. Contents(x) = Contents(a) \cup Contents(b)
        BY <2>3, ContentsConcat
    <2>5. PICK w : w = <<r>> /\ w \in Seq(SequenceRange) /\ Contents(w) = Members(r)
        BY <2>2, ContentsFew
    <2>6. PICK c : c = a \o w
        OBVIOUS
    <2>7. c \in Seq(SequenceRange) /\ Contents(c) = Contents(a) \cup Members(r)
        <3>1. a \o w \in Seq(SequenceRange) /\ Contents(a \o w) = Contents(a) \cup Contents(w)
            BY <2>5, ContentsConcat
        <3> QED BY <2>5, <2>6, <3>1
    <2>8. Contents(c \o b) = Contents(c) \cup Contents(b)
        BY <2>7, ContentsConcat
    <2> QED BY <1>2, <2>1, <2>3, <2>4, <2>5, <2>6, <2>7, <2>8
<1>4. \A j \in 1 .. Len(q) : Members(q[j]) \subseteq Contents(f[Len(q)])
    BY <1>1, <1>3, FoldCovers
<1>5. Len(q) \in 0 .. Len(q)
    BY <1>1
<1> QED BY <1>2, <1>4, <1>5, InContents

\* The pieces of a gap are ranges.
LEMMA NakRangesTyped ==
    ASSUME NEW n \in 0 .. Modulo - 1, datagram_read_index \in SeqNum
    PROVE  NakRanges(n) \in Seq(SequenceRange)
<1> DEFINE M == MaxAckSequences
           q == (n + M - 1) \div M
<1>1. M \in Nat /\ M > 0 /\ n \in Nat
    BY InboundAssumption, ModuloAssumption
<1>2. q \in Nat /\ M * q <= n + M - 1
    BY <1>1
<1> HIDE DEF M, q
<1>3. ASSUME NEW k \in 1 .. q
      PROVE  /\ (k - 1) * M \in 0 .. Modulo - 1
             /\ Min({k * M, n}) - 1 \in 0 .. Modulo - 1
    <2>1. k * M <= M * q /\ (k - 1) * M = k * M - M /\ (k - 1) * M >= 0 /\ k * M \in Nat
        BY <1>1, <1>2
    <2>2. (k - 1) * M <= n - 1 /\ n >= 1
        BY <1>1, <1>2, <2>1
    <2>3. Min({k * M, n}) \in {k * M, n}
          /\ Min({k * M, n}) <= n
        BY <1>1, <2>1, MinFacts
    <2>4. k * M >= 1
        BY <1>1, <2>1
    <2> QED BY <1>1, <2>1, <2>2, <2>3, <2>4, ModuloAssumption
<1>4. NakRanges(n) \in [1 .. q -> SequenceRange]
    <2>1. NakRanges(n) = [k \in 1 .. q |->
                [start |-> SeqAdd(datagram_read_index, (k - 1) * M),
                 end |-> SeqAdd(datagram_read_index, Min({k * M, n}) - 1)]]
        BY DEF NakRanges, q, M
    <2>2. ASSUME NEW k \in 1 .. q
          PROVE  /\ SeqAdd(datagram_read_index, (k - 1) * M) \in SeqNum
                 /\ SeqAdd(datagram_read_index, Min({k * M, n}) - 1) \in SeqNum
        BY <1>3, AddType
    <2> QED BY <2>1, <2>2 DEF SequenceRange
<1> QED BY <1>2, <1>4, FunctionIsSeq

\* Pushing the pieces of a gap, one at a time, keeps the queue one of ranges.
LEMMA PushNaksTyped ==
    ASSUME NEW q \in Seq(SequenceRange), NEW ranges \in Seq(SequenceRange)
    PROVE  /\ PushNaks(q, ranges) \in Seq(SequenceRange)
           /\ \E f : /\ f[0] = q /\ PushNaks(q, ranges) = f[Len(ranges)]
                     /\ \A k \in 0 .. Len(ranges) : f[k] \in Seq(SequenceRange)
                     /\ \A k \in 1 .. Len(ranges) : f[k] = Push(f[k - 1], ranges[k], AckCapacity)
<1> DEFINE A == SequenceRange
           D == Seq(SequenceRange)
           n == Len(ranges)
           pushed == CHOOSE g : g = [k \in 0 .. n |->
                        IF k = 0 THEN q ELSE Push(g[k - 1], ranges[k], AckCapacity)]
<1>1. n \in Nat /\ \A k \in 1 .. n : ranges[k] \in A
    BY LenProperties, ElementOfSeq
<1>2. \A x \in D, r \in A : Push(x, r, AckCapacity) \in D
    BY PushTyped
<1>3. PushNaks(q, ranges) = pushed[n]
    BY DEF PushNaks
<1>4. PICK op : op = [x \in D |-> [r \in A |-> Push(x, r, AckCapacity)]]
    OBVIOUS
<1> HIDE DEF D, A
<1>5. op \in [D -> [A -> D]] /\ ranges \in Seq(A) /\ q \in D
    BY <1>2, <1>4 DEF D, A
<1>6. PICK h \in [0 .. n -> D] : IsFold(h, op, q, ranges)
    BY <1>5, FoldExists
<1>7. h = [k \in 0 .. n |-> IF k = 0 THEN q ELSE Push(h[k - 1], ranges[k], AckCapacity)]
    <2>1. ASSUME NEW k \in 0 .. n, k # 0
          PROVE  op[h[k - 1]][ranges[k]] = Push(h[k - 1], ranges[k], AckCapacity)
        <3>1. ranges[k] \in A /\ h[k - 1] \in D
            BY <2>1, <1>1
        <3> QED BY <3>1, <1>4
    <2> QED BY <1>6, <2>1 DEF IsFold
<1>8. pushed = [k \in 0 .. n |-> IF k = 0 THEN q ELSE Push(pushed[k - 1], ranges[k], AckCapacity)]
    BY <1>7
<1> HIDE DEF pushed, n
<1>9. pushed[0] = q /\ pushed[0] \in D /\ \A k \in 1 .. n : pushed[k] = Push(pushed[k - 1], ranges[k], AckCapacity)
    BY <1>1, <1>5, <1>8
<1>10. \A k \in 1 .. n : pushed[k - 1] \in D => pushed[k] \in D
    BY <1>1, <1>2, <1>9
<1>11. \A k \in 0 .. n : pushed[k] \in D
    BY <1>1, <1>9, <1>10, StepInduction
<1>12. pushed[n] \in D
    BY <1>1, <1>11
<1> QED BY <1>3, <1>9, <1>11, <1>12 DEF D, n

\* The pieces of a gap have its numbers, all of them and no other.
LEMMA NakRangesExact ==
    ASSUME NEW n \in 0 .. Modulo - 1, datagram_read_index \in SeqNum
    PROVE  LET gap == SeqStretch(datagram_read_index, n)
           IN  /\ \A k \in 1 .. Len(NakRanges(n)) : Members(NakRanges(n)[k]) \subseteq gap
               /\ \A x \in gap : \E k \in 1 .. Len(NakRanges(n)) : x \in Members(NakRanges(n)[k])
<1> DEFINE M == MaxAckSequences
           a == datagram_read_index
           q == (n + M - 1) \div M
           From(k) == (k - 1) * M
           To(k) == Min({k * M, n}) - 1
<1>1. M \in Nat /\ M > 0 /\ n \in Nat /\ a \in SeqNum
    BY InboundAssumption, ModuloAssumption
<1>2. q \in Nat /\ M * q <= n + M - 1 /\ n + M - 1 < M * q + M
    BY <1>1
<1>3. NakRanges(n) = [k \in 1 .. q |-> [start |-> SeqAdd(a, From(k)), end |-> SeqAdd(a, To(k))]]
    BY DEF NakRanges
<1> HIDE DEF M, q, a
<1>4. ASSUME NEW k \in 1 .. q
      PROVE  /\ From(k) \in 0 .. Modulo - 1 /\ To(k) \in 0 .. Modulo - 1
             /\ From(k) <= To(k) /\ To(k) <= n - 1
             /\ \A d \in Nat : d < n /\ d < k * M => d <= To(k)
    <2>1. k * M <= M * q /\ (k - 1) * M = k * M - M /\ (k - 1) * M >= 0 /\ k * M \in Nat
        BY <1>1, <1>2
    <2>2. (k - 1) * M <= n - 1 /\ n >= 1
        BY <1>1, <1>2, <2>1
    <2>3. Min({k * M, n}) \in {k * M, n} /\ Min({k * M, n}) <= n
        BY <1>1, <2>1, MinFacts
    <2>4. k * M >= 1 /\ k * M - 1 >= (k - 1) * M
        BY <1>1, <2>1
    <2>5. PICK km, mn, km1 : km = k * M /\ mn = Min({k * M, n}) /\ km1 = (k - 1) * M
        OBVIOUS
    <2>6. /\ km \in Nat /\ km1 \in Nat /\ mn \in {km, n} /\ mn <= n /\ km1 <= n - 1 /\ km - 1 >= km1
          /\ n \in Nat /\ n <= Modulo - 1 /\ n >= 1
        BY <1>1, <2>1, <2>2, <2>3, <2>4, <2>5, ModuloAssumption
    <2>7. /\ km1 \in 0 .. Modulo - 1 /\ mn - 1 \in 0 .. Modulo - 1 /\ km1 <= mn - 1 /\ mn - 1 <= n - 1
          /\ \A d \in Nat : d < n /\ d < km => d <= mn - 1
        BY <2>6, ModuloAssumption
    <2> QED BY <2>5, <2>7
<1>5. Len(NakRanges(n)) = q
    BY <1>2, <1>3
<1>6. ASSUME NEW k \in 1 .. q, NEW x \in SeqNum
      PROVE  x \in Members(NakRanges(n)[k]) <=> From(k) <= SeqDistance(a, x) /\ SeqDistance(a, x) <= To(k)
    <2>1. PICK r : r = [start |-> SeqAdd(a, From(k)), end |-> SeqAdd(a, To(k))]
        OBVIOUS
    <2>2. r \in SequenceRange
        BY <1>1, <1>4, <2>1, AddType DEF SequenceRange
    <2>3. SeqDistance(a, r.start) = From(k) /\ SeqDistance(a, r.end) = To(k)
        BY <1>1, <1>4, <2>1, DistanceAdd
    <2>4. SeqDistance(a, r.start) <= SeqDistance(a, r.end)
        BY <1>4, <2>3
    <2>5. NakRanges(n)[k] = r
        BY <1>3, <2>1
    <2> HIDE DEF From, To
    <2> QED BY <1>1, <2>2, <2>3, <2>4, <2>5, MembersByOffset
<1>7. ASSUME NEW k \in 1 .. q PROVE Members(NakRanges(n)[k]) \subseteq SeqStretch(a, n)
    <2> SUFFICES ASSUME NEW x \in Members(NakRanges(n)[k]) PROVE x \in SeqStretch(a, n)
        OBVIOUS
    <2>1. x \in SeqNum
        BY DEF Members
    <2>2. SeqDistance(a, x) \in Nat /\ SeqDistance(a, x) <= To(k) /\ To(k) \in Int /\ To(k) <= n - 1
        BY <1>1, <1>4, <1>6, <2>1, DistanceType
    <2> HIDE DEF To
    <2>3. SeqDistance(a, x) < n
        BY <1>1, <2>2
    <2> QED BY <2>1, <2>3 DEF SeqStretch
<1>8. ASSUME NEW x \in SeqStretch(a, n) PROVE \E k \in 1 .. q : x \in Members(NakRanges(n)[k])
    <2>1. PICK d : d = SeqDistance(a, x)
        OBVIOUS
    <2>2. x \in SeqNum /\ d \in Nat /\ d < n
        BY <1>1, <2>1, DistanceType DEF SeqStretch
    <2>3. PICK j \in Nat : j * M <= d /\ d < (j + 1) * M
        <3>1. d \div M \in Nat /\ M * (d \div M) <= d /\ d < M * (d \div M) + M
            BY <1>1, <2>2
        <3>2. PICK j : j = d \div M
            OBVIOUS
        <3>3. j \in Nat /\ j * M <= d /\ d < (j + 1) * M
            BY <1>1, <3>1, <3>2
        <3> QED BY <3>3
    <2>4. j < q
        <3> SUFFICES ASSUME q <= j PROVE FALSE
            BY <1>2
        <3>1. M * q <= j * M
            BY <1>1, <1>2
        <3> QED BY <1>1, <1>2, <2>2, <2>3, <3>1
    <2>5. PICK k : k = j + 1
        OBVIOUS
    <2>6. k \in 1 .. q /\ From(k) <= d /\ d < k * M
        <3>1. k - 1 = j
            BY <2>5
        <3> QED BY <1>2, <2>3, <2>4, <2>5, <3>1
    <2>7. d <= To(k)
        BY <1>4, <2>2, <2>6
    <2> HIDE DEF From, To
    <2> QED BY <1>6, <2>1, <2>2, <2>6, <2>7
<1> QED BY <1>5, <1>7, <1>8 DEF a

\* With room for the pieces all of their numbers are taken in.
LEMMA PushNaksCovers ==
    ASSUME NEW o \in SeqNum, NEW q \in Seq(SequenceRange), NEW ranges \in Seq(SequenceRange),
           Contents(q) \subseteq SeqStretch(o, Half),
           \A k \in 1 .. Len(ranges) : Members(ranges[k]) \subseteq SeqStretch(o, Half),
           Len(q) + 2 * Len(ranges) <= AckCapacity
    PROVE  /\ Contents(q) \subseteq Contents(PushNaks(q, ranges))
           /\ \A k \in 1 .. Len(ranges) : Members(ranges[k]) \subseteq Contents(PushNaks(q, ranges))
<1>1. PICK n, T, l : n = Len(ranges) /\ T = SeqStretch(o, Half) /\ l = Len(q)
    OBVIOUS
<1>2. /\ n \in Nat /\ l \in Nat /\ AckCapacity \in Nat /\ l + 2 * n <= AckCapacity
      /\ \A k \in 1 .. n : ranges[k] \in SequenceRange /\ Members(ranges[k]) \subseteq T
    BY <1>1, LenProperties, ElementOfSeq, InboundAssumption
<1>f. PICK f : /\ f[0] = q /\ PushNaks(q, ranges) = f[Len(ranges)]
               /\ \A k \in 0 .. Len(ranges) : f[k] \in Seq(SequenceRange)
               /\ \A k \in 1 .. Len(ranges) : f[k] = Push(f[k - 1], ranges[k], AckCapacity)
    BY PushNaksTyped
<1>3. /\ f[0] = q /\ PushNaks(q, ranges) = f[n]
      /\ \A k \in 0 .. n : f[k] \in Seq(SequenceRange)
      /\ \A k \in 1 .. n : f[k] = Push(f[k - 1], ranges[k], AckCapacity)
    BY <1>1, <1>f
<1> DEFINE D == {k \in 0 .. n : Contents(f[k]) \subseteq T /\ Len(f[k]) <= l + 2 * k}
<1>4. PICK g : \A k \in 0 .. n : g[k] = k
    <2>1. \A k \in 0 .. n : [j \in 0 .. n |-> j][k] = k
        OBVIOUS
    <2> QED BY <2>1
<1>5. ASSUME NEW k \in 1 .. n, k - 1 \in D
      PROVE  k \in D /\ Contents(f[k - 1]) \cup Members(ranges[k]) \subseteq Contents(f[k])
    <2>1. PICK u, r, v : u = f[k - 1] /\ r = ranges[k] /\ v = Push(u, r, AckCapacity)
        OBVIOUS
    <2>2. /\ u \in Seq(SequenceRange) /\ r \in SequenceRange /\ Len(u) \in Nat /\ f[k] = v
          /\ Contents(u) \subseteq T /\ Members(r) \subseteq T /\ Len(u) <= l + 2 * (k - 1)
        BY <1>2, <1>3, <1>5, <2>1, LenProperties
    <2>3. Len(u) + 2 <= AckCapacity /\ Len(u) + 2 <= l + 2 * k
        BY <1>2, <2>2
    <2>4. Half \in 1 .. Half
        BY HalfFacts
    <2>5. Contents(v) \subseteq Contents(u) \cup Members(r)
        BY <1>1, <2>1, <2>2, <2>4, PushSound
    <2>6. Contents(u) \cup Members(r) \subseteq Contents(v) /\ Len(v) <= Len(u) + 2
        BY <1>1, <1>2, <2>1, <2>2, <2>3, <2>4, PushCovers
    <2>7. v \in Seq(SequenceRange) /\ Len(v) \in Nat
        BY <2>1, <2>2, PushTyped, LenProperties
    <2>8. Contents(f[k]) \subseteq T /\ Len(f[k]) <= l + 2 * k
        BY <1>2, <2>2, <2>3, <2>5, <2>6, <2>7
    <2> QED BY <2>1, <2>2, <2>6, <2>8
<1>6. g[0] \in D
    BY <1>1, <1>2, <1>3, <1>4
<1>7. ASSUME NEW k \in 1 .. n, g[k - 1] \in D PROVE g[k] \in D
    <2>1. g[k - 1] = k - 1 /\ g[k] = k
        BY <1>2, <1>4
    <2> HIDE DEF D
    <2> QED BY <1>5, <1>7, <2>1
<1> HIDE DEF D
<1>8. \A k \in 0 .. n : g[k] \in D
    BY <1>2, <1>6, <1>7, StepInduction
<1>9. ASSUME NEW k \in 1 .. n PROVE k - 1 \in D
    <2>1. k - 1 \in 0 .. n
        BY <1>2
    <2> QED BY <1>4, <1>8, <2>1
<1>10. \A k \in 1 .. n : Contents(f[k - 1]) \cup Members(ranges[k]) \subseteq Contents(f[k])
    BY <1>5, <1>9
<1>11. /\ Contents(f[0]) \subseteq Contents(f[n])
       /\ \A j \in 1 .. n : Members(ranges[j]) \subseteq Contents(f[n])
    BY <1>2, <1>10, FoldCovers
<1> QED BY <1>1, <1>3, <1>11

-----------------------------------------------------------------------------
(* The invariant.                                                          *)

ChannelsTyped ==
    /\ order = [c \in Channels |-> order[c]]
    /\ \A c \in Channels : order[c] \in ChannelOf(c)

QueuesTyped ==
    /\ datagram_read_index \in SeqNum
    /\ outgoing_acks \in Seq(SequenceRange)
    /\ outgoing_naks \in Seq(SequenceRange)

TrackerTyped ==
    /\ tracker \in TrackerState /\ Len(tracker.window) < Modulo
    /\ seen \subseteq SeqNum

HandlerTyped ==
    /\ handling \in BOOLEAN
    /\ current \in SentDatagram
    /\ place \in 0 .. Len(current.packets)

HistoryTyped == received \subseteq SentDatagram /\ naked \subseteq SeqNum

HandedTyped == out \in Seq(Stretched) /\ delivered \in Seq(Stretched)

\* What the application has been given and will be given at the end of the
\* datagram at hand.
HandedInOrder == InOrder(delivered \o out) /\ Behind(delivered \o out, order)

InboundInv ==
    /\ ChannelsTyped /\ SplitMap(splits) /\ QueuesTyped /\ TrackerTyped
    /\ HandlerTyped /\ HistoryTyped /\ HandedTyped /\ HandedInOrder

\* The packets of the peer lie in the stretch, and a datagram of none is one.
LEMMA SentFacts ==
    /\ Packets \subseteq Stretched
    /\ NoDatagram \in SentDatagram /\ Len(NoDatagram.packets) = 0
    /\ SentDatagram \subseteq Datagram
<1>1. Packets \subseteq Stretched
    BY InboundAssumption DEF Stretched, Offset
<1>2. NoDatagram \in SentDatagram /\ Len(NoDatagram.packets) = 0
    BY EmptySeq, OffsetFacts DEF NoDatagram, SentDatagram
<1>3. ASSUME NEW d \in SentDatagram PROVE d \in Datagram
    <2>1. /\ d = [sequence |-> d.sequence, packets |-> d.packets]
          /\ d.sequence \in SeqNum /\ d.packets \in Seq(Packets)
        BY DEF SentDatagram
    <2>2. d.packets \in Seq(EncapsulatedPacket)
        BY <2>1, InboundAssumption, SeqMonotone
    <2> QED BY <2>1, <2>2 DEF Datagram
<1> QED BY <1>1, <1>2, <1>3

\* A sequence of packets that wait is one of packets of the stretch.
LEMMA WaitingStretched ==
    ASSUME NEW c, NEW s \in Seq(Waiting(c))
    PROVE  s \in Seq(Stretched)
BY SeqMonotone DEF Waiting

\* The offsets of the read indexes are numbers.
LEMMA ReadFacts ==
    ASSUME ChannelsTyped
    PROVE  \A c \in Channels : /\ order[c] \in ChannelOf(c) /\ order[c].read \in SeqNum
                               /\ Offset(order[c].read) \in Nat
BY OffsetFacts DEF ChannelsTyped, ChannelOf, ChannelOver

\* A session begins with nothing handed over.
LEMMA InboundStarts == InboundInit => InboundInv
<1> SUFFICES ASSUME InboundInit PROVE InboundInv
    OBVIOUS
<1>1. ChannelsTyped
    <2>1. order = [c \in Channels |-> NewChannel(Start)]
        BY DEF InboundInit
    <2>2. ASSUME NEW c PROVE NewChannel(Start) \in ChannelOf(c)
        <3>1. Offset(Start) = 0 /\ Start \in SeqNum
            BY OffsetFacts, ModuloAssumption DEF Offset, SeqDistance, SeqNum
        <3>2. <<>> \in Seq(Waiting(c)) /\ Len(<<>>) = 0
            BY EmptySeq
        <3>3. 0 <= HeapCapacity /\ 0 < Half
            BY HeapCapacityAssumption, HalfFacts
        <3> QED BY <3>1, <3>2, <3>3 DEF NewChannel, ChannelOf, ChannelOver
    <2> QED BY <2>1, <2>2 DEF ChannelsTyped
<1>2. SplitMap(splits)
    BY DEF InboundInit, SplitMap
<1>3. QueuesTyped
    BY EmptySeq, OffsetFacts DEF InboundInit, QueuesTyped
<1>4. TrackerTyped
    BY EmptySeq, OffsetFacts, ModuloAssumption DEF InboundInit, TrackerTyped, NewTracker, TrackerState
<1>5. HandlerTyped
    <2>1. handling = FALSE /\ current = NoDatagram /\ place = 0
        BY DEF InboundInit
    <2>2. current \in SentDatagram /\ place \in 0 .. Len(current.packets)
        BY <2>1, SentFacts
    <2>3. handling \in BOOLEAN
        BY <2>1
    <2> QED BY <2>2, <2>3 DEF HandlerTyped
<1>6. HistoryTyped /\ HandedTyped
    BY EmptySeq DEF InboundInit, HistoryTyped, HandedTyped
<1>7. HandedInOrder
    <2>1. delivered \o out = <<>>
        BY ConcatEmptySeq, EmptySeq DEF InboundInit
    <2>2. DOMAIN <<>> = {}
        OBVIOUS
    <2> QED BY <2>1, <2>2 DEF HandedInOrder, InOrder, Behind
<1> QED BY <1>1, <1>2, <1>3, <1>4, <1>5, <1>6, <1>7 DEF InboundInv

-----------------------------------------------------------------------------
(* The steps.                                                              *)

\* out is dropped, and read indexes move forward at most.
LEMMA OutDropped ==
    ASSUME ChannelsTyped, ChannelsTyped', HandedTyped, HandedInOrder,
           out' = <<>>, delivered' = delivered,
           \A c \in Channels : Offset(order[c].read) <= Offset(order'[c].read)
    PROVE  HandedTyped' /\ HandedInOrder'
<1>1. delivered \in Seq(Stretched) /\ out \in Seq(Stretched)
    BY DEF HandedTyped
<1>2. InOrder(delivered) /\ Behind(delivered, order)
    BY <1>1, FirstPart DEF HandedInOrder
<1>3. \A c \in Channels : Offset(order[c].read) \in Nat /\ Offset(order'[c].read) \in Nat
    BY ReadFacts, OffsetFacts DEF ChannelsTyped, ChannelOf, ChannelOver
<1>4. Behind(delivered, order')
    BY <1>1, <1>2, <1>3, BehindGrows
<1>5. delivered' \o out' = delivered
    BY <1>1, ConcatEmptySeq
<1>6. HandedTyped'
    BY <1>1, EmptySeq DEF HandedTyped
<1>7. InOrder(delivered')
    BY <1>2 DEF InOrder, OrderedPair
<1>8. HandedInOrder'
    BY <1>2, <1>4, <1>5 DEF HandedInOrder, InOrder, OrderedPair, Behind
<1> QED BY <1>6, <1>8

\* What committing a packet does to the channels: read indexes move forward at
\* most, and what becomes ready comes after everything handed over before.
LEMMA CommitOrder ==
    ASSUME InboundInv, NEW whole \in Stretched,
           order' = IF OnChannel(whole)
                    THEN [order EXCEPT ![whole.ordering_channel] = HandleOrdered(@, whole)]
                    ELSE order
    PROVE  /\ ChannelsTyped'
           /\ \A c \in Channels : Offset(order[c].read) <= Offset(order'[c].read)
           /\ Dispatched(whole) \in Seq(Stretched)
           /\ InOrder((delivered \o out) \o Dispatched(whole))
           /\ Behind((delivered \o out) \o Dispatched(whole), order')
<1>1. PICK s, ready : s = delivered \o out /\ ready = Dispatched(whole)
    OBVIOUS
<1>2. s \in Seq(Stretched) /\ InOrder(s) /\ Behind(s, order)
    BY <1>1, ConcatProperties DEF InboundInv, HandedTyped, HandedInOrder
<1>3. ChannelsTyped /\ \A c \in Channels : /\ order[c] \in ChannelOf(c) /\ order[c].read \in SeqNum
                                           /\ Offset(order[c].read) \in Nat
    BY ReadFacts DEF InboundInv
<1>4. CASE ~OnChannel(whole)
    <2>1. order' = order
        BY <1>4
    <2>2. ChannelsTyped' /\ \A c \in Channels : Offset(order[c].read) <= Offset(order'[c].read)
        BY <1>3, <2>1 DEF ChannelsTyped
    <2>3. CASE ~IsOrdered(whole.reliability)
        <3>1. ready = <<whole>> /\ ready \in Seq(Stretched)
            BY <1>1, <2>3 DEF Dispatched
        <3>2. InOrder(s \o ready) /\ Behind(s \o ready, order')
            BY <1>2, <2>1, <2>3, <3>1, AsideFollows
        <3> QED BY <1>1, <2>2, <3>1, <3>2
    <2>4. CASE IsOrdered(whole.reliability)
        <3>1. ready = <<>> /\ ready \in Seq(Stretched)
            BY <1>1, <1>4, <2>4, EmptySeq DEF Dispatched
        <3>2. s \o ready = s
            BY <1>2, <3>1, ConcatEmptySeq
        <3> QED BY <1>1, <1>2, <2>1, <2>2, <3>1, <3>2
    <2> QED BY <2>3, <2>4
<1>5. CASE OnChannel(whole)
    <2>1. PICK c, ch, next : /\ c = whole.ordering_channel /\ ch = order[c]
                             /\ next = HandleOrdered(ch, whole)
        OBVIOUS
    <2>2. c \in Channels /\ whole \in Waiting(c)
        BY <1>5, <2>1 DEF OnChannel, Waiting
    <2>3. ready = Ready(ch, whole)
        BY <1>1, <1>5, <2>1 DEF Dispatched, OnChannel
    <2>4. /\ ch \in ChannelOf(c) /\ next \in ChannelOf(c) /\ ready \in Seq(Waiting(c))
          /\ Offset(next.read) = Offset(ch.read) + Len(ready)
          /\ \A i \in 1 .. Len(ready) :
                Offset(ready[i].ordering_index) = Offset(ch.read) + (i - 1)
        BY <1>3, <2>1, <2>2, <2>3, HandleOrderedRun
    <2>5. /\ order' = [k \in Channels |-> order'[k]] /\ order'[c] = next
          /\ \A k \in Channels : k # c => order'[k] = order[k]
        BY <1>3, <1>5, <2>1, <2>2 DEF ChannelsTyped
    <2>6. ASSUME NEW k \in Channels
          PROVE  order'[k] \in ChannelOf(k) /\ Offset(order[k].read) <= Offset(order'[k].read)
        <3>1. CASE k = c
            <4>1. Len(ready) \in Nat /\ Offset(ch.read) \in Nat
                BY <1>3, <2>1, <2>2, <2>4, LenProperties
            <4> QED BY <2>1, <2>4, <2>5, <3>1, <4>1
        <3>2. CASE k # c
            BY <1>3, <2>5, <3>2
        <3> QED BY <3>1, <3>2
    <2>7. ChannelsTyped'
        BY <2>5, <2>6 DEF ChannelsTyped
    <2>8. PICK o \in Nat : o = Offset(ch.read)
        BY <1>3, <2>1, <2>2
    <2>9. PICK ord, nxt : ord = order /\ nxt = order'
        OBVIOUS
    <2>10. InOrder(s \o ready) /\ Behind(s \o ready, nxt)
        <3>1. /\ \A k \in Channels : Offset(ord[k].read) \in Nat
              /\ \A k \in Channels : k # c => nxt[k].read = ord[k].read
              /\ o = Offset(ord[c].read) /\ Offset(nxt[c].read) = o + Len(ready)
              /\ \A i \in 1 .. Len(ready) : Offset(ready[i].ordering_index) = o + (i - 1)
              /\ Behind(s, ord)
            BY <1>2, <1>3, <2>1, <2>4, <2>5, <2>8, <2>9
        <3> QED BY <1>2, <2>2, <2>4, <3>1, RunFollows
    <2>11. ready \in Seq(Stretched)
        BY <2>4, WaitingStretched
    <2> QED BY <1>1, <2>6, <2>7, <2>9, <2>10, <2>11
<1> QED BY <1>4, <1>5

\* All that handle_encapsulated changes before it decodes.
LEMMA CommitFacts ==
    ASSUME InboundInv, NEW p \in Packets, ~AddFails(splits, p),
           CommitPacket(p, Assembled(splits, p)), NEW ready,
           ready = IF Returns(splits, p) THEN Dispatched(Assembled(splits, p)) ELSE <<>>
    PROVE  /\ SplitMap(splits)' /\ TrackerTyped' /\ ChannelsTyped'
           /\ \A c \in Channels : Offset(order[c].read) <= Offset(order'[c].read)
           /\ ready \in Seq(Stretched)
           /\ InOrder((delivered \o out) \o ready) /\ Behind((delivered \o out) \o ready, order')
<1>1. p \in Stretched /\ SplitMap(splits) /\ TrackerTyped /\ ChannelsTyped
    BY SentFacts DEF InboundInv
<1>2. SplitMap(splits)'
    <2>1. SplitMap(AddPart(splits, p))
        BY <1>1, AddPartTyped
    <2> QED BY <2>1 DEF SplitMap, CommitPacket
<1>3. TrackerTyped'
    <2>1. p.reliable_index \in SeqNum
        BY <1>1 DEF Stretched, EncapsulatedPacket
    <2>2. PICK t : t = See(tracker, p.reliable_index)
        OBVIOUS
    <2>3. t \in TrackerState /\ Len(t.window) < Modulo
        BY <1>1, <2>1, <2>2, SeeTyped DEF TrackerTyped
    <2>4. tracker' \in {tracker, t} /\ seen' \subseteq seen \cup {p.reliable_index}
        BY <2>2 DEF CommitPacket
    <2> QED BY <1>1, <2>1, <2>3, <2>4 DEF TrackerTyped
<1>4. CASE ~Returns(splits, p)
    <2>1. order' = order /\ ready = <<>>
        BY <1>4 DEF CommitPacket
    <2>2. ChannelsTyped' /\ \A c \in Channels : Offset(order[c].read) <= Offset(order'[c].read)
        BY <1>1, <2>1, ReadFacts DEF ChannelsTyped
    <2>3. delivered \o out \in Seq(Stretched)
        BY ConcatProperties DEF InboundInv, HandedTyped
    <2>4. (delivered \o out) \o ready = delivered \o out /\ ready \in Seq(Stretched)
        BY <2>1, <2>3, ConcatEmptySeq, EmptySeq
    <2>5. InOrder(delivered \o out) /\ Behind(delivered \o out, order)
        BY DEF InboundInv, HandedInOrder
    <2> QED BY <1>2, <1>3, <2>1, <2>2, <2>4, <2>5
<1>5. CASE Returns(splits, p)
    <2>1. PICK whole : whole = Assembled(splits, p)
        OBVIOUS
    <2>2. whole \in Stretched
        BY <1>1, <1>5, <2>1, AssembledTyped
    <2>3. /\ order' = IF OnChannel(whole)
                      THEN [order EXCEPT ![whole.ordering_channel] = HandleOrdered(@, whole)]
                      ELSE order
          /\ ready = Dispatched(whole)
        BY <1>5, <2>1 DEF CommitPacket
    <2> QED BY <1>2, <1>3, <2>2, <2>3, CommitOrder
<1> QED BY <1>4, <1>5

\* handle_data_payload takes up a datagram.
LEMMA HandleDatagramKeeps ==
    ASSUME InboundInv, NEW d \in SentDatagram, HandleDatagram(d)
    PROVE  InboundInv'
<1> USE DEF InboundInv
<1>1. /\ handling' = TRUE /\ current' = d /\ place' = 0 /\ out' = <<>> /\ delivered' = delivered
      /\ UNCHANGED sessionVars /\ UNCHANGED historyVars
    BY DEF HandleDatagram
<1>2. ChannelsTyped' /\ SplitMap(splits)' /\ QueuesTyped' /\ TrackerTyped' /\ HistoryTyped'
    BY <1>1 DEF sessionVars, historyVars, ChannelsTyped, SplitMap, QueuesTyped, TrackerTyped, HistoryTyped
<1>3. HandlerTyped'
    <2>1. Len(d.packets) \in Nat
        BY LenProperties DEF SentDatagram
    <2>2. place' \in 0 .. Len(current'.packets) /\ current' \in SentDatagram
        BY <1>1, <2>1
    <2>3. handling' \in BOOLEAN
        BY <1>1
    <2> QED BY <2>2, <2>3 DEF HandlerTyped
<1>4. \A c \in Channels : Offset(order[c].read) <= Offset(order'[c].read)
    BY <1>1, ReadFacts DEF sessionVars
<1>5. HandedTyped' /\ HandedInOrder'
    BY <1>1, <1>2, <1>4, OutDropped
<1> QED BY <1>2, <1>3, <1>5

\* The packet at hand, one of the datagram's.
LEMMA PacketAtHand ==
    ASSUME HandlerTyped, place < Len(current.packets)
    PROVE  current.packets[place + 1] \in Packets /\ place + 1 \in 0 .. Len(current.packets)
<1>1. current.packets \in Seq(Packets) /\ place \in Nat
    BY DEF HandlerTyped, SentDatagram
<1>2. place + 1 \in 1 .. Len(current.packets) /\ Len(current.packets) \in Nat
    BY <1>1, LenProperties
<1> QED BY <1>1, <1>2, ElementOfSeq

\* A datagram that is abandoned: out is dropped, nothing else is.
LEMMA AbandonKeeps ==
    ASSUME InboundInv, AbandonDatagram, ChannelsTyped', SplitMap(splits)', TrackerTyped',
           \A c \in Channels : Offset(order[c].read) <= Offset(order'[c].read)
    PROVE  InboundInv'
<1> USE DEF InboundInv
<1>1. /\ handling' = FALSE /\ current' = NoDatagram /\ place' = 0 /\ out' = <<>>
      /\ UNCHANGED <<datagram_read_index, outgoing_acks, outgoing_naks, delivered, received, naked>>
    BY DEF AbandonDatagram
<1>2. QueuesTyped' /\ HistoryTyped'
    BY <1>1 DEF QueuesTyped, HistoryTyped
<1>3. HandlerTyped'
    <2>1. place' \in 0 .. Len(current'.packets) /\ current' \in SentDatagram
        BY <1>1, SentFacts
    <2>2. handling' \in BOOLEAN
        BY <1>1
    <2> QED BY <2>1, <2>2 DEF HandlerTyped
<1>4. HandedTyped' /\ HandedInOrder'
    BY <1>1, OutDropped
<1> QED BY <1>2, <1>3, <1>4

\* One packet of a datagram.
LEMMA HandleEncapsulatedKeeps ==
    ASSUME InboundInv, HandleEncapsulated
    PROVE  InboundInv'
<1> USE DEF InboundInv
<1>1. PICK p : p = current.packets[place + 1]
    OBVIOUS
<1>2. /\ handling /\ place < Len(current.packets)
      /\ DropDuplicate(p) \/ RefusePart(p) \/ AcceptPacket(p)
    BY <1>1 DEF HandleEncapsulated
<1>3. p \in Packets /\ p \in Stretched /\ place + 1 \in 0 .. Len(current.packets)
    BY <1>1, <1>2, PacketAtHand, SentFacts
<1>4. CASE DropDuplicate(p)
    <2>1. /\ place' = place + 1 /\ UNCHANGED sessionVars
          /\ UNCHANGED <<handling, current, out, delivered, received, naked, seen>>
        BY <1>4 DEF DropDuplicate
    <2>2. ChannelsTyped' /\ SplitMap(splits)' /\ QueuesTyped' /\ TrackerTyped' /\ HistoryTyped'
        BY <2>1 DEF sessionVars, ChannelsTyped, SplitMap, QueuesTyped, TrackerTyped, HistoryTyped
    <2>3. HandlerTyped'
        BY <1>3, <2>1 DEF HandlerTyped
    <2>4. HandedTyped' /\ HandedInOrder'
        BY <2>1 DEF HandedTyped, HandedInOrder, InOrder, OrderedPair, Behind, sessionVars
    <2> QED BY <2>2, <2>3, <2>4
<1>5. CASE RefusePart(p)
    <2>1. AbandonDatagram /\ splits' = AddPart(splits, p) /\ UNCHANGED <<tracker, order, seen>>
        BY <1>5 DEF RefusePart
    <2>2. ChannelsTyped' /\ TrackerTyped'
        BY <2>1 DEF ChannelsTyped, TrackerTyped
    <2>3. SplitMap(splits)'
        <3>1. SplitMap(AddPart(splits, p))
            BY <1>3, AddPartTyped
        <3> QED BY <2>1, <3>1 DEF SplitMap
    <2>4. \A c \in Channels : Offset(order[c].read) <= Offset(order'[c].read)
        BY <2>1, ReadFacts
    <2> QED BY <2>1, <2>2, <2>3, <2>4, AbandonKeeps
<1>6. CASE AcceptPacket(p)
    <2>1. PICK ready : ready = IF Returns(splits, p) THEN Dispatched(Assembled(splits, p)) ELSE <<>>
        OBVIOUS
    <2>2. ~AddFails(splits, p) /\ CommitPacket(p, Assembled(splits, p))
        BY <1>6 DEF AcceptPacket
    <2>3. /\ SplitMap(splits)' /\ TrackerTyped' /\ ChannelsTyped'
          /\ \A c \in Channels : Offset(order[c].read) <= Offset(order'[c].read)
          /\ ready \in Seq(Stretched)
          /\ InOrder((delivered \o out) \o ready) /\ Behind((delivered \o out) \o ready, order')
        BY <1>3, <2>1, <2>2, CommitFacts
    <2>4. \/ AbandonDatagram
          \/ /\ out' = out \o ready /\ place' = place + 1
             /\ UNCHANGED <<datagram_read_index, outgoing_acks, outgoing_naks,
                            handling, current, delivered, received, naked>>
        BY <1>6, <2>1 DEF AcceptPacket
    <2>5. CASE AbandonDatagram
        BY <2>3, <2>5, AbandonKeeps
    <2>6. CASE /\ out' = out \o ready /\ place' = place + 1
               /\ UNCHANGED <<datagram_read_index, outgoing_acks, outgoing_naks,
                              handling, current, delivered, received, naked>>
        <3>1. QueuesTyped' /\ HistoryTyped'
            BY <2>6 DEF QueuesTyped, HistoryTyped
        <3>2. HandlerTyped'
            BY <1>3, <2>6 DEF HandlerTyped
        <3>3. out \in Seq(Stretched) /\ delivered \in Seq(Stretched)
            BY DEF HandedTyped
        <3>4. out' \in Seq(Stretched) /\ delivered' \in Seq(Stretched)
            BY <2>3, <2>6, <3>3, ConcatProperties
        <3>5. PICK u, nxt : u = (delivered \o out) \o ready /\ nxt = order'
            OBVIOUS
        <3>6. delivered' \o out' = u
            <4>1. PICK d, e : d = delivered /\ e = out
                OBVIOUS
            <4>2. d \o (e \o ready) = (d \o e) \o ready
                BY <2>3, <3>3, <4>1, ConcatAssociative
            <4>3. delivered' = d /\ out' = e \o ready
                BY <2>6, <4>1
            <4> QED BY <3>5, <4>1, <4>2, <4>3
        <3>7. InOrder(u) /\ Behind(u, nxt)
            BY <2>3, <3>5
        <3>8. HandedInOrder'
            BY <3>5, <3>6, <3>7 DEF HandedInOrder, InOrder, OrderedPair, Behind
        <3>9. HandedTyped'
            BY <3>4 DEF HandedTyped
        <3> QED BY <2>3, <3>1, <3>2, <3>8, <3>9
    <2> QED BY <2>4, <2>5, <2>6
<1> QED BY <1>2, <1>4, <1>5, <1>6

\* process_datagram_sequence pushes ranges of sequence numbers.
LEMMA ProcessKeepsQueues ==
    ASSUME QueuesTyped, current.sequence \in SeqNum, ProcessDatagramSequence(current.sequence)
    PROVE  QueuesTyped'
<1>1. PICK seq, at : seq = current.sequence /\ at = datagram_read_index
    OBVIOUS
<1>2. seq \in SeqNum /\ at \in SeqNum /\ datagram_read_index \in SeqNum
    BY <1>1 DEF QueuesTyped
<1>3. outgoing_acks \in Seq(SequenceRange) /\ outgoing_naks \in Seq(SequenceRange)
    BY DEF QueuesTyped
<1>4. Singleton(seq) \in SequenceRange
    BY <1>2 DEF Singleton, SequenceRange
<1>5. outgoing_acks' \in Seq(SequenceRange)
    BY <1>1, <1>3, <1>4, PushTyped DEF ProcessDatagramSequence
<1>6. CASE SeqGreater(at, seq)
    BY <1>1, <1>2, <1>3, <1>5, <1>6 DEF ProcessDatagramSequence, QueuesTyped
<1>7. CASE ~SeqGreater(at, seq)
    <2>1. PICK n : n = SeqDistance(at, seq)
        OBVIOUS
    <2>2. n \in 0 .. Modulo - 1 /\ SeqNext(seq) \in SeqNum
        BY <1>2, <2>1, DistanceType, NextType
    <2>3. NakRanges(n) \in Seq(SequenceRange)
        BY <1>2, <2>2, NakRangesTyped
    <2>4. PushNaks(outgoing_naks, NakRanges(n)) \in Seq(SequenceRange)
        BY <1>3, <2>3, PushNaksTyped
    <2>5. /\ datagram_read_index' = SeqNext(seq)
          /\ outgoing_naks' = PushNaks(outgoing_naks, NakRanges(n))
        BY <1>1, <1>7, <2>1 DEF ProcessDatagramSequence
    <2> QED BY <1>5, <2>2, <2>4, <2>5 DEF QueuesTyped
<1> QED BY <1>6, <1>7

\* The end of a datagram: out goes to the application.
LEMMA FinishDatagramKeeps ==
    ASSUME InboundInv, FinishDatagram
    PROVE  InboundInv'
<1> USE DEF InboundInv
<1>1. /\ handling' = FALSE /\ current' = NoDatagram /\ place' = 0
      /\ delivered' = delivered \o out /\ out' = <<>> /\ received' = received \cup {current}
      /\ UNCHANGED <<tracker, splits, order, naked, seen>>
      /\ ProcessDatagramSequence(current.sequence)
    BY DEF FinishDatagram
<1>2. ChannelsTyped' /\ SplitMap(splits)' /\ TrackerTyped'
    BY <1>1 DEF ChannelsTyped, SplitMap, TrackerTyped
<1>3. HistoryTyped'
    BY <1>1 DEF HistoryTyped, HandlerTyped
<1>4. HandlerTyped'
    <2>1. place' \in 0 .. Len(current'.packets) /\ current' \in SentDatagram
        BY <1>1, SentFacts
    <2>2. handling' \in BOOLEAN
        BY <1>1
    <2> QED BY <2>1, <2>2 DEF HandlerTyped
<1>5. QueuesTyped'
    <2>1. current.sequence \in SeqNum
        BY DEF HandlerTyped, SentDatagram
    <2> QED BY <1>1, <2>1, ProcessKeepsQueues
<1>6. out \in Seq(Stretched) /\ delivered \in Seq(Stretched)
    BY DEF HandedTyped
<1>7. HandedTyped'
    BY <1>1, <1>6, ConcatProperties, EmptySeq DEF HandedTyped
<1>8. HandedInOrder'
    <2>1. PICK u, ord : u = delivered \o out /\ ord = order
        OBVIOUS
    <2>2. u \in Seq(Stretched) /\ InOrder(u) /\ Behind(u, ord)
        BY <1>6, <2>1, ConcatProperties DEF HandedInOrder
    <2>3. delivered' \o out' = u /\ order' = ord
        BY <1>1, <2>1, <2>2, ConcatEmptySeq
    <2> QED BY <2>2, <2>3 DEF HandedInOrder, InOrder, OrderedPair, Behind
<1> QED BY <1>2, <1>3, <1>4, <1>5, <1>7, <1>8

\* The ACKs and NAKs of a tick.
LEMMA EmitAcksFacts ==
    ASSUME QueuesTyped, EmitAcks
    PROVE  /\ outgoing_acks' \in Seq(SequenceRange) /\ outgoing_naks' \in Seq(SequenceRange)
           /\ Contents(outgoing_acks') \subseteq Contents(outgoing_acks)
           /\ naked \subseteq SeqNum => naked' \subseteq SeqNum
<1>1. outgoing_acks \in Seq(SequenceRange) /\ outgoing_naks \in Seq(SequenceRange)
    BY DEF QueuesTyped
<1>2. AckCount \in 0 .. Len(outgoing_acks) /\ NakCount \in 0 .. Len(outgoing_naks)
    BY <1>1, LenProperties, PopCountType DEF AckCount, NakCount
<1>3. PICK q, r, m, n : q = outgoing_acks /\ r = outgoing_naks /\ m = AckCount /\ n = NakCount
    OBVIOUS
<1>4. /\ SubSeq(q, m + 1, Len(q)) \in Seq(SequenceRange)
      /\ Contents(SubSeq(q, m + 1, Len(q))) \subseteq Contents(q)
      /\ SubSeq(r, n + 1, Len(r)) \in Seq(SequenceRange)
    BY <1>1, <1>2, <1>3, PopExact
<1>5. /\ outgoing_acks' = SubSeq(q, m + 1, Len(q)) /\ outgoing_naks' = SubSeq(r, n + 1, Len(r))
      /\ naked' = naked \cup Contents(NakPayload)
    BY <1>3 DEF EmitAcks
<1>6. Contents(NakPayload) \subseteq SeqNum
    BY DEF Contents, Members
<1> QED BY <1>3, <1>4, <1>5, <1>6

\* A tick.
LEMMA InboundTickKeeps ==
    ASSUME InboundInv, InboundTick
    PROVE  InboundInv'
<1> USE DEF InboundInv
<1>1. EmitAcks /\ UNCHANGED <<datagram_read_index, tracker, splits, order, handlerVars, received, seen>>
    BY DEF InboundTick
<1>2. QueuesTyped' /\ HistoryTyped'
    BY <1>1, EmitAcksFacts DEF QueuesTyped, HistoryTyped
<1>3. ChannelsTyped' /\ SplitMap(splits)' /\ TrackerTyped'
    BY <1>1 DEF ChannelsTyped, SplitMap, TrackerTyped
<1>4. HandlerTyped'
    BY <1>1 DEF HandlerTyped, handlerVars
<1>5. HandedTyped' /\ HandedInOrder'
    BY <1>1 DEF HandedTyped, HandedInOrder, InOrder, OrderedPair, Behind, handlerVars
<1> QED BY <1>2, <1>3, <1>4, <1>5

\* A tick that prunes a split.
LEMMA PruneTickKeeps ==
    ASSUME InboundInv, NEW id, PruneTick(id)
    PROVE  InboundInv'
<1> USE DEF InboundInv
<1>1. /\ EmitAcks /\ UNCHANGED <<datagram_read_index, tracker, handlerVars, received, seen>>
      /\ splits' = Without(splits, id) /\ id \in DOMAIN splits
    BY DEF PruneTick
<1>2. QueuesTyped' /\ HistoryTyped'
    BY <1>1, EmitAcksFacts DEF QueuesTyped, HistoryTyped
<1>3. SplitMap(splits)' /\ TrackerTyped'
    BY <1>1 DEF SplitMap, Without, TrackerTyped
<1>4. HandlerTyped'
    BY <1>1 DEF HandlerTyped, handlerVars
<1>5. PICK h, c, x : h = splits[id].header /\ c = h.ordering_channel /\ x = h.ordering_index
    OBVIOUS
<1>6. h \in Stretched /\ x \in SeqNum /\ Offset(x) < Half - 1
    BY <1>1, <1>5 DEF SplitMap, Entries, Stretched, EncapsulatedPacket
<1>7. \/ order' = order
      \/ c \in Channels /\ order' = [order EXCEPT ![c] = SkipIndex(order[c], x)]
    BY <1>5 DEF PruneTick
<1>8. \A k \in Channels : /\ order[k] \in ChannelOf(k) /\ Offset(order[k].read) \in Nat
    BY ReadFacts
<1>9. ChannelsTyped' /\ \A k \in Channels : Offset(order[k].read) <= Offset(order'[k].read)
    <2>1. CASE order' = order
        BY <1>8, <2>1 DEF ChannelsTyped
    <2>2. CASE c \in Channels /\ order' = [order EXCEPT ![c] = SkipIndex(order[c], x)]
        <3>1. PICK s, t : s = order[c] /\ t = SkipIndex(s, x)
            OBVIOUS
        <3>2. t \in ChannelOf(c) /\ Offset(t.read) >= Offset(s.read)
            BY <1>6, <1>8, <2>2, <3>1, SkipIndexRun
        <3>3. /\ order' = [k \in Channels |-> order'[k]] /\ order'[c] = t
              /\ \A k \in Channels : k # c => order'[k] = order[k]
            BY <2>2, <3>1 DEF ChannelsTyped
        <3>4. Offset(t.read) \in Nat
            BY <3>2, OffsetFacts DEF ChannelOf, ChannelOver
        <3>5. ASSUME NEW k \in Channels
              PROVE  order'[k] \in ChannelOf(k) /\ Offset(order[k].read) <= Offset(order'[k].read)
            <4>1. CASE k = c
                BY <1>8, <3>1, <3>2, <3>3, <3>4, <4>1
            <4>2. CASE k # c
                BY <1>8, <3>3, <4>2
            <4> QED BY <4>1, <4>2
        <3> QED BY <3>3, <3>5 DEF ChannelsTyped
    <2> QED BY <1>7, <2>1, <2>2
<1>10. HandedTyped' /\ HandedInOrder'
    <2>1. PICK u, ord, nxt : u = delivered \o out /\ ord = order /\ nxt = order'
        OBVIOUS
    <2>2. u \in Seq(Stretched) /\ InOrder(u) /\ Behind(u, ord)
        BY <2>1, ConcatProperties DEF HandedInOrder, HandedTyped
    <2>3. \A k \in Channels : Offset(nxt[k].read) \in Nat
        BY <1>9, <2>1, OffsetFacts DEF ChannelsTyped, ChannelOf, ChannelOver
    <2>4. Behind(u, nxt)
        BY <1>8, <1>9, <2>1, <2>2, <2>3, BehindGrows
    <2>5. delivered' \o out' = u
        BY <1>1, <2>1 DEF handlerVars
    <2>6. HandedInOrder'
        BY <2>1, <2>2, <2>4, <2>5 DEF HandedInOrder, InOrder, OrderedPair, Behind
    <2> QED BY <1>1, <2>6 DEF HandedTyped, handlerVars
<1> QED BY <1>2, <1>3, <1>4, <1>9, <1>10

\* Every step keeps the invariant.
LEMMA InboundSteps == InboundInv /\ [InboundNext]_inboundVars => InboundInv'
<1> SUFFICES ASSUME InboundInv, [InboundNext]_inboundVars PROVE InboundInv'
    OBVIOUS
<1>1. ASSUME NEW d \in SentDatagram, HandleDatagram(d) PROVE InboundInv'
    BY <1>1, HandleDatagramKeeps
<1>2. CASE HandleEncapsulated
    BY <1>2, HandleEncapsulatedKeeps
<1>3. CASE FinishDatagram
    BY <1>3, FinishDatagramKeeps
<1>4. CASE InboundTick
    BY <1>4, InboundTickKeeps
<1>5. ASSUME NEW id \in DOMAIN splits, PruneTick(id) PROVE InboundInv'
    BY <1>5, PruneTickKeeps
<1>6. CASE UNCHANGED inboundVars
    <2>1. UNCHANGED sessionVars /\ UNCHANGED handlerVars /\ UNCHANGED historyVars
        BY <1>6 DEF inboundVars
    <2>2. ChannelsTyped' /\ SplitMap(splits)' /\ QueuesTyped' /\ TrackerTyped' /\ HistoryTyped'
        BY <2>1 DEF InboundInv, sessionVars, historyVars, ChannelsTyped, SplitMap, QueuesTyped,
                    TrackerTyped, HistoryTyped
    <2>3. HandlerTyped' /\ HandedTyped'
        BY <2>1 DEF InboundInv, handlerVars, HandlerTyped, HandedTyped
    <2>4. HandedInOrder'
        BY <2>1 DEF InboundInv, handlerVars, sessionVars, HandedInOrder, InOrder, OrderedPair, Behind
    <2> QED BY <2>2, <2>3, <2>4 DEF InboundInv
<1> QED BY <1>1, <1>2, <1>3, <1>4, <1>5, <1>6 DEF InboundNext

\* The invariant holds in every state.
LEMMA InboundInvHolds == InboundSpec => []InboundInv
BY InboundStarts, InboundSteps, PTL DEF InboundSpec

\* The types of the session's state, of the handler's locals and of what has
\* been handed over, for every modulus, capacity and number of channels.
THEOREM InboundTypeOKHolds == InboundSpec => []InboundTypeOK
<1>1. InboundInv => InboundTypeOK
    <2> SUFFICES ASSUME InboundInv PROVE InboundTypeOK
        OBVIOUS
    <2> USE DEF InboundInv
    <2>1. ASSUME NEW c PROVE ChannelOf(c) \subseteq ChannelState
        <3> SUFFICES ASSUME NEW s \in ChannelOf(c) PROVE s \in ChannelState
            OBVIOUS
        <3>1. /\ s = [read |-> s.read, heap |-> s.heap] /\ s.read \in SeqNum
              /\ s.heap \in Seq(Waiting(c))
            BY DEF ChannelOf, ChannelOver
        <3>2. s.heap \in Seq(Stretched)
            BY <3>1, WaitingStretched
        <3>3. s.heap \in Seq(EncapsulatedPacket)
            BY <3>2, SeqMonotone DEF Stretched
        <3> QED BY <3>1, <3>3 DEF ChannelState
    <2>2. order \in [Channels -> ChannelState]
        BY <2>1 DEF ChannelsTyped
    <2>3. out \in Seq(EncapsulatedPacket) /\ delivered \in Seq(EncapsulatedPacket)
        BY SeqMonotone DEF HandedTyped, Stretched
    <2>4. current \in Datagram /\ received \subseteq Datagram /\ place \in 0 .. Len(current.packets)
        BY SentFacts DEF HandlerTyped, HistoryTyped
    <2>5. /\ datagram_read_index \in SeqNum /\ tracker \in TrackerState
          /\ outgoing_acks \in Seq(SequenceRange) /\ outgoing_naks \in Seq(SequenceRange)
          /\ naked \subseteq SeqNum /\ seen \subseteq SeqNum
        BY DEF QueuesTyped, TrackerTyped, HistoryTyped
    <2>6. handling \in BOOLEAN
        BY DEF HandlerTyped
    <2> QED BY <2>2, <2>3, <2>4, <2>5, <2>6 DEF InboundTypeOK
<1> QED BY <1>1, InboundInvHolds, PTL

\* The application sees the ordered packets of a channel in strictly growing
\* ordering index, none of them twice, whatever the network reorders, repeats
\* or loses, whatever datagrams fail half way and whatever splits expire.
THEOREM OrderedDeliveryHolds == InboundSpec => []OrderedDelivery
<1>1. InboundInv => OrderedDelivery
    <2> SUFFICES ASSUME InboundInv, NEW a \in DOMAIN delivered, NEW b \in DOMAIN delivered,
                        OrderedPair(delivered, a, b)
                 PROVE  SeqLess(delivered[a].ordering_index, delivered[b].ordering_index)
        BY DEF OrderedDelivery
    <2>1. delivered \in Seq(Stretched) /\ out \in Seq(Stretched)
        BY DEF InboundInv, HandedTyped
    <2>2. InOrder(delivered)
        BY <2>1, FirstPart DEF InboundInv, HandedInOrder
    <2>3. delivered[a] \in Stretched /\ delivered[b] \in Stretched
        BY <2>1, ElementOfSeq, LenProperties
    <2>4. PICK x, y : x = delivered[a].ordering_index /\ y = delivered[b].ordering_index
        OBVIOUS
    <2>5. x \in SeqNum /\ y \in SeqNum /\ Offset(x) < Half - 1 /\ Offset(y) < Half - 1
        BY <2>3, <2>4 DEF Stretched, EncapsulatedPacket
    <2>6. Offset(x) < Offset(y)
        BY <2>2, <2>4 DEF InOrder
    <2>7. Offset(x) < Half /\ Offset(y) < Half
        BY <2>5, OffsetFacts, HalfFacts
    <2>8. SeqLess(x, y)
        BY <2>5, <2>6, <2>7, OffsetFacts, OrderByOffset DEF Offset
    <2> QED BY <2>4, <2>8
<1> QED BY <1>1, InboundInvHolds, PTL

-----------------------------------------------------------------------------
(* No ACK for a datagram that was not handled.                             *)

\* The numbers that wait to be acknowledged, the one at hand included, lie
\* within half a lap.  The code relies on it where it compares them: every tick
\* sends ACKs off, and 2^23 datagrams do not arrive while one waits.
AcksSpan ==
    handling => \E o \in SeqNum :
                    Contents(outgoing_acks) \cup {current.sequence} \subseteq SeqStretch(o, Half)

AcksSound == Contents(outgoing_acks) \subseteq ReceivedNumbers

\* The ACK of one datagram adds its number and nothing else.
LEMMA AckPushed ==
    ASSUME NEW q \in Seq(SequenceRange), NEW seq \in SeqNum, NEW o \in SeqNum,
           Contents(q) \cup {seq} \subseteq SeqStretch(o, Half)
    PROVE  Contents(Push(q, Singleton(seq), AckCapacity)) \subseteq Contents(q) \cup {seq}
<1>1. Singleton(seq) \in SequenceRange /\ Members(Singleton(seq)) = {seq}
    BY ModuloAssumption DEF Singleton, SequenceRange, Members, SeqDistance, SeqNum
<1>2. Half \in 1 .. Half
    BY HalfFacts
<1>3. Contents(q) \subseteq SeqStretch(o, Half) /\ Members(Singleton(seq)) \subseteq SeqStretch(o, Half)
    BY <1>1
<1>4. Contents(Push(q, Singleton(seq), AckCapacity)) \subseteq Contents(q) \cup Members(Singleton(seq))
    BY <1>1, <1>2, <1>3, PushSound
<1> QED BY <1>1, <1>4

\* The queue has numbers of handled datagrams only.
LEMMA AcksSoundSteps ==
    InboundInv /\ AcksSpan /\ AcksSound /\ [InboundNext]_inboundVars => AcksSound'
<1> SUFFICES ASSUME InboundInv, AcksSpan, AcksSound, [InboundNext]_inboundVars PROVE AcksSound'
    OBVIOUS
<1>1. ASSUME outgoing_acks' = outgoing_acks, received' = received PROVE AcksSound'
    BY <1>1 DEF AcksSound, ReceivedNumbers
<1>2. ASSUME EmitAcks, received' = received PROVE AcksSound'
    <2>1. Contents(outgoing_acks') \subseteq Contents(outgoing_acks)
        BY <1>2, EmitAcksFacts DEF InboundInv
    <2> QED BY <1>2, <2>1 DEF AcksSound, ReceivedNumbers
<1>3. ASSUME NEW d \in SentDatagram, HandleDatagram(d) PROVE AcksSound'
    BY <1>1, <1>3 DEF HandleDatagram, sessionVars, historyVars
<1>4. CASE HandleEncapsulated
    <2>1. PICK p : DropDuplicate(p) \/ RefusePart(p) \/ AcceptPacket(p)
        BY <1>4 DEF HandleEncapsulated
    <2>2. CASE DropDuplicate(p)
        BY <1>1, <2>2 DEF DropDuplicate, sessionVars
    <2>3. CASE RefusePart(p)
        BY <1>1, <2>3 DEF RefusePart, AbandonDatagram
    <2>4. CASE AcceptPacket(p)
        BY <1>1, <2>4 DEF AcceptPacket, AbandonDatagram
    <2> QED BY <2>1, <2>2, <2>3, <2>4
<1>5. CASE FinishDatagram
    <2>1. PICK seq, q : seq = current.sequence /\ q = outgoing_acks
        OBVIOUS
    <2>2. /\ handling /\ received' = received \cup {current}
          /\ outgoing_acks' = Push(q, Singleton(seq), AckCapacity)
        BY <1>5, <2>1 DEF FinishDatagram, ProcessDatagramSequence
    <2>3. q \in Seq(SequenceRange) /\ seq \in SeqNum
        BY <2>1 DEF InboundInv, QueuesTyped, HandlerTyped, SentDatagram
    <2>4. PICK o \in SeqNum : Contents(q) \cup {seq} \subseteq SeqStretch(o, Half)
        BY <2>1, <2>2 DEF AcksSpan
    <2>5. Contents(outgoing_acks') \subseteq Contents(q) \cup {seq}
        BY <2>2, <2>3, <2>4, AckPushed
    <2> QED BY <2>1, <2>2, <2>5 DEF AcksSound, ReceivedNumbers
<1>6. CASE InboundTick
    BY <1>2, <1>6 DEF InboundTick
<1>7. ASSUME NEW id \in DOMAIN splits, PruneTick(id) PROVE AcksSound'
    BY <1>2, <1>7 DEF PruneTick
<1>8. CASE UNCHANGED inboundVars
    BY <1>1, <1>8 DEF inboundVars, sessionVars, historyVars
<1> QED BY <1>3, <1>4, <1>5, <1>6, <1>7, <1>8 DEF InboundNext

\* What leaves a queue in a payload was in the queue: popping, sorting,
\* splitting at the wrap and decoding bring no number in.
LEMMA PayloadSound ==
    ASSUME NEW S, NEW q \in QueuesWithin(S), NEW n \in 0 .. Len(q)
    PROVE  InPayload(SubSeq(q, 1, n)) \in QueuesWithin(S)
<1>1. q \in Seq(SequenceRange) /\ Len(q) \in Nat /\ Contents(q) \subseteq S
    BY LenProperties DEF QueuesWithin
<1>2. PICK left : left = SubSeq(q, 1, n)
    OBVIOUS
<1>3. left \in Seq(SequenceRange)
    BY <1>1, <1>2, SubSeqProperties
<1>4. Contents(left) \subseteq S
    BY <1>1, <1>2, PopExact
<1>5. left \in QueuesWithin(S)
    BY <1>3, <1>4 DEF QueuesWithin
<1>6. WireRanges(Sorted(left)) \in QueuesWithin(S)
    BY <1>5, SortedSound, WireSound
<1> QED BY <1>2, <1>6 DEF InPayload

\* So neither the queue nor the payload of a tick names another datagram.
LEMMA AcksSoundSuffices == InboundInv /\ AcksSound => NoFalseAck
<1> SUFFICES ASSUME InboundInv, AcksSound PROVE NoFalseAck
    OBVIOUS
<1>1. PICK q, n, S : q = outgoing_acks /\ n = AckCount /\ S = ReceivedNumbers
    OBVIOUS
<1>2. q \in QueuesWithin(S)
    BY <1>1 DEF InboundInv, QueuesTyped, AcksSound, QueuesWithin
<1>3. n \in 0 .. Len(q)
    BY <1>1, <1>2, LenProperties, PopCountType DEF AckCount, QueuesWithin
<1>4. InPayload(SubSeq(q, 1, n)) \in QueuesWithin(S)
    BY <1>2, <1>3, PayloadSound
<1> QED BY <1>1, <1>2, <1>4 DEF NoFalseAck, AckPayload, QueuesWithin

\* As long as the numbers that wait span less than half a lap, an ACK is only
\* ever for a datagram that was handled to its end.
THEOREM NoFalseAckHolds == InboundSpec /\ []AcksSpan => []NoFalseAck
<1>1. InboundInit => AcksSound
    BY DEF InboundInit, AcksSound, Contents
<1>2. InboundSpec /\ []AcksSpan => []AcksSound
    BY <1>1, InboundInvHolds, AcksSoundSteps, PTL DEF InboundSpec
<1> QED BY <1>2, InboundInvHolds, AcksSoundSuffices, PTL

-----------------------------------------------------------------------------
(* Every gap is NAKed.                                                     *)

\* The NAK queue has room for the gap the datagram at hand shows, a piece that
\* wraps taking two places, and the numbers that wait in it lie, with that gap,
\* within half a lap.  Beyond the room the code drops pieces.
NaksFit ==
    handling /\ ~SeqGreater(datagram_read_index, current.sequence) =>
        LET n == SeqDistance(datagram_read_index, current.sequence)
        IN  /\ Len(outgoing_naks) + 2 * Len(NakRanges(n)) <= AckCapacity
            /\ \E o \in SeqNum : Contents(outgoing_naks) \cup SeqStretch(datagram_read_index, n)
                                    \subseteq SeqStretch(o, Half)

Covered == ReceivedNumbers \cup naked \cup Contents(outgoing_naks)

\* A tick takes no number out of sight: what leaves the queue is in the NAK, as
\* the peer decodes it.
LEMMA EmitAcksCovers ==
    ASSUME QueuesTyped, EmitAcks, received' = received
    PROVE  Covered \subseteq Covered'
<1>1. PICK q, n : q = outgoing_naks /\ n = NakCount
    OBVIOUS
<1>2. q \in Seq(SequenceRange) /\ Len(q) \in Nat
    BY <1>1, LenProperties DEF QueuesTyped
<1>3. n \in 0 .. Len(q)
    BY <1>1, <1>2, PopCountType DEF NakCount
<1>4. PICK left, rest : left = SubSeq(q, 1, n) /\ rest = SubSeq(q, n + 1, Len(q))
    OBVIOUS
<1>5. Contents(q) = Contents(left) \cup Contents(rest)
    BY <1>2, <1>3, <1>4, PopExact
<1>6. left \in Seq(SequenceRange)
    <2>1. \A i \in 1 .. n : q[i] \in SequenceRange
        BY <1>2, <1>3, ElementOfSeq
    <2>2. 1 \in Int /\ n \in Int
        BY <1>2, <1>3
    <2> QED BY <1>4, <2>1, <2>2, SubSeqProperties
<1>7. Contents(left) \subseteq Contents(WireRanges(Sorted(left)))
    BY <1>6, SortedComplete, WireComplete
<1>8. NakPayload = WireRanges(Sorted(left))
    BY <1>1, <1>4 DEF NakPayload, InPayload
<1>9. outgoing_naks' = rest /\ naked' = naked \cup Contents(NakPayload)
    BY <1>1, <1>4 DEF EmitAcks
<1>10. PICK C : C = Contents(NakPayload)
    OBVIOUS
<1>11. Contents(left) \subseteq C /\ naked' = naked \cup C
    BY <1>7, <1>8, <1>9, <1>10
<1>12. ReceivedNumbers' = ReceivedNumbers
    BY DEF ReceivedNumbers
<1> QED BY <1>1, <1>5, <1>9, <1>11, <1>12 DEF Covered

\* A number before the new read index is before the old one, in the gap, or the
\* datagram's own.
LEMMA StretchGrows ==
    ASSUME NEW a \in SeqNum, NEW read \in SeqNum, NEW seq \in SeqNum,
           NEW x \in SeqStretch(a, SeqDistance(a, SeqNext(seq)))
    PROVE  \/ x \in SeqStretch(a, SeqDistance(a, read))
           \/ x \in SeqStretch(read, SeqDistance(read, seq))
           \/ x = seq
BY ModuloAssumption DEF SeqStretch, SeqDistance, SeqNext, SeqNum

\* No step leaves a gap without a NAK.
LEMMA GapSteps ==
    InboundInv /\ NaksFit /\ EveryGapNaked /\ [InboundNext]_inboundVars => EveryGapNaked'
<1> SUFFICES ASSUME InboundInv, NaksFit, EveryGapNaked, [InboundNext]_inboundVars
             PROVE  EveryGapNaked'
    OBVIOUS
<1>1. SeqStretch(Start, SeqDistance(Start, datagram_read_index)) \subseteq Covered
    BY DEF EveryGapNaked, Covered
<1>2. ASSUME datagram_read_index' = datagram_read_index, Covered \subseteq Covered' PROVE EveryGapNaked'
    <2>1. PICK D : D = SeqStretch(Start, SeqDistance(Start, datagram_read_index))
        OBVIOUS
    <2>2. SeqStretch(Start, SeqDistance(Start, datagram_read_index')) = D
        BY <1>2, <2>1
    <2>3. D \subseteq Covered'
        BY <1>1, <1>2, <2>1
    <2> QED BY <2>2, <2>3 DEF EveryGapNaked, Covered
<1>3. ASSUME datagram_read_index' = datagram_read_index, outgoing_naks' = outgoing_naks,
             received' = received, naked' = naked
      PROVE  EveryGapNaked'
    <2>1. Covered' = Covered
        BY <1>3 DEF Covered, ReceivedNumbers
    <2> QED BY <1>2, <1>3, <2>1
<1>4. ASSUME EmitAcks, datagram_read_index' = datagram_read_index, received' = received
      PROVE  EveryGapNaked'
    BY <1>2, <1>4, EmitAcksCovers DEF InboundInv
<1>5. ASSUME NEW d \in SentDatagram, HandleDatagram(d) PROVE EveryGapNaked'
    BY <1>3, <1>5 DEF HandleDatagram, sessionVars, historyVars
<1>6. CASE HandleEncapsulated
    <2>1. PICK p : DropDuplicate(p) \/ RefusePart(p) \/ AcceptPacket(p)
        BY <1>6 DEF HandleEncapsulated
    <2>2. CASE DropDuplicate(p)
        BY <1>3, <2>2 DEF DropDuplicate, sessionVars
    <2>3. CASE RefusePart(p)
        BY <1>3, <2>3 DEF RefusePart, AbandonDatagram
    <2>4. CASE AcceptPacket(p)
        BY <1>3, <2>4 DEF AcceptPacket, AbandonDatagram
    <2> QED BY <2>1, <2>2, <2>3, <2>4
<1>7. CASE FinishDatagram
    <2>1. PICK seq, read, q : seq = current.sequence /\ read = datagram_read_index /\ q = outgoing_naks
        OBVIOUS
    <2>2. /\ handling /\ received' = received \cup {current} /\ naked' = naked
          /\ ProcessDatagramSequence(seq)
        BY <1>7, <2>1 DEF FinishDatagram
    <2>3. /\ q \in Seq(SequenceRange) /\ seq \in SeqNum /\ read \in SeqNum
          /\ datagram_read_index \in SeqNum
        BY <2>1 DEF InboundInv, QueuesTyped, HandlerTyped, SentDatagram
    <2>4. ReceivedNumbers \cup {seq} \subseteq ReceivedNumbers'
        BY <2>1, <2>2 DEF ReceivedNumbers
    <2>5. CASE SeqGreater(read, seq)
        <3>1. datagram_read_index' = datagram_read_index /\ outgoing_naks' = outgoing_naks
            BY <2>1, <2>2, <2>5 DEF ProcessDatagramSequence
        <3>2. Covered \subseteq Covered'
            BY <2>2, <2>4, <3>1 DEF Covered
        <3> QED BY <1>2, <3>1, <3>2
    <2>6. CASE ~SeqGreater(read, seq)
        <3>1. PICK n, ranges : n = SeqDistance(read, seq) /\ ranges = NakRanges(n)
            OBVIOUS
        <3>2. n \in 0 .. Modulo - 1 /\ ranges \in Seq(SequenceRange)
            BY <2>3, <3>1, DistanceType, NakRangesTyped
        <3>3. datagram_read_index' = SeqNext(seq) /\ outgoing_naks' = PushNaks(q, ranges)
            BY <2>1, <2>2, <2>6, <3>1 DEF ProcessDatagramSequence
        <3>4. /\ Len(q) + 2 * Len(ranges) <= AckCapacity
              /\ \E o \in SeqNum : Contents(q) \cup SeqStretch(read, n) \subseteq SeqStretch(o, Half)
            BY <2>1, <2>2, <2>6, <3>1 DEF NaksFit
        <3>5. PICK o \in SeqNum : Contents(q) \cup SeqStretch(read, n) \subseteq SeqStretch(o, Half)
            BY <3>4
        <3>6. /\ \A k \in 1 .. Len(ranges) : Members(ranges[k]) \subseteq SeqStretch(read, n)
              /\ \A x \in SeqStretch(read, n) : \E k \in 1 .. Len(ranges) : x \in Members(ranges[k])
            BY <2>1, <2>3, <3>1, <3>2, NakRangesExact
        <3>7. /\ Contents(q) \subseteq SeqStretch(o, Half)
              /\ \A k \in 1 .. Len(ranges) : Members(ranges[k]) \subseteq SeqStretch(o, Half)
            BY <3>5, <3>6
        <3>8. PICK pushed : pushed = PushNaks(q, ranges)
            OBVIOUS
        <3>9. /\ Contents(q) \subseteq Contents(pushed)
              /\ \A k \in 1 .. Len(ranges) : Members(ranges[k]) \subseteq Contents(pushed)
            BY <2>3, <3>2, <3>4, <3>7, <3>8, PushNaksCovers
        <3>10. SeqStretch(read, n) \subseteq Contents(pushed)
            BY <3>6, <3>9
        <3>11. Contents(outgoing_naks') = Contents(pushed)
            BY <3>3, <3>8
        <3>12. Covered \cup SeqStretch(read, n) \cup {seq} \subseteq Covered'
            BY <2>1, <2>2, <2>4, <3>9, <3>10, <3>11 DEF Covered
        <3>13. ASSUME NEW x \in SeqStretch(Start, SeqDistance(Start, SeqNext(seq))) PROVE x \in Covered'
            <4>1. Start \in SeqNum
                BY OffsetFacts
            <4>2. \/ x \in SeqStretch(Start, SeqDistance(Start, read))
                  \/ x \in SeqStretch(read, n)
                  \/ x = seq
                BY <2>3, <3>1, <4>1, StretchGrows
            <4> QED BY <1>1, <2>1, <3>12, <4>2
        <3> QED BY <3>3, <3>13 DEF EveryGapNaked, Covered
    <2> QED BY <2>5, <2>6
<1>8. CASE InboundTick
    BY <1>4, <1>8 DEF InboundTick
<1>9. ASSUME NEW id \in DOMAIN splits, PruneTick(id) PROVE EveryGapNaked'
    BY <1>4, <1>9 DEF PruneTick
<1>10. CASE UNCHANGED inboundVars
    BY <1>3, <1>10 DEF inboundVars, sessionVars, historyVars
<1> QED BY <1>5, <1>6, <1>7, <1>8, <1>9, <1>10 DEF InboundNext

\* As long as the NAK queue has room, every datagram number that is passed over
\* has arrived, has left in a NAK, or waits to.
THEOREM EveryGapNakedHolds == InboundSpec /\ []NaksFit => []EveryGapNaked
<1>1. InboundInit => EveryGapNaked
    <2> SUFFICES ASSUME InboundInit PROVE EveryGapNaked
        OBVIOUS
    <2>1. SeqDistance(Start, datagram_read_index) = 0 /\ Start \in SeqNum
        BY OffsetFacts, ModuloAssumption DEF InboundInit, SeqDistance, SeqNum
    <2>2. ASSUME NEW x \in SeqStretch(Start, 0) PROVE FALSE
        BY <2>1, DistanceType DEF SeqStretch
    <2> QED BY <2>1, <2>2 DEF EveryGapNaked
<1> QED BY <1>1, InboundInvHolds, GapSteps, PTL DEF InboundSpec
-----------------------------------------------------------------------------
(* Fragments.                                                              *)

\* What a packet carries.
Pieces(p) == {p.payload[k] : k \in DOMAIN p.payload}

\* The fragments of packets are those of each of them.
LEMMA InFragments ==
    ASSUME NEW s, NEW f
    PROVE  f \in Fragments(s) <=> \E i \in DOMAIN s : f \in Pieces(s[i])
BY DEF Fragments, Pieces

\* No packets, and one packet.
LEMMA FragmentsFew ==
    /\ Fragments(<<>>) = {}
    /\ \A p : Fragments(<<p>>) = Pieces(p)
<1>1. Fragments(<<>>) = {}
    BY DEF Fragments
<1>2. ASSUME NEW p PROVE Fragments(<<p>>) = Pieces(p)
    <2>1. PICK s : s = <<p>>
        OBVIOUS
    <2>2. DOMAIN s = {1} /\ s[1] = p
        BY <2>1
    <2>3. \A f : f \in Fragments(s) <=> f \in Pieces(p)
        BY <2>2, InFragments
    <2> QED BY <2>1, <2>3
<1> QED BY <1>1, <1>2

\* Packets after packets.
LEMMA FragmentsConcat ==
    ASSUME NEW P, NEW s \in Seq(P), NEW t \in Seq(P)
    PROVE  Fragments(s \o t) = Fragments(s) \cup Fragments(t)
<1>1. PICK u, m, n : u = s \o t /\ m = Len(s) /\ n = Len(t)
    OBVIOUS
<1>2. /\ m \in Nat /\ n \in Nat /\ DOMAIN s = 1 .. m /\ DOMAIN t = 1 .. n /\ DOMAIN u = 1 .. m + n
      /\ \A i \in 1 .. m : u[i] = s[i]
      /\ \A i \in 1 .. m + n : i > m => u[i] = t[i - m]
    BY <1>1, ConcatProperties, LenProperties
<1>3. ASSUME NEW i \in DOMAIN u
      PROVE  (\E j \in DOMAIN s : u[i] = s[j]) \/ (\E j \in DOMAIN t : u[i] = t[j])
    <2>1. CASE i \in 1 .. m
        BY <1>2, <2>1
    <2>2. CASE i \notin 1 .. m
        <3>1. i - m \in 1 .. n /\ u[i] = t[i - m]
            BY <1>2, <2>2
        <3> QED BY <1>2, <3>1
    <2> QED BY <2>1, <2>2
<1>4. ASSUME NEW j \in DOMAIN s PROVE \E i \in DOMAIN u : u[i] = s[j]
    BY <1>2
<1>5. ASSUME NEW j \in DOMAIN t PROVE \E i \in DOMAIN u : u[i] = t[j]
    <2>1. j + m \in 1 .. m + n /\ j + m > m /\ (j + m) - m = j
        BY <1>2
    <2>2. u[j + m] = t[j]
        BY <1>2, <2>1
    <2> QED BY <1>2, <2>1, <2>2
<1> HIDE <1>2
<1>6. \A f : f \in Fragments(u) <=> f \in Fragments(s) \/ f \in Fragments(t)
    BY <1>3, <1>4, <1>5, InFragments
<1> QED BY <1>1, <1>6

\* A sequence cut in two keeps its fragments.
LEMMA FragmentsCut ==
    ASSUME NEW P, NEW s \in Seq(P), NEW k \in 0 .. Len(s)
    PROVE  /\ SubSeq(s, 1, k) \in Seq(P) /\ SubSeq(s, k + 1, Len(s)) \in Seq(P)
           /\ Fragments(s) = Fragments(SubSeq(s, 1, k)) \cup Fragments(SubSeq(s, k + 1, Len(s)))
<1>1. PICK a, b, L : a = SubSeq(s, 1, k) /\ b = SubSeq(s, k + 1, L) /\ L = Len(s)
    OBVIOUS
<1>2. L \in Nat /\ k \in Nat /\ k <= L /\ \A i \in 1 .. L : s[i] \in P
    BY <1>1, LenProperties, ElementOfSeq
<1>3. a \in Seq(P) /\ Len(a) = k /\ \A i \in 1 .. k : a[i] = s[i]
    <2>1. \A i \in 1 .. k : s[i] \in P
        BY <1>2
    <2>2. 1 \in Int /\ k \in Int
        BY <1>2
    <2> QED BY <1>1, <1>2, <2>1, <2>2, SubSeqProperties
<1>4. b \in Seq(P) /\ Len(b) = L - k /\ \A i \in 1 .. L - k : b[i] = s[k + i]
    <2>1. \A i \in k + 1 .. L : s[i] \in P
        BY <1>2
    <2>2. k + 1 \in Int /\ L \in Int
        BY <1>2
    <2> QED BY <1>1, <1>2, <2>1, <2>2, SubSeqProperties
<1>5. DOMAIN s = 1 .. L /\ DOMAIN a = 1 .. k /\ DOMAIN b = 1 .. L - k
    BY <1>1, <1>3, <1>4, LenProperties
<1>6. ASSUME NEW i \in DOMAIN s
      PROVE  (\E j \in DOMAIN a : a[j] = s[i]) \/ (\E j \in DOMAIN b : b[j] = s[i])
    <2>1. CASE i \in 1 .. k
        BY <1>3, <1>5, <2>1
    <2>2. CASE i \notin 1 .. k
        <3>1. i - k \in 1 .. L - k /\ k + (i - k) = i
            BY <1>2, <1>5, <2>2
        <3>2. b[i - k] = s[i]
            BY <1>4, <3>1
        <3> QED BY <1>5, <3>1, <3>2
    <2> QED BY <2>1, <2>2
<1>7. ASSUME NEW j \in DOMAIN a PROVE \E i \in DOMAIN s : a[j] = s[i]
    BY <1>2, <1>3, <1>5
<1>8. ASSUME NEW j \in DOMAIN b PROVE \E i \in DOMAIN s : b[j] = s[i]
    <2>1. k + j \in 1 .. L
        BY <1>2, <1>5
    <2> QED BY <1>4, <1>5, <2>1
<1> HIDE <1>5
<1>9. \A f : f \in Fragments(s) <=> f \in Fragments(a) \/ f \in Fragments(b)
    BY <1>6, <1>7, <1>8, InFragments
<1> QED BY <1>1, <1>3, <1>4, <1>9

\* What an advance of the read index takes off the heap it releases.
LEMMA ReleaseConserves ==
    ASSUME NEW P, NEW s \in ChannelOver(P)
    PROVE  Fragments(s.heap) = Fragments(Released(s)) \cup Fragments(Release(s).heap)
<1>1. PICK h, n : h = s.heap /\ n = ReadyLen(SeqNext(s.read), s.heap)
    OBVIOUS
<1>2. h \in Seq(P) /\ s.read \in SeqNum
    BY <1>1 DEF ChannelOver
<1>3. n \in 0 .. Len(h)
    BY <1>1, <1>2, NextType, ReadyLenFacts
<1>4. Released(s) = SubSeq(h, 1, n) /\ Release(s).heap = SubSeq(h, n + 1, Len(h))
    BY <1>1 DEF Release, Released
<1> QED BY <1>1, <1>2, <1>3, <1>4, FragmentsCut

\* A push keeps the heap and adds the packet.
LEMMA InsertConserves ==
    ASSUME NEW P, NEW heap \in Seq(P), NEW p \in P
    PROVE  Fragments(HeapInsert(heap, p)) = Fragments(heap) \cup Pieces(p)
<1>1. PICK J, k, L : /\ J = {i \in 1 .. L : ~SeqGreater(heap[i].ordering_index, p.ordering_index)}
                     /\ k = Cardinality(J) /\ L = Len(heap)
    OBVIOUS
<1>2. L \in Nat
    BY <1>1, LenProperties
<1>3. k \in 0 .. L
    <2>0. J \in SUBSET (1 .. L)
        BY <1>1
    <2>1. IsFiniteSet(1 .. L) /\ Cardinality(1 .. L) = L
        BY <1>2, FS_Interval
    <2>2. IsFiniteSet(J) /\ Cardinality(J) <= L
        BY <2>0, <2>1, FS_Subset
    <2>3. Cardinality(J) \in Nat
        BY <2>2, FS_CardinalityType
    <2> QED BY <1>1, <1>2, <2>2, <2>3
<1>4. PICK a, b, w : a = SubSeq(heap, 1, k) /\ b = SubSeq(heap, k + 1, L) /\ w = <<p>>
    OBVIOUS
<1>5. a \in Seq(P) /\ b \in Seq(P) /\ Fragments(heap) = Fragments(a) \cup Fragments(b)
    BY <1>1, <1>3, <1>4, FragmentsCut
<1>6. HeapInsert(heap, p) = a \o w \o b
    BY <1>1, <1>4 DEF HeapInsert
<1>7. w \in Seq(P) /\ Fragments(w) = Pieces(p)
    BY <1>4, FragmentsFew
<1>8. PICK y : y = a \o w
    OBVIOUS
<1>9. y \in Seq(P) /\ Fragments(y) = Fragments(a) \cup Pieces(p)
    BY <1>5, <1>7, <1>8, ConcatProperties, FragmentsConcat
<1>10. Fragments(y \o b) = Fragments(y) \cup Fragments(b)
    BY <1>5, <1>9, FragmentsConcat
<1> QED BY <1>5, <1>6, <1>8, <1>9, <1>10

\* handle_ordered drops nothing that it holds, and the packet it is given only
\* when the channel is past it or the heap is full.
LEMMA HandleOrderedConserves ==
    ASSUME NEW P, NEW s \in ChannelOver(P), NEW p \in P
    PROVE  LET rest == Fragments(Ready(s, p)) \cup Fragments(HandleOrdered(s, p).heap)
           IN  /\ Fragments(s.heap) \subseteq rest
               /\ ~(SeqGreater(s.read, p.ordering_index) \/ Overflows(s, p)) => Pieces(p) \subseteq rest
<1>1. s.heap \in Seq(P) /\ s = [read |-> s.read, heap |-> s.heap] /\ s.read \in SeqNum
    BY DEF ChannelOver
<1>2. CASE s.read = p.ordering_index
    <2>1. PICK run, w : run = Released(s) /\ w = <<p>>
        OBVIOUS
    <2>2. run \in Seq(P) /\ w \in Seq(P) /\ Fragments(w) = Pieces(p)
        BY <2>1, ReleaseTyped, FragmentsFew
    <2>3. Fragments(w \o run) = Pieces(p) \cup Fragments(run)
        BY <2>2, FragmentsConcat
    <2>4. Ready(s, p) = w \o run /\ HandleOrdered(s, p) = Release(s)
        BY <1>2, <2>1 DEF Ready, HandleOrdered
    <2> QED BY <2>1, <2>3, <2>4, ReleaseConserves
<1>3. CASE s.read # p.ordering_index /\ (SeqGreater(s.read, p.ordering_index) \/ Overflows(s, p))
    BY <1>3 DEF HandleOrdered
<1>4. CASE s.read # p.ordering_index /\ ~(SeqGreater(s.read, p.ordering_index) \/ Overflows(s, p))
    <2>1. HandleOrdered(s, p) = [s EXCEPT !.heap = HeapInsert(s.heap, p)]
        BY <1>4 DEF HandleOrdered
    <2>2. HandleOrdered(s, p).heap = HeapInsert(s.heap, p)
        BY <1>1, <2>1
    <2> QED BY <1>1, <2>2, InsertConserves
<1> QED BY <1>2, <1>3, <1>4

-----------------------------------------------------------------------------
(* The parts of a message.                                                 *)

\* Every element a sequence of its own.
Singles(n, g) == [i \in 1 .. n |-> <<g[i]>>]

\* Sequences of one element each, joined, are the sequence of the elements.
LEMMA FlattenSingles ==
    ASSUME NEW S, NEW n \in Nat, NEW g \in [1 .. n -> S]
    PROVE  FlattenSeq(Singles(n, g)) = g
<1>q. PICK q : q = Singles(n, g)
    OBVIOUS
<1>0. q = [i \in 1 .. n |-> <<g[i]>>]
    BY <1>q DEF Singles
<1> SUFFICES FlattenSeq(q) = g
    BY <1>q
<1> USE <1>0
<1> DEFINE flatten == CHOOSE f : f = [i \in 1 .. n |-> IF i = 1 THEN q[i] ELSE f[i - 1] \o q[i]]
<1>1. Len(q) = n /\ q \in Seq(Seq(S))
    <2>1. q \in [1 .. n -> Seq(S)]
        OBVIOUS
    <2> QED BY <2>1, FunctionIsSeq
<1>2. CASE n = 0
    <2>1. FlattenSeq(q) = q
        BY <1>1, <1>2 DEF FlattenSeq
    <2>2. g = q
        BY <1>2
    <2> QED BY <2>1, <2>2
<1>3. CASE n # 0
    <2>1. FlattenSeq(q) = flatten[n]
        BY <1>1, <1>3 DEF FlattenSeq
    <2>2. PICK h : h = [i \in 1 .. n |-> [j \in 1 .. i |-> g[j]]]
        OBVIOUS
    <2>3. h = [i \in 1 .. n |-> IF i = 1 THEN q[i] ELSE h[i - 1] \o q[i]]
        <3>1. ASSUME NEW i \in 1 .. n, i = 1 PROVE h[i] = q[i]
            <4>1. h[i] = [j \in 1 .. 1 |-> g[j]] /\ q[i] = <<g[1]>>
                BY <2>2, <3>1
            <4>2. [j \in 1 .. 1 |-> g[j]] = <<g[1]>>
                OBVIOUS
            <4> QED BY <4>1, <4>2
        <3>2. ASSUME NEW i \in 1 .. n, i # 1 PROVE h[i] = h[i - 1] \o q[i]
            <4>1. i - 1 \in 1 .. n /\ i \in Nat /\ (i - 1) + 1 = i
                BY <3>2
            <4>2. PICK a, b, w : a = h[i - 1] /\ b = h[i] /\ w = q[i]
                OBVIOUS
            <4>3. /\ a = [j \in 1 .. i - 1 |-> g[j]] /\ b = [j \in 1 .. i |-> g[j]] /\ w = <<g[i]>>
                BY <2>2, <4>1, <4>2
            <4>4. /\ a \in Seq(S) /\ Len(a) = i - 1 /\ b \in Seq(S) /\ Len(b) = i
                  /\ w \in Seq(S) /\ Len(w) = 1 /\ w[1] = g[i]
                <5>1. a \in [1 .. i - 1 -> S] /\ b \in [1 .. i -> S] /\ i - 1 \in Nat
                    BY <4>1, <4>3
                <5>2. w \in Seq(S) /\ Len(w) = 1 /\ w[1] = g[i]
                    BY <4>3
                <5> QED BY <4>1, <5>1, <5>2, FunctionIsSeq
            <4>5. PICK y : y = a \o w
                OBVIOUS
            <4>6. /\ y \in Seq(S) /\ Len(y) = i
                  /\ \A j \in 1 .. i : y[j] = IF j <= i - 1 THEN a[j] ELSE w[j - (i - 1)]
                <5>1. Len(a) + Len(w) = i
                    BY <4>1, <4>4
                <5>2. /\ y \in Seq(S) /\ Len(y) = Len(a) + Len(w)
                      /\ \A j \in 1 .. Len(a) + Len(w) :
                            y[j] = IF j <= Len(a) THEN a[j] ELSE w[j - Len(a)]
                    BY <4>4, <4>5, ConcatProperties
                <5> QED BY <4>4, <5>1, <5>2
            <4>7. ASSUME NEW j \in 1 .. i PROVE y[j] = b[j]
                <5>1. CASE j <= i - 1
                    BY <4>3, <4>6, <5>1
                <5>2. CASE ~(j <= i - 1)
                    <6>1. j = i /\ j - (i - 1) = 1
                        BY <4>1, <5>2
                    <6> QED BY <4>3, <4>4, <4>6, <5>2, <6>1
                <5> QED BY <5>1, <5>2
            <4>8. y = b
                BY <4>4, <4>6, <4>7, SeqEqual
            <4> QED BY <4>2, <4>5, <4>8
        <3> QED BY <2>2, <3>1, <3>2
    <2>4. flatten = [i \in 1 .. n |-> IF i = 1 THEN q[i] ELSE flatten[i - 1] \o q[i]]
        BY <2>3
    <2> HIDE DEF flatten
    <2> DEFINE D == {i \in 1 .. n : flatten[i] = h[i]}
    <2>5. PICK f : f = [i \in 0 .. n |-> IF i = 0 THEN 1 ELSE i]
        OBVIOUS
    <2>6. f[0] \in D
        <3>1. 1 \in 1 .. n /\ 0 \in 0 .. n
            BY <1>3
        <3>2. flatten[1] = q[1] /\ h[1] = q[1]
            BY <2>3, <2>4, <3>1
        <3> QED BY <2>5, <3>1, <3>2
    <2>7. ASSUME NEW k \in 1 .. n, f[k - 1] \in D PROVE f[k] \in D
        <3>1. f[k] = k /\ k - 1 \in 0 .. n
            BY <2>5
        <3>2. CASE k = 1
            <4>1. 0 \in 0 .. n /\ k - 1 = 0
                BY <3>2
            <4>2. f[k - 1] = 1
                BY <2>5, <4>1
            <4> QED BY <2>7, <3>1, <3>2, <4>2
        <3>3. CASE k # 1
            <4>1. k - 1 \in 1 .. n /\ f[k - 1] = k - 1
                BY <2>5, <3>1, <3>3
            <4>2. flatten[k - 1] = h[k - 1]
                BY <2>7, <4>1
            <4>3. flatten[k] = flatten[k - 1] \o q[k] /\ h[k] = h[k - 1] \o q[k]
                BY <2>3, <2>4, <3>3
            <4> QED BY <3>1, <4>2, <4>3
        <3> QED BY <3>2, <3>3
    <2> HIDE DEF D
    <2>8. \A k \in 0 .. n : f[k] \in D
        BY <2>6, <2>7, StepInduction
    <2>9. f[n] = n /\ n \in 0 .. n /\ n \in 1 .. n
        BY <1>3, <2>5
    <2>10. flatten[n] = h[n]
        BY <2>8, <2>9 DEF D
    <2>11. h[n] = g
        BY <2>2, <2>9
    <2> QED BY <2>1, <2>10, <2>11
<1> QED BY <1>2, <1>3

SameHeader(p, q) ==
    /\ p.reliability = q.reliability
    /\ p.ordering_channel = q.ordering_channel
    /\ p.ordering_index = q.ordering_index

\* A whole message, and a packet of the peer that it accounts for.
Whole ==
    {w \in Stretched : /\ Intact(w.payload)
                       /\ \E q \in Packets : SameHeader(q, w) /\ Pieces(q) \subseteq Pieces(w)}

\* What is held for a split, and the packets of the peer it comes from.
Held(e) == UNION {{e.parts[i][k] : k \in DOMAIN e.parts[i]} : i \in DOMAIN e.parts}
PartsFrom(id) == {q \in Packets : IsSplit(q) /\ q.split.id = id}

\* The parts of an entry are those of the packets with its id, and so is its
\* header; there is at least one.
Filled(id, e) ==
    /\ \A i \in DOMAIN e.parts : \E q \in PartsFrom(id) : q.split.index = i /\ q.payload = e.parts[i]
    /\ \A q \in PartsFrom(id) : q.split.count = e.count /\ SameHeader(q, e.header)
Honest(id, e) == Filled(id, e) /\ DOMAIN e.parts # {}
HonestSplits(m) == \A id \in DOMAIN m : Honest(id, m[id])

\* The fragments of an entry are those of each of its parts.
LEMMA InHeld ==
    ASSUME NEW e, NEW f
    PROVE  f \in Held(e) <=> \E i \in DOMAIN e.parts : \E k \in DOMAIN e.parts[i] : f = e.parts[i][k]
BY DEF Held

\* A packet of the peer carries one part of one message.
LEMMA PeerPayload ==
    ASSUME NEW p \in Packets
    PROVE  \E a : /\ a = p.payload[1][1]
                  /\ p.payload = <<<<a, p.split.index, PartCount(p)>>>>
                  /\ Pieces(p) = {<<a, p.split.index, PartCount(p)>>}
<1>1. PICK a, f : a = p.payload[1][1] /\ f = <<a, p.split.index, PartCount(p)>>
    OBVIOUS
<1>2. p.payload = <<f>>
    BY <1>1, PeerAssumption
<1>3. Pieces(p) = {f}
    BY <1>2 DEF Pieces
<1> QED BY <1>1, <1>2, <1>3

\* The parts of one message agree.
LEMMA PeerParts ==
    ASSUME NEW id, NEW p \in PartsFrom(id), NEW q \in PartsFrom(id)
    PROVE  /\ p.split.count = q.split.count /\ SameHeader(p, q)
           /\ p.split.index < p.split.count
           /\ q.payload = <<<<p.payload[1][1], q.split.index, p.split.count>>>>
           /\ p.split.index = q.split.index => p.payload = q.payload
<1>1. /\ p \in Packets /\ q \in Packets /\ IsSplit(p) /\ IsSplit(q) /\ p.split.id = q.split.id
      /\ PartCount(p) = p.split.count /\ PartCount(q) = q.split.count
    BY DEF PartsFrom, PartCount
<1>2. /\ p.split.count = q.split.count /\ SameHeader(p, q) /\ p.payload[1][1] = q.payload[1][1]
      /\ p.split.index < p.split.count
    BY <1>1, PeerAssumption DEF SameHeader
<1>3. PICK a : a = p.payload[1][1] /\ p.payload = <<<<a, p.split.index, PartCount(p)>>>>
    BY <1>1, PeerPayload
<1>4. PICK b : b = q.payload[1][1] /\ q.payload = <<<<b, q.split.index, PartCount(q)>>>>
    BY <1>1, PeerPayload
<1>5. a = b
    BY <1>2, <1>3, <1>4
<1> QED BY <1>1, <1>2, <1>3, <1>4, <1>5

\* A part of the peer fits its entry: add never finds a mismatch, keeps what it
\* holds, and holds the part afterwards.
LEMMA WithPartHonest ==
    ASSUME NEW m, SplitMap(m), HonestSplits(m), NEW p \in Packets, IsSplit(p)
    PROVE  /\ ~SplitMismatch(m, p)
           /\ Honest(p.split.id, WithPart(m, p))
           /\ Pieces(p) \subseteq Held(WithPart(m, p))
           /\ p.split.id \in DOMAIN m => Held(m[p.split.id]) \subseteq Held(WithPart(m, p))
<1>1. PICK id, i, e, w : id = p.split.id /\ i = p.split.index /\ e = EntryFor(m, p) /\ w = WithPart(m, p)
    OBVIOUS
<1>2. p \in Stretched /\ p \in PartsFrom(id)
    BY <1>1, SentFacts DEF PartsFrom
<1>3. e \in Entries /\ i \in Nat /\ p.split.count \in Nat
    BY <1>1, <1>2, EntryForTyped DEF Stretched, EncapsulatedPacket, SplitInfo
<1>4. Filled(id, e) /\ (id \in DOMAIN m => e = m[id])
    <2>1. CASE id \in DOMAIN m
        BY <1>1, <2>1 DEF EntryFor, HonestSplits, Honest
    <2>2. CASE id \notin DOMAIN m
        <3>1. PICK h : h = [p EXCEPT !.split = NotSplit, !.payload = <<>>]
            OBVIOUS
        <3>2. e = [header |-> h, count |-> p.split.count, parts |-> <<>>]
            BY <1>1, <2>2, <3>1 DEF EntryFor, NewEntry
        <3>3. SameHeader(p, h)
            BY <1>2, <3>1 DEF SameHeader, Stretched, EncapsulatedPacket
        <3>4. ASSUME NEW q \in PartsFrom(id) PROVE q.split.count = e.count /\ SameHeader(q, e.header)
            <4>1. q.split.count = p.split.count /\ SameHeader(q, p)
                BY <1>2, PeerParts
            <4> QED BY <3>2, <3>3, <4>1 DEF SameHeader
        <3>5. DOMAIN e.parts = {}
            BY <3>2
        <3> QED BY <2>2, <3>4, <3>5 DEF Filled
    <2> QED BY <2>1, <2>2
<1>5. p.split.count = e.count /\ i < p.split.count
    BY <1>1, <1>2, <1>4, PeerParts DEF Filled
<1>6. ~SplitMismatch(m, p)
    BY <1>1, <1>3, <1>5 DEF SplitMismatch
<1>7. PICK g : g = With(e.parts, i, p.payload)
    OBVIOUS
<1>8. /\ DOMAIN g = DOMAIN e.parts \cup {i} /\ g[i] = p.payload
      /\ \A k \in DOMAIN e.parts : k # i => g[k] = e.parts[k]
    BY <1>7 DEF With
<1>9. /\ DOMAIN w.parts = DOMAIN e.parts \cup {i} /\ w.parts[i] = p.payload
      /\ \A k \in DOMAIN e.parts : w.parts[k] = e.parts[k]
      /\ w.count = e.count /\ w.header = e.header
    <2>1. CASE i \in DOMAIN e.parts
        <3>1. w = e
            BY <1>1, <2>1 DEF WithPart
        <3>2. PICK q \in PartsFrom(id) : q.split.index = i /\ q.payload = e.parts[i]
            BY <1>4, <2>1 DEF Filled
        <3>3. q.payload = p.payload
            BY <1>1, <1>2, <3>2, PeerParts
        <3> QED BY <2>1, <3>1, <3>2, <3>3
    <2>2. CASE i \notin DOMAIN e.parts
        <3>1. w = [e EXCEPT !.parts = g]
            BY <1>1, <1>7, <2>2 DEF WithPart
        <3>2. w.parts = g /\ w.count = e.count /\ w.header = e.header
            BY <1>3, <3>1 DEF Entries
        <3> QED BY <1>8, <2>2, <3>2
    <2> QED BY <2>1, <2>2
<1>10. Honest(id, w)
    <2>1. ASSUME NEW k \in DOMAIN w.parts
          PROVE  \E q \in PartsFrom(id) : q.split.index = k /\ q.payload = w.parts[k]
        <3>1. CASE k = i
            BY <1>1, <1>2, <1>9, <3>1
        <3>2. CASE k # i
            BY <1>4, <1>9, <3>2 DEF Filled
        <3> QED BY <3>1, <3>2
    <2>2. \A q \in PartsFrom(id) : q.split.count = w.count /\ SameHeader(q, w.header)
        BY <1>4, <1>9 DEF Filled
    <2> QED BY <1>9, <2>1, <2>2 DEF Honest, Filled
<1>11. Pieces(p) \subseteq Held(w)
    <2> SUFFICES ASSUME NEW f \in Pieces(p) PROVE f \in Held(w)
        OBVIOUS
    <2>1. PICK k \in DOMAIN p.payload : f = p.payload[k]
        BY DEF Pieces
    <2> QED BY <1>9, <2>1, InHeld
<1>12. Held(e) \subseteq Held(w)
    <2> SUFFICES ASSUME NEW f \in Held(e) PROVE f \in Held(w)
        OBVIOUS
    <2> QED BY <1>9, InHeld
<1> QED BY <1>1, <1>4, <1>6, <1>10, <1>11, <1>12

\* A message that is not split is whole.
LEMMA UnsplitWhole ==
    ASSUME NEW p \in Packets, ~IsSplit(p)
    PROVE  p \in Whole
<1>1. PICK a : /\ a = p.payload[1][1]
               /\ p.payload = <<<<a, p.split.index, PartCount(p)>>>>
    BY PeerPayload
<1>2. p \in Stretched /\ PartCount(p) = 1 /\ p.split.index \in Nat
    BY SentFacts DEF PartCount, Stretched, EncapsulatedPacket, SplitInfo
<1>3. p.split.index < 1
    BY <1>2, PeerAssumption
<1>4. p.split.index = 0
    BY <1>2, <1>3
<1>5. p.payload = <<<<a, 0, 1>>>>
    BY <1>1, <1>2, <1>4
<1>6. [k \in 1 .. 1 |-> <<a, k - 1, 1>>] = <<<<a, 0, 1>>>>
    OBVIOUS
<1>7. Intact(p.payload)
    BY <1>5, <1>6 DEF Intact
<1> QED BY <1>2, <1>7 DEF Whole, SameHeader

\* What add returns is whole, and carries the part and all that was held for it.
LEMMA AssembledWhole ==
    ASSUME NEW m, SplitMap(m), HonestSplits(m), NEW p \in Packets, Returns(m, p)
    PROVE  /\ Assembled(m, p) \in Whole
           /\ Pieces(p) \subseteq Pieces(Assembled(m, p))
           /\ IsSplit(p) /\ p.split.id \in DOMAIN m => Held(m[p.split.id]) \subseteq Pieces(Assembled(m, p))
<1>1. CASE ~IsSplit(p)
    BY <1>1, UnsplitWhole DEF Assembled
<1>2. CASE IsSplit(p)
    <2>1. PICK e, n, id, a : e = WithPart(m, p) /\ n = p.split.count /\ id = p.split.id /\ a = p.payload[1][1]
        OBVIOUS
    <2>2. /\ ~SplitMismatch(m, p) /\ Honest(id, e) /\ Pieces(p) \subseteq Held(e)
          /\ id \in DOMAIN m => Held(m[id]) \subseteq Held(e)
        BY <1>2, <2>1, WithPartHonest
    <2>3. p \in Stretched /\ p \in PartsFrom(id) /\ n \in Nat /\ n # 0
        BY <1>2, <2>1, SentFacts DEF PartsFrom, Stretched, EncapsulatedPacket, SplitInfo, IsSplit
    <2>4. e \in Entries /\ e.count = n
        BY <2>1, <2>2, <2>3, WithPartTyped
    <2>5. e.parts \in PartMaps /\ DOMAIN e.parts \subseteq 0 .. n - 1 /\ e.header \in Stretched
        BY <2>4 DEF Entries
    <2>6. Cardinality(DOMAIN e.parts) = n
        BY <1>2, <2>1 DEF Returns, Completes
    <2>7. DOMAIN e.parts = 0 .. n - 1
        <3>1. IsFiniteSet(0 .. n - 1) /\ Cardinality(0 .. n - 1) = n
            <4>1. 0 \in Int /\ n - 1 \in Int /\ (IF 0 > n - 1 THEN 0 ELSE (n - 1) - 0 + 1) = n
                BY <2>3
            <4> QED BY <4>1, FS_Interval
        <3>2. DOMAIN e.parts \in SUBSET (0 .. n - 1)
            BY <2>5
        <3> QED BY <2>6, <3>1, <3>2, FS_Subset
    <2>8. ASSUME NEW i \in 0 .. n - 1 PROVE e.parts[i] = <<<<a, i, n>>>>
        <3>1. PICK q \in PartsFrom(id) : q.split.index = i /\ q.payload = e.parts[i]
            BY <2>2, <2>7 DEF Honest, Filled
        <3>2. q.payload = <<<<a, i, n>>>>
            BY <2>1, <2>3, <3>1, PeerParts
        <3> QED BY <3>1, <3>2
    <2>9. PICK g, S, y : /\ g = [k \in 1 .. n |-> <<a, k - 1, n>>] /\ S = {g[k] : k \in 1 .. n}
                         /\ y = [k \in 1 .. n |-> e.parts[k - 1]]
        OBVIOUS
    <2>10. g \in [1 .. n -> S]
        BY <2>9
    <2>11. y = Singles(n, g)
        <3>1. ASSUME NEW k \in 1 .. n PROVE y[k] = <<g[k]>>
            <4>1. k - 1 \in 0 .. n - 1
                BY <2>3
            <4> QED BY <2>8, <2>9, <4>1
        <3> QED BY <2>9, <3>1 DEF Singles
    <2>12. FlattenSeq(y) = g
        BY <2>3, <2>10, <2>11, FlattenSingles
    <2>13. PICK h, w : h = e.header /\ w = Assembled(m, p)
        OBVIOUS
    <2>14. w = [h EXCEPT !.payload = g]
        BY <1>2, <2>1, <2>4, <2>9, <2>12, <2>13 DEF Assembled
    <2>15. w.payload = g /\ SameHeader(h, w)
        BY <2>5, <2>13, <2>14 DEF SameHeader, Stretched, EncapsulatedPacket
    <2>16. w \in Stretched
        <3>1. p.payload \in Seq(Fragment) /\ p.payload = <<<<a, p.split.index, n>>>>
            BY <2>1, <2>3, PeerParts DEF Stretched, EncapsulatedPacket
        <3>2. <<a, p.split.index, n>> \in Fragment
            BY <3>1
        <3>3. a \in Nat
            BY <3>2 DEF Fragment
        <3>4. \A k \in 1 .. n : <<a, k - 1, n>> \in Fragment
            BY <2>3, <3>3 DEF Fragment
        <3>5. g \in [1 .. n -> Fragment]
            BY <2>9, <3>4
        <3>6. g \in Seq(Fragment)
            BY <2>3, <3>5, FunctionIsSeq
        <3>7. [h EXCEPT !.payload = g] \in EncapsulatedPacket
            BY <2>5, <2>13, <3>6 DEF Stretched, EncapsulatedPacket
        <3>8. Offset(w.ordering_index) < Half - 1
            BY <2>5, <2>13, <2>15 DEF Stretched, SameHeader
        <3> QED BY <2>14, <3>7, <3>8 DEF Stretched
    <2>17. Held(e) \subseteq Pieces(w)
        <3> SUFFICES ASSUME NEW f \in Held(e) PROVE f \in Pieces(w)
            OBVIOUS
        <3>1. PICK i \in DOMAIN e.parts : \E k \in DOMAIN e.parts[i] : f = e.parts[i][k]
            BY InHeld
        <3>2. PICK k \in DOMAIN e.parts[i] : f = e.parts[i][k]
            BY <3>1
        <3>3. i \in 0 .. n - 1 /\ i + 1 \in 1 .. n /\ (i + 1) - 1 = i
            BY <2>3, <2>7
        <3>4. e.parts[i] = <<<<a, i, n>>>>
            BY <2>8, <3>3
        <3>5. f = <<a, i, n>>
            BY <3>2, <3>4
        <3>6. g[i + 1] = f
            BY <2>9, <3>3, <3>5
        <3>7. i + 1 \in DOMAIN g
            BY <2>9, <3>3
        <3> QED BY <2>15, <3>6, <3>7 DEF Pieces
    <2>18. Intact(g)
        <3>1. 1 \in 1 .. n
            BY <2>3
        <3>2. PICK f : f = <<a, 0, n>>
            OBVIOUS
        <3>3. g[1] = f
            BY <2>9, <3>1, <3>2
        <3>4. f[1] = a /\ f[3] = n
            BY <3>2
        <3> QED BY <2>9, <3>3, <3>4 DEF Intact
    <2>19. SameHeader(p, w)
        BY <2>2, <2>3, <2>13, <2>15 DEF Honest, Filled, SameHeader
    <2>20. Pieces(p) \subseteq Pieces(w)
        BY <2>2, <2>17
    <2> QED BY <2>1, <2>2, <2>13, <2>15, <2>16, <2>17, <2>18, <2>19, <2>20 DEF Whole
<1> QED BY <1>1, <1>2

\* What the assembler holds is what its entries hold.
LEMMA InHeldFragments ==
    ASSUME NEW m, NEW f
    PROVE  f \in HeldFragments(m) <=> \E id \in DOMAIN m : f \in Held(m[id])
BY DEF HeldFragments, Held

\* Of an honest peer add loses nothing: a part stays, and with the last one all
\* parts are returned; a part it refuses changes nothing.
LEMMA AddPartConserves ==
    ASSUME NEW m, SplitMap(m), HonestSplits(m), NEW p \in Packets
    PROVE  /\ HonestSplits(AddPart(m, p))
           /\ AddFails(m, p) => AddPart(m, p) = m
           /\ ~AddFails(m, p) /\ Returns(m, p) =>
                HeldFragments(m) \subseteq HeldFragments(AddPart(m, p)) \cup Pieces(Assembled(m, p))
           /\ ~AddFails(m, p) /\ ~Returns(m, p) =>
                HeldFragments(m) \cup Pieces(p) \subseteq HeldFragments(AddPart(m, p))
<1>1. CASE ~IsSplit(p)
    BY <1>1 DEF AddPart, AddFails, Returns
<1>2. CASE IsSplit(p) /\ (SplitTooLarge(p) \/ SplitBufferFull(m, p))
    BY <1>2 DEF AddPart, AddFails
<1>3. CASE IsSplit(p) /\ ~(SplitTooLarge(p) \/ SplitBufferFull(m, p))
    <2>1. PICK e, id, n : e = WithPart(m, p) /\ id = p.split.id /\ n = AddPart(m, p)
        OBVIOUS
    <2>2. /\ ~SplitMismatch(m, p) /\ Honest(id, e) /\ Pieces(p) \subseteq Held(e)
          /\ id \in DOMAIN m => Held(m[id]) \subseteq Held(e)
        BY <1>3, <2>1, WithPartHonest
    <2>3. ~AddFails(m, p)
        BY <1>3, <2>2 DEF AddFails
    <2>4. CASE Completes(m, p)
        <3>1. n = Without(m, id) /\ Returns(m, p)
            BY <1>3, <2>1, <2>2, <2>4 DEF AddPart, Returns
        <3>2. DOMAIN n = DOMAIN m \ {id} /\ \A k \in DOMAIN n : n[k] = m[k]
            BY <3>1 DEF Without
        <3>3. HonestSplits(n)
            BY <3>2 DEF HonestSplits
        <3>4. PICK w : w = Assembled(m, p)
            OBVIOUS
        <3>5. id \in DOMAIN m => Held(m[id]) \subseteq Pieces(w)
            BY <1>3, <2>1, <3>1, <3>4, AssembledWhole
        <3>6. ASSUME NEW f \in HeldFragments(m) PROVE f \in HeldFragments(n) \/ f \in Pieces(w)
            <4>1. PICK k \in DOMAIN m : f \in Held(m[k])
                BY InHeldFragments
            <4>2. CASE k = id
                BY <3>5, <4>1, <4>2
            <4>3. CASE k # id
                BY <3>2, <4>1, <4>3, InHeldFragments
            <4> QED BY <4>2, <4>3
        <3> QED BY <2>1, <2>3, <3>1, <3>3, <3>4, <3>6
    <2>5. CASE ~Completes(m, p)
        <3>1. n = With(m, id, e) /\ ~Returns(m, p)
            BY <1>3, <2>1, <2>2, <2>5 DEF AddPart, Returns
        <3>2. /\ DOMAIN n = DOMAIN m \cup {id} /\ n[id] = e
              /\ \A k \in DOMAIN m : k # id => n[k] = m[k]
            BY <3>1 DEF With
        <3>3. HonestSplits(n)
            BY <2>2, <3>2 DEF HonestSplits
        <3>4. ASSUME NEW f \in HeldFragments(m) PROVE f \in HeldFragments(n)
            <4>1. PICK k \in DOMAIN m : f \in Held(m[k])
                BY InHeldFragments
            <4>2. CASE k = id
                <5>1. f \in Held(n[id])
                    BY <2>2, <3>2, <4>1, <4>2
                <5> QED BY <3>2, <5>1, InHeldFragments
            <4>3. CASE k # id
                <5>1. f \in Held(n[k]) /\ k \in DOMAIN n
                    BY <3>2, <4>1, <4>3
                <5> QED BY <5>1, InHeldFragments
            <4> QED BY <4>2, <4>3
        <3>5. ASSUME NEW f \in Pieces(p) PROVE f \in HeldFragments(n)
            <4>1. f \in Held(n[id]) /\ id \in DOMAIN n
                BY <2>2, <3>2
            <4> QED BY <4>1, InHeldFragments
        <3> QED BY <2>1, <2>3, <3>1, <3>3, <3>4, <3>5
    <2> QED BY <2>4, <2>5
<1> QED BY <1>1, <1>2, <1>3

-----------------------------------------------------------------------------
(* What becomes of a packet.                                               *)

\* What waits on the channels, all that the session has an account of, and
\* what will never be handed over any more.
Waits(ord) == UNION {Fragments(ord[c].heap) : c \in Channels}
Known == HandedOver \cup Kept \cup lost
Gone == HandedOver \cup lost

\* From order ord to order next, each read index moves past packets of s only.
Passes(ord, next, s) ==
    \A c \in Channels : \A x \in SeqNum :
        Offset(ord[c].read) <= Offset(x) /\ Offset(x) < Offset(next[c].read) =>
            \E i \in DOMAIN s : /\ IsOrdered(s[i].reliability)
                                /\ s[i].ordering_channel = c /\ s[i].ordering_index = x

\* Only whole messages are on their way to the application.
WholeInv ==
    /\ ~handling => out = <<>>
    /\ out \in Seq(Whole) /\ delivered \in Seq(Whole)
    /\ \A c \in Channels : order[c] \in ChannelOver(Whole)
    /\ HonestSplits(splits)

\* Every packet that was accepted, of the datagram at hand, of an index that is
\* committed, or of a datagram handled to its end, is accounted for.
FateInv ==
    /\ \A k \in 1 .. place : Pieces(current.packets[k]) \subseteq Known
    /\ \A p \in Packets : Tracked(p) /\ p.reliable_index \in seen => Pieces(p) \subseteq Known
    /\ NothingVanishes

\* What waits, waits on some channel.
LEMMA InWaits ==
    ASSUME NEW ord, NEW f
    PROVE  f \in Waits(ord) <=> \E c \in Channels : f \in Fragments(ord[c].heap)
BY DEF Waits

\* A whole message goes to its channel: what waited and the message itself are
\* handed on, wait, or are discarded, and the read index passes nothing but
\* what is handed on.
LEMMA DispatchConserves ==
    ASSUME InboundInv, WholeInv, NEW whole \in Whole,
           order' = IF OnChannel(whole)
                    THEN [order EXCEPT ![whole.ordering_channel] = HandleOrdered(@, whole)]
                    ELSE order
    PROVE  /\ \A c \in Channels : order'[c] \in ChannelOver(Whole)
           /\ Dispatched(whole) \in Seq(Whole)
           /\ Waits(order) \subseteq Fragments(Dispatched(whole)) \cup Waits(order')
           /\ Pieces(whole) \subseteq Fragments(Dispatched(whole)) \cup Waits(order')
                                        \cup HandedOver \cup Discarded(whole)
           /\ Dispatched(whole) # <<>> => Discarded(whole) = {}
           /\ Passes(order, order', Dispatched(whole))
<1>1. PICK ord, nxt, ready, gone, over : /\ ord = order /\ nxt = order' /\ ready = Dispatched(whole)
                                         /\ gone = Discarded(whole) /\ over = HandedOver
    OBVIOUS
<1>2. \A c \in Channels : /\ ord[c] \in ChannelOver(Whole) /\ ord[c] \in ChannelOf(c)
                          /\ Offset(ord[c].read) \in Nat
    BY <1>1, ReadFacts DEF WholeInv, InboundInv
<1>3. whole \in Stretched /\ whole.ordering_index \in SeqNum
    BY DEF Whole, Stretched, EncapsulatedPacket
<1>4. Fragments(<<whole>>) = Pieces(whole) /\ Fragments(<<>>) = {}
    BY FragmentsFew
<1>5. CASE ~IsOrdered(whole.reliability)
    <2>1. ready = <<whole>> /\ gone = {} /\ nxt = ord
        BY <1>1, <1>5 DEF Dispatched, Discarded, OnChannel
    <2>2. ready \in Seq(Whole)
        BY <2>1
    <2>3. Passes(ord, nxt, ready)
        <3>1. ASSUME NEW c \in Channels, NEW x \in SeqNum,
                     Offset(ord[c].read) <= Offset(x), Offset(x) < Offset(nxt[c].read)
              PROVE  FALSE
            <4>1. Offset(x) \in Nat /\ Offset(ord[c].read) \in Nat
                BY <1>2, OffsetFacts
            <4> QED BY <2>1, <3>1, <4>1
        <3> QED BY <3>1 DEF Passes
    <2> QED BY <1>1, <1>2, <1>4, <2>1, <2>2, <2>3
<1>6. CASE IsOrdered(whole.reliability) /\ ~OnChannel(whole)
    <2>1. ready = <<>> /\ gone = Pieces(whole) \ over /\ nxt = ord
        BY <1>1, <1>4, <1>6 DEF Dispatched, Discarded
    <2>2. ready \in Seq(Whole)
        BY <2>1, EmptySeq
    <2>3. Passes(ord, nxt, ready)
        <3>1. ASSUME NEW c \in Channels, NEW x \in SeqNum,
                     Offset(ord[c].read) <= Offset(x), Offset(x) < Offset(nxt[c].read)
              PROVE  FALSE
            <4>1. Offset(x) \in Nat /\ Offset(ord[c].read) \in Nat
                BY <1>2, OffsetFacts
            <4> QED BY <2>1, <3>1, <4>1
        <3> QED BY <3>1 DEF Passes
    <2> QED BY <1>1, <1>2, <2>1, <2>2, <2>3
<1>7. CASE OnChannel(whole)
    <2>1. PICK c, s, t, x : /\ c = whole.ordering_channel /\ s = order[c]
                            /\ t = HandleOrdered(s, whole) /\ x = whole.ordering_index
        OBVIOUS
    <2>2. c \in Channels /\ IsOrdered(whole.reliability) /\ whole \in Waiting(c)
        BY <1>3, <1>7, <2>1 DEF OnChannel, Waiting
    <2>3. /\ ready = Ready(s, whole)
          /\ gone = IF Overflows(s, whole) \/ SeqGreater(s.read, x) THEN Pieces(whole) \ over ELSE {}
        BY <1>1, <1>4, <1>7, <2>1, <2>2 DEF Dispatched, Discarded
    <2>4. s \in ChannelOver(Whole) /\ s \in ChannelOf(c) /\ s = ord[c] /\ Offset(s.read) \in Nat
        BY <1>1, <1>2, <2>1, <2>2
    <2>5. t \in ChannelOver(Whole) /\ ready \in Seq(Whole)
        BY <1>3, <2>1, <2>3, <2>4, HandleOrderedTyped
    <2>6. nxt[c] = t /\ \A k \in Channels : k # c => nxt[k] = ord[k]
        BY <1>1, <1>7, <2>1, <2>2 DEF InboundInv, ChannelsTyped
    <2>7. /\ Fragments(s.heap) \subseteq Fragments(ready) \cup Fragments(t.heap)
          /\ ~(SeqGreater(s.read, x) \/ Overflows(s, whole)) =>
                Pieces(whole) \subseteq Fragments(ready) \cup Fragments(t.heap)
        BY <2>1, <2>3, <2>4, HandleOrderedConserves
    <2>8. Fragments(t.heap) \subseteq Waits(nxt)
        BY <2>2, <2>6, InWaits
    <2>9. ASSUME NEW f \in Waits(ord) PROVE f \in Fragments(ready) \/ f \in Waits(nxt)
        <3>1. PICK k \in Channels : f \in Fragments(ord[k].heap)
            BY InWaits
        <3>2. CASE k = c
            BY <2>4, <2>7, <2>8, <3>1, <3>2
        <3>3. CASE k # c
            BY <2>6, <3>1, <3>3, InWaits
        <3> QED BY <3>2, <3>3
    <2>10. Pieces(whole) \subseteq Fragments(ready) \cup Waits(nxt) \cup over \cup gone
        BY <2>3, <2>7, <2>8
    <2>11. ready # <<>> => gone = {}
        <3> SUFFICES ASSUME ready # <<>> PROVE gone = {}
            OBVIOUS
        <3>1. s.read = x
            BY <2>1, <2>3 DEF Ready
        <3>2. x \in SeqNum /\ ~SeqGreater(x, x) /\ ~SeqLess(x, x)
            BY <1>3, <2>1, HalfFacts, ModuloAssumption DEF SeqGreater, SeqLess, SeqNum
        <3> QED BY <2>1, <2>3, <3>1, <3>2 DEF Overflows
    <2>12. Passes(ord, nxt, ready)
        <3> SUFFICES ASSUME NEW k \in Channels, NEW y \in SeqNum,
                            Offset(ord[k].read) <= Offset(y), Offset(y) < Offset(nxt[k].read)
                     PROVE  \E i \in DOMAIN ready :
                                /\ IsOrdered(ready[i].reliability)
                                /\ ready[i].ordering_channel = k /\ ready[i].ordering_index = y
            BY DEF Passes
        <3>0. Offset(y) \in Nat /\ Offset(ord[k].read) \in Nat
            BY <1>2, OffsetFacts
        <3>1. k = c
            BY <2>6, <3>0
        <3>2. /\ ready \in Seq(Waiting(c)) /\ Offset(t.read) = Offset(s.read) + Len(ready)
              /\ \A i \in 1 .. Len(ready) : Offset(ready[i].ordering_index) = Offset(s.read) + (i - 1)
            BY <2>1, <2>2, <2>3, <2>4, HandleOrderedRun
        <3>3. PICK i : i = (Offset(y) - Offset(s.read)) + 1
            OBVIOUS
        <3>4. Len(ready) \in Nat /\ DOMAIN ready = 1 .. Len(ready)
            BY <3>2, LenProperties
        <3>5. i \in 1 .. Len(ready) /\ Offset(s.read) + (i - 1) = Offset(y)
            BY <2>4, <2>6, <3>0, <3>1, <3>2, <3>3, <3>4
        <3>6. ready[i] \in Waiting(c) /\ Offset(ready[i].ordering_index) = Offset(y)
            BY <3>2, <3>5, ElementOfSeq
        <3>7. /\ ready[i].ordering_index \in SeqNum /\ IsOrdered(ready[i].reliability)
              /\ ready[i].ordering_channel = c
            BY <3>6 DEF Waiting, Stretched, EncapsulatedPacket
        <3>8. ready[i].ordering_index = y
            BY <3>6, <3>7, OffsetFacts
        <3> QED BY <3>1, <3>4, <3>5, <3>7, <3>8
    <2>13. \A k \in Channels : nxt[k] \in ChannelOver(Whole)
        BY <1>2, <2>5, <2>6
    <2> QED BY <1>1, <2>5, <2>9, <2>10, <2>11, <2>12, <2>13
<1> QED BY <1>5, <1>6, <1>7 DEF OnChannel

\* Accepting a packet: what was kept and the packet itself are handed on, kept,
\* or discarded.
LEMMA CommitConserves ==
    ASSUME InboundInv, WholeInv, NEW p \in Packets, ~AddFails(splits, p),
           CommitPacket(p, Assembled(splits, p)), NEW ready, NEW gone,
           ready = IF Returns(splits, p) THEN Dispatched(Assembled(splits, p)) ELSE <<>>,
           gone = IF Returns(splits, p) THEN Discarded(Assembled(splits, p)) ELSE {}
    PROVE  /\ HonestSplits(splits') /\ ready \in Seq(Whole)
           /\ \A c \in Channels : order'[c] \in ChannelOver(Whole)
           /\ ready # <<>> => gone = {}
           /\ Kept \cup Pieces(p) \subseteq
                Fragments(ready) \cup HeldFragments(splits') \cup Waits(order') \cup HandedOver \cup gone
           /\ Passes(order, order', ready)
<1>1. PICK w, m, n, over : /\ w = Assembled(splits, p) /\ m = splits /\ n = AddPart(m, p)
                           /\ over = HandedOver
    OBVIOUS
<1>2. SplitMap(m) /\ HonestSplits(m) /\ splits' = n
    BY <1>1 DEF InboundInv, WholeInv, CommitPacket
<1>3. HonestSplits(n)
    BY <1>1, <1>2, AddPartConserves
<1>4. Kept = HeldFragments(m) \cup Waits(order)
    BY <1>1 DEF Kept, Waits
<1>5. CASE ~Returns(m, p)
    <2>1. ready = <<>> /\ gone = {} /\ order' = order
        BY <1>1, <1>5 DEF CommitPacket
    <2>2. HeldFragments(m) \cup Pieces(p) \subseteq HeldFragments(n)
        BY <1>1, <1>2, <1>5, AddPartConserves
    <2>3. Passes(order, order', ready)
        <3>1. ASSUME NEW c \in Channels, NEW x \in SeqNum,
                     Offset(order[c].read) <= Offset(x), Offset(x) < Offset(order[c].read)
              PROVE  FALSE
            <4>1. Offset(x) \in Nat /\ Offset(order[c].read) \in Nat
                BY ReadFacts, OffsetFacts DEF InboundInv
            <4> QED BY <3>1, <4>1
        <3> QED BY <2>1, <3>1 DEF Passes
    <2>4. ready \in Seq(Whole) /\ \A c \in Channels : order'[c] \in ChannelOver(Whole)
        BY <2>1, EmptySeq DEF WholeInv
    <2>5. Waits(order') = Waits(order)
        BY <2>1
    <2> QED BY <1>2, <1>3, <1>4, <2>1, <2>2, <2>3, <2>4, <2>5
<1>6. CASE Returns(m, p)
    <2>1. /\ w \in Whole /\ Pieces(p) \subseteq Pieces(w)
          /\ HeldFragments(m) \subseteq HeldFragments(n) \cup Pieces(w)
        <3>1. w \in Whole /\ Pieces(p) \subseteq Pieces(w)
            BY <1>1, <1>2, <1>6, AssembledWhole
        <3>2. HeldFragments(m) \subseteq HeldFragments(n) \cup Pieces(w)
            BY <1>1, <1>2, <1>6, AddPartConserves
        <3> QED BY <3>1, <3>2
    <2>2. /\ order' = IF OnChannel(w)
                      THEN [order EXCEPT ![w.ordering_channel] = HandleOrdered(@, w)]
                      ELSE order
          /\ ready = Dispatched(w) /\ gone = Discarded(w)
        BY <1>1, <1>6 DEF CommitPacket
    <2>3. /\ \A c \in Channels : order'[c] \in ChannelOver(Whole)
          /\ ready \in Seq(Whole)
          /\ Waits(order) \subseteq Fragments(ready) \cup Waits(order')
          /\ Pieces(w) \subseteq Fragments(ready) \cup Waits(order') \cup HandedOver \cup gone
          /\ ready # <<>> => gone = {}
          /\ Passes(order, order', ready)
        BY <2>1, <2>2, DispatchConserves
    <2> QED BY <1>2, <1>3, <1>4, <2>1, <2>3
<1> QED BY <1>1, <1>5, <1>6

\* A packet of the peer with index x on channel c is in G.
Accounted(c, x, G) ==
    \E p \in Packets : /\ IsOrdered(p.reliability) /\ p.ordering_channel = c
                       /\ p.ordering_index = x /\ Pieces(p) \subseteq G

\* Every index passed from ord to next is accounted for in G.
AllAccounted(ord, next, G) ==
    \A c \in Channels : \A x \in SeqNum :
        Offset(ord[c].read) <= Offset(x) /\ Offset(x) < Offset(next[c].read) => Accounted(c, x, G)

\* Whole messages that are passed account for their indexes.
LEMMA PassesAccount ==
    ASSUME NEW s \in Seq(Whole), NEW ord, NEW next, NEW G, Passes(ord, next, s), Fragments(s) \subseteq G
    PROVE  AllAccounted(ord, next, G)
<1> SUFFICES ASSUME NEW c \in Channels, NEW x \in SeqNum,
                    Offset(ord[c].read) <= Offset(x), Offset(x) < Offset(next[c].read)
             PROVE  Accounted(c, x, G)
    BY DEF AllAccounted
<1>1. PICK i \in DOMAIN s : /\ IsOrdered(s[i].reliability)
                            /\ s[i].ordering_channel = c /\ s[i].ordering_index = x
    BY DEF Passes
<1>2. s[i] \in Whole
    BY ElementOfSeq, LenProperties
<1>3. PICK q \in Packets : SameHeader(q, s[i]) /\ Pieces(q) \subseteq Pieces(s[i])
    BY <1>2 DEF Whole
<1>4. Pieces(s[i]) \subseteq G
    BY InFragments
<1> QED BY <1>1, <1>3, <1>4 DEF Accounted, SameHeader

\* Read indexes that stay account for nothing.
LEMMA StayAccount ==
    ASSUME ChannelsTyped, NEW G
    PROVE  AllAccounted(order, order, G)
<1> SUFFICES ASSUME NEW c \in Channels, NEW x \in SeqNum,
                    Offset(order[c].read) <= Offset(x), Offset(x) < Offset(order[c].read)
             PROVE  FALSE
    BY DEF AllAccounted
<1>1. Offset(x) \in Nat /\ Offset(order[c].read) \in Nat
    BY ReadFacts, OffsetFacts
<1> QED BY <1>1

\* What NoSilentSkip says, by offsets.
LEMMA SkipByOffset ==
    NoSilentSkip <=> \A c \in Channels : \A x \in SeqNum :
                        Offset(x) < Offset(order[c].read) => Accounted(c, x, Gone)
<1>1. \A p : Fragments(<<p>>) = Pieces(p)
    BY FragmentsFew
<1>2. ASSUME NEW c, NEW x
      PROVE  (\E p \in Packets : /\ IsOrdered(p.reliability) /\ p.ordering_channel = c
                                 /\ p.ordering_index = x
                                 /\ Fragments(<<p>>) \subseteq HandedOver \cup lost)
             <=> Accounted(c, x, Gone)
    BY <1>1 DEF Accounted, Gone
<1>3. \A c \in Channels : \A x : x \in SeqStretch(Start, SeqDistance(Start, order[c].read)) <=>
                                    x \in SeqNum /\ Offset(x) < Offset(order[c].read)
    BY DEF SeqStretch, Offset
<1>4. NoSilentSkip <=> \A c \in Channels :
                        \A x \in SeqStretch(Start, SeqDistance(Start, order[c].read)) : Accounted(c, x, Gone)
    BY <1>2 DEF NoSilentSkip
<1> QED BY <1>3, <1>4

\* The same of the next state.
LEMMA SkipCarries ==
    ASSUME ChannelsTyped, ChannelsTyped', NoSilentSkip, Gone \subseteq Gone',
           AllAccounted(order, order', Gone')
    PROVE  NoSilentSkip'
<1>1. PICK G, H, ord, nxt : G = Gone /\ H = Gone' /\ ord = order /\ nxt = order'
    OBVIOUS
<1>2. ASSUME NEW c \in Channels, NEW x \in SeqNum, Offset(x) < Offset(nxt[c].read)
      PROVE  Accounted(c, x, H)
    <2>1. Offset(x) \in Nat /\ Offset(ord[c].read) \in Nat
        BY <1>1, ReadFacts, OffsetFacts
    <2>2. CASE Offset(ord[c].read) <= Offset(x)
        BY <1>1, <1>2, <2>2 DEF AllAccounted
    <2>3. CASE Offset(x) < Offset(ord[c].read)
        <3>1. Accounted(c, x, G)
            BY <1>1, <2>3, SkipByOffset
        <3>2. G \subseteq H
            BY <1>1
        <3> QED BY <3>1, <3>2 DEF Accounted
    <2> QED BY <2>1, <2>2, <2>3
<1>3. \A p : Fragments(<<p>>) = Pieces(p)
    BY FragmentsFew
<1>4. Gone' = HandedOver' \cup lost'
    BY DEF Gone
<1> QED BY <1>1, <1>2, <1>3, <1>4 DEF NoSilentSkip, Accounted, SeqStretch, Offset

\* What is known and what is gone, before a step and after it.
LEMMA KnownParts ==
    /\ Known = Fragments(delivered) \cup Fragments(out) \cup HeldFragments(splits) \cup Waits(order) \cup lost
    /\ Gone = Fragments(delivered) \cup Fragments(out) \cup lost
    /\ Known' = Fragments(delivered') \cup Fragments(out') \cup HeldFragments(splits')
                    \cup Waits(order') \cup lost'
    /\ Gone' = Fragments(delivered') \cup Fragments(out') \cup lost'
<1>1. Known = Fragments(delivered) \cup Fragments(out) \cup HeldFragments(splits) \cup Waits(order) \cup lost
    BY DEF Known, HandedOver, Kept, Waits
<1>2. Known' = Fragments(delivered') \cup Fragments(out') \cup HeldFragments(splits')
                    \cup Waits(order') \cup lost'
    BY DEF Known, HandedOver, Kept, Waits
<1>3. Gone = Fragments(delivered) \cup Fragments(out) \cup lost
    BY DEF Gone, HandedOver
<1>4. Gone' = Fragments(delivered') \cup Fragments(out') \cup lost'
    BY DEF Gone, HandedOver
<1> QED BY <1>1, <1>2, <1>3, <1>4

\* What is known stays known, so that only what a step adds is to be shown.
LEMMA FateCarries ==
    ASSUME FateInv, Known \subseteq Known',
           \A k \in 1 .. place' : Pieces(current'.packets[k]) \subseteq Known',
           \A p \in Packets : Tracked(p) /\ p.reliable_index \in seen' /\ p.reliable_index \notin seen =>
                                Pieces(p) \subseteq Known',
           \A d \in received' : d \in received \/ Fragments(d.packets) \subseteq Known'
    PROVE  FateInv'
<1>1. \A p \in Packets : Tracked(p) /\ p.reliable_index \in seen' => Pieces(p) \subseteq Known'
    <2> SUFFICES ASSUME NEW p \in Packets, Tracked(p), p.reliable_index \in seen'
                 PROVE  Pieces(p) \subseteq Known'
        OBVIOUS
    <2>1. CASE p.reliable_index \in seen
        BY <2>1 DEF FateInv
    <2> QED BY <2>1
<1>2. \A d \in received' : Fragments(d.packets) \subseteq Known'
    <2>1. \A d \in received : Fragments(d.packets) \subseteq Known
        BY DEF FateInv, NothingVanishes, Known
    <2> QED BY <2>1
<1>3. NothingVanishes'
    BY <1>2 DEF NothingVanishes, Known
<1>4. (\A k \in 1 .. place : Pieces(current.packets[k]) \subseteq Known)'
    OBVIOUS
<1>5. (\A p \in Packets : Tracked(p) /\ p.reliable_index \in seen => Pieces(p) \subseteq Known)'
    BY <1>1 DEF Tracked
<1> QED BY <1>3, <1>4, <1>5 DEF FateInv

\* A packet at hand that is done with without an error.
LEMMA PlaceCarries ==
    ASSUME HandlerTyped, FateInv, Known \subseteq Known', place < Len(current.packets),
           Pieces(current.packets[place + 1]) \subseteq Known', place' = place + 1, current' = current
    PROVE  \A k \in 1 .. place' : Pieces(current'.packets[k]) \subseteq Known'
<1>1. place \in Nat
    BY DEF HandlerTyped
<1>2. PICK n, s, K, H : n = place /\ s = current.packets /\ K = Known /\ H = Known'
    OBVIOUS
<1>3. \A k \in 1 .. n : Pieces(s[k]) \subseteq K
    BY <1>2 DEF FateInv
<1>4. ASSUME NEW k \in 1 .. n + 1 PROVE Pieces(s[k]) \subseteq H
    <2>1. CASE k \in 1 .. n
        BY <1>2, <1>3, <2>1
    <2>2. CASE k \notin 1 .. n
        <3>1. k = n + 1
            BY <1>1, <1>2, <2>2
        <3> QED BY <1>2, <3>1
    <2> QED BY <2>1, <2>2
<1> QED BY <1>2, <1>4

\* All that is to be shown of a step.
FateKept == WholeInv' /\ FateInv' /\ NoSilentSkip'

\* A step that touches nothing but the queues and the datagram it takes up.
LEMMA UntouchedFate ==
    ASSUME InboundInv, WholeInv, FateInv, NoSilentSkip,
           UNCHANGED <<splits, order, delivered, seen, lost, received>>, out' = out,
           ~handling' => ~handling,
           \/ place' = 0
           \/ UNCHANGED <<place, current>>
    PROVE  FateKept
<1>1. WholeInv'
    BY DEF WholeInv
<1>2. Known' = Known /\ Gone' = Gone
    BY KnownParts
<1>3. \A k \in 1 .. place' : Pieces(current'.packets[k]) \subseteq Known'
    <2>1. CASE place' = 0
        BY <2>1
    <2>2. CASE UNCHANGED <<place, current>>
        BY <1>2, <2>2 DEF FateInv
    <2> QED BY <2>1, <2>2
<1>4. FateInv'
    <2>1. Known \subseteq Known'
        BY <1>2
    <2>2. \A p \in Packets : Tracked(p) /\ p.reliable_index \in seen' /\ p.reliable_index \notin seen =>
                                Pieces(p) \subseteq Known'
        OBVIOUS
    <2>3. \A d \in received' : d \in received \/ Fragments(d.packets) \subseteq Known'
        OBVIOUS
    <2> QED BY <1>3, <2>1, <2>2, <2>3, FateCarries
<1>5. NoSilentSkip'
    <2>1. AllAccounted(order, order', Gone')
        BY StayAccount DEF InboundInv
    <2>2. ChannelsTyped /\ ChannelsTyped'
        BY DEF InboundInv, ChannelsTyped
    <2> QED BY <1>2, <2>1, <2>2, SkipCarries
<1> QED BY <1>1, <1>4, <1>5 DEF FateKept

\* handle_data_payload takes up a datagram.
LEMMA HandleDatagramFate ==
    ASSUME InboundInv, WholeInv, FateInv, NoSilentSkip, NEW d \in SentDatagram, HandleDatagram(d)
    PROVE  FateKept
<1>1. /\ ~handling /\ handling' = TRUE /\ place' = 0 /\ out' = <<>>
      /\ UNCHANGED <<splits, order, delivered, seen, lost, received>>
    BY DEF HandleDatagram, sessionVars, historyVars
<1>2. out = <<>>
    BY <1>1 DEF WholeInv
<1> QED BY <1>1, <1>2, UntouchedFate

\* A datagram is abandoned: what out had is recorded in lost.
LEMMA AbandonFate ==
    ASSUME InboundInv, WholeInv, FateInv, NoSilentSkip, AbandonDatagram, ChannelsTyped',
           HonestSplits(splits'), \A c \in Channels : order'[c] \in ChannelOver(Whole),
           Known \subseteq Known', Gone \subseteq Gone', AllAccounted(order, order', Gone'),
           \A p \in Packets : Tracked(p) /\ p.reliable_index \in seen' /\ p.reliable_index \notin seen =>
                                Pieces(p) \subseteq Known'
    PROVE  FateKept
<1>1. handling' = FALSE /\ place' = 0 /\ out' = <<>> /\ UNCHANGED <<delivered, received>>
    BY DEF AbandonDatagram
<1>2. WholeInv'
    BY <1>1, EmptySeq DEF WholeInv
<1>3. FateInv'
    <2>1. \A k \in 1 .. place' : Pieces(current'.packets[k]) \subseteq Known'
        BY <1>1
    <2>2. \A d \in received' : d \in received \/ Fragments(d.packets) \subseteq Known'
        BY <1>1
    <2> QED BY <2>1, <2>2, FateCarries
<1>4. NoSilentSkip'
    BY SkipCarries DEF InboundInv
<1> QED BY <1>2, <1>3, <1>4 DEF FateKept

\* A duplicate: its first copy is accounted for, or it is recorded in lost.
LEMMA DropDuplicateFate ==
    ASSUME InboundInv, WholeInv, FateInv, NoSilentSkip, NEW p \in Packets,
           p = current.packets[place + 1], place < Len(current.packets), handling, DropDuplicate(p)
    PROVE  FateKept
<1>1. /\ Tracked(p) /\ place' = place + 1
      /\ lost' = IF p.reliable_index \in seen THEN lost ELSE lost \cup Fragments(<<p>>)
      /\ UNCHANGED <<splits, order, handling, current, out, delivered, received, seen>>
    BY DEF DropDuplicate, IsDuplicate, sessionVars
<1>2. WholeInv'
    BY <1>1 DEF WholeInv
<1>3. lost \subseteq lost'
    BY <1>1
<1>4. Known \subseteq Known' /\ Gone \subseteq Gone' /\ lost' \subseteq Known'
    <2>1. Waits(order') = Waits(order) /\ HeldFragments(splits') = HeldFragments(splits)
        BY <1>1
    <2> QED BY <1>1, <1>3, <2>1, KnownParts
<1>5. Pieces(p) \subseteq Known'
    <2>1. CASE p.reliable_index \in seen
        BY <1>1, <1>4, <2>1 DEF FateInv
    <2>2. CASE p.reliable_index \notin seen
        BY <1>1, <1>4, <2>2, FragmentsFew
    <2> QED BY <2>1, <2>2
<1>6. FateInv'
    <2>1. \A k \in 1 .. place' : Pieces(current'.packets[k]) \subseteq Known'
        BY <1>1, <1>4, <1>5, PlaceCarries DEF InboundInv
    <2>2. \A q \in Packets : Tracked(q) /\ q.reliable_index \in seen' /\ q.reliable_index \notin seen =>
                                Pieces(q) \subseteq Known'
        BY <1>1
    <2>3. \A d \in received' : d \in received \/ Fragments(d.packets) \subseteq Known'
        BY <1>1
    <2> QED BY <1>4, <2>1, <2>2, <2>3, FateCarries
<1>7. NoSilentSkip'
    <2>1. AllAccounted(order, order', Gone')
        BY <1>1, StayAccount DEF InboundInv
    <2>2. ChannelsTyped /\ ChannelsTyped'
        BY <1>1 DEF InboundInv, ChannelsTyped
    <2> QED BY <1>4, <2>1, <2>2, SkipCarries
<1> QED BY <1>2, <1>6, <1>7 DEF FateKept

\* A part the assembler refuses.
LEMMA RefusePartFate ==
    ASSUME InboundInv, WholeInv, FateInv, NoSilentSkip, NEW p \in Packets, RefusePart(p)
    PROVE  FateKept
<1>1. /\ AddFails(splits, p) /\ splits' = AddPart(splits, p) /\ lost' = lost \cup Fragments(out)
      /\ AbandonDatagram /\ UNCHANGED <<tracker, order, seen>>
    BY DEF RefusePart
<1>2. out' = <<>> /\ delivered' = delivered
    BY <1>1 DEF AbandonDatagram
<1>3. splits' = splits
    <2>1. PICK m : m = splits
        OBVIOUS
    <2>2. AddPart(m, p) = m
        BY <1>1, <2>1, AddPartConserves DEF InboundInv, WholeInv
    <2> QED BY <1>1, <2>1, <2>2
<1>4. Known \subseteq Known' /\ Gone \subseteq Gone'
    <2>1. Waits(order') = Waits(order) /\ HeldFragments(splits') = HeldFragments(splits)
          /\ Fragments(delivered') = Fragments(delivered)
        BY <1>1, <1>2, <1>3
    <2> QED BY <1>1, <2>1, KnownParts
<1>5. AllAccounted(order, order', Gone')
    BY <1>1, StayAccount DEF InboundInv
<1>6. ChannelsTyped' /\ HonestSplits(splits') /\ \A c \in Channels : order'[c] \in ChannelOver(Whole)
    BY <1>1, <1>3 DEF InboundInv, ChannelsTyped, WholeInv
<1>7. \A q \in Packets : Tracked(q) /\ q.reliable_index \in seen' /\ q.reliable_index \notin seen =>
                            Pieces(q) \subseteq Known'
    BY <1>1
<1> QED BY <1>1, <1>4, <1>5, <1>6, <1>7, AbandonFate

\* A packet that is accepted, and decoded or not.
LEMMA AcceptPacketFate ==
    ASSUME InboundInv, WholeInv, FateInv, NoSilentSkip, ChannelsTyped', NEW p \in Packets,
           p = current.packets[place + 1], place < Len(current.packets), handling, AcceptPacket(p)
    PROVE  FateKept
<1>1. PICK ready, gone :
        /\ ready = IF Returns(splits, p) THEN Dispatched(Assembled(splits, p)) ELSE <<>>
        /\ gone = IF Returns(splits, p) THEN Discarded(Assembled(splits, p)) ELSE {}
    OBVIOUS
<1>2. ~AddFails(splits, p) /\ CommitPacket(p, Assembled(splits, p))
    BY DEF AcceptPacket
<1>3. /\ HonestSplits(splits') /\ ready \in Seq(Whole)
      /\ \A c \in Channels : order'[c] \in ChannelOver(Whole)
      /\ ready # <<>> => gone = {}
      /\ Kept \cup Pieces(p) \subseteq
            Fragments(ready) \cup HeldFragments(splits') \cup Waits(order') \cup HandedOver \cup gone
      /\ Passes(order, order', ready)
    BY <1>1, <1>2, CommitConserves
<1>4. \/ /\ out' = out \o ready /\ place' = place + 1
         /\ lost' = IF Returns(splits, p) THEN lost \cup Discarded(Assembled(splits, p)) ELSE lost
         /\ UNCHANGED <<handling, current, delivered, received>>
      \/ /\ \E i \in DOMAIN ready : Undecodable(ready[i])
         /\ lost' = lost \cup Fragments(out \o ready) /\ AbandonDatagram
    BY <1>1 DEF AcceptPacket
<1>5. Kept = HeldFragments(splits) \cup Waits(order) /\ HandedOver = Fragments(delivered) \cup Fragments(out)
    BY DEF Kept, Waits, HandedOver
<1>6. out \in Seq(Whole) /\ delivered \in Seq(Whole)
    BY DEF WholeInv
<1>7. Fragments(out \o ready) = Fragments(out) \cup Fragments(ready)
    BY <1>3, <1>6, FragmentsConcat
<1>8. ASSUME Pieces(p) \subseteq Known', NEW q \in Packets, Tracked(q), q.reliable_index \in seen',
             q.reliable_index \notin seen
      PROVE  Pieces(q) \subseteq Known'
    <2>1. Tracked(p) /\ q.reliable_index = p.reliable_index
        BY <1>2, <1>8 DEF CommitPacket
    <2>2. q = p
        BY <1>8, <2>1, PeerAssumption
    <2> QED BY <1>8, <2>2
<1>9. CASE /\ out' = out \o ready /\ place' = place + 1
           /\ lost' = IF Returns(splits, p) THEN lost \cup Discarded(Assembled(splits, p)) ELSE lost
           /\ UNCHANGED <<handling, current, delivered, received>>
    <2>1. lost' = lost \cup gone
        BY <1>1, <1>9
    <2>2. Fragments(out') = Fragments(out) \cup Fragments(ready) /\ Fragments(delivered') = Fragments(delivered)
        BY <1>7, <1>9
    <2>3. /\ Known \subseteq Known' /\ Gone \subseteq Gone' /\ Pieces(p) \subseteq Known'
          /\ Fragments(ready) \subseteq Gone'
        BY <1>3, <1>5, <2>1, <2>2, KnownParts
    <2>4. WholeInv'
        <3>1. out' \in Seq(Whole) /\ delivered' \in Seq(Whole)
            BY <1>3, <1>6, <1>9, ConcatProperties
        <3>2. handling'
            BY <1>9
        <3> QED BY <1>3, <3>1, <3>2 DEF WholeInv
    <2>5. FateInv'
        <3>1. \A k \in 1 .. place' : Pieces(current'.packets[k]) \subseteq Known'
            BY <1>9, <2>3, PlaceCarries DEF InboundInv
        <3>2. \A d \in received' : d \in received \/ Fragments(d.packets) \subseteq Known'
            BY <1>9
        <3>3. \A q \in Packets : Tracked(q) /\ q.reliable_index \in seen' /\ q.reliable_index \notin seen =>
                                    Pieces(q) \subseteq Known'
            BY <1>8, <2>3
        <3> QED BY <2>3, <3>1, <3>2, <3>3, FateCarries
    <2>6. NoSilentSkip'
        <3>1. AllAccounted(order, order', Gone')
            BY <1>3, <2>3, PassesAccount
        <3> QED BY <2>3, <3>1, SkipCarries DEF InboundInv
    <2> QED BY <2>4, <2>5, <2>6 DEF FateKept
<1>10. CASE /\ \E i \in DOMAIN ready : Undecodable(ready[i])
            /\ lost' = lost \cup Fragments(out \o ready) /\ AbandonDatagram
    <2>1. gone = {}
        <3>1. ready # <<>>
            BY <1>10
        <3> QED BY <1>3, <3>1
    <2>2. out' = <<>> /\ delivered' = delivered
        BY <1>10 DEF AbandonDatagram
    <2>3. lost' = lost \cup Fragments(out) \cup Fragments(ready) /\ Fragments(delivered') = Fragments(delivered)
        BY <1>7, <1>10, <2>2
    <2>4. /\ Known \subseteq Known' /\ Gone \subseteq Gone' /\ Pieces(p) \subseteq Known'
          /\ Fragments(ready) \subseteq Gone'
        BY <1>3, <1>5, <2>1, <2>3, KnownParts
    <2>5. AllAccounted(order, order', Gone')
        BY <1>3, <2>4, PassesAccount
    <2>6. \A q \in Packets : Tracked(q) /\ q.reliable_index \in seen' /\ q.reliable_index \notin seen =>
                                Pieces(q) \subseteq Known'
        BY <1>8, <2>4
    <2> QED BY <1>3, <1>10, <2>4, <2>5, <2>6, AbandonFate
<1> QED BY <1>4, <1>9, <1>10

\* The end of a datagram.
LEMMA FinishDatagramFate ==
    ASSUME InboundInv, WholeInv, FateInv, NoSilentSkip, FinishDatagram
    PROVE  FateKept
<1>1. /\ place = Len(current.packets) /\ handling' = FALSE /\ place' = 0
      /\ delivered' = delivered \o out /\ out' = <<>> /\ received' = received \cup {current}
      /\ UNCHANGED <<splits, order, seen, lost>>
    BY DEF FinishDatagram
<1>2. out \in Seq(Whole) /\ delivered \in Seq(Whole)
    BY DEF WholeInv
<1>3. WholeInv'
    <2>1. delivered' \in Seq(Whole) /\ out' \in Seq(Whole)
        BY <1>1, <1>2, ConcatProperties, EmptySeq
    <2> QED BY <1>1, <2>1 DEF WholeInv
<1>4. Fragments(delivered') = Fragments(delivered) \cup Fragments(out)
    BY <1>1, <1>2, FragmentsConcat
<1>5. Known \subseteq Known' /\ Gone \subseteq Gone'
    <2>1. Waits(order') = Waits(order) /\ HeldFragments(splits') = HeldFragments(splits) /\ lost' = lost
        BY <1>1
    <2> QED BY <1>4, <2>1, KnownParts
<1>6. Fragments(current.packets) \subseteq Known'
    <2>1. PICK s, n : s = current.packets /\ n = place
        OBVIOUS
    <2>2. s \in Seq(Packets)
        BY <2>1 DEF InboundInv, HandlerTyped, SentDatagram
    <2>3. DOMAIN s = 1 .. n
        BY <1>1, <2>1, <2>2, LenProperties
    <2>4. \A k \in 1 .. n : Pieces(s[k]) \subseteq Known
        BY <2>1 DEF FateInv
    <2>5. Fragments(s) \subseteq Known
        BY <2>3, <2>4, InFragments
    <2> QED BY <1>5, <2>1, <2>5
<1>7. FateInv'
    <2>1. \A k \in 1 .. place' : Pieces(current'.packets[k]) \subseteq Known'
        BY <1>1
    <2>2. \A q \in Packets : Tracked(q) /\ q.reliable_index \in seen' /\ q.reliable_index \notin seen =>
                                Pieces(q) \subseteq Known'
        BY <1>1
    <2>3. \A d \in received' : d \in received \/ Fragments(d.packets) \subseteq Known'
        BY <1>1, <1>6
    <2> QED BY <1>5, <2>1, <2>2, <2>3, FateCarries
<1>8. NoSilentSkip'
    <2>1. AllAccounted(order, order', Gone')
        BY <1>1, StayAccount DEF InboundInv
    <2>2. ChannelsTyped /\ ChannelsTyped'
        BY <1>1 DEF InboundInv, ChannelsTyped
    <2> QED BY <1>5, <2>1, <2>2, SkipCarries
<1> QED BY <1>3, <1>7, <1>8 DEF FateKept

\* skip_index takes off the heap what it would release, and passes the index it
\* skips and those of what it releases.
LEMMA SkipConserves ==
    ASSUME NEW c, NEW s \in ChannelOf(c), s \in ChannelOver(Whole), NEW x \in SeqNum, Offset(x) < Half - 1
    PROVE  /\ SkipIndex(s, x) \in ChannelOver(Whole) /\ Skipped(s, x) \in Seq(Whole)
           /\ Fragments(s.heap) \subseteq Fragments(Skipped(s, x)) \cup Fragments(SkipIndex(s, x).heap)
           /\ \A y \in SeqNum :
                Offset(s.read) <= Offset(y) /\ Offset(y) < Offset(SkipIndex(s, x).read) =>
                    \/ y = x
                    \/ \E i \in DOMAIN Skipped(s, x) :
                            /\ IsOrdered(Skipped(s, x)[i].reliability)
                            /\ Skipped(s, x)[i].ordering_channel = c
                            /\ Skipped(s, x)[i].ordering_index = y
<1>0. Offset(s.read) \in Nat /\ s.read \in SeqNum
    BY OffsetFacts DEF ChannelOf, ChannelOver
<1>1. CASE s.read # x
    <2>1. SkipIndex(s, x) = s /\ Skipped(s, x) = <<>>
        BY <1>1 DEF SkipIndex, Skipped
    <2>2. \A y \in SeqNum : ~(Offset(s.read) <= Offset(y) /\ Offset(y) < Offset(s.read))
        BY <1>0, OffsetFacts
    <2> QED BY <2>1, <2>2, EmptySeq
<1>2. CASE s.read = x
    <2>1. PICK t, run : t = Release(s) /\ run = Released(s)
        OBVIOUS
    <2>2. SkipIndex(s, x) = t /\ Skipped(s, x) = run
        BY <1>2, <2>1 DEF SkipIndex, Skipped
    <2>3. t \in ChannelOver(Whole) /\ run \in Seq(Whole)
        BY <2>1, ReleaseTyped
    <2>4. Fragments(s.heap) \subseteq Fragments(run) \cup Fragments(t.heap)
        BY <2>1, ReleaseConserves
    <2>5. /\ run \in Seq(Waiting(c)) /\ Offset(t.read) = Offset(s.read) + 1 + Len(run)
          /\ \A i \in 1 .. Len(run) : Offset(run[i].ordering_index) = Offset(s.read) + i
        BY <1>2, <2>1, ReleaseRun
    <2>6. Len(run) \in Nat /\ DOMAIN run = 1 .. Len(run)
        BY <2>5, LenProperties
    <2>7. ASSUME NEW y \in SeqNum, Offset(s.read) <= Offset(y), Offset(y) < Offset(t.read), y # x
          PROVE  \E i \in DOMAIN run : /\ IsOrdered(run[i].reliability)
                                       /\ run[i].ordering_channel = c /\ run[i].ordering_index = y
        <3>1. Offset(y) \in Nat /\ Offset(y) # Offset(s.read)
            BY <1>0, <1>2, <2>7, OffsetFacts
        <3>2. PICK i : i = Offset(y) - Offset(s.read)
            OBVIOUS
        <3>3. i \in 1 .. Len(run) /\ Offset(s.read) + i = Offset(y)
            BY <1>0, <2>5, <2>6, <2>7, <3>1, <3>2
        <3>4. run[i] \in Waiting(c) /\ Offset(run[i].ordering_index) = Offset(y)
            BY <2>5, <3>3, ElementOfSeq
        <3>5. /\ run[i].ordering_index \in SeqNum /\ IsOrdered(run[i].reliability)
              /\ run[i].ordering_channel = c
            BY <3>4 DEF Waiting, Stretched, EncapsulatedPacket
        <3>6. run[i].ordering_index = y
            BY <3>4, <3>5, OffsetFacts
        <3> QED BY <2>6, <3>3, <3>5, <3>6
    <2> QED BY <2>2, <2>3, <2>4, <2>7
<1> QED BY <1>1, <1>2

\* An entry that is pruned accounts for the index of its header.
LEMMA PrunedAccounts ==
    ASSUME NEW id, NEW e, Honest(id, e), HasOrderingIndex(e.header.reliability), NEW G, Held(e) \subseteq G
    PROVE  Accounted(e.header.ordering_channel, e.header.ordering_index, G)
<1>1. PICK i \in DOMAIN e.parts : TRUE
    BY DEF Honest
<1>2. PICK q \in PartsFrom(id) : q.payload = e.parts[i]
    BY DEF Honest, Filled
<1>3. q \in Packets /\ SameHeader(q, e.header)
    BY <1>2 DEF Honest, Filled, PartsFrom
<1>4. ASSUME NEW f \in Pieces(q) PROVE f \in Held(e)
    <2>1. PICK k \in DOMAIN q.payload : f = q.payload[k]
        BY DEF Pieces
    <2> QED BY <1>2, <2>1, InHeld
<1>5. IsOrdered(q.reliability)
    BY <1>3, PeerAssumption DEF SameHeader, HasOrderingIndex
<1> QED BY <1>3, <1>4, <1>5 DEF Accounted, SameHeader

\* A tick that prunes a split: its parts and what skip_index releases are
\* recorded in lost.
LEMMA PruneTickFate ==
    ASSUME InboundInv, WholeInv, FateInv, NoSilentSkip, ChannelsTyped', NEW id, PruneTick(id)
    PROVE  FateKept
<1>1. PICK e, h, c, x, m, n : /\ e = splits[id] /\ h = e.header /\ c = h.ordering_channel
                              /\ x = h.ordering_index /\ m = splits /\ n = Without(m, id)
    OBVIOUS
<1>2. /\ id \in DOMAIN m /\ splits' = n /\ e = m[id]
      /\ UNCHANGED <<handling, current, place, out, delivered, received, seen>>
    BY <1>1 DEF PruneTick, handlerVars
<1>3. e \in Entries /\ Honest(id, e) /\ h \in Stretched /\ x \in SeqNum /\ Offset(x) < Half - 1
    BY <1>1, <1>2 DEF InboundInv, SplitMap, WholeInv, HonestSplits, Entries, Stretched, EncapsulatedPacket
<1>4. HeldFragments([k \in {id} |-> e]) = Held(e)
    <2>1. PICK y : y = [k \in {id} |-> e]
        OBVIOUS
    <2>2. DOMAIN y = {id} /\ y[id] = e
        BY <2>1
    <2>3. \A f : f \in HeldFragments(y) <=> f \in Held(e)
        BY <2>2, InHeldFragments
    <2> QED BY <2>1, <2>3
<1>5. DOMAIN n = DOMAIN m \ {id} /\ \A k \in DOMAIN n : n[k] = m[k]
    BY <1>1 DEF Without
<1>6. HonestSplits(n) /\ HeldFragments(m) \subseteq HeldFragments(n) \cup Held(e)
    <2>1. HonestSplits(n)
        BY <1>1, <1>5 DEF WholeInv, HonestSplits
    <2>2. ASSUME NEW f \in HeldFragments(m) PROVE f \in HeldFragments(n) \/ f \in Held(e)
        <3>1. PICK k \in DOMAIN m : f \in Held(m[k])
            BY InHeldFragments
        <3>2. CASE k = id
            BY <1>2, <3>1, <3>2
        <3>3. CASE k # id
            <4>1. k \in DOMAIN n /\ f \in Held(n[k])
                BY <1>5, <3>1, <3>3
            <4> QED BY <4>1, InHeldFragments
        <3> QED BY <3>2, <3>3
    <2> QED BY <2>1, <2>2
<1>7. /\ \A k \in Channels : order'[k] \in ChannelOver(Whole)
      /\ Held(e) \subseteq lost' /\ lost \subseteq lost'
      /\ Waits(order) \subseteq Waits(order') \cup lost'
      /\ AllAccounted(order, order', lost')
    <2>1. CASE ~(HasOrderingIndex(h.reliability) /\ c \in Channels)
        <3>1. order' = order /\ lost' = lost \cup HeldFragments([k \in {id} |-> e])
            BY <1>1, <2>1 DEF PruneTick
        <3>2. AllAccounted(order, order', lost')
            BY <3>1, StayAccount DEF InboundInv
        <3>3. Waits(order') = Waits(order)
            BY <3>1
        <3>4. \A k \in Channels : order'[k] \in ChannelOver(Whole)
            BY <3>1 DEF WholeInv
        <3> QED BY <1>4, <3>1, <3>2, <3>3, <3>4
    <2>2. CASE HasOrderingIndex(h.reliability) /\ c \in Channels
        <3>1. PICK s, t, run, ord, nxt : /\ s = order[c] /\ t = SkipIndex(s, x) /\ run = Skipped(s, x)
                                         /\ ord = order /\ nxt = order'
            OBVIOUS
        <3>2. /\ order' = [order EXCEPT ![c] = t]
              /\ lost' = lost \cup Fragments(run) \cup HeldFragments([k \in {id} |-> e])
            BY <1>1, <2>2, <3>1 DEF PruneTick
        <3>3. s \in ChannelOf(c) /\ s \in ChannelOver(Whole)
            BY <2>2, <3>1 DEF InboundInv, ChannelsTyped, WholeInv
        <3>4. nxt[c] = t /\ ord[c] = s /\ \A k \in Channels : k # c => nxt[k] = ord[k]
            BY <2>2, <3>1, <3>2 DEF InboundInv, ChannelsTyped
        <3>5. /\ t \in ChannelOver(Whole) /\ run \in Seq(Whole)
              /\ Fragments(s.heap) \subseteq Fragments(run) \cup Fragments(t.heap)
            BY <1>3, <3>1, <3>3, SkipConserves
        <3>6. \A y \in SeqNum :
                Offset(s.read) <= Offset(y) /\ Offset(y) < Offset(t.read) =>
                    \/ y = x
                    \/ \E i \in DOMAIN run : /\ IsOrdered(run[i].reliability)
                                             /\ run[i].ordering_channel = c /\ run[i].ordering_index = y
            BY <1>3, <3>1, <3>3, SkipConserves
        <3>7. PICK G : G = lost' /\ Fragments(run) \subseteq G /\ Held(e) \subseteq G /\ lost \subseteq G
            BY <1>4, <3>2
        <3>8. Accounted(c, x, G)
            BY <1>1, <1>3, <2>2, <3>7, PrunedAccounts
        <3>9. ASSUME NEW k \in Channels, NEW y \in SeqNum,
                     Offset(ord[k].read) <= Offset(y), Offset(y) < Offset(nxt[k].read)
              PROVE  Accounted(k, y, G)
            <4>1. Offset(y) \in Nat /\ Offset(ord[k].read) \in Nat
                BY <3>1, ReadFacts, OffsetFacts DEF InboundInv
            <4>2. k = c
                BY <3>4, <3>9, <4>1
            <4>3. CASE y = x
                BY <3>8, <4>2, <4>3
            <4>4. CASE y # x
                <5>1. PICK i \in DOMAIN run : /\ IsOrdered(run[i].reliability)
                                              /\ run[i].ordering_channel = c /\ run[i].ordering_index = y
                    BY <3>4, <3>6, <3>9, <4>2, <4>4
                <5>2. run[i] \in Whole
                    BY <3>5, <5>1, ElementOfSeq, LenProperties
                <5>3. PICK q \in Packets : SameHeader(q, run[i]) /\ Pieces(q) \subseteq Pieces(run[i])
                    BY <5>2 DEF Whole
                <5>4. Pieces(run[i]) \subseteq G
                    BY <3>7, InFragments
                <5> QED BY <4>2, <5>1, <5>3, <5>4 DEF Accounted, SameHeader
            <4> QED BY <4>3, <4>4
        <3>10. AllAccounted(ord, nxt, G)
            BY <3>9 DEF AllAccounted
        <3>11. ASSUME NEW f \in Waits(ord) PROVE f \in Waits(nxt) \/ f \in G
            <4>1. PICK k \in Channels : f \in Fragments(ord[k].heap)
                BY InWaits
            <4>2. CASE k = c
                <5>1. f \in Fragments(t.heap) => f \in Waits(nxt)
                    BY <2>2, <3>4, InWaits
                <5> QED BY <3>4, <3>5, <3>7, <4>1, <4>2, <5>1
            <4>3. CASE k # c
                BY <3>4, <4>1, <4>3, InWaits
            <4> QED BY <4>2, <4>3
        <3>12. \A k \in Channels : nxt[k] \in ChannelOver(Whole)
            BY <3>1, <3>4, <3>5 DEF WholeInv
        <3> QED BY <3>1, <3>7, <3>10, <3>11, <3>12
    <2> QED BY <2>1, <2>2
<1>8. Known \subseteq Known' /\ Gone \subseteq Gone' /\ lost' \subseteq Gone'
    BY <1>1, <1>2, <1>6, <1>7, KnownParts
<1>9. WholeInv'
    BY <1>2, <1>6, <1>7 DEF WholeInv
<1>10. FateInv'
    <2>1. \A k \in 1 .. place' : Pieces(current'.packets[k]) \subseteq Known'
        BY <1>2, <1>8 DEF FateInv
    <2>2. \A q \in Packets : Tracked(q) /\ q.reliable_index \in seen' /\ q.reliable_index \notin seen =>
                                Pieces(q) \subseteq Known'
        BY <1>2
    <2>3. \A d \in received' : d \in received \/ Fragments(d.packets) \subseteq Known'
        BY <1>2
    <2> QED BY <1>8, <2>1, <2>2, <2>3, FateCarries
<1>11. NoSilentSkip'
    <2>1. PICK G, H : G = lost' /\ H = Gone'
        OBVIOUS
    <2>2. AllAccounted(order, order', G) /\ G \subseteq H
        BY <1>7, <1>8, <2>1
    <2>3. \A k, y : Accounted(k, y, G) => Accounted(k, y, H)
        BY <2>2 DEF Accounted
    <2>4. AllAccounted(order, order', H)
        BY <2>2, <2>3 DEF AllAccounted
    <2> QED BY <1>8, <2>1, <2>4, SkipCarries DEF InboundInv
<1> QED BY <1>9, <1>10, <1>11 DEF FateKept

\* A session begins with nothing to account for.
LEMMA FateStarts == InboundInit => WholeInv /\ FateInv /\ NoSilentSkip
<1> SUFFICES ASSUME InboundInit PROVE WholeInv /\ FateInv /\ NoSilentSkip
    OBVIOUS
<1>1. WholeInv
    <2>1. NewChannel(Start) \in ChannelOver(Whole)
        <3>1. Start \in SeqNum /\ <<>> \in Seq(Whole) /\ Len(<<>>) = 0 /\ 0 <= HeapCapacity
            BY OffsetFacts, EmptySeq, HeapCapacityAssumption
        <3> QED BY <3>1 DEF NewChannel, ChannelOver
    <2>2. \A c \in Channels : order[c] \in ChannelOver(Whole)
        BY <2>1 DEF InboundInit
    <2>3. out = <<>> /\ delivered = <<>> /\ splits = <<>>
        BY DEF InboundInit
    <2>4. HonestSplits(splits)
        BY <2>3 DEF HonestSplits
    <2> QED BY <2>2, <2>3, <2>4, EmptySeq DEF WholeInv
<1>2. FateInv
    BY DEF InboundInit, FateInv, NothingVanishes
<1>3. NoSilentSkip
    <2>1. ASSUME NEW c \in Channels, NEW x \in SeqNum, Offset(x) < Offset(order[c].read) PROVE FALSE
        <3>1. order[c].read = Start
            BY DEF InboundInit, NewChannel
        <3>2. Offset(Start) = 0
            BY OffsetFacts, ModuloAssumption DEF Offset, SeqDistance, SeqNum
        <3>3. Offset(x) \in Nat
            BY OffsetFacts
        <3> QED BY <2>1, <3>1, <3>2, <3>3
    <2> QED BY <2>1, SkipByOffset
<1> QED BY <1>1, <1>2, <1>3

\* Every step keeps the account.
LEMMA FateSteps ==
    /\ InboundInv /\ InboundInv' /\ WholeInv /\ FateInv /\ NoSilentSkip
    /\ [InboundNext]_inboundVars
    => WholeInv' /\ FateInv' /\ NoSilentSkip'
<1> SUFFICES ASSUME InboundInv, InboundInv', WholeInv, FateInv, NoSilentSkip,
                    [InboundNext]_inboundVars
             PROVE  FateKept
    BY DEF FateKept
<1>0. ChannelsTyped'
    BY DEF InboundInv
<1>1. ASSUME NEW d \in SentDatagram, HandleDatagram(d) PROVE FateKept
    BY <1>1, HandleDatagramFate
<1>2. CASE HandleEncapsulated
    <2>1. PICK p : p = current.packets[place + 1]
        OBVIOUS
    <2>2. /\ handling /\ place < Len(current.packets)
          /\ DropDuplicate(p) \/ RefusePart(p) \/ AcceptPacket(p)
        BY <1>2, <2>1 DEF HandleEncapsulated
    <2>3. p \in Packets
        BY <2>1, <2>2, PacketAtHand DEF InboundInv
    <2>4. CASE DropDuplicate(p)
        BY <2>1, <2>2, <2>3, <2>4, DropDuplicateFate
    <2>5. CASE RefusePart(p)
        BY <2>3, <2>5, RefusePartFate
    <2>6. CASE AcceptPacket(p)
        BY <1>0, <2>1, <2>2, <2>3, <2>6, AcceptPacketFate
    <2> QED BY <2>2, <2>4, <2>5, <2>6
<1>3. CASE FinishDatagram
    BY <1>3, FinishDatagramFate
<1>4. CASE InboundTick
    BY <1>4, UntouchedFate DEF InboundTick, handlerVars
<1>5. ASSUME NEW id \in DOMAIN splits, PruneTick(id) PROVE FateKept
    BY <1>0, <1>5, PruneTickFate
<1>6. CASE UNCHANGED inboundVars
    BY <1>6, UntouchedFate DEF inboundVars, sessionVars, handlerVars, historyVars
<1> QED BY <1>1, <1>2, <1>3, <1>4, <1>5, <1>6 DEF InboundNext

\* What the application is given are whole messages, and every packet is
\* accounted for, in every state.
LEMMA FateHolds == InboundSpec => [](WholeInv /\ FateInv /\ NoSilentSkip)
BY FateStarts, FateSteps, InboundInvHolds, PTL DEF InboundSpec

\* The application is given whole messages, all parts of each in their order,
\* for every conversation of a peer that numbers as the code does.
THEOREM WholeMessagesHolds == InboundSpec => []WholeMessages
<1>1. WholeInv => WholeMessages
    <2> SUFFICES ASSUME WholeInv, NEW i \in DOMAIN delivered PROVE Intact(delivered[i].payload)
        BY DEF WholeMessages
    <2>1. delivered[i] \in Whole
        BY ElementOfSeq, LenProperties DEF WholeInv
    <2> QED BY <2>1 DEF Whole
<1> QED BY <1>1, FateHolds, PTL

\* What a datagram handled to its end carried has been handed over or is kept,
\* or one of the steps that record it in lost has dropped it.
THEOREM NothingVanishesHolds == InboundSpec => []NothingVanishes
<1>1. FateInv => NothingVanishes
    BY DEF FateInv
<1> QED BY <1>1, FateHolds, PTL

\* The read index of a channel passes an index only when its packet has been
\* handed over or dropped by a step that records it in lost.
THEOREM NoSilentSkipHolds == InboundSpec => []NoSilentSkip
BY FateHolds, PTL
=============================================================================
