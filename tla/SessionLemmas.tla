--------------------------- MODULE SessionLemmas ---------------------------
(***************************************************************************)
(* What several proofs about the session use: of wrapping numbers, of the  *)
(* least and greatest members of sets of integers, of sequences and of     *)
(* recursion along them, of sums over finite sets, and of the components   *)
(* that more than one model contains: the queue of ranges, the reliable    *)
(* tracker and the ordering channel.                                       *)
(***************************************************************************)
EXTENDS AckRanges, ReliableTracker, OrderingChannels, FiniteSetTheorems,
        WellFoundedInduction, SequenceTheorems, TLAPS

-----------------------------------------------------------------------------
(* Wrapping numbers.                                                       *)

\* The steps from one number to another are fewer than a lap (distance_to).
LEMMA DistanceType ==
    ASSUME NEW a \in SeqNum, NEW b \in SeqNum
    PROVE  SeqDistance(a, b) \in 0 .. Modulo - 1
BY ModuloAssumption DEF SeqNum, SeqDistance

\* Less than a lap ahead of a number lies a number (Add<i32>).
LEMMA AddType ==
    ASSUME NEW a \in SeqNum, NEW n \in 0 .. Modulo - 1
    PROVE  SeqAdd(a, n) \in SeqNum
BY ModuloAssumption DEF SeqNum, SeqAdd

\* next stays within the numbers: the mask of new is needed.
LEMMA NextType ==
    ASSUME NEW a \in SeqNum
    PROVE  SeqNext(a) \in SeqNum
BY ModuloAssumption DEF SeqNum, SeqNext

\* distance_to is what has to be added.
LEMMA AddDistance ==
    ASSUME NEW a \in SeqNum, NEW b \in SeqNum
    PROVE  SeqAdd(a, SeqDistance(a, b)) = b
BY ModuloAssumption DEF SeqNum, SeqAdd, SeqDistance

\* Steps add up as long as they are fewer than a lap together.
LEMMA AddAdd ==
    ASSUME NEW a \in SeqNum, NEW m \in Nat, NEW n \in Nat, m + n < Modulo
    PROVE  SeqAdd(SeqAdd(a, m), n) = SeqAdd(a, m + n)
BY ModuloAssumption DEF SeqNum, SeqAdd

\* Different offsets within a lap lead to different numbers.
LEMMA AddInjective ==
    ASSUME NEW a \in SeqNum, NEW m \in 0 .. Modulo - 1, NEW n \in 0 .. Modulo - 1,
           SeqAdd(a, m) = SeqAdd(a, n)
    PROVE  m = n
BY ModuloAssumption DEF SeqNum, SeqAdd

\* The next number is one step further, unless that completes a lap.
LEMMA DistanceNext ==
    ASSUME NEW a \in SeqNum, NEW b \in SeqNum, SeqDistance(a, b) < Modulo - 1
    PROVE  SeqDistance(a, SeqNext(b)) = SeqDistance(a, b) + 1
BY ModuloAssumption DEF SeqNum, SeqDistance, SeqNext

\* Moving the origin forward by n, not beyond b, takes n off the distance.
LEMMA DistanceShift ==
    ASSUME NEW a \in SeqNum, NEW b \in SeqNum, NEW n \in Nat, n <= SeqDistance(a, b)
    PROVE  SeqDistance(SeqAdd(a, n), b) = SeqDistance(a, b) - n
BY ModuloAssumption DEF SeqNum, SeqDistance, SeqAdd

\* Steps from a number count the distance from it.
LEMMA DistanceAdd ==
    ASSUME NEW a \in SeqNum, NEW n \in 0 .. Modulo - 1
    PROVE  SeqDistance(a, SeqAdd(a, n)) = n
BY ModuloAssumption DEF SeqNum, SeqDistance, SeqAdd

\* Two halves are a lap.
LEMMA HalfFacts == Half \in Nat /\ 2 * Half = Modulo /\ Half >= 2
BY ModuloAssumption DEF Half

\* Within half a lap of a number, cmp is the order of the offsets from it.
LEMMA OrderByOffset ==
    ASSUME NEW o \in SeqNum, NEW a \in SeqNum, NEW b \in SeqNum,
           SeqDistance(o, a) < Half, SeqDistance(o, b) < Half
    PROVE  /\ SeqGreater(a, b) <=> SeqDistance(o, a) > SeqDistance(o, b)
           /\ SeqLess(a, b) <=> SeqDistance(o, a) < SeqDistance(o, b)
           /\ SeqNext(a) = b <=> SeqDistance(o, b) = SeqDistance(o, a) + 1
           /\ a = b <=> SeqDistance(o, a) = SeqDistance(o, b)
BY HalfFacts, ModuloAssumption DEF SeqNum, SeqDistance, SeqGreater, SeqLess, SeqNext

-----------------------------------------------------------------------------
(* Least and greatest members.                                             *)

\* A nonempty set of naturals has a least member.
LEMMA LeastExists ==
    ASSUME NEW T, T \subseteq Nat, T # {}
    PROVE  \E x \in T : \A y \in T : x <= y
<1>1. PICK x \in T : \A y \in T : ~(<<y, x>> \in OpToRel(<, Nat))
    BY WFMin, NatLessThanWellFounded
<1>2. ASSUME NEW y \in T, y < x PROVE FALSE
    <2>1. <<y, x>> \in Nat \X Nat /\ <<y, x>>[1] = y /\ <<y, x>>[2] = x
        OBVIOUS
    <2>2. <<y, x>> \in OpToRel(<, Nat)
        BY <1>2, <2>1 DEF OpToRel
    <2> QED BY <1>1, <2>2
<1>3. \A y \in T : x \in Nat /\ y \in Nat
    OBVIOUS
<1> QED BY <1>2, <1>3

\* A nonempty set of integers that is bounded above has a greatest member.
LEMMA GreatestExists ==
    ASSUME NEW T, T \subseteq Int, T # {}, NEW n \in Int, \A x \in T : x <= n
    PROVE  \E x \in T : \A y \in T : x >= y
<1> DEFINE R == {i \in Nat : n - i \in T}
<1>1. R # {}
    <2>1. PICK x \in T : TRUE
        OBVIOUS
    <2>2. n - x \in Nat /\ n - (n - x) = x
        OBVIOUS
    <2> QED BY <2>1, <2>2
<1>2. PICK i \in R : \A j \in R : i <= j
    BY <1>1, LeastExists
<1>3. ASSUME NEW y \in T PROVE n - i >= y
    <2>1. n - y \in Nat /\ n - (n - y) = y
        OBVIOUS
    <2>2. n - y \in R
        BY <2>1
    <2>3. i <= n - y /\ i \in Nat /\ y \in Int
        BY <1>2, <2>2
    <2> QED BY <2>3
<1>4. n - i \in T
    OBVIOUS
<1> QED BY <1>3, <1>4

\* Min is that least member.
LEMMA MinFacts ==
    ASSUME NEW T, T \subseteq Nat, T # {}
    PROVE  Min(T) \in T /\ \A y \in T : Min(T) <= y
<1>1. \E x \in T : \A y \in T : x <= y
    BY LeastExists
<1> QED BY <1>1 DEF Min

\* Max is that greatest member.
LEMMA MaxFacts ==
    ASSUME NEW T, T \subseteq Int, T # {}, NEW n \in Int, \A x \in T : x <= n
    PROVE  Max(T) \in T /\ \A y \in T : Max(T) >= y
<1>1. \E x \in T : \A y \in T : x >= y
    BY GreatestExists
<1> QED BY <1>1 DEF Max

-----------------------------------------------------------------------------
(* Sequences.                                                              *)

\* A function on 1 .. n is a sequence of length n.
LEMMA FunctionIsSeq ==
    ASSUME NEW S, NEW n \in Nat, NEW f \in [1 .. n -> S]
    PROVE  f \in Seq(S) /\ Len(f) = n
<1>1. f = [i \in 1 .. n |-> f[i]]
    OBVIOUS
<1>2. f \in Seq(S)
    BY <1>1, IsASeq
<1>3. DOMAIN f = 1 .. Len(f) /\ Len(f) \in Nat
    BY <1>2, LenProperties
<1> QED BY <1>2, <1>3

\* A sequence over a set is one over a larger set.
LEMMA SeqMonotone ==
    ASSUME NEW S, NEW T, S \subseteq T, NEW s \in Seq(S)
    PROVE  s \in Seq(T)
<1>1. Len(s) \in Nat /\ s \in [1 .. Len(s) -> S]
    BY LenProperties
<1>2. s \in [1 .. Len(s) -> T]
    BY <1>1
<1> QED BY <1>1, <1>2, FunctionIsSeq

-----------------------------------------------------------------------------
(* Ranges of numbers in a stretch, and the queue they wait in.             *)

\* A range that does not run backwards from the origin covers the offsets
\* between its ends.
LEMMA MembersByOffset ==
    ASSUME NEW o \in SeqNum, NEW r \in SequenceRange, NEW x \in SeqNum,
           SeqDistance(o, r.start) <= SeqDistance(o, r.end)
    PROVE  x \in Members(r) <=> /\ SeqDistance(o, r.start) <= SeqDistance(o, x)
                                /\ SeqDistance(o, x) <= SeqDistance(o, r.end)
<1>1. r.start \in SeqNum /\ r.end \in SeqNum
    BY DEF SequenceRange
<1> QED BY <1>1, ModuloAssumption DEF Members, SeqNum, SeqDistance

\* A range within a stretch does not run backwards, and its ends are in it.
LEMMA RangeInStretch ==
    ASSUME NEW o \in SeqNum, NEW n \in 1 .. Half, NEW r \in SequenceRange,
           Members(r) \subseteq SeqStretch(o, n)
    PROVE  /\ SeqDistance(o, r.start) < Half
           /\ SeqDistance(o, r.end) < Half
           /\ SeqDistance(o, r.start) <= SeqDistance(o, r.end)
<1>1. r.start \in SeqNum /\ r.end \in SeqNum
    BY DEF SequenceRange
<1>2. r.start \in Members(r) /\ r.end \in Members(r)
    BY <1>1, ModuloAssumption DEF Members, SeqNum, SeqDistance
<1>3. /\ SeqDistance(o, r.start) < n /\ SeqDistance(o, r.end) < n
      /\ n <= Half /\ n \in Nat
      /\ SeqDistance(o, r.start) \in Nat /\ SeqDistance(o, r.end) \in Nat
    BY <1>1, <1>2, HalfFacts, DistanceType DEF SeqStretch
<1>4. SeqDistance(o, r.start) <= SeqDistance(o, r.end)
    <2> SUFFICES ASSUME SeqDistance(o, r.start) > SeqDistance(o, r.end) PROVE FALSE
        BY <1>3
    <2> DEFINE x == SeqPrev(o)
    <2>1. x \in SeqNum /\ SeqDistance(o, x) = Modulo - 1
        BY ModuloAssumption DEF SeqPrev, SeqNum, SeqDistance
    <2>2. x \in Members(r)
        BY <1>1, <1>3, ModuloAssumption DEF Members, SeqPrev, SeqNum, SeqDistance
    <2>3. SeqDistance(o, x) < n
        BY <2>2 DEF SeqStretch
    <2> QED BY <1>3, <2>1, <2>3, HalfFacts, ModuloAssumption
<1> QED BY <1>3, <1>4, HalfFacts

\* The numbers of a queue.
LEMMA InContents ==
    ASSUME NEW q \in Seq(SequenceRange), NEW x
    PROVE  x \in Contents(q) <=> \E i \in 1 .. Len(q) : x \in Members(q[i])
BY LenProperties DEF Contents

\* A range that covers, by distance from o, what two ranges of the stretch
\* cover has the numbers of both.
LEMMA UnionByOffset ==
    ASSUME NEW o \in SeqNum, NEW n \in 1 .. Half,
           NEW last \in SequenceRange, NEW r \in SequenceRange,
           Members(last) \subseteq SeqStretch(o, n), Members(r) \subseteq SeqStretch(o, n),
           NEW s \in SeqNum, NEW e \in SeqNum, SeqDistance(o, s) <= SeqDistance(o, e),
           \A x \in SeqNum :
              /\ SeqDistance(o, s) <= SeqDistance(o, x)
              /\ SeqDistance(o, x) <= SeqDistance(o, e)
              <=> \/ /\ SeqDistance(o, last.start) <= SeqDistance(o, x)
                     /\ SeqDistance(o, x) <= SeqDistance(o, last.end)
                  \/ /\ SeqDistance(o, r.start) <= SeqDistance(o, x)
                     /\ SeqDistance(o, x) <= SeqDistance(o, r.end)
    PROVE  Members([start |-> s, end |-> e]) = Members(last) \cup Members(r)
<1> DEFINE Off(x) == SeqDistance(o, x)
<1>1. /\ last.start \in SeqNum /\ last.end \in SeqNum /\ r.start \in SeqNum /\ r.end \in SeqNum
      /\ last = [start |-> last.start, end |-> last.end]
    BY DEF SequenceRange
<1>2. /\ Off(last.start) < Half /\ Off(last.end) < Half /\ Off(last.start) <= Off(last.end)
      /\ Off(r.start) < Half /\ Off(r.end) < Half /\ Off(r.start) <= Off(r.end)
    BY RangeInStretch
<1>3. \A x \in SeqNum : Off(x) \in Nat
    BY DistanceType
<1>4. Members([start |-> s, end |-> e]) = Members(last) \cup Members(r)
    <2> DEFINE m == [start |-> s, end |-> e]
    <2>1. m \in SequenceRange /\ m.start = s /\ m.end = e
        BY DEF SequenceRange
    <2>2. \A x \in SeqNum : x \in Members(m) <=> Off(s) <= Off(x) /\ Off(x) <= Off(e)
        BY <2>1, MembersByOffset
    <2>3. \A x \in SeqNum :
            /\ x \in Members(last) <=> Off(last.start) <= Off(x) /\ Off(x) <= Off(last.end)
            /\ x \in Members(r) <=> Off(r.start) <= Off(x) /\ Off(x) <= Off(r.end)
        BY <1>1, <1>2, MembersByOffset
    <2>4. Members(m) \subseteq SeqNum /\ Members(last) \subseteq SeqNum /\ Members(r) \subseteq SeqNum
        BY DEF Members
    <2> HIDE DEF m
    <2>5. Members(m) = Members(last) \cup Members(r)
        BY <2>2, <2>3, <2>4
    <2> QED BY <2>5 DEF m
<1> QED BY <1>4

\* The first merge of push, of adjacent ranges, gives the union.
LEMMA MergeAdjacentExact ==
    ASSUME NEW o \in SeqNum, NEW n \in 1 .. Half,
           NEW last \in SequenceRange, NEW r \in SequenceRange,
           Members(last) \subseteq SeqStretch(o, n), Members(r) \subseteq SeqStretch(o, n),
           Adjacent(last, r)
    PROVE  /\ [start |-> last.start, end |-> r.end] \in SequenceRange
           /\ Members([start |-> last.start, end |-> r.end]) = Members(last) \cup Members(r)
<1> DEFINE Off(x) == SeqDistance(o, x)
<1>1. /\ last.start \in SeqNum /\ last.end \in SeqNum /\ r.start \in SeqNum /\ r.end \in SeqNum
      /\ last = [start |-> last.start, end |-> last.end]
    BY DEF SequenceRange
<1>2. /\ Off(last.start) < Half /\ Off(last.end) < Half /\ Off(last.start) <= Off(last.end)
      /\ Off(r.start) < Half /\ Off(r.end) < Half /\ Off(r.start) <= Off(r.end)
    BY RangeInStretch
<1>3. \A x \in SeqNum : Off(x) \in Nat
    BY DistanceType
<1>4. Off(r.start) = Off(last.end) + 1
    BY <1>1, <1>2, OrderByOffset DEF Adjacent
<1>5. Off(last.start) <= Off(r.end)
    BY <1>1, <1>2, <1>3, <1>4
<1>6. \A x \in SeqNum : /\ Off(last.start) <= Off(x)
                        /\ Off(x) <= Off(r.end)
                        <=> \/ Off(last.start) <= Off(x) /\ Off(x) <= Off(last.end)
                            \/ Off(r.start) <= Off(x) /\ Off(x) <= Off(r.end)
    <2> HIDE DEF Off
    <2> QED BY <1>1, <1>2, <1>3, <1>4
<1>7. Members([start |-> last.start, end |-> r.end]) = Members(last) \cup Members(r)
    BY <1>1, <1>5, <1>6, UnionByOffset
<1> QED BY <1>1, <1>7 DEF SequenceRange

\* The second merge of push, of overlapping ranges, gives the union.
LEMMA MergeOverlapExact ==
    ASSUME NEW o \in SeqNum, NEW n \in 1 .. Half,
           NEW last \in SequenceRange, NEW r \in SequenceRange,
           Members(last) \subseteq SeqStretch(o, n), Members(r) \subseteq SeqStretch(o, n),
           Overlaps(last, r)
    PROVE  /\ MergeRanges(last, r) \in SequenceRange
           /\ Members(MergeRanges(last, r)) = Members(last) \cup Members(r)
<1> DEFINE Off(x) == SeqDistance(o, x)
           s == SeqMin(last.start, r.start)
           e == SeqMax(last.end, r.end)
<1>1. /\ last.start \in SeqNum /\ last.end \in SeqNum /\ r.start \in SeqNum /\ r.end \in SeqNum
      /\ last = [start |-> last.start, end |-> last.end]
    BY DEF SequenceRange
<1>2. /\ Off(last.start) < Half /\ Off(last.end) < Half /\ Off(last.start) <= Off(last.end)
      /\ Off(r.start) < Half /\ Off(r.end) < Half /\ Off(r.start) <= Off(r.end)
    BY RangeInStretch
<1>3. \A x \in SeqNum : Off(x) \in Nat
    BY DistanceType
<1>4. /\ s = IF Off(last.start) > Off(r.start) THEN r.start ELSE last.start
      /\ e = IF Off(last.end) > Off(r.end) THEN last.end ELSE r.end
    BY <1>1, <1>2, OrderByOffset DEF SeqMin, SeqMax
<1>5. Off(last.end) >= Off(r.start) /\ Off(r.end) >= Off(last.start)
    BY <1>1, <1>2, <1>3, OrderByOffset DEF Overlaps
<1> HIDE DEF s, e
<1>6. /\ s \in SeqNum /\ e \in SeqNum /\ Off(s) <= Off(e)
      /\ \A x \in SeqNum : /\ Off(s) <= Off(x)
                           /\ Off(x) <= Off(e)
                           <=> \/ Off(last.start) <= Off(x) /\ Off(x) <= Off(last.end)
                               \/ Off(r.start) <= Off(x) /\ Off(x) <= Off(r.end)
    <2> HIDE DEF Off
    <2> QED BY <1>1, <1>2, <1>3, <1>4, <1>5
<1>7. Members([start |-> s, end |-> e]) = Members(last) \cup Members(r)
    BY <1>6, UnionByOffset
<1>8. MergeRanges(last, r) = [start |-> s, end |-> e]
    BY DEF MergeRanges, s, e
<1> QED BY <1>6, <1>7, <1>8 DEF SequenceRange

\* Replacing the last range by the union of it and r adds the numbers of r.
LEMMA ReplaceBackExact ==
    ASSUME NEW q \in Seq(SequenceRange), q # <<>>, NEW r, NEW m \in SequenceRange,
           Members(m) = Members(Last(q)) \cup Members(r)
    PROVE  /\ ReplaceBack(q, m) \in Seq(SequenceRange)
           /\ Contents(ReplaceBack(q, m)) = Contents(q) \cup Members(r)
<1> DEFINE len == Len(q)
           new == ReplaceBack(q, m)
<1>1. len \in Nat /\ len >= 1 /\ q \in [1 .. len -> SequenceRange]
    BY LenProperties, EmptySeq
<1>2. new \in [1 .. len -> SequenceRange] /\ new[len] = m
      /\ \A i \in 1 .. len : i # len => new[i] = q[i]
    <2>1. new = [q EXCEPT ![len] = m] /\ len \in 1 .. len
        BY <1>1 DEF ReplaceBack
    <2> HIDE DEF new, len
    <2>2. DOMAIN q = 1 .. len /\ \A i \in 1 .. len : q[i] \in SequenceRange
        BY <1>1
    <2>3. new = [i \in 1 .. len |-> IF i = len THEN m ELSE q[i]]
        BY <2>1, <2>2
    <2> QED BY <2>1, <2>2, <2>3
<1>3. new \in Seq(SequenceRange) /\ Len(new) = len
    BY <1>1, <1>2, FunctionIsSeq
<1>4. len \in 1 .. len /\ Last(q) = q[len]
    BY <1>1 DEF Last
<1> HIDE DEF new, len
<1>5. \A x : x \in Contents(new) <=> \E i \in 1 .. len : x \in Members(new[i])
    BY <1>3, InContents
<1>6. \A x : x \in Contents(q) <=> \E i \in 1 .. len : x \in Members(q[i])
    BY InContents DEF len
<1>7. ASSUME NEW x PROVE x \in Contents(new) <=> x \in Contents(q) \cup Members(r)
    BY <1>2, <1>4, <1>5, <1>6
<1> QED BY <1>3, <1>7 DEF new

\* Appending a range adds its numbers.
LEMMA AppendExact ==
    ASSUME NEW q \in Seq(SequenceRange), NEW r \in SequenceRange
    PROVE  /\ Append(q, r) \in Seq(SequenceRange)
           /\ Contents(Append(q, r)) = Contents(q) \cup Members(r)
<1> DEFINE len == Len(q)
           new == Append(q, r)
<1>1. /\ new \in Seq(SequenceRange) /\ Len(new) = len + 1
      /\ \A i \in 1 .. len : new[i] = q[i]
      /\ new[len + 1] = r
    BY AppendProperties
<1>2. /\ len \in Nat /\ len + 1 \in 1 .. len + 1
      /\ \A i \in 1 .. len : i \in 1 .. len + 1
      /\ \A i \in 1 .. len + 1 : i \in 1 .. len \/ i = len + 1
    BY LenProperties
<1> HIDE DEF new, len
<1>3. \A x : x \in Contents(new) <=> \E i \in 1 .. len + 1 : x \in Members(new[i])
    BY <1>1, InContents
<1>4. \A x : x \in Contents(q) <=> \E i \in 1 .. len : x \in Members(q[i])
    BY InContents DEF len
<1>5. ASSUME NEW x PROVE x \in Contents(new) <=> x \in Contents(q) \cup Members(r)
    BY <1>1, <1>2, <1>3, <1>4
<1> QED BY <1>1, <1>5 DEF new

\* push, but for the split of a wrapping range: a full queue stays as it is,
\* any other gains the numbers of the range and no more.
LEMMA PushPlainExact ==
    ASSUME NEW o \in SeqNum, NEW n \in 1 .. Half, NEW q \in Seq(SequenceRange),
           NEW r \in SequenceRange, NEW max,
           Contents(q) \subseteq SeqStretch(o, n), Members(r) \subseteq SeqStretch(o, n)
    PROVE  /\ PushPlain(q, r, max) \in Seq(SequenceRange)
           /\ Contents(PushPlain(q, r, max)) =
                IF Len(q) >= max THEN Contents(q) ELSE Contents(q) \cup Members(r)
<1>1. CASE Len(q) >= max
    BY <1>1 DEF PushPlain
<1>2. CASE ~(Len(q) >= max) /\ q # <<>>
    <2>1. Len(q) \in 1 .. Len(q) /\ Last(q) = q[Len(q)] /\ Last(q) \in SequenceRange
        BY <1>2, LenProperties, EmptySeq, ElementOfSeq DEF Last
    <2>2. Members(Last(q)) \subseteq SeqStretch(o, n)
        BY <2>1, InContents
    <2> DEFINE last == Last(q)
    <2>3. last \in SequenceRange /\ Members(last) \subseteq SeqStretch(o, n)
        BY <2>1, <2>2
    <2> HIDE DEF last
    <2>4. CASE Adjacent(last, r)
        <3>0. [last EXCEPT !.end = r.end] = [start |-> last.start, end |-> r.end]
            BY <2>3 DEF SequenceRange
        <3>1. /\ [start |-> last.start, end |-> r.end] \in SequenceRange
              /\ Members([start |-> last.start, end |-> r.end]) = Members(last) \cup Members(r)
            BY <2>3, <2>4, MergeAdjacentExact
        <3>2. PushPlain(q, r, max) = ReplaceBack(q, [start |-> last.start, end |-> r.end])
            BY <1>2, <2>4, <3>0 DEF PushPlain, last
        <3> QED BY <1>2, <3>1, <3>2, ReplaceBackExact DEF last
    <2>5. CASE ~Adjacent(last, r) /\ Overlaps(last, r)
        <3>1. /\ MergeRanges(last, r) \in SequenceRange
              /\ Members(MergeRanges(last, r)) = Members(last) \cup Members(r)
            BY <2>3, <2>5, MergeOverlapExact
        <3>2. PushPlain(q, r, max) = ReplaceBack(q, MergeRanges(last, r))
            BY <1>2, <2>5 DEF PushPlain, last
        <3> QED BY <1>2, <3>1, <3>2, ReplaceBackExact DEF last
    <2>6. CASE ~Adjacent(last, r) /\ ~Overlaps(last, r)
        <3>1. PushPlain(q, r, max) = Append(q, r)
            BY <1>2, <2>6 DEF PushPlain, last
        <3> QED BY <1>2, <3>1, AppendExact
    <2> QED BY <2>4, <2>5, <2>6
<1>3. CASE ~(Len(q) >= max) /\ q = <<>>
    <2>1. PushPlain(q, r, max) = Append(q, r)
        BY <1>3 DEF PushPlain
    <2> QED BY <1>3, <2>1, AppendExact
<1> QED BY <1>1, <1>2, <1>3

\* split_wrapping: the tail and the head are the range, and have nothing in
\* common.
LEMMA SplitExact ==
    ASSUME NEW r \in SequenceRange, Wraps(r)
    PROVE  /\ WrapTail(r) \in SequenceRange /\ WrapHead(r) \in SequenceRange
           /\ Members(r) = Members(WrapTail(r)) \cup Members(WrapHead(r))
           /\ Members(WrapTail(r)) \cap Members(WrapHead(r)) = {}
<1>1. /\ r.start \in SeqNum /\ r.end \in SeqNum
      /\ r = [start |-> r.start, end |-> r.end]
    BY DEF SequenceRange
<1>2. WrapTail(r) = [start |-> r.start, end |-> Modulo - 1]
      /\ WrapHead(r) = [start |-> 0, end |-> r.end]
    BY <1>1 DEF WrapTail, WrapHead
<1>3. WrapTail(r) \in SequenceRange /\ WrapHead(r) \in SequenceRange
    BY <1>1, <1>2, ModuloAssumption DEF SequenceRange, SeqNum
<1>4. ASSUME NEW x \in SeqNum
      PROVE  /\ x \in Members(WrapTail(r)) <=> x >= r.start
             /\ x \in Members(WrapHead(r)) <=> x <= r.end
             /\ x \in Members(r) <=> x >= r.start \/ x <= r.end
    BY <1>1, <1>2, ModuloAssumption DEF Members, SeqNum, SeqDistance, Wraps
<1>5. Members(r) \subseteq SeqNum /\ Members(WrapTail(r)) \subseteq SeqNum
      /\ Members(WrapHead(r)) \subseteq SeqNum
    BY DEF Members
<1>6. \A x \in SeqNum : ~(x >= r.start /\ x <= r.end)
    BY <1>1 DEF Wraps, SeqNum
<1> QED BY <1>3, <1>4, <1>5, <1>6

\* push keeps the queue one of ranges, whatever they are.
LEMMA PushTyped ==
    ASSUME NEW q \in Seq(SequenceRange), NEW r \in SequenceRange, NEW max
    PROVE  Push(q, r, max) \in Seq(SequenceRange)
<1>1. ASSUME NEW u \in Seq(SequenceRange), NEW x \in SequenceRange
      PROVE  PushPlain(u, x, max) \in Seq(SequenceRange)
    <2>1. Append(u, x) \in Seq(SequenceRange)
        BY AppendProperties
    <2>2. ASSUME u # <<>>
          PROVE  /\ ReplaceBack(u, [Last(u) EXCEPT !.end = x.end]) \in Seq(SequenceRange)
                 /\ ReplaceBack(u, MergeRanges(Last(u), x)) \in Seq(SequenceRange)
        <3>1. Len(u) \in 1 .. Len(u) /\ Last(u) = u[Len(u)] /\ Last(u) \in SequenceRange
            BY <2>2, LenProperties, EmptySeq, ElementOfSeq DEF Last
        <3>2. PICK y, z : y = [Last(u) EXCEPT !.end = x.end] /\ z = MergeRanges(Last(u), x)
            OBVIOUS
        <3>3. y \in SequenceRange
            BY <3>1, <3>2 DEF SequenceRange
        <3>4. z \in SequenceRange
            BY <3>1, <3>2 DEF SequenceRange, MergeRanges, SeqMin, SeqMax
        <3>5. ReplaceBack(u, y) \in Seq(SequenceRange) /\ ReplaceBack(u, z) \in Seq(SequenceRange)
            BY <3>1, <3>3, <3>4, ExceptSeq DEF ReplaceBack
        <3> QED BY <3>2, <3>5
    <2> QED BY <2>1, <2>2 DEF PushPlain
<1>2. Wraps(r) => WrapTail(r) \in SequenceRange /\ WrapHead(r) \in SequenceRange
    BY SplitExact
<1>3. CASE Push(q, r, max) = PushPlain(q, r, max)
    BY <1>1, <1>3
<1>4. CASE /\ Wraps(r)
           /\ Push(q, r, max) = PushPlain(PushPlain(q, WrapTail(r), max), WrapHead(r), max)
    <2>1. PushPlain(q, WrapTail(r), max) \in Seq(SequenceRange)
        BY <1>1, <1>2, <1>4
    <2> QED BY <2>1, <1>1, <1>2, <1>4
<1> QED BY <1>3, <1>4 DEF Push

\* push of a range that lies with the queue within half a lap adds numbers of
\* that range only.
LEMMA PushSound ==
    ASSUME NEW o \in SeqNum, NEW n \in 1 .. Half, NEW q \in Seq(SequenceRange),
           NEW r \in SequenceRange, NEW max,
           Contents(q) \subseteq SeqStretch(o, n), Members(r) \subseteq SeqStretch(o, n)
    PROVE  Contents(Push(q, r, max)) \subseteq Contents(q) \cup Members(r)
<1>1. CASE Push(q, r, max) = PushPlain(q, r, max)
    BY <1>1, PushPlainExact
<1>2. CASE /\ Wraps(r)
           /\ Push(q, r, max) = PushPlain(PushPlain(q, WrapTail(r), max), WrapHead(r), max)
    <2>1. PICK f, t, h : f = PushPlain(q, t, max) /\ t = WrapTail(r) /\ h = WrapHead(r)
        OBVIOUS
    <2>2. t \in SequenceRange /\ h \in SequenceRange /\ Members(r) = Members(t) \cup Members(h)
        BY <1>2, <2>1, SplitExact
    <2>3. f \in Seq(SequenceRange) /\ Contents(f) \subseteq Contents(q) \cup Members(t)
        BY <2>1, <2>2, PushPlainExact
    <2>4. Contents(f) \subseteq SeqStretch(o, n) /\ Members(h) \subseteq SeqStretch(o, n)
        BY <2>2, <2>3
    <2>5. Contents(PushPlain(f, h, max)) \subseteq Contents(f) \cup Members(h)
        BY <2>2, <2>3, <2>4, PushPlainExact
    <2> QED BY <1>2, <2>1, <2>2, <2>3, <2>5
<1> QED BY <1>1, <1>2 DEF Push

\* With room for two more ranges a push takes all numbers in, and takes no more
\* room than that.
LEMMA PushCovers ==
    ASSUME NEW o \in SeqNum, NEW n \in 1 .. Half, NEW q \in Seq(SequenceRange),
           NEW r \in SequenceRange, NEW max \in Nat, Len(q) + 2 <= max,
           Contents(q) \subseteq SeqStretch(o, n), Members(r) \subseteq SeqStretch(o, n)
    PROVE  /\ Contents(q) \cup Members(r) \subseteq Contents(Push(q, r, max))
           /\ Len(Push(q, r, max)) <= Len(q) + 2
<1>0. Len(q) \in Nat
    BY LenProperties
<1>1. ASSUME NEW u \in Seq(SequenceRange), NEW x \in SequenceRange
      PROVE  Len(PushPlain(u, x, max)) \in {Len(u), Len(u) + 1}
    <2>1. Len(Append(u, x)) = Len(u) + 1
        BY AppendProperties
    <2>2. ASSUME NEW y PROVE Len(ReplaceBack(u, y)) = Len(u)
        <3>1. PICK v : v = ReplaceBack(u, y)
            OBVIOUS
        <3>2. DOMAIN v = 1 .. Len(u) /\ Len(u) \in Nat /\ v = [i \in 1 .. Len(u) |-> v[i]]
            BY <3>1, LenProperties DEF ReplaceBack
        <3>3. PICK T : T = {v[i] : i \in 1 .. Len(u)}
            OBVIOUS
        <3>4. v \in [1 .. Len(u) -> T]
            BY <3>2, <3>3
        <3> QED BY <3>1, <3>2, <3>4, FunctionIsSeq
    <2> QED BY <2>1, <2>2 DEF PushPlain
<1>2. CASE Push(q, r, max) = PushPlain(q, r, max)
    <2>1. Contents(PushPlain(q, r, max)) = Contents(q) \cup Members(r)
        <3>1. ~(Len(q) >= max)
            BY <1>0
        <3> QED BY <3>1, PushPlainExact
    <2>2. Len(PushPlain(q, r, max)) <= Len(q) + 2
        BY <1>0, <1>1
    <2> QED BY <1>2, <2>1, <2>2
<1>3. CASE /\ Wraps(r)
           /\ Push(q, r, max) = PushPlain(PushPlain(q, WrapTail(r), max), WrapHead(r), max)
    <2>1. PICK f, t, h : f = PushPlain(q, t, max) /\ t = WrapTail(r) /\ h = WrapHead(r)
        OBVIOUS
    <2>2. t \in SequenceRange /\ h \in SequenceRange /\ Members(r) = Members(t) \cup Members(h)
        BY <1>3, <2>1, SplitExact
    <2>3. Members(t) \subseteq SeqStretch(o, n) /\ Members(h) \subseteq SeqStretch(o, n)
        BY <2>2
    <2>4. f \in Seq(SequenceRange) /\ Contents(f) = Contents(q) \cup Members(t)
        <3>1. ~(Len(q) >= max)
            BY <1>0
        <3> QED BY <2>1, <2>2, <2>3, <3>1, PushPlainExact
    <2>5. Len(f) \in {Len(q), Len(q) + 1}
        BY <1>1, <2>1, <2>2
    <2>6. Contents(PushPlain(f, h, max)) = Contents(f) \cup Members(h)
        <3>1. ~(Len(f) >= max)
            BY <1>0, <2>5
        <3>2. Contents(f) \subseteq SeqStretch(o, n)
            BY <2>3, <2>4
        <3> QED BY <2>2, <2>3, <2>4, <3>1, <3>2, PushPlainExact
    <2>7. Len(PushPlain(f, h, max)) \in {Len(f), Len(f) + 1}
        BY <1>1, <2>2, <2>4
    <2>8. Len(PushPlain(f, h, max)) <= Len(q) + 2
        BY <1>0, <2>5, <2>7
    <2> QED BY <1>3, <2>1, <2>2, <2>4, <2>6, <2>8
<1> QED BY <1>2, <1>3 DEF Push

\* pop_for_mtu takes a number of ranges that are there.
LEMMA PopCountType ==
    ASSUME NEW q, Len(q) \in Nat, NEW mtu, NEW base
    PROVE  PopCount(q, mtu, base) \in 0 .. Len(q)
<1> DEFINE Used(k) == FoldLeft(LAMBDA sum, r : sum + EncodedSize(r), base, SubSeq(q, 1, k))
           Fits(k) == \A j \in 2 .. k : Used(j) <= mtu
           T == {k \in 0 .. Len(q) : Fits(k)}
<1>1. PopCount(q, mtu, base) = Max(T)
    BY DEF PopCount
<1> HIDE DEF Used
<1>2. 0 \in T
    OBVIOUS
<1>3. T \subseteq 0 .. Len(q)
    OBVIOUS
<1> HIDE DEF T
<1>4. T \subseteq Int /\ T # {} /\ Len(q) \in Int /\ \A x \in T : x <= Len(q)
    BY <1>2, <1>3
<1>5. Max(T) \in T
    BY <1>4, MaxFacts, Zenon
<1> QED BY <1>1, <1>3, <1>5

\* The ranges that leave and those that stay are the queue.
LEMMA PopExact ==
    ASSUME NEW q \in Seq(SequenceRange), NEW n \in 0 .. Len(q)
    PROVE  /\ SubSeq(q, n + 1, Len(q)) \in Seq(SequenceRange)
           /\ Contents(q) = Contents(SubSeq(q, 1, n)) \cup Contents(SubSeq(q, n + 1, Len(q)))
<1> DEFINE len == Len(q)
           left == SubSeq(q, 1, n)
           rest == SubSeq(q, n + 1, len)
<1>1. len \in Nat /\ n \in Nat /\ n <= len /\ \A i \in 1 .. len : q[i] \in SequenceRange
    BY LenProperties, ElementOfSeq
<1>2. /\ left \in Seq(SequenceRange) /\ Len(left) = n
      /\ \A i \in 1 .. n : left[i] = q[i]
    BY <1>1, SubSeqProperties
<1>3. /\ rest \in Seq(SequenceRange) /\ Len(rest) = len - n
      /\ \A i \in 1 .. len - n : rest[i] = q[n + i]
    BY <1>1, SubSeqProperties
<1> HIDE DEF len, left, rest
<1>4. \A x : x \in Contents(q) <=> \E i \in 1 .. len : x \in Members(q[i])
    BY InContents DEF len
<1>5. \A x : x \in Contents(left) <=> \E i \in 1 .. n : x \in Members(q[i])
    BY <1>2, InContents
<1>6. \A x : x \in Contents(rest) <=> \E i \in 1 .. len - n : x \in Members(q[n + i])
    BY <1>3, InContents
<1>7. \A i \in 1 .. len : i \in 1 .. n \/ (i - n \in 1 .. len - n /\ n + (i - n) = i)
    BY <1>1
<1>8. (\A i \in 1 .. n : i \in 1 .. len) /\ \A i \in 1 .. len - n : n + i \in 1 .. len
    BY <1>1
<1>9. ASSUME NEW x PROVE x \in Contents(q) <=> x \in Contents(left) \/ x \in Contents(rest)
    BY <1>4, <1>5, <1>6, <1>7, <1>8
<1> QED BY <1>3, <1>9 DEF left, rest, len

-----------------------------------------------------------------------------
(* Recursion along a sequence: the induction the definitions by recursive  *)
(* functions call for, stated of sets.                                     *)

\* What holds at first and is kept by each step holds throughout.
LEMMA StepInduction ==
    ASSUME NEW D, NEW n \in Nat, NEW f, f[0] \in D,
           \A k \in 1 .. n : f[k - 1] \in D => f[k] \in D
    PROVE  \A k \in 0 .. n : f[k] \in D
<1> DEFINE Bad == {j \in 0 .. n : f[j] \notin D}
<1> SUFFICES ASSUME Bad # {} PROVE FALSE
    OBVIOUS
<1>1. Bad \subseteq Nat
    OBVIOUS
<1>2. PICK j \in Bad : \A i \in Bad : j <= i
    BY <1>1, LeastExists
<1>3. j \in 1 .. n /\ j - 1 \in 0 .. n /\ j - 1 < j
    OBVIOUS
<1>4. j - 1 \notin Bad
    BY <1>2, <1>3
<1> QED BY <1>3, <1>4

\* h is what op makes of base and the members of seq, taken one after another.
IsFold(h, op, base, seq) ==
    h = [k \in 0 .. Len(seq) |-> IF k = 0 THEN base ELSE op[h[k - 1]][seq[k]]]

\* Such an h exists: a recursive definition along a sequence has a solution.
LEMMA FoldExists ==
    ASSUME NEW D, NEW A, NEW op \in [D -> [A -> D]], NEW base \in D, NEW seq \in Seq(A)
    PROVE  \E h \in [0 .. Len(seq) -> D] : IsFold(h, op, base, seq)
<1> DEFINE n == Len(seq)
           Run(h, j) == /\ h[0] = base
                        /\ \A k \in 1 .. j : h[k] = op[h[k - 1]][seq[k]]
           Can(j) == \E h \in [0 .. n -> D] : Run(h, j)
<1>n. n \in Nat
    BY LenProperties
<1>e. \A k \in 1 .. n : seq[k] \in A
    BY ElementOfSeq
<1> HIDE DEF n
<1>1. Can(0)
    <2>1. [k \in 0 .. n |-> base] \in [0 .. n -> D] /\ Run([k \in 0 .. n |-> base], 0)
        BY <1>n
    <2> QED BY <2>1
<1>2. ASSUME NEW j \in 0 .. n, j # n, NEW h \in [0 .. n -> D], Run(h, j)
      PROVE  Can(j + 1)
    <2> DEFINE g == [h EXCEPT ![j + 1] = op[h[j]][seq[j + 1]]]
    <2>1. h[j] \in D /\ seq[j + 1] \in A
        BY <1>2, <1>n, <1>e
    <2>2. op[h[j]][seq[j + 1]] \in D
        BY <2>1
    <2>3. g \in [0 .. n -> D]
        BY <2>2
    <2>4. g[0] = base
        BY <1>2, <1>n
    <2>5. ASSUME NEW k \in 1 .. j + 1 PROVE g[k] = op[g[k - 1]][seq[k]]
        <3>1. CASE k = j + 1
            BY <3>1, <1>2, <1>n
        <3>2. CASE k # j + 1
            BY <3>2, <1>2, <1>n
        <3> QED BY <3>1, <3>2
    <2>6. Run(g, j + 1)
        BY <2>4, <2>5
    <2> QED BY <2>3, <2>6
<1>3. Can(n)
    <2> SUFFICES ASSUME ~Can(n) PROVE FALSE
        OBVIOUS
    <2> HIDE DEF Can
    <2> DEFINE Bad == {j \in 0 .. n : ~Can(j)}
    <2>1. Bad \subseteq Nat /\ n \in Bad
        <3>1. n \in 0 .. n
            BY <1>n
        <3> QED BY <3>1, <1>n
    <2>2. PICK j \in Bad : \A i \in Bad : j <= i
        BY <2>1, LeastExists
    <2>3. j \in 0 .. n /\ ~Can(j) /\ j # 0
        BY <1>1
    <2>4. j - 1 \in 0 .. n /\ j - 1 # n /\ j - 1 < j /\ (j - 1) + 1 = j
        BY <2>3, <1>n
    <2>5. j - 1 \notin Bad
        BY <2>2, <2>3, <2>4, <1>n
    <2>6. Can(j - 1)
        BY <2>4, <2>5
    <2>7. Can((j - 1) + 1)
        BY <2>4, <2>6, <1>2 DEF Can
    <2> QED BY <2>3, <2>4, <2>7
<1>4. PICK h \in [0 .. n -> D] : Run(h, n)
    BY <1>3
<1>5. h = [k \in 0 .. n |-> IF k = 0 THEN base ELSE op[h[k - 1]][seq[k]]]
    BY <1>4, <1>n
<1> QED BY <1>4, <1>5 DEF n, IsFold

\* f is what the first members of q, joined, are.
JoinsUp(f, S, q) ==
    /\ f[0] = <<>>
    /\ \A k \in 0 .. Len(q) : f[k] \in Seq(S)
    /\ \A k \in 1 .. Len(q) : f[k] = f[k - 1] \o q[k]

\* FlattenSeq joins one member after the other.
LEMMA FlattenFold ==
    ASSUME NEW S, NEW q \in Seq(Seq(S))
    PROVE  \E f : JoinsUp(f, S, q) /\ FlattenSeq(q) = f[Len(q)]
<1> DEFINE n == Len(q)
           flatten == CHOOSE g : g = [i \in 1 .. n |-> IF i = 1 THEN q[i] ELSE g[i - 1] \o q[i]]
<1>1. n \in Nat /\ \A i \in 1 .. n : q[i] \in Seq(S)
    BY LenProperties, ElementOfSeq
<1>2. CASE n = 0
    <2>1. FlattenSeq(q) = q /\ q = <<>>
        BY <1>2, EmptySeq DEF FlattenSeq
    <2>2. PICK f : f = [k \in 0 .. 0 |-> <<>>]
        OBVIOUS
    <2>3. <<>> \in Seq(S)
        BY EmptySeq
    <2>4. Len(q) = 0
        BY <1>2
    <2>5. f[0] = <<>> /\ (\A k \in 0 .. 0 : f[k] \in Seq(S)) /\ \A k \in 1 .. 0 : f[k] = f[k - 1] \o q[k]
        BY <2>2, <2>3
    <2> QED BY <2>1, <2>4, <2>5 DEF JoinsUp
<1>3. CASE n # 0
    <2>1. FlattenSeq(q) = flatten[n]
        BY <1>3 DEF FlattenSeq
    <2> DEFINE D == Seq(S)
    <2>2. PICK op, e : op = [x \in D |-> [y \in D |-> x \o y]] /\ e = <<>>
        OBVIOUS
    <2>3. \A x, y \in D : x \o y \in D
        BY ConcatProperties
    <2>4. e \in D /\ \A x \in D : e \o x = x
        BY <2>2, EmptySeq, ConcatEmptySeq
    <2> HIDE DEF D
    <2>5. op \in [D -> [D -> D]] /\ q \in Seq(D)
        BY <2>2, <2>3 DEF D
    <2>6. PICK h \in [0 .. n -> D] : IsFold(h, op, e, q)
        BY <2>4, <2>5, FoldExists
    <2>7. h[0] = e /\ \A k \in 1 .. n : h[k] = h[k - 1] \o q[k]
        <3>1. h = [k \in 0 .. n |-> IF k = 0 THEN e ELSE op[h[k - 1]][q[k]]]
            BY <2>6 DEF IsFold
        <3> HIDE DEF n
        <3>2. h[0] = e /\ \A k \in 1 .. n : h[k] = op[h[k - 1]][q[k]]
            <4>1. 0 \in 0 .. n /\ \A k \in 1 .. n : k \in 0 .. n /\ k # 0
                BY <1>1
            <4>2. h[0] = e
                BY <3>1, <4>1
            <4>3. \A k \in 1 .. n : h[k] = op[h[k - 1]][q[k]]
                BY <3>1, <4>1
            <4> QED BY <4>2, <4>3
        <3>3. \A k \in 1 .. n : h[k - 1] \in D /\ q[k] \in D
            BY <1>1 DEF D
        <3> QED BY <2>2, <3>2, <3>3
    <2>8. PICK g : g = [i \in 1 .. n |-> h[i]]
        OBVIOUS
    <2>9. g = [i \in 1 .. n |-> IF i = 1 THEN q[i] ELSE g[i - 1] \o q[i]]
        <3> HIDE DEF n
        <3>1. ASSUME NEW i \in 1 .. n, i = 1 PROVE g[i] = q[i]
            <4>1. q[i] \in D /\ h[i] = h[i - 1] \o q[i]
                BY <1>1, <2>7 DEF D
            <4>2. i - 1 = 0
                BY <3>1
            <4>3. h[i] = q[i]
                BY <4>1, <4>2, <2>4, <2>7
            <4> QED BY <4>3, <2>8
        <3>2. ASSUME NEW i \in 1 .. n, i # 1 PROVE g[i] = g[i - 1] \o q[i]
            <4>1. i - 1 \in 1 .. n
                BY <3>2, <1>1
            <4>2. g[i] = h[i] /\ g[i - 1] = h[i - 1]
                BY <4>1, <2>8
            <4> QED BY <4>2, <2>7
        <3> QED BY <2>8, <3>1, <3>2
    <2>10. flatten = [i \in 1 .. n |-> IF i = 1 THEN q[i] ELSE flatten[i - 1] \o q[i]]
        BY <2>9
    <2> HIDE DEF flatten, n
    <2>11. PICK f : f = [i \in 0 .. n |-> IF i = 0 THEN e ELSE flatten[i]]
        OBVIOUS
    <2>12. ASSUME NEW k \in 1 .. n PROVE f[k] = f[k - 1] \o q[k]
        <3>1. q[k] \in D /\ f[k] = flatten[k]
            BY <1>1, <2>11 DEF D
        <3>2. CASE k = 1
            <4>1. flatten[k] = q[k]
                BY <3>2, <2>10
            <4>2. f[k - 1] = e
                BY <1>1, <2>11, <3>2
            <4> QED BY <2>4, <3>1, <4>1, <4>2
        <3>3. CASE k # 1
            <4>1. k - 1 \in 1 .. n /\ f[k - 1] = flatten[k - 1]
                BY <3>3, <1>1, <2>11
            <4>2. flatten[k] = flatten[k - 1] \o q[k]
                BY <3>3, <2>10
            <4> QED BY <3>1, <4>1, <4>2
        <3> QED BY <3>2, <3>3
    <2>13. f[0] \in D /\ \A k \in 1 .. n : f[k - 1] \in D => f[k] \in D
        <3>1. f[0] \in D
            BY <1>1, <2>4, <2>11
        <3>2. ASSUME NEW k \in 1 .. n, f[k - 1] \in D PROVE f[k] \in D
            BY <1>1, <2>3, <2>12, <3>2 DEF D
        <3> QED BY <3>1, <3>2
    <2>14. \A k \in 0 .. n : f[k] \in D
        BY <1>1, <2>13, StepInduction
    <2>15. f[0] = <<>> /\ f[n] = flatten[n]
        BY <1>1, <1>3, <2>2, <2>11
    <2>16. JoinsUp(f, S, q)
        BY <2>12, <2>14, <2>15 DEF JoinsUp, D, n
    <2> QED BY <2>1, <2>15, <2>16 DEF n
<1> QED BY <1>2, <1>3

\* Sequences over S, joined, are one over S.
LEMMA FlattenTyped ==
    ASSUME NEW S, NEW q \in Seq(Seq(S))
    PROVE  FlattenSeq(q) \in Seq(S)
<1>1. PICK f : JoinsUp(f, S, q) /\ FlattenSeq(q) = f[Len(q)]
    BY FlattenFold
<1>2. Len(q) \in 0 .. Len(q)
    BY LenProperties
<1> QED BY <1>1, <1>2 DEF JoinsUp

\* Two lists of sequences, one behind the other, are joined one behind the
\* other.
LEMMA FlattenConcat ==
    ASSUME NEW S, NEW a \in Seq(Seq(S)), NEW b \in Seq(Seq(S))
    PROVE  FlattenSeq(a \o b) = FlattenSeq(a) \o FlattenSeq(b)
<1>1. PICK q, m, n : q = a \o b /\ m = Len(a) /\ n = Len(b)
    OBVIOUS
<1>2. q \in Seq(Seq(S)) /\ m \in Nat /\ n \in Nat /\ Len(q) = m + n
    BY <1>1, ConcatProperties, LenProperties
<1>3. /\ \A i \in 1 .. m : q[i] = a[i]
      /\ \A i \in 1 .. n : q[m + i] = b[i] /\ b[i] \in Seq(S)
    <2>1. \A i \in 1 .. Len(a) + Len(b) : q[i] = IF i <= Len(a) THEN a[i] ELSE b[i - Len(a)]
        BY <1>1, ConcatProperties
    <2>2. \A i \in 1 .. n : b[i] \in Seq(S)
        BY <1>1, ElementOfSeq
    <2> QED BY <1>1, <1>2, <2>1, <2>2
<1>4. PICK f : JoinsUp(f, S, q) /\ FlattenSeq(q) = f[Len(q)]
    BY <1>2, FlattenFold
<1>5. PICK g : JoinsUp(g, S, a) /\ FlattenSeq(a) = g[Len(a)]
    BY FlattenFold
<1>6. PICK h : JoinsUp(h, S, b) /\ FlattenSeq(b) = h[Len(b)]
    BY FlattenFold
<1>7. /\ f[0] = <<>> /\ \A k \in 1 .. m + n : f[k] = f[k - 1] \o q[k]
      /\ g[0] = <<>> /\ (\A k \in 0 .. m : g[k] \in Seq(S)) /\ \A k \in 1 .. m : g[k] = g[k - 1] \o a[k]
      /\ h[0] = <<>> /\ (\A k \in 0 .. n : h[k] \in Seq(S)) /\ \A k \in 1 .. n : h[k] = h[k - 1] \o b[k]
    BY <1>1, <1>2, <1>4, <1>5, <1>6 DEF JoinsUp
<1>8. f[m] = g[m]
    <2>1. PICK D, e : D = {k \in 0 .. m : f[k] = g[k]} /\ e = [k \in 0 .. m |-> k]
        OBVIOUS
    <2>2. e[0] \in D
        BY <1>2, <1>7, <2>1
    <2>3. ASSUME NEW k \in 1 .. m, e[k - 1] \in D PROVE e[k] \in D
        <3>1. k \in 0 .. m /\ k - 1 \in 0 .. m /\ k \in 1 .. m + n /\ e[k] = k /\ e[k - 1] = k - 1
            BY <1>2, <2>1
        <3>2. f[k - 1] = g[k - 1]
            BY <2>1, <2>3, <3>1
        <3>3. f[k] = g[k]
            BY <1>3, <1>7, <3>1, <3>2
        <3> QED BY <2>1, <3>1, <3>3
    <2>4. \A k \in 0 .. m : e[k] \in D
        BY <1>2, <2>2, <2>3, StepInduction
    <2> QED BY <1>2, <2>1, <2>4
<1>9. ASSUME NEW k \in 0 .. n PROVE f[m + k] = g[m] \o h[k]
    <2>0. g[m] \in Seq(S)
        BY <1>2, <1>7
    <2>1. PICK D, e : D = {i \in 0 .. n : f[m + i] = g[m] \o h[i]} /\ e = [i \in 0 .. n |-> i]
        OBVIOUS
    <2>2. e[0] \in D
        <3>1. g[m] \o <<>> = g[m]
            BY <2>0, ConcatEmptySeq
        <3>2. m + 0 = m /\ 0 \in 0 .. n
            BY <1>2
        <3>3. f[m + 0] = g[m] \o h[0]
            BY <1>7, <1>8, <3>1, <3>2
        <3> QED BY <2>1, <3>2, <3>3
    <2>3. ASSUME NEW i \in 1 .. n, e[i - 1] \in D PROVE e[i] \in D
        <3>1. /\ i \in 0 .. n /\ i - 1 \in 0 .. n /\ m + i \in 1 .. m + n
              /\ (m + i) - 1 = m + (i - 1) /\ e[i] = i /\ e[i - 1] = i - 1
            BY <1>2, <2>1
        <3>2. f[m + (i - 1)] = g[m] \o h[i - 1]
            BY <2>1, <2>3, <3>1
        <3>3. f[m + i] = f[m + (i - 1)] \o b[i]
            BY <1>3, <1>7, <3>1
        <3>4. PICK x, y, z : x = g[m] /\ y = h[i - 1] /\ z = b[i]
            OBVIOUS
        <3>5. h[i] = y \o z /\ x \in Seq(S) /\ y \in Seq(S) /\ z \in Seq(S)
            BY <1>3, <1>7, <2>0, <3>1, <3>4
        <3>6. (x \o y) \o z = x \o (y \o z)
            BY <3>5, ConcatAssociative
        <3>7. f[m + i] = g[m] \o h[i]
            BY <3>2, <3>3, <3>4, <3>5, <3>6
        <3> QED BY <2>1, <3>1, <3>7
    <2>4. \A i \in 0 .. n : e[i] \in D
        BY <1>2, <2>2, <2>3, StepInduction
    <2>5. e[k] \in D /\ e[k] = k
        BY <2>1, <2>4
    <2> QED BY <2>1, <2>5
<1>10. f[m + n] = g[m] \o h[n]
    <2>1. n \in 0 .. n
        BY <1>2
    <2> QED BY <1>9, <2>1
<1> QED BY <1>1, <1>2, <1>4, <1>5, <1>6, <1>10

\* Nothing joined, and one sequence joined.
LEMMA FlattenFew ==
    ASSUME NEW S, NEW x \in Seq(S)
    PROVE  FlattenSeq(<<>>) = <<>> /\ FlattenSeq(<<x>>) = x
<1>1. FlattenSeq(<<>>) = <<>>
    <2>1. Len(<<>>) = 0
        BY EmptySeq
    <2> QED BY <2>1 DEF FlattenSeq
<1>2. FlattenSeq(<<x>>) = x
    <2>1. PICK q : q = <<x>>
        OBVIOUS
    <2>2. q \in Seq(Seq(S)) /\ Len(q) = 1 /\ q[1] = x
        BY <2>1
    <2>3. PICK f : JoinsUp(f, S, q) /\ FlattenSeq(q) = f[Len(q)]
        BY <2>2, FlattenFold
    <2>4. f[0] = <<>> /\ f[1] = f[0] \o q[1]
        <3>1. f[0] = <<>> /\ \A k \in 1 .. 1 : f[k] = f[k - 1] \o q[k]
            BY <2>2, <2>3 DEF JoinsUp
        <3>2. 1 \in 1 .. 1 /\ 1 - 1 = 0
            OBVIOUS
        <3>3. f[1] = f[1 - 1] \o q[1]
            BY <3>1, <3>2
        <3> QED BY <3>1, <3>2, <3>3
    <2>5. <<>> \o x = x
        BY ConcatEmptySeq
    <2> QED BY <2>1, <2>2, <2>3, <2>4, <2>5
<1> QED BY <1>1, <1>2

\* The first k of n sequences.
Firsts(g, k) == [i \in 1 .. k |-> g[i]]

Listed(g, n, S) == g = [i \in 1 .. n |-> g[i]] /\ \A i \in 1 .. n : g[i] \in Seq(S)

\* One sequence more is joined behind the others.
LEMMA FlattenNext ==
    ASSUME NEW S, NEW n \in Nat, NEW g, Listed(g, n, S), NEW k \in 1 .. n
    PROVE  /\ FlattenSeq(Firsts(g, k - 1)) \in Seq(S) /\ FlattenSeq(Firsts(g, k)) \in Seq(S)
           /\ FlattenSeq(Firsts(g, k)) = FlattenSeq(Firsts(g, k - 1)) \o g[k]
<1>1. PICK a, b, x : a = Firsts(g, k - 1) /\ b = Firsts(g, k) /\ x = g[k]
    OBVIOUS
<1>2. a \in [1 .. k - 1 -> Seq(S)] /\ b \in [1 .. k -> Seq(S)] /\ k - 1 \in Nat /\ k \in Nat /\ x \in Seq(S)
    BY <1>1 DEF Firsts, Listed
<1>3. a \in Seq(Seq(S)) /\ Len(a) = k - 1 /\ b \in Seq(Seq(S)) /\ Len(b) = k
    BY <1>2, FunctionIsSeq
<1>4. PICK w, c : w = <<x>> /\ c = a \o w
    OBVIOUS
<1>5. w \in Seq(Seq(S)) /\ Len(w) = 1 /\ w[1] = x
    BY <1>2, <1>4
<1>6. c \in Seq(Seq(S)) /\ Len(c) = k /\ \A i \in 1 .. k : c[i] = IF i <= k - 1 THEN a[i] ELSE w[i - (k - 1)]
    <2>1. /\ c \in Seq(Seq(S)) /\ Len(c) = Len(a) + Len(w)
          /\ \A i \in 1 .. Len(a) + Len(w) : c[i] = IF i <= Len(a) THEN a[i] ELSE w[i - Len(a)]
        BY <1>3, <1>4, <1>5, ConcatProperties
    <2>2. Len(a) + Len(w) = k
        BY <1>2, <1>3, <1>5
    <2> QED BY <1>3, <2>1, <2>2
<1>7. ASSUME NEW i \in 1 .. k PROVE b[i] = c[i]
    <2>1. CASE i <= k - 1
        <3>1. i \in 1 .. k - 1
            BY <1>2, <2>1
        <3>2. a[i] = g[i] /\ b[i] = g[i]
            BY <1>1, <3>1 DEF Firsts
        <3> QED BY <1>6, <2>1, <3>2
    <2>2. CASE i = k
        <3>1. i - (k - 1) = 1 /\ ~(i <= k - 1)
            BY <1>2, <2>2
        <3>2. c[i] = x
            BY <1>5, <1>6, <3>1
        <3> QED BY <1>1, <2>2, <3>2 DEF Firsts
    <2> QED BY <2>1, <2>2
<1>8. b = c
    <2>1. Len(b) = Len(c) /\ \A i \in 1 .. Len(b) : b[i] = c[i]
        BY <1>3, <1>6, <1>7
    <2> QED BY <1>3, <1>6, <2>1, SeqEqual
<1>9. FlattenSeq(b) = FlattenSeq(a) \o FlattenSeq(w) /\ FlattenSeq(w) = x
    BY <1>2, <1>3, <1>4, <1>5, <1>8, FlattenConcat, FlattenFew
<1>10. FlattenSeq(a) \in Seq(S) /\ FlattenSeq(b) \in Seq(S)
    BY <1>3, FlattenTyped
<1> QED BY <1>1, <1>9, <1>10

\* c begins with a.
Begins(S, a, c) == a \in Seq(S) /\ c \in Seq(S) /\ \E b \in Seq(S) : c = a \o b

\* What the first k sequences give is a prefix of what all of them give.
LEMMA FlattenPrefix ==
    ASSUME NEW S, NEW n \in Nat, NEW g, Listed(g, n, S), NEW k \in 0 .. n
    PROVE  Begins(S, FlattenSeq(Firsts(g, k)), FlattenSeq(g))
<1>1. PICK a, b, c : a = Firsts(g, k) /\ b = [i \in 1 .. n - k |-> g[k + i]] /\ c = a \o b
    OBVIOUS
<1>2. a \in [1 .. k -> Seq(S)] /\ b \in [1 .. n - k -> Seq(S)] /\ k \in Nat /\ n - k \in Nat
    BY <1>1 DEF Firsts, Listed
<1>3. a \in Seq(Seq(S)) /\ Len(a) = k /\ b \in Seq(Seq(S)) /\ Len(b) = n - k
    BY <1>2, FunctionIsSeq
<1>4. g \in Seq(Seq(S)) /\ Len(g) = n
    <2>1. g \in [1 .. n -> Seq(S)]
        BY DEF Listed
    <2> QED BY <2>1, FunctionIsSeq
<1>5. c \in Seq(Seq(S)) /\ Len(c) = n /\ \A i \in 1 .. n : c[i] = IF i <= k THEN a[i] ELSE b[i - k]
    <2>1. /\ c \in Seq(Seq(S)) /\ Len(c) = Len(a) + Len(b)
          /\ \A i \in 1 .. Len(a) + Len(b) : c[i] = IF i <= Len(a) THEN a[i] ELSE b[i - Len(a)]
        BY <1>1, <1>3, ConcatProperties
    <2>2. Len(a) + Len(b) = n
        BY <1>2, <1>3
    <2> QED BY <1>3, <2>1, <2>2
<1>6. ASSUME NEW i \in 1 .. n PROVE g[i] = c[i]
    <2>1. CASE i <= k
        BY <1>1, <1>2, <1>5, <2>1 DEF Firsts
    <2>2. CASE ~(i <= k)
        <3>1. i - k \in 1 .. n - k /\ k + (i - k) = i
            BY <1>2, <2>2
        <3>2. b[i - k] = g[i]
            BY <1>1, <3>1
        <3> QED BY <1>5, <2>2, <3>2
    <2> QED BY <2>1, <2>2
<1>7. g = c
    BY <1>4, <1>5, <1>6, SeqEqual
<1>8. FlattenSeq(g) = FlattenSeq(a) \o FlattenSeq(b)
    BY <1>1, <1>3, <1>7, FlattenConcat
<1>9. FlattenSeq(a) \in Seq(S) /\ FlattenSeq(b) \in Seq(S) /\ FlattenSeq(g) \in Seq(S)
    BY <1>3, <1>4, FlattenTyped
<1> QED BY <1>1, <1>8, <1>9 DEF Begins

\* So it is no longer.
LEMMA FlattenGrows ==
    ASSUME NEW S, NEW n \in Nat, NEW g, Listed(g, n, S), NEW k \in 0 .. n
    PROVE  /\ Len(FlattenSeq(Firsts(g, k))) \in Nat /\ Len(FlattenSeq(g)) \in Nat
           /\ Len(FlattenSeq(Firsts(g, k))) <= Len(FlattenSeq(g))
<1>1. PICK a, c : a = FlattenSeq(Firsts(g, k)) /\ c = FlattenSeq(g)
    OBVIOUS
<1>2. a \in Seq(S) /\ c \in Seq(S) /\ \E b \in Seq(S) : c = a \o b
    <2>1. Begins(S, FlattenSeq(Firsts(g, k)), FlattenSeq(g))
        BY FlattenPrefix
    <2> QED BY <1>1, <2>1 DEF Begins
<1>3. PICK b \in Seq(S) : c = a \o b
    BY <1>2
<1>4. Len(c) = Len(a) + Len(b) /\ Len(a) \in Nat /\ Len(b) \in Nat
    BY <1>2, <1>3, ConcatProperties, LenProperties
<1> QED BY <1>1, <1>4

\* Element x of the whole is behind the first k - 1 sequences.
Sits(g, k, x) ==
    LET j == Len(FlattenSeq(Firsts(g, k - 1)))
    IN  j \in 0 .. Len(FlattenSeq(g)) - 1 /\ FlattenSeq(g)[j + 1] = x

\* The place in the whole of a sequence that has one member.
LEMMA FlattenPlace ==
    ASSUME NEW S, NEW n \in Nat, NEW g, Listed(g, n, S), NEW k \in 1 .. n, NEW x \in S, g[k] = <<x>>
    PROVE  Sits(g, k, x)
<1>1. PICK a, w, d, c : /\ a = FlattenSeq(Firsts(g, k - 1)) /\ w = <<x>>
                        /\ d = FlattenSeq(Firsts(g, k)) /\ c = FlattenSeq(g)
    OBVIOUS
<1>2. a \in Seq(S) /\ d \in Seq(S) /\ d = a \o w
    BY <1>1, FlattenNext
<1>3. k \in 0 .. n
    OBVIOUS
<1>4. c \in Seq(S) /\ \E b \in Seq(S) : c = d \o b
    <2>1. Begins(S, FlattenSeq(Firsts(g, k)), FlattenSeq(g))
        BY <1>3, FlattenPrefix
    <2> QED BY <1>1, <2>1 DEF Begins
<1>5. PICK b \in Seq(S) : c = d \o b
    BY <1>4
<1>6. PICK l : l = Len(a)
    OBVIOUS
<1>7. w \in Seq(S) /\ Len(w) = 1 /\ w[1] = x /\ l \in Nat /\ Len(b) \in Nat
    BY <1>1, <1>2, <1>6, LenProperties
<1>8. Len(d) = l + 1 /\ d[l + 1] = x
    <2>1. /\ Len(d) = Len(a) + Len(w)
          /\ \A i \in 1 .. Len(a) + Len(w) : d[i] = IF i <= Len(a) THEN a[i] ELSE w[i - Len(a)]
        BY <1>2, <1>7, ConcatProperties
    <2>2. l + 1 \in 1 .. Len(a) + Len(w) /\ ~(l + 1 <= l) /\ (l + 1) - l = 1
        BY <1>6, <1>7
    <2>3. d[l + 1] = w[(l + 1) - l]
        BY <1>6, <2>1, <2>2
    <2> QED BY <1>6, <1>7, <2>1, <2>2, <2>3
<1>9. Len(c) = (l + 1) + Len(b) /\ c[l + 1] = x
    <2>1. /\ Len(c) = Len(d) + Len(b)
          /\ \A i \in 1 .. Len(d) + Len(b) : c[i] = IF i <= Len(d) THEN d[i] ELSE b[i - Len(d)]
        BY <1>2, <1>5, ConcatProperties
    <2>2. l + 1 \in 1 .. Len(d) + Len(b) /\ l + 1 <= Len(d)
        BY <1>7, <1>8
    <2> QED BY <1>8, <2>1, <2>2
<1>10. l \in 0 .. Len(c) - 1
    BY <1>7, <1>9
<1> QED BY <1>1, <1>6, <1>9, <1>10 DEF Sits

\* Nothing joined to nothing is nothing.
LEMMA FlattenEmpties ==
    ASSUME NEW n \in Nat, NEW q, q = [i \in 1 .. n |-> <<>>]
    PROVE  FlattenSeq(q) = <<>>
<1>1. PICK S : S = {}
    OBVIOUS
<1>2. q \in Seq(Seq(S)) /\ Len(q) = n
    <2>1. <<>> \in Seq(S)
        BY EmptySeq
    <2>2. q \in [1 .. n -> Seq(S)]
        BY <2>1
    <2> QED BY <2>2, FunctionIsSeq
<1>3. PICK f : JoinsUp(f, S, q) /\ FlattenSeq(q) = f[Len(q)]
    BY <1>2, FlattenFold
<1>4. PICK D : D = {<<>>}
    OBVIOUS
<1>5. f[0] \in D
    BY <1>3, <1>4 DEF JoinsUp
<1>6. ASSUME NEW k \in 1 .. n, f[k - 1] \in D PROVE f[k] \in D
    <2>1. f[k] = f[k - 1] \o q[k] /\ q[k] = <<>> /\ f[k - 1] = <<>>
        BY <1>2, <1>3, <1>4, <1>6 DEF JoinsUp
    <2>2. <<>> \o <<>> = <<>>
        OBVIOUS
    <2> QED BY <1>4, <2>1, <2>2
<1>7. \A k \in 0 .. n : f[k] \in D
    BY <1>5, <1>6, StepInduction
<1> QED BY <1>2, <1>3, <1>4, <1>7

-----------------------------------------------------------------------------
(* The payload on the wire.                                                *)

\* The ranges whose numbers are all in S, and the queues of them.
RangesWithin(S) == {r \in SequenceRange : Members(r) \subseteq S}
QueuesWithin(S) == {q \in Seq(SequenceRange) : Contents(q) \subseteq S}

\* A queue within S is a sequence of ranges within S.
LEMMA WithinByRange ==
    ASSUME NEW S
    PROVE  QueuesWithin(S) = Seq(RangesWithin(S))
<1>1. ASSUME NEW q \in QueuesWithin(S) PROVE q \in Seq(RangesWithin(S))
    <2>1. q \in Seq(SequenceRange) /\ Len(q) \in Nat
        BY LenProperties DEF QueuesWithin
    <2>2. \A i \in 1 .. Len(q) : q[i] \in RangesWithin(S)
        BY <2>1, ElementOfSeq, InContents DEF QueuesWithin, RangesWithin
    <2>3. q = [i \in 1 .. Len(q) |-> q[i]]
        BY <2>1, LenProperties
    <2>4. q \in [1 .. Len(q) -> RangesWithin(S)]
        BY <2>2, <2>3
    <2> QED BY <2>1, <2>4, FunctionIsSeq
<1>2. ASSUME NEW q \in Seq(RangesWithin(S)) PROVE q \in QueuesWithin(S)
    <2>1. Len(q) \in Nat /\ q \in [1 .. Len(q) -> RangesWithin(S)]
        BY LenProperties
    <2>2. \A i \in 1 .. Len(q) : q[i] \in SequenceRange /\ Members(q[i]) \subseteq S
        BY <2>1 DEF RangesWithin
    <2>3. q \in [1 .. Len(q) -> SequenceRange]
        BY <2>1, <2>2
    <2>4. q \in Seq(SequenceRange)
        BY <2>1, <2>3, FunctionIsSeq
    <2>5. Contents(q) \subseteq S
        BY <2>2, <2>4, InContents
    <2> QED BY <2>4, <2>5 DEF QueuesWithin
<1> QED BY <1>1, <1>2

\* What one range becomes on the wire.
Piece(r) == IF Wraps(r) THEN <<WrapTail(r), WrapHead(r)>> ELSE <<r>>

\* Encoding a payload and decoding it brings no number in; it is done a range at
\* a time.
LEMMA WireSound ==
    ASSUME NEW S, NEW q \in QueuesWithin(S)
    PROVE  /\ WireRanges(q) \in QueuesWithin(S)
           /\ \E f : /\ WireRanges(q) = f[Len(q)]
                     /\ \A k \in 0 .. Len(q) : f[k] \in Seq(SequenceRange)
                     /\ \A k \in 1 .. Len(q) : f[k] = f[k - 1] \o Piece(q[k])
<1> DEFINE A == RangesWithin(S)
           D == Seq(A)
           n == Len(q)
           wire == CHOOSE g : g = [k \in 0 .. n |-> IF k = 0 THEN <<>> ELSE g[k - 1] \o Piece(q[k])]
<1>1. q \in D /\ n \in Nat /\ \A k \in 1 .. n : q[k] \in A
    BY WithinByRange, LenProperties, ElementOfSeq
<1>2. ASSUME NEW r \in A PROVE Piece(r) \in D
    <2>1. Wraps(r) => WrapTail(r) \in A /\ WrapHead(r) \in A
        BY SplitExact DEF RangesWithin
    <2> QED BY <2>1 DEF Piece
<1>3. WireRanges(q) = wire[n]
    BY DEF WireRanges, Piece
<1>4. PICK op, e : op = [x \in D |-> [r \in A |-> x \o Piece(r)]] /\ e = <<>>
    OBVIOUS
<1>5. ASSUME NEW x \in D, NEW r \in A PROVE x \o Piece(r) \in D
    BY <1>2, ConcatProperties
<1>6. e \in D
    BY <1>4, EmptySeq
<1> HIDE DEF D, A
<1>7. op \in [D -> [A -> D]] /\ q \in Seq(A)
    BY <1>1, <1>4, <1>5 DEF D
<1>8. PICK h \in [0 .. n -> D] : IsFold(h, op, e, q)
    BY <1>6, <1>7, FoldExists
<1>9. h = [k \in 0 .. n |-> IF k = 0 THEN e ELSE h[k - 1] \o Piece(q[k])]
    <2>1. ASSUME NEW k \in 0 .. n, k # 0
          PROVE  op[h[k - 1]][q[k]] = h[k - 1] \o Piece(q[k])
        <3>1. q[k] \in A /\ h[k - 1] \in D
            BY <2>1, <1>1
        <3> QED BY <3>1, <1>4
    <2> QED BY <1>8, <2>1 DEF IsFold
<1>10. wire = [k \in 0 .. n |-> IF k = 0 THEN e ELSE wire[k - 1] \o Piece(q[k])]
    <2> DEFINE Solves(g, b) == g = [k \in 0 .. n |-> IF k = 0 THEN b ELSE g[k - 1] \o Piece(q[k])]
    <2>1. wire = CHOOSE g : Solves(g, e)
        BY <1>4
    <2>2. Solves(h, e)
        BY <1>9
    <2> HIDE DEF Solves, wire
    <2>3. Solves(wire, e)
        BY <2>1, <2>2
    <2> QED BY <2>3 DEF Solves
<1> HIDE DEF wire, n
<1>11. wire[0] \in D /\ \A k \in 1 .. n : wire[k] = wire[k - 1] \o Piece(q[k])
    BY <1>1, <1>6, <1>10
<1>12. \A k \in 1 .. n : wire[k - 1] \in D => wire[k] \in D
    BY <1>1, <1>5, <1>11
<1>13. \A k \in 0 .. n : wire[k] \in D
    BY <1>1, <1>11, <1>12, StepInduction
<1>14. wire[n] \in D
    BY <1>1, <1>13
<1>15. ASSUME NEW k \in 0 .. n PROVE wire[k] \in Seq(SequenceRange)
    BY <1>13, WithinByRange DEF D, A, QueuesWithin
<1> QED BY <1>3, <1>11, <1>14, <1>15, WithinByRange DEF D, A, n

\* Numbers that each step takes over from the step before and from one more
\* range are all there at the end.
LEMMA FoldCovers ==
    ASSUME NEW n \in Nat, NEW f, NEW q,
           \A k \in 1 .. n : Contents(f[k - 1]) \cup Members(q[k]) \subseteq Contents(f[k])
    PROVE  /\ Contents(f[0]) \subseteq Contents(f[n])
           /\ \A j \in 1 .. n : Members(q[j]) \subseteq Contents(f[n])
<1> DEFINE Good(k) == /\ Contents(f[0]) \subseteq Contents(f[k])
                      /\ \A j \in 1 .. k : Members(q[j]) \subseteq Contents(f[k])
           D == {k \in 0 .. n : Good(k)}
<1>1. PICK g : g = [k \in 0 .. n |-> k]
    OBVIOUS
<1>2. g[0] \in D
    BY <1>1
<1>3. ASSUME NEW k \in 1 .. n, g[k - 1] \in D PROVE g[k] \in D
    <2>1. k - 1 \in 0 .. n /\ g[k - 1] = k - 1 /\ k \in 0 .. n /\ g[k] = k
        BY <1>1
    <2>2. Good(k - 1)
        BY <1>3, <2>1
    <2>3. ASSUME NEW j \in 1 .. k PROVE Members(q[j]) \subseteq Contents(f[k])
        <3>1. j = k \/ j \in 1 .. k - 1
            OBVIOUS
        <3>2. Contents(f[k - 1]) \subseteq Contents(f[k]) /\ Members(q[k]) \subseteq Contents(f[k])
            OBVIOUS
        <3> QED BY <2>2, <3>1, <3>2
    <2>4. Good(k)
        BY <2>2, <2>3
    <2> QED BY <2>1, <2>4
<1> HIDE DEF D
<1>4. \A k \in 0 .. n : g[k] \in D
    BY <1>2, <1>3, StepInduction
<1>5. n \in D
    BY <1>1, <1>4
<1> QED BY <1>5 DEF D

\* The numbers of two queues, one behind the other.
LEMMA ContentsConcat ==
    ASSUME NEW a \in Seq(SequenceRange), NEW b \in Seq(SequenceRange)
    PROVE  a \o b \in Seq(SequenceRange) /\ Contents(a \o b) = Contents(a) \cup Contents(b)
<1>1. PICK c, m, n : c = a \o b /\ m = Len(a) /\ n = Len(b)
    OBVIOUS
<1>2. /\ m \in Nat /\ n \in Nat /\ c \in Seq(SequenceRange) /\ Len(c) = m + n
      /\ \A i \in 1 .. m + n : c[i] = IF i <= m THEN a[i] ELSE b[i - m]
    BY <1>1, ConcatProperties, LenProperties
<1>3. ASSUME NEW x PROVE x \in Contents(c) <=> x \in Contents(a) \cup Contents(b)
    <2>1. ASSUME x \in Contents(c) PROVE x \in Contents(a) \cup Contents(b)
        <3>1. PICK i \in 1 .. m + n : x \in Members(c[i])
            BY <1>2, <2>1, InContents
        <3>2. (i \in 1 .. m /\ c[i] = a[i]) \/ (i - m \in 1 .. n /\ c[i] = b[i - m])
            BY <1>2
        <3> QED BY <1>1, <3>1, <3>2, InContents
    <2>2. ASSUME x \in Contents(a) PROVE x \in Contents(c)
        <3>1. PICK i \in 1 .. m : x \in Members(a[i])
            BY <1>1, <2>2, InContents
        <3>2. i \in 1 .. m + n /\ c[i] = a[i]
            BY <1>2
        <3> QED BY <1>2, <3>1, <3>2, InContents
    <2>3. ASSUME x \in Contents(b) PROVE x \in Contents(c)
        <3>1. PICK i \in 1 .. n : x \in Members(b[i])
            BY <1>1, <2>3, InContents
        <3>2. m + i \in 1 .. m + n /\ c[m + i] = b[i]
            BY <1>2
        <3> QED BY <1>2, <3>1, <3>2, InContents
    <2> QED BY <2>1, <2>2, <2>3
<1> QED BY <1>1, <1>2, <1>3

\* A queue of one range, and of two.
LEMMA ContentsFew ==
    ASSUME NEW r \in SequenceRange, NEW t \in SequenceRange
    PROVE  /\ <<r>> \in Seq(SequenceRange) /\ Contents(<<r>>) = Members(r)
           /\ <<r, t>> \in Seq(SequenceRange) /\ Contents(<<r, t>>) = Members(r) \cup Members(t)
<1>1. /\ <<r>> \in Seq(SequenceRange) /\ DOMAIN <<r>> = {1} /\ <<r>>[1] = r
      /\ <<r, t>> \in Seq(SequenceRange) /\ DOMAIN <<r, t>> = {1, 2} /\ <<r, t>>[1] = r /\ <<r, t>>[2] = t
    OBVIOUS
<1>2. PICK a, b : a = <<r>> /\ b = <<r, t>>
    OBVIOUS
<1>3. Contents(a) = Members(r) /\ Contents(b) = Members(r) \cup Members(t)
    BY <1>1, <1>2 DEF Contents
<1> QED BY <1>1, <1>2, <1>3

\* The peer decodes every number that was encoded.
LEMMA WireComplete ==
    ASSUME NEW q \in Seq(SequenceRange)
    PROVE  Contents(q) \subseteq Contents(WireRanges(q))
<1>1. q \in QueuesWithin(Contents(q)) /\ Len(q) \in Nat /\ \A k \in 1 .. Len(q) : q[k] \in SequenceRange
    BY LenProperties, ElementOfSeq DEF QueuesWithin
<1>2. PICK f : /\ WireRanges(q) = f[Len(q)]
               /\ \A k \in 0 .. Len(q) : f[k] \in Seq(SequenceRange)
               /\ \A k \in 1 .. Len(q) : f[k] = f[k - 1] \o Piece(q[k])
    BY <1>1, WireSound
<1>3. ASSUME NEW r \in SequenceRange
      PROVE  Piece(r) \in Seq(SequenceRange) /\ Contents(Piece(r)) = Members(r)
    <2>1. CASE ~Wraps(r)
        BY <2>1, ContentsFew DEF Piece
    <2>2. CASE Wraps(r)
        <3>1. PICK t, h : t = WrapTail(r) /\ h = WrapHead(r)
            OBVIOUS
        <3>2. t \in SequenceRange /\ h \in SequenceRange /\ Members(r) = Members(t) \cup Members(h)
            BY <2>2, <3>1, SplitExact
        <3>3. Piece(r) = <<t, h>>
            BY <2>2, <3>1 DEF Piece
        <3> QED BY <3>2, <3>3, ContentsFew
    <2> QED BY <2>1, <2>2
<1>4. ASSUME NEW k \in 1 .. Len(q)
      PROVE  Contents(f[k - 1]) \cup Members(q[k]) \subseteq Contents(f[k])
    <2>1. PICK a, b : a = f[k - 1] /\ b = Piece(q[k])
        OBVIOUS
    <2>2. a \in Seq(SequenceRange) /\ b \in Seq(SequenceRange) /\ Contents(b) = Members(q[k])
        BY <1>1, <1>2, <1>3, <2>1
    <2>3. Contents(a \o b) = Contents(a) \cup Contents(b)
        BY <2>2, ContentsConcat
    <2> QED BY <1>2, <2>1, <2>2, <2>3
<1>5. \A j \in 1 .. Len(q) : Members(q[j]) \subseteq Contents(f[Len(q)])
    BY <1>1, <1>4, FoldCovers
<1> QED BY <1>2, <1>5, InContents

-----------------------------------------------------------------------------
(* The reliable tracker.                                                   *)

\* see keeps the window shorter than a lap.
LEMMA SeeTyped ==
    ASSUME NEW t \in TrackerState, Len(t.window) < Modulo, NEW r \in SeqNum
    PROVE  See(t, r) \in TrackerState /\ Len(See(t, r).window) < Modulo
<1> DEFINE L == Len(t.window)
           S == {n \in 0 .. L : n = L \/ ~t.window[n + 1]}
           N == LeadingSeen(t.window)
           dist == SeqDistance(t.base, r)
<1>1. L \in Nat /\ (\A k \in 1 .. L : t.window[k] \in BOOLEAN) /\ t.base \in SeqNum
    BY LenProperties, ElementOfSeq DEF TrackerState
<1>2. N \in 0 .. L
    <2>1. S \subseteq Nat /\ L \in S
        BY <1>1
    <2>2. Min(S) \in S
        BY <2>1, MinFacts
    <2> QED BY <2>2 DEF LeadingSeen
<1>3. dist \in 0 .. Modulo - 1
    BY <1>1, DistanceType
<1> HIDE DEF L, N, dist
<1>4. CASE r = t.base
    <2> DEFINE w == SubSeq(t.window, N + 1, L)
    <2>1. w \in Seq(BOOLEAN) /\ Len(w) = IF N + 1 <= L THEN (L - (N + 1)) + 1 ELSE 0
        <3>1. \A k \in N + 1 .. L : t.window[k] \in BOOLEAN
            BY <1>1, <1>2
        <3>2. N + 1 \in Int /\ L \in Int
            BY <1>1, <1>2
        <3> QED BY <3>1, <3>2, SubSeqProperties
    <2>2. Len(w) < Modulo
        BY <2>1, <1>1, <1>2, ModuloAssumption DEF L
    <2>3. N \in 0 .. Modulo - 1
        BY <1>1, <1>2, ModuloAssumption DEF L
    <2>4. SeqAdd(SeqNext(t.base), N) \in SeqNum
        BY <2>3, <1>1, NextType, AddType
    <2>5. See(t, r) = [base |-> SeqAdd(SeqNext(t.base), N), window |-> w]
        BY <1>4 DEF See, L, N
    <2> HIDE DEF w
    <2> QED BY <2>1, <2>2, <2>4, <2>5 DEF TrackerState
<1>5. CASE r # t.base /\ dist > MaxWindow
    BY <1>5 DEF See, dist
<1>6. CASE r # t.base /\ ~(dist > MaxWindow)
    <2> DEFINE w == MarkSeen(t.window, dist)
               n == IF L < dist THEN dist ELSE L
    <2>1. n \in Nat /\ n < Modulo
        BY <1>1, <1>3, ModuloAssumption DEF L
    <2>2. w = [k \in 1 .. n |-> k = dist \/ (k <= L /\ t.window[k])]
        BY DEF MarkSeen, L
    <2> HIDE DEF n, w
    <2>3. w \in [1 .. n -> BOOLEAN]
        BY <2>2
    <2>4. w \in Seq(BOOLEAN) /\ Len(w) = n
        BY <2>1, <2>3, FunctionIsSeq
    <2>5. See(t, r) = [t EXCEPT !.window = w]
        BY <1>6 DEF See, dist, w
    <2> QED BY <2>1, <2>4, <2>5 DEF TrackerState
<1> QED BY <1>4, <1>5, <1>6

-----------------------------------------------------------------------------
(* The ordering channel.                                                   *)

\* A channel whose heap holds members of P.
ChannelOver(P) ==
    {c \in [read : SeqNum, heap : Seq(P)] : Len(c.heap) <= HeapCapacity}

\* The drain loop pops no more than there is, fewer than a lap, and only
\* packets that follow one another.
LEMMA ReadyLenFacts ==
    ASSUME NEW P, NEW c \in ChannelOver(P), NEW read \in SeqNum
    PROVE  /\ Len(c.heap) \in 0 .. Modulo - 1
           /\ ReadyLen(read, c.heap) \in 0 .. Len(c.heap)
           /\ \A i \in 1 .. ReadyLen(read, c.heap) :
                    c.heap[i].ordering_index = SeqAdd(read, i - 1)
<1> DEFINE L == Len(c.heap)
           S == {n \in 0 .. L : n = L \/ c.heap[n + 1].ordering_index # SeqAdd(read, n)}
<1>1. L \in 0 .. Modulo - 1
    BY LenProperties, HeapCapacityAssumption, ModuloAssumption DEF ChannelOver
<1>2. S \subseteq Nat /\ L \in S
    BY <1>1
<1>3. Min(S) \in S /\ \A n \in S : Min(S) <= n
    BY <1>2, MinFacts
<1>4. PICK m : m = Min(S)
    OBVIOUS
<1>5. m \in 0 .. L /\ m = ReadyLen(read, c.heap)
    BY <1>3, <1>4 DEF ReadyLen
<1>6. ASSUME NEW i \in 1 .. m PROVE c.heap[i].ordering_index = SeqAdd(read, i - 1)
    <2>1. i - 1 \in 0 .. L /\ i - 1 < m /\ i - 1 # L /\ (i - 1) + 1 = i
        BY <1>1, <1>5
    <2>2. ASSUME i - 1 \in S PROVE m <= i - 1
        <3> HIDE DEF S
        <3> QED BY <1>3, <1>4, <2>2
    <2>3. i \in Int /\ m \in Int
        BY <1>1, <1>5
    <2>4. i - 1 \notin S
        BY <2>1, <2>2, <2>3
    <2> QED BY <2>1, <2>4
<1> QED BY <1>1, <1>5, <1>6

\* Advancing past an index keeps the channel one, and hands over packets of it.
LEMMA ReleaseTyped ==
    ASSUME NEW P, NEW c \in ChannelOver(P)
    PROVE  Release(c) \in ChannelOver(P) /\ Released(c) \in Seq(P)
<1> DEFINE L == Len(c.heap)
           read == SeqNext(c.read)
           n == ReadyLen(read, c.heap)
           rest == SubSeq(c.heap, n + 1, L)
           out == SubSeq(c.heap, 1, n)
<1>1. /\ c.read \in SeqNum /\ L \in Nat /\ L <= HeapCapacity
      /\ \A k \in 1 .. L : c.heap[k] \in P
    BY LenProperties, ElementOfSeq DEF ChannelOver
<1>2. read \in SeqNum
    BY <1>1, NextType
<1>3. n \in 0 .. L /\ L \in 0 .. Modulo - 1
    BY <1>2, ReadyLenFacts
<1> HIDE DEF n, read, L
<1>4. SeqAdd(read, n) \in SeqNum
    <2>1. n \in 0 .. Modulo - 1
        BY <1>3, ModuloAssumption
    <2> QED BY <1>2, <2>1, AddType
<1>5. rest \in Seq(P) /\ Len(rest) = IF n + 1 <= L THEN (L - (n + 1)) + 1 ELSE 0
    <2>1. \A k \in n + 1 .. L : c.heap[k] \in P
        BY <1>1, <1>3
    <2>2. n + 1 \in Int /\ L \in Int
        BY <1>1, <1>3
    <2> QED BY <2>1, <2>2, SubSeqProperties
<1>6. out \in Seq(P)
    <2>1. \A k \in 1 .. n : c.heap[k] \in P
        BY <1>1, <1>3
    <2>2. n \in Int
        BY <1>3
    <2> QED BY <2>1, <2>2, SubSeqProperties
<1>7. Len(rest) <= HeapCapacity
    BY <1>1, <1>3, <1>5, HeapCapacityAssumption, ModuloAssumption
<1>8. Release(c) = [read |-> SeqAdd(read, n), heap |-> rest] /\ Released(c) = out
    BY DEF Release, Released, n, read, L
<1> HIDE DEF rest, out
<1> QED BY <1>4, <1>5, <1>6, <1>7, <1>8 DEF ChannelOver

\* handle_ordered: the channel afterwards and what it hands over.
LEMMA HandleOrderedTyped ==
    ASSUME NEW P, NEW c \in ChannelOver(P), NEW p \in P, p.ordering_index \in SeqNum
    PROVE  HandleOrdered(c, p) \in ChannelOver(P) /\ Ready(c, p) \in Seq(P)
<1> DEFINE L == Len(c.heap)
<1>1. /\ c.read \in SeqNum /\ L \in Nat /\ L <= HeapCapacity
      /\ \A k \in 1 .. L : c.heap[k] \in P
    BY LenProperties, ElementOfSeq DEF ChannelOver
<1>2. <<p>> \in Seq(P) /\ Len(<<p>>) = 1
    OBVIOUS
<1>3. CASE c.read = p.ordering_index
    <2>1. PICK out, d : out = Released(c) /\ d = Release(c)
        OBVIOUS
    <2>2. out \in Seq(P) /\ d \in ChannelOver(P)
        BY <2>1, ReleaseTyped
    <2>3. <<p>> \o out \in Seq(P)
        BY <1>2, <2>2, ConcatProperties
    <2> QED BY <1>3, <2>1, <2>2, <2>3 DEF HandleOrdered, Ready
<1>4. CASE c.read # p.ordering_index
    <2>1. Ready(c, p) \in Seq(P)
        BY <1>4, EmptySeq DEF Ready
    <2>2. CASE SeqGreater(c.read, p.ordering_index) \/ Overflows(c, p)
        BY <1>4, <2>1, <2>2 DEF HandleOrdered
    <2>3. CASE ~(SeqGreater(c.read, p.ordering_index) \/ Overflows(c, p))
        <3> DEFINE ahead == {i \in 1 .. L : ~SeqGreater(c.heap[i].ordering_index,
                                                        p.ordering_index)}
                   k == Cardinality(ahead)
                   a == SubSeq(c.heap, 1, k)
                   b == SubSeq(c.heap, k + 1, L)
        <3>1. L < HeapCapacity
            BY <1>1, <1>4, <2>3, HeapCapacityAssumption DEF Overflows, SeqLess
        <3> HIDE DEF L
        <3>2. k \in 0 .. L
            <4>1. IsFiniteSet(1 .. L) /\ Cardinality(1 .. L) = L
                BY <1>1, FS_Interval
            <4>2. IsFiniteSet(ahead) /\ Cardinality(ahead) <= L
                BY <4>1, FS_Subset
            <4>3. Cardinality(ahead) \in Nat
                BY <4>2, FS_CardinalityType
            <4> QED BY <4>2, <4>3, <1>1
        <3>3. HandleOrdered(c, p) = [c EXCEPT !.heap = a \o <<p>> \o b]
            BY <1>4, <2>3 DEF HandleOrdered, HeapInsert, L
        <3> HIDE DEF k
        <3>4. a \in Seq(P) /\ Len(a) = k
            <4>1. \A i \in 1 .. k : c.heap[i] \in P
                BY <1>1, <3>2
            <4>2. k \in Int /\ (IF 1 <= k THEN (k - 1) + 1 ELSE 0) = k
                BY <3>2
            <4> QED BY <4>1, <4>2, SubSeqProperties
        <3>5. b \in Seq(P) /\ Len(b) = L - k
            <4>1. \A i \in k + 1 .. L : c.heap[i] \in P
                BY <1>1, <3>2
            <4>2. /\ k + 1 \in Int /\ L \in Int
                  /\ (IF k + 1 <= L THEN (L - (k + 1)) + 1 ELSE 0) = L - k
                BY <1>1, <3>2
            <4> QED BY <4>1, <4>2, SubSeqProperties
        <3> HIDE DEF a, b
        <3>6. a \o <<p>> \in Seq(P) /\ Len(a \o <<p>>) = k + 1
            BY <3>4, <1>2, ConcatProperties
        <3>7. a \o <<p>> \o b \in Seq(P) /\ Len(a \o <<p>> \o b) = (k + 1) + (L - k)
            <4>1. PICK ap : ap = a \o <<p>>
                OBVIOUS
            <4>2. ap \in Seq(P) /\ Len(ap) = k + 1
                BY <3>6, <4>1
            <4>3. ap \o b \in Seq(P) /\ Len(ap \o b) = Len(ap) + Len(b)
                BY <3>5, <4>2, ConcatProperties
            <4> QED BY <4>1, <4>2, <4>3, <3>5
        <3>8. Len(a \o <<p>> \o b) <= HeapCapacity
            BY <3>1, <3>2, <3>7, <1>1, HeapCapacityAssumption
        <3> QED BY <3>3, <3>7, <3>8, <2>1 DEF ChannelOver
    <2> QED BY <2>2, <2>3
<1> QED BY <1>3, <1>4
-----------------------------------------------------------------------------
(* Sums over finite sets.                                                  *)

\* Induction along a finite set: D has every subset that can be built up from
\* the empty one a member at a time.
LEMMA SetInduction ==
    ASSUME NEW S, IsFiniteSet(S), NEW D, {} \in D,
           \A T \in SUBSET S : \A x \in S \ T : T \in D => T \cup {x} \in D
    PROVE  S \in D
<1> DEFINE n == Cardinality(S)
           E == {k \in 0 .. n : \A T \in SUBSET S : Cardinality(T) = k => T \in D}
<1>1. n \in Nat /\ \A T \in SUBSET S : IsFiniteSet(T) /\ Cardinality(T) \in Nat
    BY FS_CardinalityType, FS_Subset
<1>2. PICK g : g = [k \in 0 .. n |-> k]
    OBVIOUS
<1> HIDE DEF n
<1>3. g[0] \in E
    <2>1. \A T \in SUBSET S : Cardinality(T) = 0 => T = {}
        BY <1>1, FS_EmptySet
    <2>2. 0 \in 0 .. n /\ g[0] = 0
        BY <1>1, <1>2
    <2>3. \A T \in SUBSET S : Cardinality(T) = 0 => T \in D
        BY <2>1
    <2> QED BY <2>2, <2>3
<1>4. ASSUME NEW k \in 1 .. n, g[k - 1] \in E PROVE g[k] \in E
    <2>1. k - 1 \in 0 .. n /\ g[k - 1] = k - 1 /\ k \in 0 .. n /\ g[k] = k
        BY <1>1, <1>2
    <2> SUFFICES ASSUME NEW T \in SUBSET S, Cardinality(T) = k PROVE T \in D
        BY <2>1
    <2>2. T # {}
        <3>1. Cardinality({}) = 0
            BY FS_EmptySet
        <3>2. k # 0
            BY <1>1
        <3> QED BY <3>1, <3>2
    <2>3. PICK x \in T : TRUE
        BY <2>2
    <2>4. Cardinality(T \ {x}) = k - 1
        BY <1>1, FS_RemoveElement
    <2>5. T \ {x} \in D
        BY <1>4, <2>1, <2>4
    <2>6. (T \ {x}) \cup {x} = T /\ x \in S \ (T \ {x}) /\ T \ {x} \in SUBSET S
        BY <2>3
    <2> QED BY <2>5, <2>6
<1> HIDE DEF E
<1>5. \A k \in 0 .. n : g[k] \in E
    BY <1>1, <1>3, <1>4, StepInduction
<1>6. n \in E
    BY <1>1, <1>2, <1>5
<1> QED BY <1>6 DEF E, n

\* The sum of w over S, and the recursion that computes it for every subset.
SumOf(w, S) == MapThenSumSet(LAMBDA x : w[x], S)

IsSum(h, w, S) ==
    h = [s \in SUBSET S |-> IF s = {} THEN 0
                            ELSE w[CHOOSE x \in s : TRUE] + h[s \ {CHOOSE x \in s : TRUE}]]

\* The recursion has a solution.
LEMMA SumExists ==
    ASSUME NEW S, IsFiniteSet(S), NEW w
    PROVE  \E h : IsSum(h, w, S)
<1> DEFINE n == Cardinality(S)
           One(s) == CHOOSE x \in s : TRUE
           Next(h, s) == IF s = {} THEN 0 ELSE w[One(s)] + h[s \ {One(s)}]
           Can(k) == \E h : \A s \in SUBSET S : Cardinality(s) <= k => h[s] = Next(h, s)
           E == {k \in 0 .. n : Can(k)}
<1>1. n \in Nat /\ \A s \in SUBSET S : IsFiniteSet(s) /\ Cardinality(s) \in 0 .. n
    BY FS_CardinalityType, FS_Subset
<1>2. \A s \in SUBSET S : s # {} => /\ s \ {One(s)} \in SUBSET S
                                    /\ Cardinality(s \ {One(s)}) = Cardinality(s) - 1
    BY <1>1, FS_RemoveElement
<1>3. PICK g : g = [k \in 0 .. n |-> k]
    OBVIOUS
<1> HIDE DEF n, One
<1>4. g[0] \in E
    <2>1. \A s \in SUBSET S : Cardinality(s) <= 0 => s = {}
        BY <1>1, FS_EmptySet
    <2>2. PICK h : h = [s \in SUBSET S |-> 0]
        OBVIOUS
    <2>3. Can(0)
        BY <2>1, <2>2
    <2>4. 0 \in 0 .. n /\ g[0] = 0
        BY <1>1, <1>3
    <2> HIDE DEF Can
    <2> QED BY <2>3, <2>4
<1>5. ASSUME NEW k \in 1 .. n, g[k - 1] \in E PROVE g[k] \in E
    <2>1. k - 1 \in 0 .. n /\ g[k - 1] = k - 1 /\ k \in 0 .. n /\ g[k] = k
        BY <1>1, <1>3
    <2>2. PICK h : \A s \in SUBSET S : Cardinality(s) <= k - 1 => h[s] = Next(h, s)
        BY <1>5, <2>1
    <2>3. PICK f : f = [s \in SUBSET S |-> IF Cardinality(s) <= k - 1 THEN h[s] ELSE Next(h, s)]
        OBVIOUS
    <2>4. ASSUME NEW s \in SUBSET S, Cardinality(s) <= k PROVE f[s] = Next(f, s)
        <3>1. f[s] = Next(h, s)
            BY <2>2, <2>3
        <3>2. CASE s = {}
            BY <3>1, <3>2
        <3>3. CASE s # {}
            <4>1. s \ {One(s)} \in SUBSET S /\ Cardinality(s \ {One(s)}) <= k - 1
                BY <1>1, <1>2, <2>4, <3>3
            <4>2. f[s \ {One(s)}] = h[s \ {One(s)}]
                BY <2>3, <4>1
            <4> QED BY <3>1, <3>3, <4>2
        <3> QED BY <3>2, <3>3
    <2>5. Can(k)
        BY <2>4
    <2> QED BY <2>1, <2>5
<1> HIDE DEF E
<1>6. \A k \in 0 .. n : g[k] \in E
    BY <1>1, <1>4, <1>5, StepInduction
<1>7. n \in E
    BY <1>1, <1>3, <1>6
<1>8. PICK h : \A s \in SUBSET S : h[s] = Next(h, s)
    <2>1. Can(n)
        <3> HIDE DEF Can
        <3> QED BY <1>7 DEF E
    <2>2. \A s \in SUBSET S : Cardinality(s) <= n
        BY <1>1
    <2> HIDE DEF Next
    <2> QED BY <2>1, <2>2
<1>9. PICK f : f = [s \in SUBSET S |-> h[s]]
    OBVIOUS
<1>10. \A s \in SUBSET S : f[s] = Next(f, s)
    BY <1>2, <1>8, <1>9
<1>11. f = [s \in SUBSET S |-> Next(f, s)]
    BY <1>9, <1>10
<1> QED BY <1>11 DEF IsSum, One

\* Adding the members one by one, in whatever order: the sum of a subset is a
\* natural number and that of the rest and any one of its members.
LEMMA SumRemoves ==
    ASSUME NEW S, IsFiniteSet(S), NEW w, \A x \in S : w[x] \in Nat, NEW h, IsSum(h, w, S)
    PROVE  \A s \in SUBSET S : /\ h[s] \in Nat
                               /\ \A x \in s : h[s] = w[x] + h[s \ {x}]
<1> DEFINE n == Cardinality(S)
           One(s) == CHOOSE x \in s : TRUE
           Good(s) == h[s] \in Nat /\ \A x \in s : h[s] = w[x] + h[s \ {x}]
           E == {k \in 0 .. n : \A s \in SUBSET S : Cardinality(s) <= k => Good(s)}
<1>1. n \in Nat /\ \A s \in SUBSET S : IsFiniteSet(s) /\ Cardinality(s) \in 0 .. n
    BY FS_CardinalityType, FS_Subset
<1>2. \A s \in SUBSET S : \A x \in s : /\ s \ {x} \in SUBSET S
                                       /\ Cardinality(s \ {x}) = Cardinality(s) - 1
    BY <1>1, FS_RemoveElement
<1>3. PICK g : g = [k \in 0 .. n |-> k]
    OBVIOUS
<1>4. /\ h[{}] = 0
      /\ \A s \in SUBSET S : s # {} => h[s] = w[One(s)] + h[s \ {One(s)}]
    BY DEF IsSum
<1>5. \A s : s # {} => One(s) \in s
    OBVIOUS
<1> HIDE DEF n, One
<1>6. g[0] \in E
    <2>1. \A s \in SUBSET S : Cardinality(s) <= 0 => s = {}
        BY <1>1, FS_EmptySet
    <2>2. Good({})
        BY <1>4
    <2>3. 0 \in 0 .. n /\ g[0] = 0
        BY <1>1, <1>3
    <2> HIDE DEF Good
    <2> QED BY <2>1, <2>2, <2>3
<1>7. ASSUME NEW k \in 1 .. n, g[k - 1] \in E PROVE g[k] \in E
    <2>1. k - 1 \in 0 .. n /\ g[k - 1] = k - 1 /\ k \in 0 .. n /\ g[k] = k
        BY <1>1, <1>3
    <2>2. \A s \in SUBSET S : Cardinality(s) <= k - 1 => Good(s)
        BY <1>7, <2>1
    <2>3. ASSUME NEW s \in SUBSET S, Cardinality(s) <= k PROVE Good(s)
        <3>1. CASE s = {}
            BY <1>4, <3>1
        <3>2. CASE s # {}
            <4> DEFINE y == One(s)
            <4>1. y \in s /\ \A x \in s : /\ s \ {x} \in SUBSET S
                                          /\ Cardinality(s \ {x}) <= k - 1
                BY <1>1, <1>2, <1>5, <2>3, <3>2
            <4>2. h[s] = w[y] + h[s \ {y}] /\ w[y] \in Nat
                BY <1>4, <3>2, <4>1
            <4> HIDE DEF y
            <4>3. \A x \in s : Good(s \ {x})
                BY <2>2, <4>1
            <4>4. h[s] \in Nat
                <5>1. h[s \ {y}] \in Nat
                    BY <4>1, <4>3
                <5> QED BY <4>2, <5>1
            <4>5. ASSUME NEW x \in s, x # y PROVE h[s] = w[x] + h[s \ {x}]
                <5>1. x \in s \ {y} /\ y \in s \ {x} /\ (s \ {y}) \ {x} = (s \ {x}) \ {y}
                    BY <4>1, <4>5
                <5>2. h[s \ {y}] = w[x] + h[(s \ {y}) \ {x}] /\ h[s \ {x}] = w[y] + h[(s \ {x}) \ {y}]
                    BY <4>1, <4>3, <5>1
                <5>3. w[x] \in Nat /\ h[(s \ {y}) \ {x}] \in Nat
                    <6>1. (s \ {y}) \ {x} \in SUBSET S /\ Cardinality((s \ {y}) \ {x}) <= k - 1
                        <7>1. Cardinality((s \ {y}) \ {x}) = Cardinality(s \ {y}) - 1
                            BY <1>2, <4>1, <5>1
                        <7> QED BY <1>1, <4>1, <7>1
                    <6> QED BY <2>2, <6>1
                <5>4. PICK a, b, c : a = h[s \ {y}] /\ b = h[s \ {x}] /\ c = h[(s \ {y}) \ {x}]
                    OBVIOUS
                <5>5. a = w[x] + c /\ b = w[y] + c /\ c \in Nat /\ h[s] = w[y] + a
                    BY <4>2, <5>1, <5>2, <5>3, <5>4
                <5>6. h[s] = w[x] + b
                    BY <4>2, <5>3, <5>5
                <5> QED BY <5>4, <5>6
            <4> QED BY <4>2, <4>4, <4>5
        <3> QED BY <3>1, <3>2
    <2> QED BY <2>1, <2>3
<1> HIDE DEF E
<1>8. \A k \in 0 .. n : g[k] \in E
    BY <1>1, <1>6, <1>7, StepInduction
<1>9. n \in E
    BY <1>1, <1>3, <1>8
<1>10. \A s \in SUBSET S : Cardinality(s) <= n
    BY <1>1
<1>11. \A s \in SUBSET S : Cardinality(s) <= n => Good(s)
    <2> HIDE DEF Good
    <2> QED BY <1>9 DEF E
<1> QED BY <1>10, <1>11

\* The recursion over a set also computes the sums of its subsets.
LEMMA SumLocal ==
    ASSUME NEW S, IsFiniteSet(S), NEW w, \A x \in S : w[x] \in Nat,
           NEW h, IsSum(h, w, S), NEW T \in SUBSET S, NEW f, IsSum(f, w, T)
    PROVE  f[T] = h[T]
<1> DEFINE D == {s \in SUBSET T : f[s] = h[s]}
<1>1. /\ \A s \in SUBSET S : h[s] \in Nat /\ \A x \in s : h[s] = w[x] + h[s \ {x}]
      /\ IsFiniteSet(T) /\ \A x \in T : w[x] \in Nat
    BY SumRemoves, FS_Subset
<1>2. \A s \in SUBSET T : f[s] \in Nat /\ \A x \in s : f[s] = w[x] + f[s \ {x}]
    BY <1>1, SumRemoves
<1>3. {} \in D
    BY DEF IsSum
<1>4. ASSUME NEW s \in SUBSET T, NEW x \in T \ s, s \in D PROVE s \cup {x} \in D
    <2>1. PICK u : u = s \cup {x}
        OBVIOUS
    <2>2. u \ {x} = s /\ x \in u /\ u \in SUBSET T /\ u \in SUBSET S
        BY <2>1
    <2>3. f[u] = w[x] + f[u \ {x}] /\ h[u] = w[x] + h[u \ {x}]
        BY <1>1, <1>2, <2>2
    <2>4. f[u] = h[u]
        BY <1>4, <2>2, <2>3
    <2> QED BY <2>1, <2>2, <2>4
<1> HIDE DEF D
<1>5. T \in D
    BY <1>1, <1>3, <1>4, SetInduction
<1> QED BY <1>5 DEF D

\* SumOf follows the recursion.
LEMMA SumOfFact ==
    ASSUME NEW S, IsFiniteSet(S), NEW w
    PROVE  \E h : IsSum(h, w, S) /\ SumOf(w, S) = h[S]
<1>1. PICK g : IsSum(g, w, S)
    BY SumExists
<1> QED BY <1>1 DEF IsSum, SumOf, MapThenSumSet, MapThenFoldSet

\* The sum over no member.
LEMMA SumEmpty == \A w : SumOf(w, {}) = 0
<1> SUFFICES ASSUME NEW w PROVE SumOf(w, {}) = 0
    OBVIOUS
<1>1. PICK h : IsSum(h, w, {}) /\ SumOf(w, {}) = h[{}]
    BY SumOfFact, FS_EmptySet
<1> QED BY <1>1 DEF IsSum

\* The sum over one member more.
LEMMA SumAdd ==
    ASSUME NEW S, IsFiniteSet(S), NEW x, x \notin S, NEW w, \A y \in S \cup {x} : w[y] \in Nat
    PROVE  SumOf(w, S \cup {x}) = w[x] + SumOf(w, S)
<1> DEFINE T == S \cup {x}
<1>1. IsFiniteSet(T) /\ S \in SUBSET T /\ T \ {x} = S /\ x \in T /\ T \in SUBSET T
    BY FS_AddElement
<1>2. PICK h : IsSum(h, w, T) /\ SumOf(w, T) = h[T]
    BY <1>1, SumOfFact
<1>3. PICK f : IsSum(f, w, S) /\ SumOf(w, S) = f[S]
    BY SumOfFact
<1>4. f[S] = h[S]
    BY <1>1, <1>2, <1>3, SumLocal
<1> HIDE DEF T
<1>5. h[T] = w[x] + h[T \ {x}]
    <2>1. \A y \in T : w[y] \in Nat
        BY DEF T
    <2>2. \A s \in SUBSET T : h[s] \in Nat /\ \A y \in s : h[s] = w[y] + h[s \ {y}]
        BY <1>1, <1>2, <2>1, SumRemoves
    <2> QED BY <1>1, <2>2
<1> QED BY <1>1, <1>2, <1>3, <1>4, <1>5 DEF T

\* A sum of naturals is one.
LEMMA SumType ==
    ASSUME NEW S, IsFiniteSet(S), NEW w, \A x \in S : w[x] \in Nat
    PROVE  SumOf(w, S) \in Nat
<1>1. PICK h : IsSum(h, w, S) /\ SumOf(w, S) = h[S]
    BY SumOfFact
<1> QED BY <1>1, SumRemoves

\* The sum without one member.
LEMMA SumRemove ==
    ASSUME NEW S, IsFiniteSet(S), NEW x \in S, NEW w, \A y \in S : w[y] \in Nat
    PROVE  SumOf(w, S) = w[x] + SumOf(w, S \ {x})
<1>1. IsFiniteSet(S \ {x}) /\ (S \ {x}) \cup {x} = S /\ x \notin S \ {x}
    BY FS_RemoveElement
<1> QED BY <1>1, SumAdd

\* Sums of the same numbers are the same.
LEMMA SumSame ==
    ASSUME NEW S, IsFiniteSet(S), NEW w, NEW v, \A x \in S : w[x] \in Nat /\ v[x] = w[x]
    PROVE  SumOf(v, S) = SumOf(w, S)
<1>1. PICK h : IsSum(h, w, S) /\ SumOf(w, S) = h[S]
    BY SumOfFact
<1>2. PICK f : IsSum(f, v, S) /\ SumOf(v, S) = f[S]
    BY SumOfFact
<1>3. IsSum(f, w, S)
    <2>1. \A s \in SUBSET S : s # {} => v[CHOOSE x \in s : TRUE] = w[CHOOSE x \in s : TRUE]
        OBVIOUS
    <2> QED BY <1>2, <2>1 DEF IsSum
<1> QED BY <1>1, <1>2, <1>3, SumLocal

\* Fewer members do not sum to more.
LEMMA SumSubset ==
    ASSUME NEW S, IsFiniteSet(S), NEW w, \A x \in S : w[x] \in Nat, NEW T \in SUBSET S
    PROVE  SumOf(w, T) <= SumOf(w, S)
<1> DEFINE D == {s \in SUBSET S : SumOf(w, s \cap T) <= SumOf(w, s)}
<1>1. \A s \in SUBSET S : IsFiniteSet(s) /\ SumOf(w, s) \in Nat
    BY FS_Subset, SumType
<1>2. {} \in D
    <2>1. {} \cap T = {} /\ SumOf(w, {}) = 0
        BY SumEmpty
    <2> QED BY <2>1
<1>3. ASSUME NEW s \in SUBSET S, NEW x \in S \ s, s \in D PROVE s \cup {x} \in D
    <2>1. SumOf(w, s \cup {x}) = w[x] + SumOf(w, s) /\ w[x] \in Nat
        BY <1>1, SumAdd
    <2>2. /\ SumOf(w, s) \in Nat /\ SumOf(w, s \cap T) \in Nat
          /\ SumOf(w, s \cap T) <= SumOf(w, s)
        BY <1>1, <1>3
    <2>3. CASE x \in T
        <3>1. (s \cup {x}) \cap T = (s \cap T) \cup {x} /\ x \notin s \cap T /\ IsFiniteSet(s \cap T)
            BY <1>1, <2>3
        <3>2. SumOf(w, (s \cap T) \cup {x}) = w[x] + SumOf(w, s \cap T)
            BY <3>1, SumAdd
        <3>3. SumOf(w, (s \cup {x}) \cap T) = w[x] + SumOf(w, s \cap T)
            BY <3>1, <3>2
        <3>4. w[x] + SumOf(w, s \cap T) <= w[x] + SumOf(w, s)
            BY <2>1, <2>2
        <3> QED BY <2>1, <3>3, <3>4
    <2>4. CASE x \notin T
        <3>1. (s \cup {x}) \cap T = s \cap T
            BY <2>4
        <3>2. SumOf(w, s \cap T) <= SumOf(w, s \cup {x})
            BY <2>1, <2>2
        <3> QED BY <3>1, <3>2
    <2> QED BY <2>3, <2>4
<1> HIDE DEF D
<1>4. S \in D
    BY <1>2, <1>3, SetInduction
<1>5. S \cap T = T
    OBVIOUS
<1> QED BY <1>4, <1>5 DEF D
=============================================================================
