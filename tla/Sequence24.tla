----------------------------- MODULE Sequence24 -----------------------------
(***************************************************************************)
(* The wrapping sequence numbers of the RakNet session                     *)
(* (raknet/src/protocol/types/sequence.rs).  Datagram, reliable and        *)
(* ordering indexes are all values of this type.  The code fixes the       *)
(* modulus at 2^24; it is a parameter here so that TLC can reach the wrap  *)
(* and TLAPS can argue about every even modulus.                           *)
(***************************************************************************)
EXTENDS Integers

CONSTANT Modulo      \* MODULO, 1 << 24 in the code

ASSUME ModuloAssumption ==
    /\ Modulo \in Nat
    /\ Modulo >= 4
    /\ Modulo % 2 = 0

Half == Modulo \div 2

SeqNum == 0 .. Modulo - 1

\* Mutant: the increment without the mask of new.
SeqNextUnmasked(a) == a + 1

\* new(self.0 + 1): the mask turns Modulo into 0.
SeqNext(a) == IF a = Modulo - 1 THEN 0 ELSE a + 1

SeqPrev(a) == IF a = 0 THEN Modulo - 1 ELSE a - 1

\* distance_to: the number of steps forward from a to b.
SeqDistance(a, b) == IF b >= a THEN b - a ELSE (Modulo - a) + b

\* Add<i32> for an offset of less than one lap, as collect_resendable_datagrams
\* and the slot arithmetic of the send window use it.
SeqAdd(a, n) == IF a + n >= Modulo THEN a + n - Modulo ELSE a + n

(***************************************************************************)
(* Ord::cmp.  a is newer than b when it is fewer than Half steps ahead of  *)
(* it; at exactly Half steps both directions answer Less.                  *)
(***************************************************************************)
SeqGreater(a, b) ==
    LET d == a - b
    IN  (d > 0 /\ d < Half) \/ d < -Half

SeqLess(a, b) == a # b /\ ~SeqGreater(a, b)

\* std::cmp::max and min over that order: max keeps its second argument and
\* min its first unless the comparison says Greater.
SeqMax(a, b) == IF SeqGreater(a, b) THEN a ELSE b
SeqMin(a, b) == IF SeqGreater(a, b) THEN b ELSE a

\* The n numbers that follow one another from a on.
SeqStretch(a, n) == {x \in SeqNum : SeqDistance(a, x) < n}
=============================================================================
