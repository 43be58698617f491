--------------------------- MODULE ReliableTracker ---------------------------
(***************************************************************************)
(* ReliableTracker (raknet/src/session/reliable_tracker.rs) as operators   *)
(* on its state: base, the next reliable index expected, and window, the   *)
(* VecDeque<bool> in which see() finds index base + k at place k.          *)
(***************************************************************************)
EXTENDS Sequence24, Sequences, FiniteSetsExt

CONSTANT MaxWindow      \* reliable_window

ASSUME MaxWindowAssumption == MaxWindow \in Nat

TrackerState == [base : SeqNum, window : Seq(BOOLEAN)]

NewTracker(start) == [base |-> start, window |-> <<>>]

\* The test that the index lies behind base compares the forward distance
\* with 0, which only base itself has, and base was ruled out before.
HasSeen(t, ridx) ==
    LET dist == SeqDistance(t.base, ridx)
    IN  /\ ridx # t.base
        /\ \/ dist = 0
           \/ /\ dist <= MaxWindow
              /\ dist <= Len(t.window)
              /\ t.window[dist]

\* advance_base pops the leading entries of the window that are set.
LeadingSeen(window) == Min({n \in 0 .. Len(window) : n = Len(window) \/ ~window[n + 1]})

\* resize(offset + 1, false), then set the entry.
MarkSeen(window, dist) ==
    [k \in 1 .. (IF Len(window) < dist THEN dist ELSE Len(window)) |->
        k = dist \/ (k <= Len(window) /\ window[k])]

See(t, ridx) ==
    LET dist == SeqDistance(t.base, ridx)
        n == LeadingSeen(t.window)
    IN  IF ridx = t.base
        THEN [base |-> SeqAdd(SeqNext(t.base), n),
              window |-> SubSeq(t.window, n + 1, Len(t.window))]
        ELSE IF dist > MaxWindow THEN t
        ELSE [t EXCEPT !.window = MarkSeen(@, dist)]
=============================================================================
