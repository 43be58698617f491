---------------------------- MODULE SlidingWindow ----------------------------
(***************************************************************************)
(* SlidingWindow (raknet/src/session/sliding_window.rs) as operators on    *)
(* its state.  The code computes cwnd and ss_thresh in f64; here their     *)
(* fractions are cut off, as they are where the bandwidth is read.  The    *)
(* round-trip estimate only fixes when a datagram falls due again, which   *)
(* the users of this module leave open.                                    *)
(***************************************************************************)
EXTENDS EncapsulatedPackets

WindowState ==
    [cwnd : Nat, ss_thresh : Nat, next_congestion_block : SeqNum,
     backoff_this_block : BOOLEAN, unacked_bytes : Nat]

NewWindow(start) ==
    [cwnd |-> Mtu, ss_thresh |-> 0, next_congestion_block |-> start,
     backoff_this_block |-> FALSE, unacked_bytes |-> 0]

\* Mutant: the datagram header is not counted.
OnReliableSendBody(w, size) == [w EXCEPT !.unacked_bytes = @ + size - DatagramHeader]

OnReliableSend(w, size) == [w EXCEPT !.unacked_bytes = @ + size]

IsInSlowStart(w) == w.ss_thresh = 0 \/ w.cwnd <= w.ss_thresh

\* One datagram's share of the window, spread over a window's worth of ACKs.
Increment(cwnd) == (Mtu * Mtu) \div cwnd

OnAck(w, size, acked_seq) ==
    LET is_new_block == SeqGreater(acked_seq, w.next_congestion_block)
        grown == w.cwnd + Mtu
    IN  [w EXCEPT
            !.unacked_bytes = IF @ < size THEN 0 ELSE @ - size,
            !.backoff_this_block = @ /\ ~is_new_block,
            !.next_congestion_block = IF is_new_block THEN acked_seq ELSE @,
            !.cwnd = IF IsInSlowStart(w)
                     THEN IF w.ss_thresh # 0 /\ grown > w.ss_thresh
                          THEN w.ss_thresh + Increment(grown) ELSE grown
                     ELSE IF is_new_block THEN @ + Increment(@) ELSE @]

OnNak(w) ==
    IF w.backoff_this_block THEN w
    ELSE [w EXCEPT !.ss_thresh = (3 * w.cwnd) \div 4]

OnResend(w, cur_seq) ==
    IF w.backoff_this_block \/ w.cwnd <= 2 * Mtu THEN w
    ELSE [w EXCEPT !.ss_thresh = IF w.cwnd \div 2 < Mtu THEN Mtu ELSE w.cwnd \div 2,
                   !.cwnd = Mtu,
                   !.next_congestion_block = cur_seq,
                   !.backoff_this_block = TRUE]

RetransmissionBandwidth(w) == w.unacked_bytes

TransmissionBandwidth(w) ==
    IF w.unacked_bytes <= w.cwnd THEN w.cwnd - w.unacked_bytes ELSE 0
=============================================================================
