---------------------------- MODULE SwapOutcome ----------------------------
(***************************************************************************)
(* What a swap promises its two parties, whatever happens inside swapd:    *)
(* the hash is paid at most once, a refund is signed only while no payment *)
(* is under way or made, and after that none is ever started.  A late      *)
(* payment, one that the node starts on its own account after swapd gave   *)
(* it up, is outside the promise about refunds.                            *)
(***************************************************************************)
VARIABLES
    payment,        \* "none", "inflight" or "complete"
    late,           \* the payment is one the node started on its own account
    refundSigned    \* a refund signature was handed out

vars == <<payment, late, refundSigned>>

Init == payment = "none" /\ late = FALSE /\ refundSigned = FALSE

\* Parts of a payment are sent; an attempt that failed may be followed by
\* another one.
Send ==
    /\ payment = "none" /\ payment' = "inflight"
    /\ ~refundSigned \/ late'
    /\ late' \in BOOLEAN /\ UNCHANGED refundSigned

Fail ==
    /\ payment = "inflight" /\ payment' = "none"
    /\ late' = FALSE /\ UNCHANGED refundSigned

Settle ==
    /\ payment = "inflight" /\ payment' = "complete"
    /\ UNCHANGED <<late, refundSigned>>

SignRefund ==
    /\ payment = "none" \/ late
    /\ refundSigned' = TRUE /\ UNCHANGED <<payment, late>>

Next == Send \/ Fail \/ Settle \/ SignRefund

Spec == Init /\ [][Next]_vars
=============================================================================
