--------------------------- MODULE MCSwapPayments ---------------------------
(***************************************************************************)
(* Instances of SwapPayments for TLC.                                      *)
(***************************************************************************)
EXTENDS SwapPayments, TLC

\* Requests, and outputs, are interchangeable; used where no liveness property
\* is checked.
Symmetry ==
    Permutations(PayReqs) \cup Permutations(RefundReqs) \cup Permutations(Outputs)
=============================================================================
