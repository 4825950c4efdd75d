---------------------------- MODULE MCLndPayments ----------------------------
(***************************************************************************)
(* Instances of LndPayments for TLC.                                       *)
(***************************************************************************)
EXTENDS LndPayments
=============================================================================
