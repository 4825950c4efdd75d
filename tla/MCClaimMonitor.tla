--------------------------- MODULE MCClaimMonitor ---------------------------
(***************************************************************************)
(* Instances of ClaimMonitor for TLC: two outputs, of one transaction or   *)
(* of two, to one swap or to two.                                          *)
(***************************************************************************)
EXTENDS ClaimMonitor

MCOutputs == {"o1", "o2"}
OneSwap == [o \in MCOutputs |-> "swap"]
TwoSwaps == [o \in MCOutputs |-> o]
OneTx == [o \in MCOutputs |-> "tx"]
TwoTxs == [o \in MCOutputs |-> o]
ManyAddresses == 1..6
=============================================================================
