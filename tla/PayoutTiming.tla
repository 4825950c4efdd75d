---------------------------- MODULE PayoutTiming ----------------------------
(***************************************************************************)
(* The clock of a payout, in blocks.  pay_swap works out how long the      *)
(* lightning payment may stay pending from a block height it read earlier, *)
(* while blocks go on being found and deposits go on being recorded; the   *)
(* claim monitor later works out, by another formula, how many blocks it   *)
(* has left to claim before the user's refund path opens.                  *)
(*                                                                         *)
(* Heights are far from the limits of u32 and i64, so plain integers stand *)
(* for them; the saturating subtractions and the sign test are kept.       *)
(***************************************************************************)
EXTENDS Integers

CONSTANTS
    Outputs,            \* outputs that may be recorded for the swap address
    LockTime,           \* relative lock time of the refund path, in blocks
    MinClaimBlocks, MinViableCltv, MinConfirmations,    \* main.rs arguments
    FinalCltvs,         \* values of an invoice's min_final_cltv_expiry_delta
    MaxLag,             \* blocks found between get_blockheight and the moment
                        \* the node sends the payment, at most
    MaxHeight           \* bound on the block height

ASSUME TimingAssumption ==
    /\ LockTime \in Nat /\ MinClaimBlocks \in Nat
    /\ MinViableCltv \in Nat /\ MinConfirmations \in Nat
    /\ FinalCltvs \subseteq Nat
    /\ MaxLag \in Nat /\ MaxHeight \in Nat

VARIABLES
    height,     \* of bitcoind and of the node
    conf,       \* height of the block that confirms an output; 0: not recorded
    phase,      \* "idle", "listed", "checked", "sent" or "settled"
    listed,     \* the outputs get_txos_for_address returned to pay_swap
    seen,       \* the height pay_swap read
    selected,   \* the outputs paid for
    final,      \* min_final_cltv_expiry_delta of the invoice
    limit,      \* cltv_limit of the payment
    expiry,     \* height at which the payment's HTLC expires
    settledAt   \* height at which the preimage became known

request == <<listed, seen, selected, final, limit>>
vars == <<height, conf, phase, request, expiry, settledAt>>

SaturatingSub(a, b) == IF a > b THEN a - b ELSE 0

\* SwapState::blocks_left
SwapBlocksLeft(confHeight, current) == confHeight + LockTime - current

\* Txo::confirmations
Confirmations(confHeight, current) == SaturatingSub(current + 1, confHeight)

\* ClaimableUtxo::blocks_left
ClaimBlocksLeft(confHeight, current) == LockTime - Confirmations(confHeight, current)

-----------------------------------------------------------------------------
Recorded == {o \in Outputs : conf[o] > 0}

\* External: a block is found.  While a request is between reading the height
\* and sending, that happens MaxLag times at most.
BlockFound ==
    /\ height < MaxHeight
    /\ phase = "checked" => height < seen + MaxLag
    /\ height' = height + 1
    /\ UNCHANGED <<conf, phase, request, expiry, settledAt>>

\* A chain sync that stores the height of the block after.
OutputRecordedOneOff(o) ==
    /\ conf[o] = 0
    /\ \E h \in 1..height : conf' = [conf EXCEPT ![o] = h + 1]
    /\ UNCHANGED <<height, phase, request, expiry, settledAt>>

\* The chain sync records an output, of the last block or of an earlier one.
OutputRecorded(o) ==
    /\ conf[o] = 0
    /\ \E h \in 1..height : conf' = [conf EXCEPT ![o] = h]
    /\ UNCHANGED <<height, phase, request, expiry, settledAt>>

\* pay_swap reads the outputs of the address, before it reads the height.
ReadTxos ==
    /\ phase = "idle" /\ Recorded # {}
    /\ listed' = Recorded
    /\ phase' = "listed"
    /\ UNCHANGED <<height, conf, seen, selected, final, limit, expiry, settledAt>>

\* A pay_swap that counts from the newest deposit.
CheckFromNewest(f) ==
    /\ phase = "listed"
    /\ \E newest \in listed :
          /\ \A o \in listed : conf[o] <= conf[newest]
          /\ LET blocksLeft == SwapBlocksLeft(conf[newest], height)
                 payout == SaturatingSub(blocksLeft, MinClaimBlocks)
             IN  /\ blocksLeft >= 0
                 /\ payout # 0
                 /\ SaturatingSub(payout, f) >= MinViableCltv
                 /\ limit' = payout
    /\ \E S \in SUBSET {o \in listed :
                           Confirmations(conf[o], height) >= MinConfirmations} :
          /\ S # {}
          /\ selected' = S
    /\ seen' = height /\ final' = f
    /\ phase' = "checked"
    /\ UNCHANGED <<height, conf, listed, expiry, settledAt>>

\* pay_swap reads the height and checks.  The blocks left count from the oldest
\* deposit; what is left after MinClaimBlocks bounds the payment.  The amount filters
\* and the chain filter may drop any of the sufficiently confirmed outputs.
Check(f) ==
    /\ phase = "listed"
    /\ \E oldest \in listed :
          /\ \A o \in listed : conf[oldest] <= conf[o]
          /\ LET blocksLeft == SwapBlocksLeft(conf[oldest], height)
                 payout == SaturatingSub(blocksLeft, MinClaimBlocks)
             IN  /\ blocksLeft >= 0
                 /\ payout # 0
                 /\ SaturatingSub(payout, f) >= MinViableCltv
                 /\ limit' = payout
    /\ \E S \in SUBSET {o \in listed :
                           Confirmations(conf[o], height) >= MinConfirmations} :
          /\ S # {}
          /\ selected' = S
    /\ seen' = height /\ final' = f
    /\ phase' = "checked"
    /\ UNCHANGED <<height, conf, listed, expiry, settledAt>>

\* External: the node finds a route whose total delay fits both the invoice
\* and the limit (maxdelay, cltv_limit), counted from the current height.
Send ==
    /\ phase = "checked"
    /\ \E delay \in final..limit : expiry' = height + delay
    /\ phase' = "sent"
    /\ UNCHANGED <<height, conf, request, settledAt>>

\* External: the payment succeeds before its HTLC expires.
Settle ==
    /\ phase = "sent" /\ height <= expiry
    /\ settledAt' = height
    /\ phase' = "settled"
    /\ UNCHANGED <<height, conf, request, expiry>>

\* A check or a call fails, the swap is locked, or the payment fails.
Fail ==
    /\ phase \in {"listed", "checked", "sent"}
    /\ phase' = "idle"
    /\ UNCHANGED <<height, conf, request, expiry, settledAt>>

Init ==
    /\ height = 0
    /\ conf = [o \in Outputs |-> 0]
    /\ phase = "idle"
    /\ listed = {} /\ seen = 0 /\ selected = {} /\ final = 0 /\ limit = 0
    /\ expiry = 0 /\ settledAt = 0

Next ==
    \/ BlockFound
    \/ \E o \in Outputs : OutputRecorded(o)
    \/ ReadTxos
    \/ \E f \in FinalCltvs : Check(f)
    \/ Send \/ Settle \/ Fail

Spec == Init /\ [][Next]_vars

-----------------------------------------------------------------------------
\* A request passed the checks and has not failed.
Requested == phase \in {"checked", "sent", "settled"}

\* Types; heights that were read or counted are not in the future.
TypeOK ==
    /\ height \in 0..MaxHeight
    /\ conf \in [Outputs -> 0..height]
    /\ phase \in {"idle", "listed", "checked", "sent", "settled"}
    /\ listed \in SUBSET Recorded
    /\ seen \in 0..height
    /\ selected \in SUBSET Recorded
    /\ final \in Nat /\ limit \in Nat /\ expiry \in Nat
    /\ settledAt \in 0..height

\* When the preimage becomes known, the claim monitor's own count still leaves
\* MinClaimBlocks for every output that was paid for, less the block by which
\* the two formulas differ and the blocks found since the height was read
\* (min_claim_blocks: "Minimum number of blocks needed to claim a utxo").
ClaimWindow ==
    phase = "settled" =>
        \A o \in selected :
            ClaimBlocksLeft(conf[o], settledAt) + 1 + MaxLag >= MinClaimBlocks

-----------------------------------------------------------------------------
(***************************************************************************)
(* The inductive invariant: from the check on, the limit is what every     *)
(* output that is paid for can spare; the height that was read is at most  *)
(* MaxLag blocks old when the payment is sent; the payment ends in time.   *)
(***************************************************************************)
LimitIsSpare ==
    Requested => \A o \in selected :
        /\ conf[o] <= seen
        /\ limit + MinClaimBlocks <= SwapBlocksLeft(conf[o], seen)

EndsInTime ==
    /\ phase = "checked" => height <= seen + MaxLag
    /\ phase \in {"sent", "settled"} => expiry <= seen + MaxLag + limit
    /\ phase = "settled" => settledAt <= expiry

TimingInv == TypeOK /\ LimitIsSpare /\ EndsInTime
=============================================================================
