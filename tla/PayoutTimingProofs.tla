------------------------- MODULE PayoutTimingProofs -------------------------
(***************************************************************************)
(* The timing properties of PayoutTiming, for every lock time, every       *)
(* setting of the arguments of main.rs and any number of outputs.          *)
(***************************************************************************)
EXTENDS PayoutTiming, TLAPS

LEMMA InitTimingInv == Init => TimingInv
BY TimingAssumption
   DEF Init, TimingInv, TypeOK, LimitIsSpare, EndsInTime, Requested,
       Recorded

\* The check establishes the budget: the oldest deposit bounds all the others.
LEMMA CheckTimingInv ==
    ASSUME TimingInv, NEW f \in FinalCltvs, Check(f)
    PROVE  TimingInv'
<1> USE TimingAssumption
<1>1. PICK oldest \in listed :
         /\ \A o \in listed : conf[oldest] <= conf[o]
         /\ SwapBlocksLeft(conf[oldest], height) >= 0
         /\ SaturatingSub(SwapBlocksLeft(conf[oldest], height), MinClaimBlocks) # 0
         /\ limit' = SaturatingSub(SwapBlocksLeft(conf[oldest], height), MinClaimBlocks)
  BY DEF Check
<1>2. /\ oldest \in Outputs /\ conf[oldest] \in Nat /\ height \in Nat
      /\ \A o \in Outputs : conf[o] \in 0..height
      /\ listed \subseteq Recorded
  BY DEF TimingInv, TypeOK, Recorded
<1>3. /\ SwapBlocksLeft(conf[oldest], height) \in Int
      /\ SwapBlocksLeft(conf[oldest], height) = conf[oldest] + LockTime - height
  BY <1>2 DEF SwapBlocksLeft
<1>4. limit' \in Nat /\ limit' = conf[oldest] + LockTime - height - MinClaimBlocks
  <2> DEFINE left == SwapBlocksLeft(conf[oldest], height)
  <2>1. /\ left \in Int /\ left = conf[oldest] + LockTime - height
        /\ limit' = SaturatingSub(left, MinClaimBlocks)
        /\ SaturatingSub(left, MinClaimBlocks) # 0
    BY <1>1, <1>3
  <2> HIDE DEF left
  <2>2. limit' \in Nat /\ limit' = left - MinClaimBlocks
    BY <2>1 DEF SaturatingSub
  <2> QED BY <2>1, <2>2, <1>2
<1>5. /\ selected' \in SUBSET listed /\ seen' = height /\ final' = f
      /\ phase' = "checked"
      /\ UNCHANGED <<height, conf, listed, expiry, settledAt>>
  BY DEF Check
<1>6. TypeOK'
  BY <1>2, <1>4, <1>5 DEF TimingInv, TypeOK, Recorded
<1>7. LimitIsSpare'
  <2> SUFFICES ASSUME NEW o \in selected'
               PROVE  /\ conf[o] <= height
                      /\ limit' + MinClaimBlocks <= conf[o] + LockTime - height
    BY <1>5 DEF LimitIsSpare, SwapBlocksLeft
  <2>1. o \in listed /\ o \in Outputs
    BY <1>2, <1>5 DEF Recorded
  <2> QED BY <2>1, <1>1, <1>2, <1>4
<1>8. EndsInTime'
  BY <1>2, <1>5 DEF EndsInTime
<1> QED BY <1>6, <1>7, <1>8 DEF TimingInv

LEMMA NextTimingInv == TimingInv /\ [Next]_vars => TimingInv'
<1> SUFFICES ASSUME TimingInv, [Next]_vars PROVE TimingInv'
  OBVIOUS
<1> USE TimingAssumption
    DEF TimingInv, TypeOK, LimitIsSpare, EndsInTime, Requested,
        Recorded, SwapBlocksLeft, request
<1>1. CASE BlockFound
  BY <1>1 DEF BlockFound
<1>2. ASSUME NEW o \in Outputs, OutputRecorded(o) PROVE TimingInv'
  <2>1. PICK h \in 1..height : conf' = [conf EXCEPT ![o] = h]
    BY <1>2 DEF OutputRecorded
  <2>2. UNCHANGED <<height, phase, request, expiry, settledAt>> /\ conf[o] = 0
    BY <1>2 DEF OutputRecorded
  <2>3. \A u \in selected : conf'[u] = conf[u] /\ u # o
    BY <2>1, <2>2
  <2> QED BY <2>1, <2>2, <2>3
<1>3. ASSUME NEW f \in FinalCltvs, Check(f) PROVE TimingInv'
  BY <1>3, CheckTimingInv
<1>4. CASE Send
  BY <1>4 DEF Send
<1>5. CASE Settle
  BY <1>5 DEF Settle
<1>6. CASE Fail
  BY <1>6 DEF Fail
<1>7. CASE ReadTxos
  BY <1>7 DEF ReadTxos
<1>8. CASE UNCHANGED vars
  BY <1>8 DEF vars
<1> QED BY <1>1, <1>2, <1>3, <1>4, <1>5, <1>6, <1>7, <1>8 DEF Next

\* The inductive invariant holds: the limit computed from a stale height and
\* the oldest deposit stays within what every paid output can spare.
THEOREM TimingInvariance == Spec => []TimingInv
BY InitTimingInv, NextTimingInv, PTL DEF Spec

\* The types, and with them that heights that were listed, used as the start of
\* the payment or reached at its end never lie above the chain's.
THEOREM TimingTypeCorrect == Spec => []TypeOK
<1>1. TimingInv => TypeOK
  BY DEF TimingInv
<1> QED BY <1>1, TimingInvariance, PTL

\* The claim monitor keeps MinClaimBlocks, less one and the lag.
THEOREM ClaimWindowKept == Spec => []ClaimWindow
<1>1. TimingInv => ClaimWindow
  <2> SUFFICES ASSUME TimingInv, phase = "settled", NEW o \in selected
               PROVE  ClaimBlocksLeft(conf[o], settledAt) + 1 + MaxLag >= MinClaimBlocks
    BY DEF ClaimWindow
  <2>1. /\ conf[o] \in Nat /\ settledAt \in Nat /\ seen \in Nat /\ limit \in Nat
        /\ expiry \in Nat
    BY TimingAssumption DEF TimingInv, TypeOK, Recorded
  <2>2. /\ conf[o] <= seen
        /\ limit + MinClaimBlocks <= conf[o] + LockTime - seen
        /\ settledAt <= seen + MaxLag + limit
    BY <2>1, TimingAssumption
       DEF TimingInv, LimitIsSpare, EndsInTime, Requested, SwapBlocksLeft
  <2>3. CASE settledAt + 1 > conf[o]
    BY <2>1, <2>2, <2>3, TimingAssumption
       DEF ClaimBlocksLeft, Confirmations, SaturatingSub
  <2>4. CASE ~(settledAt + 1 > conf[o])
    BY <2>1, <2>2, <2>4, TimingAssumption
       DEF ClaimBlocksLeft, Confirmations, SaturatingSub
  <2> QED BY <2>3, <2>4
<1> QED BY <1>1, TimingInvariance, PTL
=============================================================================
