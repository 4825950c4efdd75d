------------------------- MODULE SwapPaymentsProofs -------------------------
(***************************************************************************)
(* Proofs about SwapPayments, for any number of requests, outputs and      *)
(* processes.                                                              *)
(***************************************************************************)
EXTENDS SwapPayments, TLAPS

\* The initial state of the swap is well typed.
LEMMA TypeInit == Init => TypeOK
<1> SUFFICES ASSUME Init PROVE TypeOK
    OBVIOUS
<1>1. held \in [Procs -> SUBSET (PayReqs \X Results)]
      BY DEF Init
<1>2. \A p \in Procs : held[p] = {}
      BY DEF Init
<1> QED BY <1>1, <1>2 DEF Init, TypeOK, NodeStates, PayStates, RefundStates

\* Every step of a pay_swap handler keeps the types.
LEMMA TypePay == ASSUME TypeOK, NEW l \in PayReqs, PayHandler(l) PROVE TypeOK'
<1> USE DEF TypeOK, PayStates, Results, db, chain, hist, pm
<1>1. CASE PaySelect(l) BY <1>1 DEF PaySelect
<1>2. CASE PayLock(l) BY <1>2 DEF PayLock, LockAddPaymentAttempt
<1>3. CASE PayLockRefused(l) BY <1>3 DEF PayLockRefused
<1>4. CASE PayCall(l) BY <1>4 DEF PayCall, NodeStates
<1>5. CASE PayCallRefused(l) BY <1>5 DEF PayCallRefused
<1>6. CASE PayReply(l) BY <1>6 DEF PayReply
<1>7. CASE PayToWait(l) BY <1>7 DEF PayToWait
<1>8. CASE WaitFirstList(l) BY <1>8 DEF WaitFirstList
<1>9. CASE WaitSecondList(l) BY <1>9 DEF WaitSecondList
<1>10. CASE PayStore(l) BY <1>10 DEF PayStore, UnlockAddPaymentResult, PreimageAfter
<1>11. CASE PayAbandon(l) BY <1>11 DEF PayAbandon
<1> QED BY <1>1, <1>2, <1>3, <1>4, <1>5, <1>6, <1>7, <1>8, <1>9, <1>10, <1>11
        DEF PayHandler

\* Every step of a refund_swap handler keeps the types.
LEMMA TypeRefund ==
    ASSUME TypeOK, NEW r \in RefundReqs, RefundHandler(r) PROVE TypeOK'
<1> USE DEF TypeOK, RefundStates, db, chain, hist, pm
<1>1. CASE RefundLock(r) BY <1>1 DEF RefundLock, LockSwapRefund
<1>2. CASE RefundLockRefused(r) BY <1>2 DEF RefundLockRefused
<1>3. CASE RefundFirstList(r) BY <1>3 DEF RefundFirstList
<1>4. CASE RefundSecondList(r) BY <1>4 DEF RefundSecondList
<1>5. CASE RefundCheckFails(r) BY <1>5 DEF RefundCheckFails
<1>6. CASE RefundUnlock(r) BY <1>6 DEF RefundUnlock, UnlockSwapRefund
<1>7. CASE RefundAbandon(r) BY <1>7 DEF RefundAbandon
<1> QED BY <1>1, <1>2, <1>3, <1>4, <1>5, <1>6, <1>7 DEF RefundHandler

\* Every step of the node keeps the types.
LEMMA TypeNode == ASSUME TypeOK, NEW l \in PayReqs, Node(l) PROVE TypeOK'
<1> USE DEF TypeOK, NodeStates, PayStates, db, chain, hist, pm
<1>1. CASE NodeSend(l) BY <1>1 DEF NodeSend
<1>2. CASE NodePartsFail(l) BY <1>2 DEF NodePartsFail, AnswerWaiting
<1>3. CASE NodeGiveUp(l) BY <1>3 DEF NodeGiveUp
<1>4. CASE NodeSettle(l) BY <1>4 DEF NodeSettle, AnswerWaiting
<1> QED BY <1>1, <1>2, <1>3, <1>4 DEF Node

\* Every step of a process and its historical monitor keeps the types.
LEMMA TypeProcess == ASSUME TypeOK, NEW p \in Procs, Process(p) PROVE TypeOK'
<1> USE DEF TypeOK, db, chain, hist, pm
<1>1. CASE ProcStart(p) BY <1>1 DEF ProcStart, UnhandledPaymentAttempts
<1>2. CASE ProcStop(p) BY <1>2 DEF ProcStop, PayStates, RefundStates
<1>3. ASSUME NEW l \in PayReqs, HistQuery(p, l) PROVE TypeOK'
      BY <1>3 DEF HistQuery, Results
<1>4. CASE HistStore(p)
  <2>1. PICK l \in PayReqs, res \in Results :
            /\ UnlockAddPaymentResult(l, res)
            /\ todo' = [todo EXCEPT ![p] = @ \ {l}]
        BY <1>4 DEF HistStore
  <2> QED BY <1>4, <2>1 DEF HistStore, UnlockAddPaymentResult, PreimageAfter
<1>5. CASE HistRoundEnds(p) BY <1>5 DEF HistRoundEnds
<1>6. CASE HistRoundFails(p) BY <1>6 DEF HistRoundFails
<1> QED BY <1>1, <1>2, <1>3, <1>4, <1>5, <1>6 DEF Process

\* Every step of the preimage monitor and of the chain tables keeps the types.
LEMMA TypeMonitors ==
    ASSUME TypeOK, PreimageMonitor \/ \E o \in Outputs : ChainTables(o)
    PROVE  TypeOK'
<1> USE DEF TypeOK, db, chain, hist, pm
<1>1. CASE PreimageRead BY <1>1 DEF PreimageRead
<1>2. CASE PreimageFound BY <1>2 DEF PreimageFound
<1>3. CASE PreimageNotFound BY <1>3 DEF PreimageNotFound
<1>4. CASE PreimageStore BY <1>4 DEF PreimageStore, UnlockAddPaymentResult, PreimageAfter
<1>5. CASE PreimageStoreFails BY <1>5 DEF PreimageStoreFails
<1>6. ASSUME NEW o \in Outputs, ChainTables(o) PROVE TypeOK'
      BY <1>6 DEF ChainTables, OutputConfirmed, OutputSpent, OutputReorged
<1> QED BY <1>1, <1>2, <1>3, <1>4, <1>5, <1>6 DEF PreimageMonitor

\* The variables of the model keep their types along every behaviour.
THEOREM TypeCorrect == Spec => []TypeOK
<1>1. ASSUME TypeOK, [Next]_vars PROVE TypeOK'
  <2>1. CASE UNCHANGED vars
        BY <1>1, <2>1 DEF TypeOK, vars, db, chain, hist, pm
  <2>2. CASE Next
        BY <1>1, <2>2, TypePay, TypeRefund, TypeNode, TypeProcess, TypeMonitors
        DEF Next
  <2> QED BY <1>1, <2>1, <2>2
<1> QED BY <1>1, TypeInit, PTL DEF Spec

-----------------------------------------------------------------------------
(***************************************************************************)
(* GeneralInv is inductive.                                                *)
(***************************************************************************)

\* A step that changes neither the database nor the node, and puts no success
\* and no refund anywhere new, keeps the general invariant.
LEMMA GeneralPay ==
    ASSUME GeneralInv, NEW l \in PayReqs, PayHandler(l) PROVE GeneralInv'
<1>0. TypeOK'
      BY TypePay DEF GeneralInv
<1> USE <1>0 DEF GeneralInv, TypeOK, LockExclusion, OneActive, SuccessIsPaid,
            RecordedMeansPaid, RefundHoldsLock, AnyComplete, Complete,
            db, chain, hist, pm
<1>1. CASE PaySelect(l) BY <1>1 DEF PaySelect
<1>2. CASE PayLock(l) BY <1>2 DEF PayLock, LockAddPaymentAttempt
<1>3. CASE PayLockRefused(l) BY <1>3 DEF PayLockRefused
<1>4. CASE PayCall(l) BY <1>4 DEF PayCall, NodeFree
<1>5. CASE PayCallRefused(l) BY <1>5 DEF PayCallRefused
<1>6. CASE PayReply(l) BY <1>6 DEF PayReply
<1>7. CASE PayToWait(l) BY <1>7 DEF PayToWait
<1>8. CASE WaitFirstList(l) BY <1>8 DEF WaitFirstList
<1>9. CASE WaitSecondList(l) BY <1>9 DEF WaitSecondList
<1>10. CASE PayStore(l) BY <1>10 DEF PayStore, UnlockAddPaymentResult, PreimageAfter
<1>11. CASE PayAbandon(l) BY <1>11 DEF PayAbandon
<1> QED BY <1>1, <1>2, <1>3, <1>4, <1>5, <1>6, <1>7, <1>8, <1>9, <1>10, <1>11
        DEF PayHandler

\* Likewise the steps of refund_swap: the lock is there before the check, and
\* one refund removes no lock but its own.
LEMMA GeneralRefund ==
    ASSUME GeneralInv, NEW r \in RefundReqs, RefundHandler(r) PROVE GeneralInv'
<1>0. TypeOK'
      BY TypeRefund DEF GeneralInv
<1> USE <1>0 DEF GeneralInv, TypeOK, LockExclusion, OneActive, SuccessIsPaid,
            RecordedMeansPaid, RefundHoldsLock, AnyComplete, Complete,
            db, chain, hist, pm
<1>1. CASE RefundLock(r) BY <1>1 DEF RefundLock, LockSwapRefund
<1>2. CASE RefundLockRefused(r) BY <1>2 DEF RefundLockRefused
<1>3. CASE RefundFirstList(r) BY <1>3 DEF RefundFirstList
<1>4. CASE RefundSecondList(r) BY <1>4 DEF RefundSecondList
<1>5. CASE RefundCheckFails(r) BY <1>5 DEF RefundCheckFails
<1>6. CASE RefundUnlock(r) BY <1>6 DEF RefundUnlock, UnlockSwapRefund
<1>7. CASE RefundAbandon(r) BY <1>7 DEF RefundAbandon
<1> QED BY <1>1, <1>2, <1>3, <1>4, <1>5, <1>6, <1>7 DEF RefundHandler

\* The node: a completed payment stays completed.
LEMMA GeneralNode ==
    ASSUME GeneralInv, NEW l \in PayReqs, Node(l) PROVE GeneralInv'
<1>0. TypeOK'
      BY TypeNode DEF GeneralInv
<1> USE <1>0 DEF GeneralInv, TypeOK, LockExclusion, OneActive, SuccessIsPaid,
            RecordedMeansPaid, RefundHoldsLock, AnyComplete, Complete, Pending,
            db, chain, hist, pm
<1>1. CASE NodeSend(l) BY <1>1 DEF NodeSend, NodeFree
<1>2. CASE NodePartsFail(l) BY <1>2 DEF NodePartsFail, AnswerWaiting
<1>3. CASE NodeGiveUp(l) BY <1>3 DEF NodeGiveUp
<1>4. CASE NodeSettle(l) BY <1>4 DEF NodeSettle, AnswerWaiting
<1> QED BY <1>1, <1>2, <1>3, <1>4 DEF Node

\* Processes and their historical monitors.
LEMMA GeneralProcess ==
    ASSUME GeneralInv, NEW p \in Procs, Process(p) PROVE GeneralInv'
<1>0. TypeOK'
      BY TypeProcess DEF GeneralInv
<1> USE <1>0 DEF GeneralInv, TypeOK, LockExclusion, OneActive, SuccessIsPaid,
            RecordedMeansPaid, RefundHoldsLock, AnyComplete, Complete,
            db, chain, hist, pm
<1>1. CASE ProcStart(p) BY <1>1 DEF ProcStart
<1>2. CASE ProcStop(p) BY <1>2 DEF ProcStop
<1>3. ASSUME NEW l \in PayReqs, HistQuery(p, l) PROVE GeneralInv'
      BY <1>3 DEF HistQuery
<1>4. CASE HistStore(p)
  <2>1. PICK l \in PayReqs, res \in Results :
            held[p] = {<<l, res>>} /\ UnlockAddPaymentResult(l, res)
        BY <1>4 DEF HistStore
  <2>2. \A q \in Procs : held'[q] \subseteq held[q]
        BY <1>4 DEF HistStore
  <2>3. res # "failure" => AnyComplete
        BY <2>1 DEF Results
  <2>4. SuccessIsPaid'
        BY <1>4, <2>2 DEF HistStore
  <2>5. RecordedMeansPaid'
        BY <1>4, <2>1, <2>3 DEF HistStore, UnlockAddPaymentResult, PreimageAfter
  <2>6. LockExclusion' /\ OneActive' /\ RefundHoldsLock'
        BY <1>4, <2>1 DEF HistStore, UnlockAddPaymentResult, PreimageAfter
  <2> QED BY <2>4, <2>5, <2>6
<1>5. CASE HistRoundEnds(p) BY <1>5 DEF HistRoundEnds
<1>6. CASE HistRoundFails(p) BY <1>6 DEF HistRoundFails
<1> QED BY <1>1, <1>2, <1>3, <1>4, <1>5, <1>6 DEF Process

\* The preimage monitor and the chain tables.
LEMMA GeneralMonitors ==
    ASSUME GeneralInv, PreimageMonitor \/ \E o \in Outputs : ChainTables(o)
    PROVE  GeneralInv'
<1>0. TypeOK'
      BY TypeMonitors DEF GeneralInv
<1> USE <1>0 DEF GeneralInv, TypeOK, LockExclusion, OneActive, SuccessIsPaid,
            RecordedMeansPaid, RefundHoldsLock, AnyComplete, Complete,
            db, chain, hist, pm
<1>1. CASE PreimageRead BY <1>1 DEF PreimageRead
<1>2. CASE PreimageFound BY <1>2 DEF PreimageFound
<1>3. CASE PreimageNotFound BY <1>3 DEF PreimageNotFound
<1>4. CASE PreimageStore BY <1>4 DEF PreimageStore, UnlockAddPaymentResult, PreimageAfter
<1>5. CASE PreimageStoreFails BY <1>5 DEF PreimageStoreFails
<1>6. ASSUME NEW o \in Outputs, ChainTables(o) PROVE GeneralInv'
      BY <1>6 DEF ChainTables, OutputConfirmed, OutputSpent, OutputReorged
<1> QED BY <1>1, <1>2, <1>3, <1>4, <1>5, <1>6 DEF PreimageMonitor

\* GeneralInv holds along every behaviour, in every deployment.
THEOREM GeneralInvariance == Spec => []GeneralInv
<1>1. Init => GeneralInv
  <2> SUFFICES ASSUME Init PROVE GeneralInv
      OBVIOUS
  <2>1. TypeOK BY TypeInit
  <2>2. LockExclusion /\ OneActive /\ RecordedMeansPaid /\ RefundHoldsLock
        BY DEF Init, LockExclusion, OneActive, RecordedMeansPaid, RefundHoldsLock
  <2>3. SuccessIsPaid BY DEF Init, SuccessIsPaid
  <2> QED BY <2>1, <2>2, <2>3 DEF GeneralInv
<1>2. ASSUME GeneralInv, [Next]_vars PROVE GeneralInv'
  <2>1. CASE UNCHANGED vars
        BY <1>2, <2>1
        DEF GeneralInv, TypeOK, LockExclusion, OneActive, SuccessIsPaid,
            RecordedMeansPaid, RefundHoldsLock, AnyComplete, Complete,
            vars, db, chain, hist, pm
  <2>2. CASE Next
        BY <1>2, <2>2, GeneralPay, GeneralRefund, GeneralNode, GeneralProcess,
           GeneralMonitors
        DEF Next
  <2> QED BY <1>2, <2>1, <2>2
<1> QED BY <1>1, <1>2, PTL DEF Spec

\* swap_locks holds one payment lock at most and never mixes payment and refund
\* locks, for any number of requests, processes and node behaviours: what the
\* row lock and the count in lock_add_payment_attempt and lock_swap_refund are
\* for.
THEOREM LocksExclude == Spec => []LockExclusion
  BY GeneralInvariance, PTL DEF GeneralInv

\* A recorded preimage or success is backed by a payment the node made.
THEOREM RecordsAreTrue == Spec => []RecordedMeansPaid
  BY GeneralInvariance, PTL DEF GeneralInv

\* A refund that was signed stays so: its handler has ended.
LEMMA SignedIsFinal ==
    ASSUME TypeOK, [Next]_vars, NEW r \in RefundReqs, refund[r] = "signed"
    PROVE  refund'[r] = "signed"
<1> USE DEF TypeOK, RefundEnded, db, chain, hist, pm
<1>1. CASE UNCHANGED vars BY <1>1 DEF vars
<1>2. ASSUME NEW l \in PayReqs, PayHandler(l) PROVE refund' = refund
      BY <1>2 DEF PayHandler, PaySelect, PayLock, PayLockRefused, PayCall,
                  PayCallRefused, PayReply, PayToWait, WaitFirstList,
                  WaitSecondList, PayStore, PayAbandon
<1>3. ASSUME NEW l \in PayReqs, Node(l) PROVE refund' = refund
      BY <1>3 DEF Node, NodeSend, NodePartsFail, NodeGiveUp, NodeSettle
<1>4. ASSUME NEW q \in RefundReqs, RefundHandler(q) PROVE refund'[r] = "signed"
      BY <1>4 DEF RefundHandler, RefundLock, RefundLockRefused,
                  RefundFirstList, RefundSecondList, RefundCheckFails,
                  RefundUnlock, RefundAbandon
<1>5. ASSUME NEW p \in Procs, Process(p) PROVE refund'[r] = "signed"
      BY <1>5 DEF Process, ProcStart, ProcStop, HistQuery, HistStore,
                  HistRoundEnds, HistRoundFails
<1>6. CASE PreimageMonitor
      BY <1>6 DEF PreimageMonitor, PreimageRead, PreimageFound,
                  PreimageNotFound, PreimageStore, PreimageStoreFails
<1>7. ASSUME NEW o \in Outputs, ChainTables(o) PROVE refund' = refund
      BY <1>7 DEF ChainTables, OutputConfirmed, OutputSpent, OutputReorged
<1> QED BY <1>1, <1>2, <1>3, <1>4, <1>5, <1>6, <1>7 DEF Next

\* The lock of a refund that was signed stays for ever.
THEOREM SignedLockStays == Spec => SignedStaysLocked
<1>1. ASSUME GeneralInv, GeneralInv', [Next]_vars
      PROVE  [\A r \in RefundReqs :
                 refund[r] = "signed" => r \in refundLocks /\ r \in refundLocks']_vars
  <2> SUFFICES ASSUME NEW r \in RefundReqs, refund[r] = "signed"
               PROVE  r \in refundLocks /\ r \in refundLocks'
      OBVIOUS
  <2>1. r \in refundLocks
        BY <1>1 DEF GeneralInv, RefundHoldsLock
  <2>2. refund'[r] = "signed" => r \in refundLocks'
        BY <1>1 DEF GeneralInv, RefundHoldsLock
  <2>3. TypeOK
        BY <1>1 DEF GeneralInv
  <2>4. refund'[r] = "signed"
        BY <1>1, <2>3, SignedIsFinal
  <2> QED BY <2>1, <2>2, <2>4
<1> QED BY <1>1, GeneralInvariance, PTL DEF Spec, SignedStaysLocked

-----------------------------------------------------------------------------
(***************************************************************************)
(* StandaloneInv is inductive relative to GeneralInv, when all of swapd is *)
(* one process.                                                            *)
(***************************************************************************)

\* The steps of pay_swap.
LEMMA StandalonePay ==
    ASSUME Standalone, GeneralInv, StandaloneInv, NEW l \in PayReqs, PayHandler(l)
    PROVE  StandaloneInv'
<1>0. Server \in Procs
      BY DEF Procs
<1> USE <1>0 DEF GeneralInv, TypeOK, LockExclusion, OneActive, SuccessIsPaid,
            RefundHoldsLock, StandaloneInv, HandlersNeedServer, AdoptedIsDead,
            CallersHoldLock, OnlyRetryUnlocks, RefundSawNone, AnyComplete,
            AnyPending, Complete, Pending, PayEnded, db, chain, hist, pm
<1>1. CASE PaySelect(l) BY <1>1 DEF PaySelect
<1>2. CASE PayLock(l) BY <1>2 DEF PayLock, LockAddPaymentAttempt
<1>3. CASE PayLockRefused(l) BY <1>3 DEF PayLockRefused
<1>4. CASE PayCall(l) BY <1>4 DEF PayCall, NodeFree
<1>5. CASE PayCallRefused(l) BY <1>5 DEF PayCallRefused
<1>6. CASE PayReply(l) BY <1>6 DEF PayReply
<1>7. CASE PayToWait(l) BY <1>7 DEF PayToWait
<1>8. CASE WaitFirstList(l) BY <1>8 DEF WaitFirstList
<1>9. CASE WaitSecondList(l) BY <1>9 DEF WaitSecondList
<1>10. CASE PayStore(l) BY <1>10 DEF PayStore, UnlockAddPaymentResult, PreimageAfter
<1>11. CASE PayAbandon(l) BY <1>11 DEF PayAbandon
<1> QED BY <1>1, <1>2, <1>3, <1>4, <1>5, <1>6, <1>7, <1>8, <1>9, <1>10, <1>11
        DEF PayHandler

\* The steps of refund_swap.
LEMMA StandaloneRefund ==
    ASSUME Standalone, GeneralInv, StandaloneInv,
           NEW r \in RefundReqs, RefundHandler(r)
    PROVE  StandaloneInv'
<1>0. Server \in Procs
      BY DEF Procs
<1> USE <1>0 DEF GeneralInv, TypeOK, LockExclusion, OneActive, SuccessIsPaid,
            RefundHoldsLock, StandaloneInv, HandlersNeedServer, AdoptedIsDead,
            CallersHoldLock, OnlyRetryUnlocks, RefundSawNone, AnyComplete,
            AnyPending, Complete, Pending, PayEnded, db, chain, hist, pm
<1>1. CASE RefundLock(r) BY <1>1 DEF RefundLock, LockSwapRefund
<1>2. CASE RefundLockRefused(r) BY <1>2 DEF RefundLockRefused
<1>3. CASE RefundFirstList(r) BY <1>3 DEF RefundFirstList
<1>4. CASE RefundSecondList(r) BY <1>4 DEF RefundSecondList
<1>5. CASE RefundCheckFails(r) BY <1>5 DEF RefundCheckFails
<1>6. CASE RefundUnlock(r) BY <1>6 DEF RefundUnlock, UnlockSwapRefund
<1>7. CASE RefundAbandon(r) BY <1>7 DEF RefundAbandon
<1> QED BY <1>1, <1>2, <1>3, <1>4, <1>5, <1>6, <1>7 DEF RefundHandler

\* The steps of the node: a part is sent for a caller that holds the payment
\* lock, so that no refund is past its check when the part settles, or it is late.
LEMMA StandaloneNode ==
    ASSUME Standalone, GeneralInv, StandaloneInv, NEW l \in PayReqs, Node(l)
    PROVE  StandaloneInv'
<1>0. Server \in Procs
      BY DEF Procs
<1> USE <1>0 DEF GeneralInv, TypeOK, LockExclusion, OneActive, SuccessIsPaid,
            RefundHoldsLock, StandaloneInv, HandlersNeedServer, AdoptedIsDead,
            CallersHoldLock, OnlyRetryUnlocks, RefundSawNone, AnyComplete,
            AnyPending, Complete, Pending, PayEnded, db, chain, hist, pm
<1>1. CASE NodeSend(l) BY <1>1 DEF NodeSend, NodeFree, Standalone
<1>2. CASE NodePartsFail(l) BY <1>2 DEF NodePartsFail, AnswerWaiting
<1>3. CASE NodeGiveUp(l) BY <1>3 DEF NodeGiveUp
<1>4. CASE NodeSettle(l) BY <1>4 DEF NodeSettle, AnswerWaiting
<1> QED BY <1>1, <1>2, <1>3, <1>4 DEF Node

\* The steps of the process: what it takes over at a start has no handler.
LEMMA StandaloneProcess ==
    ASSUME Standalone, GeneralInv, StandaloneInv, NEW p \in Procs, Process(p)
    PROVE  StandaloneInv'
<1>0. p = Server
      BY DEF Procs, Standalone
<1> USE <1>0 DEF GeneralInv, TypeOK, LockExclusion, OneActive, SuccessIsPaid,
            RefundHoldsLock, StandaloneInv, HandlersNeedServer, AdoptedIsDead,
            CallersHoldLock, OnlyRetryUnlocks, RefundSawNone, AnyComplete,
            AnyPending, Complete, Pending, PayEnded, db, chain, hist, pm
<1>1. CASE ProcStart(p) BY <1>1 DEF ProcStart, UnhandledPaymentAttempts
<1>2. CASE ProcStop(p) BY <1>2 DEF ProcStop
<1>3. ASSUME NEW l \in PayReqs, HistQuery(p, l) PROVE StandaloneInv'
      BY <1>3 DEF HistQuery
<1>4. CASE HistStore(p)
  <2>1. PICK l \in PayReqs, res \in Results :
            /\ held[p] = {<<l, res>>}
            /\ UnlockAddPaymentResult(l, res)
            /\ todo' = [todo EXCEPT ![p] = @ \ {l}]
        BY <1>4 DEF HistStore
  <2>2. held'[Server] = {}
        BY <1>4 DEF HistStore
  <2>3. UNCHANGED <<node, retried, pay, refund, proc, list, kept>>
        BY <1>4 DEF HistStore
  <2>4. ~Pending(l) \/ l \in retried
        BY <2>1 DEF Results
  <2>5. OnlyRetryUnlocks'
        BY <2>1, <2>3, <2>4 DEF UnlockAddPaymentResult, PreimageAfter
  <2>6. CallersHoldLock'
    <3>1. pay[l] = "dead" \/ Complete(l)
          BY <2>1 DEF Results
    <3> QED BY <2>1, <2>3, <3>1 DEF UnlockAddPaymentResult, PreimageAfter
  <2>7. HandlersNeedServer'
        BY <2>1, <2>3 DEF UnlockAddPaymentResult, PreimageAfter
  <2>8. AdoptedIsDead'
        BY <2>1, <2>2, <2>3
  <2>9. RefundSawNone'
        BY <2>3
  <2> QED BY <2>5, <2>6, <2>7, <2>8, <2>9
<1>5. CASE HistRoundEnds(p) BY <1>5 DEF HistRoundEnds
<1>6. CASE HistRoundFails(p) BY <1>6 DEF HistRoundFails
<1> QED BY <1>1, <1>2, <1>3, <1>4, <1>5, <1>6 DEF Process

\* The steps of the preimage monitor and of the chain tables.
LEMMA StandaloneMonitors ==
    ASSUME Standalone, GeneralInv, StandaloneInv,
           PreimageMonitor \/ \E o \in Outputs : ChainTables(o)
    PROVE  StandaloneInv'
<1>0. Server \in Procs
      BY DEF Procs
<1> USE <1>0 DEF GeneralInv, TypeOK, LockExclusion, OneActive, SuccessIsPaid,
            RefundHoldsLock, StandaloneInv, HandlersNeedServer, AdoptedIsDead,
            CallersHoldLock, OnlyRetryUnlocks, RefundSawNone, AnyComplete,
            AnyPending, Complete, Pending, PayEnded, db, chain, hist, pm
<1>1. CASE PreimageRead BY <1>1 DEF PreimageRead
<1>2. CASE PreimageFound BY <1>2 DEF PreimageFound
<1>3. CASE PreimageNotFound BY <1>3 DEF PreimageNotFound
<1>4. CASE PreimageStore BY <1>4 DEF PreimageStore, UnlockAddPaymentResult, PreimageAfter
<1>5. CASE PreimageStoreFails BY <1>5 DEF PreimageStoreFails
<1>6. ASSUME NEW o \in Outputs, ChainTables(o) PROVE StandaloneInv'
      BY <1>6 DEF ChainTables, OutputConfirmed, OutputSpent, OutputReorged
<1> QED BY <1>1, <1>2, <1>3, <1>4, <1>5, <1>6 DEF PreimageMonitor

\* A standalone swapd keeps StandaloneInv along every behaviour.
THEOREM StandaloneInvariance == Standalone => (Spec => []StandaloneInv)
<1> SUFFICES ASSUME Standalone PROVE Spec => []StandaloneInv
    OBVIOUS
<1>1. Init => StandaloneInv
      BY DEF Init, Procs, StandaloneInv, HandlersNeedServer, AdoptedIsDead,
             CallersHoldLock, OnlyRetryUnlocks, RefundSawNone, Pending
<1>2. ASSUME GeneralInv, StandaloneInv, [Next]_vars PROVE StandaloneInv'
  <2>1. CASE UNCHANGED vars
        BY <1>2, <2>1
        DEF StandaloneInv, HandlersNeedServer, AdoptedIsDead, CallersHoldLock,
            OnlyRetryUnlocks, RefundSawNone, AnyComplete, Complete, Pending,
            vars, db, chain, hist, pm
  <2>2. CASE Next
        BY <1>2, <2>2, StandalonePay, StandaloneRefund, StandaloneNode,
           StandaloneProcess, StandaloneMonitors
        DEF Next
  <2> QED BY <1>2, <2>1, <2>2
<1> QED BY <1>1, <1>2, GeneralInvariance, PTL DEF Spec

\* The lock of a label whose payment is in flight is not released, whatever
\* answers are lost and however often swapd is restarted, unless the node's own
\* retry put the payment in flight after swapd had given it up.
THEOREM InFlightLocked == Standalone => (Spec => []OnlyRetryUnlocks)
<1>1. StandaloneInv => OnlyRetryUnlocks
      BY DEF StandaloneInv
<1> QED BY <1>1, StandaloneInvariance, PTL

\* The promise of refund_swap: a refund signature and a payment, in flight or
\* made, never exist together, but for the node's own retry of a payment that
\* swapd had given up.
THEOREM RefundSafety == Standalone => (Spec => []OnlyRetryPaysRefunded)
<1>1. ASSUME GeneralInv, StandaloneInv PROVE OnlyRetryPaysRefunded
  <2> SUFFICES ASSUME NEW r \in RefundReqs, refund[r] = "signed", NEW l \in PayReqs,
                      Pending(l) \/ Complete(l)
               PROVE  l \in retried
      BY DEF OnlyRetryPaysRefunded, Pending, Complete
  <2>1. CASE Complete(l)
        BY <1>1, <2>1 DEF StandaloneInv, RefundSawNone
  <2>2. payLocks = {}
        BY <1>1 DEF GeneralInv, RefundHoldsLock, LockExclusion
  <2>3. CASE Pending(l)
        BY <1>1, <2>2, <2>3 DEF StandaloneInv, OnlyRetryUnlocks
  <2> QED BY <2>1, <2>3
<1> QED BY <1>1, GeneralInvariance, StandaloneInvariance, PTL

-----------------------------------------------------------------------------
(***************************************************************************)
(* What is recorded as a success stays so.                                 *)
(***************************************************************************)

\* A step that writes no success and puts no failure into the monitor's hands,
\* and after which every paid payment still is.
LEMMA RecordKept ==
    ASSUME TypeOK, RecordedByEnded, UNCHANGED success, retried \subseteq retried',
           \A l \in PayReqs : node'[l] = "complete" <=> node[l] = "complete",
           \A l \in PayReqs : pay[l] \in {"new", "checked"} /\ node[l] = "absent" =>
                                 node'[l] = "absent",
           held'[Server] \subseteq held[Server],
           \A l \in PayReqs : pay'[l] \in {"new", "checked"} => pay[l] \in {"new", "checked"},
           \A l \in PayReqs : pay[l] = "done" => pay'[l] = "done"
    PROVE  RecordedByEnded'
  BY DEF RecordedByEnded, Complete

\* The steps of pay_swap.
LEMMA RecordPay ==
    ASSUME GeneralInv, StandaloneInv, RecordedByEnded, NEW l \in PayReqs, PayHandler(l)
    PROVE  RecordedByEnded'
<1> USE DEF GeneralInv, TypeOK, PayEnded, Complete, db, chain, hist, pm
<1>1. CASE PaySelect(l) BY <1>1, RecordKept DEF PaySelect
<1>2. CASE PayLock(l) BY <1>2 DEF PayLock, LockAddPaymentAttempt, RecordedByEnded
<1>3. CASE PayLockRefused(l) BY <1>3, RecordKept DEF PayLockRefused
<1>4. CASE PayCall(l) BY <1>4, RecordKept DEF PayCall, NodeFree
<1>5. CASE PayCallRefused(l) BY <1>5, RecordKept DEF PayCallRefused
<1>6. CASE PayReply(l) BY <1>6, RecordKept DEF PayReply
<1>7. CASE PayToWait(l) BY <1>7, RecordKept DEF PayToWait
<1>8. CASE WaitFirstList(l) BY <1>8, RecordKept DEF WaitFirstList
<1>9. CASE WaitSecondList(l) BY <1>9, RecordKept DEF WaitSecondList
<1>10. CASE PayStore(l)
       BY <1>10 DEF PayStore, UnlockAddPaymentResult, PreimageAfter, RecordedByEnded
<1>11. CASE PayAbandon(l) BY <1>11, RecordKept DEF PayAbandon
<1> QED BY <1>1, <1>2, <1>3, <1>4, <1>5, <1>6, <1>7, <1>8, <1>9, <1>10, <1>11
        DEF PayHandler

\* The steps of the node: it settles no payment whose failure is about to be
\* stored, as that one is not in flight, or is late.
LEMMA RecordNode ==
    ASSUME GeneralInv, StandaloneInv, RecordedByEnded, NEW l \in PayReqs, Node(l)
    PROVE  RecordedByEnded'
<1> USE DEF GeneralInv, TypeOK, Complete, db, chain, hist, pm
<1>1. CASE NodeSend(l) BY <1>1, RecordKept DEF NodeSend
<1>2. CASE NodePartsFail(l) BY <1>2, RecordKept DEF NodePartsFail, AnswerWaiting, Pending
<1>3. CASE NodeGiveUp(l) BY <1>3, RecordKept DEF NodeGiveUp
<1>4. CASE NodeSettle(l)
  <2>1. <<l, "failure">> \in held[Server] => l \in retried
        BY <1>4 DEF NodeSettle, StandaloneInv, AdoptedIsDead
  <2>2. pay[l] \notin {"new", "checked"}
        BY <1>4 DEF NodeSettle, Pending, RecordedByEnded
  <2>3. \A k \in PayReqs \ {l} : node'[k] = node[k]
        BY <1>4 DEF NodeSettle
  <2>4. node'[l] = "complete" /\ UNCHANGED <<success, held, retried>>
        BY <1>4 DEF NodeSettle
  <2>5. \A k \in PayReqs : /\ pay'[k] \in {"new", "checked"} => pay'[k] = pay[k]
                           /\ pay[k] = "done" => pay'[k] = "done"
        BY <1>4 DEF NodeSettle, AnswerWaiting
  <2> QED BY <2>1, <2>2, <2>3, <2>4, <2>5 DEF RecordedByEnded
<1> QED BY <1>1, <1>2, <1>3, <1>4 DEF Node

\* The steps of the process.
LEMMA RecordProcess ==
    ASSUME Standalone, GeneralInv, StandaloneInv, RecordedByEnded,
           NEW p \in Procs, Process(p)
    PROVE  RecordedByEnded'
<1>0. p = Server
      BY DEF Procs, Standalone
<1> USE <1>0 DEF GeneralInv, TypeOK, PayEnded, Complete, db, chain, hist, pm
<1>1. CASE ProcStart(p) BY <1>1, RecordKept DEF ProcStart
<1>2. CASE ProcStop(p) BY <1>2, RecordKept DEF ProcStop
<1>3. ASSUME NEW l \in PayReqs, HistQuery(p, l) PROVE RecordedByEnded'
  <2>1. \A k \in PayReqs : <<k, "failure">> \in held'[Server] =>
                               ~Complete(k) \/ k \in retried
        BY <1>3 DEF HistQuery, RecordedByEnded
  <2>2. UNCHANGED <<success, node, retried, pay>>
        BY <1>3 DEF HistQuery
  <2> QED BY <2>1, <2>2 DEF RecordedByEnded
<1>4. CASE HistStore(p)
  <2>1. PICK l \in PayReqs, res \in Results :
            held[p] = {<<l, res>>} /\ UnlockAddPaymentResult(l, res)
        BY <1>4 DEF HistStore
  <2>2. held'[Server] = {} /\ UNCHANGED <<node, retried, pay>>
        BY <1>4 DEF HistStore
  <2>3. res # "failure" => Complete(l)
        BY <2>1 DEF SuccessIsPaid, Results
  <2>4. pay[l] = "dead" \/ Complete(l)
        BY <2>1 DEF StandaloneInv, AdoptedIsDead, SuccessIsPaid, Results
  <2> QED BY <2>1, <2>2, <2>3, <2>4 DEF UnlockAddPaymentResult, RecordedByEnded, Results
<1>5. CASE HistRoundEnds(p) BY <1>5, RecordKept DEF HistRoundEnds
<1>6. CASE HistRoundFails(p) BY <1>6, RecordKept DEF HistRoundFails
<1> QED BY <1>1, <1>2, <1>3, <1>4, <1>5, <1>6 DEF Process

\* The steps of refund_swap, of the preimage monitor and of the chain tables.
LEMMA RecordOthers ==
    ASSUME GeneralInv, RecordedByEnded,
           \/ \E r \in RefundReqs : RefundHandler(r)
           \/ PreimageMonitor
           \/ \E o \in Outputs : ChainTables(o)
    PROVE  RecordedByEnded'
<1>1. ASSUME UNCHANGED <<success, node, retried, pay, held>> PROVE RecordedByEnded'
      BY <1>1 DEF RecordedByEnded, Complete
<1>2. ASSUME NEW r \in RefundReqs, RefundHandler(r) PROVE RecordedByEnded'
      BY <1>1, <1>2 DEF RefundHandler, RefundLock, RefundLockRefused, RefundFirstList,
             RefundSecondList, RefundCheckFails, RefundUnlock, RefundAbandon, db, hist
<1>3. CASE PreimageRead \/ PreimageFound \/ PreimageNotFound \/ PreimageStoreFails
      BY <1>1, <1>3 DEF PreimageRead, PreimageFound, PreimageNotFound,
             PreimageStoreFails, db, hist
<1>4. CASE PreimageStore
  <2>1. PICK l \in found : UnlockAddPaymentResult(l, "success")
        BY <1>4 DEF PreimageStore
  <2>2. l \in PayReqs /\ Complete(l)
        BY DEF GeneralInv, TypeOK, SuccessIsPaid
  <2>3. success' = [success EXCEPT ![l] = "true"] /\ UNCHANGED <<node, retried, pay, held>>
        BY <1>4, <2>1 DEF PreimageStore, UnlockAddPaymentResult, PreimageAfter, hist
  <2>4. success \in [PayReqs -> {"none", "null", "true", "false"}]
        BY DEF GeneralInv, TypeOK
  <2> QED BY <2>2, <2>3, <2>4 DEF RecordedByEnded, Complete
<1>5. ASSUME NEW o \in Outputs, ChainTables(o) PROVE RecordedByEnded'
      BY <1>1, <1>5 DEF ChainTables, OutputConfirmed, OutputSpent, OutputReorged, db, hist
<1> QED BY <1>2, <1>3, <1>4, <1>5 DEF PreimageMonitor

THEOREM RecordInvariance == Standalone => (Spec => []RecordedByEnded)
<1> SUFFICES ASSUME Standalone PROVE Spec => []RecordedByEnded
    OBVIOUS
<1>1. Init => RecordedByEnded
      BY DEF Init, RecordedByEnded, Procs
<1>2. ASSUME GeneralInv, StandaloneInv, RecordedByEnded, [Next]_vars
      PROVE  RecordedByEnded'
  <2>1. CASE UNCHANGED vars
        BY <1>2, <2>1 DEF RecordedByEnded, Complete, vars, db, hist
  <2>2. CASE Next
        BY <1>2, <2>2, RecordPay, RecordNode, RecordProcess, RecordOthers DEF Next
  <2> QED BY <1>2, <2>1, <2>2
<1> QED BY <1>1, <1>2, GeneralInvariance, StandaloneInvariance, PTL DEF Spec

\* The steps that write the success of an attempt, and what they write.
LEMMA SuccessWritten ==
    ASSUME Standalone, GeneralInv, StandaloneInv, RecordedByEnded, [Next]_vars,
           NEW l \in PayReqs, success[l] = "true", success'[l] # "true"
    PROVE  Complete(l) /\ (pay[l] = "gotFailure" \/ l \in retried)
<1>0. success \in [PayReqs -> {"none", "null", "true", "false"}]
      BY DEF GeneralInv, TypeOK
<1>1. success' # success
      OBVIOUS
<1>2. CASE UNCHANGED vars
      BY <1>1, <1>2 DEF vars, db
<1>3. ASSUME NEW k \in PayReqs, PayHandler(k) PROVE pay[l] = "gotFailure" /\ Complete(l)
  <2>1. CASE PayLock(k)
        BY <1>0, <2>1 DEF PayLock, LockAddPaymentAttempt, RecordedByEnded
  <2>2. CASE PayStore(k)
    <3>1. k = l /\ pay[k] = "gotFailure"
          BY <1>0, <2>2 DEF PayStore, UnlockAddPaymentResult, PreimageAfter
    <3> QED BY <3>1 DEF RecordedByEnded
  <2>3. CASE ~PayLock(k) /\ ~PayStore(k)
        BY <1>1, <1>3, <2>3 DEF PayHandler, PaySelect, PayLockRefused, PayCall,
           PayCallRefused, PayReply, PayToWait, WaitFirstList, WaitSecondList,
           PayAbandon, db
  <2> QED BY <2>1, <2>2, <2>3
<1>4. ASSUME NEW p \in Procs, Process(p) PROVE Complete(l) /\ l \in retried
  <2>0. p = Server
        BY DEF Procs, Standalone
  <2>1. HistStore(p)
        BY <1>1, <1>4 DEF Process, ProcStart, ProcStop, HistQuery, HistRoundEnds,
           HistRoundFails, db
  <2>2. PICK k \in PayReqs, res \in Results :
            held[p] = {<<k, res>>} /\ UnlockAddPaymentResult(k, res)
        BY <2>1 DEF HistStore
  <2>3. k = l /\ res = "failure"
        BY <1>0, <2>2 DEF UnlockAddPaymentResult, PreimageAfter, Results
  <2>4. pay[l] = "dead" /\ (~Complete(l) \/ l \in retried)
        BY <2>0, <2>2, <2>3 DEF StandaloneInv, AdoptedIsDead, RecordedByEnded
  <2> QED BY <2>4 DEF RecordedByEnded
<1>5. CASE PreimageMonitor
  <2>1. PreimageStore
        BY <1>1, <1>5 DEF PreimageMonitor, PreimageRead, PreimageFound,
           PreimageNotFound, PreimageStoreFails, db
  <2>2. PICK k \in found : success' = [success EXCEPT ![k] = "true"]
        BY <2>1 DEF PreimageStore, UnlockAddPaymentResult, PreimageAfter
  <2> QED BY <1>0, <2>2
<1>6. ASSUME \/ \E k \in PayReqs : Node(k)
             \/ \E r \in RefundReqs : RefundHandler(r)
             \/ \E o \in Outputs : ChainTables(o)
      PROVE  FALSE
  <2>1. ASSUME NEW k \in PayReqs, Node(k) PROVE FALSE
        BY <1>1, <2>1 DEF Node, NodeSend, NodePartsFail, NodeGiveUp, NodeSettle, db
  <2>2. ASSUME NEW r \in RefundReqs, RefundHandler(r) PROVE FALSE
        BY <1>1, <2>2 DEF RefundHandler, RefundLock, RefundLockRefused, RefundFirstList,
           RefundSecondList, RefundCheckFails, RefundUnlock, RefundAbandon, db
  <2>3. ASSUME NEW o \in Outputs, ChainTables(o) PROVE FALSE
        BY <1>1, <2>3 DEF ChainTables, OutputConfirmed, OutputSpent, OutputReorged, db
  <2> QED BY <1>6, <2>1, <2>2, <2>3
<1> QED BY <1>2, <1>3, <1>4, <1>5, <1>6 DEF Next

\* With a standalone swapd a recorded success is taken back by nobody but the
\* handler that lost the race between the two lists of wait_payment, or by the
\* failure of an attempt that the node then retried and paid.
THEOREM SuccessKept == Standalone => (Spec => SuccessIsKept)
<1> SUFFICES ASSUME Standalone PROVE Spec => SuccessIsKept
    OBVIOUS
<1>1. ASSUME GeneralInv, StandaloneInv, RecordedByEnded, [Next]_vars
      PROVE  [\A l \in PayReqs : success[l] = "true" /\ success'[l] # "true" =>
                 Complete(l) /\ (pay[l] = "gotFailure" \/ l \in retried)]_vars
      BY <1>1, SuccessWritten
<1> QED BY <1>1, GeneralInvariance, StandaloneInvariance, RecordInvariance, PTL
        DEF Spec, SuccessIsKept

-----------------------------------------------------------------------------
(***************************************************************************)
(* The refinement of SwapOutcome.                                          *)
(***************************************************************************)

\* A step that leaves the node's payments and the refund handlers alone is not
\* seen by the parties.
LEMMA UnseenStep ==
    ASSUME UNCHANGED <<node, retried, refund>> PROVE UNCHANGED Outcome!vars
  BY DEF PaymentSeen, RefundSeen, LateSeen, AnyComplete, AnyPending, Complete, Pending,
         Outcome!vars

\* The steps of the node are the payment's steps in SwapOutcome.
LEMMA NodeSeen ==
    ASSUME GeneralInv, OnlyRetryPaysRefunded', NEW l \in PayReqs, Node(l)
    PROVE  [Outcome!Next]_(Outcome!vars)
<1> USE DEF GeneralInv, TypeOK, OneActive, AnyComplete, AnyPending, Complete, Pending,
            PaymentSeen, RefundSeen, LateSeen
<1>0. LateSeen \in BOOLEAN /\ LateSeen' \in BOOLEAN
      OBVIOUS
<1>1. CASE NodeSend(l)
  <2>1. PaymentSeen = "none" /\ PaymentSeen' = "inflight"
        BY <1>1 DEF NodeSend, NodeFree
  <2>2. RefundSeen' = RefundSeen
        BY <1>1 DEF NodeSend
  <2>3. node'[l] = "pending"
        BY <1>1 DEF NodeSend
  <2>4. RefundSeen' => l \in retried'
        BY <2>3 DEF OnlyRetryPaysRefunded
  <2>5. ~RefundSeen \/ LateSeen'
        BY <2>2, <2>3, <2>4
  <2> QED BY <1>0, <2>1, <2>2, <2>5 DEF Outcome!Next, Outcome!Send
<1>2. CASE NodePartsFail(l)
  <2>1. PaymentSeen = "inflight" /\ PaymentSeen' = "none"
        BY <1>2 DEF NodePartsFail
  <2>2. RefundSeen' = RefundSeen
        BY <1>2 DEF NodePartsFail
  <2>3. LateSeen' = FALSE
        BY <1>2 DEF NodePartsFail
  <2> QED BY <2>1, <2>2, <2>3 DEF Outcome!Next, Outcome!Fail
<1>3. CASE NodeGiveUp(l)
  <2>1. PaymentSeen' = PaymentSeen
        BY <1>3 DEF NodeGiveUp
  <2>2. RefundSeen' = RefundSeen
        BY <1>3 DEF NodeGiveUp
  <2>3. LateSeen' = LateSeen
        BY <1>3 DEF NodeGiveUp
  <2> QED BY <2>1, <2>2, <2>3 DEF Outcome!vars
<1>4. CASE NodeSettle(l)
  <2>1. PaymentSeen = "inflight" /\ PaymentSeen' = "complete"
        BY <1>4 DEF NodeSettle
  <2>2. RefundSeen' = RefundSeen
        BY <1>4 DEF NodeSettle
  <2>3. LateSeen' = LateSeen
        BY <1>4 DEF NodeSettle
  <2> QED BY <2>1, <2>2, <2>3 DEF Outcome!Next, Outcome!Settle
<1> QED BY <1>1, <1>2, <1>3, <1>4 DEF Node

\* The steps of refund_swap: a signature is handed out only while no payment
\* is seen, or a late one.
LEMMA RefundSeenStep ==
    ASSUME TypeOK, OnlyRetryPaysRefunded', NEW r \in RefundReqs, RefundHandler(r)
    PROVE  [Outcome!Next]_(Outcome!vars)
<1>1. UNCHANGED <<node, retried>>
      BY DEF RefundHandler, RefundLock, RefundLockRefused, RefundFirstList,
             RefundSecondList, RefundCheckFails, RefundUnlock, RefundAbandon
<1>2. PaymentSeen' = PaymentSeen /\ LateSeen' = LateSeen
      BY <1>1 DEF PaymentSeen, LateSeen, AnyComplete, AnyPending, Complete, Pending
<1>3. RefundSeen => RefundSeen'
  <2> SUFFICES ASSUME NEW q \in RefundReqs, refund[q] = "signed"
               PROVE  refund'[q] = "signed"
      BY DEF RefundSeen
  <2> QED BY DEF TypeOK, RefundEnded, RefundHandler, RefundLock, RefundLockRefused,
             RefundFirstList, RefundSecondList, RefundCheckFails, RefundUnlock,
             RefundAbandon
<1>4. RefundSeen' => PaymentSeen' = "none" \/ LateSeen'
      BY DEF OnlyRetryPaysRefunded, RefundSeen, PaymentSeen, LateSeen, AnyComplete,
             AnyPending, Complete, Pending
<1>5. RefundSeen \in BOOLEAN /\ RefundSeen' \in BOOLEAN
      BY DEF RefundSeen
<1>6. CASE RefundSeen' = RefundSeen
      BY <1>2, <1>6 DEF Outcome!vars
<1>7. CASE RefundSeen' # RefundSeen
  <2>1. RefundSeen' = TRUE
        BY <1>3, <1>5, <1>7
  <2>2. PaymentSeen = "none" \/ LateSeen
        BY <1>2, <1>4, <2>1
  <2> QED BY <1>2, <2>1, <2>2 DEF Outcome!Next, Outcome!SignRefund
<1> QED BY <1>6, <1>7

\* Every step of a standalone swapd is a step of SwapOutcome, or unseen.
LEMMA StepRefines ==
    ASSUME GeneralInv, OnlyRetryPaysRefunded', [Next]_vars
    PROVE  [Outcome!Next]_(Outcome!vars)
<1>1. CASE UNCHANGED <<node, retried, refund>>
      BY <1>1, UnseenStep
<1>2. CASE UNCHANGED vars
      BY <1>1, <1>2 DEF vars
<1>3. ASSUME NEW l \in PayReqs, PayHandler(l)
      PROVE  UNCHANGED Outcome!vars
  <2>1. CASE PayCall(l)
    <3>1. PaymentSeen' = PaymentSeen
          BY <2>1 DEF PayCall, NodeFree, PaymentSeen, AnyComplete, AnyPending,
                      Complete, Pending, GeneralInv, TypeOK
    <3>2. RefundSeen' = RefundSeen
          BY <2>1 DEF PayCall, RefundSeen
    <3>3. LateSeen' = LateSeen
          BY <2>1 DEF PayCall, NodeFree, LateSeen, Complete, Pending, GeneralInv, TypeOK
    <3> QED BY <3>1, <3>2, <3>3 DEF Outcome!vars
  <2>2. CASE ~PayCall(l)
    <3>1. UNCHANGED <<node, retried, refund>>
          BY <1>3, <2>2 DEF PayHandler, PaySelect, PayLock, PayLockRefused,
                  PayCallRefused, PayReply, PayToWait, WaitFirstList,
                  WaitSecondList, PayStore, PayAbandon
    <3> QED BY <3>1, UnseenStep
  <2> QED BY <2>1, <2>2
<1>4. ASSUME NEW p \in Procs, Process(p)
      PROVE  UNCHANGED Outcome!vars
  <2>1. UNCHANGED <<node, retried>>
        BY <1>4 DEF Process, ProcStart, ProcStop, HistQuery, HistStore,
                    HistRoundEnds, HistRoundFails, db, chain, hist, pm
  <2>2. \A r \in RefundReqs : (refund'[r] = "signed") = (refund[r] = "signed")
        BY <1>4 DEF Process, ProcStart, ProcStop, HistQuery, HistStore,
                    HistRoundEnds, HistRoundFails, RefundEnded, db, chain, hist, pm
  <2>3. PaymentSeen' = PaymentSeen /\ LateSeen' = LateSeen
        BY <2>1 DEF PaymentSeen, LateSeen, AnyComplete, AnyPending, Complete, Pending
  <2>4. RefundSeen' = RefundSeen
        BY <2>2 DEF RefundSeen
  <2> QED BY <2>3, <2>4 DEF Outcome!vars
<1>5. CASE PreimageMonitor \/ \E o \in Outputs : ChainTables(o)
  <2>1. UNCHANGED <<node, retried, refund>>
        BY <1>5 DEF PreimageMonitor, PreimageRead, PreimageFound, PreimageNotFound,
                    PreimageStore, PreimageStoreFails, ChainTables,
                    OutputConfirmed, OutputSpent, OutputReorged
  <2> QED BY <1>1, <2>1
<1>6. TypeOK
      BY DEF GeneralInv
<1> QED BY <1>2, <1>3, <1>4, <1>5, <1>6, NodeSeen, RefundSeenStep DEF Next

\* A standalone swapd implements SwapOutcome: the hash is paid at most once, a
\* refund is signed only while no payment is under way or made, and none is
\* started after it, but by the node's own retry.
THEOREM OutcomeRefined == Standalone => (Spec => ImplementsOutcome)
<1> SUFFICES ASSUME Standalone PROVE Spec => ImplementsOutcome
    OBVIOUS
<1>1. Init => Outcome!Init
      BY DEF Init, Outcome!Init, PaymentSeen, RefundSeen, LateSeen, AnyComplete,
             AnyPending, Complete, Pending
<1>2. ASSUME GeneralInv, OnlyRetryPaysRefunded', [Next]_vars
      PROVE  [Outcome!Next]_(Outcome!vars)
      BY <1>2, StepRefines
<1> QED BY <1>1, <1>2, GeneralInvariance, RefundSafety, PTL
        DEF Spec, ImplementsOutcome, Outcome!Spec
=============================================================================
