-------------------------- MODULE LndPaymentsProofs --------------------------
(***************************************************************************)
(* Proofs about LndPayments, for any number of requests, outputs and       *)
(* payments of other hashes, in a deployment of one process.               *)
(***************************************************************************)
EXTENDS LndPayments, SwapPaymentsProofs, WellFoundedInduction

\* The steps shared with SwapPayments that leave the historical monitor's and
\* the node's state alone keep the invariant: pay_swap's.
LEMMA LndSharedPay ==
    ASSUME LndInv, NEW l \in PayReqs, SharedPay(l), UNCHANGED lnd
    PROVE  LndInv'
<1>0. TypeOK'
      BY TypePay DEF LndInv, SharedPay, PayHandler
<1> USE <1>0 DEF LndInv, TypeOK, LockExclusion, RefundHoldsLock, HandlersNeedServer,
            ActiveIsLatest, UnsentHoldsLock, MonitorsLeaveHandlers,
            RefundExcludesPayment, AnyComplete, AnyPending, Complete, Pending,
            PayEnded, db, chain, hist, pm, lnd
<1>1. CASE PaySelect(l) BY <1>1 DEF PaySelect
<1>2. CASE PayLock(l) BY <1>2 DEF PayLock, LockAddPaymentAttempt
<1>3. CASE PayLockRefused(l) BY <1>3 DEF PayLockRefused
<1>4. CASE PayStore(l) BY <1>4 DEF PayStore, UnlockAddPaymentResult, PreimageAfter
<1>5. CASE PayAbandon(l) BY <1>5 DEF PayAbandon
<1> QED BY <1>1, <1>2, <1>3, <1>4, <1>5 DEF SharedPay

\* The steps of refund_swap other than the check keep it.
LEMMA LndSharedRefund ==
    ASSUME LndInv, NEW r \in RefundReqs, SharedRefund(r), UNCHANGED lnd
    PROVE  LndInv'
<1>0. TypeOK'
      BY TypeRefund DEF LndInv, SharedRefund, RefundHandler
<1> USE <1>0 DEF LndInv, TypeOK, LockExclusion, RefundHoldsLock, HandlersNeedServer,
            ActiveIsLatest, UnsentHoldsLock, MonitorsLeaveHandlers,
            RefundExcludesPayment, AnyComplete, AnyPending, Complete, Pending,
            RefundEnded, db, chain, hist, pm, lnd
<1>1. CASE RefundLock(r) BY <1>1 DEF RefundLock, LockSwapRefund
<1>2. CASE RefundLockRefused(r) BY <1>2 DEF RefundLockRefused
<1>3. CASE RefundCheckFails(r) BY <1>3 DEF RefundCheckFails
<1>4. CASE RefundUnlock(r) BY <1>4 DEF RefundUnlock, UnlockSwapRefund
<1>5. CASE RefundAbandon(r) BY <1>5 DEF RefundAbandon
<1> QED BY <1>1, <1>2, <1>3, <1>4, <1>5 DEF SharedRefund

\* A process takes over attempts at its start, and stores what it found out:
\* neither concerns a handler that is still at work.
LEMMA LndSharedProcess ==
    ASSUME Workers = {}, LndInv, NEW p \in Procs, SharedProcess(p), UNCHANGED lnd
    PROVE  LndInv'
<1>0. TypeOK'
      BY TypeProcess DEF LndInv, SharedProcess, Process
<1>1. p = Server
      BY DEF Procs
<1> USE <1>0, <1>1 DEF LndInv, TypeOK, LockExclusion, RefundHoldsLock, HandlersNeedServer,
            ActiveIsLatest, UnsentHoldsLock, MonitorsLeaveHandlers,
            RefundExcludesPayment, AnyComplete, AnyPending, Complete, Pending,
            PayEnded, db, chain, hist, pm, lnd
<1>2. CASE ProcStart(p) BY <1>2 DEF ProcStart, UnhandledPaymentAttempts, PayStates, Procs
<1>3. CASE HistStore(p)
  <2>1. PICK l \in PayReqs, res \in Results :
            /\ held[p] = {<<l, res>>}
            /\ UnlockAddPaymentResult(l, res)
            /\ todo' = [todo EXCEPT ![p] = @ \ {l}]
        BY <1>3 DEF HistStore
  <2>2. pay[l] = "dead"
        BY <2>1
  <2> QED BY <1>3, <2>1, <2>2 DEF HistStore, UnlockAddPaymentResult, PreimageAfter
<1>4. CASE HistRoundEnds(p) BY <1>4 DEF HistRoundEnds
<1> QED BY <1>2, <1>3, <1>4 DEF SharedProcess

\* The preimage monitor and the chain keep it: a payment that is made is no
\* longer waited for with a lock.
LEMMA LndSharedMonitors ==
    ASSUME LndInv, SharedPreimage \/ \E o \in Outputs : ChainTables(o), UNCHANGED lnd
    PROVE  LndInv'
<1>0. TypeOK'
      BY TypeMonitors DEF LndInv, SharedPreimage, PreimageMonitor
<1> USE <1>0 DEF LndInv, TypeOK, LockExclusion, RefundHoldsLock, HandlersNeedServer,
            ActiveIsLatest, UnsentHoldsLock, MonitorsLeaveHandlers,
            RefundExcludesPayment, AnyComplete, AnyPending, Complete, Pending,
            db, chain, hist, pm, lnd
<1>1. CASE PreimageRead BY <1>1 DEF PreimageRead
<1>2. CASE PreimageNotFound BY <1>2 DEF PreimageNotFound
<1>3. CASE PreimageStore
  <2>1. PICK l \in found : UnlockAddPaymentResult(l, "success")
        BY <1>3 DEF PreimageStore
  <2>2. l \in PayReqs /\ node[l] = "complete"
        BY <2>1
  <2>3. pay[l] \notin {"new", "checked", "locked"}
        BY <2>2
  <2> QED BY <1>3, <2>1, <2>2, <2>3 DEF PreimageStore, UnlockAddPaymentResult, PreimageAfter
<1>4. CASE PreimageStoreFails BY <1>4 DEF PreimageStoreFails
<1>5. ASSUME NEW o \in Outputs, ChainTables(o) PROVE LndInv'
      BY <1>5 DEF ChainTables, OutputConfirmed, OutputSpent, OutputReorged
<1> QED BY <1>1, <1>2, <1>3, <1>4, <1>5 DEF SharedPreimage

-----------------------------------------------------------------------------
(***************************************************************************)
(* The steps of lnd/client.rs.                                             *)
(***************************************************************************)

\* A payment is only sent while none is in flight or made, so it becomes the
\* latest of its hash, and no refund was signed: the handler has the lock.
LEMMA LndPayKeeps ==
    ASSUME LndInv, NEW l \in PayReqs, LndPay(l)
    PROVE  LndInv'
<1> USE DEF LndInv, TypeOK, LockExclusion, RefundHoldsLock, HandlersNeedServer,
            ActiveIsLatest, UnsentHoldsLock, MonitorsLeaveHandlers,
            RefundExcludesPayment, AnyComplete, AnyPending, Complete, Pending,
            PayStates, NodeStates, PayEnded, db, chain, hist, pm, lnd
<1>1. CASE LndSend(l)
  <2>1. /\ Len(order') = Len(order) + 1 /\ Len(order) \in Nat
        /\ order' \in Seq(PayReqs \cup OtherPays)
        /\ DOMAIN order' = 1 .. Len(order) + 1
        /\ order'[Len(order) + 1] = l
        BY <1>1 DEF LndSend
  <2>2. \A k \in PayReqs : node'[k] \in {"pending", "complete"} => k = l
        BY <1>1 DEF LndSend, NodeFree
  <2>3. ActiveIsLatest'
    <3>1. Len(order) + 1 \in DOMAIN order' /\ \A j \in DOMAIN order' : j <= Len(order) + 1
          BY <2>1
    <3> QED BY <2>1, <2>2, <3>1
  <2>4. l \in payLocks
        BY <1>1 DEF LndSend
  <2>5. \A r \in RefundReqs : refund[r] # "signed"
        BY <2>4
  <2>6. TypeOK'
        BY <1>1 DEF LndSend
  <2> QED BY <1>1, <2>3, <2>5, <2>6 DEF LndSend
<1>2. CASE LndAddLabel(l) BY <1>2 DEF LndAddLabel, vars
<1>3. CASE LndReply(l)
  <2>1. PICK ended \in {"gotSuccess", "gotFailure"} : pay' = [pay EXCEPT ![l] = ended]
        BY <1>3 DEF LndReply
  <2>2. pay' \in [PayReqs -> PayStates]
        BY <2>1
  <2>3. pay[l] = "calling"
        BY <1>3 DEF LndReply
  <2>4. TypeOK' /\ LockExclusion' /\ RefundHoldsLock' /\ RefundExcludesPayment'
        BY <1>3, <2>2 DEF LndReply
  <2>5. HandlersNeedServer'
        BY <1>3, <2>1, <2>3 DEF LndReply
  <2>6. ActiveIsLatest' /\ UnsentHoldsLock' /\ MonitorsLeaveHandlers'
        BY <1>3, <2>1, <2>3 DEF LndReply
  <2>7. retried' = {}
        BY <1>3 DEF LndReply
  <2> QED BY <2>4, <2>5, <2>6, <2>7
<1>4. CASE PaymentEnds(l) BY <1>4 DEF PaymentEnds
<1> QED BY <1>1, <1>2, <1>3, <1>4 DEF LndPay

\* What track_payment_v2 answers: if a payment of the hash is in flight or
\* made, its state.
LEMMA TrackedIsActive ==
    ASSUME LndInv, NEW l \in PayReqs, node[l] \in {"pending", "complete"}
    PROVE  Tracked = node[l]
<1> DEFINE own == {i \in DOMAIN order : order[i] \in PayReqs}
<1>1. PICK n \in DOMAIN order :
          /\ order[n] = l
          /\ \A j \in DOMAIN order : order[j] \in PayReqs => j <= n
      BY DEF LndInv, ActiveIsLatest
<1>2. n \in own /\ \A j \in own : j <= n
      BY <1>1
<1>3. \A i \in own : (\A j \in own : j <= i) => i = n
  <2>1. DOMAIN order \subseteq Nat
        BY DEF LndInv, ActiveIsLatest
  <2> QED BY <1>2, <2>1
<1>4. (CHOOSE i \in own : \A j \in own : j <= i) = n
      BY <1>2, <1>3
<1>5. Tracked = StateAt(n)
      BY <1>2, <1>4 DEF Tracked
<1>6. l \notin OtherPays
      BY OtherPaysAssumption
<1> QED BY <1>1, <1>5, <1>6 DEF StateAt

\* So a refund is signed only while none is.
LEMMA LndRefundCheckKeeps ==
    ASSUME LndInv, NEW r \in RefundReqs, LndRefundCheck(r)
    PROVE  LndInv'
<1> USE DEF LndInv, TypeOK, LockExclusion, RefundHoldsLock, HandlersNeedServer,
            ActiveIsLatest, UnsentHoldsLock, MonitorsLeaveHandlers,
            AnyComplete, AnyPending, Complete, Pending,
            RefundStates, RefundEnded, db, chain, hist, pm, lnd
<1>1. refund' \in [RefundReqs -> RefundStates]
      BY DEF LndRefundCheck
<1>2. RefundExcludesPayment'
  <2>1. CASE Tracked \in {"pending", "complete"}
        BY <2>1 DEF LndRefundCheck, RefundExcludesPayment
  <2>2. CASE Tracked \notin {"pending", "complete"}
    <3>1. ~AnyPending /\ ~AnyComplete
          BY <2>2, TrackedIsActive
    <3> QED BY <3>1 DEF LndRefundCheck, RefundExcludesPayment
  <2> QED BY <2>1, <2>2
<1> QED BY <1>1, <1>2 DEF LndRefundCheck

\* A step of the historical monitor's own memory: only what it works on is left
\* to look at.
LEMMA LndOwnPart ==
    ASSUME LndInv, TypeOK', MonitorsLeaveHandlers',
           UNCHANGED <<db, chain, node, retried, pay, refund, proc, pm, order>>
    PROVE  LndInv'
  BY DEF LndInv, LockExclusion, RefundHoldsLock, HandlersNeedServer, ActiveIsLatest,
         UnsentHoldsLock, RefundExcludesPayment, AnyComplete, AnyPending, Complete,
         Pending, PayEnded, db, chain, pm

\* Whatever state the historical monitor takes for a label's, it is the label
\* of an attempt whose handler is gone.
LEMMA LndMonitorKeeps ==
    ASSUME Workers = {}, LndInv, NEW p \in Procs, LndMonitor(p)
    PROVE  LndInv'
<1>1. p = Server
      BY DEF Procs
<1>2. ASSUME NEW l \in PayReqs, NEW state, NEW made \in Results,
             TakeState(p, l, state, made), pay[l] = "dead",
             unlisted' = [unlisted EXCEPT ![p] = {}],
             UNCHANGED <<list, db, chain, node, retried, pay, refund, proc, pm, order, other,
                         labels, blank>>
      PROVE  LndInv'
  <2> USE DEF LndInv, TypeOK, MonitorsLeaveHandlers
  <2>1. CASE state = "pending"
    <3>1. /\ todo' = [todo EXCEPT ![p] = @ \ {l}]
          /\ kept' = [kept EXCEPT ![p] = @ \cup {l}]
          /\ held' = held
          BY <1>2, <2>1 DEF TakeState
    <3>2. TypeOK'
          BY <1>2, <3>1 DEF db, chain, pm
    <3>3. MonitorsLeaveHandlers'
          BY <1>1, <1>2, <3>1 DEF Procs, Complete, db, chain, pm
    <3> QED BY <1>2, <3>2, <3>3, LndOwnPart
  <2>2. CASE state # "pending"
    <3>1. PICK res \in Results :
             todo' = todo /\ kept' = kept /\ held' = [held EXCEPT ![p] = {<<l, res>>}]
          BY <1>2, <2>2 DEF TakeState, Results
    <3>2. TypeOK'
          BY <1>2, <3>1 DEF db, chain, pm
    <3>3. \A q \in Procs : q = p
          BY <1>1 DEF Procs
    <3>4. MonitorsLeaveHandlers'
          BY <1>2, <3>1, <3>3 DEF Complete, db, chain, pm
    <3> QED BY <1>2, <3>2, <3>4, LndOwnPart
  <2> QED BY <2>1, <2>2
<1> USE DEF LndInv, TypeOK, LockExclusion, RefundHoldsLock, HandlersNeedServer,
            ActiveIsLatest, UnsentHoldsLock, MonitorsLeaveHandlers,
            RefundExcludesPayment, AnyComplete, AnyPending, Complete, Pending,
            PayEnded, RefundEnded, db, chain, hist, pm, lnd
<1>3. CASE LndProcStop(p)
  <2>1. TypeOK'
        BY <1>3, TypeProcess DEF LndProcStop, Process
  <2> QED BY <1>1, <1>3, <2>1 DEF LndProcStop, ProcStop, Procs
<1>4. CASE LndRoundFails(p)
  <2>1. TypeOK'
        BY <1>4, TypeProcess DEF LndRoundFails, Process
  <2> QED BY <1>1, <1>4, <2>1 DEF LndRoundFails, HistRoundFails, Procs
<1>5. \A l \in todo[p] \cup unlisted[p] : l \in PayReqs /\ pay[l] = "dead"
      OBVIOUS
<1>6. ASSUME NEW l \in PayReqs, QueryByIndex(p, l) PROVE LndInv'
  <2>1. l \in todo[p] /\ held[p] = {} /\ unlisted[p] = {} /\ pay[l] = "dead"
        BY <1>5, <1>6 DEF QueryByIndex
  <2>2. CASE unlisted' = [unlisted EXCEPT ![p] = {l}] /\ UNCHANGED <<todo, kept, held>>
    <3>1. UNCHANGED <<list, db, chain, node, retried, pay, refund, proc, pm, order, other,
                      labels, blank>>
          BY <1>6 DEF QueryByIndex
    <3>2. TypeOK' /\ MonitorsLeaveHandlers'
          BY <1>1, <2>1, <2>2, <3>1
    <3> QED BY <3>1, <3>2, LndOwnPart
  <2>3. CASE unlisted' = unlisted /\ \E i \in DOMAIN order :
               TakeState(p, l, StateAt(i),
                         IF order[i] \in OtherPays THEN "foreign" ELSE "success")
    <3>0. PICK i \in DOMAIN order, made \in Results : TakeState(p, l, StateAt(i), made)
          BY <2>3 DEF Results
    <3>1. unlisted' = [unlisted EXCEPT ![p] = {}]
          BY <2>1, <2>3
    <3>2. UNCHANGED <<list, db, chain, node, retried, pay, refund, proc, pm, order, other,
                      labels, blank>>
          BY <1>6 DEF QueryByIndex
    <3> QED BY <1>2, <2>1, <3>0, <3>1, <3>2
  <2> QED BY <1>6, <2>2, <2>3 DEF QueryByIndex, ListPayments
<1>7. CASE QueryByHash(p)
  <2>1. PICK l \in unlisted[p] : TakeState(p, l, Tracked, "success")
        BY <1>7 DEF QueryByHash
  <2>2. l \in PayReqs /\ pay[l] = "dead"
        BY <1>5, <2>1
  <2>3. "success" \in Results
        BY DEF Results
  <2> QED BY <1>2, <1>7, <2>1, <2>2, <2>3 DEF QueryByHash
<1> QED BY <1>3, <1>4, <1>6, <1>7 DEF LndMonitor

\* The preimage monitor only looks for payments that are made.
LEMMA LndPreimageKeeps ==
    ASSUME LndInv, LndPreimage PROVE LndInv'
<1> USE DEF LndInv, TypeOK, LockExclusion, RefundHoldsLock, HandlersNeedServer,
            ActiveIsLatest, UnsentHoldsLock, MonitorsLeaveHandlers,
            RefundExcludesPayment, AnyComplete, AnyPending, Complete, Pending,
            db, chain, hist, pm
<1>1. CASE LndPreimageFound
  <2>1. PICK l \in PayReqs : Complete(l) /\ (found' = {l} \/ found' = found)
        BY <1>1 DEF LndPreimageFound
  <2> QED BY <1>1, <2>1 DEF LndPreimageFound
<1>2. CASE PreimageStoreBlank
  <2>1. busy' \in BOOLEAN /\ preimage' \in {"none", "own", "foreign"}
        BY <1>2 DEF PreimageStoreBlank
  <2>2. UNCHANGED <<payLocks, refundLocks, success, retried, confirmed, unspent, node, pay,
                    refund, proc, list, todo, kept, held, found, order, unlisted>>
        BY <1>2 DEF PreimageStoreBlank
  <2> QED BY <2>1, <2>2
<1>3. CASE PreimageStoreBlankFails
  <2>1. busy' \in BOOLEAN /\ preimage' \in {"none", "own", "foreign"}
        BY <1>3 DEF PreimageStoreBlankFails
  <2>2. UNCHANGED <<payLocks, refundLocks, success, retried, confirmed, unspent, node, pay,
                    refund, proc, list, todo, kept, held, found, order, unlisted>>
        BY <1>3 DEF PreimageStoreBlankFails
  <2> QED BY <2>1, <2>2
<1> QED BY <1>1, <1>2, <1>3 DEF LndPreimage

\* Payments of other hashes leave the latest one of this hash what it is.
LEMMA LndOtherKeeps ==
    ASSUME LndInv, NEW o \in OtherPays, OtherSent(o) \/ OtherEnds(o)
    PROVE  LndInv'
<1> USE DEF LndInv, TypeOK, LockExclusion, RefundHoldsLock, HandlersNeedServer,
            UnsentHoldsLock, MonitorsLeaveHandlers, RefundExcludesPayment,
            AnyComplete, AnyPending, Complete, Pending, vars, db, chain, hist, pm
<1>1. ActiveIsLatest'
  <2>1. CASE OtherSent(o)
    <3>1. /\ Len(order) \in Nat /\ DOMAIN order = 1 .. Len(order)
          /\ order' \in Seq(PayReqs \cup OtherPays)
          /\ DOMAIN order' = 1 .. Len(order) + 1
          /\ order'[Len(order) + 1] = o
          /\ \A i \in DOMAIN order : order'[i] = order[i]
          BY <2>1 DEF OtherSent, ActiveIsLatest
    <3>2. o \notin PayReqs
          BY OtherPaysAssumption
    <3>3. node' = node
          BY <2>1 DEF OtherSent
    <3> SUFFICES ASSUME NEW l \in PayReqs, node'[l] \in {"pending", "complete"}
                 PROVE  \E i \in DOMAIN order' :
                           /\ order'[i] = l
                           /\ \A j \in DOMAIN order' : order'[j] \in PayReqs => j <= i
        BY <3>1 DEF ActiveIsLatest
    <3>4. PICK i \in DOMAIN order :
             /\ order[i] = l
             /\ \A j \in DOMAIN order : order[j] \in PayReqs => j <= i
          BY <3>3 DEF ActiveIsLatest
    <3>5. i \in DOMAIN order' /\ order'[i] = l
          BY <3>1, <3>4
    <3>6. \A j \in DOMAIN order' : order'[j] \in PayReqs => j <= i
          BY <3>1, <3>2, <3>4
    <3> QED BY <3>5, <3>6
  <2>2. CASE OtherEnds(o)
        BY <2>2 DEF OtherEnds, ActiveIsLatest
  <2> QED BY <2>1, <2>2
<1> QED BY <1>1 DEF OtherSent, OtherEnds

-----------------------------------------------------------------------------
\* The inductive invariant holds throughout.
THEOREM LndInvariance == Workers = {} => (LndSpec => []LndInv)
<1> SUFFICES ASSUME Workers = {} PROVE LndSpec => []LndInv
    OBVIOUS
<1>1. LndInit => LndInv
  <2> SUFFICES ASSUME LndInit PROVE LndInv
      OBVIOUS
  <2>1. TypeOK
        BY TypeInit DEF LndInit
  <2>2. ActiveIsLatest
        BY DEF LndInit, Init, ActiveIsLatest
  <2> QED BY <2>1, <2>2 DEF LndInit, Init, LndInv, LockExclusion, RefundHoldsLock,
             HandlersNeedServer, UnsentHoldsLock, MonitorsLeaveHandlers,
             RefundExcludesPayment, PayEnded
<1>2. LndInv /\ [LndNext]_lndVars => LndInv'
  <2> SUFFICES ASSUME LndInv, [LndNext]_lndVars PROVE LndInv'
      OBVIOUS
  <2>1. CASE UNCHANGED lndVars
        BY <2>1 DEF lndVars, lnd, vars, db, chain, hist, pm, LndInv, TypeOK,
             LockExclusion, RefundHoldsLock, HandlersNeedServer, ActiveIsLatest,
             UnsentHoldsLock, MonitorsLeaveHandlers, RefundExcludesPayment,
             AnyComplete, AnyPending, Complete, Pending
  <2>2. CASE Shared
        BY <2>2, LndSharedPay, LndSharedRefund, LndSharedProcess, LndSharedMonitors
        DEF Shared
  <2>3. ASSUME NEW l \in PayReqs, LndPay(l) PROVE LndInv'
        BY <2>3, LndPayKeeps
  <2>4. ASSUME NEW r \in RefundReqs, LndRefundCheck(r) PROVE LndInv'
        BY <2>4, LndRefundCheckKeeps
  <2>5. ASSUME NEW p \in Procs, LndMonitor(p) PROVE LndInv'
        BY <2>5, LndMonitorKeeps
  <2>6. CASE LndPreimage
        BY <2>6, LndPreimageKeeps
  <2>7. ASSUME NEW o \in OtherPays, OtherSent(o) \/ OtherEnds(o) PROVE LndInv'
        BY <2>7, LndOtherKeeps
  <2> QED BY <2>1, <2>2, <2>3, <2>4, <2>5, <2>6, <2>7 DEF LndNext
<1> QED BY <1>1, <1>2, PTL DEF LndSpec

\* With LND too, no payment is in flight or made once a refund is signed, even
\* where the historical monitor is misled by the index of another payment.
THEOREM LndRefundSafety == Workers = {} => (LndSpec => []RefundExcludesPayment)
<1>1. LndInv => RefundExcludesPayment
      BY DEF LndInv
<1> QED BY <1>1, LndInvariance, PTL

-----------------------------------------------------------------------------
(***************************************************************************)
(* The refinement of SwapOutcome.                                          *)
(***************************************************************************)

\* Two payments of the hash that are in flight or made are the same.
LEMMA LndOneActive == ASSUME LndInv PROVE OneActive
<1> SUFFICES ASSUME NEW l \in PayReqs, NEW k \in PayReqs,
                    node[l] \in {"pending", "complete"},
                    node[k] \in {"pending", "complete"}
             PROVE  l = k
    BY DEF OneActive
<1>1. PICK i \in DOMAIN order :
         order[i] = l /\ \A n \in DOMAIN order : order[n] \in PayReqs => n <= i
      BY DEF LndInv, ActiveIsLatest
<1>2. PICK j \in DOMAIN order :
         order[j] = k /\ \A n \in DOMAIN order : order[n] \in PayReqs => n <= j
      BY DEF LndInv, ActiveIsLatest
<1>3. i <= j /\ j <= i /\ i \in Nat /\ j \in Nat
      BY <1>1, <1>2 DEF LndInv, ActiveIsLatest
<1> QED BY <1>1, <1>2, <1>3

\* LND takes no payment up again on its own account.
LEMMA LndNeverLate == ASSUME LndInv PROVE LateSeen = FALSE
  BY DEF LndInv, LateSeen

\* LND's payments take the steps of SwapOutcome's.
LEMMA LndPaySeen ==
    ASSUME LndInv, LndInv', NEW l \in PayReqs, LndPay(l)
    PROVE  [Outcome!Next]_(Outcome!vars)
<1>1. OneActive
      BY LndOneActive
<1>0. LateSeen = FALSE /\ LateSeen' = FALSE
      BY LndNeverLate DEF LndInv, LateSeen
<1>2. RefundSeen' = RefundSeen
      BY DEF LndPay, LndSend, LndAddLabel, LndReply, PaymentEnds, RefundSeen, vars
<1> USE DEF LndInv, TypeOK, OneActive, AnyComplete, AnyPending, Complete, Pending,
            PaymentSeen, RefundExcludesPayment, Outcome!Next, Outcome!vars
<1>3. CASE LndSend(l)
  <2>1. PaymentSeen = "none" /\ PaymentSeen' = "inflight"
        BY <1>3 DEF LndSend, NodeFree
  <2>2. ~RefundSeen
        BY <1>2, <2>1 DEF RefundSeen
  <2> QED BY <1>0, <1>2, <2>1, <2>2 DEF Outcome!Send
<1>4. CASE LndAddLabel(l) \/ LndReply(l)
  <2>1. node' = node
        BY <1>4 DEF LndAddLabel, LndReply, vars
  <2>2. PaymentSeen' = PaymentSeen
        BY <2>1
  <2> QED BY <1>0, <1>2, <2>2
<1>5. CASE PaymentEnds(l)
  <2>1. PaymentSeen = "inflight"
        BY <1>1, <1>5 DEF PaymentEnds
  <2>2. PICK state \in {"complete", "failed"} : node' = [node EXCEPT ![l] = state]
        BY <1>5 DEF PaymentEnds
  <2>3. PaymentSeen' = IF state = "complete" THEN "complete" ELSE "none"
        BY <1>1, <1>5, <2>2 DEF PaymentEnds
  <2> QED BY <1>0, <1>2, <2>1, <2>2, <2>3 DEF Outcome!Settle, Outcome!Fail
<1> QED BY <1>3, <1>4, <1>5 DEF LndPay

\* The other steps send nothing and take no signature back, so all the parties
\* can see of them is a signature, while no payment is under way or made.
LEMMA LndOtherSeen ==
    ASSUME LndInv, LndInv', node' = node,
           \A r \in RefundReqs : refund[r] = "signed" => refund'[r] = "signed"
    PROVE  [Outcome!Next]_(Outcome!vars)
<1>0. LateSeen' = LateSeen
      BY DEF LndInv, LateSeen
<1>1. PaymentSeen' = PaymentSeen
      BY DEF PaymentSeen, AnyComplete, AnyPending, Complete, Pending
<1>2. RefundSeen => RefundSeen'
      BY DEF RefundSeen
<1>3. RefundSeen' => PaymentSeen' = "none"
      BY DEF LndInv, RefundExcludesPayment, RefundSeen, PaymentSeen
<1>4. RefundSeen \in BOOLEAN /\ RefundSeen' \in BOOLEAN
      BY DEF RefundSeen
<1>5. CASE RefundSeen' = RefundSeen
      BY <1>0, <1>1, <1>5 DEF Outcome!vars
<1>6. CASE RefundSeen' # RefundSeen
  <2>1. RefundSeen' = TRUE /\ PaymentSeen = "none"
        BY <1>1, <1>2, <1>3, <1>4, <1>6
  <2> QED BY <1>0, <1>1, <2>1 DEF Outcome!Next, Outcome!SignRefund
<1> QED BY <1>5, <1>6

LEMMA LndStepRefines ==
    ASSUME LndInv, LndInv', [LndNext]_lndVars
    PROVE  [Outcome!Next]_(Outcome!vars)
<1> DEFINE Unseen ==
       /\ node' = node
       /\ \A r \in RefundReqs : refund[r] = "signed" => refund'[r] = "signed"
<1> USE DEF db, chain, hist, pm
<1>1. ASSUME NEW l \in PayReqs, LndPay(l)
      PROVE  [Outcome!Next]_(Outcome!vars)
      BY <1>1, LndPaySeen
<1>2. ASSUME NEW l \in PayReqs, SharedPay(l) PROVE Unseen
      BY <1>2 DEF SharedPay, PaySelect, PayLock, PayLockRefused, PayStore, PayAbandon
<1>3. ASSUME NEW r \in RefundReqs, SharedRefund(r) PROVE Unseen
      BY <1>3 DEF LndInv, TypeOK, SharedRefund, RefundLock, RefundLockRefused,
                  RefundCheckFails, RefundUnlock, RefundAbandon, RefundEnded
<1>4. ASSUME NEW p \in Procs, SharedProcess(p) PROVE Unseen
      BY <1>4 DEF SharedProcess, ProcStart, HistStore, HistRoundEnds
<1>5. ASSUME SharedPreimage \/ \E o \in Outputs : ChainTables(o) PROVE Unseen
      BY <1>5 DEF SharedPreimage, PreimageRead, PreimageNotFound, PreimageStore,
             PreimageStoreFails, ChainTables, OutputConfirmed, OutputSpent, OutputReorged
<1>6. ASSUME NEW r \in RefundReqs, LndRefundCheck(r) PROVE Unseen
      BY <1>6 DEF LndInv, TypeOK, LndRefundCheck
<1>7. ASSUME NEW p \in Procs, LndMonitor(p) PROVE Unseen
      BY <1>7 DEF LndInv, TypeOK, LndMonitor, QueryByIndex, QueryByHash, LndRoundFails,
                  HistRoundFails, LndProcStop, ProcStop, RefundEnded
<1>8. ASSUME \/ LndPreimage \/ UNCHANGED lndVars
             \/ \E o \in OtherPays : OtherSent(o) \/ OtherEnds(o)
      PROVE  Unseen
      BY <1>8 DEF LndPreimage, LndPreimageFound, PreimageStoreBlank,
             PreimageStoreBlankFails, OtherSent, OtherEnds, lndVars, vars
<1>9. Unseen => [Outcome!Next]_(Outcome!vars)
      BY LndOtherSeen
<1> HIDE DEF Unseen
<1> QED BY <1>1, <1>2, <1>3, <1>4, <1>5, <1>6, <1>7, <1>8, <1>9 DEF LndNext, Shared

\* A swapd on LND implements SwapOutcome as one on Core Lightning does, and
\* without late payments: a payment LND was given counts as in flight until it
\* has ended, also between two tries.
THEOREM LndOutcomeRefined == Workers = {} => (LndSpec => ImplementsOutcome)
<1> SUFFICES ASSUME Workers = {} PROVE LndSpec => ImplementsOutcome
    OBVIOUS
<1>1. LndInit => Outcome!Init
      BY DEF LndInit, Init, Outcome!Init, PaymentSeen, RefundSeen, LateSeen,
             AnyComplete, AnyPending, Complete, Pending
<1>2. ASSUME LndInv, LndInv', [LndNext]_lndVars
      PROVE  [Outcome!Next]_(Outcome!vars)
      BY <1>2, LndStepRefines
<1> QED BY <1>1, <1>2, LndInvariance, PTL
        DEF LndSpec, ImplementsOutcome, Outcome!Spec
-----------------------------------------------------------------------------
(***************************************************************************)
(* What the label index can and cannot spoil.                              *)
(***************************************************************************)

\* The least-number principle for a set of numbers.
LEMMA SmallestNumber ==
    ASSUME NEW T \in SUBSET Nat, T # {}
    PROVE  \E x \in T : \A y \in T : x <= y
<1> DEFINE Less == {pair \in Nat \X Nat : pair[1] < pair[2]}
<1>1. IsWellFoundedOn(Less, Nat)
  <2>1. OpToRel(<, Nat) = Less
        BY DEF OpToRel
  <2> QED BY <2>1, NatLessThanWellFounded
<1> HIDE DEF Less
<1>2. PICK x \in T : \A y \in T : ~ (<<y, x>> \in Less)
      BY <1>1, WFMin
<1>3. \A y \in T : y < x => <<y, x>> \in Less
      BY DEF Less
<1>4. ASSUME NEW y \in T PROVE x <= y
  <2>1. x \in Nat /\ y \in Nat /\ ~ (y < x)
        BY <1>2, <1>3
  <2> QED BY <2>1
<1> QED BY <1>2, <1>4

\* Of the payments of the hash one is the latest: a success it answers with was
\* a payment.
LEMMA TrackedIsOwn ==
    ASSUME LndInv, Tracked = "complete"
    PROVE  AnyComplete
<1> DEFINE own == {i \in DOMAIN order : order[i] \in PayReqs}
           Latest(i) == i \in own /\ \A j \in own : j <= i
<1>1. DOMAIN order = 1 .. Len(order) /\ Len(order) \in Nat
      BY DEF LndInv, ActiveIsLatest
<1>2. own # {} /\ StateAt(CHOOSE i \in own : \A j \in own : j <= i) = "complete"
      BY DEF Tracked
<1>3. \E i : Latest(i)
  <2> DEFINE T == {Len(order) - i : i \in own}
  <2>1. T \in SUBSET Nat /\ T # {}
        BY <1>1, <1>2
  <2>2. PICK n \in T : \A k \in T : n <= k
        BY <2>1, SmallestNumber
  <2>3. PICK i \in own : n = Len(order) - i
        BY <2>2
  <2>4. ASSUME NEW j \in own PROVE j <= i
    <3>1. Len(order) - j \in T
          OBVIOUS
    <3>2. i \in Nat /\ j \in Nat
          BY <1>1
    <3>3. Len(order) - i <= Len(order) - j
          BY <2>2, <2>3, <3>1
    <3> QED BY <1>1, <3>2, <3>3
  <2> QED BY <2>4
<1>4. PICK i \in own : StateAt(i) = "complete"
      BY <1>2, <1>3
<1>5. order[i] \in PayReqs /\ order[i] \notin OtherPays
      BY OtherPaysAssumption
<1> QED BY <1>4, <1>5 DEF StateAt, AnyComplete, Complete

\* A label's index, without the CHOOSE.
LEMMA IndexIs ==
    ASSUME LndTypeOK, NEW l \in labels
    PROVE  /\ IndexOf(l) \in DOMAIN order /\ order[IndexOf(l)] = l
           /\ \A i \in DOMAIN order : order[i] = l => i = IndexOf(l)
<1>1. \E i \in DOMAIN order : order[i] = l
      BY DEF LndTypeOK
<1>2. IndexOf(l) \in DOMAIN order /\ order[IndexOf(l)] = l
      BY <1>1 DEF IndexOf
<1> QED BY <1>2 DEF LndTypeOK

\* A payment that follows goes on to follow.
LEMMA FollowsStays ==
    ASSUME LndTypeOK, LndTypeOK', labels \subseteq labels',
           Len(order) <= Len(order'),
           \A i \in DOMAIN order : order'[i] = order[i]
    PROVE  \A l \in PayReqs : OtherFollows(l) => OtherFollows(l)'
<1> SUFFICES ASSUME NEW l \in PayReqs, OtherFollows(l) PROVE OtherFollows(l)'
    OBVIOUS
<1>1. l \in labels /\ l \in labels'
      BY DEF OtherFollows
<1>2. /\ IndexOf(l) \in DOMAIN order /\ order[IndexOf(l)] = l
      BY <1>1, IndexIs
<1>3. DOMAIN order \subseteq DOMAIN order'
      BY DEF LndTypeOK
<1>4. \A i \in DOMAIN order' : order'[i] = l => i = IndexOf(l)'
  <2>1. (IndexOf(l) \in DOMAIN order /\ order[IndexOf(l)] = l)'
    <3>1. (\E i \in DOMAIN order : order[i] = l)'
          BY <1>2, <1>3
    <3> QED BY <3>1 DEF IndexOf
  <2> QED BY <2>1 DEF LndTypeOK
<1>5. IndexOf(l)' = IndexOf(l)
      BY <1>2, <1>3, <1>4
<1>6. PICK i \in DOMAIN order : i > IndexOf(l) /\ order[i] \in OtherPays
      BY DEF OtherFollows
<1> QED BY <1>1, <1>3, <1>5, <1>6 DEF OtherFollows

\* What may be taken for a label's result.
MayTake(l, res) ==
    /\ ~Pending(l) \/ OtherFollows(l)
    /\ res = "success" => AnyComplete
    /\ res = "foreign" => OtherFollows(l)

\* A step that leaves the payments and the index alone, and takes a result for
\* a label's, stores one or drops a lock only where it may.
IndexQuiet ==
    /\ UNCHANGED <<order, other, labels, node>>
    /\ \A p \in Procs : unlisted'[p] \subseteq todo'[p]
    /\ OneQuestion'
    /\ \/ UNCHANGED <<blank, found>>
       \/ blank' = FALSE
       \/ blank' = TRUE /\ found' = {} /\ AnyComplete
    /\ \A l \in PayReqs : pay'[l] \in {"calling", "gotSuccess", "gotFailure"} =>
          \/ pay'[l] = pay[l]
          \/ pay'[l] = "gotSuccess" /\ Complete(l)
          \/ pay'[l] = "gotFailure" /\ ~Pending(l)
    /\ \A p \in Procs, l \in PayReqs, res \in Results :
          <<l, res>> \in held'[p] =>
             <<l, res>> \in held[p] \/ MayTake(l, res)
    /\ \A l \in payLocks \ payLocks' : ~Pending(l) \/ OtherFollows(l)
    /\ \/ preimage' = preimage
       \/ preimage' = "own" /\ AnyComplete
       \/ preimage' = "foreign" /\ \E l \in PayReqs : OtherFollows(l)
    /\ \A l \in PayReqs : success'[l] = "true" =>
          success[l] = "true" \/ AnyComplete \/ OtherFollows(l)

LEMMA IndexQuietKeeps ==
    ASSUME LndInv', LndIndexInv, IndexQuiet
    PROVE  LndIndexInv'
<1> USE DEF IndexQuiet
<1>1. \A l : OtherFollows(l)' <=> OtherFollows(l)
      BY DEF OtherFollows, IndexOf
<1>2. /\ \A l : Pending(l)' <=> Pending(l)
      /\ \A l : Complete(l)' <=> Complete(l)
      /\ AnyComplete' <=> AnyComplete
      BY DEF AnyComplete, Complete, Pending
<1>3. LndTypeOK'
  <2>1. blank' \in BOOLEAN /\ (blank' => found' = {})
    <3>1. blank \in BOOLEAN /\ (blank => found = {})
          BY DEF LndIndexInv, LndTypeOK
    <3>2. \/ blank' = blank /\ found' = found
          \/ blank' = FALSE
          \/ blank' = TRUE /\ found' = {}
          OBVIOUS
    <3> HIDE DEF IndexQuiet
    <3>3. CASE blank' = blank /\ found' = found
      <4>1. blank' \in BOOLEAN
            BY <3>1, <3>3
      <4> QED BY <3>1, <3>3, <4>1
    <3>4. CASE blank' = FALSE
          BY <3>4
    <3>5. CASE blank' = TRUE /\ found' = {}
          BY <3>5
    <3> QED BY <3>2, <3>3, <3>4, <3>5
  <2> QED BY <2>1 DEF LndIndexInv, LndTypeOK, LndInv, MonitorsLeaveHandlers
<1>4. OrderHasSent'
      BY DEF LndIndexInv, OrderHasSent
<1>5. ResultsAreOf'
  <2>1. ResultsAreOf
        BY DEF LndIndexInv
  <2>2. /\ (\A l \in PayReqs : pay[l] = "gotSuccess" => Complete(l))'
        /\ (\A l \in PayReqs : pay[l] = "gotFailure" => ~Pending(l))'
        BY <1>2, <2>1 DEF ResultsAreOf
  <2>3. ASSUME NEW p \in Procs, NEW l \in PayReqs, NEW res \in Results,
               <<l, res>> \in held'[p]
        PROVE  MayTake(l, res)
    <3>1. CASE <<l, res>> \in held[p]
          BY <2>1, <3>1 DEF ResultsAreOf, MayTake
    <3>2. CASE <<l, res>> \notin held[p]
          BY <2>3, <3>2
    <3> QED BY <3>1, <3>2
  <2>4. "success" \in Results /\ "foreign" \in Results
        BY DEF Results
  <2>5. blank' => AnyComplete'
        BY <1>2, <2>1, Zenon DEF ResultsAreOf
  <2>6. \A p \in Procs, l \in PayReqs, res \in Results :
           <<l, res>> \in held'[p] => ~Pending(l)' \/ OtherFollows(l)'
        BY <1>1, <1>2, <2>3 DEF MayTake
  <2>7. \A p \in Procs, l \in PayReqs :
           /\ <<l, "success">> \in held'[p] => AnyComplete'
           /\ <<l, "foreign">> \in held'[p] => OtherFollows(l)'
        BY <1>1, <1>2, <2>3, <2>4 DEF MayTake
  <2> QED BY <2>2, <2>5, <2>6, <2>7 DEF ResultsAreOf
<1>6. OnlyOffsetUnlocks'
      BY <1>1, <1>2 DEF LndIndexInv, OnlyOffsetUnlocks
<1>7. OnlyOffsetMisrecords'
      BY <1>1, <1>2 DEF LndIndexInv, OnlyOffsetMisrecords
<1> QED BY <1>3, <1>4, <1>5, <1>6, <1>7 DEF LndIndexInv

\* A handler's step only moves the handler, and changes the swap's rows.
LEMMA QuietHandler ==
    ASSUME LndIndexInv,
           UNCHANGED <<order, other, labels, node, unlisted, blank, found>>,
           UNCHANGED <<todo, held, proc>>,
           \A l \in PayReqs : pay'[l] \in {"calling", "gotSuccess", "gotFailure"} =>
              \/ pay'[l] = pay[l]
              \/ pay'[l] = "gotSuccess" /\ Complete(l)
              \/ pay'[l] = "gotFailure" /\ ~Pending(l),
           \A l \in payLocks \ payLocks' : ~Pending(l),
           preimage' = preimage \/ (preimage' = "own" /\ AnyComplete),
           \A l \in PayReqs : success'[l] = "true" => success[l] = "true" \/ AnyComplete
    PROVE  IndexQuiet
<1>1. OneQuestion' /\ \A p \in Procs : unlisted'[p] \subseteq todo'[p]
      BY DEF LndIndexInv, LndTypeOK, OneQuestion
<1> QED BY <1>1 DEF IndexQuiet

\* The steps shared with SwapPayments are of this kind: pay_swap's ...
LEMMA QuietPay ==
    ASSUME LndInv, LndIndexInv, NEW l \in PayReqs, UNCHANGED lnd,
           SharedPay(l) \/ LndReply(l)
    PROVE  IndexQuiet
<1>1. /\ UNCHANGED <<order, other, labels, node, unlisted, blank, found>>
      /\ UNCHANGED <<todo, held, proc>>
      BY DEF SharedPay, PaySelect, PayLock, PayLockRefused, PayStore, PayAbandon,
             LndReply, hist, pm, lnd
<1>2. \A k \in PayReqs : pay'[k] \in {"calling", "gotSuccess", "gotFailure"} =>
         \/ pay'[k] = pay[k]
         \/ pay'[k] = "gotSuccess" /\ Complete(k)
         \/ pay'[k] = "gotFailure" /\ ~Pending(k)
      BY DEF LndInv, TypeOK, SharedPay, PaySelect, PayLock, PayLockRefused, PayStore,
             PayAbandon, LndReply, Pending
<1> USE DEF LndInv, TypeOK
<1>3. CASE PayStore(l)
  <2>1. CASE pay[l] = "gotSuccess"
    <3>1. AnyComplete /\ ~Pending(l)
          BY <2>1 DEF LndIndexInv, ResultsAreOf, AnyComplete, Complete, Pending
    <3>2. \A k \in payLocks \ payLocks' : ~Pending(k)
          BY <1>3, <3>1 DEF PayStore, UnlockAddPaymentResult
    <3>3. preimage' = "own"
          BY <1>3, <2>1 DEF PayStore, UnlockAddPaymentResult, PreimageAfter
    <3> QED BY <1>1, <1>2, <3>1, <3>2, <3>3, QuietHandler
  <2>2. CASE pay[l] # "gotSuccess"
    <3>1. pay[l] = "gotFailure" /\ UnlockAddPaymentResult(l, "failure")
          BY <1>3, <2>2 DEF PayStore
    <3>2. ~Pending(l)
          BY <3>1 DEF LndIndexInv, ResultsAreOf
    <3>3. preimage' = preimage
          BY <3>1 DEF UnlockAddPaymentResult, PreimageAfter
    <3>4. /\ \A k \in PayReqs : success'[k] = "true" => success[k] = "true"
          /\ \A k \in payLocks \ payLocks' : ~Pending(k)
          BY <3>1, <3>2 DEF UnlockAddPaymentResult, PreimageAfter
    <3> QED BY <1>1, <1>2, <3>3, <3>4, QuietHandler
  <2> QED BY <2>1, <2>2
<1>4. CASE ~PayStore(l)
  <2>1. preimage' = preimage
        BY <1>4 DEF SharedPay, PaySelect, PayLock, PayLockRefused, PayAbandon, LndReply, db
  <2>2. /\ payLocks \subseteq payLocks'
        /\ \A k \in PayReqs : success'[k] = "true" => success[k] = "true"
        BY <1>4 DEF SharedPay, PaySelect, PayLock, LockAddPaymentAttempt, PayLockRefused,
             PayAbandon, LndReply, db
  <2> QED BY <1>1, <1>2, <2>1, <2>2, QuietHandler
<1> QED BY <1>3, <1>4

\* ... refund_swap's, and the chain's ...
LEMMA QuietRefund ==
    ASSUME LndIndexInv, UNCHANGED lnd,
           \/ \E r \in RefundReqs : SharedRefund(r) \/ LndRefundCheck(r)
           \/ \E o \in Outputs : ChainTables(o)
    PROVE  IndexQuiet
<1>1. /\ UNCHANGED <<preimage, payLocks, success, todo, held, proc, found, pay>>
      /\ UNCHANGED <<order, other, labels, node, unlisted, blank>>
      BY DEF SharedRefund, RefundLock, RefundLockRefused, RefundCheckFails,
             RefundUnlock, RefundAbandon, LndRefundCheck, ChainTables, OutputConfirmed,
             OutputSpent, OutputReorged, db, chain, hist, pm, lnd
<1> QED BY <1>1, QuietHandler

\* ... the historical monitor's, which stores only what it holds ...
LEMMA QuietProcess ==
    ASSUME LndInv, LndIndexInv, NEW p \in Procs, UNCHANGED lnd, SharedProcess(p)
    PROVE  IndexQuiet
<1> USE DEF LndInv, LndIndexInv, LndTypeOK, TypeOK, IndexQuiet, OneQuestion, ResultsAreOf,
            db, chain, hist, pm, lnd
<1>1. CASE ProcStart(p)
  <2>1. /\ UNCHANGED <<order, other, labels, node, unlisted, blank, found>>
        /\ UNCHANGED <<pay, held, preimage, payLocks, success>>
        BY <1>1 DEF ProcStart
  <2>2. \A q \in Procs : unlisted'[q] \subseteq todo'[q]
    <3>1. todo[p] = {} /\ unlisted[p] \subseteq todo[p]
          BY <1>1 DEF ProcStart
    <3>2. \A q \in Procs \ {p} : todo'[q] = todo[q]
          BY <1>1 DEF ProcStart
    <3>3. \A q \in Procs : unlisted[q] \subseteq todo[q] /\ unlisted'[q] = unlisted[q]
          BY <2>1
    <3> HIDE DEF LndInv, LndIndexInv
    <3> QED BY <3>1, <3>2, <3>3
  <2>3. OneQuestion'
    <3>1. proc'[p] = "starting" /\ \A q \in Procs \ {p} : UNCHANGED <<proc[q], todo[q]>>
          BY <1>1 DEF ProcStart
    <3>2. OneQuestion
          OBVIOUS
    <3> HIDE DEF LndInv, LndIndexInv
    <3> QED BY <2>1, <3>1, <3>2
  <2> QED BY <2>1, <2>2, <2>3
<1>2. CASE HistStore(p)
  <2>1. PICK l \in PayReqs, res \in Results :
            /\ held[p] = {<<l, res>>}
            /\ UnlockAddPaymentResult(l, res)
            /\ todo' = [todo EXCEPT ![p] = @ \ {l}]
        BY <1>2 DEF HistStore
  <2>2. MayTake(l, res)
        BY <2>1 DEF MayTake
  <2>3. unlisted[p] = {}
        BY <2>1
  <2>4. /\ \/ preimage' = preimage
           \/ preimage' = "own" /\ AnyComplete
           \/ preimage' = "foreign" /\ \E k \in PayReqs : OtherFollows(k)
        /\ \A k \in PayReqs : success'[k] = "true" =>
              success[k] = "true" \/ AnyComplete \/ OtherFollows(k)
    <3>1. preimage' = PreimageAfter(res)
          BY <2>1 DEF UnlockAddPaymentResult
    <3>2. \/ preimage' = preimage
          \/ preimage' = "own" /\ AnyComplete
          \/ preimage' = "foreign" /\ \E k \in PayReqs : OtherFollows(k)
          BY <2>2, <3>1 DEF PreimageAfter, MayTake
    <3>3. \A k \in PayReqs \ {l} : success'[k] = success[k]
          BY <2>1 DEF UnlockAddPaymentResult
    <3>4. success'[l] = "true" => AnyComplete \/ OtherFollows(l)
          BY <2>1, <2>2 DEF UnlockAddPaymentResult, MayTake, Results
    <3> QED BY <3>2, <3>3, <3>4
  <2>5. \A k \in payLocks \ payLocks' : ~Pending(k) \/ OtherFollows(k)
        BY <2>1, <2>2 DEF UnlockAddPaymentResult, MayTake
  <2>6. /\ UNCHANGED <<proc, found, pay, order, other, labels, node, unlisted, blank>>
        /\ held' = [held EXCEPT ![p] = {}]
        BY <1>2 DEF HistStore
  <2>7. \A q \in Procs : unlisted'[q] \subseteq todo'[q]
        BY <2>1, <2>3, <2>6
  <2>8. OneQuestion'
    <3>1. \A q \in Procs : todo'[q] \subseteq todo[q] /\ held'[q] \subseteq held[q]
          BY <2>1, <2>6
    <3> QED BY <2>6, <3>1
  <2> QED BY <2>4, <2>5, <2>6, <2>7, <2>8
<1>3. CASE HistRoundEnds(p) BY <1>3 DEF HistRoundEnds
<1> QED BY <1>1, <1>2, <1>3 DEF SharedProcess

\* ... and those of the preimage monitor, which finds payments made.
LEMMA QuietMonitors ==
    ASSUME LndInv, LndIndexInv, UNCHANGED lnd, SharedPreimage
    PROVE  IndexQuiet
<1>1. /\ UNCHANGED <<order, other, labels, node, unlisted, blank>>
      /\ UNCHANGED <<todo, held, proc, pay>>
      BY DEF SharedPreimage, PreimageRead, PreimageNotFound, PreimageStore,
             PreimageStoreFails, hist, lnd
<1>2. OneQuestion' /\ \A p \in Procs : unlisted'[p] \subseteq todo'[p]
      BY <1>1 DEF LndIndexInv, LndTypeOK, OneQuestion
<1>3. CASE PreimageRead \/ PreimageNotFound
  <2>1. UNCHANGED <<preimage, payLocks, success, found>>
        BY <1>3 DEF PreimageRead, PreimageNotFound, db
  <2> QED BY <1>1, <1>2, <2>1 DEF IndexQuiet
<1>4. CASE found # {}
  <2>1. blank' = FALSE
    <3>1. blank \in BOOLEAN /\ ~blank
          BY <1>4 DEF LndIndexInv, LndTypeOK
    <3> QED BY <1>1, <3>1
  <2>2. CASE PreimageStore
    <3>1. PICK l \in found : UnlockAddPaymentResult(l, "success")
          BY <2>2 DEF PreimageStore
    <3>2. l \in PayReqs /\ AnyComplete /\ ~Pending(l)
          BY <3>1 DEF LndInv, TypeOK, MonitorsLeaveHandlers, AnyComplete, Complete, Pending
    <3>3. \A k \in payLocks \ payLocks' : ~Pending(k)
          BY <3>1, <3>2 DEF UnlockAddPaymentResult
    <3>4. preimage' = "own"
          BY <3>1 DEF UnlockAddPaymentResult, PreimageAfter
    <3> QED BY <1>1, <1>2, <2>1, <3>2, <3>3, <3>4 DEF IndexQuiet
  <2>3. CASE PreimageStoreFails
    <3>1. UNCHANGED <<preimage, payLocks, success>>
          BY <2>3 DEF PreimageStoreFails, db
    <3> QED BY <1>1, <1>2, <2>1, <3>1 DEF IndexQuiet
  <2> QED BY <1>3, <2>2, <2>3 DEF SharedPreimage
<1> QED BY <1>3, <1>4 DEF SharedPreimage, PreimageStore, PreimageStoreFails

\* A payment listed after a label's own is one for another hash, or the label's
\* has ended: of one hash only the latest is in flight.
LEMMA ListedIsOf ==
    ASSUME LndInv, LndIndexInv, NEW l \in labels, NEW i \in ListPayments(IndexOf(l))
    PROVE  IF order[i] \in OtherPays THEN OtherFollows(l)
           ELSE ~Pending(l) /\ (StateAt(i) = "complete" => AnyComplete)
<1>1. LndTypeOK /\ DOMAIN order \subseteq Nat
      BY DEF LndIndexInv, LndTypeOK
<1>2. l \in PayReqs
      BY <1>1 DEF LndTypeOK
<1>3. /\ IndexOf(l) \in DOMAIN order /\ order[IndexOf(l)] = l
      /\ \A j \in DOMAIN order : order[j] = l => j = IndexOf(l)
      BY <1>1, IndexIs
<1>4. i \in DOMAIN order /\ i > IndexOf(l)
      BY DEF ListPayments
<1>5. CASE order[i] \in OtherPays
      BY <1>4, <1>5 DEF OtherFollows
<1>6. CASE order[i] \notin OtherPays
  <2>1. order[i] \in PayReqs
        BY <1>1, <1>4, <1>6 DEF LndTypeOK
  <2>2. ~Pending(l)
    <3> SUFFICES ASSUME Pending(l) PROVE FALSE
        OBVIOUS
    <3>1. PICK n \in DOMAIN order : order[n] = l
               /\ \A j \in DOMAIN order : order[j] \in PayReqs => j <= n
          BY <1>2 DEF LndInv, ActiveIsLatest, Pending
    <3>2. n = IndexOf(l) /\ i <= n
          BY <1>3, <1>4, <2>1, <3>1
    <3> QED BY <1>1, <1>3, <1>4, <3>2
  <2>3. StateAt(i) = node[order[i]]
        BY <1>6 DEF StateAt
  <2> QED BY <1>6, <2>1, <2>2, <2>3 DEF AnyComplete, Complete
<1> QED BY <1>5, <1>6

\* What the historical monitor takes for a label's state.
LEMMA QuietTake ==
    ASSUME Workers = {}, LndInv, LndIndexInv, NEW p \in Procs, NEW l \in PayReqs,
           NEW state, NEW made \in Results,
           TakeState(p, l, state, made), held[p] = {},
           unlisted' = [unlisted EXCEPT ![p] = {}],
           state # "pending" => MayTake(l, IF state = "complete" THEN made ELSE "failure"),
           l \in todo[p],
           UNCHANGED <<list, db, chain, node, retried, pay, refund, proc, pm, order, other,
                       labels, blank>>
    PROVE  IndexQuiet
<1>1. /\ UNCHANGED <<preimage, payLocks, success, node, pay, proc, found>>
      /\ UNCHANGED <<order, other, labels, blank>>
      BY DEF db, pm
<1>2. \A q \in Procs : q = p
      BY DEF Procs
<1> USE DEF LndInv, TypeOK, LndIndexInv, LndTypeOK, OneQuestion
<1>3. unlisted'[p] = {} /\ proc[p] # "down"
      OBVIOUS
<1>4. CASE state = "pending"
  <2>1. todo' = [todo EXCEPT ![p] = @ \ {l}] /\ held' = held
        BY <1>4 DEF TakeState
  <2>2. OneQuestion' /\ \A q \in Procs : unlisted'[q] \subseteq todo'[q]
        BY <1>1, <1>2, <1>3, <2>1
  <2> QED BY <1>1, <2>1, <2>2 DEF IndexQuiet
<1>5. CASE state # "pending"
  <2> DEFINE res == IF state = "complete" THEN made ELSE "failure"
  <2>1. todo' = todo /\ held' = [held EXCEPT ![p] = {<<l, res>>}]
        BY <1>5 DEF TakeState
  <2>2. OneQuestion' /\ \A q \in Procs : unlisted'[q] \subseteq todo'[q]
        BY <1>1, <1>2, <1>3, <2>1
  <2>3. ASSUME NEW q \in Procs, NEW k \in PayReqs, NEW taken \in Results,
               <<k, taken>> \in held'[q]
        PROVE  k = l /\ taken = res
        BY <1>2, <2>1, <2>3
  <2>4. MayTake(l, res)
        BY <1>5
  <2>5. \A q \in Procs, k \in PayReqs, taken \in Results :
           <<k, taken>> \in held'[q] => MayTake(k, taken)
        BY <2>3, <2>4
  <2> HIDE DEF res
  <2> QED BY <1>1, <2>2, <2>5 DEF IndexQuiet
<1> QED BY <1>4, <1>5

\* The historical monitor's own steps.
LEMMA QuietMonitor ==
    ASSUME Workers = {}, LndInv, LndIndexInv, NEW p \in Procs, LndMonitor(p)
    PROVE  IndexQuiet
<1>1. \A q \in Procs : q = p
      BY DEF Procs
<1> USE DEF LndInv, TypeOK, LndIndexInv, LndTypeOK, OneQuestion
<1>2. ASSUME NEW l \in PayReqs, QueryByIndex(p, l) PROVE IndexQuiet
  <2>1. /\ l \in todo[p] /\ held[p] = {} /\ unlisted[p] = {}
        /\ UNCHANGED <<list, db, chain, node, retried, pay, refund, proc, pm, order, other,
                       labels, blank>>
        BY <1>2 DEF QueryByIndex
  <2>2. CASE unlisted' = [unlisted EXCEPT ![p] = {l}] /\ UNCHANGED <<todo, kept, held>>
    <3>1. OneQuestion' /\ \A q \in Procs : unlisted'[q] \subseteq todo'[q]
          BY <1>1, <2>1, <2>2
    <3>2. UNCHANGED <<preimage, payLocks, success, found>>
          BY <2>1 DEF db, pm
    <3> QED BY <2>1, <2>2, <3>1, <3>2 DEF IndexQuiet
  <2>3. ASSUME l \in labels, UNCHANGED unlisted, NEW i \in ListPayments(IndexOf(l)),
               TakeState(p, l, StateAt(i),
                         IF order[i] \in OtherPays THEN "foreign" ELSE "success")
        PROVE  IndexQuiet
    <3> DEFINE made == IF order[i] \in OtherPays THEN "foreign" ELSE "success"
    <3>1. unlisted' = [unlisted EXCEPT ![p] = {}]
          BY <2>1, <2>3
    <3>2. MayTake(l, IF StateAt(i) = "complete" THEN made ELSE "failure")
          BY <2>3, ListedIsOf DEF MayTake
    <3>3. made \in Results /\ TakeState(p, l, StateAt(i), made)
          BY <2>3 DEF Results
    <3> HIDE DEF made
    <3> QED BY <2>1, <3>1, <3>2, <3>3, QuietTake
  <2> QED BY <1>2, <2>2, <2>3 DEF QueryByIndex
<1>3. CASE QueryByHash(p)
  <2>1. PICK l \in unlisted[p] : TakeState(p, l, Tracked, "success")
        BY <1>3 DEF QueryByHash
  <2>2. l \in PayReqs /\ l \in todo[p] /\ held[p] = {}
        BY <2>1
  <2>3. Tracked # "pending" => ~Pending(l)
        BY <2>2, TrackedIsActive DEF Pending
  <2>4. Tracked = "complete" => AnyComplete
        BY TrackedIsOwn
  <2>5. "success" \in Results
        BY DEF Results
  <2>6. Tracked # "pending" =>
           MayTake(l, IF Tracked = "complete" THEN "success" ELSE "failure")
        BY <2>3, <2>4 DEF MayTake
  <2> QED BY <1>3, <2>1, <2>2, <2>5, <2>6, QuietTake DEF QueryByHash
<1>4. CASE LndRoundFails(p)
  <2>1. /\ UNCHANGED <<preimage, payLocks, success, node, pay, found>>
        /\ UNCHANGED <<order, other, labels, blank>>
        /\ unlisted'[p] = {} /\ held'[p] = {} /\ proc'[p] = "up"
        BY <1>4 DEF LndRoundFails, HistRoundFails, db, pm
  <2>2. OneQuestion' /\ \A q \in Procs : unlisted'[q] \subseteq todo'[q]
        BY <1>1, <2>1
  <2> QED BY <1>1, <2>1, <2>2 DEF IndexQuiet
<1>5. CASE LndProcStop(p)
  <2>1. /\ UNCHANGED <<preimage, payLocks, success, node>>
        /\ UNCHANGED <<order, other, labels>>
        /\ unlisted'[p] = {} /\ held'[p] = {} /\ todo'[p] = {}
        BY <1>5 DEF LndProcStop, ProcStop, db
  <2>2. OneQuestion' /\ \A q \in Procs : unlisted'[q] \subseteq todo'[q]
        BY <1>1, <2>1
  <2>3. \A l \in PayReqs : pay'[l] = "dead" \/ pay'[l] = pay[l]
        BY <1>5 DEF LndProcStop, ProcStop
  <2>4. blank' = FALSE
    <3>1. p = PreimageProc
          BY <1>1, ProcessAssumption
    <3>2. blank' = (blank /\ p # PreimageProc)
          BY <1>5 DEF LndProcStop
    <3> QED BY <3>1, <3>2
  <2> QED BY <1>1, <2>1, <2>2, <2>3, <2>4 DEF IndexQuiet
<1> QED BY <1>2, <1>3, <1>4, <1>5 DEF LndMonitor

\* The preimage monitor's own steps.
LEMMA QuietPreimage ==
    ASSUME LndIndexInv, LndPreimage
    PROVE  IndexQuiet
<1>1. /\ UNCHANGED <<order, other, labels, node, unlisted, payLocks, success>>
      /\ UNCHANGED <<todo, held, proc, pay>>
      BY DEF LndPreimage, LndPreimageFound, PreimageStoreBlank, PreimageStoreBlankFails,
             hist, db
<1>2. OneQuestion' /\ \A p \in Procs : unlisted'[p] \subseteq todo'[p]
      BY <1>1 DEF LndIndexInv, LndTypeOK, OneQuestion
<1>3. CASE LndPreimageFound
  <2>1. AnyComplete /\ preimage' = preimage
        BY <1>3 DEF LndPreimageFound, AnyComplete, db
  <2>2. blank' = FALSE \/ (blank' = TRUE /\ found' = {})
    <3>1. blank = FALSE /\ found = {}
          BY <1>3 DEF LndPreimageFound, LndIndexInv, LndTypeOK
    <3>2. PICK l \in PayReqs :
             IF l \in labels THEN found' = {l} /\ UNCHANGED blank
                             ELSE blank' = TRUE /\ UNCHANGED found
          BY <1>3 DEF LndPreimageFound
    <3>3. CASE l \in labels
          BY <3>1, <3>2, <3>3
    <3>4. CASE l \notin labels
          BY <3>1, <3>2, <3>4
    <3> QED BY <3>3, <3>4
  <2> QED BY <1>1, <1>2, <2>1, <2>2 DEF IndexQuiet
<1>4. CASE PreimageStoreBlank
  <2>1. AnyComplete /\ blank' = FALSE /\ preimage' = "own"
        BY <1>4 DEF PreimageStoreBlank, LndIndexInv, ResultsAreOf
  <2> QED BY <1>1, <1>2, <2>1 DEF IndexQuiet
<1>5. CASE PreimageStoreBlankFails
  <2>1. blank' = FALSE /\ preimage' = preimage
        BY <1>5 DEF PreimageStoreBlankFails, db
  <2> QED BY <1>1, <1>2, <2>1 DEF IndexQuiet
<1> QED BY <1>3, <1>4, <1>5 DEF LndPreimage

\* A step of the payments and the index themselves: labels, indices and payments
\* made stay, and what is newly in flight has its handler and its lock.
LEMMA IndexMoves ==
    ASSUME LndInv, LndIndexInv, LndTypeOK', OrderHasSent',
           UNCHANGED <<unlisted, todo, held, proc, blank, preimage, payLocks, success>>,
           labels \subseteq labels', Len(order) <= Len(order'),
           \A i \in DOMAIN order : order'[i] = order[i],
           \A l \in PayReqs : Complete(l) => Complete(l)',
           \A l \in PayReqs : Pending(l)' =>
              Pending(l) \/ (l \in payLocks /\ pay[l] = "locked"),
           \A l \in PayReqs : pay'[l] \in {"gotSuccess", "gotFailure"} => pay'[l] = pay[l]
    PROVE  LndIndexInv'
<1>1. \A l \in PayReqs : OtherFollows(l) => OtherFollows(l)'
      BY FollowsStays DEF LndIndexInv
<1>2. AnyComplete => AnyComplete'
      BY DEF AnyComplete
<1>3. OneQuestion'
      BY DEF LndIndexInv, OneQuestion
<1>4. ResultsAreOf'
  <2>1. ResultsAreOf
        BY DEF LndIndexInv
  <2>2. /\ (\A l \in PayReqs : pay[l] = "gotSuccess" => Complete(l))'
        /\ (\A l \in PayReqs : pay[l] = "gotFailure" => ~Pending(l))'
        BY <2>1 DEF ResultsAreOf
  <2>3. ASSUME NEW p \in Procs, NEW l \in PayReqs, NEW res \in Results,
               <<l, res>> \in held'[p]
        PROVE  ~Pending(l)' \/ OtherFollows(l)'
    <3>1. pay[l] # "locked"
          BY <2>3 DEF LndInv, MonitorsLeaveHandlers
    <3>2. ~Pending(l) \/ OtherFollows(l)
          BY <2>1, <2>3 DEF ResultsAreOf
    <3> QED BY <1>1, <3>1, <3>2
  <2>4. \A p \in Procs, l \in PayReqs :
           /\ <<l, "success">> \in held'[p] => AnyComplete'
           /\ <<l, "foreign">> \in held'[p] => OtherFollows(l)'
        BY <1>1, <1>2, <2>1 DEF ResultsAreOf
  <2>5. blank' => AnyComplete'
    <3>1. blank => AnyComplete
          BY <2>1 DEF ResultsAreOf
    <3>2. blank' = blank
          OBVIOUS
    <3> QED BY <1>2, <3>1, <3>2
  <2> QED BY <2>2, <2>3, <2>4, <2>5 DEF ResultsAreOf
<1>5. OnlyOffsetUnlocks'
      BY <1>1 DEF LndIndexInv, OnlyOffsetUnlocks
<1>6. OnlyOffsetMisrecords'
  <2>1. /\ preimage = "own" => AnyComplete'
        /\ preimage = "foreign" => \E l \in PayReqs : OtherFollows(l)'
        /\ \A l \in PayReqs : success[l] = "true" => AnyComplete' \/ OtherFollows(l)'
        BY <1>1, <1>2 DEF LndIndexInv, OnlyOffsetMisrecords
  <2>2. preimage' = preimage /\ success' = success
        OBVIOUS
  <2> QED BY <2>1, <2>2 DEF OnlyOffsetMisrecords
<1> QED BY <1>3, <1>4, <1>5, <1>6 DEF LndIndexInv

\* A payment gets the next index, at the end.
LEMMA Appended ==
    ASSUME LndTypeOK, NEW x \in PayReqs \cup OtherPays, order' = Append(order, x),
           \A i \in DOMAIN order : order[i] # x
    PROVE  /\ order' \in Seq(PayReqs \cup OtherPays)
           /\ Len(order) <= Len(order')
           /\ DOMAIN order' = DOMAIN order \cup {Len(order) + 1}
           /\ order'[Len(order) + 1] = x
           /\ \A i \in DOMAIN order : order'[i] = order[i]
           /\ \A i, j \in DOMAIN order' : order'[i] = order'[j] => i = j
<1>1. order \in Seq(PayReqs \cup OtherPays) /\ Len(order) \in Nat
      BY DEF LndTypeOK
<1>2. /\ order' \in Seq(PayReqs \cup OtherPays)
      /\ Len(order') = Len(order) + 1
      /\ DOMAIN order' = DOMAIN order \cup {Len(order) + 1}
      /\ order'[Len(order) + 1] = x
      /\ \A i \in DOMAIN order : order'[i] = order[i]
      BY <1>1
<1>3. \A i, j \in DOMAIN order : order[i] = order[j] => i = j
      BY DEF LndTypeOK
<1> QED BY <1>1, <1>2, <1>3

\* The steps of pay, and the end of a payment.
LEMMA IndexPay ==
    ASSUME LndInv, LndInv', LndIndexInv, NEW l \in PayReqs, LndPay(l)
    PROVE  LndIndexInv'
<1>0. LndTypeOK /\ OrderHasSent /\ TypeOK /\ TypeOK'
      BY DEF LndIndexInv, LndInv
<1>1. CASE LndSend(l)
  <2>1. /\ UNCHANGED <<unlisted, todo, held, proc, blank, preimage, payLocks, success>>
        /\ UNCHANGED <<labels, other, found>>
        BY <1>1 DEF LndSend, db, hist, pm
  <2>2. /\ pay[l] = "locked" /\ l \in payLocks /\ node[l] = "absent"
        /\ pay' = [pay EXCEPT ![l] = "calling"]
        /\ node' = [node EXCEPT ![l] = "pending"]
        BY <1>1 DEF LndSend, LndInv, UnsentHoldsLock
  <2>3. \A i \in DOMAIN order : order[i] # l
        BY <1>0, <2>2 DEF OrderHasSent
  <2>4. /\ order' \in Seq(PayReqs \cup OtherPays)
        /\ Len(order) <= Len(order')
        /\ DOMAIN order' = DOMAIN order \cup {Len(order) + 1}
        /\ order'[Len(order) + 1] = l
        /\ \A i \in DOMAIN order : order'[i] = order[i]
        /\ \A i, j \in DOMAIN order' : order'[i] = order'[j] => i = j
        BY <1>0, <1>1, <2>3, Appended DEF LndSend
  <2>5. LndTypeOK'
    <3>1. /\ labels' \subseteq {k \in PayReqs : \E i \in DOMAIN order' : order'[i] = k}
          /\ other' \in [OtherPays -> {"absent", "pending", "complete", "failed"}]
          /\ unlisted' \in [Procs -> SUBSET PayReqs]
          /\ \A p \in Procs : unlisted'[p] \subseteq todo'[p]
          BY <1>0, <2>1, <2>4 DEF LndTypeOK
    <3>2. blank' \in BOOLEAN /\ (blank' => found' = {})
          BY <1>0, <2>1 DEF LndTypeOK
    <3> QED BY <1>0, <2>4, <3>1, <3>2 DEF LndTypeOK
  <2>6. OrderHasSent'
        BY <1>0, <2>1, <2>2, <2>4, OtherPaysAssumption DEF OrderHasSent, TypeOK
  <2>7. /\ \A k \in PayReqs : Complete(k) => Complete(k)'
        /\ \A k \in PayReqs : Pending(k)' =>
              Pending(k) \/ (k \in payLocks /\ pay[k] = "locked")
        /\ \A k \in PayReqs : pay'[k] \in {"gotSuccess", "gotFailure"} => pay'[k] = pay[k]
        BY <1>0, <2>2 DEF TypeOK, Complete, Pending
  <2> QED BY <2>1, <2>4, <2>5, <2>6, <2>7, IndexMoves
<1>2. CASE LndAddLabel(l)
  <2>1. /\ UNCHANGED <<unlisted, todo, held, proc, blank, preimage, payLocks, success>>
        /\ UNCHANGED <<order, other, found, node, pay>>
        /\ labels' = labels \cup {l}
        BY <1>2 DEF LndAddLabel, vars, db, hist, pm
  <2>2. \E i \in DOMAIN order : order[i] = l
        BY <1>0, <1>2 DEF LndAddLabel, OrderHasSent
  <2>3. LndTypeOK'
    <3>1. blank' \in BOOLEAN /\ (blank' => found' = {})
          BY <1>0, <2>1 DEF LndTypeOK
    <3> QED BY <1>0, <2>1, <2>2, <3>1 DEF LndTypeOK
  <2>4. OrderHasSent'
        BY <1>0, <2>1 DEF OrderHasSent
  <2>5. Len(order) <= Len(order')
        BY <1>0, <2>1 DEF LndTypeOK
  <2> QED BY <2>1, <2>3, <2>4, <2>5, IndexMoves DEF Complete, Pending
<1>3. CASE LndReply(l)
  <2>1. UNCHANGED lnd
        BY <1>3 DEF LndReply
  <2> QED BY <1>3, <2>1, QuietPay, IndexQuietKeeps
<1>4. CASE PaymentEnds(l)
  <2>1. /\ UNCHANGED <<unlisted, todo, held, proc, blank, preimage, payLocks, success>>
        /\ UNCHANGED <<order, other, labels, found, pay>>
        BY <1>4 DEF PaymentEnds, db, hist, pm, lnd
  <2>2. PICK state \in {"complete", "failed"} : node' = [node EXCEPT ![l] = state]
        BY <1>4 DEF PaymentEnds
  <2>3. LndTypeOK'
    <3>1. blank' \in BOOLEAN /\ (blank' => found' = {})
          BY <1>0, <2>1 DEF LndTypeOK
    <3> QED BY <1>0, <2>1, <3>1 DEF LndTypeOK
  <2>4. OrderHasSent'
        BY <1>0, <2>1, <2>2 DEF OrderHasSent, TypeOK
  <2>5. Len(order) <= Len(order')
        BY <1>0, <2>1 DEF LndTypeOK
  <2>6. \A k \in PayReqs : (Complete(k) => Complete(k)') /\ (Pending(k)' => Pending(k))
        BY <1>0, <1>4, <2>2 DEF PaymentEnds, TypeOK, Complete, Pending
  <2> QED BY <2>1, <2>3, <2>4, <2>5, <2>6, IndexMoves
<1> QED BY <1>1, <1>2, <1>3, <1>4 DEF LndPay

\* Payments for other hashes.
LEMMA IndexOther ==
    ASSUME LndInv, LndInv', LndIndexInv, NEW o \in OtherPays, OtherSent(o) \/ OtherEnds(o)
    PROVE  LndIndexInv'
<1>0. LndTypeOK /\ OrderHasSent /\ TypeOK'
      BY DEF LndIndexInv, LndInv
<1>1. /\ UNCHANGED <<unlisted, todo, held, proc, blank, preimage, payLocks, success>>
      /\ UNCHANGED <<labels, found, node, pay>>
      BY DEF OtherSent, OtherEnds, vars, db, hist, pm
<1>2. blank' \in BOOLEAN /\ (blank' => found' = {})
      BY <1>0, <1>1 DEF LndTypeOK
<1>3. \A k \in PayReqs : (Complete(k) => Complete(k)') /\ (Pending(k)' => Pending(k))
      BY <1>1 DEF Complete, Pending
<1>4. PICK state \in {"pending", "complete", "failed"} :
         other' = [other EXCEPT ![o] = state]
      BY DEF OtherSent, OtherEnds
<1>5. CASE OtherSent(o)
  <2>1. \A i \in DOMAIN order : order[i] # o
        BY <1>0, <1>5 DEF OtherSent, OrderHasSent
  <2>2. /\ order' \in Seq(PayReqs \cup OtherPays)
        /\ Len(order) <= Len(order')
        /\ DOMAIN order' = DOMAIN order \cup {Len(order) + 1}
        /\ order'[Len(order) + 1] = o
        /\ \A i \in DOMAIN order : order'[i] = order[i]
        /\ \A i, j \in DOMAIN order' : order'[i] = order'[j] => i = j
        BY <1>0, <1>5, <2>1, Appended DEF OtherSent
  <2>3. LndTypeOK'
        BY <1>0, <1>1, <1>2, <1>4, <2>2 DEF LndTypeOK
  <2>4. OrderHasSent'
        BY <1>0, <1>1, <1>4, <2>2, OtherPaysAssumption DEF OrderHasSent, LndTypeOK
  <2> QED BY <1>1, <1>3, <2>2, <2>3, <2>4, IndexMoves
<1>6. CASE OtherEnds(o)
  <2>1. order' = order /\ Len(order) <= Len(order')
        BY <1>0, <1>6 DEF OtherEnds, LndTypeOK
  <2>2. LndTypeOK'
        BY <1>0, <1>1, <1>2, <1>4, <2>1 DEF LndTypeOK
  <2>3. OrderHasSent'
        BY <1>0, <1>1, <1>4, <2>1 DEF OrderHasSent, LndTypeOK
  <2> QED BY <1>1, <1>3, <2>1, <2>2, <2>3, IndexMoves
<1> QED BY <1>5, <1>6

-----------------------------------------------------------------------------
\* What is true of the index and of the results on their way holds throughout.
THEOREM LndIndexInvariance == Workers = {} => (LndSpec => []LndIndexInv)
<1> SUFFICES ASSUME Workers = {} PROVE LndSpec => []LndIndexInv
    OBVIOUS
<1>1. LndInit => LndIndexInv
  <2> SUFFICES ASSUME LndInit PROVE LndIndexInv
      OBVIOUS
  <2>1. TypeOK
        BY TypeInit DEF LndInit
  <2>2. LndTypeOK
    <3>1. blank \in BOOLEAN /\ (blank => found = {})
          BY DEF LndInit, Init
    <3>2. order = <<>> /\ labels = {} /\ DOMAIN order = {}
          BY DEF LndInit
    <3>3. /\ other \in [OtherPays -> {"absent", "pending", "complete", "failed"}]
          /\ unlisted \in [Procs -> SUBSET PayReqs]
          /\ \A p \in Procs : unlisted[p] = {}
          BY DEF LndInit
    <3> QED BY <2>1, <3>1, <3>2, <3>3 DEF LndTypeOK
  <2>3. OrderHasSent /\ OneQuestion
        BY DEF LndInit, Init, OrderHasSent, OneQuestion
  <2>4. blank = FALSE /\ preimage = "none"
        BY DEF LndInit, Init
  <2>5. ResultsAreOf
        BY <2>4 DEF LndInit, Init, ResultsAreOf, Complete, Pending
  <2>6. OnlyOffsetUnlocks /\ OnlyOffsetMisrecords
        BY <2>4 DEF LndInit, Init, OnlyOffsetUnlocks, OnlyOffsetMisrecords, Pending
  <2> QED BY <2>2, <2>3, <2>5, <2>6 DEF LndIndexInv
<1>2. LndInv /\ LndInv' /\ LndIndexInv /\ [LndNext]_lndVars => LndIndexInv'
  <2> SUFFICES ASSUME LndInv, LndInv', LndIndexInv, [LndNext]_lndVars
               PROVE  LndIndexInv'
      OBVIOUS
  <2>1. IndexQuiet => LndIndexInv'
        BY IndexQuietKeeps
  <2>2. CASE UNCHANGED lndVars
    <3>1. /\ UNCHANGED <<order, other, labels, node, unlisted, blank, found>>
          /\ UNCHANGED <<todo, held, proc, pay, preimage, payLocks, success>>
          BY <2>2 DEF lndVars, lnd, vars, db, hist, pm
    <3> QED BY <2>1, <3>1, QuietHandler
  <2>3. CASE Shared
        BY <2>1, <2>3, QuietPay, QuietRefund, QuietProcess, QuietMonitors DEF Shared
  <2>4. ASSUME NEW l \in PayReqs, LndPay(l) PROVE LndIndexInv'
        BY <2>4, IndexPay
  <2>5. ASSUME NEW r \in RefundReqs, LndRefundCheck(r) PROVE LndIndexInv'
    <3>1. UNCHANGED lnd
          BY <2>5 DEF LndRefundCheck
    <3> QED BY <2>1, <2>5, <3>1, QuietRefund
  <2>6. ASSUME NEW p \in Procs, LndMonitor(p) PROVE LndIndexInv'
        BY <2>1, <2>6, QuietMonitor
  <2>7. CASE LndPreimage
        BY <2>1, <2>7, QuietPreimage
  <2>8. ASSUME NEW o \in OtherPays, OtherSent(o) \/ OtherEnds(o) PROVE LndIndexInv'
        BY <2>8, IndexOther
  <2> QED BY <2>2, <2>3, <2>4, <2>5, <2>6, <2>7, <2>8 DEF LndNext
<1> QED BY <1>1, <1>2, LndInvariance, PTL DEF LndSpec

\* A label in the table always leads to one payment that LND was given, for any
\* number of attempts: the CHOOSE of an index is never of an empty set.
THEOREM LndTypeCorrect == Workers = {} => (LndSpec => []LndTypeOK)
<1>1. LndIndexInv => LndTypeOK
      BY DEF LndIndexInv
<1> QED BY <1>1, LndIndexInvariance, PTL

\* However answers, labels and processes are lost, and however often the swap is
\* tried again, a lock goes while its payment is in flight only where a payment
\* for another hash follows it: the index_offset is the one thing that spoils it.
THEOREM UnlocksOnlyByOffset == Workers = {} => (LndSpec => []OnlyOffsetUnlocks)
<1>1. LndIndexInv => OnlyOffsetUnlocks
      BY DEF LndIndexInv
<1> QED BY <1>1, LndIndexInvariance, PTL

\* So it is with a success recorded for a hash that has no payment.
THEOREM MisrecordsOnlyByOffset == Workers = {} => (LndSpec => []OnlyOffsetMisrecords)
<1>1. LndIndexInv => OnlyOffsetMisrecords
      BY DEF LndIndexInv
<1> QED BY <1>1, LndIndexInvariance, PTL
=============================================================================
