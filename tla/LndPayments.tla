---------------------------- MODULE LndPayments ----------------------------
(***************************************************************************)
(* One swap, as in SwapPayments, with LND in the place of Core Lightning:  *)
(* the steps of lnd/client.rs and the table lnd_payments that maps the     *)
(* label of an attempt to the index LND gave its payment.  The handlers,   *)
(* the repository and the monitors are those of SwapPayments; its steps of *)
(* the Core Lightning client do not occur here.                            *)
(*                                                                         *)
(* LND knows payments by hash: it refuses a second one while the first is  *)
(* in flight or made, and answers for the latest.  Label and payment are   *)
(* tied by the index alone, and LND numbers the payments of all hashes in  *)
(* one sequence.  A payment goes on when its caller is gone, and counts as *)
(* in flight until it has ended, between two tries as well.                *)
(***************************************************************************)
EXTENDS SwapPayments, Naturals, Sequences

CONSTANT OtherPays      \* payments of the node for other hashes

ASSUME OtherPaysAssumption == OtherPays \cap PayReqs = {}

VARIABLES
    order,      \* LND's payments by index, a label or a member of OtherPays
    other,      \* the states of OtherPays
    labels,     \* labels with a row in lnd_payments
    unlisted,   \* get_payment_state: list_payments came back empty for the
                \* label, or had no index to start from; by process
    blank       \* get_preimage answered with the label ""

lnd == <<order, other, labels, unlisted, blank>>
lndVars == <<vars, lnd>>

IndexOf(l) == CHOOSE i \in DOMAIN order : order[i] = l

StateAt(i) == IF order[i] \in OtherPays THEN other[order[i]] ELSE node[order[i]]

\* What track_payment_v2 answers for the hash: the state of the latest payment
\* of it, "absent" for NotFound.
Tracked ==
    LET own == {i \in DOMAIN order : order[i] \in PayReqs}
    IN  IF own = {} THEN "absent"
        ELSE StateAt(CHOOSE i \in own : \A j \in own : j <= i)

\* list_payments with an index_offset and max_payments = 1: the first payment
\* AFTER the offset, of whatever hash.
ListPayments(offset) ==
    LET rest == {i \in DOMAIN order : i > offset}
    IN  {i \in rest : \A j \in rest : i <= j}

-----------------------------------------------------------------------------
(***************************************************************************)
(* pay.                                                                    *)
(***************************************************************************)

\* send_payment_v2: LND registers the payment.  If it refuses, or cannot be
\* reached, pay returns an error (PayAbandon).
LndSend(l) ==
    /\ pay[l] = "locked"
    /\ NodeFree
    /\ node' = [node EXCEPT ![l] = "pending"]
    /\ order' = Append(order, l)
    /\ pay' = [pay EXCEPT ![l] = "calling"]
    /\ UNCHANGED <<db, chain, retried, refund, proc, hist, pm, other, labels, unlisted, blank>>

\* A pay that stores the label before there is a payment.
LndAddLabelEarly(l) ==
    /\ pay[l] \in {"locked", "calling"} /\ l \notin labels
    /\ labels' = labels \cup {l}
    /\ UNCHANGED <<vars, order, other, unlisted, blank>>

\* The first update: its index is stored with the label.  If add_label fails,
\* pay returns an error (PayAbandon) although the payment is on its way.
LndAddLabel(l) ==
    /\ pay[l] = "calling" /\ l \notin labels
    /\ labels' = labels \cup {l}
    /\ UNCHANGED <<vars, order, other, unlisted, blank>>

\* The final update.
LndReply(l) ==
    /\ pay[l] = "calling" /\ l \in labels
    /\ \/ Complete(l) /\ pay' = [pay EXCEPT ![l] = "gotSuccess"]
       \/ node[l] = "failed" /\ pay' = [pay EXCEPT ![l] = "gotFailure"]
    /\ UNCHANGED <<db, chain, node, retried, refund, proc, hist, pm, lnd>>

-----------------------------------------------------------------------------
(***************************************************************************)
(* has_pending_or_complete_payment.                                        *)
(***************************************************************************)

\* A refund check that looks for a completed payment only.
LndRefundCheckCompleted(r) ==
    /\ refund[r] = "locked"
    /\ refund' = [refund EXCEPT ![r] =
          IF Tracked = "complete" THEN "unlocking" ELSE "signed"]
    /\ UNCHANGED <<db, chain, node, retried, pay, proc, hist, pm, lnd>>

\* One call, which shows payments in flight and completed ones alike.
LndRefundCheck(r) ==
    /\ refund[r] = "locked"
    /\ refund' = [refund EXCEPT ![r] =
          IF Tracked \in {"pending", "complete"} THEN "unlocking" ELSE "signed"]
    /\ UNCHANGED <<db, chain, node, retried, pay, proc, hist, pm, lnd>>

-----------------------------------------------------------------------------
(***************************************************************************)
(* get_payment_state, as do_check_payments calls it.                       *)
(***************************************************************************)

\* What do_check_payments makes of the state: pending payments are kept for
\* the next round, one that is not found counts as cancelled.  A completed one
\* is a success with its preimage, be it that of the hash or not.
TakeState(p, l, state, made) ==
    IF state = "pending"
    THEN /\ todo' = [todo EXCEPT ![p] = @ \ {l}]
         /\ kept' = [kept EXCEPT ![p] = @ \cup {l}]
         /\ UNCHANGED held
    ELSE /\ held' = [held EXCEPT ![p] =
                        {<<l, IF state = "complete" THEN made ELSE "failure">>}]
         /\ UNCHANGED <<todo, kept>>

\* The label's index is looked up, and the payment it leads to is taken for
\* the label's.
QueryByIndex(p, l) ==
    /\ l \in todo[p] /\ held[p] = {} /\ unlisted[p] = {}
    /\ LET listed == IF l \in labels THEN ListPayments(IndexOf(l)) ELSE {}
       IN  IF listed = {}
           THEN /\ unlisted' = [unlisted EXCEPT ![p] = {l}]
                /\ UNCHANGED <<todo, kept, held>>
           ELSE /\ \E i \in listed : TakeState(p, l, StateAt(i),
                       IF order[i] \in OtherPays THEN "foreign" ELSE "success")
                /\ UNCHANGED unlisted
    /\ UNCHANGED <<list, db, chain, node, retried, pay, refund, proc, pm, order, other, labels, blank>>

\* A get_payment_state without the fallback: an unlisted payment is not found.
QueryByHashNotFound(p) ==
    /\ \E l \in unlisted[p] : TakeState(p, l, "absent", "success")
    /\ unlisted' = [unlisted EXCEPT ![p] = {}]
    /\ UNCHANGED <<list, db, chain, node, retried, pay, refund, proc, pm, order, other, labels, blank>>

\* A get_payment_state that takes a payment LND does not know for pending.
QueryByHashUnknownPending(p) ==
    /\ \E l \in unlisted[p] :
          TakeState(p, l, IF Tracked = "absent" THEN "pending" ELSE Tracked, "success")
    /\ unlisted' = [unlisted EXCEPT ![p] = {}]
    /\ UNCHANGED <<list, db, chain, node, retried, pay, refund, proc, pm, order, other, labels, blank>>

\* Without a payment from the list: track_payment_v2 by hash.
QueryByHash(p) ==
    /\ \E l \in unlisted[p] : TakeState(p, l, Tracked, "success")
    /\ unlisted' = [unlisted EXCEPT ![p] = {}]
    /\ UNCHANGED <<list, db, chain, node, retried, pay, refund, proc, pm, order, other, labels, blank>>

-----------------------------------------------------------------------------
(***************************************************************************)
(* get_preimage, as do_query_preimages calls it.                           *)
(***************************************************************************)

\* A get_preimage that fails when it has no label.
LndPreimageFoundLabelled ==
    /\ busy /\ found = {} /\ ~blank
    /\ \E l \in labels : Complete(l) /\ found' = {l}
    /\ UNCHANGED <<db, chain, node, retried, pay, refund, proc, hist, busy, lnd>>

\* A get_preimage without the tests for an empty preimage.
LndPreimageFoundPending ==
    /\ busy /\ found = {} /\ ~blank
    /\ \E l \in labels : node[l] \in {"pending", "complete"} /\ found' = {l}
    /\ UNCHANGED <<db, chain, node, retried, pay, refund, proc, hist, busy, lnd>>

\* track_payment_v2 has a preimage; get_label turns the index into the label,
\* or into "" if there is none.  (What was completed stays the latest payment
\* of the hash, so only the moment of get_label matters.)
LndPreimageFound ==
    /\ busy /\ found = {} /\ ~blank
    /\ \E l \in PayReqs :
          /\ Complete(l)
          /\ IF l \in labels
             THEN found' = {l} /\ UNCHANGED blank
             ELSE blank' = TRUE /\ UNCHANGED found
    /\ UNCHANGED <<db, chain, node, retried, pay, refund, proc, hist, busy, order, other, labels, unlisted>>

\* unlock_add_payment_result with the label "": the swap gets its preimage, no
\* lock and no attempt has that label.
PreimageStoreBlank ==
    /\ blank
    /\ preimage' = "own"
    /\ busy' = FALSE /\ blank' = FALSE
    /\ UNCHANGED <<payLocks, refundLocks, success, chain, node, retried, pay,
                   refund, proc, hist, found, order, other, labels, unlisted>>

PreimageStoreBlankFails ==
    /\ blank
    /\ busy' = FALSE /\ blank' = FALSE
    /\ UNCHANGED <<db, chain, node, retried, pay, refund, proc, hist, found, order, other,
                   labels, unlisted>>

-----------------------------------------------------------------------------
(***************************************************************************)
(* LND (external), and what a process loses with its memory.               *)
(***************************************************************************)
PaymentEnds(l) ==
    /\ Pending(l)
    /\ \E state \in {"complete", "failed"} : node' = [node EXCEPT ![l] = state]
    /\ UNCHANGED <<db, chain, retried, pay, refund, proc, hist, pm, lnd>>

OtherSent(o) ==
    /\ other[o] = "absent"
    /\ other' = [other EXCEPT ![o] = "pending"]
    /\ order' = Append(order, o)
    /\ UNCHANGED <<vars, labels, unlisted, blank>>

OtherEnds(o) ==
    /\ other[o] = "pending"
    /\ \E state \in {"complete", "failed"} : other' = [other EXCEPT ![o] = state]
    /\ UNCHANGED <<vars, order, labels, unlisted, blank>>

LndRoundFails(p) ==
    /\ HistRoundFails(p)
    /\ unlisted' = [unlisted EXCEPT ![p] = {}]
    /\ UNCHANGED <<order, other, labels, blank>>

LndProcStop(p) ==
    /\ ProcStop(p)
    /\ unlisted' = [unlisted EXCEPT ![p] = {}]
    /\ blank' = (blank /\ p # PreimageProc)
    /\ UNCHANGED <<order, other, labels>>

-----------------------------------------------------------------------------
LndInit ==
    /\ Init
    /\ order = <<>> /\ labels = {}
    /\ other = [o \in OtherPays |-> "absent"]
    /\ unlisted = [p \in Procs |-> {}]
    /\ blank = FALSE

\* Steps of SwapPayments that do not concern the node.
SharedPay(l) ==
    PaySelect(l) \/ PayLock(l) \/ PayLockRefused(l) \/ PayStore(l) \/ PayAbandon(l)

SharedRefund(r) ==
    \/ RefundLock(r) \/ RefundLockRefused(r) \/ RefundCheckFails(r)
    \/ RefundUnlock(r) \/ RefundAbandon(r)

SharedProcess(p) == ProcStart(p) \/ HistStore(p) \/ HistRoundEnds(p)

SharedPreimage ==
    \/ PreimageRead
    \/ ~blank /\ PreimageNotFound
    \/ PreimageStore \/ PreimageStoreFails

Shared ==
    /\ \/ \E l \in PayReqs : SharedPay(l)
       \/ \E r \in RefundReqs : SharedRefund(r)
       \/ \E p \in Procs : SharedProcess(p)
       \/ SharedPreimage
       \/ \E o \in Outputs : ChainTables(o)
    /\ UNCHANGED lnd

LndPay(l) == LndSend(l) \/ LndAddLabel(l) \/ LndReply(l) \/ PaymentEnds(l)

LndMonitor(p) ==
    \/ \E l \in PayReqs : QueryByIndex(p, l)
    \/ QueryByHash(p) \/ LndRoundFails(p) \/ LndProcStop(p)

LndPreimage == LndPreimageFound \/ PreimageStoreBlank \/ PreimageStoreBlankFails

LndNext ==
    \/ Shared
    \/ \E l \in PayReqs : LndPay(l)
    \/ \E r \in RefundReqs : LndRefundCheck(r)
    \/ \E p \in Procs : LndMonitor(p)
    \/ LndPreimage
    \/ \E o \in OtherPays : OtherSent(o) \/ OtherEnds(o)

LndSpec == LndInit /\ [][LndNext]_lndVars

\* As in SwapPayments; LND ends every payment (its HTLCs time out).
LndFairness ==
    /\ \A p \in Procs :
          /\ WF_lndVars(ProcStart(p) /\ UNCHANGED lnd)
          /\ SF_lndVars(HistRoundEnds(p) /\ UNCHANGED lnd)
          /\ SF_lndVars(HistStore(p) /\ UNCHANGED lnd)
          /\ SF_lndVars(QueryByHash(p))
          /\ \A l \in PayReqs : SF_lndVars(QueryByIndex(p, l))
    /\ SF_lndVars(PreimageRead /\ UNCHANGED lnd)
    /\ SF_lndVars(LndPreimageFound)
    /\ SF_lndVars(PreimageStore /\ UNCHANGED lnd) /\ SF_lndVars(PreimageStoreBlank)
    /\ \A l \in PayReqs : WF_lndVars(PaymentEnds(l))
    /\ \A o \in OtherPays : WF_lndVars(OtherEnds(o))

LndFairSpec == LndSpec /\ LndFairness

-----------------------------------------------------------------------------
(***************************************************************************)
(* Properties.  AdoptedAttemptResolves of SwapPayments is a property of    *)
(* LndFairSpec too; RefundExcludesPayment and ImplementsOutcome hold of    *)
(* LndSpec without any late payment.                                       *)
(***************************************************************************)

\* Types, and: LND has one payment per label it was asked for, only such
\* labels are in the table, and an answer is waited for in one way at a time.
LndTypeOK ==
    /\ TypeOK
    /\ order \in Seq(PayReqs \cup OtherPays)
    /\ \A i, j \in DOMAIN order : order[i] = order[j] => i = j
    /\ other \in [OtherPays -> {"absent", "pending", "complete", "failed"}]
    /\ labels \subseteq {l \in PayReqs : \E i \in DOMAIN order : order[i] = l}
    /\ unlisted \in [Procs -> SUBSET PayReqs]
    /\ \A p \in Procs : unlisted[p] \subseteq todo[p]
    /\ blank \in BOOLEAN /\ (blank => found = {})

\* The node made a later payment for another hash than the label's.
OtherFollows(l) ==
    l \in labels /\ \E i \in DOMAIN order : i > IndexOf(l) /\ order[i] \in OtherPays

\* A payment lock goes while its payment is in flight only if a payment for
\* another hash follows the one of a stored label: not when the answer or the
\* label was lost.
OnlyOffsetUnlocks ==
    \A l \in PayReqs : Pending(l) => l \in payLocks \/ OtherFollows(l)

\* The preimage of another hash is stored, or an attempt recorded as successful
\* without a payment of the hash, only in the same case; the swap's own preimage
\* is never stored without one.
OnlyOffsetMisrecords ==
    /\ preimage = "own" => AnyComplete
    /\ preimage = "foreign" => \E l \in PayReqs : OtherFollows(l)
    /\ \A l \in PayReqs : success[l] = "true" => AnyComplete \/ OtherFollows(l)

\* A payment that was made is recorded at last with its own preimage, although
\* answers and labels get lost and swapd stops, while the swap has an unspent
\* output; only the preimage of a payment that followed in LND's numbering may
\* stand in its place, and then do_query_preimages asks for this swap no more.
OnlyOffsetForgets ==
    AnyComplete ~> (\/ preimage = "own" \/ unspent = {}
                    \/ preimage = "foreign" /\ \E l \in PayReqs : OtherFollows(l))

-----------------------------------------------------------------------------
(***************************************************************************)
(* The inductive invariant behind RefundExcludesPayment.  It says nothing  *)
(* of the index table: what the historical monitor makes of a label may be *)
(* wrong, yet LND's own view of the hash, which refund_swap asks for and   *)
(* LND itself goes by, is not.                                             *)
(***************************************************************************)

\* A payment of the hash in flight or made is the latest one of the hash.
ActiveIsLatest ==
    /\ order \in Seq(PayReqs \cup OtherPays)
    /\ \A l \in PayReqs : node[l] \in {"pending", "complete"} =>
          \E i \in DOMAIN order :
             /\ order[i] = l
             /\ \A j \in DOMAIN order : order[j] \in PayReqs => j <= i

\* A handler that is about to send has its lock, and nothing was sent for it.
UnsentHoldsLock ==
    \A l \in PayReqs :
        /\ pay[l] \in {"new", "checked", "locked"} => node[l] = "absent"
        /\ pay[l] = "locked" => l \in payLocks

\* The monitors work on attempts whose handler is gone, and on payments made.
MonitorsLeaveHandlers ==
    /\ unlisted \in [Procs -> SUBSET PayReqs]
    /\ \A p \in Procs : \A l \in list[p] \cup todo[p] \cup kept[p] \cup unlisted[p] :
          pay[l] = "dead"
    /\ \A p \in Procs, l \in PayReqs, res \in Results :
          <<l, res>> \in held[p] => pay[l] = "dead"
    /\ \A l \in found : Complete(l)

LndInv ==
    /\ TypeOK
    /\ LockExclusion
    /\ RefundHoldsLock
    /\ HandlersNeedServer
    /\ ActiveIsLatest
    /\ UnsentHoldsLock
    /\ MonitorsLeaveHandlers
    /\ RefundExcludesPayment
    /\ retried = {}

(***************************************************************************)
(* The one behind OnlyOffsetUnlocks and OnlyOffsetMisrecords, on top of    *)
(* LndInv: what is true of a result on its way into the database.          *)
(***************************************************************************)

\* What has an index was sent, and what a handler waits for has an index.
OrderHasSent ==
    /\ \A i \in DOMAIN order : order[i] \in PayReqs => node[order[i]] # "absent"
    /\ \A i \in DOMAIN order : order[i] \in OtherPays => other[order[i]] # "absent"
    /\ \A l \in PayReqs : pay[l] = "calling" => \E i \in DOMAIN order : order[i] = l

\* A process asks for one payment at a time, and for none when it is down.
OneQuestion ==
    \A p \in Procs : /\ held[p] # {} => unlisted[p] = {}
                     /\ proc[p] = "down" => todo[p] = {}

\* A result is of a payment that has ended, or of the payment that follows.
ResultsAreOf ==
    /\ \A l \in PayReqs : pay[l] = "gotSuccess" => Complete(l)
    /\ \A l \in PayReqs : pay[l] = "gotFailure" => ~Pending(l)
    /\ \A p \in Procs, l \in PayReqs, res \in Results :
          <<l, res>> \in held[p] => ~Pending(l) \/ OtherFollows(l)
    /\ \A p \in Procs, l \in PayReqs :
          /\ <<l, "success">> \in held[p] => AnyComplete
          /\ <<l, "foreign">> \in held[p] => OtherFollows(l)
    /\ blank => AnyComplete

LndIndexInv ==
    /\ LndTypeOK
    /\ OrderHasSent
    /\ OneQuestion
    /\ ResultsAreOf
    /\ OnlyOffsetUnlocks
    /\ OnlyOffsetMisrecords
=============================================================================
