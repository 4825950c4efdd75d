---------------------------- MODULE SwapPayments ----------------------------
(***************************************************************************)
(* The life of ONE swap (one payment hash, one address) in swapd: the      *)
(* pay_swap and refund_swap handlers of public_server.rs, the rows that    *)
(* swap_repository.rs keeps for the swap, the monitors that repair the     *)
(* rows after a lost answer or a restart, and the Core Lightning node the  *)
(* handlers call.  Every await point of the code ends an action.           *)
(*                                                                         *)
(* A pay_swap request stands for the label of its payment attempt, which   *)
(* is "<hash>-<nanoseconds>" and so is fresh; a refund_swap request stands *)
(* for its random refund_id.                                               *)
(***************************************************************************)
EXTENDS FiniteSets

CONSTANTS
    PayReqs,        \* pay_swap requests (labels of payment attempts)
    RefundReqs,     \* refund_swap requests (refund ids)
    Outputs,        \* transaction outputs that may pay to the swap address
    Server,         \* the process that serves requests
    Workers,        \* further processes on the same database (no_servers)
    PreimageProc    \* the process that runs the preimage monitor

Procs == {Server} \cup Workers

ASSUME ProcessAssumption ==
    /\ Server \notin Workers
    /\ PreimageProc \in Procs

(***************************************************************************)
(* The database: the preimage column of the swap, its swap_locks rows, the *)
(* success column of its payment_attempts rows ("none": no such row), and  *)
(* the chain tables seen through get_txos_for_address (confirmed) and      *)
(* get_utxos (unspent).                                                    *)
(***************************************************************************)
VARIABLES
    preimage,       \* swaps.preimage: "none", "own", or the "foreign" one of
                    \* another hash
    payLocks,       \* labels with a row in swap_locks
    refundLocks,    \* refund ids with a row in swap_locks
    success,        \* payment_attempts.success, by label
    confirmed,      \* outputs in a block of the best chain
    unspent,        \* those of them no confirmed transaction spends
    node,           \* the node's pay command and its parts, by label
    retried,        \* history: labels the node sent a part for while no caller
                    \* waited for the command any more
    pay,            \* where the handler of each pay_swap request is
    refund,         \* where the handler of each refund_swap request is
    proc,           \* "down", "starting" (monitor initialisation) or "up"
    list,           \* HistoricalPaymentMonitor.payment_attempts, by process
    todo,           \* attempts do_check_payments has still to query
    kept,           \* its pending_attempts
    held,           \* a queried result that is not yet stored: {} or one pair
    busy,           \* do_query_preimages found the swap without a preimage
    found           \* the label get_preimage answered with: {} or one label

db == <<preimage, payLocks, refundLocks, success>>
chain == <<confirmed, unspent>>
hist == <<list, todo, kept, held>>
pm == <<busy, found>>
vars == <<db, chain, node, retried, pay, refund, proc, hist, pm>>

PayStates ==
    {"new", "checked", "locked", "calling",
     "wait", "noComplete", "noPending", "sawPending", "await",
     "gotSuccess", "gotFailure", "dead", "done"}

RefundStates ==
    {"new", "locked", "noComplete", "noPending", "unlocking",
     "signed", "dead", "done"}

\* The handler has no step left to take.
PayEnded == {"dead", "done"}
RefundEnded == {"signed", "dead", "done"}

\* What the node knows of a label: no command; a command with no part in
\* flight ("idle": searching a route, or between two attempts); parts in
\* flight; paid; command ended without a payment.
NodeStates == {"absent", "idle", "pending", "complete", "failed"}

\* What a query made of an attempt; "foreign" is a success with the preimage of
\* another hash's payment (an answer of the LND client only).
Results == {"success", "foreign", "failure"}

Complete(l) == node[l] = "complete"
Pending(l) == node[l] = "pending"
AnyComplete == \E l \in PayReqs : Complete(l)
AnyPending == \E l \in PayReqs : Pending(l)

-----------------------------------------------------------------------------
(***************************************************************************)
(* swap_repository.rs: each function is one database transaction that      *)
(* first takes the row lock of the swap, hence atomic.                     *)
(***************************************************************************)

\* A lock_add_payment_attempt that overlooks the locks of other payments.
LockAddPaymentAttemptIgnoringPayments(l) ==
    /\ refundLocks = {}
    /\ payLocks' = payLocks \cup {l}
    /\ success' = [success EXCEPT ![l] = "null"]

\* A lock_add_payment_attempt that overlooks the locks of refunds.
LockAddPaymentAttemptIgnoringRefunds(l) ==
    /\ payLocks = {}
    /\ payLocks' = payLocks \cup {l}
    /\ success' = [success EXCEPT ![l] = "null"]

\* Needs a swap without any lock; adds the lock and the attempt.
LockAddPaymentAttempt(l) ==
    /\ payLocks = {} /\ refundLocks = {}
    /\ payLocks' = payLocks \cup {l}
    /\ success' = [success EXCEPT ![l] = "null"]

\* A lock_swap_refund that overlooks the payment lock.
LockSwapRefundUnguarded(r) ==
    refundLocks' = refundLocks \cup {r}

\* Needs a swap without a payment lock; other refunds do not matter.
LockSwapRefund(r) ==
    /\ payLocks = {}
    /\ refundLocks' = refundLocks \cup {r}

\* A success overwrites the preimage with its own.
PreimageAfter(res) ==
    CASE res = "success" -> "own" [] res = "foreign" -> "foreign" [] OTHER -> preimage

\* An unlock_add_payment_result that marks the attempt and forgets the swap.
UnlockAddPaymentResultNoPreimage(l, res) ==
    /\ payLocks' = payLocks \ {l}
    /\ success' = [success EXCEPT ![l] = IF res = "failure" THEN "false" ELSE "true"]
    /\ UNCHANGED preimage

\* An unlock_add_payment_result that stores a preimage for a failure too.
UnlockAddPaymentResultAlways(l, res) ==
    /\ payLocks' = payLocks \ {l}
    /\ success' = [success EXCEPT ![l] = IF res = "failure" THEN "false" ELSE "true"]
    /\ preimage' = "own"

\* An unlock_add_payment_result that marks the attempts of the hash.
UnlockAddPaymentResultByHash(l, res) ==
    /\ payLocks' = payLocks \ {l}
    /\ success' = [k \in PayReqs |->
                      IF success[k] = "none" THEN "none"
                      ELSE IF res = "failure" THEN "false" ELSE "true"]
    /\ preimage' = PreimageAfter(res)

\* Deletes the lock of the label; stores the preimage and success = true, or
\* success = false.
UnlockAddPaymentResult(l, res) ==
    /\ payLocks' = payLocks \ {l}
    /\ success' = [success EXCEPT ![l] = IF res = "failure" THEN "false" ELSE "true"]
    /\ preimage' = PreimageAfter(res)

\* An unlock_swap_refund that deletes by payment hash alone.
UnlockSwapRefundAll(r) == refundLocks' = {}

\* Deletes the lock with this refund id.
UnlockSwapRefund(r) == refundLocks' = refundLocks \ {r}

\* get_unhandled_payment_attempts: success IS NULL.
UnhandledPaymentAttempts == {l \in PayReqs : success[l] = "null"}

-----------------------------------------------------------------------------
(***************************************************************************)
(* pay_swap.                                                               *)
(***************************************************************************)

\* The checks of the request: the swap has no preimage yet, and the outputs
\* that pass the filters sum up to the amount of the invoice.  Which outputs
\* pass depends on their confirmations and amounts: there must be one.
PaySelect(l) ==
    /\ proc[Server] = "up" /\ pay[l] = "new"
    /\ preimage = "none"
    /\ confirmed # {}
    /\ pay' = [pay EXCEPT ![l] = "checked"]
    /\ UNCHANGED <<db, chain, node, retried, refund, proc, hist, pm>>

\* The attempt is stored and the swap locked ...
PayLock(l) ==
    /\ pay[l] = "checked"
    /\ LockAddPaymentAttempt(l)
    /\ pay' = [pay EXCEPT ![l] = "locked"]
    /\ UNCHANGED <<preimage, refundLocks, chain, node, retried, refund, proc,
                   hist, pm>>

\* ... or the swap is locked already.
PayLockRefused(l) ==
    /\ pay[l] = "checked"
    /\ payLocks # {} \/ refundLocks # {}
    /\ pay' = [pay EXCEPT ![l] = "done"]
    /\ UNCHANGED <<db, chain, node, retried, refund, proc, hist, pm>>

\* External: the node refuses a part for a hash that has one in flight from
\* another command, or that is paid.
NodeFree == \A k \in PayReqs : ~Pending(k) /\ ~Complete(k)

\* The pay call reaches the node, which starts a command for it.
PayCall(l) ==
    /\ pay[l] = "locked"
    /\ NodeFree
    /\ node' = [node EXCEPT ![l] = "idle"]
    /\ pay' = [pay EXCEPT ![l] = "calling"]
    /\ UNCHANGED <<db, chain, retried, refund, proc, hist, pm>>

\* The call is lost on the way, or the node refuses it: cln/client.rs turns
\* to wait_payment.
PayCallRefused(l) ==
    /\ pay[l] = "locked"
    /\ pay' = [pay EXCEPT ![l] = "wait"]
    /\ UNCHANGED <<db, chain, node, retried, refund, proc, hist, pm>>

\* The answer of the ended command.
PayReply(l) ==
    /\ pay[l] = "calling"
    /\ \/ Complete(l) /\ pay' = [pay EXCEPT ![l] = "gotSuccess"]
       \/ node[l] = "failed" /\ pay' = [pay EXCEPT ![l] = "gotFailure"]
    /\ UNCHANGED <<db, chain, node, retried, refund, proc, hist, pm>>

\* An error, a pending status or a partial completion instead: wait_payment.
PayToWait(l) ==
    /\ pay[l] = "calling"
    /\ pay' = [pay EXCEPT ![l] = "wait"]
    /\ UNCHANGED <<db, chain, node, retried, refund, proc, hist, pm>>

\* wait_payment asks for the completed and for the pending payments of the
\* HASH at the same time; the node answers the two in either order.
WaitFirstList(l) ==
    /\ pay[l] = "wait"
    /\ \/ pay' = [pay EXCEPT ![l] = IF AnyComplete THEN "gotSuccess" ELSE "noComplete"]
       \/ pay' = [pay EXCEPT ![l] = IF AnyPending THEN "sawPending" ELSE "noPending"]
    /\ UNCHANGED <<db, chain, node, retried, refund, proc, hist, pm>>

\* The second answer.  A completed payment is a success; with neither, the
\* result is "unknown failure"; otherwise wait_send_pay for the pending parts.
WaitSecondList(l) ==
    /\ \/ /\ pay[l] = "noComplete"
          /\ pay' = [pay EXCEPT ![l] = IF AnyPending THEN "await" ELSE "gotFailure"]
       \/ /\ pay[l] = "noPending"
          /\ pay' = [pay EXCEPT ![l] = IF AnyComplete THEN "gotSuccess" ELSE "gotFailure"]
       \/ /\ pay[l] = "sawPending"
          /\ pay' = [pay EXCEPT ![l] = IF AnyComplete THEN "gotSuccess"
                                       ELSE IF AnyPending THEN "await"
                                       ELSE "gotFailure"]
    /\ UNCHANGED <<db, chain, node, retried, refund, proc, hist, pm>>

\* unlock_add_payment_result with the result; the request is answered.
PayStore(l) ==
    /\ \/ pay[l] = "gotSuccess" /\ UnlockAddPaymentResult(l, "success")
       \/ pay[l] = "gotFailure" /\ UnlockAddPaymentResult(l, "failure")
    /\ pay' = [pay EXCEPT ![l] = "done"]
    /\ UNCHANGED <<refundLocks, chain, node, retried, refund, proc, hist, pm>>

\* The handler ends where it is: pay or wait_payment returned an error, the
\* result could not be stored, or the client went away and the server dropped
\* the request.  What is in the database stays there.
PayAbandon(l) ==
    /\ pay[l] \notin {"new"} \cup PayEnded
    /\ pay' = [pay EXCEPT ![l] = "dead"]
    /\ UNCHANGED <<db, chain, node, retried, refund, proc, hist, pm>>

-----------------------------------------------------------------------------
(***************************************************************************)
(* refund_swap.                                                            *)
(***************************************************************************)

\* The transaction is checked and signed; lock_swap_refund succeeds.
RefundLock(r) ==
    /\ proc[Server] = "up" /\ refund[r] = "new"
    /\ LockSwapRefund(r)
    /\ refund' = [refund EXCEPT ![r] = "locked"]
    /\ UNCHANGED <<preimage, payLocks, success, chain, node, retried, pay, proc,
                   hist, pm>>

RefundLockRefused(r) ==
    /\ proc[Server] = "up" /\ refund[r] = "new"
    /\ payLocks # {}
    /\ refund' = [refund EXCEPT ![r] = "done"]
    /\ UNCHANGED <<db, chain, node, retried, pay, proc, hist, pm>>

\* has_pending_or_complete_payment: again two lists, in either order, of which
\* none may have an entry.
RefundFirstList(r) ==
    /\ refund[r] = "locked"
    /\ \/ refund' = [refund EXCEPT ![r] = IF AnyComplete THEN "unlocking" ELSE "noComplete"]
       \/ refund' = [refund EXCEPT ![r] = IF AnyPending THEN "unlocking" ELSE "noPending"]
    /\ UNCHANGED <<db, chain, node, retried, pay, proc, hist, pm>>

\* Ok(false): the partial signature is handed out.
RefundSecondList(r) ==
    /\ \/ /\ refund[r] = "noComplete"
          /\ refund' = [refund EXCEPT ![r] = IF AnyPending THEN "unlocking" ELSE "signed"]
       \/ /\ refund[r] = "noPending"
          /\ refund' = [refund EXCEPT ![r] = IF AnyComplete THEN "unlocking" ELSE "signed"]
    /\ UNCHANGED <<db, chain, node, retried, pay, proc, hist, pm>>

\* Either list came back as an error.
RefundCheckFails(r) ==
    /\ refund[r] \in {"locked", "noComplete", "noPending"}
    /\ refund' = [refund EXCEPT ![r] = "unlocking"]
    /\ UNCHANGED <<db, chain, node, retried, pay, proc, hist, pm>>

RefundUnlock(r) ==
    /\ refund[r] = "unlocking"
    /\ UnlockSwapRefund(r)
    /\ refund' = [refund EXCEPT ![r] = "done"]
    /\ UNCHANGED <<preimage, payLocks, success, chain, node, retried, pay, proc,
                   hist, pm>>

\* The request is dropped, or unlock_swap_refund fails (its result is ignored).
RefundAbandon(r) ==
    /\ refund[r] \notin {"new"} \cup RefundEnded
    /\ refund' = [refund EXCEPT ![r] = "dead"]
    /\ UNCHANGED <<db, chain, node, retried, pay, proc, hist, pm>>

-----------------------------------------------------------------------------
(***************************************************************************)
(* The node (external).                                                    *)
(***************************************************************************)

\* A part is sent.  Nothing ends the command when its caller is gone: it tries
\* again for as long as retry_for says.
NodeSend(l) ==
    /\ node[l] = "idle" /\ NodeFree
    /\ node' = [node EXCEPT ![l] = "pending"]
    /\ retried' = IF pay[l] = "calling" THEN retried ELSE retried \cup {l}
    /\ UNCHANGED <<db, chain, pay, refund, proc, hist, pm>>

\* wait_send_pay answers those who wait for a part of the hash.
AnswerWaiting(state) ==
    pay' = [k \in PayReqs |-> IF pay[k] = "await" THEN state ELSE pay[k]]

\* The parts fail: the command may try again or, at the latest after retry_for,
\* give up.
NodePartsFail(l) ==
    /\ Pending(l)
    /\ node' = [node EXCEPT ![l] = "idle"]
    /\ AnswerWaiting("gotFailure")
    /\ UNCHANGED <<db, chain, retried, refund, proc, hist, pm>>

NodeGiveUp(l) ==
    /\ node[l] = "idle"
    /\ node' = [node EXCEPT ![l] = "failed"]
    /\ UNCHANGED <<db, chain, retried, pay, refund, proc, hist, pm>>

NodeSettle(l) ==
    /\ Pending(l)
    /\ node' = [node EXCEPT ![l] = "complete"]
    /\ AnswerWaiting("gotSuccess")
    /\ UNCHANGED <<db, chain, retried, refund, proc, hist, pm>>

-----------------------------------------------------------------------------
(***************************************************************************)
(* HistoricalPaymentMonitor, in every process.                             *)
(***************************************************************************)

\* run_with_client: initialize() reads the unhandled attempts and checks them
\* once before anything else of the process starts.
ProcStart(p) ==
    /\ proc[p] = "down"
    /\ proc' = [proc EXCEPT ![p] = "starting"]
    /\ list' = [list EXCEPT ![p] = UnhandledPaymentAttempts]
    /\ todo' = [todo EXCEPT ![p] = UnhandledPaymentAttempts]
    /\ UNCHANGED <<kept, held, db, chain, node, retried, pay, refund, pm>>

\* A monitor that treats a payment the node does not know as still pending.
HistQueryNotFoundPending(p, l) ==
    /\ l \in todo[p] /\ held[p] = {}
    /\ \/ /\ Pending(l) \/ node[l] \in {"absent", "idle"}
          /\ todo' = [todo EXCEPT ![p] = @ \ {l}]
          /\ kept' = [kept EXCEPT ![p] = @ \cup {l}]
          /\ UNCHANGED held
       \/ /\ Complete(l) \/ node[l] = "failed"
          /\ held' = [held EXCEPT ![p] =
                         {<<l, IF Complete(l) THEN "success" ELSE "failure">>}]
          /\ UNCHANGED <<todo, kept>>
    /\ UNCHANGED <<list, db, chain, node, retried, pay, refund, proc, pm>>

\* A monitor that knows success and takes everything else for a failure.
HistQueryPendingFails(p, l) ==
    /\ l \in todo[p] /\ held[p] = {}
    /\ held' = [held EXCEPT ![p] =
                   {<<l, IF Complete(l) THEN "success" ELSE "failure">>}]
    /\ UNCHANGED <<todo, kept, list, db, chain, node, retried, pay, refund, proc, pm>>

\* One query of do_check_payments.  A pending payment is kept for the next
\* round.  The node lists an idle command as failed, or not at all before its
\* first part: both are a failure ("payment failed", "cancelled").
HistQuery(p, l) ==
    /\ l \in todo[p] /\ held[p] = {}
    /\ \/ /\ Pending(l)
          /\ todo' = [todo EXCEPT ![p] = @ \ {l}]
          /\ kept' = [kept EXCEPT ![p] = @ \cup {l}]
          /\ UNCHANGED held
       \/ /\ ~Pending(l)
          /\ held' = [held EXCEPT ![p] =
                         {<<l, IF Complete(l) THEN "success" ELSE "failure">>}]
          /\ UNCHANGED <<todo, kept>>
    /\ UNCHANGED <<list, db, chain, node, retried, pay, refund, proc, pm>>

\* The queried result is stored.
HistStore(p) ==
    /\ \E l \in PayReqs, res \in Results :
          /\ held[p] = {<<l, res>>}
          /\ UnlockAddPaymentResult(l, res)
          /\ todo' = [todo EXCEPT ![p] = @ \ {l}]
    /\ held' = [held EXCEPT ![p] = {}]
    /\ UNCHANGED <<refundLocks, list, kept, chain, node, retried, pay, refund,
                   proc, pm>>

\* The round is complete: the pending attempts are the new list.  After the
\* first round the process is up; later rounds start while the list has one.
HistRoundEnds(p) ==
    /\ proc[p] # "down" /\ todo[p] = {} /\ held[p] = {}
    /\ proc[p] = "up" => list[p] # {}
    /\ proc' = [proc EXCEPT ![p] = "up"]
    /\ list' = [list EXCEPT ![p] = kept[p]]
    /\ todo' = [todo EXCEPT ![p] = kept[p]]
    /\ kept' = [kept EXCEPT ![p] = {}]
    /\ UNCHANGED <<held, db, chain, node, retried, pay, refund, pm>>

\* A query or a store fails: the first round's error leaves the process
\* without this monitor, a later one's keeps the whole list.
HistRoundFails(p) ==
    /\ proc[p] # "down" /\ todo[p] # {}
    /\ LET again == IF proc[p] = "up" THEN list[p] ELSE {}
       IN  /\ list' = [list EXCEPT ![p] = again]
           /\ todo' = [todo EXCEPT ![p] = again]
    /\ kept' = [kept EXCEPT ![p] = {}]
    /\ held' = [held EXCEPT ![p] = {}]
    /\ proc' = [proc EXCEPT ![p] = "up"]
    /\ UNCHANGED <<db, chain, node, retried, pay, refund, pm>>

\* A process stops, by a crash or a cancelled token: what it had in memory is
\* gone, its requests with it.
ProcStop(p) ==
    /\ proc[p] # "down"
    /\ proc' = [proc EXCEPT ![p] = "down"]
    /\ list' = [list EXCEPT ![p] = {}]
    /\ todo' = [todo EXCEPT ![p] = {}]
    /\ kept' = [kept EXCEPT ![p] = {}]
    /\ held' = [held EXCEPT ![p] = {}]
    /\ pay' = [l \in PayReqs |->
                  IF p = Server /\ pay[l] \notin {"new"} \cup PayEnded
                  THEN "dead" ELSE pay[l]]
    /\ refund' = [r \in RefundReqs |->
                  IF p = Server /\ refund[r] \notin {"new"} \cup RefundEnded
                  THEN "dead" ELSE refund[r]]
    /\ busy' = (busy /\ p # PreimageProc)
    /\ found' = IF p = PreimageProc THEN {} ELSE found
    /\ UNCHANGED <<db, chain, node, retried>>

-----------------------------------------------------------------------------
(***************************************************************************)
(* PreimageMonitor.                                                        *)
(***************************************************************************)

\* get_utxos and get_swaps: the swap has an output and no preimage.
PreimageRead ==
    /\ proc[PreimageProc] = "up" /\ ~busy
    /\ unspent # {} /\ preimage = "none"
    /\ busy' = TRUE
    /\ UNCHANGED <<db, chain, node, retried, pay, refund, proc, hist, found>>

\* get_preimage answers with the preimage and the label of its payment.
PreimageFound ==
    /\ busy /\ found = {}
    /\ \E l \in PayReqs : Complete(l) /\ found' = {l}
    /\ UNCHANGED <<db, chain, node, retried, pay, refund, proc, hist, busy>>

\* It answers None, or an error.
PreimageNotFound ==
    /\ busy /\ found = {}
    /\ busy' = FALSE
    /\ UNCHANGED <<db, chain, node, retried, pay, refund, proc, hist, found>>

PreimageStore ==
    /\ \E l \in found : UnlockAddPaymentResult(l, "success")
    /\ busy' = FALSE /\ found' = {}
    /\ UNCHANGED <<refundLocks, chain, node, retried, pay, refund, proc, hist>>

\* The store fails: logged, and tried again in the next round.
PreimageStoreFails ==
    /\ found # {}
    /\ busy' = FALSE /\ found' = {}
    /\ UNCHANGED <<db, chain, node, retried, pay, refund, proc, hist>>

-----------------------------------------------------------------------------
(***************************************************************************)
(* What the chain tables show of the swap address; ChainSync has how.      *)
(***************************************************************************)

\* add_block with an output to the address.
OutputConfirmed(o) ==
    /\ o \notin confirmed
    /\ confirmed' = confirmed \cup {o}
    /\ unspent' = unspent \cup {o}
    /\ UNCHANGED <<db, node, retried, pay, refund, proc, hist, pm>>

\* add_block with a transaction that spends it.
OutputSpent(o) ==
    /\ o \in unspent
    /\ unspent' = unspent \ {o}
    /\ UNCHANGED <<db, confirmed, node, retried, pay, refund, proc, hist, pm>>

\* A reorg after which get_utxos still lists the output.
OutputReorgedStillListed(o) ==
    /\ o \in confirmed
    /\ confirmed' = confirmed \ {o}
    /\ UNCHANGED <<unspent, db, node, retried, pay, refund, proc, hist, pm>>

\* undo_block: both queries join the block table, so the output leaves both.
OutputReorged(o) ==
    /\ o \in confirmed
    /\ confirmed' = confirmed \ {o}
    /\ unspent' = unspent \ {o}
    /\ UNCHANGED <<db, node, retried, pay, refund, proc, hist, pm>>

-----------------------------------------------------------------------------
Init ==
    /\ preimage = "none"
    /\ payLocks = {} /\ refundLocks = {}
    /\ success = [l \in PayReqs |-> "none"]
    /\ confirmed = {} /\ unspent = {}
    /\ node = [l \in PayReqs |-> "absent"] /\ retried = {}
    /\ pay = [l \in PayReqs |-> "new"]
    /\ refund = [r \in RefundReqs |-> "new"]
    /\ proc = [p \in Procs |-> "down"]
    /\ list = [p \in Procs |-> {}]
    /\ todo = [p \in Procs |-> {}]
    /\ kept = [p \in Procs |-> {}]
    /\ held = [p \in Procs |-> {}]
    /\ busy = FALSE /\ found = {}

PayHandler(l) ==
    \/ PaySelect(l) \/ PayLock(l) \/ PayLockRefused(l)
    \/ PayCall(l) \/ PayCallRefused(l) \/ PayReply(l) \/ PayToWait(l)
    \/ WaitFirstList(l) \/ WaitSecondList(l)
    \/ PayStore(l) \/ PayAbandon(l)

RefundHandler(r) ==
    \/ RefundLock(r) \/ RefundLockRefused(r)
    \/ RefundFirstList(r) \/ RefundSecondList(r) \/ RefundCheckFails(r)
    \/ RefundUnlock(r) \/ RefundAbandon(r)

Node(l) == NodeSend(l) \/ NodePartsFail(l) \/ NodeGiveUp(l) \/ NodeSettle(l)

Process(p) ==
    \/ ProcStart(p) \/ ProcStop(p)
    \/ \E l \in PayReqs : HistQuery(p, l)
    \/ HistStore(p) \/ HistRoundEnds(p) \/ HistRoundFails(p)

PreimageMonitor ==
    \/ PreimageRead \/ PreimageFound \/ PreimageNotFound
    \/ PreimageStore \/ PreimageStoreFails

ChainTables(o) == OutputConfirmed(o) \/ OutputSpent(o) \/ OutputReorged(o)

Next ==
    \/ \E l \in PayReqs : PayHandler(l) \/ Node(l)
    \/ \E r \in RefundReqs : RefundHandler(r)
    \/ \E p \in Procs : Process(p)
    \/ PreimageMonitor
    \/ \E o \in Outputs : ChainTables(o)

Spec == Init /\ [][Next]_vars

\* The polling loops run as long as their process does, and a process is
\* restarted.  Calls and stores of a monitor may fail, and a process may stop
\* in the middle, but not every time (strong fairness).  A part in flight
\* ends: its HTLC settles or times out.  A command does not try for ever: after
\* retry_for the node gives it up.
Fairness ==
    /\ \A p \in Procs :
          /\ WF_vars(ProcStart(p))
          /\ SF_vars(HistRoundEnds(p)) /\ SF_vars(HistStore(p))
          /\ SF_vars(\E l \in PayReqs : HistQuery(p, l))
    /\ SF_vars(PreimageRead)
    /\ SF_vars(PreimageFound) /\ SF_vars(PreimageStore)
    /\ WF_vars(\E l \in PayReqs : NodeSettle(l) \/ NodePartsFail(l))
    /\ SF_vars(\E l \in PayReqs : NodeGiveUp(l))

FairSpec == Spec /\ Fairness

-----------------------------------------------------------------------------
(***************************************************************************)
(* Properties.                                                             *)
(***************************************************************************)

\* Types, and: a monitor holds at most one unstored result, and what get_utxos
\* lists for the address get_txos_for_address lists too.
TypeOK ==
    /\ preimage \in {"none", "own", "foreign"}
    /\ payLocks \in SUBSET PayReqs
    /\ refundLocks \in SUBSET RefundReqs
    /\ success \in [PayReqs -> {"none", "null", "true", "false"}]
    /\ confirmed \in SUBSET Outputs /\ unspent \in SUBSET confirmed
    /\ node \in [PayReqs -> NodeStates]
    /\ retried \in SUBSET PayReqs
    /\ pay \in [PayReqs -> PayStates]
    /\ refund \in [RefundReqs -> RefundStates]
    /\ proc \in [Procs -> {"down", "starting", "up"}]
    /\ list \in [Procs -> SUBSET PayReqs]
    /\ todo \in [Procs -> SUBSET PayReqs]
    /\ kept \in [Procs -> SUBSET PayReqs]
    /\ held \in [Procs -> SUBSET (PayReqs \X Results)]
    /\ \A p \in Procs : \A x, y \in held[p] : x = y
    /\ busy \in BOOLEAN
    /\ found \in SUBSET PayReqs /\ \A l, k \in found : l = k

\* swap_locks never holds two payment locks, nor a payment lock beside a
\* refund lock, in any deployment and whatever the node does (the comments in
\* lock_add_payment_attempt and lock_swap_refund).
LockExclusion ==
    /\ \A l, k \in payLocks : l = k
    /\ payLocks = {} \/ refundLocks = {}

\* Once a refund signature is handed out, no payment for the hash is in flight
\* or made: the user cannot take both sides (refund_swap, "prevent payouts
\* from happening in the future").
RefundExcludesPayment ==
    (\E r \in RefundReqs : refund[r] = "signed") => ~AnyPending /\ ~AnyComplete

\* With Core Lightning there is one exception and no other: a pay command that
\* outlived its caller and sends again within retry_for, when the attempt was
\* already taken for failed.  Locks, lists, lost answers, restarts and the
\* monitors give rise to none.
OnlyRetryPaysRefunded ==
    (\E r \in RefundReqs : refund[r] = "signed") =>
        \A l \in PayReqs : node[l] \in {"pending", "complete"} => l \in retried

\* The lock of a signed refund is never removed ("Note this will never be
\* unlocked"), whichever other refund request unlocks, dies or restarts.
SignedStaysLocked ==
    [][\A r \in RefundReqs :
          refund[r] = "signed" => r \in refundLocks /\ r \in refundLocks']_vars

\* swapd records a preimage, and an attempt as successful, only if the node
\* paid the hash: what the claim monitor relies on.
RecordedMeansPaid ==
    (preimage # "none" \/ \E l \in PayReqs : success[l] = "true") => AnyComplete

\* No payment lock is released while a payment of its label is in flight:
\* neither a lost answer, nor a restart, nor a monitor may free the swap.
InFlightStaysLocked == \A l \in PayReqs : Pending(l) => l \in payLocks

\* With Core Lightning: unless the payment was sent again by a command whose
\* caller was gone, between the query that found no part in flight and the next.
OnlyRetryUnlocks ==
    \A l \in PayReqs : Pending(l) => l \in payLocks \/ l \in retried

\* A success that is recorded for an attempt stays recorded: no restart and no
\* monitor takes it back (get_swaps_with_paid_outpoints would no longer list its
\* outputs, and nobody looks for the preimage again).  Two races do, when a failure
\* that is about to be stored is overtaken by a payment and the preimage monitor:
\* the payment settles between the two lists of wait_payment, or a command whose
\* caller is gone sends again.
SuccessIsKept ==
    [][\A l \in PayReqs : success[l] = "true" /\ success'[l] # "true" =>
          Complete(l) /\ (pay[l] = "gotFailure" \/ l \in retried)]_vars

\* A payment the node made is recorded at last, even if the answer to the
\* handler was lost or swapd was down (the preimage monitor), unless the swap
\* has no unspent output left to look for.
PaidIsRecorded == AnyComplete ~> (preimage = "own" \/ unspent = {})

\* An attempt the historical monitor took over at a start does not stay locked
\* for ever: its payment is looked up until it ends, then the lock goes.
AdoptedAttemptResolves ==
    \A p \in Procs, l \in PayReqs :
        (proc[p] = "up" /\ l \in list[p]) ~> (l \notin payLocks \/ proc[p] = "down")

\* The swap as its parties see it.
PaymentSeen == IF AnyComplete THEN "complete"
               ELSE IF AnyPending THEN "inflight" ELSE "none"
RefundSeen == \E r \in RefundReqs : refund[r] = "signed"
LateSeen == \E l \in retried : node[l] \in {"pending", "complete"}

Outcome == INSTANCE SwapOutcome WITH
    payment <- PaymentSeen, refundSigned <- RefundSeen, late <- LateSeen

\* The handlers, repository, monitors and node together keep that promise.
ImplementsOutcome == Outcome!Spec

-----------------------------------------------------------------------------
(***************************************************************************)
(* The inductive invariants behind them.  The first holds in every         *)
(* deployment; the second needs a standalone server.                       *)
(***************************************************************************)

Standalone == Workers = {}

\* The node has one payment of the hash in flight or made, at most.
OneActive ==
    \A l, k \in PayReqs : node[l] \in {"pending", "complete"}
                         /\ node[k] \in {"pending", "complete"} => l = k

\* Every result that is on its way into the database as a success is one.
SuccessIsPaid ==
    /\ \A l \in PayReqs : pay[l] = "gotSuccess" => AnyComplete
    /\ \A p \in Procs, l \in PayReqs : <<l, "success">> \in held[p] => Complete(l)
    /\ \A p \in Procs, l \in PayReqs : <<l, "foreign">> \notin held[p]
    /\ \A l \in found : Complete(l)

\* A refund that may still be signed, or is, has its lock.
RefundHoldsLock ==
    \A r \in RefundReqs :
        refund[r] \in {"locked", "noComplete", "noPending", "signed"} =>
            r \in refundLocks

GeneralInv ==
    /\ TypeOK
    /\ LockExclusion
    /\ OneActive
    /\ SuccessIsPaid
    /\ RecordedMeansPaid
    /\ RefundHoldsLock

\* Requests are handled by a process that is up; an unhandled attempt is one
\* whose handler is still at work, or ended without a stored result.
HandlersNeedServer ==
    /\ proc[Server] # "up" => \A l \in PayReqs : pay[l] \in {"new"} \cup PayEnded
    /\ \A l \in PayReqs : success[l] = "null" => pay[l] \notin {"new", "checked", "done"}

\* What the historical monitor works on was left behind by an earlier run of
\* the server; a failure it is about to store is not in flight, or again.
AdoptedIsDead ==
    /\ \A l \in list[Server] \cup todo[Server] \cup kept[Server] : pay[l] = "dead"
    /\ \A l \in PayReqs : <<l, "failure">> \in held[Server] =>
          pay[l] = "dead" /\ (~Pending(l) \/ l \in retried)

\* A payment that the handler's next step can put in flight is locked, unless
\* it is made (then the preimage monitor may unlock it first); a failure the
\* handler is about to store is not in flight, or again.
CallersHoldLock ==
    /\ \A l \in PayReqs : pay[l] \in {"locked", "calling"} =>
          l \in payLocks \/ Complete(l)
    /\ \A l \in PayReqs : pay[l] \in {"noPending", "gotFailure"} =>
          ~Pending(l) \/ l \in retried

\* No completed payment once a refund has found none, but for a late one.
RefundSawNone ==
    \A r \in RefundReqs : refund[r] \in {"noComplete", "signed"} =>
        \A l \in PayReqs : Complete(l) => l \in retried

StandaloneInv ==
    /\ HandlersNeedServer
    /\ AdoptedIsDead
    /\ CallersHoldLock
    /\ OnlyRetryUnlocks
    /\ RefundSawNone

\* An attempt is recorded when its handler gets the lock; one recorded as
\* successful was paid, or its handler has ended with that result; a failure the
\* historical monitor is about to store is one for good, but for a late payment.
RecordedByEnded ==
    /\ \A l \in PayReqs : pay[l] \in {"new", "checked"} =>
          success[l] = "none" /\ node[l] = "absent"
    /\ \A l \in PayReqs : success[l] = "true" => pay[l] = "done" \/ Complete(l)
    /\ \A l \in PayReqs : <<l, "failure">> \in held[Server] =>
          ~Complete(l) \/ l \in retried
=============================================================================
