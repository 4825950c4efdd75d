# A TLA+ model of swapd

swapd swaps on-chain bitcoin for lightning payments. A user creates a swap for a
payment hash, sends bitcoin to the swap's address, and calls `pay_swap` with an
invoice for the hash: swapd pays the invoice, learns the preimage, and claims the
outputs with it. If no payment is made, the user gets the money back, either
through `refund_swap` (swapd adds its signature at once) or alone after the lock
time. Whoever gets both the payment and the outputs has won something from the
other side; nearly all of the code's care is about that.

The modules here are written from the Rust code in `swapd/src`. Paths below are
relative to that directory.

## The parts of the system

| Part | State it keeps | Operations | Interacts with |
|---|---|---|---|
| `public_server.rs` | none in memory, requests in progress | `create_swap`, `pay_swap`, `refund_swap`, `get_swap_parameters` | swap and chain repositories, lightning client, fee estimator, chain filter |
| `postgresql/swap_repository.rs` | tables `swaps`, `swap_locks`, `payment_attempts` and their outputs | lock and unlock for a payment or a refund, store results, queries | all monitors and servers |
| `swap/payment_monitor.rs` | list of attempts found at start | `initialize`, `start`, `do_check_payments` | lightning client, swap repository |
| `claim/preimage_monitor.rs` | none | `do_query_preimages`, polled | chain and swap repositories, lightning client |
| `cln/client.rs`, `lnd/client.rs` | none; LND keeps label indices in a table | `pay`, `wait_payment`, `get_payment_state`, `get_preimage`, `has_pending_or_complete_payment` | the lightning node |
| `chain/monitor.rs`, `chain/memchain.rs` | one chain of headers per task | tip sync, full sync | bitcoind, chain repository |
| `postgresql/chain_repository.rs` | `blocks`, `tx_outputs`, `tx_inputs`, `tx_blocks`, `watch_addresses` | `add_block`, `undo_block`, `get_utxos`, ... | chain monitor; pay_swap, preimage monitor and claim monitor read it |
| `claim/monitor.rs`, `claim/service.rs`, `postgresql/claim_repository.rs` | table `claims` | claim, rebroadcast, replace by fee | chain repository, bitcoind, wallet |
| `swap/swap_service.rs` | none | scripts, claim and refund transactions, block arithmetic | servers, claim service |
| `chain/fee_estimator.rs`, `whatthefee/`, `bitcoind/fee_estimator.rs` | last answer and its time | `estimate_fee` | pay_swap, claim monitor |
| `chain_filter/` | table `filter_addresses` | filter outputs by sender | pay_swap |
| `internal_server.rs`, `swap-cli` | none | operator queries, manual claim, stop | all repositories |
| `main.rs` | | starts all of it; flags split it over processes | |

What is hard about it:

* **Concurrency.** Requests for one swap run at the same time; a payment takes
  seconds to days; three parts may store its result (handler, historical monitor,
  preimage monitor), in different processes if the deployment is split. Two chain
  synchronisation tasks write to the same tables without a lock.
* **Failure.** Any call to the node may fail while the payment goes on; swapd may
  stop between any two steps; the database keeps what was committed.
* **Ordering.** Blocks are reorganised while a sync is under way. Two list calls to
  the node are answered at different moments.
* **Time.** The payment must have ended, with blocks to spare for the claim, before
  the user's own refund path opens; the height used for that may be outdated.
* **Shutdown.** Eight tasks share a token; the end of one must end the others, and
  the servers wait for the requests under way.

What makes each part correct:

* handlers and swap repository: a refund signature and a payment never both exist;
  the lock of a signed refund stays; a payment in flight keeps its lock (with Core
  Lightning there is one exception, `cln_retry` below);
* monitors: only real payments are recorded, every real payment is recorded in the
  end, and an attempt taken over at a start is resolved;
* LND client: what a label's index leads to is the label's payment, and a payment
  without a stored label is neither forgotten nor taken for another;
* chain monitor and chain in memory: a chain in memory is a path whichever way it is
  read; the blocks the tip sync follows are stored as a whole and change at their top
  only; it ends up on the best chain, whose outputs are all recorded; claimed outputs
  leave `get_utxos`;
* timing: what was paid for can be claimed in time;
* claim monitor: what was paid for is claimed in the end, what was not is left alone,
  a replacement spends what it replaces, and a confirmed claim leaves the list;
* process: a client that was told an address has a swap that is stored and watched;
  a stop, or the end of one task, ends every task.

## The modules

### SwapPayments (and SwapOutcome)

One swap: its rows, the two handlers, both monitors, the CLN client and the node.
Other swaps share nothing with it (all rows are keyed by payment hash). A `pay_swap`
request stands for its label, which is unique by its time stamp in nanoseconds.

| Variable | In the code |
|---|---|
| `preimage` | `swaps.preimage`: none, the swap's own, or that of another hash |
| `payLocks`, `refundLocks` | rows of `swap_locks` with a label, with a refund id |
| `success` | `payment_attempts.success` |
| `confirmed`, `unspent` | what `get_txos_for_address`, `get_utxos` return for the address |
| `node` | listpays and listsendpays, by label |
| `retried` | history: labels for which the node sent while nobody waited for the command |
| `pay`, `refund` | the await point a handler is at |
| `proc` | the process is down, in `initialize()`, or up |
| `list`, `todo`, `kept`, `held` | `HistoricalPaymentMonitor.payment_attempts` and the locals of `do_check_payments` |
| `busy`, `found` | the locals of `do_query_preimages` |

Each function of the repository is one database transaction that takes the row lock
of the swap first (`lock_swap_for_update`), so it is one atomic operator:
`LockAddPaymentAttempt`, `LockSwapRefund`, `UnlockAddPaymentResult`,
`UnlockSwapRefund`. Everything between two awaits of a handler is one action.
`PaySelect` stands for all checks of `pay_swap` before the lock: which outputs pass
depends on amounts, confirmations, fees and the chain filter; there must be one.
`PayAbandon` and `RefundAbandon` are the `?` on an error, a failed store, and a request
that the server drops when the client goes away.

The node is external and modelled from how `cln/client.rs` uses it: a pay command
is idle (no part in flight: before the first, or between two tries), has parts in
flight, or ended. It refuses a second payment while one of the hash is in flight or
made. Nothing ends a command when its caller is gone: `client.rs:178` passes
`retry_for`, and within that time an idle command may send again (`NodeSend`). The
variable `retried` remembers for which labels that happened; no action reads it.

`SwapOutcome` is what the parties see: a payment that is absent, in flight or
complete, whether the node started it on its own account after swapd had given it up
(`late`), and whether a refund was signed. It allows one payment at most, a refund only
while there is none, and none after a refund, a late one excepted. `SwapPayments` maps
to it by `PaymentSeen`, `LateSeen` and `RefundSeen`. With LND no payment is late, so
that the promise is the full one.

### LndPayments

The same swap with LND as its node. It EXTENDS SwapPayments and shares its handlers,
its repository and its monitors (`Shared`); only the steps of the lightning client
are its own, and SwapPayments' steps of the Core Lightning client do not occur.

| Variable | In the code |
|---|---|
| `order`, `other` | external: LND's payments by index, of this hash and of others |
| `labels` | table `lnd_payments` |
| `unlisted` | `get_payment_state` between `list_payments` and `track_payment_v2` |
| `blank` | `get_preimage` answered with the label `""` |

`LndSend`, `LndAddLabel` and `LndReply` are `pay`: the first update brings the index,
which is stored with the label, the last one the result; a stop or an error may come
between any two. `QueryByIndex` and `QueryByHash` are the two halves of
`get_payment_state`: `list_payments` with the label's index as `index_offset`, and
`track_payment_v2` by hash if that list is empty or there is no label.
A payment of another hash that `list_payments` answers with has a preimage of its own:
stored as the swap's it is a `foreign` one, with which nothing can be claimed, and
`preimage_monitor.rs:75` does not look for the swap again.
`LndPreimageFound` has the label of the preimage, or none.
LND is external, modelled from how `lnd/client.rs` and its protocol file describe it:
it numbers the payments of all hashes in one sequence, refuses a second payment of a
hash while one is in flight or made, goes on without its caller, and its
`index_offset` is exclusive. A payment counts as in flight until it has ended.

### MemChain, ChainSync and ChainStore

`MemChain` is `memchain.rs`: the map from a hash to its header and the next hash, with
base and tip, as a record, and its methods as operators (`New`, `Prepend`, `Retip`,
`Forward`, `Backward`, `FromHeaders`). `IsPath` is the reference: read forwards from
the base the chain gives the same blocks as read backwards from the tip, and these are
all there are.

Blocks form a tree. `BeginSync` reads the best tip; `WalkBack` fetches one header
before the new chain's base until it meets the task's chain; `UndoNext` and
`ProcessNext` do one block each, as the code awaits bitcoind or the database for each.
The last `ProcessNext` retips the task's chain; the full sync starts each time from
the birthday alone. `Stop` may come between any two steps. `AddBlock` has the four
inserts of `add_block` with the conditions they have in SQL; `filter_watch_addresses`
and `add_block` are one step, since an address watched between the two is in the same
position as one watched after them. A transaction stands for its one output that may
be watched; `Spends` says what it spends. `Tasks` are the two that `start` always runs
together.

`ChainStore` is what the handlers and monitors that read the tables count on while two
tasks write to them. Among the stored blocks is a chain that is followed, a stack: a
block comes on top of its parent (`Push`), only the top one goes, with its confirmations
(`Pop`), and the birthday never does. Every block that is processed, once more or
beside that chain too (`Refresh`), brings a confirmation for each of its transactions
that pays to a watched address. After a stop swapd follows what is stored, if that is
one chain (`Resume`). `ChainSync` maps to it by the tables themselves and by `Known`,
the blocks that the tip sync believes to be stored, by its chain in memory and its place
in `do_sync`. That no other blocks are stored is not promised: the full sync may add
some that nobody removes (`chain_stale`).

### PayoutTiming

Block heights only. `pay_swap` reads the outputs (`ReadTxos`), then the height
(`Check`), from which it computes the limit for the payment's delay; the node sends
(`Send`) up to `MaxLag` blocks later; `ClaimWindow` applies the claim monitor's own
formula. Outputs that were recorded stay: reorganisations are in ChainSync.

### ClaimMonitor

A round of `do_claim` is `ListClaimable` (the queries of `list_claimable`),
`ReadClaims` (`get_claims` and the plan made of both: rechecks and new claims) and
`EndRound`, when all futures have ended. In between each future, a record in `jobs`,
goes its own way: the fee estimate (`EstimateRecheck`, `EstimateClaim`), then
`Resend`, or the three calls of `ClaimService::claim` (`Send`, `Store`,
`WatchDestination`). The operator's claim joins at `Send` at any time.

| Variable | In the code |
|---|---|
| `confirmed`, `recorded` | what `get_utxos` knows of outputs and of their spends |
| `paid` | outputs of a successful row in `payment_attempts` |
| `preimages` | swaps whose `preimage` is set, with a successful attempt or without (`PreimageOnly`) |
| `claims`, `watch` | tables `claims` with `claim_inputs`, `watch_addresses` |
| `round`, `listed`, `jobs` | the locals and futures of `do_claim` |
| `rate` | what `estimate_fee` answers |
| `mempool`, `mined` | external: bitcoind |
| `given`, `reused` | history: destinations of the operator's claims, and those in use before |

A transaction is the set of outputs it spends, its rate and its destination. `TxOf`
says which transaction an output is of, since `get_claims` compares transaction ids
without output indices. The lock time is left out; where it decides (a replacement
made again at the same height has the id of the stored one, and `add_claim` fails on
the primary key), both outcomes are possible. `AffordableRate` stands for the dust
check of `create_claim_tx`. bitcoind takes a replacement that pays `MinDiff` more than
each transaction it conflicts with, and mines what pays about the current rate. A
spend is recorded when its destination is watched, which is what ChainSync found out
about `add_block`. The operator may give any destination, a new address or one in use
(`internal_server.rs:383`). `auto_bump` is stored with a claim and read by nobody: the
monitor bumps every claim.

### Swapd

The life of a process: `run_with_client`, its eight tasks, and one handler to show
what a stop does to a request. What the tasks do is in the other modules; here they
are in front of their loop's select (`idle`), at work (`busy`) or at an end.

| Variable | In the code |
|---|---|
| `stage`, `starts` | how far `run_with_client` is; counted starts |
| `task` | the tasks of the tracker, and the two of `ChainMonitor::start` |
| `cancelled`, `chainToken` | the token of `run_with_client`, its child in the chain monitor |
| `swaps`, `watch` | tables `swaps`, `watch_addresses` |
| `req` | the await point of each `create_swap` |

`Boot`, `FirstFees` and `SpawnTasks` are the start, `Exit` is `tracker.wait`, `Crash` a
kill, `Signal` and `StopCall` the two ways to be told to stop. `SyncFails`,
`ChainEnds`, `ServerStarts` carry an error to the tokens as the code does.
`ServerDrains` and `ServerEnds` are `serve_with_shutdown`. `CreateStore`, `CreateWatch` and
`CreateAnswer` are the three awaits of `create_swap` that matter, each of which may
fail before or after it took effect. Of the fee estimators only their failure matters
here: without first fees the process ends, without any `create_swap` is refused.

## The runs

| Run | Instance | Checks |
|---|---|---|
| `safety` | 2 pay, 2 refund requests, 2 outputs, one process | all safety properties of a swap, `SuccessIsKept`, refinement of SwapOutcome |
| `liveness` | 2 pay requests, 1 output, fairness | `PaidIsRecorded`, `AdoptedAttemptResolves` |
| `split_deployment` | a second process | violated: `OnlyRetryPaysRefunded` |
| `cln_retry` | 1 pay, 1 refund request, one process | violated: `RefundExcludesPayment` |
| `lnd` | LND, 1 pay and 1 refund request, 1 payment for another hash, fairness | `RefundExcludesPayment`, `OnlyOffsetUnlocks`, `OnlyOffsetMisrecords`, refinement of SwapOutcome, `OnlyOffsetForgets`, `AdoptedAttemptResolves` |
| `lnd_offset` | LND, 1 pay request, 1 payment for another hash | violated: `InFlightStaysLocked` |
| `chain_both` | both tasks, three branches that overtake each other, 1 stop, fairness | `MemoryIsPath`, `KnownIsStored`, refinement of ChainStore, `TipFollowsBest`, `BestIsRecorded`, `ClaimedIsNotListed` |
| `chain_stale` | both tasks, two branches, no stop | violated: `StaleLeaves` |
| `payout_timing` | lock time 6, 2 outputs, heights up to 8, lag 1 | `ClaimWindow` |
| `claim_safety` | 2 outputs of a swap, 3 rates (1 too high), a user's refund, 2 events of any kind | `UnpaidIsNotTaken`, `OneDestinationOneClaim` |
| `claim_liveness` | 2 swaps paid by one transaction, 2 rates, 2 events of any kind, fairness | `PaidIsClaimed`, `ClaimedLeaves` |
| `process` | all tasks, 2 `create_swap` requests for one hash, 2 starts, fairness | `ToldIsTracked`, `StopsTogether` |

The passing runs but the two liveness runs have their module's `TypeOK` (`LndTypeOK`)
too.

**Bounds.** Two requests of each kind are what the exclusion properties relate; a
third is the second again as long as the lock table admits one payment. Restarts are
not bounded in SwapPayments: the state space is finite without it. With LND liveness
is checked for one attempt, as two take too long; the invariants are proved
for any number, and a second attempt matters to them (the latest payment of a hash may
be another attempt's). One payment for another hash is enough to follow the attempt's
own, or to precede it. The block tree `g-a1-a2-a3`, `g-b1-b2`, `a1-c2-c3` has up to
three reorganisations, one of them with its fork above the birthday, a transaction that
confirms in either branch, and a spend after it; `chain_stale` does without `c2`, `c3`.
`MaxStops` bounds the stops of ChainSync, since each would start the count anew.
`liveness` has no refund request: a refund changes nothing but `refundLocks`, by which
it may only keep a payment from being made. In PayoutTiming `MaxHeight` lets the whole
life of a swap pass (lock time 6, heights to 8); it stops there, hence
`CHECK_DEADLOCK FALSE`. Swapd has it too: the process is not started again after
`MaxStarts`. The other runs check for deadlock. In ClaimMonitor the faults (each kind
once), the moves of the rate and the manual claims are events, of which there are
`MaxEvents` in a behaviour, in any combination and order (`MaxMoves` and `MaxManual`
bound two of the kinds alone): a manual claim with a stop, a stop with a rising rate,
an error with a reorganisation. There are more `Addresses` than these allow to be used,
or a claim would find none and the run would end in a deadlock. In `claim_liveness`
the operator claims both outputs in one transaction, which is what ties the fates of
two swaps together; in `claim_safety` any of them. Both start at the lowest rate: a
higher one later is a move, and the operator may choose any at once.

**Fairness.** In SwapPayments: a process is started again (weak), and each step of
the two polling monitors happens if it is possible again and again (strong), because
the loops retry for ever and a call does not fail every time. A payment in flight
ends: its HTLC settles or times out. A command is given up at last (strong, as it may be
in flight in between): `retry_for` ends. Nothing is assumed of clients and handlers, nor
of the node starting anything. LndPayments assumes the same of its own steps, and that
payments for other hashes end. In ChainSync: a task that runs goes on (weak), and a
stopped swapd is started again; no fairness for bitcoind. In ClaimMonitor: the loop
of `start` and the futures it drives go on (weak; the operator's request apart from
them, so that neither waits for the other), the chain sync follows the chain (the
property `BestIsRecorded` of ChainSync), and a miner takes a transaction that pays the
current rate. Deposits, payments, the user and the operator need not do anything. In
Swapd: the runtime drives every task and every accepted request on (weak), that is,
each call returns or fails in the end. Signals are not relied upon, nor that anybody
starts the process.

**What the violated runs show.** Four statements of comments, tests or protocol
files do not hold; `PROJECT.json` quotes each with the line.

* `split_deployment`: the historical monitor runs in every process, so a worker's
  start frees a swap the server is about to pay. With a single process the property
  holds (`safety`, `RefundSafety`).
* `cln_retry`: a pay command that is idle at a Core Lightning node looks like a failed
  one, to `wait_payment`, to the historical monitor and to `refund_swap`. If its caller
  is gone, by a dropped connection or a restart, the swap is unlocked, a refund is signed,
  and the command sends again. `safety` and the theorems say that this is the only way
  in a single process: `OnlyRetryPaysRefunded`, `OnlyRetryUnlocks`. LND has no such
  state, and `RefundExcludesPayment` holds as it stands (`lnd`, `LndRefundSafety`).
* `chain_stale`: a full sync overtaken by a reorganisation stores blocks that no
  task undoes, and the next start fails on them.
* `lnd_offset`: `list_payments` begins after the index it is given, so after a restart
  the state of the node's next payment is taken for that of the attempt. `lnd` and the
  theorems bound the damage: locks, results and the preimage may be wrong, and only where
  a payment for another hash follows; a refund is still never signed beside a payment,
  because `refund_swap` asks LND by hash. A wrong preimage may stay for good: the swap
  was paid, and cannot be claimed (`OnlyOffsetForgets`).

`chain_both` states what survives `chain_stale`: the two tasks may leave too much in
the database, never too little. No block the tip sync counts on is removed by the other
task (`KnownIsStored`), what it follows changes as a stack (`ImplementsChainStore`) and
becomes the best chain (`TipFollowsBest`), nothing of that chain is missed, and claims do
leave `get_utxos`. The last three except a start that failed. That the stored blocks
form a chain, and that no spent output is ever listed, are not among them: while a full
sync is at work both fail.

**What the assumptions and exceptions stand for.** Five more observations are not runs
of their own, but are why a model or a property has the form it has.

* `pay_swap` tests the preimage before it has the lock, not after. A second request
  that passed the test early is told of the first one's success, and its own outputs
  count as paid too. `RecordedMeansPaid` therefore speaks of the payment, not of which
  outputs it was for.
* `wait_payment` asks for the completed and the pending payments with two calls. If the
  first list is answered, then the payment settles, then the second is answered, both
  are empty and the result is a failure. Before it is stored the preimage monitor may
  store the success; the failure then overwrites `success` of the attempt
  (`swap_repository.rs:580`), while the preimage stays. The outputs no longer count as
  paid (`get_swaps_with_paid_outpoints` asks for `success = true`), the preimage monitor
  leaves out swaps with a preimage, and the claim monitor skips the outputs with the
  remark "TODO: Handle the case where the payment result was not persisted"
  (`claim/monitor.rs:185`). A late payment of a retried command leads there as well.
  `SuccessIsKept` says that these two are the only ways for a success to be taken back;
  without the exceptions TLC finds the behaviours. In ClaimMonitor such a swap is one
  with a preimage and without a paid output (`PreimageOnly`).
* The alias in the insert into `tx_blocks` (`chain_repository.rs:198`) hides the outer
  one, so a spend counts only if it pays to a watched address itself. Claims do;
  a user's refund does not, and stays listed. Hence `ClaimedIsNotListed` is about
  spends to watched addresses.
* In ClaimMonitor, a spend that is not recorded (`Blocked`) keeps its output in the
  list: that of a user who took an output back, and that of a claim whose destination
  is not watched, because swapd stopped or a call failed between `broadcast_tx` and
  `add_watch_address`. The monitor then goes on building claims with the spent output,
  bitcoind refuses each, and an output that shares a claim with it (same swap, or one
  manual claim) is not claimed either. `PaidIsClaimed` says that this is the only way
  to lose one: without `Blocked` TLC finds the behaviour when swapd may stop.
  `ClaimedLeaves` excepts stops and failed calls for the same reason.
* The operator may claim what was not paid for, and may give an address that is in use.
  `UnpaidIsNotTaken` and `OneDestinationOneClaim` are about the monitor, and except the
  destinations in `given` and in `reused`.

`claim_liveness` has both outputs in one transaction, where `get_claims` overlooks a
stored claim of one because of a spend of the other; the monitor then makes a new
claim, and the property holds nevertheless.

## What is proved

TLAPS proves the following for any values of the constants (any number of requests,
outputs, processes, attempts, payments for other hashes; any tree of blocks, lock
times, rates, faults):

| Theorem | Says | Condition |
|---|---|---|
| `TypeCorrect` | `TypeOK` of SwapPayments | none |
| `LocksExclude` | `LockExclusion` | none |
| `RecordsAreTrue` | `RecordedMeansPaid` | none |
| `SignedLockStays` | `SignedStaysLocked` | none |
| `InFlightLocked` | `OnlyRetryUnlocks` | one process |
| `RefundSafety` | `OnlyRetryPaysRefunded` | one process |
| `SuccessKept` | `SuccessIsKept` | one process |
| `OutcomeRefined` | `ImplementsOutcome` | one process |
| `LndRefundSafety` | `RefundExcludesPayment` with LND | one process |
| `LndOutcomeRefined` | `ImplementsOutcome` with LND | one process |
| `LndTypeCorrect` | `LndTypeOK` | one process |
| `UnlocksOnlyByOffset`, `MisrecordsOnlyByOffset` | `OnlyOffsetUnlocks`, `OnlyOffsetMisrecords` | one process |
| `TimingTypeCorrect` | `TypeOK` of PayoutTiming | none |
| `ClaimWindowKept` | `ClaimWindow` | none |
| `ChainTypeCorrect` | `TypeOK` of ChainSync | none |
| `MemoryStaysPath` | `MemoryIsPath` | none |
| `KnownStaysStored` | `KnownIsStored` | none |
| `SyncImplementsStore` | `ImplementsChainStore` | none |
| `ClaimTypeCorrect` | `TypeOK` of ClaimMonitor | none |
| `OneDestinationKept` | `OneDestinationOneClaim` | none |
| `OnlyPaidIsTaken` | `UnpaidIsNotTaken` | none |
| `SwapdTypeCorrect` | `TypeOK` of Swapd | none |
| `ToldStaysTracked` | `ToldIsTracked` | none |

The only condition, one process (`Workers = {}`, in SwapPayments called `Standalone`),
cannot be dropped: `split_deployment` shows why. The theorems without it hold for any
`Workers`, which no passing run needs to repeat. None makes an assumption about the
node beyond the model of it.

**SwapPayments** has two layers. `GeneralInv` is inductive in every deployment: the
rules of the lock table, one active payment at the node, every success on its way into
the database is a real one (`SuccessIsPaid`, needed because monitor and handler hold a
result between query and store), and a refund that may still be signed holds its lock.
`StandaloneInv` is inductive on top of it: `OnlyRetryUnlocks` alone is not, since a lock
may be deleted by a failure read earlier. So it needs that a failure about to be stored
is not in flight, or is a late payment (`CallersHoldLock`, `AdoptedIsDead`), that this
cannot change (for a handler that is not calling the node sends late ones only, and
adopted attempts have no handler any more: `HandlersNeedServer`), and that a refund
which found no completed payment will meet a late one only (`RefundSawNone`: it has its
lock, so no payment is locked, so none but a late one is in flight that could settle).
Then both lists of the refund, taken at different moments, amount to one.
`SuccessIsKept` is an action property; the step that would break it is excluded by
`RecordedByEnded`: an attempt recorded as successful was paid, or its handler has ended
with that result, and a failure in the historical monitor's hands is of a payment that
is not made and, as nobody calls for it, will be made by a late try at most.

**LndPayments** has two layers as well. `LndInv` cannot use that a payment in flight
is locked, which is false here. It says instead that a payment in flight or made is
the latest of its hash (`ActiveIsLatest`), so that `track_payment_v2` answers for it
(lemma `TrackedIsActive`), and that a handler about to send has its lock
(`UnsentHoldsLock`). A refund signed under its own lock then saw no payment, and none
can follow. `LndIndexInv` adds what is true of results on their way: each is of a
payment that has ended, or of a payment for another hash that follows the label's
(`ResultsAreOf`). What is listed after the label's index is of another hash, or the
label's payment is not the latest and so has ended (lemma `ListedIsOf`). That a label
has one index (`LndTypeOK`) and keeps it (lemma `FollowsStays`) makes this last.
`IndexQuiet` collects what a step must satisfy that moves no payment; the five other
steps go through `IndexMoves`.

**PayoutTiming:** `TimingInv` says that the limit is what every selected output can
spare at the height that was read (the oldest deposit bounds the others), and that
the payment's expiry is at most lag plus limit away from it.

**ChainSync.** `MemoryInv` is `TypeOK` and `MemoryIsPath` with where the loops are. The
operators' lemmas carry it: `PrependIsPath`, `FromHeadersIsPath` and `RetipIsPath`,
which needs that `After` gives exactly the blocks above the fork. What is said of all
blocks of a path (`HeightsDiffer`, `TipIsHighest`) would be an induction along it; the
proofs take the lowest counterexample instead, whose existence is the least-number
principle for heights (`Smallest`, from `WellFoundedInduction`). `Known`, the blocks
that the tip sync counts on, depends on its place: in the undo loop it is the old chain
up to the current block, in the process loop the old chain up to the fork with the new
one below the current block. Three lemmas say what a step makes of it: `EnterLoopKnown`
(nothing changes), `UndoKnown` (the highest block goes), `ProcessKnown` (a block comes
that none is higher than, and whose parent is there). `KnownInv` ties the database to it
for the two tasks together, where the stored blocks are more than `Known`. It needs that
a full sync never undoes anything, because its chain is the birthday alone at the start
of each round (`FullNeverUndoes`). `StoreInv` adds that outputs are recorded for watched
addresses only. The refinement of ChainStore maps `UndoNext` of the tip sync to `Pop`,
since the block is the highest of `Known` and so is nobody's parent there; `ProcessNext`
of the tip sync to `Push`, or to `Refresh` for the block of the fork that is processed
again; `ProcessNext` of the full sync always to `Refresh`; and `Start` to `Resume`,
since what `try_from` accepts is one chain.

**ClaimMonitor.** `ClaimInv` says that wherever a destination is known (a job, a row, a
transaction in the mempool or mined) it belongs to one set of outputs, those in `reused`
excepted, and a fresh one is known nowhere. `PaidInv` says that lists, jobs and
transactions have outputs that were paid for, or go to the user or to a destination the
operator gave; a replacement keeps the destination and the outputs of what it replaces.

**Swapd.** `SwapdInv` is `TypeOK` with what the tables have for each handler's place:
what a handler has stored or watched is in the tables, and stored swaps of one hash are
one.

**Only model-checked:** liveness under fairness (`PaidIsRecorded`,
`OnlyOffsetForgets`, `AdoptedAttemptResolves`, `TipFollowsBest`, `BestIsRecorded`,
`ClaimedIsNotListed`, `PaidIsClaimed`, `ClaimedLeaves`, `StopsTogether`), which is beyond
the prover.

## What is not modelled

* The choice of row and column in whatthefee.io's table and the conversion of its
  logarithms: floating point arithmetic. ClaimMonitor takes any rate from a set.
* The age of whatthefee.io's answers. The code stamps an answer with the time before the
  request and compares that with the limit, but `cache_bust` is rounded down to 300 s
  (`estimator.rs:161`), so that a cache may give an answer up to that much older than its
  stamp: how fresh the fees really are is not decided by the code.
* Amounts: the sums of `pay_swap`, fees and weights of `create_claim_tx`. The outcomes
  are choices (`PaySelect`, `AffordableRate`).
* Keys, scripts and signatures; JSON-RPC and gRPC plumbing, argument parsing, logging;
  the wallets; the operator's queries, among them `get_txos_for_address_with_spends`;
  the chain filter, which may drop any output.
* Several deadlines in one claim: all outputs of ClaimMonitor have the same, so that
  `blocks_left` of a claim is that of its outputs. PayoutTiming has the arithmetic.

## Plan

Done: SwapPayments, SwapOutcome, LndPayments, MemChain, ChainSync, ChainStore,
PayoutTiming, ClaimMonitor and Swapd, with a proof module each for all but SwapOutcome,
ChainStore and MemChain, whose lemmas are in the proofs of the modules that use them.
All invariants and action properties of the passing runs are proved, and the refinements
(SwapOutcome by SwapPayments and by LndPayments, ChainStore by ChainSync).

Left: deadlines of their own for the outputs of a claim; the estimator's choice of a row
as an operator against a reference definition; amounts in `PaySelect`, small enough for
TLC, with the sum of the outputs as an invariant of what is paid.
