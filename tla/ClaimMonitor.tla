---------------------------- MODULE ClaimMonitor ----------------------------
(***************************************************************************)
(* How swapd collects what it paid for: the rounds of claim/monitor.rs,    *)
(* the claim and the table of claims behind them (claim/service.rs,        *)
(* postgresql/claim_repository.rs), the operator's manual claim, and       *)
(* bitcoind's mempool.  A round lists the claimable outputs, rebroadcasts  *)
(* or replaces the claims it knows, and claims the rest; all claims of a   *)
(* round go on at the same time.                                           *)
(*                                                                         *)
(* A transaction is what it spends, its fee rate and its destination; the  *)
(* lock time (the height it was made at) is left out, so one record can    *)
(* stand for several transaction ids.  Fee rates are in steps of any size; *)
(* the fee estimate for the blocks left is one rate that moves.            *)
(***************************************************************************)
EXTENDS Naturals, FiniteSets

CONSTANTS
    Outputs,        \* outputs that pay to swap addresses
    SwapOf, TxOf,   \* the swap, and the transaction, of an output
    UserTakes,      \* outputs the user may take back after the lock time
    OperatorTakes,  \* sets of outputs the operator may claim
    LostResults,    \* outputs whose payment may go unrecorded but for the preimage
    Rates,          \* values of the fee estimate
    StartRates,     \* those it may have at the start
    MinDiff,        \* MIN_REPLACEMENT_DIFF_SAT_PER_KW, and the rate by which
                    \* bitcoind wants a replacement to be higher
    AffordableRate, \* above it a claim is worth less than the dust limit
    Addresses,      \* wallet addresses, as numbers from 1
    Faults,         \* the kinds of faults: "stop", "error", "evict", "reorg"
    MaxMoves, MaxManual, MaxEvents      \* bounds: MaxEvents is on faults, moves
                    \* of the rate and manual claims together

ASSUME ClaimAssumption ==
    /\ DOMAIN SwapOf = Outputs /\ DOMAIN TxOf = Outputs
    /\ UserTakes \subseteq Outputs /\ LostResults \subseteq Outputs
    /\ OperatorTakes \subseteq SUBSET Outputs
    /\ Rates \subseteq Nat /\ StartRates \subseteq Rates
    /\ MinDiff \in Nat \ {0} /\ AffordableRate \in Nat
    /\ Addresses \subseteq Nat \ {0}
    /\ Faults \subseteq {"stop", "error", "evict", "reorg"}
    /\ MaxMoves \in Nat /\ MaxManual \in Nat /\ MaxEvents \in Nat

VARIABLES
    confirmed,  \* outputs in a block
    paid,       \* outputs of a successful payment attempt
    preimages,  \* swaps with a preimage
    rate,       \* the fee estimate
    mempool,    \* transactions in bitcoind's mempool
    mined,      \* transactions of ours, and of the user, in a block
    recorded,   \* those of them that tx_inputs and tx_blocks know
    claims,     \* table claims
    watch,      \* destinations in table watch_addresses
    round,      \* do_claim is "idle", has "listed", or is "working"
    listed,     \* what list_claimable returned, until the plan is made of it:
                \* all, and those paid for
    jobs,       \* the claims and rechecks under way
    faults,     \* the faults that happened, each kind once
    moves, manual,
    given,      \* history: destinations the operator gave for claims of his
    reused      \* history: those of them that were in use already

chain == <<confirmed, paid, preimages, rate, mempool, mined, recorded>>
tables == <<claims, watch>>
bounds == <<faults, moves, manual, given, reused>>
vars == <<chain, tables, round, listed, jobs, bounds>>

User == 0   \* destination of the user's refund

Room == Cardinality(faults) + moves + manual < MaxEvents

Txs == [ins : SUBSET Outputs, rate : Rates \cup {0}, dest : Addresses \cup {User}]
Jobs == [tx : Txs, old : SUBSET Txs, manual : BOOLEAN,
         stage : {"estimate", "resend", "send", "store", "watch"}]

Tx(ins, r, dest) == [ins |-> ins, rate |-> r, dest |-> dest]
SpentBy(txs) == UNION {t.ins : t \in txs}

-----------------------------------------------------------------------------
(***************************************************************************)
(* The tables.                                                             *)
(***************************************************************************)

\* get_utxos
Utxos == confirmed \ SpentBy(recorded)

\* list_claimable: the swap has a preimage.
Claimable == {o \in Utxos : SwapOf[o] \in preimages}

\* get_claims: some input's TRANSACTION has no spent output.
GetClaims ==
    {c \in claims : \E o \in c.ins : TxOf[o] \notin {TxOf[p] : p \in SpentBy(recorded)}}

\* new_address: one that is in use nowhere (the lowest of them).
UsedAddresses ==
    watch \cup reused \cup
    {t.dest : t \in mempool \cup mined \cup claims \cup {j.tx : j \in jobs}}
FreshAddress(d) == d \notin UsedAddresses /\ 1..(d - 1) \subseteq UsedAddresses

-----------------------------------------------------------------------------
(***************************************************************************)
(* ClaimMonitor::do_claim                                                  *)
(***************************************************************************)

Nothing == [all |-> {}, paid |-> {}]

ListClaimable ==
    /\ round = "idle"
    /\ listed' = [all |-> Claimable, paid |-> Claimable \cap paid]
    /\ round' = "listed"
    /\ UNCHANGED <<chain, tables, jobs, bounds>>

Recheck(c) == [tx |-> c, old |-> {c}, manual |-> FALSE, stage |-> "estimate"]
Claim(S) == [tx |-> Tx(S, 0, User), old |-> {}, manual |-> FALSE, stage |-> "estimate"]

\* A plan that claims unpaid outputs too.
PlanUnpaid ==
    LET valid == {c \in GetClaims : c.ins \subseteq listed.all}
        rest == listed.all \ SpentBy(valid)
    IN  {Recheck(c) : c \in valid} \cup
        {Claim({o \in rest : SwapOf[o] = s}) : s \in {SwapOf[o] : o \in rest}}

\* A plan that takes every output with a row in table claims for claimed.
PlanTrustsTable ==
    LET valid == {c \in GetClaims : c.ins \subseteq listed.all}
        rest == listed.paid \ SpentBy(claims)
    IN  {Recheck(c) : c \in valid} \cup
        {Claim({o \in rest : SwapOf[o] = s}) : s \in {SwapOf[o] : o \in rest}}

\* The claims whose inputs are all claimable are rechecked; the outputs left
\* over that were paid for are claimed, one transaction for each swap.
Plan ==
    LET valid == {c \in GetClaims : c.ins \subseteq listed.all}
        rest == listed.paid \ SpentBy(valid)
    IN  {Recheck(c) : c \in valid} \cup
        {Claim({o \in rest : SwapOf[o] = s}) : s \in {SwapOf[o] : o \in rest}}

ReadClaims ==
    /\ round = "listed"
    /\ jobs' = jobs \cup Plan
    /\ round' = "working" /\ listed' = Nothing
    /\ UNCHANGED <<chain, tables, bounds>>

EndRound ==
    /\ round = "working"
    /\ \A j \in jobs : j.manual
    /\ round' = "idle"
    /\ UNCHANGED <<chain, tables, listed, jobs, bounds>>

\* A recheck that replaces with all the outputs of the swap.
ReplacementWider(j, c) == Tx({o \in Claimable : \E p \in c.ins : SwapOf[o] = SwapOf[p]},
                             rate, c.dest)

\* The replacement: the same outputs to the same destination.
Replacement(j, c) == Tx(j.tx.ins, rate, c.dest)

Becomes(j, tx, stage) == jobs' = (jobs \ {j}) \cup {[j EXCEPT !.tx = tx, !.stage = stage]}
Ends(j) == jobs' = jobs \ {j}

\* recheck_claim: the fee rate is still sufficient, or a replacement is made
\* with the estimate, if that leaves more than dust.
EstimateRecheck(j) ==
    /\ j.stage = "estimate"
    /\ \E c \in j.old :
          \/ c.rate + MinDiff > rate /\ Becomes(j, c, "resend")
          \/ /\ c.rate + MinDiff <= rate
             /\ \/ rate <= AffordableRate /\ Becomes(j, Replacement(j, c), "send")
                \/ rate > AffordableRate /\ Ends(j)
    /\ UNCHANGED <<chain, tables, round, listed, bounds>>

\* claim: the estimate and a new address.
EstimateClaim(j) ==
    /\ j.stage = "estimate" /\ j.old = {}
    /\ \/ /\ rate <= AffordableRate
          /\ \E d \in Addresses :
                FreshAddress(d) /\ Becomes(j, Tx(j.tx.ins, rate, d), "send")
       \/ rate > AffordableRate /\ Ends(j)
    /\ UNCHANGED <<chain, tables, round, listed, bounds>>

\* The internal server's claim: the operator chooses outputs, a rate and a
\* destination, a new address or any other, be it in use already.
ManualClaim(S, r) ==
    /\ manual < MaxManual /\ Room
    /\ S # {} /\ S \subseteq Claimable
    /\ r <= AffordableRate
    /\ \E d \in Addresses :
          /\ \/ FreshAddress(d) /\ UNCHANGED reused
             \/ d \in UsedAddresses /\ reused' = reused \cup {d}
          /\ given' = given \cup {d}
          /\ jobs' = jobs \cup
              {[tx |-> Tx(S, r, d), old |-> {}, manual |-> TRUE, stage |-> "send"]}
    /\ manual' = manual + 1
    /\ UNCHANGED <<chain, tables, round, listed, faults, moves>>

\* External: what bitcoind's mempool takes.
Conflicts(t) == {c \in mempool : c.ins \cap t.ins # {} /\ c # t}
Accepts(t) ==
    /\ t.ins \cap SpentBy(mined) = {}
    /\ \A c \in Conflicts(t) : t.rate >= c.rate + MinDiff
Broadcast(t) == mempool' = (mempool \ Conflicts(t)) \cup {t}

\* Whether bitcoind takes it again or not, the recheck has ended.
Resend(j) ==
    /\ j.stage = "resend"
    /\ \/ Accepts(j.tx) /\ Broadcast(j.tx)
       \/ ~Accepts(j.tx) /\ UNCHANGED mempool
    /\ Ends(j)
    /\ UNCHANGED <<confirmed, paid, preimages, rate, mined, recorded, tables, round, listed,
                   bounds>>

\* ClaimService::claim: broadcast, then store, then watch.  The same inputs, rate
\* and destination again are refused while they are in the mempool: as the same
\* transaction with another witness, or as a replacement without a higher fee.
Send(j) ==
    /\ j.stage = "send"
    /\ LET taken == Accepts(j.tx) /\ j.tx \notin mempool
       IN  \/ taken /\ Broadcast(j.tx) /\ Becomes(j, j.tx, "store")
           \/ ~taken /\ UNCHANGED mempool /\ Ends(j)
    /\ UNCHANGED <<confirmed, paid, preimages, rate, mined, recorded, tables, round, listed,
                   bounds>>

\* A claim whose row is not committed.
StoreNothing(j) ==
    /\ j.stage = "store"
    /\ Becomes(j, j.tx, "watch")
    /\ UNCHANGED <<chain, tables, round, listed, bounds>>

\* add_claim; a transaction id that is in the table already (a replacement made
\* again at the same height) is an error, and the claim ends.
Store(j) ==
    /\ j.stage = "store"
    /\ \/ claims' = claims \cup {j.tx} /\ Becomes(j, j.tx, "watch")
       \/ j.tx \in claims /\ UNCHANGED claims /\ Ends(j)
    /\ UNCHANGED <<chain, watch, round, listed, bounds>>

\* A claim that does not watch its destination.
WatchDestinationNot(j) ==
    /\ j.stage = "watch"
    /\ Ends(j)
    /\ UNCHANGED <<chain, tables, round, listed, bounds>>

WatchDestination(j) ==
    /\ j.stage = "watch"
    /\ watch' = watch \cup {j.tx.dest}
    /\ Ends(j)
    /\ UNCHANGED <<chain, claims, round, listed, bounds>>

-----------------------------------------------------------------------------
(***************************************************************************)
(* Faults.                                                                 *)
(***************************************************************************)

Fault(kind) ==
    /\ kind \in Faults \ faults /\ Room
    /\ faults' = faults \cup {kind}

\* swapd stops: the round and its claims are forgotten.
Stop ==
    /\ Fault("stop")
    /\ round' = "idle" /\ listed' = Nothing /\ jobs' = {}
    /\ UNCHANGED <<chain, tables, moves, manual, given, reused>>

\* A call of a claim under way fails; bitcoind may have taken the transaction
\* although the answer was lost.
JobFails(j) ==
    /\ Fault("error")
    /\ Ends(j)
    /\ \/ UNCHANGED mempool
       \/ j.stage = "send" /\ Accepts(j.tx) /\ Broadcast(j.tx)
    /\ UNCHANGED <<confirmed, paid, preimages, rate, mined, recorded, tables, round, listed,
                   moves, manual, given, reused>>

\* The query of get_claims fails, and the round with it.
RoundFails ==
    /\ Fault("error")
    /\ round = "listed" /\ round' = "idle" /\ listed' = Nothing
    /\ UNCHANGED <<chain, tables, jobs, moves, manual, given, reused>>

\* External: bitcoind loses its mempool.
Evict ==
    /\ Fault("evict")
    /\ mempool # {} /\ mempool' = {}
    /\ UNCHANGED <<confirmed, paid, preimages, rate, mined, recorded, tables, round, listed,
                   jobs, moves, manual, given, reused>>

\* External: a block with a transaction is reorganised away.
Reorg(t) ==
    /\ Fault("reorg")
    /\ mined' = mined \ {t}
    /\ mempool' = mempool \cup {t}
    /\ UNCHANGED <<confirmed, paid, preimages, rate, recorded, tables, round, listed, jobs,
                   moves, manual, given, reused>>

-----------------------------------------------------------------------------
(***************************************************************************)
(* The rest of the system, and the chain.                                  *)
(***************************************************************************)

\* A deposit is confirmed; a payment for it succeeds and is recorded.
Deposit(o) ==
    /\ o \notin confirmed
    /\ confirmed' = confirmed \cup {o}
    /\ UNCHANGED <<paid, preimages, rate, mempool, mined, recorded, tables, round, listed,
                   jobs, bounds>>

Paid(o) ==
    /\ o \in confirmed \ (paid \cup SpentBy(mined))
    /\ paid' = paid \cup {o}
    /\ preimages' = preimages \cup {SwapOf[o]}
    /\ UNCHANGED <<confirmed, rate, mempool, mined, recorded, tables, round,
                   listed, jobs, bounds>>

\* The payment for an output succeeds and the preimage monitor stores the preimage,
\* but no attempt is marked successful: its label was unknown, or a failure that was
\* read before is stored last (SwapPayments!SuccessIsKept).
PreimageOnly(o) ==
    /\ o \in confirmed \ SpentBy(mined)
    /\ preimages' = preimages \cup {SwapOf[o]}
    /\ UNCHANGED <<confirmed, paid, rate, mempool, mined, recorded, tables, round,
                   listed, jobs, bounds>>

\* External: a transaction is mined if its rate is about what is asked for.
Mine(t) ==
    /\ t.rate + MinDiff > rate
    /\ mined' = mined \cup {t}
    /\ mempool' = mempool \ (Conflicts(t) \cup {t})
    /\ UNCHANGED <<confirmed, paid, preimages, rate, recorded, tables, round, listed, jobs,
                   bounds>>

\* External: the user takes an output back.
UserSpend(o) ==
    LET t == Tx({o}, 0, User)
    IN  /\ o \in confirmed /\ o \notin SpentBy(mined)
        /\ mined' = mined \cup {t}
        /\ mempool' = mempool \ Conflicts(t)
        /\ UNCHANGED <<confirmed, paid, preimages, rate, recorded, tables, round, listed,
                       jobs, bounds>>

\* The chain sync: a spend has a row in tx_blocks if its destination is watched
\* (ChainSync!AddBlock); blocks are processed again every day.
RecordSpend(t) ==
    /\ t.dest \in watch /\ t \notin recorded
    /\ recorded' = recorded \cup {t}
    /\ UNCHANGED <<confirmed, paid, preimages, rate, mempool, mined, tables, round, listed,
                   jobs, bounds>>

\* The chain sync undoes the block of a spend that was reorganised away.
ForgetSpend(t) ==
    /\ t \notin mined
    /\ recorded' = recorded \ {t}
    /\ UNCHANGED <<confirmed, paid, preimages, rate, mempool, mined, tables, round, listed,
                   jobs, bounds>>

\* The fee estimate moves.
MoveRate(r) ==
    /\ moves < MaxMoves /\ Room /\ r # rate
    /\ rate' = r /\ moves' = moves + 1
    /\ UNCHANGED <<confirmed, paid, preimages, mempool, mined, recorded, tables, round,
                   listed, jobs, faults, manual, given, reused>>

-----------------------------------------------------------------------------
Init ==
    /\ confirmed = {} /\ paid = {} /\ preimages = {} /\ rate \in StartRates
    /\ mempool = {} /\ mined = {} /\ recorded = {}
    /\ claims = {} /\ watch = {}
    /\ round = "idle" /\ listed = Nothing /\ jobs = {}
    /\ faults = {} /\ moves = 0 /\ manual = 0 /\ given = {} /\ reused = {}

Job(j) ==
    \/ EstimateRecheck(j) \/ EstimateClaim(j)
    \/ Resend(j) \/ Send(j) \/ Store(j) \/ WatchDestination(j)

Monitor == ListClaimable \/ ReadClaims \/ EndRound

Next ==
    \/ Monitor
    \/ \E j \in jobs : Job(j) \/ JobFails(j)
    \/ \E S \in OperatorTakes, r \in Rates : ManualClaim(S, r)
    \/ Stop \/ RoundFails \/ Evict
    \/ \E t \in mined : Reorg(t) \/ RecordSpend(t)
    \/ \E t \in recorded : ForgetSpend(t)
    \/ \E t \in mempool : Mine(t)
    \/ \E o \in Outputs : Deposit(o) \/ Paid(o)
    \/ \E o \in LostResults : PreimageOnly(o)
    \/ \E o \in UserTakes : UserSpend(o)
    \/ \E r \in Rates : MoveRate(r)

Spec == Init /\ [][Next]_vars

\* The monitor polls for ever, its futures and the operator's request are driven
\* to their ends, miners take what pays, and the chain sync keeps up.
Fairness ==
    /\ WF_vars(Monitor)
    /\ \A m \in BOOLEAN : WF_vars(\E j \in jobs : j.manual = m /\ Job(j))
    /\ WF_vars(\E t \in mempool : Mine(t))
    /\ WF_vars(\E t \in mined : RecordSpend(t))
    /\ WF_vars(\E t \in recorded : ForgetSpend(t))

FairSpec == Spec /\ Fairness

-----------------------------------------------------------------------------
(***************************************************************************)
(* Properties.                                                             *)
(***************************************************************************)

\* Types; what is watched is the destination of a stored claim, and a swap with
\* an output that was paid for has its preimage.
TypeOK ==
    /\ confirmed \in SUBSET Outputs /\ paid \in SUBSET confirmed
    /\ preimages \in SUBSET {SwapOf[o] : o \in Outputs}
    /\ \A o \in paid : SwapOf[o] \in preimages
    /\ rate \in Rates
    /\ mempool \in SUBSET Txs /\ mined \in SUBSET Txs
    /\ recorded \in SUBSET Txs
    /\ claims \in SUBSET Txs
    /\ watch \in SUBSET {c.dest : c \in claims}
    /\ round \in {"idle", "listed", "working"}
    /\ listed \in [all : SUBSET Outputs, paid : SUBSET Outputs]
    /\ jobs \in SUBSET Jobs
    /\ faults \in SUBSET Faults /\ moves \in 0..MaxMoves /\ manual \in 0..MaxManual
    /\ given \in SUBSET Addresses /\ reused \in SUBSET given

\* Only the operator takes an output that was not paid for, to a destination he
\* gave: the monitor does not, nor when it replaces or claims again ("Be a good
\* citizen and don't claim any funds that were not paid over lightning").
UnpaidIsNotTaken ==
    \A t \in mempool \cup mined \cup claims :
        t.dest \notin {User} \cup given => t.ins \subseteq paid

\* Claims to one destination spend the same outputs, unless the operator gave an
\* address that was in use: a replacement never widens or narrows what it
\* replaces, so it conflicts with it for sure and the wallet is paid once.
OneDestinationOneClaim ==
    \A t, u \in mempool \cup mined \cup claims :
        t.dest = u.dest /\ t.dest \notin {User} \cup reused => t.ins = u.ins

\* A spend that the chain sync does not know of: no claim of the monitor with
\* that output is accepted any more, nor can its other outputs be claimed.
Blocked(o) ==
    \E p \in SpentBy(mined \ recorded) :
        SwapOf[p] = SwapOf[o] \/ \E c \in claims : {o, p} \subseteq c.ins

\* Every output that was paid for is spent by a claim in the end, despite a stop,
\* a failing call, an emptied mempool, a reorganisation, a rising fee rate or a
\* claim of the operator that competes with the monitor's; except where it shares
\* a claim with an output whose spend went unseen.
PaidIsClaimed ==
    <>[](\A o \in paid :
            Blocked(o) \/ \E t \in mined : t.dest # User /\ o \in t.ins)

\* An output that a claim spent leaves the list of claimable outputs, and the
\* monitor comes to rest, unless swapd stopped or a call failed: then a claim may
\* confirm whose destination nobody watches.
ClaimedLeaves ==
    <>[](faults \cap {"stop", "error"} = {} => SpentBy(mined) \cap Claimable = {})
=============================================================================
