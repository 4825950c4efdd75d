------------------------- MODULE ClaimMonitorProofs -------------------------
(***************************************************************************)
(* Proofs about ClaimMonitor, for any outputs, fee rates, faults and       *)
(* bounds.  One invariant about the claims under way carries all three:    *)
(* what a job is going to broadcast or store is known before it does.      *)
(***************************************************************************)
EXTENDS ClaimMonitor, TLAPS

\* The transactions that exist or are being made.
Known == mempool \cup mined \cup claims \cup {j.tx : j \in jobs}

\* A job that watches has stored its claim, and a recheck starts from the claim
\* that it was made for.
JobsInv ==
    \A j \in jobs :
        /\ j.stage = "watch" => j.tx \in claims
        /\ j.stage = "estimate" => j.old \subseteq {j.tx}

\* One destination, one set of outputs, for what is being made too.
DestInv ==
    \A t, u \in Known :
        t.dest = u.dest /\ t.dest \notin {User} \cup reused => t.ins = u.ins

ClaimInv == TypeOK /\ JobsInv /\ DestInv

\* Everything that the monitor makes and stores spends outputs that were paid for,
\* and so does a claim that is yet to get its destination.
PaidInv ==
    /\ listed.paid \subseteq paid
    /\ \A t \in claims \cup {j.tx : j \in jobs} : t.dest \notin given => t.ins \subseteq paid
    /\ \A t \in mempool \cup mined : t.dest \notin {User} \cup given => t.ins \subseteq paid
    /\ \A j \in jobs : j.stage = "estimate" /\ j.old = {} => j.tx.ins \subseteq paid

-----------------------------------------------------------------------------
\* What the plan of a round consists of.
LEMMA PlanShape ==
    ASSUME TypeOK, NEW j \in Plan
    PROVE  /\ j \in Jobs /\ j.stage = "estimate" /\ ~j.manual
           /\ \/ j.tx \in claims /\ j.old = {j.tx}
              \/ j.tx.dest = User /\ j.old = {} /\ j.tx.ins \subseteq listed.paid
  <1> DEFINE valid == {c \in GetClaims : c.ins \subseteq listed.all}
             rest == listed.paid \ SpentBy(valid)
  <1>1. CASE \E c \in valid : j = Recheck(c)
    BY <1>1 DEF Recheck, GetClaims, TypeOK, Jobs
  <1>2. CASE \E s \in {SwapOf[o] : o \in rest} : j = Claim({o \in rest : SwapOf[o] = s})
    <2>1. PICK S \in SUBSET rest : j = Claim(S)
      BY <1>2
    <2>2. S \subseteq listed.paid /\ S \subseteq Outputs
      BY DEF TypeOK
    <2>3. Tx(S, 0, User) \in Txs
      BY <2>2 DEF Tx, Txs
    <2> QED
      BY <2>1, <2>2, <2>3 DEF Claim, Tx, Jobs
  <1> QED
    BY <1>1, <1>2 DEF Plan

\* A job that goes on with a known transaction, and that has stored it if it is
\* to watch, keeps the part of the invariant that is about jobs.
LEMMA BecomesKeeps ==
    ASSUME ClaimInv, NEW j \in jobs, NEW tx \in Txs,
           NEW stage \in {"resend", "send", "store", "watch"},
           stage = "watch" => tx \in claims',
           claims \subseteq claims',
           Becomes(j, tx, stage)
    PROVE  /\ jobs' \in SUBSET Jobs
           /\ JobsInv'
           /\ \A k \in jobs' : k \in jobs \/ k.tx = tx
  <1> DEFINE k == [j EXCEPT !.tx = tx, !.stage = stage]
  <1>1. j \in Jobs /\ jobs \subseteq Jobs
    BY DEF ClaimInv, TypeOK
  <1>2. k \in Jobs /\ k.tx = tx /\ k.stage = stage
    BY <1>1 DEF Jobs
  <1>3. jobs' = (jobs \ {j}) \cup {k}
    BY DEF Becomes
  <1>4. JobsInv'
    BY <1>2, <1>3 DEF ClaimInv, JobsInv
  <1> QED
    BY <1>1, <1>2, <1>3, <1>4

\* If every transaction that is known after a step was known before it, one
\* destination still has one set of outputs.
LEMMA KnownKeeps ==
    ASSUME DestInv, Known' \subseteq Known, reused' = reused
    PROVE  DestInv'
  BY DEF DestInv

\* The round.
LEMMA MonitorClaimInv ==
    ASSUME ClaimInv, Monitor
    PROVE  ClaimInv'
  <1>1. CASE ListClaimable
    BY <1>1 DEF ListClaimable, ClaimInv, TypeOK, JobsInv, DestInv, Known, Claimable,
                Utxos, chain, tables, bounds
  <1>2. CASE ReadClaims
    <2>1. TypeOK
      BY DEF ClaimInv
    <2>2. \A j \in Plan : /\ j \in Jobs /\ j.stage = "estimate"
                          /\ j.old \subseteq {j.tx}
                          /\ j.tx \in claims \/ j.tx.dest = User
      BY <2>1, PlanShape
    <2>3. TypeOK'
      BY <1>2, <2>1, <2>2 DEF ReadClaims, TypeOK, Nothing, chain, tables, bounds
    <2>4. JobsInv'
      BY <1>2, <2>2 DEF ReadClaims, ClaimInv, JobsInv, tables
    <2>5. \A t \in Known' : t \in Known \/ t.dest = User
      BY <1>2, <2>2 DEF ReadClaims, Known, chain, tables
    <2>6. DestInv'
      BY <1>2, <2>5 DEF ReadClaims, ClaimInv, DestInv, bounds
    <2> QED
      BY <2>3, <2>4, <2>6 DEF ClaimInv
  <1>3. CASE EndRound
    BY <1>3 DEF EndRound, ClaimInv, TypeOK, JobsInv, DestInv, Known, chain, tables,
                bounds
  <1> QED
    BY <1>1, <1>2, <1>3 DEF Monitor

\* The steps of a claim or a recheck.
LEMMA JobClaimInv ==
    ASSUME ClaimInv, NEW j \in jobs, Job(j)
    PROVE  ClaimInv'
  <1>0. /\ TypeOK /\ JobsInv /\ DestInv
        /\ j \in Jobs /\ j.tx \in Txs /\ j.tx \in Known
    BY DEF ClaimInv, TypeOK, Jobs, Known
  <1>1. CASE EstimateRecheck(j)
    <2>1. PICK c \in j.old :
              \/ Becomes(j, c, "resend")
              \/ Becomes(j, Replacement(j, c), "send")
              \/ Ends(j)
      BY <1>1 DEF EstimateRecheck
    <2>2. UNCHANGED <<chain, tables, round, listed, bounds>> /\ j.stage = "estimate"
      BY <1>1 DEF EstimateRecheck
    <2>3. c = j.tx
      BY <1>0, <2>2 DEF JobsInv
    <2>4. /\ Replacement(j, c) \in Txs
          /\ Replacement(j, c).dest = j.tx.dest
          /\ Replacement(j, c).ins = j.tx.ins
      BY <1>0, <2>3 DEF Replacement, Tx, Txs, TypeOK
    <2>5. PICK tx \in {j.tx, Replacement(j, c)} :
              /\ jobs' \in SUBSET Jobs /\ JobsInv'
              /\ \A k \in jobs' : k \in jobs \/ k.tx = tx
      <3>1. CASE Ends(j)
        BY <1>0, <2>2, <3>1 DEF Ends, JobsInv, TypeOK, tables
      <3>2. CASE Becomes(j, c, "resend")
        BY <1>0, <2>2, <2>3, <3>2, BecomesKeeps DEF tables
      <3>3. CASE Becomes(j, Replacement(j, c), "send")
        BY <1>0, <2>2, <2>4, <3>3, BecomesKeeps DEF tables
      <3> QED
        BY <2>1, <3>1, <3>2, <3>3
    <2>6. TypeOK'
      BY <1>0, <2>2, <2>5 DEF TypeOK, chain, tables, bounds
    <2>7. \A t \in Known' : \E u \in Known : t.dest = u.dest /\ t.ins = u.ins
      BY <1>0, <2>2, <2>4, <2>5 DEF Known, chain, tables
    <2>8. DestInv'
      BY <1>0, <2>2, <2>7 DEF DestInv, bounds
    <2> QED
      BY <2>5, <2>6, <2>8 DEF ClaimInv
  <1>2. CASE EstimateClaim(j)
    <2>1. UNCHANGED <<chain, tables, round, listed, bounds>>
      BY <1>2 DEF EstimateClaim
    <2>2. CASE Ends(j)
      BY <1>0, <2>1, <2>2 DEF Ends, ClaimInv, TypeOK, JobsInv, DestInv, Known, chain,
                             tables, bounds
    <2>3. CASE \E d \in Addresses :
                  FreshAddress(d) /\ Becomes(j, Tx(j.tx.ins, rate, d), "send")
      <3>1. PICK d \in Addresses :
                  FreshAddress(d) /\ Becomes(j, Tx(j.tx.ins, rate, d), "send")
        BY <2>3
      <3> DEFINE tx == Tx(j.tx.ins, rate, d)
      <3>2. tx \in Txs /\ tx.dest = d
        BY <1>0 DEF Tx, Txs, TypeOK
      <3>3. /\ jobs' \in SUBSET Jobs /\ JobsInv'
            /\ \A k \in jobs' : k \in jobs \/ k.tx = tx
        <4> HIDE DEF tx
        <4> QED BY <2>1, <3>1, <3>2, BecomesKeeps DEF tables, tx
      <3>4. \A t \in Known : t.dest # d
        BY <3>1 DEF FreshAddress, UsedAddresses, Known
      <3>5. TypeOK'
        BY <1>0, <2>1, <3>3 DEF TypeOK, chain, tables, bounds
      <3>6. \A t \in Known' : t \in Known \/ t = tx
        BY <2>1, <3>3 DEF Known, chain, tables
      <3>7. DestInv'
        BY <1>0, <2>1, <3>2, <3>4, <3>6 DEF DestInv, bounds
      <3> QED
        BY <3>3, <3>5, <3>7 DEF ClaimInv
    <2> QED
      BY <1>2, <2>2, <2>3 DEF EstimateClaim
  <1>3. CASE Resend(j)
    BY <1>0, <1>3 DEF Resend, Ends, Broadcast, ClaimInv, TypeOK, JobsInv, DestInv,
                      Known, tables, bounds
  <1>4. CASE Send(j)
    <2>1. UNCHANGED <<confirmed, paid, preimages, rate, mined, recorded, tables, round,
                      listed, bounds>>
      BY <1>4 DEF Send
    <2>2. CASE UNCHANGED mempool /\ Ends(j)
      BY <1>0, <2>1, <2>2 DEF Ends, ClaimInv, TypeOK, JobsInv, DestInv, Known, tables,
                             bounds
    <2>3. CASE Broadcast(j.tx) /\ Becomes(j, j.tx, "store")
      <3>1. /\ jobs' \in SUBSET Jobs /\ JobsInv'
            /\ \A k \in jobs' : k \in jobs \/ k.tx = j.tx
        BY <1>0, <2>1, <2>3, BecomesKeeps DEF tables
      <3>2. TypeOK'
        BY <1>0, <2>1, <2>3, <3>1 DEF TypeOK, Broadcast, tables, bounds
      <3>3. Known' \subseteq Known
        BY <1>0, <2>1, <2>3, <3>1 DEF Known, Broadcast, tables
      <3> QED
        BY <1>0, <2>1, <3>1, <3>2, <3>3, KnownKeeps DEF ClaimInv, bounds
    <2> QED
      BY <1>4, <2>2, <2>3 DEF Send
  <1>5. CASE Store(j)
    <2>1. UNCHANGED <<chain, watch, round, listed, bounds>>
      BY <1>5 DEF Store
    <2>2. CASE UNCHANGED claims /\ Ends(j)
      BY <1>0, <2>1, <2>2 DEF Ends, ClaimInv, TypeOK, JobsInv, DestInv, Known, chain,
                             bounds
    <2>3. CASE claims' = claims \cup {j.tx} /\ Becomes(j, j.tx, "watch")
      <3>1. /\ jobs' \in SUBSET Jobs /\ JobsInv'
            /\ \A k \in jobs' : k \in jobs \/ k.tx = j.tx
        BY <1>0, <2>3, BecomesKeeps
      <3>2. TypeOK'
        BY <1>0, <2>1, <2>3, <3>1 DEF TypeOK, chain, bounds
      <3>3. Known' \subseteq Known
        BY <1>0, <2>1, <2>3, <3>1 DEF Known, chain
      <3> QED
        BY <1>0, <2>1, <3>1, <3>2, <3>3, KnownKeeps DEF ClaimInv, bounds
    <2> QED
      BY <1>5, <2>2, <2>3 DEF Store
  <1>6. CASE WatchDestination(j)
    <2>1. j.tx \in claims
      BY <1>0, <1>6 DEF WatchDestination, JobsInv
    <2> QED
      BY <1>0, <1>6, <2>1 DEF WatchDestination, Ends, ClaimInv, TypeOK, JobsInv,
                             DestInv, Known, chain, bounds
  <1> QED
    BY <1>1, <1>2, <1>3, <1>4, <1>5, <1>6 DEF Job

\* The operator's claim pays to a new destination, or to one that is excepted from
\* then on.
LEMMA ManualClaimInv ==
    ASSUME ClaimInv, NEW S \in OperatorTakes, NEW r \in Rates, ManualClaim(S, r)
    PROVE  ClaimInv'
  <1>1. PICK d \in Addresses :
          /\ \/ FreshAddress(d) /\ UNCHANGED reused
             \/ reused' = reused \cup {d}
          /\ given' = given \cup {d}
          /\ jobs' = jobs \cup
              {[tx |-> Tx(S, r, d), old |-> {}, manual |-> TRUE, stage |-> "send"]}
    BY DEF ManualClaim
  <1> DEFINE j == [tx |-> Tx(S, r, d), old |-> {}, manual |-> TRUE, stage |-> "send"]
  <1>2. Tx(S, r, d) \in Txs /\ Tx(S, r, d).dest = d
    BY ClaimAssumption DEF Tx, Txs
  <1>3. j \in Jobs /\ j.stage = "send" /\ j.tx = Tx(S, r, d)
    BY <1>2 DEF Jobs
  <1>4. UNCHANGED <<chain, tables, round, listed, faults, moves>>
    BY DEF ManualClaim
  <1>5. manual' \in 0..MaxManual
    BY ClaimAssumption DEF ManualClaim, ClaimInv, TypeOK
  <1>6. TypeOK'
    BY <1>1, <1>3, <1>4, <1>5 DEF ClaimInv, TypeOK, chain, tables
  <1>7. JobsInv'
    BY <1>1, <1>3, <1>4 DEF ClaimInv, JobsInv, tables
  <1>8. FreshAddress(d) => \A t \in Known : t.dest # d
    BY DEF FreshAddress, UsedAddresses, Known
  <1>9. \A t \in Known' : t \in Known \/ t = Tx(S, r, d)
    BY <1>1, <1>3, <1>4 DEF Known, chain, tables
  <1>10. DestInv'
    <2>1. CASE FreshAddress(d) /\ UNCHANGED reused
      BY <1>2, <1>8, <1>9, <2>1 DEF ClaimInv, DestInv
    <2>2. CASE reused' = reused \cup {d}
      BY <1>2, <1>9, <2>2 DEF ClaimInv, DestInv
    <2> QED
      BY <1>1, <2>1, <2>2
  <1> QED
    BY <1>6, <1>7, <1>10 DEF ClaimInv

\* What goes wrong: at most it ends jobs, or moves a known transaction.
LEMMA FaultClaimInv ==
    ASSUME ClaimInv,
           \/ Stop \/ RoundFails \/ Evict
           \/ \E j \in jobs : JobFails(j)
           \/ \E t \in mined : Reorg(t)
    PROVE  ClaimInv'
  <1>0. TypeOK /\ JobsInv /\ DestInv
    BY DEF ClaimInv
  <1>1. \A kind : Fault(kind) => faults' \in SUBSET Faults
    BY <1>0 DEF Fault, TypeOK
  <1>2. CASE Stop
    <2>1. TypeOK'
      BY <1>0, <1>1, <1>2 DEF Stop, TypeOK, Nothing, chain, tables
    <2> QED
      BY <1>0, <1>2, <2>1, KnownKeeps DEF Stop, ClaimInv, JobsInv, Known, chain, tables
  <1>3. CASE RoundFails
    <2>1. TypeOK'
      BY <1>0, <1>1, <1>3 DEF RoundFails, TypeOK, Nothing, chain, tables
    <2> QED
      BY <1>0, <1>3, <2>1, KnownKeeps DEF RoundFails, ClaimInv, JobsInv, Known, chain,
                                         tables
  <1>4. CASE Evict
    <2>1. TypeOK'
      BY <1>0, <1>1, <1>4 DEF Evict, TypeOK, tables
    <2> QED
      BY <1>0, <1>4, <2>1, KnownKeeps DEF Evict, ClaimInv, JobsInv, Known, tables
  <1>5. ASSUME NEW j \in jobs, JobFails(j)
        PROVE  ClaimInv'
    <2>1. j.tx \in Txs /\ j.tx \in Known
      BY <1>0 DEF TypeOK, Jobs, Known
    <2>2. mempool' \subseteq mempool \cup {j.tx}
      BY <1>5 DEF JobFails, Broadcast
    <2>3. TypeOK'
      BY <1>0, <1>1, <1>5, <2>1, <2>2 DEF JobFails, Ends, TypeOK, tables
    <2>4. JobsInv'
      BY <1>0, <1>5 DEF JobFails, Ends, JobsInv, tables
    <2>5. Known' \subseteq Known
      BY <1>5, <2>1, <2>2 DEF JobFails, Ends, Known, tables
    <2> QED
      BY <1>0, <1>5, <2>3, <2>4, <2>5, KnownKeeps DEF JobFails, ClaimInv
  <1>6. ASSUME NEW t \in mined, Reorg(t)
        PROVE  ClaimInv'
    <2>1. TypeOK'
      BY <1>0, <1>1, <1>6 DEF Reorg, TypeOK, tables
    <2>2. JobsInv' /\ Known' \subseteq Known /\ reused' = reused
      BY <1>0, <1>6 DEF Reorg, JobsInv, Known, tables
    <2> QED
      BY <1>0, <2>1, <2>2, KnownKeeps DEF ClaimInv
  <1> QED
    BY <1>2, <1>3, <1>4, <1>5, <1>6

\* Deposits, payments, miners, the user, the chain sync and the fee estimate.
LEMMA OtherClaimInv ==
    ASSUME ClaimInv,
           \/ \E t \in mined : RecordSpend(t)
           \/ \E t \in recorded : ForgetSpend(t)
           \/ \E t \in mempool : Mine(t)
           \/ \E o \in Outputs : Deposit(o) \/ Paid(o)
           \/ \E o \in LostResults : PreimageOnly(o)
           \/ \E o \in UserTakes : UserSpend(o)
           \/ \E r \in Rates : MoveRate(r)
    PROVE  ClaimInv'
  <1>0. TypeOK /\ JobsInv /\ DestInv
    BY DEF ClaimInv
  <1>1. ASSUME NEW t \in mined, RecordSpend(t)
        PROVE  ClaimInv'
    BY <1>0, <1>1, KnownKeeps DEF RecordSpend, ClaimInv, TypeOK, JobsInv, Known, tables,
                                  bounds
  <1>2. ASSUME NEW t \in recorded, ForgetSpend(t)
        PROVE  ClaimInv'
    BY <1>0, <1>2, KnownKeeps DEF ForgetSpend, ClaimInv, TypeOK, JobsInv, Known, tables,
                                  bounds
  <1>3. ASSUME NEW t \in mempool, Mine(t)
        PROVE  ClaimInv'
    <2>1. TypeOK'
      BY <1>0, <1>3 DEF Mine, TypeOK, tables, bounds
    <2>2. JobsInv' /\ Known' \subseteq Known /\ reused' = reused
      BY <1>0, <1>3 DEF Mine, JobsInv, Known, tables, bounds
    <2> QED
      BY <1>0, <2>1, <2>2, KnownKeeps DEF ClaimInv
  <1>4. ASSUME NEW o \in Outputs, Deposit(o) \/ Paid(o) \/ PreimageOnly(o)
        PROVE  ClaimInv'
    <2>1. TypeOK'
      BY <1>0, <1>4 DEF Deposit, Paid, PreimageOnly, TypeOK, tables, bounds
    <2>2. JobsInv' /\ Known' \subseteq Known /\ reused' = reused
      BY <1>0, <1>4 DEF Deposit, Paid, PreimageOnly, JobsInv, Known, tables, bounds
    <2> QED
      BY <1>0, <2>1, <2>2, KnownKeeps DEF ClaimInv
  <1>5. ASSUME NEW o \in UserTakes, UserSpend(o)
        PROVE  ClaimInv'
    <2>1. Tx({o}, 0, User) \in Txs /\ Tx({o}, 0, User).dest = User
      BY ClaimAssumption DEF Tx, Txs
    <2>2. /\ mined' = mined \cup {Tx({o}, 0, User)}
          /\ mempool' \subseteq mempool
          /\ UNCHANGED <<confirmed, paid, preimages, rate, recorded, tables, round,
                         listed, jobs, bounds>>
      BY <1>5 DEF UserSpend
    <2>3. TypeOK'
      BY <1>0, <2>1, <2>2 DEF TypeOK, tables, bounds
    <2>4. JobsInv'
      BY <1>0, <2>2 DEF JobsInv, tables
    <2>5. \A t \in Known' : t \in Known \/ t.dest = User
      BY <2>1, <2>2 DEF Known, tables
    <2>6. DestInv'
      BY <1>0, <2>2, <2>5 DEF DestInv, bounds
    <2> QED
      BY <2>3, <2>4, <2>6 DEF ClaimInv
  <1>6. ASSUME NEW r \in Rates, MoveRate(r)
        PROVE  ClaimInv'
    <2>1. moves' \in 0..MaxMoves
      BY <1>0, <1>6, ClaimAssumption DEF MoveRate, TypeOK
    <2> QED
      BY <1>0, <1>6, <2>1, KnownKeeps DEF MoveRate, ClaimInv, TypeOK, JobsInv, Known,
                                         tables
  <1> QED
    BY <1>1, <1>2, <1>3, <1>4, <1>5, <1>6, ClaimAssumption

-----------------------------------------------------------------------------
\* The invariant of the rounds and their jobs, under every interleaving of the
\* monitor, the operator, bitcoind and the faults.
THEOREM ClaimInvariance == Spec => []ClaimInv
  <1>1. Init => ClaimInv
    BY ClaimAssumption DEF Init, ClaimInv, TypeOK, JobsInv, DestInv, Known, Nothing
  <1>2. ClaimInv /\ [Next]_vars => ClaimInv'
    <2> SUFFICES ASSUME ClaimInv, [Next]_vars
                 PROVE  ClaimInv'
      OBVIOUS
    <2>1. CASE UNCHANGED vars
      BY <2>1 DEF vars, chain, tables, bounds, ClaimInv, TypeOK, JobsInv, DestInv, Known
    <2>2. CASE Next
      BY <2>2, MonitorClaimInv, JobClaimInv, ManualClaimInv, FaultClaimInv, OtherClaimInv
         DEF Next
    <2> QED
      BY <2>1, <2>2
  <1> QED
    BY <1>1, <1>2, PTL DEF Spec

\* The types, and that only destinations of claims in the table are watched:
\* ClaimService::claim stores before it watches, whatever fails.
THEOREM ClaimTypeCorrect == Spec => []TypeOK
  <1>1. ClaimInv => TypeOK
    BY DEF ClaimInv
  <1> QED
    BY <1>1, ClaimInvariance, PTL

\* Replacements spend what they replace, for every interleaving of rounds with
\* manual claims, stops, lost answers and reorganisations; destinations that the
\* operator gave although they were in use are the only exception.
THEOREM OneDestinationKept == Spec => []OneDestinationOneClaim
  <1>1. ClaimInv => OneDestinationOneClaim
    BY DEF ClaimInv, DestInv, Known, OneDestinationOneClaim
  <1> QED
    BY <1>1, ClaimInvariance, PTL

\* A job keeps to outputs that were paid for, or to the operator's destination.
LEMMA JobPaidInv ==
    ASSUME ClaimInv, PaidInv, NEW j \in jobs, Job(j) \/ JobFails(j)
    PROVE  PaidInv'
  <1> DEFINE Fine(t) == t.dest \notin given => t.ins \subseteq paid
  <1>0. /\ Fine(j.tx) /\ j \in Jobs
        /\ j.stage = "estimate" => j.old \subseteq {j.tx}
        /\ j.stage = "estimate" /\ j.old = {} => j.tx.ins \subseteq paid
    BY DEF ClaimInv, TypeOK, JobsInv, PaidInv
  <1>1. UNCHANGED <<paid, listed, mined, given>>
    BY DEF Job, JobFails, EstimateRecheck, EstimateClaim, Resend, Send, Store,
           WatchDestination, chain, bounds
  <1>2. mempool' \subseteq mempool \cup {j.tx}
    BY DEF Job, JobFails, EstimateRecheck, EstimateClaim, Resend, Send, Store,
           WatchDestination, Broadcast, chain
  <1>3. claims' \subseteq claims \cup {j.tx}
    BY DEF Job, JobFails, EstimateRecheck, EstimateClaim, Resend, Send, Store,
           WatchDestination, tables
  <1>4. \A k \in jobs' : k \in jobs \/ (Fine(k.tx) /\ k.stage # "estimate")
    <2>1. ASSUME NEW tx, NEW stage \in {"resend", "send", "store", "watch"}, Fine(tx),
                 Becomes(j, tx, stage)
          PROVE  \A k \in jobs' : k \in jobs \/ (Fine(k.tx) /\ k.stage # "estimate")
      <3>1. /\ [j EXCEPT !.tx = tx, !.stage = stage].tx = tx
            /\ [j EXCEPT !.tx = tx, !.stage = stage].stage = stage
        BY <1>0 DEF Jobs
      <3> QED
        BY <2>1, <3>1 DEF Becomes
    <2>2. ASSUME Ends(j)
          PROVE  \A k \in jobs' : k \in jobs
      BY <2>2 DEF Ends
    <2>3. \A r, d : Tx(j.tx.ins, r, d).ins = j.tx.ins /\ Tx(j.tx.ins, r, d).dest = d
      BY DEF Tx
    <2>4. CASE EstimateRecheck(j)
      <3>1. PICK c \in j.old :
                \/ Becomes(j, c, "resend")
                \/ Becomes(j, Tx(j.tx.ins, rate, c.dest), "send")
                \/ Ends(j)
        BY <2>4 DEF EstimateRecheck, Replacement
      <3>2. c = j.tx
        BY <1>0, <2>4 DEF EstimateRecheck
      <3>3. Fine(c) /\ Fine(Tx(j.tx.ins, rate, c.dest))
        BY <1>0, <2>3, <3>2
      <3> QED
        BY <2>1, <2>2, <3>1, <3>3
    <2>5. CASE EstimateClaim(j)
      <3>1. \A r, d : Fine(Tx(j.tx.ins, r, d))
        BY <1>0, <2>3, <2>5 DEF EstimateClaim
      <3>2. \/ \E d \in Addresses : Becomes(j, Tx(j.tx.ins, rate, d), "send")
            \/ Ends(j)
        BY <2>5 DEF EstimateClaim
      <3> QED
        BY <2>1, <2>2, <3>1, <3>2
    <2>6. CASE Resend(j) \/ WatchDestination(j) \/ JobFails(j)
      BY <2>2, <2>6 DEF Resend, WatchDestination, JobFails
    <2>7. CASE Send(j)
      BY <1>0, <2>1, <2>2, <2>7 DEF Send
    <2>8. CASE Store(j)
      BY <1>0, <2>1, <2>2, <2>8 DEF Store
    <2> QED
      BY <2>4, <2>5, <2>6, <2>7, <2>8 DEF Job
  <1> QED
    BY <1>0, <1>1, <1>2, <1>3, <1>4 DEF PaidInv

\* The operator's claim goes to a destination that is his from then on.
LEMMA ManualPaidInv ==
    ASSUME ClaimInv, PaidInv, NEW S \in OperatorTakes, NEW r \in Rates, ManualClaim(S, r)
    PROVE  PaidInv'
  <1>1. PICK d \in Addresses :
          /\ given' = given \cup {d}
          /\ jobs' = jobs \cup
              {[tx |-> Tx(S, r, d), old |-> {}, manual |-> TRUE, stage |-> "send"]}
    BY DEF ManualClaim
  <1>2. Tx(S, r, d).dest = d
    BY DEF Tx
  <1>3. UNCHANGED <<paid, listed, mempool, mined, claims>>
    BY DEF ManualClaim, chain, tables
  <1> QED
    BY <1>1, <1>2, <1>3 DEF PaidInv

\* The rest of the steps.
LEMMA OtherPaidInv ==
    ASSUME ClaimInv, PaidInv,
           \/ Monitor \/ Stop \/ RoundFails \/ Evict
           \/ \E t \in mined : Reorg(t) \/ RecordSpend(t)
           \/ \E t \in recorded : ForgetSpend(t)
           \/ \E t \in mempool : Mine(t)
           \/ \E o \in Outputs : Deposit(o) \/ Paid(o)
           \/ \E o \in LostResults : PreimageOnly(o)
           \/ \E o \in UserTakes : UserSpend(o)
           \/ \E r \in Rates : MoveRate(r)
    PROVE  PaidInv'
  <1>1. CASE ListClaimable \/ EndRound
    BY <1>1 DEF ListClaimable, EndRound, PaidInv, chain, tables, bounds
  <1>2. CASE ReadClaims
    <2>1. \A j \in Plan : /\ j.tx \in claims \/ j.tx.ins \subseteq paid
                          /\ j.old = {} => j.tx.ins \subseteq paid
      BY PlanShape DEF ClaimInv, PaidInv
    <2> QED
      BY <1>2, <2>1 DEF ReadClaims, PaidInv, Nothing, chain, tables, bounds
  <1>3. CASE Stop \/ RoundFails \/ Evict
    BY <1>3 DEF Stop, RoundFails, Evict, PaidInv, Nothing, chain, tables
  <1>4. ASSUME NEW t \in mined, Reorg(t) \/ RecordSpend(t)
        PROVE  PaidInv'
    BY <1>4 DEF Reorg, RecordSpend, PaidInv, tables, bounds
  <1>5. ASSUME NEW t \in recorded, ForgetSpend(t)
        PROVE  PaidInv'
    BY <1>5 DEF ForgetSpend, PaidInv, tables, bounds
  <1>6. ASSUME NEW t \in mempool, Mine(t)
        PROVE  PaidInv'
    BY <1>6 DEF Mine, PaidInv, tables, bounds
  <1>7. ASSUME NEW o \in Outputs, Deposit(o) \/ Paid(o) \/ PreimageOnly(o)
        PROVE  PaidInv'
    BY <1>7 DEF Deposit, Paid, PreimageOnly, PaidInv, tables, bounds
  <1>8. ASSUME NEW o \in UserTakes, UserSpend(o)
        PROVE  PaidInv'
    <2>1. Tx({o}, 0, User).dest = User
      BY DEF Tx
    <2> QED
      BY <1>8, <2>1 DEF UserSpend, PaidInv, tables, bounds
  <1>9. ASSUME NEW r \in Rates, MoveRate(r)
        PROVE  PaidInv'
    BY <1>9 DEF MoveRate, PaidInv, tables
  <1> QED
    BY <1>1, <1>2, <1>3, <1>4, <1>5, <1>6, <1>7, <1>8, <1>9, ClaimAssumption DEF Monitor

\* But for the operator nobody takes what was not paid for: the list of the round,
\* and the claim that a recheck replaces, may be stale by the time they are used,
\* but what was paid for stays so, and a replacement goes where the claim went.
THEOREM OnlyPaidIsTaken == Spec => []UnpaidIsNotTaken
  <1>1. Init => PaidInv
    BY DEF Init, PaidInv, Nothing
  <1>2. ClaimInv /\ PaidInv /\ [Next]_vars => PaidInv'
    <2> SUFFICES ASSUME ClaimInv, PaidInv, [Next]_vars
                 PROVE  PaidInv'
      OBVIOUS
    <2>1. CASE UNCHANGED vars
      BY <2>1 DEF vars, chain, tables, bounds, PaidInv
    <2>2. CASE Next
      BY <2>2, JobPaidInv, ManualPaidInv, OtherPaidInv DEF Next
    <2> QED
      BY <2>1, <2>2
  <1>3. PaidInv => UnpaidIsNotTaken
    BY DEF PaidInv, UnpaidIsNotTaken
  <1> QED
    BY <1>1, <1>2, <1>3, ClaimInvariance, PTL DEF Spec
=============================================================================
