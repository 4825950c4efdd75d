------------------------------ MODULE ChainSync ------------------------------
(***************************************************************************)
(* How swapd follows the block chain: the two synchronisation tasks of     *)
(* chain/monitor.rs (tip sync and full sync), which run at the same time   *)
(* over the tables of postgresql/chain_repository.rs, while the best chain *)
(* of bitcoind grows and reorganises and swapd stops and starts again.     *)
(*                                                                         *)
(* Blocks form a tree under Birthday, the block the database starts with;  *)
(* MemChain has the chains the tasks keep in memory.  A transaction stands *)
(* for its one output that may be watched.                                 *)
(***************************************************************************)
EXTENDS MemChain

CONSTANTS
    Txs,
    TxsIn,          \* TxsIn[b]: the transactions of block b
    Spends,         \* Spends[t]: the transactions whose output t spends
    MaxStops        \* bound on the number of stops of swapd

ASSUME TxAssumption ==
    /\ TxsIn \in [Blocks -> SUBSET Txs]
    /\ Spends \in [Txs -> SUBSET Txs]

ASSUME StopsAssumption == MaxStops \in Nat

\* start runs both at the same time until one of them ends.
Tasks == {"tip", "full"}

VARIABLES
    best,       \* tip of bitcoind's best chain (external)
    watch,      \* table watch_addresses, by transaction
    blocks,     \* table blocks
    txOutputs,  \* table tx_outputs
    txInputs,   \* table tx_inputs: <<spent, spending>>
    txBlocks,   \* table tx_blocks: <<transaction, block>>
    running,    \* "down", "up" or "failed" (start returned InvalidChain)
    stops,
    mem,        \* mem[t]: the chain of task t, existing_chain in do_sync
    new,        \* new[t]: its new_chain; New(Birthday) when there is none
    phase,      \* phase[t]: "idle", "walk", "undo" or "process"
    cur         \* cur[t]: the block of the loop do_sync is in, or None

db == <<blocks, txOutputs, txInputs, txBlocks>>
task == <<mem, new, phase, cur>>
vars == <<best, watch, db, running, stops, task>>

-----------------------------------------------------------------------------
(***************************************************************************)
(* chain_repository.rs                                                     *)
(***************************************************************************)

\* An add_block that does nothing for a block it has.
AddBlockOnce(b) ==
    LET txs == TxsIn[b]
        outputs == txOutputs \cup (txs \cap watch)
    IN  IF b \in blocks
        THEN UNCHANGED db
        ELSE /\ blocks' = blocks \cup {b}
             /\ txOutputs' = outputs
             /\ txInputs' = txInputs \cup
                   {x \in outputs \X txs : x[1] \in Spends[x[2]]}
             /\ txBlocks' = txBlocks \cup {<<t, b>> : t \in txs \cap outputs}

\* An add_block that marks only outputs of the same block as spent.
AddBlockLocalSpends(b) ==
    LET txs == TxsIn[b]
        outputs == txOutputs \cup (txs \cap watch)
    IN  /\ blocks' = blocks \cup {b}
        /\ txOutputs' = outputs
        /\ txInputs' = txInputs \cup
              {x \in (txs \cap watch) \X txs : x[1] \in Spends[x[2]]}
        /\ txBlocks' = txBlocks \cup {<<t, b>> : t \in txs \cap outputs}

\* One database transaction: the block, its outputs to watched addresses, the
\* inputs that spend a known output, and the block of each transaction.  The
\* condition of the last insert holds for transactions with a row in
\* tx_outputs; its second half compares tx_inputs with itself
\* (i.spending_tx_id = i.tx_id) and holds for none.
AddBlock(b) ==
    LET txs == TxsIn[b]
        outputs == txOutputs \cup (txs \cap watch)
    IN  /\ blocks' = blocks \cup {b}
        /\ txOutputs' = outputs
        /\ txInputs' = txInputs \cup
              {x \in outputs \X txs : x[1] \in Spends[x[2]]}
        /\ txBlocks' = txBlocks \cup {<<t, b>> : t \in txs \cap outputs}

\* An undo_block without the ON DELETE CASCADE of tx_blocks.
UndoBlockNoCascade(b) ==
    /\ blocks' = blocks \ {b}
    /\ UNCHANGED <<txOutputs, txInputs, txBlocks>>

\* Deletes the block; its tx_blocks rows go with it.
UndoBlock(b) ==
    /\ blocks' = blocks \ {b}
    /\ txBlocks' = {x \in txBlocks : x[2] # b}
    /\ UNCHANGED <<txOutputs, txInputs>>

Confirmed(t) == \E b \in blocks : <<t, b>> \in txBlocks

\* get_utxos: confirmed outputs without a confirmed spend.
Utxos == {o \in txOutputs :
             /\ Confirmed(o)
             /\ ~\E t \in Txs : <<o, t>> \in txInputs /\ Confirmed(t)}

-----------------------------------------------------------------------------
(***************************************************************************)
(* ChainMonitor                                                            *)
(***************************************************************************)

\* start on an empty database: the birthday block is stored.
StartEmpty ==
    /\ running = "down" /\ blocks = {}
    /\ running' = "up"
    /\ blocks' = {Birthday}
    /\ mem' = [t \in Tasks |-> New(Birthday)]
    /\ UNCHANGED <<best, watch, txOutputs, txInputs, txBlocks, stops, new, phase, cur>>

\* start: the stored headers make up the chain of the tip sync; the full sync
\* begins with its base alone.
Start ==
    /\ running = "down" /\ IsChain(blocks)
    /\ running' = "up"
    /\ LET stored == FromHeaders(blocks)
       IN  mem' = [t \in Tasks |-> IF t = "tip" THEN stored ELSE New(stored.base)]
    /\ UNCHANGED <<best, watch, db, stops, new, phase, cur>>

\* start: InvalidChain.  The monitor returns and the process ends, this time and
\* each time it is started again.
StartFails ==
    /\ running \in {"down", "failed"} /\ blocks # {} /\ ~IsChain(blocks)
    /\ running' = "failed"
    /\ UNCHANGED <<best, watch, db, stops, task>>

\* A do_sync that takes a new tip of another height for an extension.
EnterLoopByHeight(t, c) ==
    LET reorg == c.base # mem[t].tip /\ Height[c.tip] = Height[mem[t].tip]
        next == IF c.base \notin In(mem[t]) THEN "walk"
                ELSE IF reorg THEN "undo" ELSE "process"
    IN  /\ phase' = [phase EXCEPT ![t] = next]
        /\ cur' = [cur EXCEPT ![t] = CASE next = "walk" -> None
                                       [] next = "undo" -> mem[t].tip
                                       [] next = "process" -> c.base]

\* The walk back goes on to a block of the chain the task has; if that is not
\* its tip there was a reorg.
EnterLoop(t, c) ==
    LET reorg == c.base # mem[t].tip
        next == IF c.base \notin In(mem[t]) THEN "walk"
                ELSE IF reorg THEN "undo" ELSE "process"
    IN  /\ phase' = [phase EXCEPT ![t] = next]
        /\ cur' = [cur EXCEPT ![t] = CASE next = "walk" -> None
                                       [] next = "undo" -> mem[t].tip
                                       [] next = "process" -> c.base]

\* do_sync: get_tip_hash and the header of the tip.
BeginSync(t) ==
    /\ running = "up" /\ phase[t] = "idle"
    /\ new' = [new EXCEPT ![t] = New(best)]
    /\ EnterLoop(t, New(best))
    /\ UNCHANGED <<best, watch, db, running, stops, mem>>

\* The header before the new chain's base.
WalkBack(t) ==
    /\ running = "up" /\ phase[t] = "walk"
    /\ LET longer == Prepend(new[t], Parent[new[t].base])
       IN  /\ new' = [new EXCEPT ![t] = longer]
           /\ EnterLoop(t, longer)
    /\ UNCHANGED <<best, watch, db, running, stops, mem>>

\* One block of the old chain that is not in the new one is undone.
UndoNext(t) ==
    /\ running = "up" /\ phase[t] = "undo"
    /\ UndoBlock(cur[t])
    /\ LET prev == Backward(mem[t], cur[t])
           more == prev # None /\ prev \notin In(new[t])
       IN  /\ phase' = [phase EXCEPT ![t] = IF more THEN @ ELSE "process"]
           /\ cur' = [cur EXCEPT ![t] = IF more THEN prev ELSE new[t].base]
    /\ UNCHANGED <<best, watch, running, stops, mem, new>>

\* A ProcessNext after which the full sync keeps its chain for the next round.
ProcessNextKeepsChain(t) ==
    /\ running = "up" /\ phase[t] = "process"
    /\ AddBlock(cur[t])
    /\ LET next == Forward(new[t], cur[t])
       IN  /\ cur' = [cur EXCEPT ![t] = next]
           /\ IF next # None
              THEN UNCHANGED <<phase, mem, new>>
              ELSE /\ phase' = [phase EXCEPT ![t] = "idle"]
                   /\ mem' = [mem EXCEPT ![t] = Retip(@, new[t])]
                   /\ new' = [new EXCEPT ![t] = New(Birthday)]
    /\ UNCHANGED <<best, watch, running, stops>>

\* One block of the new chain is processed, the last known one again first (an
\* address watched after filter_watch_addresses counts as watched after the
\* block); at the end the task's chain is retipped.  The full sync then drops
\* it: the next round begins with a copy of birthday_chain.
ProcessNext(t) ==
    /\ running = "up" /\ phase[t] = "process"
    /\ AddBlock(cur[t])
    /\ LET next == Forward(new[t], cur[t])
       IN  /\ cur' = [cur EXCEPT ![t] = next]
           /\ IF next # None
              THEN UNCHANGED <<phase, mem, new>>
              ELSE /\ phase' = [phase EXCEPT ![t] = "idle"]
                   /\ mem' = [mem EXCEPT ![t] =
                                 IF t = "tip" THEN Retip(@, new[t]) ELSE New(@.base)]
                   /\ new' = [new EXCEPT ![t] = New(Birthday)]
    /\ UNCHANGED <<best, watch, running, stops>>

\* swapd stops, between any two of its steps, or because a call of a task to
\* bitcoind or the database failed.
Stop ==
    /\ running = "up" /\ stops < MaxStops
    /\ running' = "down" /\ stops' = stops + 1
    /\ mem' = [t \in Tasks |-> New(Birthday)] /\ new' = mem'
    /\ phase' = [t \in Tasks |-> "idle"]
    /\ cur' = [t \in Tasks |-> None]
    /\ UNCHANGED <<best, watch, db>>

\* add_watch_address, by create_swap or by a claim.
Watch(t) ==
    /\ t \notin watch
    /\ watch' = watch \cup {t}
    /\ UNCHANGED <<best, db, running, stops, task>>

\* External: bitcoind moves to a chain with more work.
NewBest(b) ==
    /\ Height[b] > Height[best]
    /\ best' = b
    /\ UNCHANGED <<watch, db, running, stops, task>>

-----------------------------------------------------------------------------
Init ==
    /\ best = Birthday
    /\ watch = {}
    /\ blocks = {} /\ txOutputs = {} /\ txInputs = {} /\ txBlocks = {}
    /\ running = "down" /\ stops = 0
    /\ mem = [t \in Tasks |-> New(Birthday)] /\ new = mem
    /\ phase = [t \in Tasks |-> "idle"]
    /\ cur = [t \in Tasks |-> None]

Sync(t) == BeginSync(t) \/ WalkBack(t) \/ UndoNext(t) \/ ProcessNext(t)

Next ==
    \/ StartEmpty \/ Start \/ StartFails \/ Stop
    \/ \E t \in Tasks : Sync(t)
    \/ \E t \in Txs : Watch(t)
    \/ \E b \in Blocks : NewBest(b)

Spec == Init /\ [][Next]_vars

\* A running task goes on polling (every poll_interval, every 24 hours); swapd
\* is started again.
Fairness ==
    /\ WF_vars(StartEmpty \/ Start \/ StartFails)
    /\ \A t \in Tasks : WF_vars(Sync(t))

FairSpec == Spec /\ Fairness

-----------------------------------------------------------------------------
(***************************************************************************)
(* Properties.                                                             *)
(***************************************************************************)

\* Types, and: a task has a current block while it is in a loop over one.
TypeOK ==
    /\ best \in Blocks
    /\ watch \in SUBSET Txs
    /\ blocks \in SUBSET Blocks
    /\ txOutputs \in SUBSET Txs
    /\ txInputs \in SUBSET (Txs \X Txs)
    /\ txBlocks \in SUBSET (Txs \X blocks)
    /\ running \in {"down", "up", "failed"}
    /\ stops \in 0..MaxStops
    /\ DOMAIN mem = Tasks /\ DOMAIN new = Tasks
    /\ \A t \in Tasks : IsChainRecord(mem[t]) /\ IsChainRecord(new[t])
    /\ phase \in [Tasks -> {"idle", "walk", "undo", "process"}]
    /\ cur \in [Tasks -> Blocks \cup {None}]
    /\ \A t \in Tasks : cur[t] = None <=> phase[t] \in {"idle", "walk"}

\* Whatever reorgs, stops and late watches there were, the chain a task has in
\* memory is a path up from Birthday: reading it forwards and backwards gives
\* the same blocks, and no block of an earlier chain is left behind by retip.
\* The new chain is one too, joined to it by its base or not yet at all.
MemoryIsPath ==
    \A t \in Tasks :
        /\ IsPath(mem[t]) /\ mem[t].base = Birthday
        /\ IsPath(new[t])
        /\ phase[t] # "idle" => In(mem[t]) \cap In(new[t]) =
                                  IF phase[t] = "walk" THEN {} ELSE {new[t].base}

\* The blocks that the tip sync has stored and not undone, by what it has in
\* memory and where in do_sync it is.
UpTo(c, h) == {x \in In(c) : Height[x] <= h}

Known ==
    LET m == mem["tip"]  n == new["tip"]  c == cur["tip"]
    IN  CASE phase["tip"] \in {"idle", "walk"} -> In(m)
          [] phase["tip"] = "undo" -> UpTo(m, Height[c])
          [] phase["tip"] = "process" ->
                UpTo(m, Height[n.base]) \cup {x \in In(n) : Height[x] < Height[c]}

\* None of them is ever missing from the database, whatever the full sync does
\* at the same time: the tip sync does not process those blocks again, so one
\* that the other task removed would be missing for up to a day.
KnownIsStored == running = "up" => Known \subseteq blocks

Store == INSTANCE ChainStore WITH
    stored <- blocks, followed <- IF running = "up" THEN Known ELSE {},
    confirmed <- txBlocks, watched <- watch

\* Both tasks together change the tables as ChainStore says, at any moment of a
\* sync: the blocks of the tip sync come and go at the top of a chain that is
\* stored as a whole, the full sync takes none away, and every block that comes
\* has its confirmations with it.
ImplementsChainStore == Store!Spec

\* A block with everything below it.
Path[b \in Blocks] == IF b = Birthday THEN {b} ELSE {b} \cup Path[Parent[b]]

\* However often the best chain was reorganised, at whichever step of a sync,
\* the tip sync comes to follow exactly the best chain, with no block of an
\* abandoned one among those it takes for stored (unless start failed).
TipFollowsBest == <>[](running = "failed" \/ (running = "up" /\ Known = Path[best]))

\* Of the outputs in the blocks of the best chain none is missed, one whose
\* address was watched late included, although the two tasks undo and add
\* blocks under each other's feet (unless start failed).
BestIsRecorded ==
    <>[](\/ running = "failed"
         \/ \A b \in Path[best] :
               /\ b \in blocks
               /\ \A t \in TxsIn[b] \cap watch : <<t, b>> \in txBlocks)

\* An output spent on the best chain by a transaction that pays to a watched
\* address, as every claim does, is no longer listed by get_utxos (unless start
\* failed).
ClaimedIsNotListed ==
    <>[](\/ running = "failed"
         \/ \A b \in Path[best] : \A t \in TxsIn[b] \cap watch :
               Spends[t] \cap Utxos = {})

\* Blocks and confirmations that were reorganised away leave the database, and
\* so does what pay_swap would pay for (test_reorg.py: "The swap should now
\* (soon) no longer contain the no longer confirmed tx").
StaleLeaves ==
    <>[](blocks \subseteq Path[best] /\ \A x \in txBlocks : x[2] \in Path[best])
=============================================================================
