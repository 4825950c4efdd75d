----------------------------- MODULE SwapdProofs -----------------------------
(***************************************************************************)
(* Proofs about Swapd, for any requests, flags and lives of the process.   *)
(***************************************************************************)
EXTENDS Swapd, TLAPS

\* What a handler has done shows in the tables, which hold one swap for a hash.
TablesInv ==
    /\ \A r \in Reqs :
          /\ req[r] \in {"stored", "watched", "told"} => r \in swaps
          /\ req[r] \in {"watched", "told"} => r \in watch
    /\ \A q, r \in swaps : HashOf[q] = HashOf[r] => q = r

SwapdInv == TypeOK /\ TablesInv

-----------------------------------------------------------------------------
\* Starts and ends of the process.
LEMMA ProcessKeeps ==
    ASSUME SwapdInv, Boot \/ FirstFees \/ SpawnTasks \/ Exit \/ Crash \/ Signal \/ StopCall
    PROVE  SwapdInv'
  <1>0. TypeOK /\ TablesInv
    BY DEF SwapdInv
  <1>1. CASE Boot
    <2>1. TypeOK'
      BY <1>0, <1>1, SwapdAssumption DEF Boot, TypeOK, tables
    <2> QED
      BY <1>0, <1>1, <2>1 DEF Boot, SwapdInv, TablesInv, tables
  <1>2. CASE FirstFees
    BY <1>0, <1>2 DEF FirstFees, SwapdInv, TypeOK, TablesInv, tables
  <1>3. CASE SpawnTasks
    <2>1. /\ task' \in [Tasks -> {"none", "starting", "idle", "busy", "draining", "ended"}]
          /\ \A t \in Syncs : task'[t] = "none"
      BY <1>3, SwapdAssumption DEF SpawnTasks, Tasks, Syncs, Pollers, Servers
    <2>2. TypeOK'
      BY <1>0, <1>3, <2>1 DEF SpawnTasks, TypeOK, tables
    <2> QED
      BY <1>0, <1>3, <2>2 DEF SpawnTasks, SwapdInv, TablesInv, tables
  <1>4. CASE Exit
    <2>1. TypeOK'
      BY <1>0, <1>4 DEF Exit, TypeOK, NoTasks, Tasks, Syncs, tables
    <2> QED
      BY <1>0, <1>4, <2>1 DEF Exit, SwapdInv, TablesInv, tables
  <1>5. CASE Crash
    <2>1. \A r \in Reqs : req'[r] = IF InFlight(r) THEN "refused" ELSE req[r]
      BY <1>5 DEF Crash
    <2>2. TypeOK'
      BY <1>0, <1>5 DEF Crash, TypeOK, NoTasks, Tasks, Syncs, tables
    <2> QED
      BY <1>0, <1>5, <2>1, <2>2 DEF Crash, SwapdInv, TablesInv, tables
  <1>6. CASE Signal \/ StopCall
    BY <1>0, <1>6 DEF Signal, StopCall, Cancel, SwapdInv, TypeOK, TablesInv, tables
  <1> QED
    BY <1>1, <1>2, <1>3, <1>4, <1>5, <1>6

\* A step of a task leaves the tables alone.
LEMMA TaskKeeps ==
    ASSUME SwapdInv, TaskStep, stage = "up",
           task' \in [Tasks -> {"none", "starting", "idle", "busy", "draining", "ended"}],
           task'["chain"] # "busy" => \A t \in Syncs : task'[t] \in {"none", "ended"},
           cancelled' \in BOOLEAN, chainToken' \in BOOLEAN
    PROVE  SwapdInv'
  <1>0. TypeOK /\ TablesInv
    BY DEF SwapdInv
  <1>1. TypeOK'
    BY <1>0 DEF TypeOK, TaskStep, tables
  <1> QED
    BY <1>0, <1>1 DEF SwapdInv, TablesInv, TaskStep, tables

\* The loops of the tasks.
LEMMA TasksKeep ==
    ASSUME SwapdInv,
           \/ \E t \in Pollers : Poller(t)
           \/ HistoryDone
           \/ \E t \in Syncs : Sync(t)
           \/ Chain
           \/ \E t \in Servers : Server(t)
    PROVE  SwapdInv'
  <1>0. /\ TypeOK
        /\ \A t \in Tasks : task[t] # "none" => stage = "up"
    BY DEF SwapdInv, TypeOK, NoTasks
  <1> USE DEF Tasks, Pollers, Syncs, Servers
  <1>1. ASSUME NEW t \in Pollers, Poller(t)
        PROVE  SwapdInv'
    BY <1>0, <1>1, TaskKeeps DEF Poller, RoundEnds, Wakes, Quits, Set, TypeOK
  <1>2. CASE HistoryDone
    BY <1>0, <1>2, TaskKeeps DEF HistoryDone, Set, TypeOK
  <1>3. ASSUME NEW t \in Syncs, Sync(t)
        PROVE  SwapdInv'
    <2>1. cancelled' \in BOOLEAN /\ chainToken' \in BOOLEAN
      BY <1>0, <1>3, Zenon DEF Sync, SyncEnds, SyncFails, SyncQuits, Wakes, TypeOK
    <2>2. \E s \in {"idle", "busy", "ended"} : task' = [task EXCEPT ![t] = s]
      BY <1>3 DEF Sync, SyncEnds, SyncFails, SyncQuits, Wakes, Set
    <2>3. TaskStep /\ task[t] \in {"idle", "busy"}
      BY <1>3 DEF Sync, SyncEnds, SyncFails, SyncQuits, Wakes
    <2>4. stage = "up" /\ task["chain"] = "busy"
      BY <1>0, <2>3 DEF TypeOK
    <2> QED
      BY <1>0, <2>1, <2>2, <2>3, <2>4, TaskKeeps DEF TypeOK
  <1>4. CASE ChainStarts
    <2>1. cancelled' \in BOOLEAN /\ chainToken' \in BOOLEAN
      BY <1>0, <1>4, Zenon DEF ChainStarts, TypeOK
    <2>2. \/ task' = [task EXCEPT !["chain"] = "busy", !["tip"] = "idle", !["full"] = "idle"]
          \/ task' = [task EXCEPT !["chain"] = "ended"]
      BY <1>4 DEF ChainStarts, Set
    <2>3. TaskStep /\ task["chain"] = "starting"
      BY <1>4 DEF ChainStarts
    <2> QED
      BY <1>0, <2>1, <2>2, <2>3, TaskKeeps DEF TypeOK
  <1>5. CASE ChainEnds
    BY <1>0, <1>5, TaskKeeps DEF ChainEnds, Set, TypeOK
  <1>6. ASSUME NEW t \in Servers, ServerStarts(t)
        PROVE  SwapdInv'
    <2>1. cancelled' \in BOOLEAN /\ chainToken' \in BOOLEAN
      BY <1>0, <1>6, Zenon DEF ServerStarts, TypeOK
    <2>2. \E s \in {"busy", "ended"} : task' = [task EXCEPT ![t] = s]
      BY <1>6 DEF ServerStarts, Set
    <2>3. TaskStep /\ task[t] = "starting"
      BY <1>6 DEF ServerStarts
    <2> QED
      BY <1>0, <2>1, <2>2, <2>3, TaskKeeps DEF TypeOK
  <1>7. ASSUME NEW t \in Servers, ServerDrains(t) \/ ServerEnds(t)
        PROVE  SwapdInv'
    BY <1>0, <1>7, TaskKeeps DEF ServerDrains, ServerEnds, Set, TypeOK
  <1> QED
    BY <1>1, <1>2, <1>3, <1>4, <1>5, <1>6, <1>7 DEF Chain, Server

\* create_swap.
LEMMA CreateKeeps ==
    ASSUME SwapdInv, NEW r \in Reqs, CreateAccept(r) \/ CreateSwap(r)
    PROVE  SwapdInv'
  <1>0. TypeOK /\ TablesInv
    BY DEF SwapdInv
  <1> USE DEF Goes, HandlerStep, SwapdInv, TypeOK, TablesInv
  <1>1. CASE CreateAccept(r)
    BY <1>0, <1>1 DEF CreateAccept, tables
  <1>2. CASE CreateStore(r)
    BY <1>0, <1>2 DEF CreateStore
  <1>3. CASE CreateWatch(r)
    BY <1>0, <1>3 DEF CreateWatch
  <1>4. CASE CreateAnswer(r)
    BY <1>0, <1>4 DEF CreateAnswer, tables
  <1>5. CASE CreateRefused(r)
    BY <1>0, <1>5 DEF CreateRefused, tables
  <1> QED
    BY <1>1, <1>2, <1>3, <1>4, <1>5 DEF CreateSwap

-----------------------------------------------------------------------------
\* The invariant of the process and its requests, over any number of starts, stops
\* and kills.
THEOREM SwapdInvariance == Spec => []SwapdInv
  <1>1. Init => SwapdInv
    <2> SUFFICES ASSUME Init
                 PROVE  SwapdInv
      OBVIOUS
    <2>1. /\ task \in [Tasks -> {"none", "starting", "idle", "busy", "draining", "ended"}]
          /\ \A t \in Syncs : task[t] \in {"none", "ended"}
      BY DEF Init, NoTasks, Tasks, Syncs
    <2>2. cancelled \in BOOLEAN /\ chainToken \in BOOLEAN
      BY Zenon DEF Init
    <2>3. TypeOK
      BY SwapdAssumption, <2>1, <2>2 DEF Init, TypeOK
    <2>4. TablesInv
      BY DEF Init, TablesInv
    <2> QED
      BY <2>3, <2>4 DEF SwapdInv
  <1>2. SwapdInv /\ [Next]_vars => SwapdInv'
    <2> SUFFICES ASSUME SwapdInv, [Next]_vars
                 PROVE  SwapdInv'
      OBVIOUS
    <2>1. CASE UNCHANGED vars
      BY <2>1 DEF vars, tables, SwapdInv, TypeOK, TablesInv
    <2>2. CASE Next
      BY <2>2, ProcessKeeps, TasksKeep, CreateKeeps DEF Next
    <2> QED
      BY <2>1, <2>2
  <1> QED
    BY <1>1, <1>2, PTL DEF Spec

\* The types of Swapd; the chain monitor outlives its syncs, and the process its
\* tasks.
THEOREM SwapdTypeCorrect == Spec => []TypeOK
  <1>1. SwapdInv => TypeOK
    BY DEF SwapdInv
  <1> QED
    BY <1>1, SwapdInvariance, PTL

\* Nobody is told an address that is not stored and watched, or one of two for a
\* hash, although create_swap writes without a transaction around its two inserts.
THEOREM ToldStaysTracked == Spec => []ToldIsTracked
  <1>1. SwapdInv => ToldIsTracked
    BY DEF SwapdInv, TablesInv, ToldIsTracked
  <1> QED
    BY <1>1, SwapdInvariance, PTL
=============================================================================
