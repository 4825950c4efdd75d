------------------------------- MODULE Swapd -------------------------------
(***************************************************************************)
(* The life of a swapd process: run_with_client of main.rs, which starts   *)
(* the tasks and waits for all of them, the loops the tasks run in, and    *)
(* the cancellation token through which the end of one ends the others.    *)
(* What the tasks do is the subject of the other modules.  The swapper     *)
(* server is shown with one handler, create_swap, which writes to two      *)
(* tables and then needs a fee estimate.                                   *)
(*                                                                         *)
(* A request stands for the swap it would create, with a key and so an     *)
(* address of its own.                                                     *)
(***************************************************************************)
EXTENDS Naturals

CONSTANTS
    Reqs,           \* create_swap requests
    HashOf,         \* the payment hash of a request
    Flags,          \* what runs here: some of "claim", "preimage", "chain", "servers"
    MaxStarts       \* bound on the starts of the process

ASSUME SwapdAssumption ==
    /\ DOMAIN HashOf = Reqs
    /\ Flags \subseteq {"claim", "preimage", "chain", "servers"}
    /\ MaxStarts \in Nat

VARIABLES
    stage,      \* the process is "down", "fetching" its first fees, "booting" or "up"
    task,       \* the tasks of the trackers
    cancelled,  \* the token of run_with_client
    chainToken, \* the child token of ChainMonitor::start is cancelled
    swaps,      \* table swaps, as requests
    watch,      \* table watch_addresses
    req,        \* create_swap handlers
    starts

Tasks == {"history", "claim", "preimage", "chain", "tip", "full", "swapper", "internal"}
Pollers == {"history", "claim", "preimage"}
Syncs == {"tip", "full"}
Servers == {"swapper", "internal"}

tables == <<swaps, watch>>
vars == <<stage, task, cancelled, chainToken, tables, req, starts>>

InFlight(r) == req[r] \in {"accepted", "stored", "watched"}

-----------------------------------------------------------------------------
(***************************************************************************)
(* The start.                                                              *)
(***************************************************************************)
NoTasks == [t \in Tasks |-> "none"]

\* WhatTheFeeEstimator::start asks for fees; without them the process ends.
Boot ==
    /\ stage = "down" /\ starts < MaxStarts
    /\ stage' = "fetching" /\ starts' = starts + 1
    /\ UNCHANGED <<task, cancelled, chainToken, tables, req>>

FirstFees ==
    /\ stage = "fetching"
    /\ stage' \in {"booting", "down"}
    /\ UNCHANGED <<task, cancelled, chainToken, tables, req, starts>>

\* After the historical monitor's initialize (without which it does not run) the
\* tasks are spawned, each in front of its loop.
SpawnTasks ==
    /\ stage = "booting"
    /\ \E h \in {"idle", "ended"} :
          task' = [t \in Tasks |->
             CASE t = "history" -> h
               [] t \in Flags \cap Pollers -> "idle"
               [] t \in Flags \ Pollers -> "starting"
               [] t \in Servers /\ "servers" \in Flags -> "starting"
               [] OTHER -> "none"]
    /\ stage' = "up"
    /\ UNCHANGED <<cancelled, chainToken, tables, req, starts>>

\* tracker.wait: the end of the last task is the end of the process.
Exit ==
    /\ stage = "up"
    /\ \A t \in Tasks : task[t] \in {"none", "ended"}
    /\ stage' = "down" /\ task' = NoTasks
    /\ cancelled' = FALSE /\ chainToken' = FALSE
    /\ UNCHANGED <<tables, req, starts>>

\* The process is killed: its handlers are gone.
Crash ==
    /\ stage # "down"
    /\ stage' = "down" /\ task' = NoTasks
    /\ cancelled' = FALSE /\ chainToken' = FALSE
    /\ req' = [r \in Reqs |-> IF InFlight(r) THEN "refused" ELSE req[r]]
    /\ UNCHANGED <<tables, starts>>

Cancel ==
    /\ ~cancelled /\ cancelled' = TRUE
    /\ UNCHANGED <<stage, task, chainToken, tables, req, starts>>

\* Ctrl-C, from the moment somebody listens for it.
Signal == stage \in {"booting", "up"} /\ Cancel

\* The internal server's stop.
StopCall == task["internal"] = "busy" /\ Cancel

-----------------------------------------------------------------------------
(***************************************************************************)
(* The loops of the tasks.                                                 *)
(***************************************************************************)
Set(t, state) == task' = [task EXCEPT ![t] = state]
TaskStep == UNCHANGED <<stage, tables, req, starts>>

\* The monitors log their errors and go on.
RoundEnds(t) ==
    /\ t \in Pollers /\ task[t] = "busy"
    /\ Set(t, "idle")
    /\ TaskStep /\ UNCHANGED <<cancelled, chainToken>>

\* The historical monitor ends when nothing is left to check.
HistoryDone ==
    /\ task["history"] = "idle"
    /\ Set("history", "ended")
    /\ TaskStep /\ UNCHANGED <<cancelled, chainToken>>

Wakes(t) ==
    /\ t \in Pollers \cup Syncs /\ task[t] = "idle"
    /\ ~cancelled /\ (t \in Syncs => ~chainToken)
    /\ Set(t, "busy")
    /\ TaskStep /\ UNCHANGED <<cancelled, chainToken>>

\* The select and the test at the top of the loop.
Quits(t) ==
    /\ t \in Pollers /\ task[t] = "idle" /\ cancelled
    /\ Set(t, "ended")
    /\ TaskStep /\ UNCHANGED <<cancelled, chainToken>>

\* ChainMonitor::start builds its chain, or fails.
ChainStarts ==
    /\ task["chain"] = "starting"
    /\ \/ /\ task' = [task EXCEPT !["chain"] = "busy", !["tip"] = "idle", !["full"] = "idle"]
          /\ UNCHANGED cancelled
       \/ Set("chain", "ended") /\ cancelled' = TRUE
    /\ TaskStep /\ UNCHANGED chainToken

SyncEnds(t) ==
    /\ t \in Syncs /\ task[t] = "busy"
    /\ Set(t, "idle")
    /\ TaskStep /\ UNCHANGED <<cancelled, chainToken>>

\* A sync that leaves with its error and does not tell the other.
SyncFailsSilently(t) ==
    /\ t \in Syncs /\ task[t] = "busy"
    /\ Set(t, "ended")
    /\ TaskStep /\ UNCHANGED <<cancelled, chainToken>>

\* An error of do_sync (bitcoind or the database) ends the sync, and its token.
SyncFails(t) ==
    /\ t \in Syncs /\ task[t] = "busy"
    /\ Set(t, "ended") /\ chainToken' = TRUE
    /\ TaskStep /\ UNCHANGED cancelled

SyncQuits(t) ==
    /\ t \in Syncs /\ task[t] = "idle" /\ (cancelled \/ chainToken)
    /\ Set(t, "ended") /\ chainToken' = TRUE
    /\ TaskStep /\ UNCHANGED cancelled

\* A chain monitor that waits for the first of its two syncs.
ChainEndsEarly ==
    /\ task["chain"] = "busy" /\ \E t \in Syncs : task[t] = "ended"
    /\ Set("chain", "ended") /\ cancelled' = TRUE
    /\ TaskStep /\ UNCHANGED chainToken

\* When both syncs have ended, so has the chain monitor.
ChainEnds ==
    /\ task["chain"] = "busy" /\ \A t \in Syncs : task[t] = "ended"
    /\ Set("chain", "ended") /\ cancelled' = TRUE
    /\ TaskStep /\ UNCHANGED chainToken

\* A server listens, or fails to.
ServerStarts(t) ==
    /\ t \in Servers /\ task[t] = "starting"
    /\ \/ Set(t, "busy") /\ UNCHANGED cancelled
       \/ Set(t, "ended") /\ cancelled' = TRUE
    /\ TaskStep /\ UNCHANGED chainToken

\* serve_with_shutdown: no request is taken any more,
ServerDrains(t) ==
    /\ t \in Servers /\ task[t] = "busy" /\ cancelled
    /\ Set(t, "draining")
    /\ TaskStep /\ UNCHANGED <<cancelled, chainToken>>

\* and the server ends after the last one.
ServerEnds(t) ==
    /\ t \in Servers /\ task[t] = "draining"
    /\ t = "swapper" => \A r \in Reqs : ~InFlight(r)
    /\ Set(t, "ended")
    /\ TaskStep /\ UNCHANGED <<cancelled, chainToken>>

-----------------------------------------------------------------------------
(***************************************************************************)
(* create_swap.  Any call may fail, also after it took effect, and the     *)
(* client may go away: the request is refused then, whatever it stored.    *)
(***************************************************************************)
Goes(r, state) == req' = [req EXCEPT ![r] = state]
HandlerStep == UNCHANGED <<stage, task, cancelled, chainToken, starts>>

CreateAccept(r) ==
    /\ req[r] = "new" /\ task["swapper"] = "busy"
    /\ Goes(r, "accepted")
    /\ HandlerStep /\ UNCHANGED tables

\* An insert that ignores the conflict.
CreateStoreAgain(r) ==
    /\ req[r] = "accepted"
    /\ swaps' = IF \E q \in swaps : HashOf[q] = HashOf[r] THEN swaps ELSE swaps \cup {r}
    /\ Goes(r, "stored")
    /\ HandlerStep /\ UNCHANGED watch

\* get_blockheight, a new key, and add_swap, where payment_hash is the key.
CreateStore(r) ==
    /\ req[r] = "accepted"
    /\ \A q \in swaps : HashOf[q] # HashOf[r]
    /\ swaps' = swaps \cup {r}
    /\ \/ Goes(r, "stored") \/ Goes(r, "refused")
    /\ HandlerStep /\ UNCHANGED watch

CreateWatch(r) ==
    /\ req[r] = "stored"
    /\ watch' = watch \cup {r}
    /\ \/ Goes(r, "watched") \/ Goes(r, "refused")
    /\ HandlerStep /\ UNCHANGED swaps

CreateRefused(r) ==
    /\ InFlight(r)
    /\ Goes(r, "refused")
    /\ HandlerStep /\ UNCHANGED tables

\* get_swap_parameters has a fee estimate, of whatthefee.io or else of bitcoind
\* (without either, CreateRefused), and the client has its address.
CreateAnswer(r) ==
    /\ req[r] = "watched"
    /\ Goes(r, "told")
    /\ HandlerStep /\ UNCHANGED tables

-----------------------------------------------------------------------------
Init ==
    /\ stage = "down" /\ task = NoTasks
    /\ cancelled = FALSE /\ chainToken = FALSE
    /\ swaps = {} /\ watch = {}
    /\ req = [r \in Reqs |-> "new"]
    /\ starts = 0

Poller(t) == RoundEnds(t) \/ Wakes(t) \/ Quits(t)
Sync(t) == SyncEnds(t) \/ SyncFails(t) \/ SyncQuits(t) \/ Wakes(t)
Chain == ChainStarts \/ ChainEnds
Server(t) == ServerStarts(t) \/ ServerDrains(t) \/ ServerEnds(t)
CreateSwap(r) == CreateStore(r) \/ CreateWatch(r) \/ CreateAnswer(r) \/ CreateRefused(r)

Next ==
    \/ Boot \/ FirstFees \/ SpawnTasks \/ Exit \/ Crash \/ Signal \/ StopCall
    \/ \E t \in Pollers : Poller(t)
    \/ HistoryDone
    \/ \E t \in Syncs : Sync(t)
    \/ Chain
    \/ \E t \in Servers : Server(t)
    \/ \E r \in Reqs : CreateAccept(r) \/ CreateSwap(r)

Spec == Init /\ [][Next]_vars

\* The runtime drives every task and every handler on, calls return or fail in the
\* end, and nobody is relied upon to start the process or to stop it.
Fairness ==
    /\ WF_vars(SpawnTasks) /\ WF_vars(Exit) /\ WF_vars(Chain)
    /\ \A t \in Pollers \cap (Flags \cup {"history"}) : WF_vars(Poller(t))
    /\ \A t \in Syncs : WF_vars(Sync(t))
    /\ \A t \in Servers : WF_vars(Server(t))
    /\ \A r \in Reqs : WF_vars(CreateSwap(r))

FairSpec == Spec /\ Fairness

-----------------------------------------------------------------------------
(***************************************************************************)
(* Properties.                                                             *)
(***************************************************************************)

\* Types; the tasks belong to a process that is up, and the chain monitor does
\* not end before its syncs.
TypeOK ==
    /\ stage \in {"down", "fetching", "booting", "up"}
    /\ task \in [Tasks -> {"none", "starting", "idle", "busy", "draining", "ended"}]
    /\ stage # "up" => task = NoTasks
    /\ task["chain"] # "busy" => \A t \in Syncs : task[t] \in {"none", "ended"}
    /\ cancelled \in BOOLEAN /\ chainToken \in BOOLEAN
    /\ swaps \in SUBSET Reqs /\ watch \in SUBSET swaps
    /\ req \in [Reqs -> {"new", "accepted", "stored", "watched", "told", "refused"}]
    /\ starts \in 0..MaxStarts

\* The address that a client was told is the one stored for its hash, and it is
\* watched, whatever competes for the hash and whenever the process is killed.
ToldIsTracked ==
    \A r \in Reqs : req[r] = "told" =>
        /\ r \in swaps \cap watch
        /\ \A q \in Reqs : req[q] = "told" /\ HashOf[q] = HashOf[r] => q = r

\* When a task other than the historical monitor ends, or the process is told to
\* stop, the whole process ends, and can be started again with all its tasks.
StopsTogether ==
    (cancelled \/ \E t \in Tasks \ {"history"} : task[t] = "ended") ~> (stage = "down")
=============================================================================
