----------------------------- MODULE ChainStore -----------------------------
(***************************************************************************)
(* What the chain tables promise those who read them (the handlers, the    *)
(* preimage and the claim monitor), whichever blocks come and go and       *)
(* whichever task writes them.  Among the stored blocks is a chain that    *)
(* swapd follows, a stack: a block is only ever added on top of it and     *)
(* only its top is ever taken off, never the first block, and with the     *)
(* block all its confirmations.  Other blocks may be added at any time.    *)
(* A block comes in one step, with a confirmation for every transaction    *)
(* of it that pays to a watched address.                                   *)
(***************************************************************************)
CONSTANTS Blocks, Birthday, Parent, Txs, TxsIn

VARIABLES
    stored,         \* the blocks
    followed,       \* those of the chain that is followed; {} while swapd is down
    confirmed,      \* <<transaction, block>>
    watched         \* transactions that pay to a watched address

vars == <<stored, followed, confirmed, watched>>

IsTop(b) == b \in followed /\ \A c \in followed \ {Birthday} : Parent[c] # b

Init == stored = {} /\ followed = {} /\ confirmed = {} /\ watched = {}

Begin ==
    /\ stored = {} /\ stored' = {Birthday} /\ followed' = stored'
    /\ UNCHANGED <<confirmed, watched>>

\* What is stored is followed again, if it is one chain.
Resume ==
    /\ followed = {} /\ Birthday \in stored
    /\ \A b, c \in stored \ {Birthday} :
          Parent[b] \in stored /\ (Parent[b] = Parent[c] => b = c)
    /\ followed' = stored
    /\ UNCHANGED <<stored, confirmed, watched>>

Halt == followed' = {} /\ UNCHANGED <<stored, confirmed, watched>>

Process(b) ==
    /\ stored' = stored \cup {b}
    /\ confirmed' = confirmed \cup {<<t, b>> : t \in TxsIn[b] \cap watched}
    /\ UNCHANGED watched

Push(b) ==
    /\ b \notin followed /\ b # Birthday /\ IsTop(Parent[b])
    /\ Process(b) /\ followed' = followed \cup {b}

\* A block again, or one that is not followed: addresses may have been watched
\* since.
Refresh(b) == followed # {} /\ Process(b) /\ UNCHANGED followed

Pop(b) ==
    /\ IsTop(b) /\ b # Birthday
    /\ stored' = stored \ {b} /\ followed' = followed \ {b}
    /\ confirmed' = {x \in confirmed : x[2] # b}
    /\ UNCHANGED watched

WatchTx(t) ==
    watched' = watched \cup {t} /\ UNCHANGED <<stored, followed, confirmed>>

Next ==
    \/ Begin \/ Resume \/ Halt
    \/ \E b \in Blocks : Push(b) \/ Refresh(b) \/ Pop(b)
    \/ \E t \in Txs : WatchTx(t)

Spec == Init /\ [][Next]_vars
=============================================================================
