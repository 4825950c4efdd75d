------------------------------ MODULE MemChain ------------------------------
(***************************************************************************)
(* The chain in memory (chain/memchain.rs): a hash map from the hashes of  *)
(* its blocks to their headers, each with the hash of the block after it,  *)
(* and the hashes of its lowest and highest block.  A block stands for its *)
(* hash; what its header says, the block before it and the height, is      *)
(* Parent and Height.  The operators give the chain that a method leaves   *)
(* behind; their callers have the conditions under which it returns Ok.    *)
(***************************************************************************)
EXTENDS Naturals

CONSTANTS
    Blocks,
    Birthday,       \* the block the database starts with
    Parent,         \* Parent[b]: the block before b
    Height,
    MaxHeight,      \* no block is higher (the column is a bigint)
    None            \* no block

ASSUME BlocksAssumption ==
    /\ Birthday \in Blocks /\ None \notin Blocks
    /\ Parent \in [Blocks -> Blocks]
    /\ MaxHeight \in Nat /\ Height \in [Blocks -> 0..MaxHeight]
    /\ \A b \in Blocks \ {Birthday} : Height[b] = Height[Parent[b]] + 1

\* Chain::new
New(b) == [tip |-> b, base |-> b, next |-> [x \in {b} |-> None]]

\* contains_block, as the set of blocks it holds for.
In(c) == DOMAIN c.next

IsChainRecord(c) ==
    /\ c \in [tip : Blocks, base : Blocks, next : {c.next}]
    /\ In(c) \subseteq Blocks
    /\ c.next \in [In(c) -> Blocks \cup {None}]

\* prepend.  Needs Parent[c.base] = b.
Prepend(c, b) ==
    [tip |-> c.tip, base |-> b,
     next |-> [x \in In(c) \cup {b} |-> IF x = b THEN c.base ELSE c.next[x]]]

\* The blocks after b, as retip follows them: the least set with the block next
\* to b and the one next to each of its members.
After(c, b) ==
    LET Closed(S) == \A x \in S \cup {b} : c.next[x] \in S \cup {None}
    IN  {x \in In(c) : \A S \in SUBSET In(c) : Closed(S) => x \in S}

\* A retip that leaves the old blocks in the map.
RetipKeepsOld(c, other) ==
    [tip |-> other.tip, base |-> c.base,
     next |-> [x \in In(c) \cup In(other) |->
                  IF x \in In(other) THEN other.next[x] ELSE c.next[x]]]

\* retip: the blocks after other's base are removed and other's, from the second
\* one on, appended.  Needs other.base \in In(c).
Retip(c, other) ==
    [tip |-> other.tip, base |-> c.base,
     next |-> [x \in (In(c) \ After(c, other.base)) \cup In(other) |->
                  IF x \in In(other) THEN other.next[x] ELSE c.next[x]]]

\* iter_forwards and iter_backwards: the block they give after b.
Forward(c, b) == c.next[b]
Backward(c, b) == IF b = c.base THEN None ELSE Parent[b]

\* get_block_headers gives the headers by descending height; try_from prepends
\* them one by one, and so needs each to be the parent of the one before it.
IsChain(S) ==
    /\ \A a, b \in S : Height[a] = Height[b] => a = b
    /\ \E base \in S : \A b \in S \ {base} : b # Birthday /\ Parent[b] \in S

FromHeaders(S) ==
    LET tip == CHOOSE b \in S : \A c \in S : Height[c] <= Height[b]
    IN  [tip |-> tip,
         base |-> CHOOSE b \in S : \A c \in S : Height[b] <= Height[c],
         next |-> [b \in S |-> IF b = tip THEN None
                               ELSE CHOOSE c \in S : Height[c] = Height[b] + 1]]

\* What a chain is: read forwards from the base it gives the same blocks as read
\* backwards from the tip, all of those in the map.
IsPath(c) ==
    /\ c.tip \in In(c) /\ c.next[c.tip] = None
    /\ c.base \in In(c)
    /\ \A x \in In(c) \ {c.tip} :
          c.next[x] \in In(c) \ {c.base} /\ Parent[c.next[x]] = x
    /\ \A x \in In(c) \ {c.base} :
          x # Birthday /\ Parent[x] \in In(c) /\ c.next[Parent[x]] = x
=============================================================================
