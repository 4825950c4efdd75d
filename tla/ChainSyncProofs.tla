--------------------------- MODULE ChainSyncProofs ---------------------------
(***************************************************************************)
(* Proofs about MemChain and ChainSync, for any tree of blocks.            *)
(***************************************************************************)
EXTENDS ChainSync, WellFoundedInduction, TLAPS

\* The least-number principle for a set of numbers.  Facts about whole chains
\* follow from it: of the blocks that break one, look at the lowest.
LEMMA Smallest ==
    ASSUME NEW T \in SUBSET Nat, T # {}
    PROVE  \E x \in T : \A y \in T : x <= y
<1> DEFINE R == {ss \in Nat \X Nat : ss[1] < ss[2]}
<1>1. OpToRel(<, Nat) = R
      BY DEF OpToRel
<1>2. IsWellFoundedOn(R, Nat)
      BY <1>1, NatLessThanWellFounded
<1> HIDE DEF R
<1>3. PICK x \in T : \A y \in T : ~ (<<y, x>> \in R)
      BY <1>2, WFMin
<1>4. ASSUME NEW y \in T PROVE x <= y
  <2>1. x \in Nat /\ y \in Nat
        OBVIOUS
  <2>2. y < x => <<y, x>> \in R
        BY <2>1 DEF R
  <2> QED BY <1>3, <2>1, <2>2
<1> QED BY <1>4

LEMMA Lowest ==
    ASSUME NEW S \in SUBSET Blocks, S # {}
    PROVE  \E x \in S : \A y \in S : Height[x] <= Height[y]
<1> DEFINE T == {Height[x] : x \in S}
<1>1. T \in SUBSET Nat /\ T # {}
      BY BlocksAssumption
<1>2. PICK n \in T : \A k \in T : n <= k
      BY <1>1, Smallest
<1> QED BY <1>2

LEMMA Highest ==
    ASSUME NEW S \in SUBSET Blocks, S # {}
    PROVE  \E x \in S : \A y \in S : Height[y] <= Height[x]
<1> DEFINE T == {MaxHeight - Height[x] : x \in S}
<1>1. T \in SUBSET Nat /\ T # {}
      BY BlocksAssumption
<1>2. PICK n \in T : \A k \in T : n <= k
      BY <1>1, Smallest
<1>3. PICK x \in S : n = MaxHeight - Height[x]
      BY <1>2
<1>4. ASSUME NEW y \in S PROVE Height[y] <= Height[x]
  <2>1. n <= MaxHeight - Height[y]
        BY <1>2
  <2>2. Height[x] \in Nat /\ Height[y] \in Nat /\ MaxHeight \in Nat
        BY BlocksAssumption
  <2> QED BY <1>3, <2>1, <2>2
<1> QED BY <1>4

-----------------------------------------------------------------------------
(***************************************************************************)
(* Chains in memory.                                                       *)
(***************************************************************************)
LEMMA HeightFacts ==
    /\ \A b \in Blocks : Height[b] \in Nat
    /\ \A b \in Blocks \ {Birthday} :
          Parent[b] \in Blocks /\ Height[b] = Height[Parent[b]] + 1
  BY BlocksAssumption

\* The base is below every other block of the chain,
LEMMA BaseIsLowest ==
    ASSUME NEW c, IsChainRecord(c), IsPath(c)
    PROVE  \A x \in In(c) : x # c.base => Height[c.base] < Height[x]
<1> USE HeightFacts DEF IsPath
<1>0. In(c) \subseteq Blocks
      BY DEF IsChainRecord
<1>1. PICK x \in In(c) : \A y \in In(c) : Height[x] <= Height[y]
      BY <1>0, Lowest
<1>2. x = c.base
  <2>1. SUFFICES ASSUME x # c.base PROVE FALSE
        OBVIOUS
  <2>2. x # Birthday /\ Parent[x] \in In(c)
        BY <2>1
  <2> QED BY <1>0, <1>1, <2>2
<1>3. ASSUME NEW y \in In(c), y # c.base PROVE Height[c.base] < Height[y]
  <2>1. y # Birthday /\ Parent[y] \in In(c)
        BY <1>3
  <2>2. Height[c.base] <= Height[Parent[y]]
        BY <1>1, <1>2, <2>1
  <2> QED BY <1>0, <2>1, <2>2
<1> QED BY <1>3

\* no two of its blocks have the same height,
LEMMA HeightsDiffer ==
    ASSUME NEW c, IsChainRecord(c), IsPath(c)
    PROVE  \A x, y \in In(c) : Height[x] = Height[y] => x = y
<1> USE HeightFacts DEF IsPath
<1>0. In(c) \subseteq Blocks
      BY DEF IsChainRecord
<1> DEFINE Twins == {x \in In(c) : \E y \in In(c) : y # x /\ Height[y] = Height[x]}
<1>1. SUFFICES ASSUME Twins # {} PROVE FALSE
      OBVIOUS
<1>2. PICK x \in Twins : \A y \in Twins : Height[x] <= Height[y]
      BY <1>0, <1>1, Lowest
<1>3. PICK y \in In(c) : y # x /\ Height[y] = Height[x]
      BY <1>2
<1>4. x # c.base /\ y # c.base
      BY <1>0, <1>3, BaseIsLowest
<1>5. /\ x # Birthday /\ Parent[x] \in In(c) /\ c.next[Parent[x]] = x
      /\ y # Birthday /\ Parent[y] \in In(c) /\ c.next[Parent[y]] = y
      BY <1>3, <1>4
<1>6. Height[Parent[x]] = Height[Parent[y]] /\ Height[Parent[x]] < Height[x]
      BY <1>0, <1>3, <1>5
<1>7. Parent[x] # Parent[y]
      BY <1>3, <1>5
<1>8. Parent[x] \in Twins
      BY <1>5, <1>6, <1>7
<1>9. Height[x] <= Height[Parent[x]]
      BY <1>2, <1>8
<1>10. Height[x] \in Nat /\ Height[Parent[x]] \in Nat
      BY <1>0, <1>5
<1> QED BY <1>6, <1>9, <1>10

\* and the tip is above every other.
LEMMA TipIsHighest ==
    ASSUME NEW c, IsChainRecord(c), IsPath(c)
    PROVE  \A x \in In(c) : Height[x] <= Height[c.tip]
<1> USE HeightFacts DEF IsPath
<1>0. In(c) \subseteq Blocks /\ None \notin Blocks
      BY BlocksAssumption DEF IsChainRecord
<1> DEFINE Above == {x \in In(c) : Height[x] > Height[c.tip]}
<1>1. SUFFICES ASSUME Above # {} PROVE FALSE
      BY <1>0
<1>2. PICK x \in Above : \A y \in Above : Height[x] <= Height[y]
      BY <1>0, <1>1, Lowest
<1>3. x # c.base
      BY <1>0, <1>2, BaseIsLowest
<1>4. x # Birthday /\ Parent[x] \in In(c) /\ c.next[Parent[x]] = x
      BY <1>3
<1>5. Parent[x] \notin Above
      BY <1>0, <1>2, <1>4
<1>6. Height[Parent[x]] = Height[c.tip]
      BY <1>0, <1>4, <1>5
<1>7. Parent[x] = c.tip
      BY <1>4, <1>6, HeightsDiffer
<1> QED BY <1>0, <1>4, <1>7

\* The chains of memchain.rs's constructors and methods are paths: new,
LEMMA NewIsPath ==
    ASSUME NEW b \in Blocks
    PROVE  /\ IsChainRecord(New(b)) /\ IsPath(New(b)) /\ In(New(b)) = {b}
           /\ New(b).base = b /\ New(b).tip = b
  BY DEF IsChainRecord, IsPath, New, In

\* prepend,
LEMMA PrependIsPath ==
    ASSUME NEW c, IsChainRecord(c), IsPath(c), c.base # Birthday
    PROVE  LET d == Prepend(c, Parent[c.base])
           IN  /\ IsChainRecord(d) /\ IsPath(d) /\ d.base = Parent[c.base]
               /\ In(d) = In(c) \cup {Parent[c.base]}
<1> DEFINE b == Parent[c.base]
           d == Prepend(c, b)
<1>0. c.base \in Blocks /\ c.tip \in Blocks /\ In(c) \subseteq Blocks /\ b \in Blocks
      BY HeightFacts DEF IsChainRecord
<1>1. b \notin In(c)
  <2>1. Height[b] < Height[c.base]
        BY <1>0, HeightFacts
  <2> QED BY <1>0, <2>1, BaseIsLowest, HeightFacts
<1>2. /\ d.tip = c.tip /\ d.base = b /\ In(d) = In(c) \cup {b}
      /\ d.next[b] = c.base /\ \A x \in In(c) : d.next[x] = c.next[x]
      BY <1>1 DEF Prepend, In
<1>3. IsChainRecord(d)
      BY <1>0 DEF IsChainRecord, Prepend, In
<1>4. IsPath(d)
  <2>1. d.tip \in In(d) /\ d.next[d.tip] = None /\ d.base \in In(d)
        BY <1>2 DEF IsPath
  <2>2. \A x \in In(d) \ {d.tip} : d.next[x] \in In(d) \ {d.base} /\ Parent[d.next[x]] = x
        BY <1>1, <1>2 DEF IsPath
  <2>3. \A x \in In(d) \ {d.base} :
            x # Birthday /\ Parent[x] \in In(d) /\ d.next[Parent[x]] = x
        BY <1>1, <1>2 DEF IsPath
  <2> QED BY <2>1, <2>2, <2>3 DEF IsPath
<1> QED BY <1>2, <1>3, <1>4

\* retip: what it removes are the blocks above the other chain's base,
LEMMA AfterIsAbove ==
    ASSUME NEW c, IsChainRecord(c), IsPath(c), NEW b \in In(c)
    PROVE  After(c, b) = {x \in In(c) : Height[x] > Height[b]}
<1> USE HeightFacts DEF IsPath
<1>0. In(c) \subseteq Blocks /\ None \notin Blocks
      BY BlocksAssumption DEF IsChainRecord
<1> DEFINE Above == {x \in In(c) : Height[x] > Height[b]}
           Closed(S) == \A x \in S \cup {b} : c.next[x] \in S \cup {None}
<1>1. Closed(Above)
  <2> SUFFICES ASSUME NEW x \in Above \cup {b}, c.next[x] # None
               PROVE  c.next[x] \in Above
      OBVIOUS
  <2>1. x \in In(c) /\ x # c.tip
        OBVIOUS
  <2>2. c.next[x] \in In(c) \ {c.base} /\ Parent[c.next[x]] = x
        BY <2>1
  <2>3. c.next[x] # Birthday
        BY <2>2
  <2>4. Height[c.next[x]] = Height[x] + 1
        BY <1>0, <2>2, <2>3
  <2>5. Height[x] >= Height[b] /\ Height[x] \in Nat /\ Height[b] \in Nat
        BY <1>0
  <2> QED BY <2>2, <2>4, <2>5
<1>2. ASSUME NEW S \in SUBSET In(c), Closed(S) PROVE Above \subseteq S
  <2>1. SUFFICES ASSUME Above \ S # {} PROVE FALSE
        OBVIOUS
  <2>2. PICK x \in Above \ S : \A y \in Above \ S : Height[x] <= Height[y]
        BY <1>0, <2>1, Lowest
  <2>3. x # c.base
        BY <1>0, <2>2, BaseIsLowest
  <2>4. x # Birthday /\ Parent[x] \in In(c) /\ c.next[Parent[x]] = x /\ x # None
        BY <1>0, <2>3
  <2>5. Height[Parent[x]] < Height[x] /\ Height[Parent[x]] >= Height[b]
        BY <1>0, <2>2, <2>4
  <2>6. Parent[x] \notin Above \ S
        BY <1>0, <2>2, <2>4, <2>5
  <2>7. CASE Height[Parent[x]] = Height[b]
    <3>1. Parent[x] = b
          BY <2>4, <2>7, HeightsDiffer
    <3> QED BY <1>2, <2>2, <2>4, <3>1
  <2>8. CASE Height[Parent[x]] # Height[b]
    <3>1. Parent[x] \in Above
          BY <1>0, <2>4, <2>5, <2>8
    <3>2. Parent[x] \in S
          BY <2>6, <3>1
    <3> QED BY <1>2, <2>2, <2>4, <3>2
  <2> QED BY <2>7, <2>8
<1>3. Above \in SUBSET In(c)
      OBVIOUS
<1>4. After(c, b) = {x \in In(c) : \A S \in SUBSET In(c) : Closed(S) => x \in S}
      BY DEF After
<1> HIDE DEF Above, Closed
<1>5. After(c, b) = Above
      BY <1>1, <1>2, <1>3, <1>4
<1> QED BY <1>5 DEF Above

\* so that the result is again a path,
LEMMA RetipIsPath ==
    ASSUME NEW c, IsChainRecord(c), IsPath(c), NEW o, IsChainRecord(o), IsPath(o),
           In(c) \cap In(o) = {o.base}
    PROVE  LET d == Retip(c, o)
           IN  /\ IsChainRecord(d) /\ IsPath(d) /\ d.base = c.base
               /\ In(d) = {x \in In(c) : Height[x] <= Height[o.base]} \cup In(o)
<1> DEFINE d == Retip(c, o)
           K == {x \in In(c) : Height[x] <= Height[o.base]}
<1>0. In(c) \subseteq Blocks /\ In(o) \subseteq Blocks /\ c.base \in Blocks /\ o.base \in Blocks
      BY DEF IsChainRecord
<1>1. o.base \in In(c) /\ o.base \in In(o)
      OBVIOUS
<1>2. In(c) \ After(c, o.base) = K
      BY <1>0, <1>1, AfterIsAbove, HeightFacts
<1>3. /\ d.tip = o.tip /\ d.base = c.base /\ In(d) = K \cup In(o)
      /\ \A x \in In(o) : d.next[x] = o.next[x]
      /\ \A x \in K \ In(o) : d.next[x] = c.next[x]
      BY <1>2 DEF Retip, In
<1>4. IsChainRecord(d)
  <2>1. d.next \in [In(d) -> Blocks \cup {None}]
    <3>1. d.next = [x \in K \cup In(o) |-> IF x \in In(o) THEN o.next[x] ELSE c.next[x]]
          BY <1>2 DEF Retip
    <3> QED BY <1>3, <3>1 DEF IsChainRecord
  <2>2. d = [tip |-> d.tip, base |-> d.base, next |-> d.next]
        BY DEF Retip
  <2>3. d.tip \in Blocks /\ d.base \in Blocks /\ In(d) \subseteq Blocks
        BY <1>0, <1>3 DEF IsChainRecord
  <2> HIDE DEF d
  <2> QED BY <2>1, <2>2, <2>3 DEF IsChainRecord
<1>5. \A x \in K \ In(o) : /\ x \in In(c) /\ Height[x] < Height[o.base] /\ x # c.tip
                           /\ c.next[x] \in K
  <2> SUFFICES ASSUME NEW x \in K \ In(o)
               PROVE  /\ x \in In(c) /\ Height[x] < Height[o.base] /\ x # c.tip
                      /\ c.next[x] \in K
      OBVIOUS
  <2>1. x \in In(c) /\ x # o.base /\ Height[x] # Height[o.base]
        BY <1>1, HeightsDiffer
  <2>2. Height[x] < Height[o.base]
        BY <1>0, <2>1, HeightFacts
  <2>3. x # c.tip
        BY <1>0, <1>1, <2>2, TipIsHighest, HeightFacts
  <2>4. c.next[x] \in In(c) /\ c.next[x] # Birthday /\ Parent[c.next[x]] = x
        BY <2>1, <2>3 DEF IsPath
  <2>5. Height[c.next[x]] <= Height[o.base]
        BY <1>0, <2>1, <2>2, <2>4, HeightFacts
  <2> QED BY <2>1, <2>2, <2>3, <2>4, <2>5
<1>6. c.base \in K
      BY <1>0, <1>1, BaseIsLowest, HeightFacts DEF IsPath
<1>7. \A x \in K \ {c.base} : Parent[x] \in K \ In(o) /\ x # Birthday /\ c.next[Parent[x]] = x
  <2> SUFFICES ASSUME NEW x \in K, x # c.base
               PROVE  Parent[x] \in K \ In(o) /\ x # Birthday /\ c.next[Parent[x]] = x
      OBVIOUS
  <2>1. x # Birthday /\ Parent[x] \in In(c) /\ c.next[Parent[x]] = x
        BY DEF IsPath
  <2>2. Height[Parent[x]] < Height[o.base]
        BY <1>0, <2>1, HeightFacts
  <2>3. Parent[x] # o.base
        BY <1>0, <2>2, HeightFacts
  <2>4. Parent[x] \notin In(o)
        BY <2>1, <2>3
  <2> QED BY <1>0, <2>1, <2>2, <2>4, HeightFacts
<1>8. \A x \in In(o) \ {o.base} : x # c.base /\ x # Birthday /\ Parent[x] \in In(o)
                                  /\ o.next[Parent[x]] = x
      BY DEF IsPath
<1> HIDE DEF d, K
<1>9. d.tip \in In(d) /\ d.next[d.tip] = None /\ d.base \in In(d)
      BY <1>3, <1>6 DEF IsPath
<1>10. ASSUME NEW x \in In(d) \ {d.tip}
       PROVE  d.next[x] \in In(d) \ {d.base} /\ Parent[d.next[x]] = x
  <2>1. CASE x \in In(o)
    <3>1. d.next[x] \in In(o) \ {o.base} /\ Parent[d.next[x]] = x
          BY <1>3, <1>10, <2>1 DEF IsPath
    <3> QED BY <1>3, <1>8, <3>1
  <2>2. CASE x \in K \ In(o)
    <3>1. d.next[x] = c.next[x] /\ c.next[x] \in K /\ x \in In(c) \ {c.tip}
          BY <1>3, <1>5, <2>2
    <3> QED BY <1>3, <3>1 DEF IsPath
  <2> QED BY <1>3, <1>10, <2>1, <2>2
<1>11. ASSUME NEW x \in In(d) \ {d.base}
       PROVE  x # Birthday /\ Parent[x] \in In(d) /\ d.next[Parent[x]] = x
  <2>1. CASE x \in K
        BY <1>3, <1>7, <1>11, <2>1
  <2>2. CASE x \in In(o) \ {o.base}
        BY <1>3, <1>8, <2>2
  <2>3. o.base \in K
        BY <1>0, <1>1, HeightFacts DEF K
  <2> QED BY <1>3, <1>11, <2>1, <2>2, <2>3
<1>12. IsPath(d)
      BY <1>9, <1>10, <1>11 DEF IsPath
<1> QED BY <1>3, <1>4, <1>12 DEF d, K

\* and try_from, for headers that are a chain and reach down to Birthday.
LEMMA FromHeadersIsPath ==
    ASSUME NEW S \in SUBSET Blocks, IsChain(S), Birthday \in S
    PROVE  LET d == FromHeaders(S)
           IN  IsChainRecord(d) /\ IsPath(d) /\ d.base = Birthday /\ In(d) = S
<1> DEFINE d == FromHeaders(S)
<1> USE HeightFacts
<1>0. None \notin Blocks
      BY BlocksAssumption
<1>1. \A a, b \in S : Height[a] = Height[b] => a = b
      BY DEF IsChain
<1>2. \A b \in S \ {Birthday} : Parent[b] \in S /\ Height[b] = Height[Parent[b]] + 1
      BY DEF IsChain
<1>3. \A b \in S : b # Birthday => Height[Birthday] < Height[b]
  <2>1. PICK x \in S : \A y \in S : Height[x] <= Height[y]
        BY Lowest
  <2>2. x = Birthday
        BY <1>2, <2>1
  <2> QED BY <1>1, <2>1, <2>2
<1>4. d.base = Birthday
  <2>1. d.base = CHOOSE b \in S : \A c \in S : Height[b] <= Height[c]
        BY DEF FromHeaders
  <2>2. \A c \in S : Height[Birthday] <= Height[c]
        BY <1>3
  <2>3. d.base \in S /\ \A c \in S : Height[d.base] <= Height[c]
        BY <2>1, <2>2
  <2> HIDE DEF d
  <2> QED BY <1>3, <2>3
<1>5. d.tip \in S /\ \A c \in S : Height[c] <= Height[d.tip]
  <2>1. d.tip = CHOOSE b \in S : \A c \in S : Height[c] <= Height[b]
        BY DEF FromHeaders
  <2>2. \E b \in S : \A c \in S : Height[c] <= Height[b]
        BY Highest
  <2> HIDE DEF d
  <2> QED BY <2>1, <2>2
<1>6. /\ In(d) = S /\ d.next[d.tip] = None
      /\ \A b \in S \ {d.tip} : d.next[b] = CHOOSE c \in S : Height[c] = Height[b] + 1
      BY <1>5 DEF FromHeaders, In
<1>7. ASSUME NEW b \in S \ {d.tip}
      PROVE  \E c \in S \ {Birthday} : Height[c] = Height[b] + 1 /\ Parent[c] = b
  <2> DEFINE Above == {x \in S : Height[x] > Height[b]}
  <2> HIDE DEF d
  <2>1. d.tip \in Above
        BY <1>1, <1>5, <1>7
  <2>2. PICK x \in Above : \A y \in Above : Height[x] <= Height[y]
        BY <2>1, Lowest
  <2>3. x # Birthday
        BY <1>3, <2>2
  <2>4. Parent[x] \in S /\ Height[x] = Height[Parent[x]] + 1
        BY <1>2, <2>2, <2>3
  <2>5. Parent[x] \notin Above
        BY <2>2, <2>4
  <2>6. Height[Parent[x]] = Height[b]
        BY <2>2, <2>4, <2>5
  <2>7. Parent[x] = b
        BY <1>1, <2>4, <2>6
  <2> QED BY <2>2, <2>3, <2>4, <2>7
<1>8. ASSUME NEW b \in S \ {d.tip}
      PROVE  d.next[b] \in S \ {Birthday} /\ Parent[d.next[b]] = b
  <2>1. PICK c \in S \ {Birthday} : Height[c] = Height[b] + 1 /\ Parent[c] = b
        BY <1>7, <1>8
  <2> HIDE DEF d
  <2>2. d.next[b] = c
        BY <1>1, <1>6, <1>8, <2>1
  <2> QED BY <2>1, <2>2
<1>9. IsChainRecord(d)
  <2>1. d = [tip |-> d.tip, base |-> d.base, next |-> d.next] /\ d.next = [b \in S |-> d.next[b]]
        BY DEF FromHeaders
  <2> HIDE DEF d
  <2>2. d.next \in [In(d) -> Blocks \cup {None}]
        BY <1>5, <1>6, <1>8, <2>1
  <2> QED BY <1>4, <1>5, <1>6, <2>1, <2>2 DEF IsChainRecord
<1> HIDE DEF d
<1>10. ASSUME NEW x \in S \ {Birthday}
       PROVE  Parent[x] \in S /\ d.next[Parent[x]] = x
  <2>1. Parent[x] \in S /\ Height[x] = Height[Parent[x]] + 1
        BY <1>2, <1>10
  <2>2. Parent[x] # d.tip
        BY <1>5, <1>10, <2>1
  <2>3. d.next[Parent[x]] \in S \ {Birthday} /\ Parent[d.next[Parent[x]]] = Parent[x]
        BY <1>8, <2>1, <2>2
  <2>4. Height[d.next[Parent[x]]] = Height[x]
        BY <1>2, <2>1, <2>3
  <2> QED BY <1>1, <1>10, <2>1, <2>3, <2>4
<1>11. IsPath(d)
      BY <1>4, <1>5, <1>6, <1>8, <1>10 DEF IsPath
<1> QED BY <1>4, <1>6, <1>9, <1>11 DEF d

-----------------------------------------------------------------------------
(***************************************************************************)
(* The invariant behind MemoryIsPath: the loops of do_sync stay inside the *)
(* chains they iterate over, and never undo Birthday.                      *)
(***************************************************************************)
MemoryInv ==
    /\ TypeOK
    /\ MemoryIsPath
    /\ running # "up" => \A t \in Tasks : phase[t] = "idle"
    /\ running = "up" \/ blocks # {} => Birthday \in blocks
    /\ \A t \in Tasks : phase[t] = "undo" =>
          cur[t] \in In(mem[t]) \ In(new[t]) /\ Height[cur[t]] > Height[new[t].base]
    /\ \A t \in Tasks : phase[t] = "process" => cur[t] \in In(new[t])

\* The tables: add_block and undo_block keep their part of the types.
LEMMA AddBlockTypes ==
    ASSUME TypeOK, NEW b \in Blocks, AddBlock(b)
    PROVE  /\ blocks' \in SUBSET Blocks /\ txOutputs' \in SUBSET Txs
           /\ txInputs' \in SUBSET (Txs \X Txs) /\ txBlocks' \in SUBSET (Txs \X blocks')
<1>1. TxsIn[b] \in SUBSET Txs
      BY TxAssumption
<1> QED BY <1>1 DEF TypeOK, AddBlock

LEMMA UndoBlockTypes ==
    ASSUME TypeOK, NEW b \in Blocks, UndoBlock(b)
    PROVE  /\ blocks' \in SUBSET Blocks /\ txOutputs' \in SUBSET Txs
           /\ txInputs' \in SUBSET (Txs \X Txs) /\ txBlocks' \in SUBSET (Txs \X blocks')
<1>1. \A x \in txBlocks' : x \in Txs \X blocks /\ x[2] # b
      BY DEF TypeOK, UndoBlock
<1> QED BY <1>1 DEF TypeOK, UndoBlock

\* Whether the walk back is at its end or not, EnterLoop leaves the task in a
\* loop of do_sync with what the loop needs.
LEMMA EnterLoopKeeps ==
    ASSUME MemoryInv, running = "up", NEW t \in Tasks, NEW c,
           IsChainRecord(c), IsPath(c), In(mem[t]) \cap In(c) \subseteq {c.base},
           new' = [new EXCEPT ![t] = c], EnterLoop(t, c),
           UNCHANGED <<best, watch, db, running, stops, mem>>
    PROVE  MemoryInv'
<1> DEFINE m == mem[t]
<1>0. None \notin Blocks /\ IsChainRecord(m) /\ IsPath(m) /\ m.base = Birthday
      BY BlocksAssumption DEF MemoryInv, TypeOK, MemoryIsPath
<1>1. /\ phase \in [Tasks -> {"idle", "walk", "undo", "process"}]
      /\ cur \in [Tasks -> Blocks \cup {None}] /\ DOMAIN new = Tasks
      BY DEF MemoryInv, TypeOK
<1>2. /\ new'[t] = c
      /\ \A s \in Tasks \ {t} :
            new'[s] = new[s] /\ phase'[s] = phase[s] /\ cur'[s] = cur[s]
      BY <1>1 DEF EnterLoop
<1>3. m.tip \in Blocks /\ c.base \in Blocks /\ m.tip \in In(m) /\ c.base \in In(c)
      BY <1>0 DEF IsChainRecord, IsPath
<1>4. /\ phase' \in [Tasks -> {"idle", "walk", "undo", "process"}]
      /\ cur' \in [Tasks -> Blocks \cup {None}]
      BY <1>1, <1>3 DEF EnterLoop
<1>5. ASSUME cur'[t] = None <=> phase'[t] \in {"idle", "walk"},
             phase'[t] # "idle" =>
                In(m) \cap In(c) = IF phase'[t] = "walk" THEN {} ELSE {c.base},
             phase'[t] = "undo" =>
                cur'[t] \in In(m) \ In(c) /\ Height[cur'[t]] > Height[c.base],
             phase'[t] = "process" => cur'[t] \in In(c)
      PROVE  MemoryInv'
  <2>1. TypeOK'
        BY <1>2, <1>4, <1>5 DEF MemoryInv, TypeOK, db
  <2>2. MemoryIsPath'
        BY <1>2, <1>5 DEF MemoryInv, MemoryIsPath
  <2>3. /\ running' # "up" => \A s \in Tasks : phase'[s] = "idle"
        /\ running' = "up" \/ blocks' # {} => Birthday \in blocks'
        BY DEF MemoryInv, db
  <2>4. \A s \in Tasks : phase'[s] = "undo" =>
           /\ cur'[s] \in In(mem'[s]) \ In(new'[s])
           /\ Height[cur'[s]] > Height[new'[s].base]
        BY <1>2, <1>5 DEF MemoryInv
  <2>5. \A s \in Tasks : phase'[s] = "process" => cur'[s] \in In(new'[s])
        BY <1>2, <1>5 DEF MemoryInv
  <2> QED BY <2>1, <2>2, <2>3, <2>4, <2>5 DEF MemoryInv
<1>6. CASE c.base \notin In(m)
  <2>1. phase'[t] = "walk" /\ cur'[t] = None
        BY <1>1, <1>6 DEF EnterLoop
  <2> QED BY <1>5, <1>6, <2>1
<1>7. CASE c.base \in In(m) /\ c.base # m.tip
  <2>1. phase'[t] = "undo" /\ cur'[t] = m.tip
        BY <1>1, <1>7 DEF EnterLoop
  <2>2. m.tip \notin In(c)
        BY <1>3, <1>7
  <2>3. Height[c.base] <= Height[m.tip] /\ Height[c.base] # Height[m.tip]
        BY <1>0, <1>3, <1>7, TipIsHighest, HeightsDiffer
  <2>4. Height[m.tip] > Height[c.base]
        BY <1>3, <2>3, HeightFacts
  <2> QED BY <1>0, <1>3, <1>5, <1>7, <2>1, <2>2, <2>4
<1>8. CASE c.base = m.tip
  <2>1. phase'[t] = "process" /\ cur'[t] = c.base
        BY <1>1, <1>3, <1>8 DEF EnterLoop
  <2> QED BY <1>0, <1>3, <1>5, <1>8, <2>1
<1> QED BY <1>3, <1>6, <1>7, <1>8

LEMMA BeginSyncKeeps ==
    ASSUME MemoryInv, NEW t \in Tasks, BeginSync(t) PROVE MemoryInv'
<1>1. best \in Blocks
      BY DEF MemoryInv, TypeOK
<1>2. IsChainRecord(New(best)) /\ IsPath(New(best)) /\ In(New(best)) = {New(best).base}
      BY <1>1, NewIsPath
<1> QED BY <1>2, EnterLoopKeeps DEF BeginSync

\* The walk back does not get below Birthday, which every chain has.
LEMMA WalkBackKeeps ==
    ASSUME MemoryInv, NEW t \in Tasks, WalkBack(t) PROVE MemoryInv'
<1> DEFINE n == new[t]
           d == Prepend(n, Parent[n.base])
<1>1. /\ IsChainRecord(n) /\ IsPath(n) /\ In(mem[t]) \cap In(n) = {}
      /\ mem[t].base = Birthday /\ Birthday \in In(mem[t])
      BY DEF MemoryInv, TypeOK, MemoryIsPath, WalkBack, IsPath
<1>2. n.base # Birthday
      BY <1>1 DEF IsPath
<1>3. /\ IsChainRecord(d) /\ IsPath(d) /\ d.base = Parent[n.base]
      /\ In(d) = In(n) \cup {Parent[n.base]}
      BY <1>1, <1>2, PrependIsPath
<1>4. In(mem[t]) \cap In(d) \subseteq {d.base}
      BY <1>1, <1>3
<1>5. new' = [new EXCEPT ![t] = d] /\ EnterLoop(t, d) /\ running = "up"
      /\ UNCHANGED <<best, watch, db, running, stops, mem>>
      BY DEF WalkBack
<1> HIDE DEF d
<1> QED BY <1>3, <1>4, <1>5, EnterLoopKeeps

\* The loop over the old chain stops at the new chain's base.
LEMMA UndoNextKeeps ==
    ASSUME MemoryInv, NEW t \in Tasks, UndoNext(t) PROVE MemoryInv'
<1> DEFINE m == mem[t]
           n == new[t]
           c == cur[t]
           prev == Backward(m, c)
           more == prev # None /\ prev \notin In(n)
<1>0. None \notin Blocks
      BY BlocksAssumption
<1>1. /\ IsChainRecord(m) /\ IsPath(m) /\ m.base = Birthday
      /\ IsChainRecord(n) /\ IsPath(n) /\ In(m) \cap In(n) = {n.base}
      /\ c \in In(m) \ In(n) /\ Height[c] > Height[n.base]
      BY DEF MemoryInv, TypeOK, MemoryIsPath, UndoNext
<1>2. In(m) \subseteq Blocks /\ n.base \in In(m) /\ n.base \in In(n) /\ n.base \in Blocks
      BY <1>1 DEF IsChainRecord, IsPath
<1>3. c # Birthday
      BY <1>1, <1>2, BaseIsLowest, HeightFacts
<1>4. prev = Parent[c] /\ prev \in In(m) /\ Height[c] = Height[prev] + 1 /\ prev \in Blocks
      BY <1>1, <1>2, <1>3, HeightFacts DEF Backward, IsPath
<1>5. more => Height[prev] > Height[n.base]
  <2>1. more => Height[prev] # Height[n.base]
        BY <1>1, <1>2, <1>4, HeightsDiffer
  <2> QED BY <1>1, <1>2, <1>4, <2>1, HeightFacts
<1>6. /\ phase' = [phase EXCEPT ![t] = IF more THEN @ ELSE "process"]
      /\ cur' = [cur EXCEPT ![t] = IF more THEN prev ELSE n.base]
      /\ UndoBlock(c) /\ UNCHANGED <<best, watch, running, stops, mem, new>>
      /\ phase[t] = "undo" /\ running = "up"
      BY DEF UndoNext
<1> HIDE DEF prev, more
<1>7. TypeOK'
  <2>1. c \in Blocks
        BY <1>1, <1>2
  <2>2. /\ blocks' \in SUBSET Blocks /\ txOutputs' \in SUBSET Txs
        /\ txInputs' \in SUBSET (Txs \X Txs) /\ txBlocks' \in SUBSET (Txs \X blocks')
        BY <1>6, <2>1, UndoBlockTypes DEF MemoryInv
  <2>3. /\ phase' \in [Tasks -> {"idle", "walk", "undo", "process"}]
        /\ cur' \in [Tasks -> Blocks \cup {None}]
        BY <1>2, <1>4, <1>6 DEF MemoryInv, TypeOK
  <2>4. \A s \in Tasks : cur'[s] = None <=> phase'[s] \in {"idle", "walk"}
        BY <1>0, <1>2, <1>4, <1>6 DEF MemoryInv, TypeOK
  <2> QED BY <1>6, <2>2, <2>3, <2>4 DEF MemoryInv, TypeOK
<1>8. MemoryIsPath'
      BY <1>6 DEF MemoryInv, TypeOK, MemoryIsPath
<1>9. Birthday \in blocks'
      BY <1>3, <1>6 DEF MemoryInv, UndoBlock
<1>10. \A s \in Tasks : phase'[s] = "undo" =>
           /\ cur'[s] \in In(mem'[s]) \ In(new'[s])
           /\ Height[cur'[s]] > Height[new'[s].base]
      BY <1>4, <1>5, <1>6 DEF MemoryInv, TypeOK, more
<1>11. \A s \in Tasks : phase'[s] = "process" => cur'[s] \in In(new'[s])
      BY <1>2, <1>6 DEF MemoryInv, TypeOK
<1> QED BY <1>6, <1>7, <1>8, <1>9, <1>10, <1>11 DEF MemoryInv

\* The loop over the new chain ends at its tip; retip then joins the two.
LEMMA ProcessNextKeeps ==
    ASSUME MemoryInv, NEW t \in Tasks, ProcessNext(t) PROVE MemoryInv'
<1> DEFINE m == mem[t]
           n == new[t]
           c == cur[t]
           next == Forward(n, c)
<1>0. None \notin Blocks /\ Birthday \in Blocks
      BY BlocksAssumption
<1>1. /\ IsChainRecord(m) /\ IsPath(m) /\ m.base = Birthday
      /\ IsChainRecord(n) /\ IsPath(n) /\ In(m) \cap In(n) = {n.base}
      /\ c \in In(n) /\ c \in Blocks
      BY DEF MemoryInv, TypeOK, MemoryIsPath, ProcessNext, IsChainRecord
<1>2. next # None => next \in In(n) /\ next \in Blocks
      BY <1>1 DEF Forward, IsPath, IsChainRecord
<1>3. /\ AddBlock(c) /\ cur' = [cur EXCEPT ![t] = next]
      /\ phase[t] = "process" /\ running = "up"
      /\ UNCHANGED <<best, watch, running, stops>>
      BY DEF ProcessNext
<1>4. /\ blocks' \in SUBSET Blocks /\ txOutputs' \in SUBSET Txs
      /\ txInputs' \in SUBSET (Txs \X Txs) /\ txBlocks' \in SUBSET (Txs \X blocks')
      BY <1>1, <1>3, AddBlockTypes DEF MemoryInv
<1>5. Birthday \in blocks'
      BY <1>3 DEF MemoryInv, AddBlock
<1>6. CASE next # None
  <2>1. UNCHANGED <<phase, mem, new>>
        BY <1>6 DEF ProcessNext
  <2> HIDE DEF next
  <2>2. TypeOK'
    <3>1. cur' \in [Tasks -> Blocks \cup {None}]
          BY <1>2, <1>3, <1>6 DEF MemoryInv, TypeOK
    <3>2. \A s \in Tasks : cur'[s] = None <=> phase'[s] \in {"idle", "walk"}
          BY <1>3, <1>6, <2>1 DEF MemoryInv, TypeOK
    <3> QED BY <1>3, <1>4, <2>1, <3>1, <3>2 DEF MemoryInv, TypeOK
  <2>3. MemoryIsPath'
        BY <2>1 DEF MemoryInv, MemoryIsPath
  <2>4. \A s \in Tasks : phase'[s] = "process" => cur'[s] \in In(new'[s])
        BY <1>2, <1>3, <1>6, <2>1 DEF MemoryInv, TypeOK
  <2>5. \A s \in Tasks : phase'[s] = "undo" =>
           /\ cur'[s] \in In(mem'[s]) \ In(new'[s])
           /\ Height[cur'[s]] > Height[new'[s].base]
        BY <1>3, <2>1 DEF MemoryInv, TypeOK
  <2> QED BY <1>3, <1>5, <2>2, <2>3, <2>4, <2>5 DEF MemoryInv
<1>7. CASE next = None
  <2> DEFINE d == IF t = "tip" THEN Retip(m, n) ELSE New(m.base)
  <2>1. /\ phase' = [phase EXCEPT ![t] = "idle"]
        /\ mem' = [mem EXCEPT ![t] = d]
        /\ new' = [new EXCEPT ![t] = New(Birthday)]
        BY <1>7 DEF ProcessNext
  <2>2. IsChainRecord(d) /\ IsPath(d) /\ d.base = Birthday
        BY <1>0, <1>1, RetipIsPath, NewIsPath
  <2>3. IsChainRecord(New(Birthday)) /\ IsPath(New(Birthday))
        BY <1>0, NewIsPath
  <2> HIDE DEF d, next
  <2>4. /\ mem'[t] = d /\ new'[t] = New(Birthday) /\ phase'[t] = "idle" /\ cur'[t] = None
        /\ \A s \in Tasks \ {t} : mem'[s] = mem[s] /\ new'[s] = new[s]
                                  /\ phase'[s] = phase[s] /\ cur'[s] = cur[s]
        /\ DOMAIN mem' = Tasks /\ DOMAIN new' = Tasks
        BY <1>3, <1>7, <2>1 DEF MemoryInv, TypeOK
  <2>5. TypeOK'
    <3>1. /\ phase' \in [Tasks -> {"idle", "walk", "undo", "process"}]
          /\ cur' \in [Tasks -> Blocks \cup {None}]
          BY <1>3, <1>7, <2>1 DEF MemoryInv, TypeOK
    <3> QED BY <1>3, <1>4, <2>2, <2>3, <2>4, <3>1 DEF MemoryInv, TypeOK
  <2>6. MemoryIsPath'
        BY <2>2, <2>3, <2>4 DEF MemoryInv, MemoryIsPath
  <2>7. \A s \in Tasks : phase'[s] = "process" => cur'[s] \in In(new'[s])
        BY <2>4 DEF MemoryInv
  <2>8. \A s \in Tasks : phase'[s] = "undo" =>
           /\ cur'[s] \in In(mem'[s]) \ In(new'[s])
           /\ Height[cur'[s]] > Height[new'[s].base]
        BY <2>4 DEF MemoryInv
  <2> QED BY <1>3, <1>5, <2>5, <2>6, <2>7, <2>8 DEF MemoryInv
<1> QED BY <1>6, <1>7

\* start and stop.
LEMMA StartStopKeeps ==
    ASSUME MemoryInv, StartEmpty \/ Start \/ StartFails \/ Stop PROVE MemoryInv'
<1>0. Birthday \in Blocks /\ None \notin Blocks /\ MaxStops \in Nat
      BY BlocksAssumption, StopsAssumption
<1>1. IsChainRecord(New(Birthday)) /\ IsPath(New(Birthday)) /\ New(Birthday).base = Birthday
      BY <1>0, NewIsPath
<1>2. CASE StartEmpty
  <2>1. TypeOK'
        BY <1>0, <1>1, <1>2 DEF MemoryInv, TypeOK, StartEmpty
  <2> QED BY <1>1, <1>2, <2>1 DEF MemoryInv, MemoryIsPath, TypeOK, StartEmpty
<1>3. CASE Start
  <2>1. Birthday \in blocks /\ blocks \in SUBSET Blocks
        BY <1>3 DEF MemoryInv, TypeOK, Start, IsChain
  <2> DEFINE d == FromHeaders(blocks)
  <2>2. IsChainRecord(d) /\ IsPath(d) /\ d.base = Birthday
        BY <1>3, <2>1, FromHeadersIsPath DEF Start
  <2>3. mem' = [t \in Tasks |-> IF t = "tip" THEN d ELSE New(d.base)]
        BY <1>3 DEF Start
  <2> HIDE DEF d
  <2>4. \A t \in Tasks : IsChainRecord(mem'[t]) /\ IsPath(mem'[t]) /\ mem'[t].base = Birthday
        BY <1>1, <2>2, <2>3
  <2>5. TypeOK'
        BY <1>3, <2>3, <2>4 DEF MemoryInv, TypeOK, Start, db
  <2>6. MemoryIsPath'
        BY <1>3, <2>4 DEF MemoryInv, MemoryIsPath, Start
  <2> QED BY <1>3, <2>1, <2>5, <2>6 DEF MemoryInv, Start, db
<1>4. CASE StartFails
      BY <1>4 DEF MemoryInv, TypeOK, MemoryIsPath, StartFails, db, task
<1>5. CASE Stop
  <2>1. /\ \A t \in Tasks : mem'[t] = New(Birthday) /\ new'[t] = New(Birthday)
                            /\ phase'[t] = "idle" /\ cur'[t] = None
        /\ DOMAIN mem' = Tasks /\ DOMAIN new' = Tasks
        BY <1>5 DEF Stop
  <2>2. TypeOK'
    <3>1. stops' \in 0..MaxStops
          BY <1>0, <1>5 DEF MemoryInv, TypeOK, Stop
    <3>2. /\ phase' \in [Tasks -> {"idle", "walk", "undo", "process"}]
          /\ cur' \in [Tasks -> Blocks \cup {None}]
          BY <1>5 DEF Stop
    <3> QED BY <1>1, <1>5, <2>1, <3>1, <3>2 DEF MemoryInv, TypeOK, Stop, db
  <2>3. MemoryIsPath'
        BY <1>1, <2>1 DEF MemoryIsPath
  <2> QED BY <1>5, <2>1, <2>2, <2>3 DEF MemoryInv, Stop, db
<1> QED BY <1>2, <1>3, <1>4, <1>5

THEOREM MemoryInvariance == Spec => []MemoryInv
<1>1. Init => MemoryInv
  <2> SUFFICES ASSUME Init PROVE MemoryInv
      OBVIOUS
  <2>1. Birthday \in Blocks /\ MaxStops \in Nat
        BY BlocksAssumption, StopsAssumption
  <2>2. IsChainRecord(New(Birthday)) /\ IsPath(New(Birthday)) /\ New(Birthday).base = Birthday
        BY <2>1, NewIsPath
  <2>3. \A t \in Tasks : mem[t] = New(Birthday) /\ new[t] = New(Birthday)
                         /\ phase[t] = "idle" /\ cur[t] = None
        BY DEF Init
  <2>4. TypeOK
        BY <2>1, <2>2, <2>3 DEF Init, TypeOK
  <2>5. MemoryIsPath
        BY <2>2, <2>3 DEF MemoryIsPath
  <2> QED BY <2>3, <2>4, <2>5 DEF Init, MemoryInv
<1>2. MemoryInv /\ [Next]_vars => MemoryInv'
  <2> SUFFICES ASSUME MemoryInv, [Next]_vars PROVE MemoryInv'
      OBVIOUS
  <2>1. CASE UNCHANGED vars
        BY <2>1 DEF vars, db, task, MemoryInv, TypeOK, MemoryIsPath
  <2>2. ASSUME NEW t \in Txs, Watch(t) PROVE MemoryInv'
        BY <2>2 DEF Watch, db, task, MemoryInv, TypeOK, MemoryIsPath
  <2>3. ASSUME NEW b \in Blocks, NewBest(b) PROVE MemoryInv'
        BY <2>3 DEF NewBest, db, task, MemoryInv, TypeOK, MemoryIsPath
  <2> QED BY <2>1, <2>2, <2>3, StartStopKeeps, BeginSyncKeeps, WalkBackKeeps,
             UndoNextKeeps, ProcessNextKeeps DEF Next, Sync
<1> QED BY <1>1, <1>2, PTL DEF Spec

\* TypeOK, for any interleaving of the two tasks.
THEOREM ChainTypeCorrect == Spec => []TypeOK
<1>1. MemoryInv => TypeOK
      BY DEF MemoryInv
<1> QED BY <1>1, MemoryInvariance, PTL

\* The chains in memory stay paths through any reorgs, stops and interleavings
\* of the two tasks.
THEOREM MemoryStaysPath == Spec => []MemoryIsPath
<1>1. MemoryInv => MemoryIsPath
      BY DEF MemoryInv
<1> QED BY <1>1, MemoryInvariance, PTL

-----------------------------------------------------------------------------
(***************************************************************************)
(* The blocks the tip sync takes for stored, step by step.                 *)
(***************************************************************************)
LEMMA TipIsTask == "tip" \in Tasks
  BY DEF Tasks

\* A chain cut at some height is a chain,
LEMMA CutIsChain ==
    ASSUME NEW m, IsChainRecord(m), IsPath(m), m.base = Birthday,
           NEW h \in Nat, h >= Height[Birthday]
    PROVE  IsChain(UpTo(m, h)) /\ Birthday \in UpTo(m, h)
<1>0. In(m) \subseteq Blocks
      BY DEF IsChainRecord
<1>1. Birthday \in UpTo(m, h)
      BY DEF IsPath, UpTo
<1>2. \A a, b \in UpTo(m, h) : Height[a] = Height[b] => a = b
      BY HeightsDiffer DEF UpTo
<1>3. \A b \in UpTo(m, h) \ {Birthday} : Parent[b] \in UpTo(m, h)
  <2> SUFFICES ASSUME NEW b \in UpTo(m, h), b # Birthday PROVE Parent[b] \in UpTo(m, h)
      OBVIOUS
  <2>1. b \in In(m) /\ Parent[b] \in In(m) /\ Height[b] <= h
        BY DEF IsPath, UpTo
  <2>2. Height[b] = Height[Parent[b]] + 1 /\ Height[Parent[b]] \in Nat
        BY <1>0, <2>1, HeightFacts
  <2> QED BY <2>1, <2>2 DEF UpTo
<1> QED BY <1>1, <1>2, <1>3 DEF IsChain

\* and so is one cut at the base of another and continued by a part of that.
LEMMA JoinIsChain ==
    ASSUME NEW m, IsChainRecord(m), IsPath(m), m.base = Birthday,
           NEW n, IsChainRecord(n), IsPath(n), In(m) \cap In(n) = {n.base},
           NEW h \in Nat
    PROVE  LET S == UpTo(m, Height[n.base]) \cup {x \in In(n) : Height[x] < h}
           IN  IsChain(S) /\ Birthday \in S
<1> DEFINE A == UpTo(m, Height[n.base])
           B == {x \in In(n) : Height[x] < h}
<1>0. In(m) \subseteq Blocks /\ In(n) \subseteq Blocks /\ n.base \in In(m) /\ n.base \in In(n)
      BY DEF IsChainRecord
<1>1. Height[n.base] \in Nat /\ Height[Birthday] \in Nat /\ Height[n.base] >= Height[Birthday]
      BY <1>0, BaseIsLowest, HeightFacts, BlocksAssumption
<1>2. IsChain(A) /\ Birthday \in A
      BY <1>1, CutIsChain
<1>3. n.base \in A
      BY <1>0, <1>1 DEF UpTo
<1>4. ASSUME NEW a \in A, NEW b \in B, Height[a] = Height[b] PROVE a = b
  <2>1. a \in In(m) /\ Height[a] <= Height[n.base] /\ b \in In(n)
        BY DEF UpTo
  <2>2. b # n.base => Height[n.base] < Height[b]
        BY <2>1, BaseIsLowest
  <2>3. b = n.base
        BY <1>0, <1>4, <2>1, <2>2, HeightFacts
  <2> QED BY <1>0, <1>4, <2>1, <2>3, HeightsDiffer
<1>5. \A a, b \in B : Height[a] = Height[b] => a = b
      BY HeightsDiffer
<1>6. \A a, b \in A : Height[a] = Height[b] => a = b
      BY <1>2 DEF IsChain
<1>7. \A b \in A \ {Birthday} : Parent[b] \in A
      BY <1>2 DEF IsChain
<1>8. \A b \in B \ {n.base} : b # Birthday /\ Parent[b] \in B
  <2> SUFFICES ASSUME NEW b \in B, b # n.base PROVE b # Birthday /\ Parent[b] \in B
      OBVIOUS
  <2>1. b # Birthday /\ Parent[b] \in In(n)
        BY DEF IsPath
  <2>2. Height[b] = Height[Parent[b]] + 1 /\ Height[Parent[b]] \in Nat /\ Height[b] < h
        BY <1>0, <2>1, HeightFacts
  <2> QED BY <2>1, <2>2
<1> HIDE DEF A, B
<1>9. \A a, b \in A \cup B : Height[a] = Height[b] => a = b
      BY <1>4, <1>5, <1>6
<1>10. \A b \in (A \cup B) \ {Birthday} : Parent[b] \in A \cup B
      BY <1>3, <1>7, <1>8
<1>11. IsChain(A \cup B)
      BY <1>2, <1>9, <1>10 DEF IsChain
<1> QED BY <1>2, <1>11 DEF A, B

\* What is stored at any moment of the tip sync is a chain.
LEMMA KnownShape ==
    ASSUME MemoryInv PROVE IsChain(Known) /\ Birthday \in Known
<1> USE TipIsTask
<1> DEFINE m == mem["tip"]
           n == new["tip"]
           c == cur["tip"]
<1>1. /\ IsChainRecord(m) /\ IsPath(m) /\ m.base = Birthday
      /\ IsChainRecord(n) /\ IsPath(n)
      /\ In(m) \subseteq Blocks /\ m.tip \in In(m) /\ Birthday \in In(m)
      BY DEF MemoryInv, TypeOK, MemoryIsPath, IsChainRecord, IsPath
<1>2. CASE phase["tip"] \in {"idle", "walk"}
  <2>1. In(m) = UpTo(m, Height[m.tip])
        BY <1>1, TipIsHighest DEF UpTo
  <2>2. Height[m.tip] \in Nat /\ Height[m.tip] >= Height[Birthday]
        BY <1>1, TipIsHighest, HeightFacts
  <2>3. Known = In(m)
        BY <1>2 DEF Known
  <2> QED BY <1>1, <2>1, <2>2, <2>3, CutIsChain
<1>3. CASE phase["tip"] = "undo"
  <2>1. c \in In(m)
        BY <1>3 DEF MemoryInv
  <2>2. Height[c] \in Nat /\ Height[c] >= Height[Birthday]
        BY <1>1, <2>1, BaseIsLowest, HeightFacts
  <2>3. Known = UpTo(m, Height[c])
        BY <1>3 DEF Known
  <2> QED BY <1>1, <2>2, <2>3, CutIsChain
<1>4. CASE phase["tip"] = "process"
  <2>1. c \in Blocks /\ In(m) \cap In(n) = {n.base}
        BY <1>4 DEF MemoryInv, TypeOK, MemoryIsPath
  <2>2. Height[c] \in Nat
        BY <2>1, HeightFacts
  <2>3. Known = UpTo(m, Height[n.base]) \cup {x \in In(n) : Height[x] < Height[c]}
        BY <1>4 DEF Known
  <2> QED BY <1>1, <2>1, <2>2, <2>3, JoinIsChain
<1> QED BY <1>2, <1>3, <1>4 DEF MemoryInv, TypeOK

LEMMA KnownShapeNext ==
    ASSUME MemoryInv' PROVE IsChain(Known') /\ Birthday \in Known'
<1>1. (MemoryInv => IsChain(Known) /\ Birthday \in Known)'
      BY KnownShape, PTL
<1>2. IsChain(Known)' <=> IsChain(Known')
      BY DEF IsChain
<1> QED BY <1>1, <1>2

\* Entering a loop, nothing is undone or processed yet.
LEMMA EnterLoopKnown ==
    ASSUME MemoryInv, MemoryInv',
           phase["tip"] \in {"idle", "walk"}, NEW c,
           new' = [new EXCEPT !["tip"] = c], EnterLoop("tip", c),
           UNCHANGED <<db, mem>>
    PROVE  Known' = Known
<1> USE TipIsTask
<1> DEFINE m == mem["tip"]
<1>1. /\ IsChainRecord(m) /\ IsPath(m) /\ In(m) \subseteq Blocks /\ m.tip \in In(m)
      /\ phase \in [Tasks -> {"idle", "walk", "undo", "process"}]
      /\ cur \in [Tasks -> Blocks \cup {None}] /\ DOMAIN new = Tasks
      BY DEF MemoryInv, TypeOK, MemoryIsPath, IsChainRecord, IsPath
<1>2. Known = In(m) /\ UpTo(m, Height[m.tip]) = In(m)
      BY <1>1, TipIsHighest DEF Known, UpTo
<1>3. new'["tip"] = c /\ mem'["tip"] = m
      BY <1>1
<1>4. CASE c.base \notin In(m)
  <2>1. phase'["tip"] = "walk"
        BY <1>1, <1>4 DEF EnterLoop
  <2> QED BY <1>2, <1>3, <2>1 DEF Known
<1>5. CASE c.base \in In(m) /\ c.base # m.tip
  <2>1. phase'["tip"] = "undo" /\ cur'["tip"] = m.tip
        BY <1>1, <1>5 DEF EnterLoop
  <2> QED BY <1>2, <1>3, <2>1 DEF Known, UpTo
<1>6. CASE c.base = m.tip
  <2>1. phase'["tip"] = "process" /\ cur'["tip"] = c.base
        BY <1>1, <1>6 DEF EnterLoop
  <2>2. IsChainRecord(c) /\ IsPath(c)
        BY <1>3 DEF MemoryInv, TypeOK, MemoryIsPath
  <2>3. {x \in In(c) : Height[x] < Height[c.base]} = {}
    <3>1. In(c) \subseteq Blocks /\ c.base \in Blocks
          BY <2>2 DEF IsChainRecord
    <3> QED BY <2>2, <3>1, BaseIsLowest, HeightFacts
  <2>4. Known' = UpTo(m, Height[c.base]) \cup {x \in In(c) : Height[x] < Height[c.base]}
        BY <1>3, <2>1 DEF Known, UpTo
  <2> QED BY <1>2, <1>6, <2>3, <2>4
<1> QED BY <1>1, <1>4, <1>5, <1>6

\* An undone block is the highest one stored,
LEMMA UndoKnown ==
    ASSUME MemoryInv, MemoryInv', UndoNext("tip")
    PROVE  /\ Known' = Known \ {cur["tip"]} /\ cur["tip"] \in Known
           /\ cur["tip"] # Birthday
           /\ \A x \in Known : Height[x] <= Height[cur["tip"]]
<1> USE TipIsTask
<1> DEFINE m == mem["tip"]
           n == new["tip"]
           c == cur["tip"]
           prev == Backward(m, c)
           more == prev # None /\ prev \notin In(n)
<1>0. None \notin Blocks
      BY BlocksAssumption
<1>1. /\ IsChainRecord(m) /\ IsPath(m) /\ m.base = Birthday
      /\ IsChainRecord(n) /\ IsPath(n) /\ In(m) \cap In(n) = {n.base}
      /\ c \in In(m) \ In(n) /\ Height[c] > Height[n.base]
      /\ phase \in [Tasks -> {"idle", "walk", "undo", "process"}]
      /\ cur \in [Tasks -> Blocks \cup {None}]
      BY DEF MemoryInv, TypeOK, MemoryIsPath, UndoNext
<1>2. In(m) \subseteq Blocks /\ n.base \in In(m) /\ n.base \in In(n)
      /\ In(n) \subseteq Blocks
      BY <1>1 DEF IsChainRecord, IsPath
<1>3. c # Birthday
      BY <1>1, <1>2, BaseIsLowest, HeightFacts
<1>4. prev = Parent[c] /\ prev \in In(m) /\ Height[c] = Height[prev] + 1 /\ prev \in Blocks
      BY <1>1, <1>2, <1>3, HeightFacts DEF Backward, IsPath
<1>5. Known = UpTo(m, Height[c])
      BY DEF Known, UndoNext
<1>6. Known \ {c} = UpTo(m, Height[prev])
  <2>1. \A x \in In(m) : Height[x] \in Nat /\ (Height[x] = Height[c] => x = c)
        BY <1>1, <1>2, HeightsDiffer, HeightFacts
  <2>2. Height[prev] \in Nat /\ Height[c] = Height[prev] + 1
        BY <1>4, HeightFacts
  <2>3. \A x \in In(m) : (Height[x] <= Height[c] /\ x # c) <=> Height[x] <= Height[prev]
        BY <2>1, <2>2
  <2> QED BY <1>5, <2>3 DEF UpTo
<1>7. /\ phase' = [phase EXCEPT !["tip"] = IF more THEN @ ELSE "process"]
      /\ cur' = [cur EXCEPT !["tip"] = IF more THEN prev ELSE n.base]
      /\ UNCHANGED <<mem, new>> /\ phase["tip"] = "undo"
      BY DEF UndoNext
<1> HIDE DEF prev
<1>8. ASSUME more PROVE Known' = Known \ {c}
  <2>1. phase'["tip"] = "undo" /\ cur'["tip"] = prev
        BY <1>1, <1>7, <1>8
  <2> QED BY <1>6, <1>7, <2>1 DEF Known, UpTo
<1>9. ASSUME ~more PROVE Known' = Known \ {c}
  <2>1. prev = n.base
        BY <1>0, <1>1, <1>4, <1>9
  <2>2. phase'["tip"] = "process" /\ cur'["tip"] = n.base
        BY <1>1, <1>7, <1>9
  <2>3. {x \in In(n) : Height[x] < Height[n.base]} = {}
        BY <1>1, <1>2, BaseIsLowest, HeightFacts
  <2>4. Known' = UpTo(m, Height[n.base]) \cup {x \in In(n) : Height[x] < Height[n.base]}
        BY <1>7, <2>2 DEF Known, UpTo
  <2> QED BY <1>6, <2>1, <2>3, <2>4
<1>10. c \in Known /\ \A x \in Known : Height[x] <= Height[c]
      BY <1>1, <1>2, <1>5, HeightFacts DEF UpTo
<1> QED BY <1>3, <1>8, <1>9, <1>10

\* and a processed one the next above it, up to the new chain's tip.
LEMMA ProcessKnown ==
    ASSUME MemoryInv, MemoryInv', ProcessNext("tip")
    PROVE  /\ Known' = Known \cup {cur["tip"]}
           /\ cur["tip"] \in Known \/ (cur["tip"] # Birthday /\ Parent[cur["tip"]] \in Known)
           /\ \A x \in Known : Height[x] <= Height[cur["tip"]]
<1> USE TipIsTask
<1> DEFINE m == mem["tip"]
           n == new["tip"]
           c == cur["tip"]
           next == Forward(n, c)
           Below(h) == {x \in In(n) : Height[x] < h}
<1>0. None \notin Blocks
      BY BlocksAssumption
<1>1. /\ IsChainRecord(m) /\ IsPath(m) /\ m.base = Birthday
      /\ IsChainRecord(n) /\ IsPath(n) /\ In(m) \cap In(n) = {n.base}
      /\ c \in In(n) /\ DOMAIN mem = Tasks
      /\ phase \in [Tasks -> {"idle", "walk", "undo", "process"}]
      /\ cur \in [Tasks -> Blocks \cup {None}]
      BY DEF MemoryInv, TypeOK, MemoryIsPath, ProcessNext
<1>2. In(n) \subseteq Blocks
      BY <1>1 DEF IsChainRecord
<1>3. Known = UpTo(m, Height[n.base]) \cup Below(Height[c])
      BY DEF Known, ProcessNext
<1>4. \A x \in In(n) : Height[x] \in Nat /\ (Height[x] = Height[c] => x = c)
      BY <1>1, <1>2, HeightsDiffer, HeightFacts
<1>5. ASSUME next # None PROVE Known' = Known \cup {c}
  <2>1. next \in In(n) /\ Height[next] = Height[c] + 1
    <3>1. c # n.tip
          BY <1>5 DEF IsPath, Forward, MemoryInv, MemoryIsPath
    <3>2. next \in In(n) /\ next # Birthday /\ Parent[next] = c
          BY <1>1, <3>1 DEF IsPath, Forward
    <3> QED BY <1>2, <3>2, HeightFacts
  <2>2. Below(Height[next]) = Below(Height[c]) \cup {c}
        BY <1>1, <1>4, <2>1
  <2>3. phase'["tip"] = "process" /\ cur'["tip"] = next /\ UNCHANGED <<mem, new>>
        BY <1>1, <1>5 DEF ProcessNext
  <2>4. Known' = UpTo(m, Height[n.base]) \cup Below(Height[next])
        BY <2>3 DEF Known, UpTo
  <2> QED BY <1>3, <2>2, <2>4
<1>6. ASSUME next = None PROVE Known' = Known \cup {c}
  <2>1. c = n.tip
        BY <1>0, <1>1, <1>2, <1>6 DEF IsPath, Forward
  <2>2. In(n) = Below(Height[c]) \cup {c}
        BY <1>1, <1>4, <2>1, TipIsHighest
  <2>3. phase'["tip"] = "idle" /\ mem'["tip"] = Retip(m, n)
        BY <1>1, <1>6 DEF ProcessNext
  <2>4. In(Retip(m, n)) = UpTo(m, Height[n.base]) \cup In(n)
        BY <1>1, RetipIsPath DEF UpTo
  <2>5. Known' = In(Retip(m, n))
        BY <2>3 DEF Known
  <2> QED BY <1>3, <2>2, <2>4, <2>5
<1>7. \A x \in Known : Height[x] <= Height[c]
  <2>1. In(m) \subseteq Blocks /\ n.base \in In(n)
        BY <1>1 DEF IsChainRecord
  <2>2. Height[n.base] <= Height[c]
        BY <1>1, <1>2, <2>1, BaseIsLowest, HeightFacts
  <2> QED BY <1>1, <1>2, <1>3, <2>1, <2>2, HeightFacts DEF UpTo
<1>8. c \in Known \/ (c # Birthday /\ Parent[c] \in Known)
  <2>1. CASE c = n.base
    <3>1. c \in UpTo(m, Height[n.base])
          BY <1>1, <1>2, <2>1, HeightFacts DEF UpTo
    <3> QED BY <1>3, <3>1
  <2>2. CASE c # n.base
    <3>1. c # Birthday /\ Parent[c] \in In(n) /\ Height[Parent[c]] < Height[c]
          BY <1>1, <1>2, <2>2, HeightFacts DEF IsPath
    <3> QED BY <1>3, <3>1
  <2> QED BY <2>1, <2>2
<1> QED BY <1>5, <1>6, <1>7, <1>8

\* start reads the chain back from the database, or begins it with Birthday.
LEMMA StartKnown ==
    ASSUME MemoryInv, StartEmpty \/ Start
    PROVE  Known' = blocks' /\ running' = "up"
<1> USE TipIsTask
<1>1. CASE StartEmpty
  <2>1. /\ mem'["tip"] = New(Birthday) /\ phase'["tip"] = "idle"
        /\ blocks' = {Birthday} /\ running' = "up"
        BY <1>1 DEF MemoryInv, StartEmpty
  <2> QED BY <2>1, BlocksAssumption, NewIsPath DEF Known
<1>2. CASE Start
  <2>1. /\ mem'["tip"] = FromHeaders(blocks) /\ phase'["tip"] = "idle"
        /\ blocks' = blocks /\ IsChain(blocks) /\ blocks \in SUBSET Blocks
        /\ running' = "up"
        BY <1>2 DEF MemoryInv, TypeOK, Start, db
  <2>2. Birthday \in blocks
        BY <2>1 DEF MemoryInv, IsChain
  <2> QED BY <2>1, <2>2, FromHeadersIsPath DEF Known
<1> QED BY <1>1, <1>2

-----------------------------------------------------------------------------
(***************************************************************************)
(* The invariant behind KnownIsStored, with the full sync beside the tip   *)
(* sync: every round of the full sync begins with Birthday alone, whose    *)
(* successor on the new chain it then processes; so it never has anything  *)
(* to undo.                                                                *)
(***************************************************************************)
KnownInv ==
    /\ MemoryInv
    /\ KnownIsStored
    /\ \A t \in Tasks \ {"tip"} : In(mem[t]) = {Birthday} /\ phase[t] # "undo"

\* A full sync that enters a loop walks back or processes.
LEMMA FullNeverUndoes ==
    ASSUME KnownInv, NEW t \in Tasks \ {"tip"}, NEW c, EnterLoop(t, c)
    PROVE  phase'[t] # "undo" /\ \A s \in Tasks \ {t} : phase'[s] = phase[s]
<1>1. mem[t].base = Birthday /\ mem[t].tip = Birthday /\ In(mem[t]) = {Birthday}
      BY DEF KnownInv, MemoryInv, MemoryIsPath, IsPath
<1>2. phase \in [Tasks -> {"idle", "walk", "undo", "process"}]
      BY DEF KnownInv, MemoryInv, TypeOK
<1>3. ~ (c.base \in In(mem[t]) /\ c.base # mem[t].tip)
      BY <1>1
<1> QED BY <1>2, <1>3 DEF EnterLoop

\* What the full sync does leaves the tip sync's part alone.
LEMMA FullKnown ==
    ASSUME KnownInv, MemoryInv', NEW t \in Tasks \ {"tip"}, Sync(t)
    PROVE  KnownInv' /\ Known' = Known
<1> USE TipIsTask
<1>0. /\ phase \in [Tasks -> {"idle", "walk", "undo", "process"}]
      /\ cur \in [Tasks -> Blocks \cup {None}]
      /\ DOMAIN new = Tasks /\ DOMAIN mem = Tasks
      /\ mem[t].base = Birthday /\ In(mem[t]) = {Birthday} /\ phase[t] # "undo"
      BY DEF KnownInv, MemoryInv, TypeOK, MemoryIsPath
<1>1. ASSUME mem'["tip"] = mem["tip"], new'["tip"] = new["tip"],
             phase'["tip"] = phase["tip"], cur'["tip"] = cur["tip"],
             blocks \subseteq blocks', running' = running,
             In(mem'[t]) = {Birthday}, phase'[t] # "undo",
             \A s \in Tasks \ {t} : mem'[s] = mem[s] /\ phase'[s] = phase[s]
      PROVE  KnownInv' /\ Known' = Known
  <2>1. Known' = Known
        BY <1>1 DEF Known, UpTo
  <2> QED BY <1>1, <2>1 DEF KnownInv, KnownIsStored
<1>2. ASSUME NEW c, new' = [new EXCEPT ![t] = c], EnterLoop(t, c), UNCHANGED <<db, running, mem>>
      PROVE  KnownInv' /\ Known' = Known
  <2>1. phase'[t] # "undo" /\ \A s \in Tasks \ {t} : phase'[s] = phase[s]
        BY <1>2, FullNeverUndoes
  <2>2. cur'["tip"] = cur["tip"] /\ new'["tip"] = new["tip"]
        BY <1>0, <1>2 DEF EnterLoop
  <2> QED BY <1>0, <1>1, <1>2, <2>1, <2>2 DEF db
<1>3. CASE BeginSync(t)
      BY <1>2, <1>3 DEF BeginSync
<1>4. CASE WalkBack(t)
      BY <1>2, <1>4 DEF WalkBack
<1>5. CASE UndoNext(t)
      BY <1>0, <1>5 DEF UndoNext
<1>6. CASE ProcessNext(t)
  <2>1. blocks \subseteq blocks' /\ running' = running /\ phase[t] = "process"
        BY <1>6 DEF ProcessNext, AddBlock
  <2>2. /\ In(mem'[t]) = {Birthday} /\ phase'[t] # "undo"
        /\ \A s \in Tasks \ {t} : mem'[s] = mem[s] /\ new'[s] = new[s]
                                  /\ phase'[s] = phase[s] /\ cur'[s] = cur[s]
    <3>1. CASE Forward(new[t], cur[t]) # None
      <4>1. UNCHANGED <<phase, mem, new>> /\ cur' = [cur EXCEPT ![t] = Forward(new[t], cur[t])]
            BY <1>6, <3>1 DEF ProcessNext
      <4> QED BY <1>0, <4>1
    <3>2. CASE Forward(new[t], cur[t]) = None
      <4>1. /\ phase' = [phase EXCEPT ![t] = "idle"]
            /\ mem' = [mem EXCEPT ![t] = New(mem[t].base)]
            /\ new' = [new EXCEPT ![t] = New(Birthday)]
            /\ cur' = [cur EXCEPT ![t] = Forward(new[t], cur[t])]
            BY <1>6, <3>2 DEF ProcessNext
      <4>2. In(New(Birthday)) = {Birthday}
            BY BlocksAssumption, NewIsPath
      <4> QED BY <1>0, <4>1, <4>2
    <3> QED BY <3>1, <3>2
  <2> QED BY <1>1, <2>1, <2>2
<1> QED BY <1>3, <1>4, <1>5, <1>6 DEF Sync

\* What the tip sync does to the database it does to its own part.
LEMMA TipKnown ==
    ASSUME KnownInv, MemoryInv', Sync("tip")
    PROVE  KnownInv'
<1> USE TipIsTask
<1>0. /\ phase \in [Tasks -> {"idle", "walk", "undo", "process"}]
      /\ DOMAIN mem = Tasks /\ MemoryInv /\ running = "up" /\ Known \subseteq blocks
      BY DEF KnownInv, MemoryInv, TypeOK, KnownIsStored, Sync, BeginSync, WalkBack,
             UndoNext, ProcessNext
<1>1. ASSUME Known' \subseteq blocks',
             \A s \in Tasks \ {"tip"} : mem'[s] = mem[s] /\ phase'[s] = phase[s]
      PROVE  KnownInv'
      BY <1>1 DEF KnownInv, KnownIsStored
<1>2. CASE BeginSync("tip")
  <2>1. Known' = Known
        BY <1>0, <1>2, EnterLoopKnown DEF BeginSync
  <2> QED BY <1>0, <1>1, <1>2, <2>1 DEF BeginSync, EnterLoop, db
<1>3. CASE WalkBack("tip")
  <2>1. Known' = Known
        BY <1>0, <1>3, EnterLoopKnown DEF WalkBack
  <2> QED BY <1>0, <1>1, <1>3, <2>1 DEF WalkBack, EnterLoop, db
<1>4. CASE UndoNext("tip")
  <2>1. Known' = Known \ {cur["tip"]} /\ blocks' = blocks \ {cur["tip"]}
        BY <1>0, <1>4, UndoKnown DEF UndoNext, UndoBlock
  <2> QED BY <1>0, <1>1, <1>4, <2>1 DEF UndoNext
<1>5. CASE ProcessNext("tip")
  <2>1. Known' = Known \cup {cur["tip"]} /\ blocks' = blocks \cup {cur["tip"]}
        BY <1>0, <1>5, ProcessKnown DEF ProcessNext, AddBlock
  <2>2. \A s \in Tasks \ {"tip"} : mem'[s] = mem[s] /\ phase'[s] = phase[s]
        BY <1>0, <1>5 DEF ProcessNext
  <2> QED BY <1>0, <1>1, <2>1, <2>2
<1> QED BY <1>2, <1>3, <1>4, <1>5 DEF Sync

THEOREM KnownInvariance == Spec => []KnownInv
<1>1. Init /\ MemoryInv => KnownInv
  <2>1. In(New(Birthday)) = {Birthday}
        BY BlocksAssumption, NewIsPath
  <2> QED BY <2>1 DEF Init, KnownInv, KnownIsStored
<1>2. ASSUME KnownInv, MemoryInv', [Next]_vars PROVE KnownInv'
  <2>0. In(New(Birthday)) = {Birthday}
        BY BlocksAssumption, NewIsPath
  <2>1. CASE StartEmpty \/ Start
    <3>1. Known' = blocks'
          BY <1>2, <2>1, StartKnown DEF KnownInv
    <3>2. phase' = phase
          BY <2>1 DEF StartEmpty, Start
    <3>3. \A t \in Tasks \ {"tip"} : In(mem'[t]) = {Birthday}
      <4>1. CASE StartEmpty
            BY <2>0, <4>1 DEF StartEmpty
      <4>2. CASE Start
        <5>1. Birthday \in blocks /\ blocks \in SUBSET Blocks /\ IsChain(blocks)
              BY <1>2, <4>2 DEF KnownInv, MemoryInv, TypeOK, Start, IsChain
        <5>2. FromHeaders(blocks).base = Birthday
              BY <5>1, FromHeadersIsPath
        <5> QED BY <2>0, <4>2, <5>2 DEF Start
      <4> QED BY <2>1, <4>1, <4>2
    <3> QED BY <1>2, <3>1, <3>2, <3>3 DEF KnownInv, KnownIsStored
  <2>2. CASE StartFails
        BY <1>2, <2>2 DEF StartFails, KnownInv, KnownIsStored, task
  <2>3. CASE Stop
        BY <1>2, <2>0, <2>3 DEF Stop, KnownInv, KnownIsStored
  <2>4. ASSUME UNCHANGED <<blocks, running, task>> PROVE KnownInv'
        BY <1>2, <2>4 DEF KnownInv, KnownIsStored, Known, UpTo, task
  <2>5. ASSUME NEW t \in Tasks, Sync(t) PROVE KnownInv'
        BY <1>2, <2>5, FullKnown, TipKnown
  <2>6. CASE \E t \in Txs : Watch(t)
        BY <2>4, <2>6 DEF Watch, db
  <2>7. CASE \E b \in Blocks : NewBest(b)
        BY <2>4, <2>7 DEF NewBest, db
  <2>8. CASE UNCHANGED vars
        BY <2>4, <2>8 DEF vars, db
  <2> QED BY <1>2, <2>1, <2>2, <2>3, <2>5, <2>6, <2>7, <2>8 DEF Next
<1> QED BY <1>1, <1>2, MemoryInvariance, PTL DEF Spec

\* The blocks the tip sync relies on are in the database at every moment, for
\* any tree of blocks, with the full sync at work beside it.
THEOREM KnownStaysStored == Spec => []KnownIsStored
<1>1. KnownInv => KnownIsStored
      BY DEF KnownInv
<1> QED BY <1>1, KnownInvariance, PTL

-----------------------------------------------------------------------------
(***************************************************************************)
(* The refinement of ChainStore, step by step: KnownInv, and that a row of *)
(* tx_outputs stays watched.                                               *)
(***************************************************************************)
StoreInv == KnownInv /\ txOutputs \subseteq watch

LEMMA StoreInvariance == Spec => []StoreInv
<1>1. Init => txOutputs \subseteq watch
      BY DEF Init
<1>2. txOutputs \subseteq watch /\ [Next]_vars => (txOutputs \subseteq watch)'
  <2> SUFFICES ASSUME txOutputs \subseteq watch, [Next]_vars PROVE txOutputs' \subseteq watch'
      OBVIOUS
  <2>1. ASSUME UNCHANGED txOutputs, watch \subseteq watch' PROVE txOutputs' \subseteq watch'
        BY <2>1
  <2>2. CASE StartEmpty \/ Start \/ StartFails \/ Stop
        BY <2>1, <2>2 DEF StartEmpty, Start, StartFails, Stop, db
  <2>3. ASSUME NEW t \in Tasks, Sync(t) PROVE txOutputs' \subseteq watch'
    <3>1. CASE BeginSync(t) \/ WalkBack(t) \/ UndoNext(t)
          BY <2>1, <3>1 DEF BeginSync, WalkBack, UndoNext, UndoBlock, db
    <3>2. CASE ProcessNext(t)
          BY <3>2 DEF ProcessNext, AddBlock
    <3> QED BY <2>3, <3>1, <3>2 DEF Sync
  <2>4. CASE \E t \in Txs : Watch(t)
        BY <2>1, <2>4 DEF Watch, db
  <2>5. CASE \E b \in Blocks : NewBest(b)
        BY <2>1, <2>5 DEF NewBest, db
  <2>6. CASE UNCHANGED vars
        BY <2>1, <2>6 DEF vars, db
  <2> QED BY <2>2, <2>3, <2>4, <2>5, <2>6 DEF Next
<1>3. KnownInv /\ txOutputs \subseteq watch => StoreInv
      BY DEF StoreInv
<1> QED BY <1>1, <1>2, <1>3, KnownInvariance, PTL DEF Spec

\* Of a followed chain, a block that no other is higher than is the top.
LEMMA HighestIsTop ==
    ASSUME Known \subseteq Blocks, running = "up", NEW c \in Known,
           \A x \in Known : Height[x] <= Height[c]
    PROVE  Store!IsTop(c)
<1> SUFFICES ASSUME NEW x \in Known \ {Birthday}, Parent[x] = c PROVE FALSE
    BY DEF Store!IsTop
<1>1. x \in Blocks \ {Birthday} /\ c \in Blocks
      OBVIOUS
<1>2. Height[x] = Height[c] + 1 /\ Height[c] \in Nat
      BY <1>1, HeightFacts
<1> QED BY <1>2

\* add_block confirms the transactions that pay to a watched address.
LEMMA AddBlockProcesses ==
    ASSUME txOutputs \subseteq watch, NEW c \in Blocks, AddBlock(c), UNCHANGED watch
    PROVE  Store!Process(c)
<1> DEFINE txs == TxsIn[c]
           outputs == txOutputs \cup (txs \cap watch)
<1>1. txs \cap outputs = txs \cap watch
      OBVIOUS
<1>2. /\ blocks' = blocks \cup {c}
      /\ txBlocks' = txBlocks \cup {<<t, c>> : t \in txs \cap outputs}
      BY DEF AddBlock
<1>3. txBlocks' = txBlocks \cup {<<t, c>> : t \in TxsIn[c] \cap watch}
      BY <1>1, <1>2
<1> QED BY <1>2, <1>3 DEF Store!Process

\* A block that the tip sync processes is the top one again, or new above it.
LEMMA ProcessRefines ==
    ASSUME StoreInv, MemoryInv', ProcessNext("tip")
    PROVE  Store!Next
<1> DEFINE c == cur["tip"]
<1>0. MemoryInv /\ TypeOK /\ Known \subseteq blocks /\ running = "up" /\ txOutputs \subseteq watch
      BY DEF StoreInv, KnownInv, KnownIsStored, MemoryInv, ProcessNext
<1>1. AddBlock(c) /\ UNCHANGED watch /\ running' = "up" /\ phase["tip"] = "process"
      BY DEF ProcessNext
<1>2. c \in Blocks /\ blocks \subseteq Blocks /\ Known \subseteq Blocks
      BY <1>0, <1>1, TipIsTask, BlocksAssumption DEF TypeOK
<1>3. /\ Known' = Known \cup {c}
      /\ c \in Known \/ (c # Birthday /\ Parent[c] \in Known)
      /\ \A x \in Known : Height[x] <= Height[c]
      BY <1>0, ProcessKnown
<1>4. Store!Process(c)
      BY <1>0, <1>1, <1>2, AddBlockProcesses
<1>5. CASE c \in Known
  <2>1. Known' = Known
        BY <1>3, <1>5
  <2>2. Store!Refresh(c)
        BY <1>0, <1>1, <1>4, <1>5, <2>1 DEF Store!Refresh
  <2> QED BY <1>2, <2>2 DEF Store!Next
<1>6. CASE c \notin Known
  <2>1. c # Birthday /\ Parent[c] \in Known
        BY <1>3, <1>6
  <2>2. \A x, y \in Known' : Height[x] = Height[y] => x = y
        BY KnownShapeNext DEF IsChain
  <2>3. ASSUME NEW x \in Known \ {Birthday}, Parent[x] = Parent[c] PROVE FALSE
    <3>1. x \in Blocks \ {Birthday} /\ c \in Blocks \ {Birthday}
          BY <1>2, <2>1
    <3>2. Height[x] = Height[c]
          BY <2>3, <3>1, HeightFacts
    <3> QED BY <1>3, <1>6, <2>2, <3>2
  <2>4. Store!IsTop(Parent[c])
        BY <1>0, <2>1, <2>3 DEF Store!IsTop
  <2>5. Store!Push(c)
        BY <1>0, <1>1, <1>3, <1>4, <1>6, <2>1, <2>4 DEF Store!Push
  <2> QED BY <1>2, <2>5 DEF Store!Next
<1> QED BY <1>5, <1>6

\* A block that it undoes is the top one.
LEMMA UndoRefines ==
    ASSUME StoreInv, MemoryInv', UndoNext("tip")
    PROVE  Store!Next
<1> DEFINE c == cur["tip"]
<1>0. MemoryInv /\ TypeOK /\ Known \subseteq blocks /\ running = "up" /\ running' = "up"
      BY DEF StoreInv, KnownInv, KnownIsStored, MemoryInv, UndoNext
<1>1. UndoBlock(c) /\ UNCHANGED watch
      BY DEF UndoNext
<1>2. /\ Known' = Known \ {c} /\ c \in Known /\ c # Birthday
      /\ \A x \in Known : Height[x] <= Height[c]
      BY <1>0, UndoKnown
<1>3. Store!IsTop(c) /\ c \in Blocks
      BY <1>0, <1>2, HighestIsTop DEF TypeOK
<1>4. Store!Pop(c)
      BY <1>0, <1>1, <1>2, <1>3 DEF UndoBlock, Store!Pop
<1> QED BY <1>3, <1>4 DEF Store!Next

\* What the full sync processes is some block, and the chain that is followed
\* stays as it is.
LEMMA FullRefines ==
    ASSUME StoreInv, MemoryInv', NEW t \in Tasks \ {"tip"}, Sync(t)
    PROVE  [Store!Next]_(Store!vars)
<1>0. /\ MemoryInv /\ KnownInv /\ TypeOK /\ phase[t] # "undo" /\ running = "up"
      /\ running' = "up" /\ UNCHANGED watch /\ txOutputs \subseteq watch
      BY DEF StoreInv, KnownInv, MemoryInv, Sync, BeginSync, WalkBack, UndoNext, ProcessNext
<1>1. Known' = Known
      BY <1>0, FullKnown
<1>2. CASE BeginSync(t) \/ WalkBack(t)
      BY <1>0, <1>1, <1>2 DEF BeginSync, WalkBack, db, Store!vars
<1>3. CASE UndoNext(t)
      BY <1>0, <1>3 DEF UndoNext
<1>4. CASE ProcessNext(t)
  <2> DEFINE c == cur[t]
  <2>1. AddBlock(c) /\ c \in Blocks
        BY <1>0, <1>4, BlocksAssumption DEF ProcessNext, TypeOK
  <2>2. Store!Process(c)
        BY <1>0, <2>1, AddBlockProcesses
  <2>3. Known # {}
        BY <1>0, KnownShape
  <2>4. Store!Refresh(c)
        BY <1>0, <1>1, <2>2, <2>3 DEF Store!Refresh
  <2> QED BY <2>1, <2>4 DEF Store!Next
<1> QED BY <1>2, <1>3, <1>4 DEF Sync

\* A start follows what is stored.
LEMMA StartRefines ==
    ASSUME StoreInv, StartEmpty \/ Start PROVE Store!Next
<1>0. MemoryInv /\ TypeOK
      BY DEF StoreInv, KnownInv, MemoryInv
<1>1. Known' = blocks' /\ running' = "up" /\ running = "down"
      BY <1>0, StartKnown DEF StartEmpty, Start
<1>2. CASE StartEmpty
  <2>1. Store!Begin
        BY <1>1, <1>2 DEF StartEmpty, Store!Begin
  <2> QED BY <2>1 DEF Store!Next
<1>3. CASE Start
  <2>1. /\ IsChain(blocks) /\ blocks \subseteq Blocks /\ Birthday \in blocks
        /\ UNCHANGED <<blocks, txBlocks, watch>>
        BY <1>0, <1>3 DEF Start, TypeOK, MemoryInv, IsChain, db
  <2>2. \A b \in blocks \ {Birthday} : Parent[b] \in blocks
        BY <2>1 DEF IsChain
  <2>3. ASSUME NEW b \in blocks \ {Birthday}, NEW c \in blocks \ {Birthday},
               Parent[b] = Parent[c]
        PROVE  b = c
    <3>1. Height[b] = Height[c]
          BY <2>1, <2>3, HeightFacts
    <3> QED BY <2>1, <3>1 DEF IsChain
  <2>4. Store!Resume
        BY <1>1, <2>1, <2>2, <2>3 DEF Store!Resume
  <2> QED BY <2>4 DEF Store!Next
<1> QED BY <1>2, <1>3

\* Every step of the two tasks, of a start or a stop and of those who watch
\* addresses is a step of ChainStore or leaves its variables alone.
LEMMA StoreStep ==
    ASSUME StoreInv, MemoryInv', [Next]_vars
    PROVE  [Store!Next]_(Store!vars)
<1>1. ASSUME UNCHANGED <<blocks, txBlocks, watch, running, task>> PROVE UNCHANGED Store!vars
      BY <1>1 DEF Store!vars, Known, UpTo, task
<1>2. CASE StartEmpty \/ Start
      BY <1>2, StartRefines
<1>3. CASE StartFails
      BY <1>3 DEF StartFails, Store!vars, db
<1>4. CASE Stop
  <2>1. Store!Halt
        BY <1>4 DEF Stop, Store!Halt, db
  <2> QED BY <2>1 DEF Store!Next
<1>5. CASE BeginSync("tip") \/ WalkBack("tip")
  <2>1. Known' = Known
        BY <1>5, EnterLoopKnown DEF BeginSync, WalkBack, StoreInv, KnownInv
  <2> QED BY <1>5, <2>1 DEF BeginSync, WalkBack, Store!vars, db
<1>6. CASE UndoNext("tip")
      BY <1>6, UndoRefines
<1>7. CASE ProcessNext("tip")
      BY <1>7, ProcessRefines
<1>8. ASSUME NEW t \in Tasks, Sync(t) PROVE [Store!Next]_(Store!vars)
      BY <1>5, <1>6, <1>7, <1>8, FullRefines DEF Sync
<1>9. ASSUME NEW t \in Txs, Watch(t) PROVE Store!Next
  <2>1. Known' = Known
        BY <1>9 DEF Watch, task, Known, UpTo
  <2>2. Store!WatchTx(t)
        BY <1>9, <2>1 DEF Watch, db, Store!WatchTx
  <2> QED BY <2>2 DEF Store!Next
<1>10. CASE \E b \in Blocks : NewBest(b)
      BY <1>1, <1>10 DEF NewBest, db
<1>11. CASE UNCHANGED vars
      BY <1>1, <1>11 DEF vars, db
<1> QED BY <1>2, <1>3, <1>4, <1>8, <1>9, <1>10, <1>11 DEF Next

\* With both tasks at work the tables are what ChainStore promises, for any tree
\* of blocks: through reorgs and stops at any moment.
THEOREM SyncImplementsStore == Spec => ImplementsChainStore
<1>1. Init => Store!Init
      BY DEF Init, Store!Init
<1>2. StoreInv /\ MemoryInv' /\ [Next]_vars => [Store!Next]_(Store!vars)
      BY StoreStep
<1> QED BY <1>1, <1>2, MemoryInvariance, StoreInvariance, PTL
        DEF Spec, ImplementsChainStore, Store!Spec
=============================================================================
