------------------------------- MODULE Ledger -------------------------------
(***************************************************************************)
(* One chain as its watcher reads it (pignus/watcher.py): blocks that can  *)
(* be replaced, because "Sequentia reorgs when Bitcoin reorgs", and a      *)
(* mempool whose transactions can be replaced or dropped.                  *)
(*                                                                         *)
(* A transaction spends one coin at most.  A block is known by its height  *)
(* and the fork it was mined on, which stands for its hash: no fork has    *)
(* two blocks at one height.                                               *)
(***************************************************************************)
EXTENDS Integers, Sequences, FiniteSets

CONSTANTS
    Txs,
    Coins,
    Spends,         \* the coin each transaction spends, or None
    Makes,          \* the coins each transaction makes
    None,
    MaxHeight,      \* bound on the height
    MaxForks,       \* how often the chain is reorganised
    MaxDepth,       \* how deep
    ShorterChains,  \* a reorg may be seen before the new chain is as high
    MaxEvictions    \* how often a transaction is dropped from the mempool

VARIABLES
    chain,          \* a sequence of blocks
    mempool,
    forks,
    evictions

ledger == <<chain, mempool, forks, evictions>>

ASSUME LedgerAssumption ==
    /\ None \notin Coins \cup Txs
    /\ Spends \in [Txs -> Coins \cup {None}]
    /\ Makes \in [Txs -> SUBSET Coins]
    /\ MaxHeight \in Nat \ {0}
    /\ ShorterChains \in BOOLEAN
    /\ MaxForks \in Nat /\ MaxDepth \in Nat /\ MaxEvictions \in Nat

Block == [fork : 0..MaxForks, txs : SUBSET Txs]

LedgerTypeOK ==
    /\ chain \in Seq(Block) /\ Len(chain) \in 0..MaxHeight
    /\ mempool \subseteq Txs
    /\ forks \in 0..MaxForks
    /\ evictions \in 0..MaxEvictions

Height == Len(chain)
InChain(x) == \E h \in 1..Height : x \in chain[h].txs
Known(x) == x \in mempool \/ InChain(x)

(* getblockhash *)
HashAt(h) == chain[h].fork

Spenders(coin) == {x \in Txs : Spends[x] = coin}
Makers(coin) == {x \in Txs : coin \in Makes[x]}

Children(S) == {x \in Txs : \E y \in S : Spends[x] \in Makes[y]}
(* S and all that is built on it; a chain of spends is no longer than 4.   *)
Family(S) == S \cup Children(S) \cup Children(Children(S))
               \cup Children(Children(Children(S)))

(* gettxout(coin, include_mempool): whether the coin is there and unspent, *)
(* and how deep.                                                           *)
Unspent(coin) ==
    /\ \E x \in Makers(coin) : Known(x)
    /\ \A x \in Spenders(coin) : ~Known(x)
Confirmations(coin) ==
    LET at == {h \in 1..Height : chain[h].txs \cap Makers(coin) # {}}
    IN  IF at = {} THEN 0 ELSE Height - (CHOOSE h \in at : TRUE) + 1

-----------------------------------------------------------------------------
(* A transaction enters the mempool; a rival there is replaced, with all   *)
(* that was built on it.                                                   *)
Broadcast(x) ==
    /\ ~Known(x)
    /\ Spends[x] # None =>
         /\ \E y \in Makers(Spends[x]) : Known(y)
         /\ \A y \in Spenders(Spends[x]) : ~InChain(y)
    /\ mempool' = (mempool \ IF Spends[x] = None THEN {}
                             ELSE Family(Spenders(Spends[x]))) \cup {x}
    /\ UNCHANGED <<chain, forks, evictions>>

(* What a block may take: any of the mempool, but nothing without what it  *)
(* is built on.                                                            *)
Blocks == {S \in SUBSET mempool :
             \A x \in S : \A y \in mempool : Spends[x] \in Makes[y] => y \in S}

Mine ==
    /\ Height < MaxHeight
    /\ \E txs \in Blocks :
         /\ chain' = Append(chain, [fork |-> forks, txs |-> txs])
         /\ mempool' = mempool \ txs
    /\ UNCHANGED <<forks, evictions>>

(* The top blocks are replaced, or go before others come.  What was in     *)
(* them is mined again or back in the mempool, except what is lost, with   *)
(* all built on it.                                                        *)
Reorg ==
    /\ forks < MaxForks
    /\ forks' = forks + 1
    /\ \E depth \in 1..MaxDepth :
         /\ depth < Height
         /\ LET kept == SubSeq(chain, 1, Height - depth)
                undone == UNION {chain[h].txs : h \in Height - depth + 1 .. Height}
            IN  \E lost \in SUBSET undone :
                  LET pool == (mempool \cup undone) \ Family(lost)
                  IN  IF ShorterChains
                      THEN chain' = kept /\ mempool' = pool
                      ELSE \E txs \in {pool, {}} :
                             /\ mempool' = pool \ txs
                             /\ chain' = kept \o
                                  [k \in 1..depth |->
                                     [fork |-> forks + 1,
                                      txs |-> IF k = 1 THEN txs ELSE {}]]
    /\ UNCHANGED evictions

(* The mempool drops a transaction, with all built on it. *)
Evict(x) ==
    /\ evictions < MaxEvictions
    /\ x \in mempool
    /\ mempool' = mempool \ Family({x})
    /\ evictions' = evictions + 1
    /\ UNCHANGED <<chain, forks>>
=============================================================================
