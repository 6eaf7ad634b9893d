------------------------------- MODULE Chains -------------------------------
(***************************************************************************)
(* The two chains a cross-chain loan lives on, as the responder reads      *)
(* them: Bitcoin, and Sequentia whose blocks are anchored to Bitcoin       *)
(* blocks and go when those go.  Of each take, the transactions that exist *)
(* are the leaves of its four scripts (pignus/btc_collateral.py):          *)
(*                                                                         *)
(*   Bitcoin     prevault --UPGRADE--> vault --RECLAIM--> borrower         *)
(*                   |                   |----TIMEOUT--> lender            *)
(*                   +--ABORT--> borrower                                  *)
(*   Sequentia   disburse --CLAIM--> borrower (shows w)                    *)
(*                   +------REFUND-> lender                                *)
(*               repay ----CLAIM--> lender (shows t)                       *)
(*                   +------REFUND-> borrower                              *)
(*                                                                         *)
(* A transaction is known by its depth, as tx_confirmations reports it:    *)
(* -1 not to be found, 0 in the mempool, n in the n-th block from the tip. *)
(* A Sequentia transaction also has the depth of the Bitcoin block its own *)
(* block is anchored to.  Depths are capped where no rule looks further.   *)
(***************************************************************************)
EXTENDS Timelocks

CONSTANTS
    Takes,          \* the takes of the offer
    ClaimDepth,     \* --claim-depth
    DisburseConf,   \* --disburse-conf
    AnchorDepth,    \* MIN_ANCHOR_DEPTH
    Drift,          \* how far the two clocks may run apart, in seconds
    MaxBtc, MaxSeq, \* bounds on the two heights
    MaxReorgs,      \* how often Bitcoin replaces its tip
    MayVanish       \* transactions a reorg may lose instead of returning

VARIABLES
    btcH, seqH,     \* the two tips
    tx,             \* tx[t][x]: depth of transaction x of take t
    reorgs          \* Bitcoin reorgs so far

chains == <<btcH, seqH, tx, reorgs>>

BtcTx == {"prevault", "upgrade", "abort", "reclaim", "timeout"}
SeqTx == {"disburse", "take", "refund", "repay", "claim", "unrepay"}
Tx    == BtcTx \cup SeqTx

(* The transaction whose output another one spends; a party's own wallet   *)
(* funds the rest.                                                         *)
Input == [x \in Tx |-> CASE x \in {"upgrade", "abort"}   -> "prevault"
                         [] x \in {"reclaim", "timeout"} -> "upgrade"
                         [] x \in {"take", "refund"}     -> "disburse"
                         [] x \in {"claim", "unrepay"}   -> "repay"
                         [] OTHER                        -> "wallet"]

ASSUME ChainAssumption ==
    /\ ClaimDepth \in Nat \ {0}
    /\ AnchorDepth \in Nat \ {0, 1}
    /\ DisburseConf \in Nat /\ DisburseConf >= AnchorDepth
    /\ Drift \in Nat
    /\ MaxBtc \in Nat /\ MaxSeq \in Nat /\ MaxReorgs \in Nat
    /\ MayVanish \subseteq Tx

Depth == -1 .. (ClaimDepth + DisburseConf)
TxRecord == [conf : Depth, anchor : 0..AnchorDepth]

Absent == [conf |-> -1, anchor |-> 0]
Pooled == [conf |-> 0, anchor |-> 0]

Children(S) == {x \in Tx : Input[x] \in S}
(* S with all that descends from it; no chain of spends is longer than 3. *)
Family(S) == S \cup Children(S) \cup Children(Children(S))
Rivals(x) == {y \in Tx \ {x} : Input[y] = Input[x] /\ Input[x] # "wallet"}

-----------------------------------------------------------------------------
(* What a node answers. *)

Seen(t, x)  == tx[t][x].conf >= 0
Mined(t, x) == tx[t][x].conf >= 1
(* gettxout(.., include_mempool=True) is not None *)
Unspent(t, x) == Seen(t, x) /\ \A y \in Children({x}) : ~Seen(t, y)
(* scantxoutset: confirmed coins, and only confirmed spends of them *)
Scanned(t, x) == Mined(t, x) /\ \A y \in Children({x}) : ~Mined(t, y)
(* anchor_safe *)
AnchorSafe(t, x) ==
    tx[t][x].conf >= ClaimDepth /\ tx[t][x].anchor >= AnchorDepth
(* sendrawtransaction takes x: its input is there and nothing spent it *)
Accepted(t, x) ==
    /\ ~Seen(t, x)
    /\ Input[x] # "wallet" => Unspent(t, Input[x])

(* x enters the mempool.  A rival still in the mempool is replaced, with   *)
(* everything built on it.                                                 *)
Enter(t, x) ==
    tx' = [tx EXCEPT ![t] = [y \in Tx |->
             IF y = x THEN Pooled
             ELSE IF y \in Family(Rivals(x)) THEN Absent
             ELSE tx[t][y]]]

(* A party outside the responder may outbid a rival in the mempool. *)
Outbids(t, x) ==
    /\ ~Seen(t, x)
    /\ Input[x] # "wallet" => Seen(t, Input[x])
    /\ \A y \in Rivals(x) : ~Mined(t, y)

-----------------------------------------------------------------------------
(* The chains move. *)

(* Mutant: no cap. *)
DeeperUncapped(d, cap) == IF d < 0 THEN d ELSE d + 1

Deeper(d, cap) == IF d < 0 \/ d >= cap THEN d ELSE d + 1

(* A Sequentia block takes the whole Sequentia mempool and anchors to the  *)
(* Bitcoin tip.                                                            *)
SeqBlock ==
    /\ seqH < MaxSeq
    /\ (seqH + 1) * SeqBlockSeconds <= btcH * BtcBlockSeconds + Drift
    /\ seqH' = seqH + 1
    /\ tx' = [t \in Takes |-> [x \in Tx |->
                IF x \in SeqTx
                THEN [conf   |-> Deeper(tx[t][x].conf, ClaimDepth),
                      anchor |-> IF tx[t][x].conf = 0 THEN 1
                                                      ELSE tx[t][x].anchor]
                ELSE tx[t][x]]]
    /\ UNCHANGED <<btcH, reorgs>>

(* A Bitcoin block takes the whole Bitcoin mempool; every anchor deepens.  *)
BtcBlock ==
    /\ btcH < MaxBtc
    /\ (btcH + 1) * BtcBlockSeconds <= seqH * SeqBlockSeconds + Drift
    /\ btcH' = btcH + 1
    /\ tx' = [t \in Takes |-> [x \in Tx |->
                IF x \in BtcTx
                THEN [conf   |-> Deeper(tx[t][x].conf, DisburseConf),
                      anchor |-> 0]
                ELSE [conf   |-> tx[t][x].conf,
                      anchor |-> IF Mined(t, x)
                                 THEN Deeper(tx[t][x].anchor, AnchorDepth)
                                 ELSE 0]]]
    /\ UNCHANGED <<seqH, reorgs>>

(* Bitcoin replaces its tip by another block of the same height, and the   *)
(* Sequentia blocks anchored to the old one go with it.  What was in them  *)
(* is back in the mempools, except what is lost, with all built on it.     *)
Undone(t) == {x \in BtcTx : tx[t][x].conf = 1}
             \cup {x \in SeqTx : Mined(t, x) /\ tx[t][x].anchor = 1}

BtcReorg ==
    /\ reorgs < MaxReorgs
    /\ reorgs' = reorgs + 1
    /\ \E lost \in SUBSET MayVanish :
         tx' = [t \in Takes |-> [x \in Tx |->
                  IF x \in Family(lost \cap Undone(t)) THEN Absent
                  ELSE IF x \in Undone(t) THEN Pooled
                  ELSE tx[t][x]]]
    /\ UNCHANGED <<btcH, seqH>>

ChainsInit ==
    /\ btcH = 0 /\ seqH = 0 /\ reorgs = 0
    /\ tx = [t \in Takes |-> [x \in Tx |-> Absent]]

ChainsTypeOK ==
    /\ btcH \in 0..MaxBtc /\ seqH \in 0..MaxSeq
    /\ reorgs \in 0..MaxReorgs
    /\ tx \in [Takes -> [Tx -> TxRecord]]
=============================================================================
