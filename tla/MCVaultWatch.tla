---------------------------- MODULE MCVaultWatch ----------------------------
(* VaultWatch for TLC: a funding and two rival exits. *)
EXTENDS VaultWatch

MCTxs == {"fund", "repay", "liquidate"}
MCCoins == {"vault"}
MCSpends == [x \in MCTxs |-> IF x = "fund" THEN "none" ELSE "vault"]
MCMakes == [x \in MCTxs |-> IF x = "fund" THEN {"vault"} ELSE {}]

(* What the watcher is known to get wrong is kept out: a reorg together    *)
(* with an unanswered question, a request that finds what the scan has not *)
(* come to, and a ghost that comes back with the spender it had (README,   *)
(* "What else the models show").                                           *)
Apart ==
    /\ forks = 0 \/ fails = 0
    /\ v.height <= scanned /\ v.fundHeight <= scanned
    /\ v.by # None => v.state \in Closed
=============================================================================
