---------------------------- MODULE MCLineWatch ----------------------------
(* LineWatch for TLC: an offer of two lots, one of them taken, the rest     *)
(* taken back by the lender; the vault is spent in part or closed.      *)
EXTENDS LineWatch

MCTxs == {"fund", "take", "refund", "part", "close"}
MCOfferCoins == {"offer", "rest"}
MCVaultCoins == {"vault", "next"}
MCCoins == MCOfferCoins \cup MCVaultCoins
MCSpends == [x \in MCTxs |-> CASE x = "fund" -> None
                               [] x = "take" -> "offer"
                               [] x = "refund" -> "rest"
                               [] OTHER -> "vault"]
MCMakes == [x \in MCTxs |-> CASE x = "fund" -> {"offer"}
                              [] x = "take" -> {"rest", "vault"}
                              [] x = "part" -> {"next"}
                              [] OTHER      -> {}]
MCLock == [x \in MCTxs |-> IF x = "take" THEN 1 ELSE 2]
MCKinds == {[x \in MCTxs |-> CASE x = "part"   -> p
                               [] x = "close"  -> c
                               [] x = "refund" -> r
                               [] OTHER        -> x] :
              <<p, c, r>> \in {<<"repay", "repaid", None>>,
                               <<"liquidate", "liquidated", None>>,
                               <<"top_up", None, "refund">>}}

(* A reorg or a fault, not both: the theorems have any number of each. *)
OneTrouble == faults + forks <= 1

(* One take of the offer, and nothing after it. *)
MCTakeOnly == {[x \in MCTxs |-> IF x \in {"fund", "take"} THEN x ELSE None]}

(* An offer of two lots, taken twice. *)
MCTwoTxs == {"fund", "take", "again"}
MCTwoVaults == {"vault", "other"}
MCTwoCoins == MCOfferCoins \cup MCTwoVaults
MCTwoSpends == [x \in MCTwoTxs |-> IF x = "again" THEN "rest" ELSE MCSpends[x]]
MCTwoMakes == [x \in MCTwoTxs |-> IF x = "again" THEN {"other"} ELSE MCMakes[x]]
MCTwoLock == [x \in MCTwoTxs |-> 1]
MCTwoTakes == {[x \in MCTwoTxs |-> IF x = "again" THEN "take" ELSE x]}
=============================================================================
