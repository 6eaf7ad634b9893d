---------------------------- MODULE MCOfferWatch ----------------------------
(* OfferWatch for TLC: an offer taken in part and then in full, or in full *)
(* at once, or withdrawn.                                                  *)
EXTENDS OfferWatch

MCTxs == {"fund", "part", "last", "full", "refund"}
MCCoins == {"whole", "remainder"}
MCSpends == [x \in MCTxs |-> CASE x = "fund" -> "none"
                               [] x = "last" -> "remainder"
                               [] OTHER      -> "whole"]
MCMakes == [x \in MCTxs |-> CASE x = "fund" -> {"whole"}
                              [] x = "part" -> {"remainder"}
                              [] OTHER      -> {}]

(* Either the chain moves, or the service fails and the publisher lists    *)
(* again; the two together are findings (README).                          *)
OneKind ==
    \/ fails + restarts + published = 0
    \/ forks + evictions = 0 /\ book.status # "delisted" /\ Height < MaxHeight
=============================================================================
