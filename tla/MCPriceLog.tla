----------------------------- MODULE MCPriceLog -----------------------------
(* PriceLog for TLC: two markets. *)
EXTENDS PriceLog, TLC

CONSTANTS gold, oil
MCMarkets == {gold, oil}
MCAlike == Permutations(MCMarkets)
=============================================================================
