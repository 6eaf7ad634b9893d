----------------------------- MODULE MCTakeBook -----------------------------
(* TakeBook for TLC: an offer of one lot and two takes of it. *)
EXTENDS TakeBook, TLC

CONSTANTS t1, t2, a, b, c
MCTakes == {t1, t2}
MCHashes == {a, b, c}
MCAlike == Permutations(MCTakes) \cup Permutations(MCHashes)
=============================================================================
