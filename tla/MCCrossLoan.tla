---------------------------- MODULE MCCrossLoan ----------------------------
(***************************************************************************)
(* CrossLoan for TLC.  One unit of time is a Sequentia block; a Bitcoin    *)
(* block is two of them rather than ten, and the margins are scaled with   *)
(* it.  The heights below are the tightest that timelocks_sane accepts     *)
(* with room for a payment a few blocks after the offer.                   *)
(***************************************************************************)
EXTENDS CrossLoan, TLC

MCLoan == [d_refund |-> 9, repay_deadline |-> 16,
           abort_after |-> 12, recover_after |-> 13]

(* A second take is followed for as long as two can be paid, and neither   *)
(* is repaid: the rest of a loan's life is its own.                        *)
Untouched(t) == \A f \in Fields : ~have[t][f]
SecondIsEarly ==
    \/ \E t \in Takes : \A u \in Takes \ {t} : Untouched(u)
    \/ /\ seqH <= 6 /\ reorgs = 0
       /\ \A t \in Takes : ~Seen(t, "repay")

(* The takes of an offer are alike. *)
TakePermutations == Permutations(Takes)
=============================================================================
