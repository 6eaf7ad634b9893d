---------------------------- MODULE MCRepurchase ----------------------------
EXTENDS Repurchase

Terms(debt, value, borrower, after) ==
    [asset |-> "gold", q |-> 2, principal |-> 2, debt |-> debt,
     value |-> value, cu |-> "borrower_cu", lender |-> "lender",
     borrower |-> borrower, after |-> after]

(* At height 6, and at the median time of height 6. *)
MCBorrowerDocs == {Terms(3, 6, "borrower", 6), Terms(3, 6, "borrower", 26)}

(* The lender's copy may say another debt and worth with the same bond, or *)
(* somebody else to pay; the last one is refused.                          *)
MCLenderDocs ==
    MCBorrowerDocs
      \cup {Terms(4, 7, "borrower", 6), Terms(3, 6, "lender", 6),
            Terms(6, 6, "borrower", 6)}

MCMisses == {-1, 1}
=============================================================================
