----------------------------- MODULE Timelocks -----------------------------
(***************************************************************************)
(* The deadlines of a cross-chain (Tier B) loan and the judgement every    *)
(* party makes of them: pignus/btc_collateral.py, timelocks_sane and       *)
(* effective_repay_deadline.  A loan is locked by four absolute block      *)
(* heights, two on each chain, and the chains run at different speeds, so  *)
(* every comparison goes through seconds.  The constants are parameters    *)
(* here because timelocks_sane takes the block times as arguments and a    *)
(* model scales the margins down with them.                                *)
(***************************************************************************)
EXTENDS Integers

CONSTANTS
    BtcBlockSeconds,    \* BTC_BLOCK_SECONDS, 600
    SeqBlockSeconds,    \* SEQ_BLOCK_SECONDS, 60
    UpgradeMargin,      \* UPGRADE_MARGIN_SECONDS, a day
    RepayMargin,        \* REPAY_MARGIN_SECONDS, a day
    ClaimMargin,        \* CLAIM_MARGIN_SECONDS, two hours
    TermMinimum         \* TERM_MINIMUM_SECONDS, a day

ASSUME MarginAssumption ==
    /\ BtcBlockSeconds \in Nat \ {0}
    /\ SeqBlockSeconds \in Nat \ {0}
    /\ UpgradeMargin \in Nat \ {0}
    /\ RepayMargin \in Nat \ {0}
    /\ ClaimMargin \in Nat \ {0}
    /\ TermMinimum \in Nat \ {0}

(* CLAIM_MARGIN_BLOCKS: the claim margin counted in Sequentia blocks. *)
ClaimMarginBlocks == ClaimMargin \div SeqBlockSeconds

(* The four heights of one loan; d_refund and repay_deadline are Sequentia *)
(* heights, abort_after and recover_after Bitcoin heights.                 *)
Deadlines == [d_refund : Int, repay_deadline : Int,
              abort_after : Int, recover_after : Int]

(* Mutant: the lender claims up to the written deadline. *)
WrittenDeadline(loan) == loan.repay_deadline

(* The Sequentia height from which a lender no longer claims a repayment.  *)
EffectiveRepayDeadline(loan) == loan.repay_deadline - ClaimMarginBlocks

(* Seconds from the tips to a height of either chain. *)
BtcS(h, btc) == (h - btc) * BtcBlockSeconds
SeqS(h, seq) == (h - seq) * SeqBlockSeconds

(* The problems timelocks_sane can find, one name for each.  The checks on *)
(* the fee floor, on time-valued locktimes and on equal hashes are about   *)
(* data this model does not carry.                                         *)
TimelockProblems(loan, btc, seq) ==
    LET effective == EffectiveRepayDeadline(loan)
    IN  {p \in {"claim window", "upgrade window", "repay window",
                "sweep too soon", "term too short", "sweep before abort"} :
          \/ /\ p = "claim window"
             /\ SeqS(loan.d_refund, seq) < ClaimMargin
          \/ /\ p = "upgrade window"
             /\ BtcS(loan.abort_after, btc) - SeqS(loan.d_refund, seq)
                    < UpgradeMargin
          \/ /\ p = "repay window"
             /\ SeqS(effective, seq) < ClaimMargin
          \/ /\ p = "sweep too soon"
             /\ BtcS(loan.recover_after, btc) - SeqS(loan.repay_deadline, seq)
                    < RepayMargin
          \/ /\ p = "term too short"
             /\ SeqS(effective, seq) - SeqS(loan.d_refund, seq) < TermMinimum
          \/ /\ p = "sweep before abort"
             /\ BtcS(loan.recover_after, btc) <= BtcS(loan.abort_after, btc)}

TimelocksSane(loan, btc, seq) == TimelockProblems(loan, btc, seq) = {}
=============================================================================
