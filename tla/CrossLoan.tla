----------------------------- MODULE CrossLoan -----------------------------
(***************************************************************************)
(* Origination, repayment and settlement of cross-chain loans: the         *)
(* lender's responder (bin/pignus-cli, cmd_btc_respond) against a borrower *)
(* who may do whatever the scripts let them, on two chains that reorg.     *)
(*                                                                         *)
(* The responder is one process that runs its passes in a loop.  What it   *)
(* knows is a state file (_ResponderState) written durably field by field; *)
(* it can die between any write and the send beside it, so a send is three *)
(* actions here: ...Mark writes the intent, ...Send gives the transaction  *)
(* to the node, ...Record writes the result.  pc is what is lost by dying. *)
(* The passes run in a fixed order; here any may come next, which is more  *)
(* than the code does.  The relay is not a variable: whatever it serves or *)
(* withholds shows in which pass acts on which take and when, and in       *)
(* RelayTells where a pass takes its word for what the state file lacks.   *)
(***************************************************************************)
EXTENDS Chains, FiniteSets

CONSTANTS
    Lots,             \* offer["lots"]
    Loan,             \* the four deadlines of the offer
    MaxCrashes,       \* how often the responder dies
    MaxLost,          \* how often a node's answer to a send is lost
    MayReplace,       \* borrower transactions replaceable in the mempool
    BorrowerReports,  \* the borrower reports the claim of the principal
    RelayTells,       \* the relay names upgrades the state file does not
    OperatorLooks,    \* who clears an in-flight flag has checked the wallet
    OperatorClears,   \* an operator may run btc-responder-clear at all
    MaxLate,          \* Sequentia blocks a due pass may be late by
    LenderPrompt,     \* time waits for the responder, up to MaxLate
    BorrowerPrompt    \* time waits for a borrower who can reclaim

VARIABLES
    have,       \* the state file: have[t] is the record of take t
    pc,         \* what the responder is in the middle of
    sent,       \* principals of take t that reached the network
    tPublic,    \* the secret t of the loan has been in a mempool
    served,     \* the relay holds the secret for the borrower
    crashes, lost,
    late        \* Sequentia blocks since nothing was due

lender == <<have, pc, sent, tPublic, served, crashes, lost, late>>
vars == <<chains, lender>>

ASSUME LoanAssumption ==
    /\ IsFiniteSet(Takes)
    /\ Lots \in Nat \ {0}
    /\ Loan \in Deadlines
    /\ MaxCrashes \in Nat /\ MaxLost \in Nat /\ MaxLate \in Nat
    /\ MayReplace \subseteq {"prevault", "take", "repay", "unrepay"}
    /\ {BorrowerReports, RelayTells, OperatorLooks, OperatorClears,
        LenderPrompt, BorrowerPrompt} \subseteq BOOLEAN

(* The bound of `sent`: a second principal is already one too many. *)
SentCap == 2

Fields == {"t", "vault_txid", "disbursing", "disbursement_txid",
           "upgrade_txid", "claiming", "claim_txid", "claim_of_txid",
           "refunding", "principal_refunded", "secret_published"}

(* A field is set or not; what a txid names is in tx. *)
Record == [Fields -> BOOLEAN]

Idle == [op |-> "idle"]
Busy == [op : {"disburse", "disbursed", "upgraded", "claim", "claimed",
               "refund", "refunded"},
         take : Takes]

TypeOK ==
    /\ ChainsTypeOK
    /\ have \in [Takes -> Record]
    /\ pc \in {Idle} \cup Busy
    /\ sent \in [Takes -> 0..SentCap]
    /\ tPublic \in [Takes -> BOOLEAN]
    /\ served \in [Takes -> BOOLEAN]
    /\ crashes \in 0..MaxCrashes /\ lost \in 0..MaxLost
    /\ late \in 0..MaxLate

Set(t, on, off) ==
    have' = [have EXCEPT ![t] = [f \in Fields |->
               IF f \in on THEN TRUE ELSE IF f \in off THEN FALSE
               ELSE have[t][f]]]

At(op, t) == pc = [op |-> op, take |-> t]
Go(op, t) == pc' = [op |-> op, take |-> t]

Sane == TimelocksSane(Loan, btcH, seqH)
Effective == EffectiveRepayDeadline(Loan)

Init ==
    /\ ChainsInit
    /\ have = [t \in Takes |-> [f \in Fields |-> FALSE]]
    /\ pc = Idle
    /\ sent = [t \in Takes |-> 0]
    /\ tPublic = [t \in Takes |-> FALSE]
    /\ served = [t \in Takes |-> FALSE]
    /\ crashes = 0 /\ lost = 0 /\ late = 0

-----------------------------------------------------------------------------
(* The handshake. *)

(* hash_pass: the loan's secret is drawn and written before its hash goes  *)
(* to the relay.  A hash already drawn is only sent again.                 *)
HashPass(t) ==
    /\ pc = Idle /\ ~have[t].t
    /\ Sane
    /\ Set(t, {"t"}, {})
    /\ UNCHANGED <<chains, pc, sent, tPublic, served, crashes, lost, late>>

(* Mutant: a payment in flight is not counted. *)
LotsRecorded(t) ==
    Cardinality({u \in Takes \ {t} : have[u].disbursement_txid})

(* lots_committed: the lots this key has put money behind, from its own    *)
(* state file.                                                             *)
LotsCommitted(t) ==
    Cardinality({u \in Takes \ {t} :
                   have[u].disbursing \/ have[u].disbursement_txid})

(* sign_pass: the release is recorded, then published. *)
SignPass(t) ==
    /\ pc = Idle
    /\ have[t].t /\ ~have[t].vault_txid
    /\ LotsCommitted(t) < Lots
    /\ Sane
    /\ Set(t, {"vault_txid"}, {})
    /\ UNCHANGED <<chains, pc, sent, tPublic, served, crashes, lost, late>>

-----------------------------------------------------------------------------
(* disburse_pass *)

Collateral(t) ==                            \* collateral_committed
    Unspent(t, "prevault") /\ tx[t]["prevault"].conf >= DisburseConf

(* Mutant: the intent is not written before the send. *)
DisburseMarkUnwritten(t) ==
    /\ pc = Idle
    /\ have[t].t /\ have[t].vault_txid
    /\ ~have[t].disbursement_txid /\ ~have[t].disbursing
    /\ LotsCommitted(t) < Lots
    /\ Sane
    /\ Collateral(t)
    /\ Go("disburse", t)
    /\ UNCHANGED <<chains, have, sent, tPublic, served, crashes, lost, late>>

DisburseMark(t) ==
    /\ pc = Idle
    /\ have[t].t /\ have[t].vault_txid
    /\ ~have[t].disbursement_txid /\ ~have[t].disbursing
    /\ LotsCommitted(t) < Lots
    /\ Sane
    /\ Collateral(t)
    /\ Set(t, {"disbursing"}, {})
    /\ Go("disburse", t)
    /\ UNCHANGED <<chains, sent, tPublic, served, crashes, lost, late>>

(* pay_disbursement raised NotBroadcast: nothing went out, the flag goes.  *)
DisburseNotBroadcast(t) ==
    /\ At("disburse", t) /\ lost < MaxLost
    /\ lost' = lost + 1
    /\ Set(t, {}, {"disbursing"})
    /\ pc' = Idle
    /\ UNCHANGED <<chains, sent, tPublic, served, crashes, late>>

(* The payment reaches the network.  A second one to the same address is   *)
(* only counted.                                                           *)
Pay(t) ==
    /\ sent[t] < SentCap
    /\ sent' = [sent EXCEPT ![t] = @ + 1]
    /\ IF Seen(t, "disburse") THEN UNCHANGED tx ELSE Enter(t, "disburse")

DisburseSend(t) ==
    /\ At("disburse", t)
    /\ Pay(t)
    /\ Go("disbursed", t)
    /\ UNCHANGED <<btcH, seqH, reorgs, have, tPublic, served, crashes, lost,
                   late>>

(* Mutant: a lost answer clears the flag. *)
DisburseLostClears(t) ==
    /\ At("disburse", t) /\ lost < MaxLost
    /\ lost' = lost + 1
    /\ Pay(t) \/ UNCHANGED <<sent, tx>>
    /\ Set(t, {}, {"disbursing"})
    /\ pc' = Idle
    /\ UNCHANGED <<btcH, seqH, reorgs, tPublic, served, crashes, late>>

(* The node's answer is lost, whether or not the payment went out; the     *)
(* flag stays.                                                             *)
DisburseLost(t) ==
    /\ At("disburse", t) /\ lost < MaxLost
    /\ lost' = lost + 1
    /\ Pay(t) \/ UNCHANGED <<sent, tx>>
    /\ pc' = Idle
    /\ UNCHANGED <<btcH, seqH, reorgs, have, tPublic, served, crashes, late>>

DisburseRecord(t) ==
    /\ At("disbursed", t)
    /\ Set(t, {"disbursement_txid"}, {"disbursing"})
    /\ pc' = Idle
    /\ UNCHANGED <<chains, sent, tPublic, served, crashes, lost, late>>

(* A send whose answer was lost is looked for: unspent at its address, or  *)
(* spent by the claim the borrower reported.                               *)
DisburseFound(t) ==
    /\ pc = Idle /\ have[t].disbursing
    /\ \/ Scanned(t, "disburse")
       \/ BorrowerReports /\ Seen(t, "take")

DisburseRecover(t) ==
    /\ DisburseFound(t)
    /\ Set(t, {"disbursement_txid"}, {"disbursing"})
    /\ UNCHANGED <<chains, pc, sent, tPublic, served, crashes, lost, late>>

(* cmd_btc_responder_clear, without --found and with it; the responder is  *)
(* stopped while it runs.  Not finding the payment is the command's only   *)
(* check; OperatorLooks adds the person who looked into the wallet first.  *)
OperatorClear(t) ==
    /\ OperatorClears
    /\ pc = Idle /\ have[t].disbursing
    /\ ~Scanned(t, "disburse")
    /\ OperatorLooks => sent[t] = 0
    /\ Set(t, {}, {"disbursing"})
    /\ UNCHANGED <<chains, pc, sent, tPublic, served, crashes, lost, late>>

OperatorFound(t) ==
    /\ OperatorClears
    /\ pc = Idle /\ have[t].disbursing
    /\ Unspent(t, "disburse")
    /\ Set(t, {"disbursement_txid"}, {"disbursing"})
    /\ UNCHANGED <<chains, pc, sent, tPublic, served, crashes, lost, late>>

-----------------------------------------------------------------------------
(* upgrade_pass: the claim of the principal shows w, and once that claim   *)
(* is settled w moves the collateral into the vault.                       *)

UpgradeDue(t) ==
    /\ pc = Idle
    /\ have[t].disbursement_txid /\ ~have[t].upgrade_txid
    /\ AnchorSafe(t, "take")
    /\ Accepted(t, "upgrade") \/ Unspent(t, "upgrade")

UpgradeSend(t) ==
    /\ UpgradeDue(t)
    /\ IF Seen(t, "upgrade") THEN UNCHANGED tx ELSE Enter(t, "upgrade")
    /\ Go("upgraded", t)
    /\ UNCHANGED <<btcH, seqH, reorgs, have, sent, tPublic, served, crashes,
                   lost, late>>

UpgradeRecord(t) ==
    /\ At("upgraded", t)
    /\ Set(t, {"upgrade_txid"}, {})
    /\ pc' = Idle
    /\ UNCHANGED <<chains, sent, tPublic, served, crashes, lost, late>>

-----------------------------------------------------------------------------
(* claim_pass: take a repayment that has arrived, which shows t. *)

(* The debt has begun, by the state file or by the take the relay serves,  *)
(* whose upgrade_txid nothing here checks.                                 *)
Started(t) == have[t].upgrade_txid \/ RelayTells

(* Mutant: a claim still in the mempool counts as one that never landed. *)
ClaimRecoverMined(t) ==
    /\ pc = Idle /\ have[t].t /\ Started(t)
    /\ have[t].claiming /\ ~have[t].claim_txid
    /\ IF Mined(t, "claim")
       THEN Set(t, {"claim_txid", "claim_of_txid"}, {"claiming"})
       ELSE Set(t, {}, {"claiming"})
    /\ UNCHANGED <<chains, pc, sent, tPublic, served, crashes, lost, late>>

(* A claim that was begun and not recorded is looked up by what it spends. *)
ClaimRecover(t) ==
    /\ pc = Idle /\ have[t].t /\ Started(t)
    /\ have[t].claiming /\ ~have[t].claim_txid
    /\ IF Seen(t, "claim")
       THEN Set(t, {"claim_txid", "claim_of_txid"}, {"claiming"})
       ELSE Set(t, {}, {"claiming"})
    /\ UNCHANGED <<chains, pc, sent, tPublic, served, crashes, lost, late>>

(* _claim_undone: the outpoint that was claimed is unspent again. *)
ClaimUndone(t) ==
    /\ pc = Idle /\ have[t].t /\ Started(t)
    /\ have[t].claim_txid /\ have[t].claim_of_txid
    /\ Unspent(t, "repay")
    /\ Set(t, {}, {"claim_txid"})
    /\ UNCHANGED <<chains, pc, sent, tPublic, served, crashes, lost, late>>

(* Mutant: a repayment is claimed whenever it arrives. *)
ClaimDueAnyTime(t) ==
    /\ pc = Idle /\ have[t].t /\ Started(t)
    /\ ~have[t].claiming /\ ~have[t].claim_txid
    /\ Unspent(t, "repay") /\ tx[t]["repay"].conf >= ClaimDepth

(* _find_repayment, and the margin before the borrower's own refund. *)
ClaimDue(t) ==
    /\ pc = Idle /\ have[t].t /\ Started(t)
    /\ ~have[t].claiming /\ ~have[t].claim_txid
    /\ Unspent(t, "repay") /\ tx[t]["repay"].conf >= ClaimDepth
    /\ seqH < Effective

ClaimMark(t) ==
    /\ ClaimDue(t)
    /\ Set(t, {"claiming"}, {})
    /\ Go("claim", t)
    /\ UNCHANGED <<chains, sent, tPublic, served, crashes, lost, late>>

ClaimBroadcast(t) ==
    /\ Accepted(t, "claim")
    /\ Enter(t, "claim")
    /\ tPublic' = [tPublic EXCEPT ![t] = TRUE]

ClaimSend(t) ==
    /\ At("claim", t)
    /\ ClaimBroadcast(t)
    /\ Go("claimed", t)
    /\ UNCHANGED <<btcH, seqH, reorgs, have, sent, served, crashes, lost,
                   late>>

(* claim_repayment raised: the node refused, or took it and the answer was *)
(* lost.  Either way the intent stays.                                     *)
ClaimLost(t) ==
    /\ At("claim", t)
    /\ \/ /\ lost < MaxLost /\ lost' = lost + 1
          /\ ClaimBroadcast(t) \/ UNCHANGED <<tx, tPublic>>
       \/ ~Accepted(t, "claim") /\ UNCHANGED <<tx, tPublic, lost>>
    /\ pc' = Idle
    /\ UNCHANGED <<btcH, seqH, reorgs, have, sent, served, crashes, late>>

ClaimRecord(t) ==
    /\ At("claimed", t)
    /\ Set(t, {"claim_txid", "claim_of_txid"}, {"claiming"})
    /\ pc' = Idle
    /\ UNCHANGED <<chains, sent, tPublic, served, crashes, lost, late>>

-----------------------------------------------------------------------------
(* publish_pass: the settled claim's secret goes to the relay.  The report *)
(* can be lost on the way there or on the way back; only a 200 ends it.    *)

PublishDue(t) ==
    /\ pc = Idle /\ have[t].t
    /\ have[t].claim_txid /\ have[t].claim_of_txid
    /\ ~have[t].secret_published
    /\ AnchorSafe(t, "claim")

PublishPass(t) ==
    /\ PublishDue(t)
    /\ served' = [served EXCEPT ![t] = TRUE]
    /\ Set(t, {"secret_published"}, {})
    /\ UNCHANGED <<chains, pc, sent, tPublic, crashes, lost, late>>

(* Mutant: a report once sent counts as delivered. *)
PublishLostFinal(t) ==
    /\ PublishDue(t) /\ lost < MaxLost
    /\ lost' = lost + 1
    /\ served' = [served EXCEPT ![t] = TRUE] \/ UNCHANGED served
    /\ Set(t, {"secret_published"}, {})
    /\ UNCHANGED <<chains, pc, sent, tPublic, crashes, late>>

PublishLost(t) ==
    /\ PublishDue(t) /\ lost < MaxLost
    /\ lost' = lost + 1
    /\ served' = [served EXCEPT ![t] = TRUE] \/ UNCHANGED served
    /\ UNCHANGED <<chains, have, pc, sent, tPublic, crashes, late>>

-----------------------------------------------------------------------------
(* refund_pass: take back a principal nobody claimed. *)

RefundOpen(t) ==
    /\ pc = Idle
    /\ have[t].disbursement_txid /\ ~have[t].principal_refunded
    /\ seqH >= Loan.d_refund

(* Mutant: a refund that never landed stays begun. *)
RefundRecoverStuck(t) ==
    /\ RefundOpen(t) /\ have[t].refunding
    /\ Seen(t, "refund") \/ Seen(t, "take")
    /\ Set(t, {"principal_refunded"}, {"refunding"})
    /\ UNCHANGED <<chains, pc, sent, tPublic, served, crashes, lost, late>>

(* A refund that was begun and not recorded is looked up by the spend of   *)
(* the principal's outpoint.                                               *)
RefundRecover(t) ==
    /\ RefundOpen(t) /\ have[t].refunding
    /\ IF Seen(t, "refund") \/ Seen(t, "take")
       THEN Set(t, {"principal_refunded"}, {"refunding"})
       ELSE Set(t, {}, {"refunding"})
    /\ UNCHANGED <<chains, pc, sent, tPublic, served, crashes, lost, late>>

RefundMark(t) ==
    /\ RefundOpen(t) /\ ~have[t].refunding
    /\ Unspent(t, "disburse")
    /\ Set(t, {"refunding"}, {})
    /\ Go("refund", t)
    /\ UNCHANGED <<chains, sent, tPublic, served, crashes, lost, late>>

RefundSend(t) ==
    /\ At("refund", t)
    /\ Accepted(t, "refund")
    /\ Enter(t, "refund")
    /\ Go("refunded", t)
    /\ UNCHANGED <<btcH, seqH, reorgs, have, sent, tPublic, served, crashes,
                   lost, late>>

(* refund_disbursement raised.  Unlike the other two, the intent goes,     *)
(* whether the node refused or only its answer was lost.                   *)
RefundLost(t) ==
    /\ At("refund", t)
    /\ \/ /\ lost < MaxLost /\ lost' = lost + 1
          /\ (Accepted(t, "refund") /\ Enter(t, "refund")) \/ UNCHANGED tx
       \/ ~Accepted(t, "refund") /\ UNCHANGED <<tx, lost>>
    /\ Set(t, {}, {"refunding"})
    /\ pc' = Idle
    /\ UNCHANGED <<btcH, seqH, reorgs, sent, tPublic, served, crashes, late>>

RefundRecord(t) ==
    /\ At("refunded", t)
    /\ Set(t, {"principal_refunded"}, {"refunding"})
    /\ pc' = Idle
    /\ UNCHANGED <<chains, sent, tPublic, served, crashes, lost, late>>

-----------------------------------------------------------------------------
(* The responder dies and is started again: the state file is all it has.  *)
Crash ==
    /\ pc # Idle /\ crashes < MaxCrashes
    /\ crashes' = crashes + 1
    /\ pc' = Idle
    /\ UNCHANGED <<chains, have, sent, tPublic, served, lost, late>>

(* cmd_btc_timeout: the lender sweeps a vault nobody released, whatever    *)
(* the responder has on record of it.                                      *)
Timeout(t) ==
    /\ btcH >= Loan.recover_after
    /\ Accepted(t, "timeout")
    /\ Enter(t, "timeout")
    /\ UNCHANGED <<btcH, seqH, reorgs, lender>>

-----------------------------------------------------------------------------
(* The borrower: any spend the scripts allow, in any order. *)

BorrowerMay(t, x) ==
    CASE x = "prevault" -> have[t].vault_txid       \* release verified first
      [] x = "abort"    -> btcH >= Loan.abort_after
      [] x = "repay"    -> have[t].t                \* the hash is known
      [] x = "unrepay"  -> seqH >= Loan.repay_deadline
      [] x = "reclaim"  -> tPublic[t] \/ served[t]
      [] OTHER          -> TRUE

Borrow(t, x) ==
    /\ BorrowerMay(t, x)
    /\ Outbids(t, x)
    /\ Enter(t, x)
    /\ UNCHANGED <<btcH, seqH, reorgs, lender>>

(* A transaction the borrower signalled replaceable is withdrawn. *)
Replace(t, x) ==
    /\ tx[t][x].conf = 0
    /\ tx' = [tx EXCEPT ![t] = [y \in Tx |->
                IF y \in Family({x}) THEN Absent ELSE tx[t][y]]]
    /\ UNCHANGED <<btcH, seqH, reorgs, lender>>

-----------------------------------------------------------------------------
(* Time.  Under LenderPrompt a Sequentia block waits for a responder that  *)
(* has been behind for MaxLate of them: outages, restarts and a relay that *)
(* serves nothing all count as being late.                                 *)

Due(t) ==
    \/ DisburseFound(t)
    \/ UpgradeDue(t)
    \/ have[t].upgrade_txid /\ ClaimDue(t)
    \/ have[t].claiming /\ ~have[t].claim_txid
    \/ have[t].claim_txid /\ Unspent(t, "repay")
    \/ PublishDue(t)
    \/ RefundOpen(t) /\ (have[t].refunding \/ Unspent(t, "disburse"))

SomethingDue == pc # Idle \/ \E t \in Takes : Due(t)

ReclaimDue(t) ==
    (tPublic[t] \/ served[t]) /\ Accepted(t, "reclaim")

TimeMayPass ==
    /\ LenderPrompt /\ SomethingDue => late < MaxLate
    /\ BorrowerPrompt => \A t \in Takes : ~ReclaimDue(t)

SeqTick ==
    /\ TimeMayPass
    /\ SeqBlock
    /\ late' = IF LenderPrompt /\ SomethingDue THEN late + 1 ELSE 0
    /\ UNCHANGED <<have, pc, sent, tPublic, served, crashes, lost>>

BtcTick ==
    /\ TimeMayPass
    /\ BtcBlock
    /\ UNCHANGED lender

Reorg == BtcReorg /\ UNCHANGED lender

-----------------------------------------------------------------------------
Responder(t) ==
    \/ HashPass(t) \/ SignPass(t)
    \/ DisburseMark(t) \/ DisburseNotBroadcast(t) \/ DisburseSend(t)
    \/ DisburseLost(t) \/ DisburseRecord(t) \/ DisburseRecover(t)
    \/ UpgradeSend(t) \/ UpgradeRecord(t)
    \/ ClaimRecover(t) \/ ClaimUndone(t) \/ ClaimMark(t) \/ ClaimSend(t)
    \/ ClaimLost(t) \/ ClaimRecord(t)
    \/ PublishPass(t) \/ PublishLost(t)
    \/ RefundRecover(t) \/ RefundMark(t) \/ RefundSend(t) \/ RefundLost(t)
    \/ RefundRecord(t)

Operator(t) == OperatorClear(t) \/ OperatorFound(t) \/ Timeout(t)

Borrower(t) ==
    \/ \E x \in {"prevault", "take", "abort", "repay", "unrepay", "reclaim"} :
         Borrow(t, x)
    \/ \E x \in MayReplace : Replace(t, x)

Environment == SeqTick \/ BtcTick \/ Reorg \/ Crash

Next ==
    \/ \E t \in Takes : Responder(t) \/ Operator(t) \/ Borrower(t)
    \/ Environment

Spec == Init /\ [][Next]_vars

(* Fairness: the loop runs every pass again and again, a begun send ends,  *)
(* and both chains go on.  Of the borrower nothing is assumed, except that *)
(* the prompt one time waits for reclaims.  Nothing makes the relay name   *)
(* an upgrade; one that a claim was begun on it goes on serving.           *)
Finish(t) ==
    \/ DisburseNotBroadcast(t) \/ DisburseSend(t) \/ DisburseLost(t)
    \/ DisburseRecord(t) \/ UpgradeRecord(t)
    \/ ClaimSend(t) \/ ClaimLost(t) \/ ClaimRecord(t)
    \/ RefundSend(t) \/ RefundLost(t) \/ RefundRecord(t)

Fairness ==
    /\ \A t \in Takes :
         /\ WF_vars(Finish(t))
         /\ WF_vars(DisburseRecover(t))
         /\ WF_vars(UpgradeSend(t))
         /\ WF_vars(ClaimRecover(t))
         /\ WF_vars(ClaimUndone(t))
         /\ WF_vars(have[t].upgrade_txid /\ ClaimMark(t))
         /\ WF_vars(PublishPass(t))
         /\ WF_vars(RefundRecover(t))
         /\ WF_vars(RefundMark(t))
         /\ WF_vars(BorrowerPrompt /\ Borrow(t, "reclaim"))
    /\ WF_vars(SeqTick)
    /\ WF_vars(BtcTick)

FairSpec == Spec /\ Fairness

-----------------------------------------------------------------------------
(* Properties. *)

(* No loan's principal is paid twice, whatever dies or is lost between the *)
(* payment and its record (_ResponderState, disburse_pass).                *)
PaidOnce == \A t \in Takes : sent[t] <= 1

(* A principal that may have gone out is in the state file, as paid or as  *)
(* in flight: disburse_pass writes the intent before the send and keeps it *)
(* when the answer is lost.                                                *)
PaymentRemembered ==
    \A t \in Takes :
      sent[t] > 0 => have[t].disbursing \/ have[t].disbursement_txid

(* lots is the whole of a lender's exposure to an offer: no more of its    *)
(* takes are ever paid (lots_committed).                                   *)
WithinLots == Cardinality({t \in Takes : sent[t] > 0}) <= Lots

(* A borrower who has the principal and their collateral back has paid the *)
(* debt: step 8 of the origination, and the margins of timelocks_sane.     *)
LenderWhole ==
    \A t \in Takes :
      Mined(t, "take") /\ (Mined(t, "abort") \/ Mined(t, "reclaim"))
        => Seen(t, "claim")

(* A lender who was paid the debt does not sweep the collateral too, of a  *)
(* borrower who reclaims when they can (repay_deadline to recover_after).  *)
BorrowerWhole ==
    \A t \in Takes : ~(Mined(t, "claim") /\ Mined(t, "timeout"))

(* The state file and the network tell the same story across crashes and   *)
(* lost answers (claim_pass, upgrade_pass, publish_pass): a claim that is  *)
(* out there is on record, as begun or by the outpoint it spent, since     *)
(* nothing else leads back to it; and what is on record happened: a claim  *)
(* has shown the secret, a loan that was started rests on a principal that *)
(* was paid, a secret handed over was the relay's to serve.                *)
RecordsBacked ==
    \A t \in Takes :
      /\ have[t].claim_txid => tPublic[t]
      /\ have[t].upgrade_txid => sent[t] > 0
      /\ have[t].secret_published => served[t]
      /\ Seen(t, "claim") => have[t].claiming \/ have[t].claim_of_txid

(* A principal that was paid does not lie in its hashlock for ever: the    *)
(* borrower claims it or refund_pass takes it back.                        *)
PrincipalSettled ==
    \A t \in Takes :
      sent[t] > 0 ~> Seen(t, "take") \/ Seen(t, "refund")

(* A claim of a repayment hands the borrower the secret: publish_pass, "the*)
(* other half of being paid", through crashes and lost reports.  The bound *)
(* leaves the chains the blocks that bury the claim.                       *)
BurialBlocks == 8
ClaimIsPublished ==
    \A t \in Takes :
      Seen(t, "claim") /\ seqH <= MaxSeq - BurialBlocks
        ~> served[t] \/ ~Seen(t, "claim")

(* Of a refund that was broadcast and not recorded, the spend of the       *)
(* outpoint "names the refund without ambiguity" (refund_pass).            *)
RecoveredRefundIsRefund ==
    [][\A t \in Takes :
         /\ ~have[t].principal_refunded /\ have'[t].principal_refunded
         /\ pc = Idle
         => Seen(t, "refund")]_vars

(* A refund on chain is accounted for in the state file.                   *)
RefundAccounted ==
    \A t \in Takes :
      Mined(t, "refund") ~> have[t].principal_refunded

(* A principal nobody claimed is taken back once its deadline has passed   *)
(* (refund_pass), also when a reorg undid the first refund.                *)
UnclaimedIsRefunded ==
    \A t \in Takes :
      have[t].disbursement_txid /\ Unspent(t, "disburse")
        /\ seqH >= Loan.d_refund
        ~> ~Unspent(t, "disburse")

(* "Check the coin, not the record, and claim again if it is loose"        *)
(* (claim_pass): the secret is out, the repayment is there unspent and the *)
(* borrower cannot take it back yet.                                       *)
LooseClaimRetaken ==
    \A t \in Takes :
      /\ tPublic[t] /\ have[t].upgrade_txid
      /\ Unspent(t, "repay") /\ tx[t]["repay"].conf >= ClaimDepth
      /\ seqH < Loan.repay_deadline
      ~> ~Unspent(t, "repay")
=============================================================================
