-------------------------- MODULE CrossLoanProofs --------------------------
(***************************************************************************)
(* Machine-checked theorems about CrossLoan, for every set of takes, every *)
(* number of lots, crashes, lost answers and reorgs, and every deadline.   *)
(***************************************************************************)
EXTENDS CrossLoan, FiniteSetTheorems, TLAPS

(* A write of the state file changes the fields it names, of one take.     *)
LEMMA SetWrites ==
  ASSUME have \in [Takes -> Record],
         NEW t \in Takes, NEW on, NEW off, Set(t, on, off)
  PROVE  /\ have' \in [Takes -> Record]
         /\ \A u \in Takes \ {t} : have'[u] = have[u]
         /\ \A f \in Fields \ (on \cup off) : have'[t][f] = have[t][f]
         /\ \A f \in Fields \cap on : have'[t][f] = TRUE
         /\ \A f \in (Fields \cap off) \ on : have'[t][f] = FALSE
<1> DEFINE r == [f \in Fields |-> IF f \in on THEN TRUE
                                 ELSE IF f \in off THEN FALSE ELSE have[t][f]]
<1>1. have' = [have EXCEPT ![t] = r]
  BY DEF Set
<1>2. r \in Record
  BY DEF Record
<1>3. have' \in [Takes -> Record]
  BY <1>1, <1>2
<1>4. have'[t] = r
  BY <1>1
<1>5. \A u \in Takes \ {t} : have'[u] = have[u]
  BY <1>1
<1>6. /\ \A f \in Fields \ (on \cup off) : r[f] = have[t][f]
      /\ \A f \in Fields \cap on : r[f] = TRUE
      /\ \A f \in (Fields \cap off) \ on : r[f] = FALSE
  OBVIOUS
<1> HIDE DEF r
<1>7. QED
  BY <1>3, <1>4, <1>5, <1>6

(* Entering the mempool keeps the type of the transactions. *)
LEMMA EnterType ==
  ASSUME tx \in [Takes -> [Tx -> TxRecord]],
         NEW t \in Takes, NEW x, Enter(t, x)
  PROVE  tx' \in [Takes -> [Tx -> TxRecord]]
<1>1. Absent \in TxRecord /\ Pooled \in TxRecord
  BY ChainAssumption DEF Absent, Pooled, TxRecord, Depth
<1>2. [y \in Tx |-> IF y = x THEN Pooled
                    ELSE IF y \in Family(Rivals(x)) THEN Absent
                    ELSE tx[t][y]] \in [Tx -> TxRecord]
  BY <1>1
<1>3. QED
  BY <1>2 DEF Enter

(* Deepening stays below the cap, for a depth and for an anchor. *)
LEMMA DeeperType ==
  ASSUME NEW r \in TxRecord
  PROVE  /\ Deeper(r.conf, ClaimDepth) \in Depth
         /\ Deeper(r.conf, DisburseConf) \in Depth
         /\ Deeper(r.anchor, AnchorDepth) \in 0..AnchorDepth
<1>1. /\ r.conf \in -1..(ClaimDepth + DisburseConf)
      /\ r.anchor \in 0..AnchorDepth
  BY DEF TxRecord, Depth
<1>2. /\ ClaimDepth \in Nat \ {0} /\ DisburseConf \in Nat \ {0}
      /\ AnchorDepth \in Nat
  BY ChainAssumption
<1>3. QED
  BY <1>1, <1>2 DEF Deeper, Depth

-----------------------------------------------------------------------------
(* The chains keep their type, whatever the loans do.                      *)

LEMMA SeqBlockType == ChainsTypeOK /\ SeqBlock => ChainsTypeOK'
<1> SUFFICES ASSUME ChainsTypeOK, SeqBlock PROVE ChainsTypeOK'
  OBVIOUS
<1>1. seqH' \in 0..MaxSeq /\ btcH' \in 0..MaxBtc /\ reorgs' \in 0..MaxReorgs
  BY ChainAssumption DEF ChainsTypeOK, SeqBlock
<1>2. ASSUME NEW t \in Takes, NEW x \in Tx
      PROVE  (IF x \in SeqTx
              THEN [conf   |-> Deeper(tx[t][x].conf, ClaimDepth),
                    anchor |-> IF tx[t][x].conf = 0 THEN 1
                                                    ELSE tx[t][x].anchor]
              ELSE tx[t][x]) \in TxRecord
  <2>1. tx[t][x] \in TxRecord
    BY DEF ChainsTypeOK
  <2>2. Deeper(tx[t][x].conf, ClaimDepth) \in Depth
    BY <2>1, DeeperType
  <2>3. 1 \in 0..AnchorDepth
    BY ChainAssumption
  <2>4. QED
    BY <2>1, <2>2, <2>3 DEF TxRecord
<1>3. tx' \in [Takes -> [Tx -> TxRecord]]
  BY <1>2 DEF SeqBlock
<1>4. QED
  BY <1>1, <1>3 DEF ChainsTypeOK

LEMMA BtcBlockType == ChainsTypeOK /\ BtcBlock => ChainsTypeOK'
<1> SUFFICES ASSUME ChainsTypeOK, BtcBlock PROVE ChainsTypeOK'
  OBVIOUS
<1>1. seqH' \in 0..MaxSeq /\ btcH' \in 0..MaxBtc /\ reorgs' \in 0..MaxReorgs
  BY ChainAssumption DEF ChainsTypeOK, BtcBlock
<1>2. ASSUME NEW t \in Takes, NEW x \in Tx
      PROVE  (IF x \in BtcTx
              THEN [conf   |-> Deeper(tx[t][x].conf, DisburseConf),
                    anchor |-> 0]
              ELSE [conf   |-> tx[t][x].conf,
                    anchor |-> IF Mined(t, x)
                               THEN Deeper(tx[t][x].anchor, AnchorDepth)
                               ELSE 0]) \in TxRecord
  <2>1. tx[t][x] \in TxRecord
    BY DEF ChainsTypeOK
  <2>2. Deeper(tx[t][x].conf, DisburseConf) \in Depth
    BY <2>1, DeeperType
  <2>3. Deeper(tx[t][x].anchor, AnchorDepth) \in 0..AnchorDepth
    BY <2>1, DeeperType
  <2>4. 0 \in 0..AnchorDepth
    BY ChainAssumption
  <2>5. QED
    BY <2>1, <2>2, <2>3, <2>4 DEF TxRecord
<1>3. tx' \in [Takes -> [Tx -> TxRecord]]
  BY <1>2 DEF BtcBlock
<1>4. QED
  BY <1>1, <1>3 DEF ChainsTypeOK

LEMMA BtcReorgType == ChainsTypeOK /\ BtcReorg => ChainsTypeOK'
<1> SUFFICES ASSUME ChainsTypeOK, BtcReorg PROVE ChainsTypeOK'
  OBVIOUS
<1>1. seqH' \in 0..MaxSeq /\ btcH' \in 0..MaxBtc /\ reorgs' \in 0..MaxReorgs
  BY ChainAssumption DEF ChainsTypeOK, BtcReorg
<1>2. PICK gone \in SUBSET MayVanish :
        tx' = [t \in Takes |-> [x \in Tx |->
                 IF x \in Family(gone \cap Undone(t)) THEN Absent
                 ELSE IF x \in Undone(t) THEN Pooled
                 ELSE tx[t][x]]]
  BY DEF BtcReorg
<1>3. Absent \in TxRecord /\ Pooled \in TxRecord
  BY ChainAssumption DEF Absent, Pooled, TxRecord, Depth
<1>4. tx' \in [Takes -> [Tx -> TxRecord]]
  BY <1>2, <1>3 DEF ChainsTypeOK
<1>5. QED
  BY <1>1, <1>4 DEF ChainsTypeOK

-----------------------------------------------------------------------------
(* Type correctness. *)

LEMMA InitType == Init => TypeOK
<1> SUFFICES ASSUME Init PROVE TypeOK
  OBVIOUS
<1>1. Absent \in TxRecord
  BY ChainAssumption DEF Absent, TxRecord, Depth
<1>2. ChainsTypeOK
  BY <1>1, ChainAssumption DEF Init, ChainsInit, ChainsTypeOK
<1>3. QED
  BY <1>2, LoanAssumption DEF Init, TypeOK, Record, SentCap

(* A step of the responder that writes the state file and nothing else but *)
(* what it is in the middle of.                                            *)
LEMMA WriteType ==
  ASSUME TypeOK, NEW t \in Takes, NEW on, NEW off, Set(t, on, off),
         pc' \in {Idle} \cup Busy, UNCHANGED <<chains, crashes, late>>,
         lost' \in 0..MaxLost, sent' \in [Takes -> 0..SentCap],
         tPublic' \in [Takes -> BOOLEAN], served' \in [Takes -> BOOLEAN]
  PROVE  TypeOK'
<1>1. have' \in [Takes -> Record]
  BY SetWrites DEF TypeOK
<1>2. QED
  BY <1>1 DEF TypeOK, ChainsTypeOK, chains

(* A step of the responder or the borrower that sends. *)
LEMMA SendType ==
  ASSUME TypeOK, NEW t \in Takes, tx' \in [Takes -> [Tx -> TxRecord]],
         have' \in [Takes -> Record],
         pc' \in {Idle} \cup Busy,
         UNCHANGED <<btcH, seqH, reorgs, crashes, late>>,
         lost' \in 0..MaxLost, sent' \in [Takes -> 0..SentCap],
         tPublic' \in [Takes -> BOOLEAN], served' \in [Takes -> BOOLEAN]
  PROVE  TypeOK'
BY DEF TypeOK, ChainsTypeOK

(* Paying the disbursement once more, unless it is already there. *)
LEMMA PayType ==
  ASSUME TypeOK, NEW t \in Takes, Pay(t)
  PROVE  /\ tx' \in [Takes -> [Tx -> TxRecord]]
         /\ sent' \in [Takes -> 0..SentCap]
<1>1. tx \in [Takes -> [Tx -> TxRecord]] /\ sent \in [Takes -> 0..SentCap]
  BY DEF TypeOK, ChainsTypeOK
<1>2. tx' \in [Takes -> [Tx -> TxRecord]]
  <2>1. CASE Enter(t, "disburse")
    BY <1>1, <2>1, EnterType
  <2>2. CASE UNCHANGED tx
    BY <1>1, <2>2
  <2>3. QED
    BY <2>1, <2>2 DEF Pay
<1>3. sent[t] + 1 \in 0..SentCap
  BY <1>1, LoanAssumption DEF Pay, SentCap
<1>4. sent' \in [Takes -> 0..SentCap]
  BY <1>1, <1>3 DEF Pay
<1>5. QED
  BY <1>2, <1>4

LEMMA ResponderType ==
  ASSUME TypeOK, NEW t \in Takes, Responder(t)
  PROVE  TypeOK'
<1> USE DEF TypeOK, SentCap
<1>0. /\ tx \in [Takes -> [Tx -> TxRecord]]
      /\ pc' = Idle => pc' \in {Idle} \cup Busy
      /\ \A op \in {"disburse", "disbursed", "upgraded", "claim", "claimed",
                    "refund", "refunded"} :
           Go(op, t) => pc' \in {Idle} \cup Busy
      /\ lost < MaxLost /\ lost' = lost + 1 => lost' \in 0..MaxLost
  BY LoanAssumption DEF ChainsTypeOK, Go, Busy
<1>1. CASE HashPass(t)
  BY <1>0, <1>1, WriteType DEF HashPass
<1>2. CASE SignPass(t)
  BY <1>0, <1>2, WriteType DEF SignPass
<1>3. CASE DisburseRecover(t)
  BY <1>0, <1>3, WriteType DEF DisburseRecover, DisburseFound
<1>4. CASE DisburseRecord(t)
  BY <1>0, <1>4, WriteType DEF DisburseRecord
<1>5. CASE DisburseNotBroadcast(t)
  BY <1>0, <1>5, WriteType DEF DisburseNotBroadcast
<1>6. CASE UpgradeRecord(t)
  BY <1>0, <1>6, WriteType DEF UpgradeRecord
<1>7. CASE ClaimUndone(t)
  BY <1>0, <1>7, WriteType DEF ClaimUndone
<1>8. CASE ClaimRecord(t)
  BY <1>0, <1>8, WriteType DEF ClaimRecord
<1>9. CASE RefundRecord(t)
  BY <1>0, <1>9, WriteType DEF RefundRecord
<1>10. CASE ClaimRecover(t)
  BY <1>0, <1>10, WriteType DEF ClaimRecover
<1>11. CASE RefundRecover(t)
  BY <1>0, <1>11, WriteType DEF RefundRecover, RefundOpen
<1>12. CASE DisburseMark(t)
  BY <1>0, <1>12, WriteType DEF DisburseMark
<1>13. CASE ClaimMark(t)
  BY <1>0, <1>13, WriteType DEF ClaimMark, ClaimDue
<1>14. CASE RefundMark(t)
  BY <1>0, <1>14, WriteType DEF RefundMark, RefundOpen
<1>15. CASE DisburseSend(t)
  BY <1>0, <1>15, PayType, SendType DEF DisburseSend
<1>16. CASE DisburseLost(t)
  <2>1. /\ tx' \in [Takes -> [Tx -> TxRecord]]
        /\ sent' \in [Takes -> 0..SentCap]
    <3>1. CASE Pay(t)
      BY <3>1, PayType
    <3>2. CASE UNCHANGED <<sent, tx>>
      BY <1>0, <3>2
    <3>3. QED
      BY <1>16, <3>1, <3>2 DEF DisburseLost
  <2>2. lost' \in 0..MaxLost
    BY <1>0, <1>16 DEF DisburseLost
  <2>3. QED
    BY <1>0, <1>16, <2>1, <2>2, SendType DEF DisburseLost
<1>17. CASE UpgradeSend(t)
  BY <1>0, <1>17, EnterType, SendType DEF UpgradeSend, UpgradeDue
<1>18. CASE ClaimSend(t)
  BY <1>0, <1>18, EnterType, SendType DEF ClaimSend, ClaimBroadcast
<1>19. CASE ClaimLost(t)
  BY <1>0, <1>19, EnterType, SendType DEF ClaimLost, ClaimBroadcast
<1>20. CASE PublishPass(t)
  BY <1>0, <1>20, WriteType DEF PublishPass, PublishDue
<1>21. CASE PublishLost(t)
  BY <1>0, <1>21, EnterType, SendType DEF PublishLost, PublishDue, chains
<1>22. CASE RefundSend(t)
  BY <1>0, <1>22, EnterType, SendType DEF RefundSend
<1>23. CASE RefundLost(t)
  <2>1. tx' \in [Takes -> [Tx -> TxRecord]]
    <3>1. CASE Enter(t, "refund")
      BY <1>0, <3>1, EnterType
    <3>2. CASE UNCHANGED tx
      BY <1>0, <3>2
    <3>3. QED
      BY <1>23, <3>1, <3>2 DEF RefundLost
  <2>2. lost' \in 0..MaxLost
    BY <1>0, <1>23 DEF RefundLost
  <2>3. have' \in [Takes -> Record]
    BY <1>23, SetWrites DEF RefundLost
  <2>4. QED
    BY <1>0, <1>23, <2>1, <2>2, <2>3, SendType DEF RefundLost
<1>24. QED
  BY <1>1, <1>2, <1>3, <1>4, <1>5, <1>6, <1>7, <1>8, <1>9, <1>10, <1>11,
     <1>12, <1>13, <1>14, <1>15, <1>16, <1>17, <1>18, <1>19, <1>20, <1>21,
     <1>22, <1>23
  DEF Responder

LEMMA OperatorType ==
  ASSUME TypeOK, NEW t \in Takes, Operator(t)
  PROVE  TypeOK'
<1> USE DEF TypeOK, SentCap
<1>0. pc' = pc => pc' \in {Idle} \cup Busy
  OBVIOUS
<1>1. CASE OperatorClear(t)
  BY <1>0, <1>1, WriteType DEF OperatorClear
<1>2. CASE OperatorFound(t)
  BY <1>0, <1>2, WriteType DEF OperatorFound
<1>3. CASE Timeout(t)
  <2>1. tx' \in [Takes -> [Tx -> TxRecord]]
    BY <1>3, EnterType DEF Timeout, ChainsTypeOK
  <2>2. QED
    BY <1>3, <2>1, SendType DEF Timeout, lender
<1>4. QED
  BY <1>1, <1>2, <1>3 DEF Operator

LEMMA BorrowerType ==
  ASSUME TypeOK, NEW t \in Takes, Borrower(t)
  PROVE  TypeOK'
<1> USE DEF TypeOK, SentCap
<1>1. ASSUME NEW x, Borrow(t, x) PROVE TypeOK'
  <2>1. tx' \in [Takes -> [Tx -> TxRecord]]
    BY <1>1, EnterType DEF Borrow, ChainsTypeOK
  <2>2. QED
    BY <1>1, <2>1, SendType DEF Borrow, lender
<1>2. ASSUME NEW x, Replace(t, x) PROVE TypeOK'
  <2>1. Absent \in TxRecord
    BY ChainAssumption DEF Absent, TxRecord, Depth
  <2>2. tx \in [Takes -> [Tx -> TxRecord]]
    BY DEF ChainsTypeOK
  <2>3. [y \in Tx |-> IF y \in Family({x}) THEN Absent ELSE tx[t][y]]
          \in [Tx -> TxRecord]
    BY <2>1, <2>2
  <2>4. tx' \in [Takes -> [Tx -> TxRecord]]
    BY <1>2, <2>2, <2>3 DEF Replace
  <2>5. QED
    BY <1>2, <2>4, SendType DEF Replace, lender
<1>3. QED
  BY <1>1, <1>2 DEF Borrower

LEMMA EnvironmentType ==
  ASSUME TypeOK, Environment
  PROVE  TypeOK'
<1> USE DEF TypeOK, SentCap
<1>1. CASE SeqTick
  <2>1. ChainsTypeOK'
    BY <1>1, SeqBlockType DEF SeqTick
  <2>2. late' \in 0..MaxLate
    BY <1>1, LoanAssumption DEF SeqTick, TimeMayPass
  <2>3. QED
    BY <1>1, <2>1, <2>2 DEF SeqTick
<1>2. CASE BtcTick
  BY <1>2, BtcBlockType DEF BtcTick, lender
<1>3. CASE Reorg
  BY <1>3, BtcReorgType DEF Reorg, lender
<1>4. CASE Crash
  <2>1. crashes' \in 0..MaxCrashes
    BY <1>4, LoanAssumption DEF Crash
  <2>2. QED
    BY <1>4, <2>1 DEF Crash, chains, ChainsTypeOK
<1>5. QED
  BY <1>1, <1>2, <1>3, <1>4 DEF Environment

LEMMA TypeStep == TypeOK /\ [Next]_vars => TypeOK'
<1> SUFFICES ASSUME TypeOK, [Next]_vars PROVE TypeOK'
  OBVIOUS
<1>1. ASSUME NEW t \in Takes, Responder(t) \/ Operator(t) \/ Borrower(t)
      PROVE  TypeOK'
  BY <1>1, ResponderType, OperatorType, BorrowerType
<1>2. CASE Environment
  BY <1>2, EnvironmentType
<1>3. CASE UNCHANGED vars
  BY <1>3 DEF vars, chains, lender, TypeOK, ChainsTypeOK
<1>4. QED
  BY <1>1, <1>2, <1>3 DEF Next

(* Every state has its type: in particular no transaction is deeper, and   *)
(* no responder later, than the model's caps (CrossLoan, TypeOK).          *)
THEOREM TypeCorrect == Spec => []TypeOK
<1>1. QED
  BY InitType, TypeStep, PTL DEF Spec

-----------------------------------------------------------------------------
(* No principal of a cross-chain loan is paid twice, none that was paid is *)
(* forgotten, and an offer never pays more takes than it has lots.  The    *)
(* one thing assumed is that an operator who clears an in-flight flag has  *)
(* looked into the wallet (OperatorLooks): run CrossLoan_clear shows what  *)
(* happens to one who has not.                                             *)

(* The state file counts t as a lot in use. *)
Committed(t) == have[t].disbursing \/ have[t].disbursement_txid
CommittedTakes == {t \in Takes : Committed(t)}

(* PaidOnce and PaymentRemembered are not inductive: they say nothing of   *)
(* the responder between its write and its send.  A responder about to pay *)
(* has its intent on record and has not paid; one that has just paid still *)
(* has the intent on record.                                               *)
PaymentAt(t) ==
    /\ sent[t] <= 1
    /\ sent[t] > 0 => Committed(t)
    /\ At("disburse", t) => sent[t] = 0 /\ have[t].disbursing
    /\ At("disbursed", t) => have[t].disbursing

PaymentInv == \A t \in Takes : PaymentAt(t)

LotsInv == Cardinality(CommittedTakes) <= Lots

(* The responder is not about to pay, nor has just paid, when it turns to  *)
(* something else; and when it turns to t it is not busy with another.     *)
LEMMA Elsewhere ==
  ASSUME NEW t, NEW u \in Takes \ {t}, NEW op \in {"disburse", "disbursed"},
         pc' = pc \/ pc' = Idle \/ (\E o : Go(o, t)), At(op, u)'
  PROVE  At(op, u)
BY DEF At, Go, Idle

(* To keep PaymentInv it is enough to look at the take a step is about.    *)
LEMMA OneTake ==
  ASSUME PaymentInv, NEW t \in Takes,
         \A u \in Takes \ {t} : have'[u] = have[u] /\ sent'[u] = sent[u],
         pc' = pc \/ pc' = Idle \/ (\E o : Go(o, t)),
         PaymentAt(t)'
  PROVE  PaymentInv'
<1>1. SUFFICES ASSUME NEW u \in Takes \ {t} PROVE PaymentAt(u)'
  BY DEF PaymentInv
<1>2. PaymentAt(u)
  BY DEF PaymentInv
<1>3. have'[u] = have[u] /\ sent'[u] = sent[u]
  OBVIOUS
<1>4. \A op \in {"disburse", "disbursed"} : At(op, u)' => At(op, u)
  BY Elsewhere
<1>5. QED
  BY <1>2, <1>3, <1>4 DEF PaymentAt, Committed

(* Steps that change neither the state file nor the payments. *)
LEMMA Unmoved ==
  ASSUME PaymentInv, UNCHANGED <<have, sent>>,
         \/ pc' = pc \/ pc' = Idle
         \/ \E o \in {"upgraded", "claimed", "refunded"}, t \in Takes : Go(o, t)
  PROVE  PaymentInv' /\ CommittedTakes' = CommittedTakes
<1>1. \A u \in Takes : Committed(u)' = Committed(u)
  BY DEF Committed
<1>2. \A u \in Takes, op \in {"disburse", "disbursed"} :
         At(op, u)' => At(op, u)
  <2>1. SUFFICES ASSUME NEW u \in Takes, NEW op \in {"disburse", "disbursed"},
                        At(op, u)'
                 PROVE  At(op, u)
    OBVIOUS
  <2>2. pc' = [op |-> op, take |-> u]
    BY <2>1 DEF At
  <2>3. CASE pc' = pc
    BY <2>2, <2>3 DEF At
  <2>4. CASE pc' = Idle
    BY <2>2, <2>4 DEF Idle
  <2>5. ASSUME NEW o \in {"upgraded", "claimed", "refunded"}, NEW t \in Takes,
               Go(o, t)
        PROVE  FALSE
    BY <2>2, <2>5 DEF Go
  <2>6. QED
    BY <2>3, <2>4, <2>5
<1>3. PaymentInv'
  BY <1>1, <1>2 DEF PaymentInv, PaymentAt
<1>4. QED
  BY <1>1, <1>3 DEF CommittedTakes

(* The step of a pass that pays nothing and leaves the two fields of the   *)
(* payment alone.                                                          *)
LEMMA NoPayment ==
  ASSUME TypeOK, PaymentInv, NEW t \in Takes, NEW on, NEW off,
         Set(t, on, off),
         {"disbursing", "disbursement_txid"} \cap (on \cup off) = {},
         UNCHANGED sent,
         \/ pc' = pc \/ pc' = Idle
         \/ \E o \in {"upgraded", "claim", "claimed", "refund", "refunded"} :
              Go(o, t)
  PROVE  PaymentInv' /\ CommittedTakes' = CommittedTakes
<1>1. \A u \in Takes : /\ have'[u].disbursing = have[u].disbursing
                       /\ have'[u].disbursement_txid = have[u].disbursement_txid
  <2>1. "disbursing" \in Fields /\ "disbursement_txid" \in Fields
    BY DEF Fields
  <2>2. /\ "disbursing" \notin on \cup off
        /\ "disbursement_txid" \notin on \cup off
    OBVIOUS
  <2>3. have \in [Takes -> Record]
    BY DEF TypeOK
  <2>4. /\ \A u \in Takes \ {t} : have'[u] = have[u]
        /\ \A f \in Fields \ (on \cup off) : have'[t][f] = have[t][f]
    BY <2>3, SetWrites
  <2>5. QED
    BY <2>1, <2>2, <2>4
<1>2. \A u \in Takes : Committed(u)' = Committed(u)
  BY <1>1 DEF Committed
<1>3. \A u \in Takes, op \in {"disburse", "disbursed"} :
         At(op, u)' => At(op, u)
  BY DEF At, Go, Idle
<1>4. PaymentInv'
  BY <1>1, <1>2, <1>3 DEF PaymentInv, PaymentAt
<1>5. QED
  BY <1>2, <1>4 DEF CommittedTakes
-----------------------------------------------------------------------------
(* The passes that pay nothing. *)

LEMMA OtherPasses ==
  ASSUME TypeOK, PaymentInv, NEW t \in Takes,
         \/ HashPass(t) \/ SignPass(t) \/ UpgradeSend(t) \/ UpgradeRecord(t)
         \/ ClaimRecover(t) \/ ClaimUndone(t) \/ ClaimMark(t) \/ ClaimSend(t)
         \/ ClaimLost(t) \/ ClaimRecord(t) \/ PublishPass(t) \/ PublishLost(t)
         \/ RefundRecover(t) \/ RefundMark(t) \/ RefundSend(t)
         \/ RefundLost(t) \/ RefundRecord(t)
  PROVE  PaymentInv' /\ CommittedTakes' = CommittedTakes
<1>1. CASE HashPass(t)
  BY <1>1, NoPayment DEF HashPass
<1>2. CASE SignPass(t)
  BY <1>2, NoPayment DEF SignPass
<1>3. CASE UpgradeSend(t)
  BY <1>3, Unmoved DEF UpgradeSend
<1>4. CASE UpgradeRecord(t)
  BY <1>4, NoPayment DEF UpgradeRecord
<1>5. CASE ClaimRecover(t)
  BY <1>5, NoPayment DEF ClaimRecover
<1>6. CASE ClaimUndone(t)
  BY <1>6, NoPayment DEF ClaimUndone
<1>7. CASE ClaimMark(t)
  BY <1>7, NoPayment DEF ClaimMark
<1>8. CASE ClaimSend(t)
  BY <1>8, Unmoved DEF ClaimSend
<1>9. CASE ClaimLost(t)
  BY <1>9, Unmoved DEF ClaimLost
<1>10. CASE ClaimRecord(t)
  BY <1>10, NoPayment DEF ClaimRecord
<1>11. CASE PublishPass(t)
  BY <1>11, NoPayment DEF PublishPass
<1>12. CASE PublishLost(t)
  BY <1>12, Unmoved DEF PublishLost, PublishDue
<1>13. CASE RefundRecover(t)
  BY <1>13, NoPayment DEF RefundRecover
<1>14. CASE RefundMark(t)
  BY <1>14, NoPayment DEF RefundMark
<1>15. CASE RefundSend(t)
  BY <1>15, Unmoved DEF RefundSend
<1>16. CASE RefundLost(t)
  BY <1>16, NoPayment DEF RefundLost
<1>17. CASE RefundRecord(t)
  BY <1>17, NoPayment DEF RefundRecord
<1>18. QED
  BY <1>1, <1>2, <1>3, <1>4, <1>5, <1>6, <1>7, <1>8, <1>9, <1>10, <1>11,
     <1>12, <1>13, <1>14, <1>15, <1>16, <1>17

-----------------------------------------------------------------------------
(* disburse_pass, and the operator's command about its in-flight flag. *)

(* The fields of the payment after a write of the state file. *)
LEMMA PaymentWrite ==
  ASSUME TypeOK, NEW t \in Takes, NEW on, NEW off, Set(t, on, off)
  PROVE  /\ \A u \in Takes \ {t} : have'[u] = have[u]
         /\ \A f \in {"disbursing", "disbursement_txid"} :
              /\ f \in on => have'[t][f]
              /\ f \in off \ on => ~have'[t][f]
              /\ f \notin on \cup off => have'[t][f] = have[t][f]
<1>1. {"disbursing", "disbursement_txid"} \subseteq Fields
  BY DEF Fields
<1>2. have \in [Takes -> Record]
  BY DEF TypeOK
<1>3. /\ \A u \in Takes \ {t} : have'[u] = have[u]
      /\ \A f \in Fields \ (on \cup off) : have'[t][f] = have[t][f]
      /\ \A f \in Fields \cap on : have'[t][f] = TRUE
      /\ \A f \in (Fields \cap off) \ on : have'[t][f] = FALSE
  BY <1>2, SetWrites
<1>4. QED
  BY <1>1, <1>3

LEMMA MarkStep ==
  ASSUME TypeOK, PaymentInv, NEW t \in Takes, DisburseMark(t)
  PROVE  PaymentInv'
<1>1. /\ \A u \in Takes \ {t} : have'[u] = have[u]
      /\ have'[t].disbursing
  BY PaymentWrite DEF DisburseMark
<1>2. sent'[t] = 0
  BY DEF DisburseMark, PaymentInv, PaymentAt, Committed, TypeOK
<1>3. PaymentAt(t)'
  BY <1>1, <1>2 DEF PaymentAt, Committed
<1>4. QED
  BY <1>1, <1>3, OneTake DEF DisburseMark

LEMMA NotBroadcastStep ==
  ASSUME TypeOK, PaymentInv, NEW t \in Takes, DisburseNotBroadcast(t)
  PROVE  PaymentInv'
<1>1. \A u \in Takes \ {t} : have'[u] = have[u]
  BY PaymentWrite DEF DisburseNotBroadcast
<1>2. sent'[t] = 0
  BY DEF DisburseNotBroadcast, PaymentInv, PaymentAt
<1>3. ~At("disburse", t)' /\ ~At("disbursed", t)'
  BY DEF DisburseNotBroadcast, At, Idle
<1>4. PaymentAt(t)'
  BY <1>2, <1>3 DEF PaymentAt
<1>5. QED
  BY <1>1, <1>4, OneTake DEF DisburseNotBroadcast

LEMMA SendStep ==
  ASSUME TypeOK, PaymentInv, NEW t \in Takes, DisburseSend(t)
  PROVE  PaymentInv'
<1>1. /\ sent'[t] = 1
      /\ \A u \in Takes \ {t} : sent'[u] = sent[u]
      /\ have[t].disbursing
  BY DEF DisburseSend, Pay, PaymentInv, PaymentAt, TypeOK,
     SentCap
<1>2. ~At("disburse", t)'
  BY DEF DisburseSend, At, Go
<1>3. PaymentAt(t)'
  BY <1>1, <1>2 DEF PaymentAt, Committed, DisburseSend
<1>4. QED
  BY <1>1, <1>3, OneTake DEF DisburseSend

LEMMA LostStep ==
  ASSUME TypeOK, PaymentInv, NEW t \in Takes, DisburseLost(t)
  PROVE  PaymentInv'
<1>1. /\ sent'[t] <= 1
      /\ \A u \in Takes \ {t} : sent'[u] = sent[u]
      /\ have[t].disbursing
  BY DEF DisburseLost, Pay, PaymentInv, PaymentAt, TypeOK,
     SentCap
<1>2. ~At("disburse", t)' /\ ~At("disbursed", t)'
  BY DEF DisburseLost, At, Idle
<1>3. PaymentAt(t)'
  BY <1>1, <1>2 DEF PaymentAt, Committed, DisburseLost
<1>4. QED
  BY <1>1, <1>3, OneTake DEF DisburseLost

(* The three ways a payment gets on record. *)
LEMMA RecordStep ==
  ASSUME TypeOK, PaymentInv, NEW t \in Takes,
         DisburseRecord(t) \/ DisburseRecover(t) \/ OperatorFound(t)
  PROVE  PaymentInv'
<1>1. Set(t, {"disbursement_txid"}, {"disbursing"}) /\ UNCHANGED sent
  BY DEF DisburseRecord, DisburseRecover, OperatorFound
<1>2. /\ \A u \in Takes \ {t} : have'[u] = have[u]
      /\ have'[t].disbursement_txid
  BY <1>1, PaymentWrite
<1>3. pc' = Idle
  BY DEF DisburseRecord, DisburseRecover, DisburseFound, OperatorFound
<1>4. ~At("disburse", t)' /\ ~At("disbursed", t)'
  BY <1>3 DEF At, Idle
<1>5. PaymentAt(t)'
  BY <1>1, <1>2, <1>4 DEF PaymentInv, PaymentAt, Committed
<1>6. QED
  BY <1>1, <1>2, <1>3, <1>5, OneTake

(* The one step that forgets an intent without knowing: the operator knows.*)
LEMMA ClearStep ==
  ASSUME OperatorLooks,
         TypeOK, PaymentInv, NEW t \in Takes, OperatorClear(t)
  PROVE  PaymentInv'
<1>1. \A u \in Takes \ {t} : have'[u] = have[u]
  BY PaymentWrite DEF OperatorClear
<1>2. sent'[t] = 0
  BY DEF OperatorClear
<1>3. ~At("disburse", t)' /\ ~At("disbursed", t)'
  BY DEF OperatorClear, At, Idle
<1>4. PaymentAt(t)'
  BY <1>2, <1>3 DEF PaymentAt
<1>5. QED
  BY <1>1, <1>4, OneTake DEF OperatorClear

LEMMA ResponderPayment ==
  ASSUME TypeOK, PaymentInv, NEW t \in Takes, Responder(t)
  PROVE  PaymentInv'
BY OtherPasses, MarkStep, NotBroadcastStep, SendStep, LostStep, RecordStep
   DEF Responder

LEMMA PaymentStep ==
  OperatorLooks /\ TypeOK /\ PaymentInv /\ [Next]_vars => PaymentInv'
<1> SUFFICES ASSUME OperatorLooks, TypeOK, PaymentInv, [Next]_vars
             PROVE  PaymentInv'
  OBVIOUS
<1>1. ASSUME NEW t \in Takes, Responder(t) PROVE PaymentInv'
  BY <1>1, ResponderPayment
<1>2. ASSUME NEW t \in Takes, Operator(t) PROVE PaymentInv'
  <2>1. CASE OperatorClear(t)
    BY <2>1, ClearStep
  <2>2. CASE OperatorFound(t)
    BY <2>2, RecordStep
  <2>3. CASE Timeout(t)
    BY <2>3, Unmoved DEF Timeout, lender
  <2>4. QED
    BY <1>2, <2>1, <2>2, <2>3 DEF Operator
<1>3. ASSUME NEW t \in Takes, Borrower(t) PROVE PaymentInv'
  BY <1>3, Unmoved DEF Borrower, Borrow, Replace, lender
<1>4. CASE Environment
  BY <1>4, Unmoved DEF Environment, SeqTick, BtcTick, Reorg, Crash, lender
<1>5. CASE UNCHANGED vars
  BY <1>5, Unmoved DEF vars, lender
<1>6. QED
  BY <1>1, <1>2, <1>3, <1>4, <1>5 DEF Next

LEMMA PaymentInit == Init => PaymentInv
BY DEF Init, PaymentInv, PaymentAt, At, Idle

LEMMA PaymentInvariant ==
  ASSUME OperatorLooks PROVE Spec => []PaymentInv
<1>1. TypeOK /\ PaymentInv /\ [Next]_vars => PaymentInv'
  BY PaymentStep
<1>2. QED
  BY PaymentInit, TypeCorrect, <1>1, PTL DEF Spec

(* However often the responder dies or an answer is lost, disburse_pass    *)
(* pays the principal of a loan once at most (CrossLoan, PaidOnce).        *)
THEOREM NeverPaidTwice ==
  ASSUME OperatorLooks PROVE Spec => []PaidOnce
<1>1. PaymentInv => PaidOnce
  BY DEF PaymentInv, PaymentAt, PaidOnce
<1>2. QED
  BY PaymentInvariant, <1>1, PTL

(* ... and what it paid is in the state file from then on, as paid or as   *)
(* in flight (CrossLoan, PaymentRemembered).                               *)
THEOREM NeverForgotten ==
  ASSUME OperatorLooks PROVE Spec => []PaymentRemembered
<1>1. PaymentInv => PaymentRemembered
  BY DEF PaymentInv, PaymentAt, PaymentRemembered, Committed
<1>2. QED
  BY PaymentInvariant, <1>1, PTL

-----------------------------------------------------------------------------
(* The lots of the offer. *)

(* A take gets a lot only as DisburseMark gives it one. *)
LEMMA CommitStep ==
  ASSUME TypeOK, PaymentInv, [Next]_vars
  PROVE  \/ CommittedTakes' \subseteq CommittedTakes
         \/ \E t \in Takes : DisburseMark(t)
<1> USE DEF CommittedTakes
<1>1. ASSUME NEW t \in Takes, Responder(t), ~DisburseMark(t)
      PROVE  CommittedTakes' \subseteq CommittedTakes
  <2>1. CASE DisburseNotBroadcast(t)
    <3>1. /\ \A u \in Takes \ {t} : have'[u] = have[u]
          /\ have[t].disbursing
      BY <2>1, PaymentWrite DEF DisburseNotBroadcast, PaymentInv, PaymentAt
    <3>2. QED
      BY <3>1 DEF Committed
  <2>2. CASE DisburseSend(t) \/ DisburseLost(t)
    BY <2>2 DEF DisburseSend, DisburseLost, Committed
  <2>3. CASE DisburseRecord(t)
    <3>1. /\ \A u \in Takes \ {t} : have'[u] = have[u]
          /\ have[t].disbursing
      BY <2>3, PaymentWrite DEF DisburseRecord, PaymentInv, PaymentAt
    <3>2. QED
      BY <3>1 DEF Committed
  <2>4. CASE DisburseRecover(t)
    <3>1. /\ \A u \in Takes \ {t} : have'[u] = have[u]
          /\ have[t].disbursing
      BY <2>4, PaymentWrite DEF DisburseRecover, DisburseFound
    <3>2. QED
      BY <3>1 DEF Committed
  <2>5. QED
    BY <1>1, <2>1, <2>2, <2>3, <2>4, OtherPasses DEF Responder
<1>2. ASSUME NEW t \in Takes, Operator(t)
      PROVE  CommittedTakes' \subseteq CommittedTakes
  <2>1. CASE OperatorClear(t) \/ OperatorFound(t)
    <3>1. /\ \A u \in Takes \ {t} : have'[u] = have[u]
          /\ have[t].disbursing
      BY <2>1, PaymentWrite DEF OperatorClear, OperatorFound
    <3>2. QED
      BY <3>1 DEF Committed
  <2>2. CASE Timeout(t)
    BY <2>2, Unmoved DEF Timeout, lender
  <2>3. QED
    BY <1>2, <2>1, <2>2 DEF Operator
<1>3. ASSUME NEW t \in Takes, Borrower(t)
      PROVE  CommittedTakes' \subseteq CommittedTakes
  BY <1>3, Unmoved DEF Borrower, Borrow, Replace, lender
<1>4. CASE Environment
  BY <1>4, Unmoved DEF Environment, SeqTick, BtcTick, Reorg, Crash, lender
<1>5. CASE UNCHANGED vars
  BY <1>5, Unmoved DEF vars, lender
<1>6. QED
  BY <1>1, <1>2, <1>3, <1>4, <1>5 DEF Next

LEMMA LotsStep ==
  ASSUME TypeOK, PaymentInv, LotsInv, [Next]_vars
  PROVE  LotsInv'
<1>1. IsFiniteSet(CommittedTakes)
  BY LoanAssumption, FS_Subset DEF CommittedTakes
<1>2. CASE CommittedTakes' \subseteq CommittedTakes
  BY <1>1, <1>2, FS_Subset, FS_CardinalityType, LoanAssumption DEF LotsInv
<1>3. ASSUME NEW t \in Takes, DisburseMark(t) PROVE LotsInv'
  <2> DEFINE others == {u \in Takes \ {t} :
                          have[u].disbursing \/ have[u].disbursement_txid}
  <2>1. IsFiniteSet(others) /\ Cardinality(others) < Lots
    BY <1>3, LoanAssumption, FS_Subset DEF DisburseMark, LotsCommitted
  <2>2. \A u \in Takes \ {t} : have'[u] = have[u]
    BY <1>3, PaymentWrite DEF DisburseMark
  <2>3. CommittedTakes' \subseteq others \cup {t}
    BY <2>2 DEF CommittedTakes, Committed
  <2>4. /\ IsFiniteSet(others \cup {t})
        /\ Cardinality(others \cup {t}) <= Cardinality(others) + 1
    BY <2>1, FS_AddElement, FS_CardinalityType
  <2>5. /\ IsFiniteSet(CommittedTakes')
        /\ Cardinality(CommittedTakes') <= Cardinality(others \cup {t})
    BY <2>3, <2>4, FS_Subset
  <2>6. /\ Cardinality(others) \in Nat /\ Cardinality(others \cup {t}) \in Nat
        /\ Cardinality(CommittedTakes') \in Nat
    BY <2>1, <2>4, <2>5, FS_CardinalityType
  <2> HIDE DEF others
  <2>7. QED
    BY <2>1, <2>4, <2>5, <2>6, LoanAssumption DEF LotsInv
<1>4. QED
  BY <1>2, <1>3, CommitStep

LEMMA LotsInit == Init => LotsInv
<1> SUFFICES ASSUME Init PROVE LotsInv
  OBVIOUS
<1>1. CommittedTakes = {}
  BY DEF Init, CommittedTakes, Committed, Fields
<1>2. QED
  BY <1>1, FS_EmptySet, LoanAssumption DEF LotsInv

(* No more takes of an offer are paid than it has lots, whatever dies or   *)
(* is lost on the way (CrossLoan, WithinLots; lots_committed).             *)
THEOREM NeverOverLots ==
  ASSUME OperatorLooks PROVE Spec => []WithinLots
<1>1. TypeOK /\ PaymentInv /\ LotsInv /\ [Next]_vars => LotsInv'
  BY LotsStep
<1>2. TypeOK /\ PaymentInv /\ LotsInv => WithinLots
  <2> SUFFICES ASSUME TypeOK, PaymentInv, LotsInv PROVE WithinLots
    OBVIOUS
  <2> DEFINE paid == {t \in Takes : sent[t] > 0}
  <2>1. paid \subseteq CommittedTakes
    BY DEF PaymentInv, PaymentAt, CommittedTakes
  <2>2. IsFiniteSet(CommittedTakes)
    BY LoanAssumption, FS_Subset DEF CommittedTakes
  <2>3. IsFiniteSet(paid) /\ Cardinality(paid) <= Cardinality(CommittedTakes)
    BY <2>1, <2>2, FS_Subset
  <2>4. Cardinality(paid) \in Nat /\ Cardinality(CommittedTakes) \in Nat
    BY <2>2, <2>3, FS_CardinalityType
  <2> HIDE DEF paid
  <2>5. Cardinality(paid) <= Lots
    BY <2>3, <2>4, LoanAssumption DEF LotsInv
  <2>6. QED
    BY <2>5 DEF WithinLots, paid
<1>3. QED
  BY LotsInit, TypeCorrect, PaymentInvariant, <1>1, <1>2, PTL DEF Spec

-----------------------------------------------------------------------------
(***************************************************************************)
(* What the two parties of a cross-chain loan end up with, for every       *)
(* deadline timelocks_sane accepts, every depth, any number of takes, of   *)
(* crashes, lost answers and reorgs.                                       *)
(***************************************************************************)

(* The scripts. *)

LEMMA Scripts ==
  /\ Input["prevault"] = "wallet" /\ Input["disburse"] = "wallet"
  /\ Input["repay"] = "wallet"
  /\ Input["upgrade"] = "prevault" /\ Input["abort"] = "prevault"
  /\ Input["reclaim"] = "upgrade" /\ Input["timeout"] = "upgrade"
  /\ Input["take"] = "disburse" /\ Input["refund"] = "disburse"
  /\ Input["claim"] = "repay" /\ Input["unrepay"] = "repay"
BY DEF Input, Tx, BtcTx, SeqTx

LEMMA Spends ==
  /\ Children({}) = {}
  /\ Children({"prevault"}) = {"upgrade", "abort"}
  /\ Children({"upgrade"}) = {"reclaim", "timeout"}
  /\ Children({"upgrade", "abort"}) = {"reclaim", "timeout"}
  /\ Children({"disburse"}) = {"take", "refund"}
  /\ Children({"repay"}) = {"claim", "unrepay"}
  /\ \A S \in SUBSET {"abort", "reclaim", "timeout", "take", "refund", "claim",
                      "unrepay"} : Children(S) = {}
BY Scripts DEF Children, Tx, BtcTx, SeqTx

LEMMA Families ==
  /\ Family({}) = {}
  /\ Family({"prevault"}) = BtcTx
  /\ Family({"upgrade"}) = {"upgrade", "reclaim", "timeout"}
  /\ Family({"disburse"}) = {"disburse", "take", "refund"}
  /\ Family({"repay"}) = {"repay", "claim", "unrepay"}
  /\ \A x \in {"abort", "reclaim", "timeout", "take", "refund", "claim",
               "unrepay"} : Family({x}) = {x}
<1>1. Family({}) = {}
  BY Spends DEF Family
<1>2. Family({"prevault"}) = BtcTx
  BY Spends DEF Family, BtcTx
<1>3. Family({"upgrade"}) = {"upgrade", "reclaim", "timeout"}
  BY Spends DEF Family
<1>4. Family({"disburse"}) = {"disburse", "take", "refund"}
  BY Spends DEF Family
<1>5. Family({"repay"}) = {"repay", "claim", "unrepay"}
  BY Spends DEF Family
<1>6. ASSUME NEW x \in {"abort", "reclaim", "timeout", "take", "refund",
                        "claim", "unrepay"}
      PROVE  Family({x}) = {x}
  <2>1. Children({x}) = {}
    BY Spends
  <2>2. QED
    BY <2>1, Spends DEF Family
<1>7. QED
  BY <1>1, <1>2, <1>3, <1>4, <1>5, <1>6

LEMMA Opponents ==
  /\ \A x \in {"prevault", "disburse", "repay"} : Rivals(x) = {}
  /\ Rivals("upgrade") = {"abort"} /\ Rivals("abort") = {"upgrade"}
  /\ Rivals("reclaim") = {"timeout"} /\ Rivals("timeout") = {"reclaim"}
  /\ Rivals("take") = {"refund"} /\ Rivals("refund") = {"take"}
  /\ Rivals("claim") = {"unrepay"} /\ Rivals("unrepay") = {"claim"}
BY Scripts DEF Rivals, Tx, BtcTx, SeqTx

(* What of a take disappears when x enters the mempool. *)
Replaces(x) == Family(Rivals(x))

LEMMA Replaced ==
  /\ \A x \in {"prevault", "disburse", "repay"} : Replaces(x) = {}
  /\ Replaces("upgrade") = {"abort"}
  /\ Replaces("abort") = {"upgrade", "reclaim", "timeout"}
  /\ Replaces("reclaim") = {"timeout"} /\ Replaces("timeout") = {"reclaim"}
  /\ Replaces("take") = {"refund"} /\ Replaces("refund") = {"take"}
  /\ Replaces("claim") = {"unrepay"} /\ Replaces("unrepay") = {"claim"}
BY Opponents, Families DEF Replaces

-----------------------------------------------------------------------------
(* How the transactions of the takes move. *)

LEMMA Entered ==
  ASSUME ChainsTypeOK, NEW t \in Takes, NEW x \in Tx, Enter(t, x)
  PROVE  /\ \A u \in Takes \ {t} : tx'[u] = tx[u]
         /\ tx'[t][x] = Pooled
         /\ \A y \in Tx \ {x} : tx'[t][y] = IF y \in Replaces(x) THEN Absent
                                            ELSE tx[t][y]
BY DEF ChainsTypeOK, Enter, Replaces

(* Every step leaves the transactions alone, moves a chain, brings one     *)
(* transaction of one take into the mempool or withdraws one from it.      *)
Brings(t, x) ==
    \/ /\ x \in {"prevault", "take", "abort", "repay", "unrepay", "reclaim"}
       /\ Borrow(t, x)
    \/ x = "disburse" /\ ~Seen(t, x) /\ (DisburseSend(t) \/ DisburseLost(t))
    \/ x = "upgrade" /\ ~Seen(t, x) /\ UpgradeSend(t)
    \/ /\ x = "claim" /\ (ClaimSend(t) \/ ClaimLost(t))
       /\ ClaimBroadcast(t)
    \/ /\ x = "refund" /\ Accepted(t, "refund")
       /\ RefundSend(t) \/ RefundLost(t)
    \/ x = "timeout" /\ Timeout(t)

LEMMA TxStep ==
  ASSUME TypeOK, [Next]_vars
  PROVE  \/ UNCHANGED chains
         \/ SeqTick \/ BtcTick \/ Reorg
         \/ /\ \E t \in Takes, x \in Tx : Enter(t, x) /\ Brings(t, x)
            /\ UNCHANGED <<btcH, seqH, reorgs>>
         \/ /\ \E t \in Takes, x \in MayReplace : Replace(t, x)
            /\ UNCHANGED <<btcH, seqH, reorgs>>
<1> USE DEF chains
<1> DEFINE Goal ==
         \/ UNCHANGED chains
         \/ SeqTick \/ BtcTick \/ Reorg
         \/ /\ \E t \in Takes, x \in Tx : Enter(t, x) /\ Brings(t, x)
            /\ UNCHANGED <<btcH, seqH, reorgs>>
         \/ /\ \E t \in Takes, x \in MayReplace : Replace(t, x)
            /\ UNCHANGED <<btcH, seqH, reorgs>>
<1>1. ASSUME NEW t \in Takes, DisburseSend(t) \/ DisburseLost(t) PROVE Goal
  BY <1>1 DEF DisburseSend, DisburseLost, Pay, Brings, Tx, SeqTx
<1>2. ASSUME NEW t \in Takes, UpgradeSend(t) PROVE Goal
  BY <1>2 DEF UpgradeSend, Brings, Tx, BtcTx
<1>3. ASSUME NEW t \in Takes, ClaimSend(t) \/ ClaimLost(t) PROVE Goal
  BY <1>3 DEF ClaimSend, ClaimLost, ClaimBroadcast, Brings, Tx, SeqTx
<1>4. ASSUME NEW t \in Takes, RefundSend(t) \/ RefundLost(t) PROVE Goal
  BY <1>4 DEF RefundSend, RefundLost, Brings, Tx, SeqTx
<1>5. ASSUME NEW t \in Takes, Responder(t) PROVE Goal
  BY <1>1, <1>2, <1>3, <1>4, <1>5
  DEF Responder, HashPass, SignPass, DisburseMark, DisburseNotBroadcast,
      DisburseRecord, DisburseRecover, UpgradeRecord, ClaimRecover,
      ClaimUndone, ClaimMark, ClaimRecord, PublishPass, PublishLost,
      RefundRecover, RefundMark, RefundRecord
<1>6. ASSUME NEW t \in Takes, Operator(t) PROVE Goal
  BY <1>6 DEF Operator, OperatorClear, OperatorFound, Timeout, Brings, Tx, BtcTx
<1>7. ASSUME NEW t \in Takes, Borrower(t) PROVE Goal
  BY <1>7 DEF Borrower, Borrow, Replace, Brings, Tx, BtcTx, SeqTx
<1>8. CASE Environment
  BY <1>8 DEF Environment, Crash
<1>9. CASE UNCHANGED vars
  BY <1>9 DEF vars
<1>10. QED
  BY <1>5, <1>6, <1>7, <1>8, <1>9 DEF Next

(* A transaction as a Sequentia block, a Bitcoin block and a reorg of one  *)
(* block move it.                                                          *)
LEMMA SeqMoves ==
  ASSUME TypeOK, SeqTick, NEW t \in Takes, NEW x \in Tx
  PROVE  /\ x \in BtcTx => tx'[t][x] = tx[t][x]
         /\ x \in SeqTx =>
              /\ tx'[t][x].conf = Deeper(tx[t][x].conf, ClaimDepth)
              /\ tx'[t][x].anchor = IF tx[t][x].conf = 0 THEN 1
                                                         ELSE tx[t][x].anchor
         /\ Seen(t, x)' <=> Seen(t, x)
<1>1. tx[t][x] \in TxRecord
  BY DEF TypeOK, ChainsTypeOK
<1>2. tx'[t][x] = IF x \in SeqTx
                  THEN [conf   |-> Deeper(tx[t][x].conf, ClaimDepth),
                        anchor |-> IF tx[t][x].conf = 0 THEN 1
                                                        ELSE tx[t][x].anchor]
                  ELSE tx[t][x]
  BY DEF SeqTick, SeqBlock
<1>3. BtcTx \cap SeqTx = {}
  BY DEF BtcTx, SeqTx
<1>4. Deeper(tx[t][x].conf, ClaimDepth) >= 0 <=> tx[t][x].conf >= 0
  BY <1>1, ChainAssumption DEF Deeper, TxRecord, Depth
<1>5. QED
  BY <1>2, <1>3, <1>4 DEF Seen

LEMMA BtcMoves ==
  ASSUME TypeOK, BtcTick, NEW t \in Takes, NEW x \in Tx
  PROVE  /\ x \in BtcTx =>
              tx'[t][x].conf = Deeper(tx[t][x].conf, DisburseConf)
         /\ x \in SeqTx =>
              /\ tx'[t][x].conf = tx[t][x].conf
              /\ tx'[t][x].anchor = IF Mined(t, x)
                                    THEN Deeper(tx[t][x].anchor, AnchorDepth)
                                    ELSE 0
         /\ Seen(t, x)' <=> Seen(t, x)
<1>1. tx[t][x] \in TxRecord
  BY DEF TypeOK, ChainsTypeOK
<1>2. tx'[t][x] = IF x \in BtcTx
                  THEN [conf   |-> Deeper(tx[t][x].conf, DisburseConf),
                        anchor |-> 0]
                  ELSE [conf   |-> tx[t][x].conf,
                        anchor |-> IF Mined(t, x)
                                   THEN Deeper(tx[t][x].anchor, AnchorDepth)
                                   ELSE 0]
  BY DEF BtcTick, BtcBlock
<1>3. BtcTx \cap SeqTx = {}
  BY DEF BtcTx, SeqTx
<1>4. Deeper(tx[t][x].conf, DisburseConf) >= 0 <=> tx[t][x].conf >= 0
  BY <1>1, ChainAssumption DEF Deeper, TxRecord, Depth
<1>5. QED
  BY <1>2, <1>3, <1>4 DEF Seen

(* ... and what a reorg does not lose is as deep as it was, or back in the *)
(* mempool if it was in the block that went.                               *)
LEMMA ReorgMoves ==
  ASSUME TypeOK, Reorg, NEW t \in Takes
  PROVE  \E gone \in SUBSET (MayVanish \cap Undone(t)) : \A x \in Tx :
           IF x \in Family(gone) THEN tx'[t][x] = Absent
           ELSE IF x \in Undone(t) THEN tx'[t][x] = Pooled
           ELSE tx'[t][x] = tx[t][x]
<1>1. PICK gone \in SUBSET MayVanish :
        tx' = [u \in Takes |-> [x \in Tx |->
                 IF x \in Family(gone \cap Undone(u)) THEN Absent
                 ELSE IF x \in Undone(u) THEN Pooled
                 ELSE tx[u][x]]]
  BY DEF Reorg, BtcReorg
<1>2. gone \cap Undone(t) \in SUBSET (MayVanish \cap Undone(t))
  OBVIOUS
<1>3. \A x \in Tx :
           IF x \in Family(gone \cap Undone(t)) THEN tx'[t][x] = Absent
           ELSE IF x \in Undone(t) THEN tx'[t][x] = Pooled
           ELSE tx'[t][x] = tx[t][x]
  BY <1>1
<1>4. QED
  BY <1>2, <1>3

(* A step brings no other transaction than the one it sends. *)
LEMMA Appears ==
  ASSUME TypeOK, [Next]_vars, NEW t \in Takes, NEW x \in Tx,
         Seen(t, x)', ~Seen(t, x)
  PROVE  /\ Enter(t, x) /\ Brings(t, x)
         /\ UNCHANGED <<btcH, seqH, reorgs>>
<1>1. CASE UNCHANGED chains
  BY <1>1 DEF chains, Seen
<1>2. CASE SeqTick
  BY <1>2, SeqMoves
<1>3. CASE BtcTick
  BY <1>3, BtcMoves
<1>4. CASE Reorg
  <2>1. ~(Absent.conf >= 0)
    BY DEF Absent
  <2>2. x \notin Undone(t)
    <3>1. tx[t][x].conf \in Int
      BY DEF TypeOK, ChainsTypeOK, TxRecord, Depth
    <3>2. QED
      BY <3>1 DEF Undone, Mined, Seen
  <2>3. tx'[t][x] = Absent \/ tx'[t][x] = tx[t][x]
    BY <1>4, <2>2, ReorgMoves
  <2>4. QED
    BY <2>1, <2>3 DEF Seen
<1>5. ASSUME NEW u \in Takes, NEW y \in Tx, Enter(u, y), Brings(u, y),
             UNCHANGED <<btcH, seqH, reorgs>>
      PROVE  /\ Enter(t, x) /\ Brings(t, x)
             /\ UNCHANGED <<btcH, seqH, reorgs>>
  <2>1. ChainsTypeOK /\ ~(Absent.conf >= 0)
    BY DEF TypeOK, Absent
  <2>2. u = t /\ y = x
    BY <1>5, <2>1, Entered DEF Seen
  <2>3. QED
    BY <1>5, <2>2
<1>6. ASSUME NEW u \in Takes, NEW y \in MayReplace, Replace(u, y) PROVE FALSE
  <2>1. ~(Absent.conf >= 0)
    BY DEF Absent
  <2>2. tx' = [tx EXCEPT ![u] = [z \in Tx |->
                IF z \in Family({y}) THEN Absent ELSE tx[u][z]]]
    BY <1>6 DEF Replace
  <2>3. tx'[t][x] = tx[t][x] \/ tx'[t][x] = Absent
    BY <2>2 DEF TypeOK, ChainsTypeOK
  <2>4. QED
    BY <2>1, <2>3 DEF Seen
<1>7. QED
  BY <1>1, <1>2, <1>3, <1>4, <1>5, <1>6, TxStep

-----------------------------------------------------------------------------
(* Who writes what: the state file, what the responder is in the middle    *)
(* of, and what of the loan has become public.                             *)

Writes(t, f) ==
    \/ f = "t" /\ HashPass(t)
    \/ f = "vault_txid" /\ SignPass(t)
    \/ f = "disbursing" /\ DisburseMark(t)
    \/ /\ f = "disbursement_txid"
       /\ DisburseRecord(t) \/ DisburseRecover(t) \/ OperatorFound(t)
    \/ f = "upgrade_txid" /\ UpgradeRecord(t)
    \/ f = "claiming" /\ ClaimMark(t)
    \/ /\ f \in {"claim_txid", "claim_of_txid"}
       /\ ClaimRecord(t) \/ (ClaimRecover(t) /\ Seen(t, "claim"))
    \/ f = "secret_published" /\ PublishPass(t)
    \/ f = "refunding" /\ RefundMark(t)
    \/ /\ f = "principal_refunded"
       /\ \/ RefundRecord(t)
          \/ RefundRecover(t) /\ (Seen(t, "refund") \/ Seen(t, "take"))

Erased == {"disbursing", "claiming", "claim_txid", "refunding"}

(* A write sets only the fields it names, and erases only those it names.  *)
FileStep(t) ==
    \A f \in Fields : /\ have'[t][f] /\ ~have[t][f] => Writes(t, f)
                      /\ have[t][f] /\ f \notin Erased => have'[t][f]

LEMMA SetStep ==
  ASSUME TypeOK, NEW u \in Takes, NEW on, NEW off, Set(u, on, off),
         off \subseteq Erased, \A f \in on : Writes(u, f),
         NEW t \in Takes
  PROVE  FileStep(t)
<1>1. have \in [Takes -> Record]
  BY DEF TypeOK
<1>2. CASE t # u
  BY ZenonT(40), <1>1, <1>2, SetWrites DEF FileStep
<1>3. CASE t = u
  <2> SUFFICES ASSUME NEW f \in Fields
               PROVE  /\ have'[t][f] /\ ~have[t][f] => Writes(t, f)
                      /\ have[t][f] /\ f \notin Erased => have'[t][f]
    BY DEF FileStep
  <2>1. CASE f \in on
    BY <1>1, <1>3, <2>1, SetWrites
  <2>2. CASE f \in off \ on
    BY <1>1, <1>3, <2>2, SetWrites
  <2>3. CASE f \notin on \cup off
    <3>1. \A g \in Fields \ (on \cup off) : have'[t][g] = have[t][g]
      BY ZenonT(40), <1>1, <1>3, SetWrites
    <3>2. have'[t][f] = have[t][f]
      BY <2>3, <3>1
    <3>3. QED
      BY <3>2
  <2>4. QED
    BY <2>1, <2>2, <2>3
<1>4. QED
  BY <1>2, <1>3

LEMMA Unwritten ==
  ASSUME UNCHANGED have, NEW t \in Takes
  PROVE  FileStep(t)
BY DEF FileStep

LEMMA ResponderWrites ==
  ASSUME TypeOK, NEW u \in Takes, Responder(u), NEW t \in Takes
  PROVE  FileStep(t)
<1> USE DEF Erased
<1>1. CASE HashPass(u)
  BY <1>1, SetStep DEF HashPass, Writes
<1>2. CASE SignPass(u)
  BY <1>2, SetStep DEF SignPass, Writes
<1>3. CASE DisburseMark(u)
  BY <1>3, SetStep DEF DisburseMark, Writes
<1>4. CASE DisburseNotBroadcast(u)
  BY <1>4, SetStep DEF DisburseNotBroadcast
<1>5. CASE DisburseSend(u) \/ DisburseLost(u) \/ UpgradeSend(u)
           \/ ClaimSend(u) \/ ClaimLost(u) \/ PublishLost(u) \/ RefundSend(u)
  BY <1>5, Unwritten
  DEF DisburseSend, DisburseLost, UpgradeSend, ClaimSend, ClaimLost,
      PublishLost, RefundSend
<1>6. CASE DisburseRecord(u)
  BY <1>6, SetStep DEF DisburseRecord, Writes
<1>7. CASE DisburseRecover(u)
  BY <1>7, SetStep DEF DisburseRecover, Writes
<1>8. CASE UpgradeRecord(u)
  BY <1>8, SetStep DEF UpgradeRecord, Writes
<1>9. CASE ClaimRecover(u)
  <2>1. CASE Seen(u, "claim")
    <3>1. Set(u, {"claim_txid", "claim_of_txid"}, {"claiming"})
      BY <1>9, <2>1 DEF ClaimRecover
    <3>2. \A f \in {"claim_txid", "claim_of_txid"} : Writes(u, f)
      BY <1>9, <2>1 DEF Writes
    <3>3. QED
      BY <3>1, <3>2, SetStep
  <2>2. CASE ~Seen(u, "claim")
    BY <1>9, <2>2, SetStep DEF ClaimRecover
  <2>3. QED
    BY <2>1, <2>2
<1>10. CASE ClaimUndone(u)
  BY <1>10, SetStep DEF ClaimUndone
<1>11. CASE ClaimMark(u)
  BY <1>11, SetStep DEF ClaimMark, Writes
<1>12. CASE ClaimRecord(u)
  BY <1>12, SetStep DEF ClaimRecord, Writes
<1>13. CASE PublishPass(u)
  <2>1. Set(u, {"secret_published"}, {})
    BY <1>13 DEF PublishPass
  <2>2. \A f \in {"secret_published"} : Writes(u, f)
    BY <1>13 DEF Writes
  <2>3. QED
    BY <2>1, <2>2, SetStep
<1>14. CASE RefundRecover(u)
  <2>1. CASE Seen(u, "refund") \/ Seen(u, "take")
    <3>1. Set(u, {"principal_refunded"}, {"refunding"})
      BY <1>14, <2>1 DEF RefundRecover
    <3>2. Writes(u, "principal_refunded")
      BY <1>14, <2>1 DEF Writes
    <3>3. QED
      BY <3>1, <3>2, SetStep
  <2>2. CASE ~(Seen(u, "refund") \/ Seen(u, "take"))
    BY <1>14, <2>2, SetStep DEF RefundRecover
  <2>3. QED
    BY <2>1, <2>2
<1>15. CASE RefundMark(u)
  BY <1>15, SetStep DEF RefundMark, Writes
<1>16. CASE RefundLost(u)
  BY <1>16, SetStep DEF RefundLost
<1>17. CASE RefundRecord(u)
  BY <1>17, SetStep DEF RefundRecord, Writes
<1>18. QED
  BY <1>1, <1>2, <1>3, <1>4, <1>5, <1>6, <1>7, <1>8, <1>9, <1>10, <1>11,
     <1>12, <1>13, <1>14, <1>15, <1>16, <1>17 DEF Responder

LEMMA FileSteps ==
  ASSUME TypeOK, [Next]_vars, NEW t \in Takes
  PROVE  FileStep(t)
<1>1. ASSUME NEW u \in Takes, Operator(u) PROVE FileStep(t)
  <2>1. CASE OperatorClear(u)
    BY <2>1, SetStep DEF OperatorClear, Erased
  <2>2. CASE OperatorFound(u)
    BY <2>2, SetStep DEF OperatorFound, Erased, Writes
  <2>3. CASE Timeout(u)
    BY <2>3, Unwritten DEF Timeout, lender
  <2>4. QED
    BY <1>1, <2>1, <2>2, <2>3 DEF Operator
<1>2. ASSUME NEW u \in Takes, Borrower(u) PROVE FileStep(t)
  BY <1>2, Unwritten DEF Borrower, Borrow, Replace, lender
<1>3. CASE Environment
  BY <1>3, Unwritten DEF Environment, SeqTick, BtcTick, Reorg, Crash, lender
<1>4. CASE UNCHANGED vars
  BY <1>4, Unwritten DEF vars, lender
<1>5. QED
  BY ResponderWrites, <1>1, <1>2, <1>3, <1>4 DEF Next

(* What it takes to be in the middle of something, and what comes out.     *)
Begins(op, t) ==
    \/ op = "disburse" /\ DisburseMark(t)
    \/ op = "disbursed" /\ DisburseSend(t)
    \/ op = "upgraded" /\ UpgradeSend(t)
    \/ op = "claim" /\ ClaimMark(t)
    \/ op = "claimed" /\ ClaimSend(t)
    \/ op = "refund" /\ RefundMark(t)
    \/ op = "refunded" /\ RefundSend(t)

LEMMA PcSteps ==
  ASSUME TypeOK, [Next]_vars, NEW t \in Takes, NEW op,
         At(op, t)', ~At(op, t)
  PROVE  Begins(op, t)
<1>0. /\ pc' = [op |-> op, take |-> t] /\ pc' # pc
      /\ pc' # Idle
  BY DEF At, Idle
<1>1. ASSUME NEW u \in Takes, NEW o, Go(o, u) PROVE o = op /\ u = t
  <2>1. [op |-> o, take |-> u] = [op |-> op, take |-> t]
    BY <1>0, <1>1 DEF Go
  <2>2. QED
    BY <2>1
<1>2. ASSUME NEW u \in Takes, Responder(u) PROVE Begins(op, t)
  <2>1. CASE DisburseMark(u) \/ DisburseSend(u) \/ UpgradeSend(u)
    BY <1>1, <2>1 DEF DisburseMark, DisburseSend, UpgradeSend, Begins
  <2>2. CASE ClaimMark(u) \/ ClaimSend(u) \/ RefundMark(u) \/ RefundSend(u)
    BY <1>1, <2>2 DEF ClaimMark, ClaimSend, RefundMark, RefundSend, Begins
  <2>3. CASE HashPass(u) \/ SignPass(u) \/ DisburseRecover(u)
             \/ ClaimRecover(u) \/ ClaimUndone(u) \/ PublishPass(u)
             \/ PublishLost(u) \/ RefundRecover(u)
    BY <1>0, <2>3
    DEF HashPass, SignPass, DisburseRecover, ClaimRecover, ClaimUndone,
        PublishPass, PublishLost, RefundRecover
  <2>4. CASE DisburseNotBroadcast(u) \/ DisburseLost(u) \/ DisburseRecord(u)
             \/ UpgradeRecord(u) \/ ClaimLost(u) \/ ClaimRecord(u)
             \/ RefundLost(u) \/ RefundRecord(u)
    BY <1>0, <2>4
    DEF DisburseNotBroadcast, DisburseLost, DisburseRecord, UpgradeRecord,
        ClaimLost, ClaimRecord, RefundLost, RefundRecord
  <2>5. QED
    BY <1>2, <2>1, <2>2, <2>3, <2>4 DEF Responder
<1>3. ASSUME NEW u \in Takes, Operator(u) PROVE FALSE
  BY <1>0, <1>3 DEF Operator, OperatorClear, OperatorFound, Timeout, lender
<1>4. ASSUME NEW u \in Takes, Borrower(u) PROVE FALSE
  BY <1>0, <1>4 DEF Borrower, Borrow, Replace, lender
<1>5. CASE Environment
  BY <1>0, <1>5 DEF Environment, SeqTick, BtcTick, Reorg, Crash, lender
<1>6. CASE UNCHANGED vars
  BY <1>0, <1>6 DEF vars, lender
<1>7. QED
  BY <1>2, <1>3, <1>4, <1>5, <1>6 DEF Next

LEMMA PublicSteps ==
  ASSUME TypeOK, [Next]_vars, NEW t \in Takes
  PROVE  /\ tPublic[t] => tPublic'[t]
         /\ tPublic'[t] /\ ~tPublic[t] =>
              /\ At("claim", t) /\ ClaimBroadcast(t)
              /\ ClaimSend(t) \/ ClaimLost(t)
         /\ served[t] => served'[t]
         /\ served'[t] /\ ~served[t] => PublishDue(t)
         /\ sent[t] > 0 => sent'[t] > 0
<1> DEFINE Same == tPublic'[t] = tPublic[t]
           Kept == served'[t] = served[t]
           Paid == sent[t] > 0 => sent'[t] > 0
<1>1. ASSUME NEW u \in Takes, Responder(u)
      PROVE  /\ Paid
             /\ \/ Same
                \/ /\ tPublic'[t] /\ At("claim", t) /\ ClaimBroadcast(t)
                   /\ ClaimSend(t) \/ ClaimLost(t)
             /\ Kept \/ (served'[t] /\ PublishDue(t))
  <2>1. CASE ClaimSend(u) \/ ClaimLost(u)
    BY <2>1 DEF ClaimSend, ClaimLost, ClaimBroadcast, TypeOK
  <2>2. CASE DisburseSend(u) \/ DisburseLost(u)
    BY <2>2 DEF DisburseSend, DisburseLost, Pay, TypeOK, SentCap
  <2>3. CASE PublishPass(u) \/ PublishLost(u)
    BY <2>3 DEF PublishPass, PublishLost, TypeOK
  <2>4. CASE HashPass(u) \/ SignPass(u) \/ DisburseMark(u)
             \/ DisburseNotBroadcast(u) \/ DisburseRecord(u)
             \/ DisburseRecover(u) \/ UpgradeSend(u) \/ UpgradeRecord(u)
    BY <2>4
    DEF HashPass, SignPass, DisburseMark, DisburseNotBroadcast,
        DisburseRecord, DisburseRecover, UpgradeSend, UpgradeRecord
  <2>5. CASE ClaimRecover(u) \/ ClaimUndone(u) \/ ClaimMark(u)
             \/ ClaimRecord(u) \/ RefundRecover(u) \/ RefundMark(u)
             \/ RefundSend(u) \/ RefundLost(u) \/ RefundRecord(u)
    BY <2>5
    DEF ClaimRecover, ClaimUndone, ClaimMark, ClaimRecord, RefundRecover,
        RefundMark, RefundSend, RefundLost, RefundRecord
  <2>6. QED
    BY <1>1, <2>1, <2>2, <2>3, <2>4, <2>5 DEF Responder
<1>2. ASSUME NEW u \in Takes, Operator(u) PROVE Same /\ Kept /\ Paid
  BY <1>2 DEF Operator, OperatorClear, OperatorFound, Timeout, lender
<1>3. ASSUME NEW u \in Takes, Borrower(u) PROVE Same /\ Kept /\ Paid
  BY <1>3 DEF Borrower, Borrow, Replace, lender
<1>4. ASSUME Environment PROVE Same /\ Kept /\ Paid
  BY <1>4 DEF Environment, SeqTick, BtcTick, Reorg, Crash, lender
<1>5. ASSUME UNCHANGED vars PROVE Same /\ Kept /\ Paid
  BY <1>5 DEF vars, lender
<1>6. QED
  BY <1>1, <1>2, <1>3, <1>4, <1>5 DEF Next

-----------------------------------------------------------------------------
(* The state file and the chains.  RecordsBacked is not inductive: what is *)
(* recorded now was sent earlier, so the responder in between must have    *)
(* done it already, and a claim that is looked up on the chain rests on    *)
(* whoever brought it there, whose intent is still on record.              *)

BackedAt(t) ==
    /\ have[t].claim_txid => tPublic[t]
    /\ Seen(t, "claim") => have[t].claiming \/ have[t].claim_of_txid
    /\ have[t].secret_published => served[t]
    /\ have[t].upgrade_txid => sent[t] > 0
    /\ have[t].vault_txid => have[t].t
    /\ Committed(t) => have[t].t
    /\ tPublic[t] => have[t].t /\ Started(t)
    /\ served[t] => tPublic[t]
    /\ Seen(t, "disburse") => sent[t] > 0
    /\ Seen(t, "take") => sent[t] > 0
    /\ Seen(t, "claim") => tPublic[t]
    /\ Seen(t, "reclaim") => tPublic[t]
    /\ At("claim", t) => have[t].t /\ Started(t) /\ have[t].claiming
    /\ At("claimed", t) => tPublic[t]
    /\ At("upgraded", t) => sent[t] > 0
    /\ At("disburse", t) \/ At("disbursed", t) => have[t].t

BackedInv == \A t \in Takes : BackedAt(t)

LEMMA FieldNames ==
  Fields = {"t", "vault_txid", "disbursing", "disbursement_txid",
            "upgrade_txid", "claiming", "claim_txid", "claim_of_txid",
            "refunding", "principal_refunded", "secret_published"}
BY DEF Fields

LEMMA Spared ==
  ASSUME TypeOK, NEW u \in Takes, NEW on, NEW off, Set(u, on, off),
         "claiming" \notin off, NEW t \in Takes, have[t].claiming
  PROVE  have'[t].claiming
<1>1. have \in [Takes -> Record] /\ "claiming" \in Fields
  BY FieldNames DEF TypeOK
<1>2. CASE t # u
  BY <1>1, <1>2, SetWrites
<1>3. CASE t = u /\ "claiming" \in on
  BY <1>1, <1>3, SetWrites
<1>4. CASE t = u /\ "claiming" \notin on
  <2>1. \A g \in Fields \ (on \cup off) : have'[t][g] = have[t][g]
    BY ZenonT(40), <1>1, <1>4, SetWrites
  <2>2. "claiming" \in Fields \ (on \cup off)
    BY <1>1, <1>4
  <2>3. QED
    BY <2>1, <2>2
<1>5. QED
  BY <1>2, <1>3, <1>4

(* The intent of a claim ends with its record, or with the look-up that    *)
(* finds the claim or finds that it never landed.                          *)
LEMMA IntentEnds ==
  ASSUME TypeOK, [Next]_vars, NEW t \in Takes,
         have[t].claiming, ~have'[t].claiming
  PROVE  /\ ClaimRecord(t) \/ ClaimRecover(t)
         /\ Seen(t, "claim") => have'[t].claim_of_txid
<1>1. ASSUME NEW u \in Takes, Responder(u)
      PROVE  u = t /\ (ClaimRecord(t) \/ ClaimRecover(t))
  <2>1. CASE HashPass(u) \/ SignPass(u) \/ DisburseMark(u)
             \/ DisburseNotBroadcast(u) \/ DisburseRecord(u)
             \/ DisburseRecover(u) \/ UpgradeRecord(u)
    BY <2>1, Spared
    DEF HashPass, SignPass, DisburseMark, DisburseNotBroadcast,
        DisburseRecord, DisburseRecover, UpgradeRecord
  <2>2. CASE ClaimUndone(u) \/ ClaimMark(u) \/ PublishPass(u)
             \/ RefundMark(u) \/ RefundLost(u) \/ RefundRecord(u)
    BY <2>2, Spared
    DEF ClaimUndone, ClaimMark, PublishPass, RefundMark, RefundLost,
        RefundRecord
  <2>3. CASE RefundRecover(u)
    BY <2>3, Spared DEF RefundRecover
  <2>4. CASE DisburseSend(u) \/ DisburseLost(u) \/ UpgradeSend(u)
             \/ ClaimSend(u) \/ ClaimLost(u) \/ PublishLost(u)
             \/ RefundSend(u)
    BY <2>4
    DEF DisburseSend, DisburseLost, UpgradeSend, ClaimSend, ClaimLost,
        PublishLost, RefundSend
  <2>5. CASE ClaimRecord(u) \/ ClaimRecover(u)
    <3>1. have \in [Takes -> Record]
      BY DEF TypeOK
    <3>2. ASSUME NEW on, NEW off, Set(u, on, off) PROVE u = t
      <4>1. \A v \in Takes \ {u} : have'[v] = have[v]
        BY ZenonT(40), <3>1, <3>2, SetWrites
      <4>2. QED
        BY <4>1
    <3>3. u = t
      BY <2>5, <3>2 DEF ClaimRecord, ClaimRecover
    <3>4. QED
      BY <2>5, <3>3
  <2>6. QED
    BY <1>1, <2>1, <2>2, <2>3, <2>4, <2>5 DEF Responder
<1>2. ASSUME NEW u \in Takes, Operator(u) PROVE FALSE
  <2>1. CASE OperatorClear(u) \/ OperatorFound(u)
    BY <2>1, Spared DEF OperatorClear, OperatorFound
  <2>2. CASE Timeout(u)
    BY <2>2 DEF Timeout, lender
  <2>3. QED
    BY <1>2, <2>1, <2>2 DEF Operator
<1>3. ASSUME NEW u \in Takes, Borrower(u) PROVE FALSE
  BY <1>3 DEF Borrower, Borrow, Replace, lender
<1>4. ASSUME Environment PROVE FALSE
  BY <1>4 DEF Environment, SeqTick, BtcTick, Reorg, Crash, lender
<1>5. ASSUME UNCHANGED vars PROVE FALSE
  BY <1>5 DEF vars, lender
<1>6. ClaimRecord(t) \/ ClaimRecover(t)
  BY <1>1, <1>2, <1>3, <1>4, <1>5 DEF Next
<1>7. ASSUME Seen(t, "claim") PROVE have'[t].claim_of_txid
  <2>1. Set(t, {"claim_txid", "claim_of_txid"}, {"claiming"})
    BY <1>6, <1>7 DEF ClaimRecord, ClaimRecover
  <2>2. have \in [Takes -> Record] /\ "claim_of_txid" \in Fields
    BY FieldNames DEF TypeOK
  <2>3. \A f \in Fields \cap {"claim_txid", "claim_of_txid"} :
           have'[t][f] = TRUE
    BY ZenonT(40), <2>1, <2>2, SetWrites
  <2>4. QED
    BY <2>2, <2>3
<1>8. QED
  BY <1>6, <1>7

LEMMA BackedStep ==
  ASSUME TypeOK, BackedInv, [Next]_vars
  PROVE  BackedInv'
<1> SUFFICES ASSUME NEW t \in Takes PROVE BackedAt(t)'
  BY DEF BackedInv
<1>1. BackedAt(t)
  BY DEF BackedInv
<1>2. FileStep(t)
  BY FileSteps
<1>3. /\ tPublic[t] => tPublic'[t]
      /\ tPublic'[t] /\ ~tPublic[t] =>
           /\ At("claim", t) /\ ClaimBroadcast(t)
           /\ ClaimSend(t) \/ ClaimLost(t)
      /\ served[t] => served'[t]
      /\ served'[t] /\ ~served[t] => PublishDue(t)
      /\ sent[t] > 0 => sent'[t] > 0
  BY PublicSteps
<1>4. /\ have[t].t => have'[t].t
      /\ have[t].upgrade_txid => have'[t].upgrade_txid
      /\ Started(t) => Started(t)'
  BY <1>2, FieldNames DEF FileStep, Erased, Started
<1>5. have'[t].claim_txid => tPublic'[t]
  <2>1. CASE have[t].claim_txid
    BY <1>1, <1>3, <2>1 DEF BackedAt
  <2>2. CASE ~have[t].claim_txid /\ have'[t].claim_txid
    <3>1. ClaimRecord(t) \/ (ClaimRecover(t) /\ Seen(t, "claim"))
      BY <1>2, <2>2, FieldNames DEF FileStep, Writes
    <3>2. QED
      BY <1>1, <1>3, <3>1 DEF ClaimRecord, BackedAt
  <2>3. QED
    BY <2>1, <2>2
<1>6. Seen(t, "claim")' => have'[t].claiming \/ have'[t].claim_of_txid
  <2>1. CASE Seen(t, "claim")
    <3>1. have[t].claiming /\ ~have'[t].claiming => have'[t].claim_of_txid
      BY <2>1, IntentEnds
    <3>2. have[t].claim_of_txid => have'[t].claim_of_txid
      BY <1>2, FieldNames DEF FileStep, Erased
    <3>3. QED
      BY <1>1, <2>1, <3>1, <3>2 DEF BackedAt
  <2>2. CASE Seen(t, "claim")' /\ ~Seen(t, "claim")
    <3>1. At("claim", t) /\ UNCHANGED have
      BY <2>2, Appears DEF Brings, Tx, SeqTx, ClaimSend, ClaimLost
    <3>2. QED
      BY <1>1, <3>1 DEF BackedAt
  <2>3. QED
    BY <2>1, <2>2
<1>7. have'[t].secret_published => served'[t]
  <2>1. CASE have[t].secret_published
    BY <1>1, <1>3, <2>1 DEF BackedAt
  <2>2. CASE ~have[t].secret_published /\ have'[t].secret_published
    <3>1. PublishPass(t)
      BY <1>2, <2>2, FieldNames DEF FileStep, Writes
    <3>2. QED
      BY <3>1 DEF PublishPass, TypeOK
  <2>3. QED
    BY <2>1, <2>2
<1>8. have'[t].upgrade_txid => sent'[t] > 0
  <2>1. CASE have[t].upgrade_txid
    BY <1>1, <1>3, <2>1 DEF BackedAt
  <2>2. CASE ~have[t].upgrade_txid /\ have'[t].upgrade_txid
    <3>1. UpgradeRecord(t)
      BY <1>2, <2>2, FieldNames DEF FileStep, Writes
    <3>2. QED
      BY <1>1, <1>3, <3>1 DEF UpgradeRecord, BackedAt
  <2>3. QED
    BY <2>1, <2>2
<1>9. have'[t].vault_txid => have'[t].t
  <2>1. have'[t].vault_txid /\ ~have[t].vault_txid => SignPass(t)
    BY <1>2, FieldNames DEF FileStep, Writes
  <2>2. QED
    BY <1>1, <1>4, <2>1 DEF SignPass, BackedAt
<1>10. Committed(t)' => have'[t].t
  <2>1. /\ have'[t].disbursing /\ ~have[t].disbursing => DisburseMark(t)
        /\ have'[t].disbursement_txid /\ ~have[t].disbursement_txid =>
             DisburseRecord(t) \/ DisburseRecover(t) \/ OperatorFound(t)
    BY <1>2, FieldNames DEF FileStep, Writes
  <2>2. QED
    BY <1>1, <1>4, <2>1
    DEF DisburseMark, DisburseRecord, DisburseRecover, DisburseFound,
        OperatorFound, BackedAt, Committed
<1>11. tPublic'[t] => have'[t].t /\ Started(t)'
  BY <1>1, <1>3, <1>4 DEF BackedAt
<1>12. served'[t] => tPublic'[t]
  <2>1. PublishDue(t) => Seen(t, "claim")
    <3>1. tx[t]["claim"].conf \in Int
      BY DEF TypeOK, ChainsTypeOK, TxRecord, Depth, Tx, SeqTx
    <3>2. QED
      BY <3>1, ChainAssumption DEF PublishDue, AnchorSafe, Seen
  <2>2. QED
    BY <1>1, <1>3, <2>1 DEF BackedAt
<1>13. Seen(t, "disburse")' => sent'[t] > 0
  <2>1. CASE Seen(t, "disburse")
    BY <1>1, <1>3, <2>1 DEF BackedAt
  <2>2. CASE Seen(t, "disburse")' /\ ~Seen(t, "disburse")
    <3>1. Enter(t, "disburse") /\ (DisburseSend(t) \/ DisburseLost(t))
      BY <2>2, Appears DEF Brings, Tx, SeqTx
    <3>2. Pay(t) \/ UNCHANGED <<sent, tx>>
      BY <3>1 DEF DisburseSend, DisburseLost
    <3>3. CASE Pay(t)
      BY <3>3 DEF Pay, TypeOK, SentCap
    <3>4. CASE UNCHANGED <<sent, tx>>
      BY <2>2, <3>4 DEF Seen
    <3>5. QED
      BY <3>2, <3>3, <3>4
  <2>3. QED
    BY <2>1, <2>2
<1>14. Seen(t, "take")' => sent'[t] > 0
  <2>1. CASE Seen(t, "take")
    BY <1>1, <1>3, <2>1 DEF BackedAt
  <2>2. CASE Seen(t, "take")' /\ ~Seen(t, "take")
    <3>1. Borrow(t, "take")
      BY <2>2, Appears DEF Brings, Tx, SeqTx
    <3>2. Seen(t, "disburse")
      BY <3>1, Scripts DEF Borrow, Outbids
    <3>3. QED
      BY <1>1, <1>3, <3>2 DEF BackedAt
  <2>3. QED
    BY <2>1, <2>2
<1>15. Seen(t, "claim")' => tPublic'[t]
  <2>1. CASE Seen(t, "claim")
    BY <1>1, <1>3, <2>1 DEF BackedAt
  <2>2. CASE Seen(t, "claim")' /\ ~Seen(t, "claim")
    <3>1. ClaimBroadcast(t)
      BY <2>2, Appears DEF Brings, Tx, SeqTx
    <3>2. QED
      BY <3>1 DEF ClaimBroadcast, TypeOK
  <2>3. QED
    BY <2>1, <2>2
<1>16. Seen(t, "reclaim")' => tPublic'[t]
  <2>1. CASE Seen(t, "reclaim")
    BY <1>1, <1>3, <2>1 DEF BackedAt
  <2>2. CASE Seen(t, "reclaim")' /\ ~Seen(t, "reclaim")
    <3>1. Borrow(t, "reclaim")
      BY <2>2, Appears DEF Brings, Tx, BtcTx
    <3>2. tPublic[t] \/ served[t]
      BY <3>1 DEF Borrow, BorrowerMay
    <3>3. QED
      BY <1>1, <1>3, <3>2 DEF BackedAt
  <2>3. QED
    BY <2>1, <2>2
<1>17. At("claim", t)' => have'[t].t /\ Started(t)' /\ have'[t].claiming
  <2>1. CASE At("claim", t)' /\ At("claim", t)
    <3>1. ~ClaimRecord(t) /\ ~ClaimRecover(t)
      BY <2>1 DEF ClaimRecord, ClaimRecover, At, Idle
    <3>2. QED
      BY <1>1, <1>4, <2>1, <3>1, IntentEnds DEF BackedAt
  <2>2. CASE At("claim", t)' /\ ~At("claim", t)
    <3>1. ClaimMark(t)
      BY <2>2, PcSteps DEF Begins
    <3>2. have'[t].claiming
      BY <3>1, SetWrites, FieldNames DEF ClaimMark, TypeOK
    <3>3. QED
      BY <1>4, <3>1, <3>2 DEF ClaimMark, ClaimDue
  <2>3. QED
    BY <2>1, <2>2
<1>18. At("claimed", t)' => tPublic'[t]
  <2>1. CASE At("claimed", t)
    BY <1>1, <1>3, <2>1 DEF BackedAt
  <2>2. CASE At("claimed", t)' /\ ~At("claimed", t)
    <3>1. ClaimSend(t)
      BY <2>2, PcSteps DEF Begins
    <3>2. QED
      BY <3>1 DEF ClaimSend, ClaimBroadcast, TypeOK
  <2>3. QED
    BY <2>1, <2>2
<1>19. At("upgraded", t)' => sent'[t] > 0
  <2>1. CASE At("upgraded", t)
    BY <1>1, <1>3, <2>1 DEF BackedAt
  <2>2. CASE At("upgraded", t)' /\ ~At("upgraded", t)
    <3>1. UpgradeSend(t)
      BY <2>2, PcSteps DEF Begins
    <3>2. AnchorSafe(t, "take")
      BY <3>1 DEF UpgradeSend, UpgradeDue
    <3>3. tx[t]["take"].conf \in Int
      BY DEF TypeOK, ChainsTypeOK, TxRecord, Depth, Tx, SeqTx
    <3>4. Seen(t, "take")
      BY <3>2, <3>3, ChainAssumption DEF AnchorSafe, Seen
    <3>5. QED
      BY <1>1, <1>3, <3>4 DEF BackedAt
  <2>3. QED
    BY <2>1, <2>2
<1>20. At("disburse", t)' \/ At("disbursed", t)' => have'[t].t
  <2>1. At("disburse", t)' => At("disburse", t) \/ DisburseMark(t)
    BY PcSteps DEF Begins
  <2>2. At("disbursed", t)' => At("disbursed", t) \/ DisburseSend(t)
    BY PcSteps DEF Begins
  <2>3. QED
    BY <1>1, <1>4, <2>1, <2>2 DEF DisburseMark, DisburseSend, BackedAt
<1>21. QED
  BY <1>5, <1>6, <1>7, <1>8, <1>9, <1>10, <1>11, <1>12, <1>13, <1>14, <1>15,
     <1>16, <1>17, <1>18, <1>19, <1>20 DEF BackedAt

LEMMA BackedInit == Init => BackedInv
<1> SUFFICES ASSUME Init, NEW t \in Takes PROVE BackedAt(t)
  BY DEF BackedInv
<1>1. \A f \in Fields : ~have[t][f]
  BY DEF Init
<1>2. \A x \in Tx : ~Seen(t, x)
  BY DEF Init, ChainsInit, Seen, Absent
<1>3. ~tPublic[t] /\ ~served[t] /\ \A op : ~At(op, t)
  BY DEF Init, At, Idle
<1>4. QED
  BY <1>1, <1>2, <1>3, FieldNames
  DEF BackedAt, Committed, Tx, BtcTx, SeqTx

LEMMA BackedInvariant == Spec => []BackedInv
<1>1. TypeOK /\ BackedInv /\ [Next]_vars => BackedInv'
  BY BackedStep
<1>2. QED
  BY BackedInit, TypeCorrect, <1>1, PTL DEF Spec

(* The state file and the network tell the same story, whatever died       *)
(* between a send and its record and whatever upgrade the relay named: a   *)
(* claim that is out there is on record, as begun or by the outpoint it    *)
(* spent; a claim on record has shown the secret, a loan on record as      *)
(* started was paid, a secret handed over is the relay's to serve          *)
(* (CrossLoan, RecordsBacked).                                             *)
THEOREM RecordsAreBacked == Spec => []RecordsBacked
<1>1. BackedInv => RecordsBacked
  BY DEF BackedInv, BackedAt, RecordsBacked
<1>2. QED
  BY BackedInvariant, <1>1, PTL

-----------------------------------------------------------------------------
(* The clocks. *)

SeqTime(h) == h * SeqBlockSeconds
BtcTime(h) == h * BtcBlockSeconds

ClockInv == /\ SeqTime(seqH) <= BtcTime(btcH) + Drift
            /\ BtcTime(btcH) <= SeqTime(seqH) + Drift

LEMMA Heights ==
  ASSUME TypeOK, [Next]_vars
  PROVE  /\ seqH' = seqH \/ (SeqTick /\ seqH' = seqH + 1)
         /\ btcH' = btcH \/ (BtcTick /\ btcH' = btcH + 1)
         /\ reorgs' = reorgs \/ (Reorg /\ reorgs' = reorgs + 1)
BY TxStep DEF chains, SeqTick, SeqBlock, BtcTick, BtcBlock, Reorg, BtcReorg

LEMMA ClockStep ==
  ASSUME TypeOK, ClockInv, [Next]_vars
  PROVE  ClockInv'
<1> USE DEF ClockInv, SeqTime, BtcTime
<1>1. /\ seqH \in Nat /\ btcH \in Nat /\ Drift \in Nat
      /\ SeqBlockSeconds \in Nat /\ BtcBlockSeconds \in Nat
  BY ChainAssumption, MarginAssumption DEF TypeOK, ChainsTypeOK
<1>2. CASE UNCHANGED <<seqH, btcH>>
  BY <1>2
<1>3. CASE SeqTick
  <2>1. /\ seqH' = seqH + 1 /\ btcH' = btcH
        /\ (seqH + 1) * SeqBlockSeconds <= btcH * BtcBlockSeconds + Drift
    BY <1>3 DEF SeqTick, SeqBlock
  <2>2. (seqH + 1) * SeqBlockSeconds = seqH * SeqBlockSeconds + SeqBlockSeconds
    BY <1>1
  <2>3. seqH * SeqBlockSeconds \in Int /\ btcH * BtcBlockSeconds \in Int
    BY <1>1
  <2>4. QED
    BY <1>1, <2>1, <2>2, <2>3
<1>4. CASE BtcTick
  <2>1. /\ btcH' = btcH + 1 /\ seqH' = seqH
        /\ (btcH + 1) * BtcBlockSeconds <= seqH * SeqBlockSeconds + Drift
    BY <1>4 DEF BtcTick, BtcBlock
  <2>2. (btcH + 1) * BtcBlockSeconds = btcH * BtcBlockSeconds + BtcBlockSeconds
    BY <1>1
  <2>3. seqH * SeqBlockSeconds \in Int /\ btcH * BtcBlockSeconds \in Int
    BY <1>1
  <2>4. QED
    BY <1>1, <2>1, <2>2, <2>3
<1>5. QED
  BY <1>2, <1>3, <1>4, Heights

LEMMA ClockInvariant == Spec => []ClockInv
<1>1. Init => ClockInv
  BY ChainAssumption, MarginAssumption
  DEF Init, ChainsInit, ClockInv, SeqTime, BtcTime
<1>2. TypeOK /\ ClockInv /\ [Next]_vars => ClockInv'
  BY ClockStep
<1>3. QED
  BY <1>1, <1>2, TypeCorrect, PTL DEF Spec

(* What the margins of timelocks_sane say of the clocks' seconds, whenever *)
(* a responder judged the loan.                                            *)
LoanSane ==
    /\ BtcTime(Loan.recover_after)
         >= SeqTime(Loan.repay_deadline) + RepayMargin - Drift
    /\ BtcTime(Loan.abort_after)
         >= SeqTime(Loan.d_refund) + UpgradeMargin - Drift
    /\ BtcTime(Loan.recover_after) > BtcTime(Loan.abort_after)

LEMMA SaneMargins ==
  ASSUME TypeOK, Sane
  PROVE  /\ SeqS(Loan.d_refund, seqH) >= ClaimMargin
         /\ BtcS(Loan.abort_after, btcH) - SeqS(Loan.d_refund, seqH)
              >= UpgradeMargin
         /\ BtcS(Loan.recover_after, btcH) - SeqS(Loan.repay_deadline, seqH)
              >= RepayMargin
         /\ BtcS(Loan.recover_after, btcH) > BtcS(Loan.abort_after, btcH)
<1>1. /\ SeqS(Loan.d_refund, seqH) \in Int /\ SeqS(Loan.repay_deadline, seqH) \in Int
      /\ BtcS(Loan.abort_after, btcH) \in Int /\ BtcS(Loan.recover_after, btcH) \in Int
  BY LoanAssumption, MarginAssumption
  DEF SeqS, BtcS, TypeOK, ChainsTypeOK, Deadlines
<1>2. /\ ClaimMargin \in Nat /\ UpgradeMargin \in Nat /\ RepayMargin \in Nat
  BY MarginAssumption
<1>3. TimelockProblems(Loan, btcH, seqH) = {}
  BY DEF Sane, TimelocksSane
<1>4. /\ ~(SeqS(Loan.d_refund, seqH) < ClaimMargin)
      /\ ~(BtcS(Loan.abort_after, btcH) - SeqS(Loan.d_refund, seqH)
             < UpgradeMargin)
      /\ ~(BtcS(Loan.recover_after, btcH) - SeqS(Loan.repay_deadline, seqH)
             < RepayMargin)
      /\ ~(BtcS(Loan.recover_after, btcH) <= BtcS(Loan.abort_after, btcH))
  BY <1>3 DEF TimelockProblems
<1>5. QED
  BY <1>1, <1>2, <1>4

LEMMA SaneLoan ==
  ASSUME TypeOK, ClockInv, Sane
  PROVE  LoanSane
<1>1. /\ seqH \in Int /\ btcH \in Int /\ Drift \in Int
      /\ SeqBlockSeconds \in Int /\ BtcBlockSeconds \in Int
      /\ Loan.d_refund \in Int /\ Loan.repay_deadline \in Int
      /\ Loan.abort_after \in Int /\ Loan.recover_after \in Int
      /\ UpgradeMargin \in Int /\ RepayMargin \in Int
  BY ChainAssumption, MarginAssumption, LoanAssumption
  DEF TypeOK, ChainsTypeOK, Deadlines
<1>2. /\ SeqS(Loan.d_refund, seqH) = SeqTime(Loan.d_refund) - SeqTime(seqH)
      /\ SeqS(Loan.repay_deadline, seqH)
           = SeqTime(Loan.repay_deadline) - SeqTime(seqH)
      /\ BtcS(Loan.abort_after, btcH)
           = BtcTime(Loan.abort_after) - BtcTime(btcH)
      /\ BtcS(Loan.recover_after, btcH)
           = BtcTime(Loan.recover_after) - BtcTime(btcH)
  BY <1>1 DEF SeqS, BtcS, SeqTime, BtcTime
<1>3. /\ SeqTime(Loan.d_refund) \in Int /\ SeqTime(Loan.repay_deadline) \in Int
      /\ BtcTime(Loan.abort_after) \in Int /\ BtcTime(Loan.recover_after) \in Int
      /\ SeqTime(seqH) \in Int /\ BtcTime(btcH) \in Int
  BY <1>1 DEF SeqTime, BtcTime
<1>4. QED
  BY <1>1, <1>2, <1>3, SaneMargins DEF ClockInv, LoanSane

SaneInv == \A t \in Takes : have[t].t => LoanSane

LEMMA SaneInvariant == Spec => []SaneInv
<1>1. Init => SaneInv
  BY FieldNames DEF Init, SaneInv
<1>2. TypeOK /\ ClockInv /\ SaneInv /\ [Next]_vars => SaneInv'
  <2> SUFFICES ASSUME TypeOK, ClockInv, SaneInv, [Next]_vars,
                      NEW t \in Takes, have'[t].t
               PROVE  LoanSane
    BY DEF SaneInv, LoanSane, SeqTime, BtcTime
  <2>1. CASE have[t].t
    BY <2>1 DEF SaneInv
  <2>2. CASE ~have[t].t
    <3>1. HashPass(t)
      BY <2>2, FileSteps, FieldNames DEF FileStep, Writes
    <3>2. QED
      BY <3>1, SaneLoan DEF HashPass
  <2>3. QED
    BY <2>1, <2>2
<1>3. QED
  BY <1>1, <1>2, TypeCorrect, ClockInvariant, PTL DEF Spec

-----------------------------------------------------------------------------
(* How long a Sequentia transaction may take to settle.  It is in the      *)
(* mempool for one block, and a reorg can put it back there only while its *)
(* anchor is Bitcoin's tip; each reorg costs it no more than the time the  *)
(* clocks may run apart, there and back.  m is when it came, at the latest.*)

Waits(m) == m + 2 * Drift * reorgs

Fresh(t, x, m) ==
    /\ tx[t][x].conf = 0 => SeqTime(seqH) <= Waits(m)
    /\ Mined(t, x) => tx[t][x].anchor >= 1
    /\ Mined(t, x) /\ tx[t][x].anchor < AnchorDepth
         => BtcTime(btcH - tx[t][x].anchor + 1) <= Waits(m) + Drift
    /\ Mined(t, x) /\ tx[t][x].conf < ClaimDepth
         => SeqTime(seqH - tx[t][x].conf) <= Waits(m)

LEMMA FreshStep ==
  ASSUME TypeOK, ClockInv, NEW t \in Takes, NEW x \in SeqTx, NEW m \in Int,
         Fresh(t, x, m), SeqTick \/ BtcTick \/ Reorg
  PROVE  Fresh(t, x, m)'
<1> DEFINE c == tx[t][x].conf
           a == tx[t][x].anchor
           c1 == tx'[t][x].conf
           a1 == tx'[t][x].anchor
<1>1. /\ seqH \in Nat /\ btcH \in Nat /\ reorgs \in Nat /\ Drift \in Nat
      /\ SeqBlockSeconds \in Nat /\ BtcBlockSeconds \in Nat
      /\ ClaimDepth \in Nat \ {0} /\ AnchorDepth \in Nat \ {0, 1}
  BY ChainAssumption, MarginAssumption DEF TypeOK, ChainsTypeOK
<1>2. /\ x \in Tx /\ x \notin BtcTx
      /\ c \in Int /\ a \in Nat /\ c >= -1
  <2>1. x \in Tx /\ x \notin BtcTx
    BY DEF Tx, SeqTx, BtcTx
  <2>2. tx[t][x] \in TxRecord
    BY <2>1 DEF TypeOK, ChainsTypeOK
  <2>3. QED
    BY <2>1, <2>2, ChainAssumption DEF TxRecord, Depth
<1>3. /\ c = 0 => seqH * SeqBlockSeconds <= m + 2 * Drift * reorgs
      /\ c >= 1 => a >= 1
      /\ c >= 1 /\ a < AnchorDepth
           => (btcH - a + 1) * BtcBlockSeconds <= m + 2 * Drift * reorgs + Drift
      /\ c >= 1 /\ c < ClaimDepth
           => (seqH - c) * SeqBlockSeconds <= m + 2 * Drift * reorgs
  BY DEF Fresh, Mined, Waits, SeqTime, BtcTime
<1>4. SUFFICES
        /\ c1 = 0 => seqH' * SeqBlockSeconds <= m + 2 * Drift * reorgs'
        /\ c1 >= 1 => a1 >= 1
        /\ c1 >= 1 /\ a1 < AnchorDepth
             => (btcH' - a1 + 1) * BtcBlockSeconds
                  <= m + 2 * Drift * reorgs' + Drift
        /\ c1 >= 1 /\ c1 < ClaimDepth
             => (seqH' - c1) * SeqBlockSeconds <= m + 2 * Drift * reorgs'
  BY DEF Fresh, Mined, Waits, SeqTime, BtcTime
<1>5. /\ seqH * SeqBlockSeconds <= btcH * BtcBlockSeconds + Drift
      /\ btcH * BtcBlockSeconds <= seqH * SeqBlockSeconds + Drift
  BY DEF ClockInv, SeqTime, BtcTime
<1>6. CASE SeqTick
  <2>1. /\ c1 = Deeper(c, ClaimDepth) /\ a1 = IF c = 0 THEN 1 ELSE a
        /\ seqH' = seqH + 1 /\ btcH' = btcH /\ reorgs' = reorgs
    BY <1>2, <1>6, SeqMoves DEF SeqTick, SeqBlock
  <2> HIDE DEF c, a, c1, a1
  <2>2. CASE c = 0
    <3>1. c1 = 1 /\ a1 = 1
      BY <1>1, <2>1, <2>2 DEF Deeper
    <3>2. btcH - 1 + 1 = btcH /\ seqH + 1 - 1 = seqH
      BY <1>1
    <3>3. btcH * BtcBlockSeconds <= m + 2 * Drift * reorgs + Drift
      BY <1>1, <1>3, <1>5, <2>2
    <3>4. /\ (btcH' - a1 + 1) * BtcBlockSeconds = btcH * BtcBlockSeconds
          /\ (seqH' - c1) * SeqBlockSeconds = seqH * SeqBlockSeconds
      BY <1>1, <2>1, <3>1
    <3>5. QED
      BY <1>3, <2>1, <2>2, <3>1, <3>3, <3>4
  <2>3. CASE c # 0
    <3>1. \/ c1 = c /\ ~(c >= 1 /\ c < ClaimDepth)
          \/ c1 = c + 1 /\ c >= 1 /\ c < ClaimDepth
      BY <1>1, <1>2, <2>1, <2>3 DEF Deeper
    <3>2. a1 = a
      BY <2>1, <2>3
    <3>3. seqH + 1 - (c + 1) = seqH - c
      BY <1>1, <1>2
    <3>4. QED
      BY <1>1, <1>2, <1>3, <2>1, <2>3, <3>1, <3>2, <3>3
  <2>4. QED
    BY <2>2, <2>3
<1>7. CASE BtcTick
  <2>1. /\ c1 = c
        /\ a1 = IF c >= 1 THEN Deeper(a, AnchorDepth) ELSE 0
        /\ seqH' = seqH /\ btcH' = btcH + 1 /\ reorgs' = reorgs
    BY <1>2, <1>7, BtcMoves DEF BtcTick, BtcBlock, Mined
  <2> HIDE DEF c, a, c1, a1
  <2>2. c >= 1 => \/ a1 = a /\ ~(a < AnchorDepth)
                  \/ a1 = a + 1 /\ a < AnchorDepth
    BY <1>1, <1>2, <2>1 DEF Deeper
  <2>3. btcH + 1 - (a + 1) + 1 = btcH - a + 1
    BY <1>1, <1>2
  <2>4. QED
    BY <1>1, <1>2, <1>3, <2>1, <2>2, <2>3
<1>8. CASE Reorg
  <2>1. seqH' = seqH /\ btcH' = btcH /\ reorgs' = reorgs + 1
    BY <1>8 DEF Reorg, BtcReorg
  <2>2. \/ c1 = -1
        \/ c >= 1 /\ a = 1 /\ c1 = 0
        \/ c1 = c /\ a1 = a
    <3>1. \/ tx'[t][x] = Absent
          \/ x \in Undone(t) /\ tx'[t][x] = Pooled
          \/ tx'[t][x] = tx[t][x]
      BY <1>2, <1>8, ReorgMoves
    <3>2. x \in Undone(t) => c >= 1 /\ a = 1
      BY <1>2 DEF Undone, Mined
    <3>3. QED
      BY <3>1, <3>2 DEF Absent, Pooled
  <2>3. /\ 2 * Drift * (reorgs + 1) = 2 * Drift * reorgs + 2 * Drift
        /\ 2 * Drift * reorgs \in Int
    BY <1>1
  <2> HIDE DEF c, a, c1, a1
  <2>4. CASE c1 = -1
    BY <2>4
  <2>5. CASE c >= 1 /\ a = 1 /\ c1 = 0
    <3>1. (btcH - a + 1) * BtcBlockSeconds = btcH * BtcBlockSeconds
      BY <1>1, <2>5
    <3>2. btcH * BtcBlockSeconds <= m + 2 * Drift * reorgs + Drift
      BY <1>1, <1>3, <2>5, <3>1
    <3>3. /\ btcH * BtcBlockSeconds \in Int /\ seqH * SeqBlockSeconds \in Int
      BY <1>1
    <3>4. seqH * SeqBlockSeconds <= m + 2 * Drift * reorgs + 2 * Drift
      BY <1>1, <1>5, <2>3, <3>2, <3>3
    <3>5. QED
      BY <2>1, <2>3, <2>5, <3>4, <1>1
  <2>6. CASE c1 = c /\ a1 = a
    <3>1. /\ (btcH - a + 1) * BtcBlockSeconds \in Int
          /\ seqH * SeqBlockSeconds \in Int
          /\ (seqH - c) * SeqBlockSeconds \in Int
      BY <1>1, <1>2
    <3>2. QED
      BY <1>1, <1>3, <2>1, <2>3, <2>6, <3>1
  <2>7. QED
    BY <2>2, <2>4, <2>5, <2>6
<1>9. QED
  BY <1>6, <1>7, <1>8

(* What a lost transaction rests on. *)
LEMMA Lineage ==
  ASSUME NEW S \in SUBSET Tx
  PROVE  /\ "prevault" \in Family(S) => "prevault" \in S
         /\ "upgrade" \in Family(S) => {"prevault", "upgrade"} \cap S # {}
         /\ "reclaim" \in Family(S)
              => {"prevault", "upgrade", "reclaim"} \cap S # {}
         /\ "disburse" \in Family(S) => "disburse" \in S
         /\ "take" \in Family(S) => {"disburse", "take"} \cap S # {}
         /\ "refund" \in Family(S) => {"disburse", "refund"} \cap S # {}
         /\ "claim" \in Family(S) => {"repay", "claim"} \cap S # {}
<1>1. \A x \in Tx : x \in Children(S) <=> Input[x] \in S
  BY DEF Children
<1>2. \A x \in Tx : x \in Children(Children(S)) <=> Input[x] \in Children(S)
  BY DEF Children
<1>3. "wallet" \notin S /\ "wallet" \notin Children(S)
  BY DEF Tx, BtcTx, SeqTx, Children
<1>4. {"prevault", "upgrade", "reclaim", "disburse", "take", "refund", "claim",
       "repay"} \subseteq Tx
  BY DEF Tx, BtcTx, SeqTx
<1>5. QED
  BY <1>1, <1>2, <1>3, <1>4, Scripts DEF Family

(* One transaction in one step: a chain moves it, it stays, it goes, or it *)
(* is brought into the mempool.                                            *)
LEMMA TxMoves ==
  ASSUME TypeOK, [Next]_vars, NEW t \in Takes, NEW x \in Tx
  PROVE  \/ SeqTick \/ BtcTick \/ Reorg
         \/ /\ UNCHANGED <<btcH, seqH, reorgs>>
            /\ \/ tx'[t][x] = tx[t][x]
               \/ tx'[t][x] = Absent
               \/ ~Seen(t, x) /\ tx'[t][x] = Pooled /\ Brings(t, x)
<1>1. ASSUME NEW u \in Takes, NEW y \in Tx, Enter(u, y), Brings(u, y)
      PROVE  \/ tx'[t][x] = tx[t][x]
             \/ tx'[t][x] = Absent
             \/ ~Seen(t, x) /\ tx'[t][x] = Pooled /\ Brings(t, x)
  <2>1. CASE u = t /\ x = y
    <3>1. ~Seen(t, x)
      BY <1>1, <2>1
      DEF Brings, Borrow, Outbids, ClaimBroadcast, Accepted, Timeout
    <3>2. QED
      BY <1>1, <2>1, <3>1, Entered DEF TypeOK
  <2>2. CASE ~(u = t /\ x = y)
    BY <1>1, <2>2, Entered DEF TypeOK
  <2>3. QED
    BY <2>1, <2>2
<1>2. ASSUME NEW u \in Takes, NEW y \in MayReplace, Replace(u, y)
      PROVE  tx'[t][x] = tx[t][x] \/ tx'[t][x] = Absent
  <2>1. tx' = [tx EXCEPT ![u] = [z \in Tx |->
                IF z \in Family({y}) THEN Absent ELSE tx[u][z]]]
    BY <1>2 DEF Replace
  <2>2. QED
    BY <2>1 DEF TypeOK, ChainsTypeOK
<1>3. QED
  BY <1>1, <1>2, TxStep DEF chains

(* What may take a transaction away. *)
LEMMA Vanishes ==
  ASSUME TypeOK, [Next]_vars, NEW t \in Takes, NEW x \in Tx,
         Seen(t, x), ~Seen(t, x)'
  PROVE  \/ /\ Reorg
            /\ \E gone \in SUBSET (MayVanish \cap Undone(t)) : x \in Family(gone)
         \/ \E y \in Tx : Enter(t, y) /\ Brings(t, y) /\ x \in Replaces(y)
         \/ \E y \in MayReplace : Replace(t, y) /\ x \in Family({y})
<1>1. CASE UNCHANGED chains
  BY <1>1 DEF chains, Seen
<1>2. CASE SeqTick
  BY <1>2, SeqMoves
<1>3. CASE BtcTick
  BY <1>3, BtcMoves
<1>4. CASE Reorg
  <2>1. PICK gone \in SUBSET (MayVanish \cap Undone(t)) :
           \/ x \in Family(gone) /\ tx'[t][x] = Absent
           \/ x \in Undone(t) /\ tx'[t][x] = Pooled
           \/ x \notin Undone(t) /\ tx'[t][x] = tx[t][x]
    BY <1>4, ReorgMoves
  <2>2. Pooled.conf >= 0
    BY DEF Pooled
  <2>3. QED
    BY <1>4, <2>1, <2>2 DEF Seen
<1>5. ASSUME NEW u \in Takes, NEW y \in Tx, Enter(u, y), Brings(u, y)
      PROVE  \E z \in Tx : Enter(t, z) /\ Brings(t, z) /\ x \in Replaces(z)
  <2>1. u = t
    BY <1>5, Entered DEF TypeOK, Seen
  <2>2. x # y
    BY <1>5, <2>1, Entered DEF TypeOK, Seen, Pooled
  <2>3. x \in Replaces(y)
    BY <1>5, <2>1, <2>2, Entered DEF TypeOK, Seen
  <2>4. QED
    BY <1>5, <2>1, <2>3
<1>6. ASSUME NEW u \in Takes, NEW y \in MayReplace, Replace(u, y)
      PROVE  Replace(t, y) /\ x \in Family({y})
  <2>1. tx' = [tx EXCEPT ![u] = [z \in Tx |->
                IF z \in Family({y}) THEN Absent ELSE tx[u][z]]]
    BY <1>6 DEF Replace
  <2>2. u = t
    BY <2>1 DEF TypeOK, ChainsTypeOK, Seen
  <2>3. x \in Family({y})
    BY <2>1, <2>2 DEF TypeOK, ChainsTypeOK, Seen
  <2>4. QED
    BY <1>6, <2>2, <2>3
<1>7. QED
  BY <1>1, <1>2, <1>3, <1>4, <1>5, <1>6, TxStep

(* A transaction settles within its time wherever its sender kept to it.   *)
LEMMA FreshOn ==
  ASSUME TypeOK, ClockInv, [Next]_vars, NEW t \in Takes, NEW x \in SeqTx,
         NEW m \in Int, Fresh(t, x, m),
         ~Seen(t, x) /\ Brings(t, x) => SeqTime(seqH) <= Waits(m)
  PROVE  Fresh(t, x, m)'
<1>1. x \in Tx
  BY DEF Tx
<1>2. CASE SeqTick \/ BtcTick \/ Reorg
  BY <1>2, FreshStep
<1>3. ASSUME UNCHANGED <<btcH, seqH, reorgs>>, tx'[t][x] = tx[t][x]
      PROVE  Fresh(t, x, m)'
  BY <1>3 DEF Fresh, Waits, Mined, SeqTime, BtcTime
<1>4. ASSUME tx'[t][x] = Absent PROVE Fresh(t, x, m)'
  BY <1>4 DEF Fresh, Mined, Absent
<1>5. ASSUME UNCHANGED <<btcH, seqH, reorgs>>, tx'[t][x] = Pooled,
             SeqTime(seqH) <= Waits(m)
      PROVE  Fresh(t, x, m)'
  BY <1>5 DEF Fresh, Mined, Pooled, Waits, SeqTime
<1>6. QED
  BY <1>1, <1>2, <1>3, <1>4, <1>5, TxMoves

LEMMA Units ==
  ASSUME TypeOK
  PROVE  /\ seqH \in Nat /\ btcH \in Nat /\ reorgs \in Nat /\ late \in Nat
         /\ reorgs <= MaxReorgs /\ late <= MaxLate
         /\ MaxReorgs \in Nat /\ MaxLate \in Nat /\ Drift \in Nat
         /\ SeqBlockSeconds \in Nat \ {0} /\ BtcBlockSeconds \in Nat \ {0}
         /\ ClaimDepth \in Nat \ {0} /\ AnchorDepth \in Nat \ {0, 1}
         /\ ClaimMargin \in Nat /\ UpgradeMargin \in Nat /\ RepayMargin \in Nat
         /\ Loan.d_refund \in Int /\ Loan.repay_deadline \in Int
         /\ Loan.abort_after \in Int /\ Loan.recover_after \in Int
         /\ ClaimMarginBlocks \in Int /\ Effective \in Int
         /\ Effective = Loan.repay_deadline - ClaimMarginBlocks
<1>1. ClaimMarginBlocks \in Int
  BY MarginAssumption DEF ClaimMarginBlocks
<1>2. QED
  BY <1>1, ChainAssumption, MarginAssumption, LoanAssumption
  DEF TypeOK, ChainsTypeOK, Deadlines, Effective, EffectiveRepayDeadline

LEMMA SeqTimes ==
  ASSUME TypeOK, NEW h \in Int, NEW k \in Int
  PROVE  /\ SeqTime(h) \in Int
         /\ SeqTime(h + k) = SeqTime(h) + SeqTime(k)
         /\ SeqTime(h - k) = SeqTime(h) - SeqTime(k)
         /\ h <= k <=> SeqTime(h) <= SeqTime(k)
         /\ SeqTime(1) = SeqBlockSeconds
         /\ h >= 0 => SeqTime(h) >= 0
<1>1. SeqBlockSeconds \in Nat \ {0}
  BY Units
<1>2. h <= k => h * SeqBlockSeconds <= k * SeqBlockSeconds
  <2>1. ASSUME h <= k PROVE h * SeqBlockSeconds <= k * SeqBlockSeconds
    <3>1. (k - h) * SeqBlockSeconds >= 0
      BY <1>1, <2>1
    <3>2. (k - h) * SeqBlockSeconds = k * SeqBlockSeconds - h * SeqBlockSeconds
      BY <1>1
    <3>3. k * SeqBlockSeconds \in Int /\ h * SeqBlockSeconds \in Int
      BY <1>1
    <3>4. QED
      BY <3>1, <3>2, <3>3
  <2>2. QED
    BY <2>1
<1>3. k < h => k * SeqBlockSeconds < h * SeqBlockSeconds
  <2>1. ASSUME k < h PROVE k * SeqBlockSeconds < h * SeqBlockSeconds
    <3>1. (h - k) * SeqBlockSeconds > 0
      BY <1>1, <2>1
    <3>2. (h - k) * SeqBlockSeconds = h * SeqBlockSeconds - k * SeqBlockSeconds
      BY <1>1
    <3>3. k * SeqBlockSeconds \in Int /\ h * SeqBlockSeconds \in Int
      BY <1>1
    <3>4. QED
      BY <3>1, <3>2, <3>3
  <2>2. QED
    BY <2>1
<1>4. /\ h * SeqBlockSeconds \in Int /\ k * SeqBlockSeconds \in Int
      /\ (h + k) * SeqBlockSeconds = h * SeqBlockSeconds + k * SeqBlockSeconds
      /\ (h - k) * SeqBlockSeconds = h * SeqBlockSeconds - k * SeqBlockSeconds
      /\ 1 * SeqBlockSeconds = SeqBlockSeconds
      /\ h >= 0 => h * SeqBlockSeconds >= 0
  BY <1>1
<1>5. QED
  BY <1>2, <1>3, <1>4 DEF SeqTime

LEMMA BtcTimes ==
  ASSUME TypeOK, NEW h \in Int, NEW k \in Int
  PROVE  /\ BtcTime(h) \in Int
         /\ BtcTime(h + k) = BtcTime(h) + BtcTime(k)
         /\ BtcTime(h - k) = BtcTime(h) - BtcTime(k)
         /\ h <= k => BtcTime(h) <= BtcTime(k)
         /\ h >= 0 => BtcTime(h) >= 0
<1>1. BtcBlockSeconds \in Nat \ {0}
  BY Units
<1>2. h <= k => h * BtcBlockSeconds <= k * BtcBlockSeconds
  <2>1. ASSUME h <= k PROVE h * BtcBlockSeconds <= k * BtcBlockSeconds
    <3>1. (k - h) * BtcBlockSeconds >= 0
      BY <1>1, <2>1
    <3>2. (k - h) * BtcBlockSeconds = k * BtcBlockSeconds - h * BtcBlockSeconds
      BY <1>1
    <3>3. k * BtcBlockSeconds \in Int /\ h * BtcBlockSeconds \in Int
      BY <1>1
    <3>4. QED
      BY <3>1, <3>2, <3>3
  <2>2. QED
    BY <2>1
<1>3. /\ h * BtcBlockSeconds \in Int /\ k * BtcBlockSeconds \in Int
      /\ (h + k) * BtcBlockSeconds = h * BtcBlockSeconds + k * BtcBlockSeconds
      /\ (h - k) * BtcBlockSeconds = h * BtcBlockSeconds - k * BtcBlockSeconds
      /\ h >= 0 => h * BtcBlockSeconds >= 0
  BY <1>1
<1>4. QED
  BY <1>2, <1>3 DEF BtcTime

(* The wait of a transaction, with the reorgs there can be. *)
LEMMA WaitBound ==
  ASSUME TypeOK, NEW m \in Int
  PROVE  /\ Waits(m) \in Int /\ 2 * Drift * MaxReorgs \in Nat
         /\ m <= Waits(m) /\ Waits(m) <= m + 2 * Drift * MaxReorgs
<1>1. /\ Drift \in Nat /\ reorgs \in Nat /\ MaxReorgs \in Nat
      /\ reorgs <= MaxReorgs
  BY Units
<1>2. /\ 2 * Drift * reorgs \in Nat /\ 2 * Drift * MaxReorgs \in Nat
      /\ 2 * Drift * (MaxReorgs - reorgs) \in Nat
  BY <1>1
<1>3. 2 * Drift * (MaxReorgs - reorgs) = 2 * Drift * MaxReorgs - 2 * Drift * reorgs
  BY <1>1
<1>4. QED
  BY <1>2, <1>3 DEF Waits

-----------------------------------------------------------------------------
(* A responder in time.  What it began it goes on with before a block more *)
(* than MaxLate has passed, so what it checked when it began still holds.  *)

LEMMA LateStep ==
  ASSUME TypeOK, LenderPrompt, [Next]_vars
  PROVE  \/ seqH' = seqH /\ late' = late
         \/ /\ SeqTick /\ seqH' = seqH + 1
            /\ late' = IF SomethingDue THEN late + 1 ELSE 0
<1>1. ASSUME NEW t \in Takes, Responder(t) PROVE seqH' = seqH /\ late' = late
  <2>1. CASE HashPass(t) \/ SignPass(t) \/ DisburseMark(t)
             \/ DisburseNotBroadcast(t) \/ DisburseSend(t) \/ DisburseLost(t)
             \/ DisburseRecord(t) \/ DisburseRecover(t) \/ UpgradeSend(t)
             \/ UpgradeRecord(t)
    BY <2>1
    DEF chains, HashPass, SignPass, DisburseMark, DisburseNotBroadcast,
        DisburseSend, DisburseLost, DisburseRecord, DisburseRecover,
        UpgradeSend, UpgradeRecord
  <2>2. CASE ClaimRecover(t) \/ ClaimUndone(t) \/ ClaimMark(t) \/ ClaimSend(t)
             \/ ClaimLost(t) \/ ClaimRecord(t) \/ PublishPass(t)
             \/ PublishLost(t)
    BY <2>2
    DEF chains, ClaimRecover, ClaimUndone, ClaimMark, ClaimSend, ClaimLost,
        ClaimRecord, PublishPass, PublishLost
  <2>3. CASE RefundRecover(t) \/ RefundMark(t) \/ RefundSend(t)
             \/ RefundLost(t) \/ RefundRecord(t)
    BY <2>3
    DEF chains, RefundRecover, RefundMark, RefundSend, RefundLost, RefundRecord
  <2>4. QED
    BY <1>1, <2>1, <2>2, <2>3 DEF Responder
<1>2. ASSUME NEW t \in Takes, Operator(t) PROVE seqH' = seqH /\ late' = late
  BY <1>2
  DEF Operator, OperatorClear, OperatorFound, Timeout, lender, chains
<1>3. ASSUME NEW t \in Takes, Borrower(t) PROVE seqH' = seqH /\ late' = late
  BY <1>3 DEF Borrower, Borrow, Replace, lender
<1>4. CASE SeqTick
  BY <1>4 DEF SeqTick, SeqBlock
<1>5. CASE BtcTick \/ Reorg \/ Crash
  BY <1>5 DEF BtcTick, BtcBlock, Reorg, BtcReorg, Crash, lender, chains
<1>6. CASE UNCHANGED vars
  BY <1>6 DEF vars, lender, chains
<1>7. QED
  BY <1>1, <1>2, <1>3, <1>4, <1>5, <1>6 DEF Next, Environment

BusyAt(t) ==
    /\ At("claim", t) => seqH < Effective + late
    /\ At("disburse", t)
         => SeqTime(seqH - late) + ClaimMargin <= SeqTime(Loan.d_refund)

BusyInv == \A t \in Takes : BusyAt(t)

LEMMA BusyStep ==
  ASSUME TypeOK, LenderPrompt, BusyInv, [Next]_vars
  PROVE  BusyInv'
<1> SUFFICES ASSUME NEW t \in Takes PROVE BusyAt(t)'
  BY DEF BusyInv
<1>1. BusyAt(t)
  BY DEF BusyInv
<1>2. /\ seqH \in Nat /\ late \in Nat /\ Effective \in Int
      /\ Effective' = Effective /\ ClaimMargin \in Nat
      /\ Loan.d_refund \in Int
  BY Units DEF Effective
<1>3. pc # Idle => SomethingDue
  BY DEF SomethingDue
<1>4. At("claim", t)' => seqH' < Effective + late'
  <2>1. CASE At("claim", t)' /\ At("claim", t)
    <3>1. seqH' - late' = seqH - late /\ seqH' \in Nat /\ late' \in Nat
      <4>1. pc # Idle
        BY <2>1 DEF At, Idle
      <4>2. QED
        BY <1>2, <1>3, <4>1, LateStep
    <3>2. seqH < Effective + late
      BY <1>1, <2>1 DEF BusyAt
    <3>3. \A s, l, s1, l1, e \in Int :
             s < e + l /\ s1 - l1 = s - l => s1 < e + l1
      OBVIOUS
    <3>4. seqH' < Effective + late'
      <4>1. /\ seqH \in Int /\ late \in Int /\ seqH' \in Int /\ late' \in Int
            /\ Effective \in Int
        BY <1>2, <3>1
      <4>2. QED
        BY <3>1, <3>2, <3>3, <4>1
    <3>5. QED
      BY <3>4
  <2>2. CASE At("claim", t)' /\ ~At("claim", t)
    <3>1. ClaimMark(t)
      BY <2>2, PcSteps DEF Begins
    <3>2. seqH < Effective /\ seqH' = seqH /\ late' = late
      BY <3>1 DEF ClaimMark, ClaimDue, chains
    <3>3. QED
      BY <1>2, <3>2
  <2>3. QED
    BY <2>1, <2>2
<1>5. At("disburse", t)'
        => SeqTime(seqH' - late') + ClaimMargin <= SeqTime(Loan.d_refund)
  <2>1. CASE At("disburse", t)' /\ At("disburse", t)
    <3>1. seqH' - late' = seqH - late
      <4>1. pc # Idle
        BY <2>1 DEF At, Idle
      <4>2. QED
        BY <1>2, <1>3, <4>1, LateStep
    <3>2. QED
      BY <1>1, <2>1, <3>1 DEF BusyAt
  <2>2. CASE At("disburse", t)' /\ ~At("disburse", t)
    <3>1. DisburseMark(t)
      BY <2>2, PcSteps DEF Begins
    <3>2. Sane /\ seqH' = seqH /\ late' = late
      BY <3>1 DEF DisburseMark, chains
    <3>3. SeqS(Loan.d_refund, seqH) >= ClaimMargin
      BY <3>2, SaneMargins
    <3>4. SeqS(Loan.d_refund, seqH) = SeqTime(Loan.d_refund - seqH)
      BY DEF SeqS, SeqTime
    <3>5. SeqTime(Loan.d_refund - seqH) = SeqTime(Loan.d_refund) - SeqTime(seqH)
      <4>1. seqH \in Int
        BY <1>2
      <4>2. QED
        BY <1>2, <4>1, SeqTimes
    <3>6. SeqTime(seqH - late) <= SeqTime(seqH)
      <4>1. seqH - late \in Int /\ seqH - late <= seqH
        BY <1>2
      <4>2. QED
        BY <1>2, <4>1, SeqTimes
    <3>7. /\ SeqTime(Loan.d_refund) \in Int /\ SeqTime(seqH) \in Int
          /\ SeqTime(seqH - late) \in Int
      <4>1. seqH \in Int /\ seqH - late \in Int
        BY <1>2
      <4>2. QED
        BY <1>2, <4>1, SeqTimes
    <3>8. SeqTime(seqH - late) + ClaimMargin <= SeqTime(Loan.d_refund)
      BY <1>2, <3>3, <3>4, <3>5, <3>6, <3>7
    <3>9. QED
      BY <3>2, <3>8
  <2>3. QED
    BY <2>1, <2>2
<1>6. QED
  BY <1>4, <1>5 DEF BusyAt, SeqTime

LEMMA BusyInvariant ==
  ASSUME LenderPrompt PROVE Spec => []BusyInv
<1>1. Init => BusyInv
  BY DEF Init, BusyInv, BusyAt, At, Idle
<1>2. TypeOK /\ BusyInv /\ [Next]_vars => BusyInv'
  BY BusyStep
<1>3. QED
  BY <1>1, <1>2, TypeCorrect, PTL DEF Spec

(* A claim of a repayment settles within its time. *)
ClaimBy == SeqTime(Effective - 1 + MaxLate)

LEMMA ClaimSentBy ==
  ASSUME TypeOK, BusyInv, NEW t \in Takes, At("claim", t)
  PROVE  /\ seqH <= Effective - 1 + MaxLate
         /\ ClaimBy \in Int /\ SeqTime(seqH) <= ClaimBy
<1>1. /\ seqH \in Nat /\ late \in Nat /\ late <= MaxLate /\ MaxLate \in Nat
      /\ Effective \in Int
  BY Units
<1>2. seqH < Effective + late
  BY DEF BusyInv, BusyAt
<1>3. /\ seqH <= Effective - 1 + MaxLate
      /\ seqH \in Int /\ Effective - 1 + MaxLate \in Int
  BY <1>1, <1>2
<1>4. QED
  BY <1>3, SeqTimes DEF ClaimBy

-----------------------------------------------------------------------------
(* The lender's side: a principal that is taken is taken in time for the   *)
(* upgrade, the upgrade is in time for the abort, and a repayment claimed  *)
(* is claimed in time for the borrower's own refund of it.                 *)

LenderTerms ==
    /\ LenderPrompt /\ OperatorLooks /\ BorrowerReports
    /\ MayVanish \cap {"disburse", "take", "refund", "upgrade", "repay",
                       "claim"} = {}
    /\ MayReplace \cap {"take", "repay"} = {}
    /\ SeqTime(MaxLate + 1) + 2 * Drift * MaxReorgs <= ClaimMargin
    /\ SeqTime(2 * MaxLate + ClaimDepth) + BtcTime(AnchorDepth - 2 + MaxReorgs)
         + 4 * Drift + 2 * Drift * MaxReorgs < UpgradeMargin

(* When the principal is spent at the latest, and sent.                    *)
TakeBy == SeqTime(Loan.d_refund + MaxLate)
DisburseBy == TakeBy - ClaimMargin

FreshAt(t) ==
    /\ Fresh(t, "claim", ClaimBy)
    /\ Fresh(t, "disburse", DisburseBy)
    /\ Fresh(t, "take", TakeBy)
    /\ Fresh(t, "refund", TakeBy)

FreshInv == \A t \in Takes : FreshAt(t)

(* A principal that lies in its hashlock after its deadline has a          *)
(* responder who is behind.                                                *)
PrincipalAt(t) ==
    /\ Seen(t, "disburse") /\ ~Seen(t, "take") /\ ~Seen(t, "refund")
         => seqH <= Loan.d_refund + late
    /\ have[t].principal_refunded => Seen(t, "take") \/ Seen(t, "refund")
    /\ At("refunded", t) => Seen(t, "take") \/ Seen(t, "refund")

PrincipalInv == \A t \in Takes : PrincipalAt(t)

LEMMA Deadline ==
  ASSUME TypeOK
  PROVE  /\ TakeBy \in Int /\ DisburseBy \in Int /\ ClaimBy \in Int
         /\ TakeBy = SeqTime(Loan.d_refund) + SeqTime(MaxLate)
         /\ SeqTime(Loan.d_refund) \in Int /\ SeqTime(MaxLate) \in Int
         /\ SeqTime(seqH) \in Int
<1>1. /\ Loan.d_refund \in Int /\ MaxLate \in Int /\ ClaimMargin \in Int
      /\ Effective \in Int /\ seqH \in Int
  BY Units
<1>2. Loan.d_refund + MaxLate \in Int /\ Effective - 1 + MaxLate \in Int
  BY <1>1
<1>3. TakeBy \in Int /\ ClaimBy \in Int /\ SeqTime(seqH) \in Int
  BY <1>1, <1>2, SeqTimes DEF TakeBy, ClaimBy
<1>4. /\ TakeBy = SeqTime(Loan.d_refund) + SeqTime(MaxLate)
      /\ SeqTime(Loan.d_refund) \in Int /\ SeqTime(MaxLate) \in Int
  BY <1>1, SeqTimes DEF TakeBy
<1>5. DisburseBy \in Int
  BY <1>1, <1>3 DEF DisburseBy
<1>6. QED
  BY <1>3, <1>4, <1>5

(* ... and the lender pays while there is time. *)
LEMMA PaidBy ==
  ASSUME TypeOK, BusyInv, NEW t \in Takes, At("disburse", t)
  PROVE  /\ seqH <= Loan.d_refund + late
         /\ SeqTime(seqH) <= DisburseBy
<1>1. /\ seqH \in Nat /\ late \in Nat /\ late <= MaxLate /\ MaxLate \in Nat
      /\ Loan.d_refund \in Int /\ ClaimMargin \in Nat
  BY Units
<1>2. SeqTime(seqH - late) + ClaimMargin <= SeqTime(Loan.d_refund)
  BY DEF BusyInv, BusyAt
<1>3. seqH \in Int /\ late \in Int /\ seqH - late \in Int
  BY <1>1
<1>4. /\ SeqTime(seqH - late) = SeqTime(seqH) - SeqTime(late)
      /\ SeqTime(late) <= SeqTime(MaxLate)
      /\ SeqTime(late) \in Int /\ SeqTime(seqH - late) \in Int
  <2>1. MaxLate \in Int
    BY <1>1
  <2>2. QED
    BY <1>1, <1>3, <2>1, SeqTimes
<1>5. SeqTime(seqH) <= DisburseBy
  BY <1>1, <1>2, <1>4, Deadline DEF DisburseBy
<1>6. SeqTime(seqH - late) <= SeqTime(Loan.d_refund)
  BY <1>1, <1>2, <1>4, Deadline
<1>7. seqH - late <= Loan.d_refund
  <2>1. Loan.d_refund \in Int
    BY <1>1
  <2>2. QED
    BY <1>3, <1>6, <2>1, SeqTimes
<1>8. QED
  BY <1>1, <1>5, <1>7

(* A principal in the mempool is not yet past its deadline. *)
LEMMA PooledEarly ==
  ASSUME LenderTerms, TypeOK, NEW t \in Takes, Fresh(t, "disburse", DisburseBy),
         tx[t]["disburse"].conf = 0
  PROVE  seqH < Loan.d_refund
<1>1. /\ seqH \in Nat /\ MaxLate \in Nat /\ Loan.d_refund \in Int
      /\ ClaimMargin \in Nat /\ SeqBlockSeconds \in Nat \ {0}
  BY Units
<1>2. SeqTime(seqH) <= Waits(DisburseBy)
  BY DEF Fresh
<1>3. /\ Waits(DisburseBy) <= DisburseBy + 2 * Drift * MaxReorgs
      /\ Waits(DisburseBy) \in Int /\ 2 * Drift * MaxReorgs \in Int
  BY Deadline, WaitBound
<1>4. SeqTime(MaxLate + 1) = SeqTime(MaxLate) + SeqBlockSeconds
  <2>1. MaxLate \in Int /\ 1 \in Int
    BY <1>1
  <2>2. QED
    BY <2>1, SeqTimes
<1>5. SeqTime(MaxLate + 1) + 2 * Drift * MaxReorgs <= ClaimMargin
  BY DEF LenderTerms
<1>6. SeqTime(seqH) < SeqTime(Loan.d_refund)
  BY <1>1, <1>2, <1>3, <1>4, <1>5, Deadline DEF DisburseBy
<1>7. Loan.d_refund <= seqH => SeqTime(Loan.d_refund) <= SeqTime(seqH)
  <2>1. Loan.d_refund \in Int /\ seqH \in Int
    BY <1>1
  <2>2. QED
    BY <2>1, SeqTimes
<1>8. QED
  BY <1>1, <1>6, <1>7, Deadline

(* The spend of a principal stays, unless the other one replaces it.       *)
LEMMA SpendStays ==
  ASSUME LenderTerms, TypeOK, [Next]_vars, NEW t \in Takes,
         Seen(t, "take") \/ Seen(t, "refund")
  PROVE  Seen(t, "take")' \/ Seen(t, "refund")'
<1> SUFFICES ASSUME ~Seen(t, "take")', ~Seen(t, "refund")' PROVE FALSE
  OBVIOUS
<1>1. {"take", "refund"} \subseteq Tx
  BY DEF Tx, SeqTx
<1>2. PICK x \in {"take", "refund"} : Seen(t, x) /\ ~Seen(t, x)'
  OBVIOUS
<1>3. CASE Reorg
  <2>1. PICK gone \in SUBSET (MayVanish \cap Undone(t)) : \A y \in Tx :
           IF y \in Family(gone) THEN tx'[t][y] = Absent
           ELSE IF y \in Undone(t) THEN tx'[t][y] = Pooled
           ELSE tx'[t][y] = tx[t][y]
    BY <1>3, ReorgMoves
  <2>2. x \in Family(gone)
    BY <1>1, <1>2, <2>1 DEF Seen, Pooled
  <2>3. gone \in SUBSET Tx /\ gone \cap {"disburse", "take", "refund"} = {}
    BY ChainAssumption DEF LenderTerms
  <2>4. QED
    BY <2>2, <2>3, Lineage
<1>4. ASSUME NEW y \in Tx, Enter(t, y), x \in Replaces(y) PROVE FALSE
  <2>1. y \in {"take", "refund"}
    BY <1>4, Replaced DEF Tx, BtcTx, SeqTx
  <2>2. Seen(t, y)'
    BY <1>4, Entered DEF TypeOK, Seen, Pooled
  <2>3. QED
    BY <2>1, <2>2
<1>5. ASSUME NEW y \in MayReplace, x \in Family({y}) PROVE FALSE
  <2>1. y = "prevault" \/ y = "unrepay"
    BY LoanAssumption DEF LenderTerms
  <2>2. QED
    BY <1>5, <2>1, Families DEF BtcTx
<1>6. x \in Tx
  BY <1>1
<1>7. QED
  BY <1>2, <1>3, <1>4, <1>5, <1>6, Vanishes

(* While nothing is due no principal is past its deadline. *)
LEMMA RefundIsDue ==
  ASSUME LenderTerms, TypeOK, BackedInv, PaymentInv, FreshInv, PrincipalInv,
         NEW t \in Takes, ~SomethingDue,
         Seen(t, "disburse"), ~Seen(t, "take"), ~Seen(t, "refund")
  PROVE  seqH < Loan.d_refund
<1> SUFFICES ASSUME seqH >= Loan.d_refund PROVE FALSE
  BY Units
<1>1. pc = Idle /\ ~Due(t)
  BY DEF SomethingDue
<1>2. have[t].disbursing \/ have[t].disbursement_txid
  <2>1. sent[t] > 0
    BY DEF BackedInv, BackedAt
  <2>2. QED
    BY <2>1 DEF PaymentInv, PaymentAt, Committed
<1>3. tx[t]["disburse"].conf \in Int /\ tx[t]["take"].conf \in Int
      /\ tx[t]["refund"].conf \in Int
  BY DEF TypeOK, ChainsTypeOK, TxRecord, Depth, Tx, SeqTx
<1>4. CASE have[t].disbursement_txid
  <2>1. ~have[t].principal_refunded
    BY DEF PrincipalInv, PrincipalAt
  <2>2. Unspent(t, "disburse")
    BY Spends DEF Unspent
  <2>3. QED
    BY <1>1, <1>4, <2>1, <2>2 DEF Due, RefundOpen
<1>5. CASE have[t].disbursing
  <2>1. tx[t]["disburse"].conf # 0
    <3>1. Fresh(t, "disburse", DisburseBy)
      BY DEF FreshInv, FreshAt
    <3>2. QED
      BY <3>1, PooledEarly, Units
  <2>2. Mined(t, "disburse") /\ ~Mined(t, "take") /\ ~Mined(t, "refund")
    BY <1>3, <2>1 DEF Mined, Seen
  <2>3. Scanned(t, "disburse")
    BY <2>2, Spends DEF Scanned
  <2>4. QED
    BY <1>1, <1>5, <2>3 DEF Due, DisburseFound
<1>6. QED
  BY <1>2, <1>4, <1>5

(* A responder, and so a borrower, who is not behind spends the principal  *)
(* in time.                                                                *)
LEMMA Overdue ==
  ASSUME LenderTerms, TypeOK, BackedInv, PaymentInv, FreshInv, PrincipalInv,
         [Next]_vars, NEW t \in Takes,
         Seen(t, "disburse"), ~Seen(t, "take"), ~Seen(t, "refund")
  PROVE  seqH' <= Loan.d_refund + late'
<1>1. /\ seqH \in Nat /\ late \in Nat /\ Loan.d_refund \in Int
  BY Units
<1>2. seqH <= Loan.d_refund + late
  BY DEF PrincipalInv, PrincipalAt
<1>3. LenderPrompt
  BY DEF LenderTerms
<1>4. CASE seqH' = seqH /\ late' = late
  BY <1>2, <1>4
<1>5. CASE SomethingDue /\ seqH' = seqH + 1 /\ late' = late + 1
  BY <1>1, <1>2, <1>5
<1>6. CASE ~SomethingDue /\ seqH' = seqH + 1 /\ late' = 0
  BY <1>1, <1>6, RefundIsDue
<1>7. QED
  BY <1>3, <1>4, <1>5, <1>6, LateStep

LEMMA PrincipalStep ==
  ASSUME LenderTerms, TypeOK, BackedInv, PaymentInv, BusyInv, FreshInv,
         PrincipalInv, [Next]_vars
  PROVE  PrincipalInv'
<1> SUFFICES ASSUME NEW t \in Takes PROVE PrincipalAt(t)'
  BY DEF PrincipalInv, PrincipalAt
<1>1. PrincipalAt(t)
  BY DEF PrincipalInv
<1>2. ASSUME Seen(t, "disburse")', ~Seen(t, "take")', ~Seen(t, "refund")'
      PROVE  seqH' <= Loan.d_refund + late'
  <2>1. ~Seen(t, "take") /\ ~Seen(t, "refund")
    BY <1>2, SpendStays
  <2>2. CASE Seen(t, "disburse")
    BY <2>1, <2>2, Overdue
  <2>3. CASE ~Seen(t, "disburse")
    <3>1. "disburse" \in Tx
      BY DEF Tx, SeqTx
    <3>2. DisburseSend(t) \/ DisburseLost(t)
      BY <1>2, <2>3, <3>1, Appears DEF Brings
    <3>3. At("disburse", t) /\ seqH' = seqH /\ late' = late
      BY <3>2 DEF DisburseSend, DisburseLost
    <3>4. QED
      BY <3>3, PaidBy
  <2>4. QED
    BY <2>2, <2>3
<1>3. have'[t].principal_refunded => Seen(t, "take")' \/ Seen(t, "refund")'
  <2>1. CASE have[t].principal_refunded
    BY <1>1, <2>1, SpendStays DEF PrincipalAt
  <2>2. CASE have'[t].principal_refunded /\ ~have[t].principal_refunded
    <3>1. \/ RefundRecord(t)
          \/ RefundRecover(t) /\ (Seen(t, "refund") \/ Seen(t, "take"))
      BY <2>2, FileSteps, FieldNames DEF FileStep, Writes
    <3>2. Seen(t, "refund") \/ Seen(t, "take")
      BY <1>1, <3>1 DEF RefundRecord, PrincipalAt
    <3>3. QED
      BY <3>2, SpendStays
  <2>3. QED
    BY <2>1, <2>2
<1>4. At("refunded", t)' => Seen(t, "take")' \/ Seen(t, "refund")'
  <2>1. CASE At("refunded", t)
    BY <1>1, <2>1, SpendStays DEF PrincipalAt
  <2>2. CASE At("refunded", t)' /\ ~At("refunded", t)
    <3>1. RefundSend(t)
      BY <2>2, PcSteps DEF Begins
    <3>2. "refund" \in Tx /\ Enter(t, "refund")
      BY <3>1 DEF RefundSend, Tx, SeqTx
    <3>3. QED
      BY <3>2, Entered DEF TypeOK, Seen, Pooled
  <2>3. QED
    BY <2>1, <2>2
<1>5. QED
  BY <1>2, <1>3, <1>4 DEF PrincipalAt

(* Everything of a loan's principal and repayment is sent in time. *)
LEMMA SentInTime ==
  ASSUME TypeOK, BusyInv, FreshInv, PrincipalInv, NEW t \in Takes
  PROVE  /\ ~Seen(t, "claim") /\ Brings(t, "claim")
              => SeqTime(seqH) <= Waits(ClaimBy)
         /\ ~Seen(t, "disburse") /\ Brings(t, "disburse")
              => SeqTime(seqH) <= Waits(DisburseBy)
         /\ ~Seen(t, "take") /\ Brings(t, "take")
              => SeqTime(seqH) <= Waits(TakeBy)
         /\ ~Seen(t, "refund") /\ Brings(t, "refund")
              => SeqTime(seqH) <= Waits(TakeBy)
<1>1. /\ ClaimBy <= Waits(ClaimBy) /\ Waits(ClaimBy) \in Int
      /\ DisburseBy <= Waits(DisburseBy) /\ Waits(DisburseBy) \in Int
      /\ TakeBy <= Waits(TakeBy) /\ Waits(TakeBy) \in Int
  BY Deadline, WaitBound
<1>2. ASSUME Brings(t, "claim") PROVE SeqTime(seqH) <= Waits(ClaimBy)
  <2>1. At("claim", t)
    BY <1>2 DEF Brings, ClaimSend, ClaimLost
  <2>2. SeqTime(seqH) <= ClaimBy
    BY <2>1, ClaimSentBy
  <2>3. QED
    BY <1>1, <2>2, Deadline
<1>3. ASSUME Brings(t, "disburse") PROVE SeqTime(seqH) <= Waits(DisburseBy)
  <2>1. At("disburse", t)
    BY <1>3 DEF Brings, DisburseSend, DisburseLost
  <2>2. SeqTime(seqH) <= DisburseBy
    BY <2>1, PaidBy
  <2>3. QED
    BY <1>1, <2>2, Deadline
<1>4. ASSUME Seen(t, "disburse"), ~Seen(t, "take"), ~Seen(t, "refund")
      PROVE  SeqTime(seqH) <= Waits(TakeBy)
  <2>1. /\ seqH \in Int /\ Loan.d_refund + MaxLate \in Int
        /\ seqH <= Loan.d_refund + MaxLate
    <3>1. seqH <= Loan.d_refund + late
      BY <1>4 DEF PrincipalInv, PrincipalAt
    <3>2. QED
      BY <3>1, Units
  <2>2. SeqTime(seqH) <= TakeBy
    BY <2>1, SeqTimes DEF TakeBy
  <2>3. QED
    BY <1>1, <2>2, Deadline
<1>5. ASSUME ~Seen(t, "take"), Brings(t, "take")
      PROVE  SeqTime(seqH) <= Waits(TakeBy)
  <2>1. Outbids(t, "take")
    BY <1>5 DEF Brings, Borrow
  <2>2. Seen(t, "disburse") /\ ~Mined(t, "refund")
    BY <2>1, Scripts, Opponents DEF Outbids
  <2>3. CASE ~Seen(t, "refund")
    BY <1>4, <1>5, <2>2, <2>3
  <2>4. CASE Seen(t, "refund")
    <3>1. tx[t]["refund"].conf \in Int
      BY DEF TypeOK, ChainsTypeOK, TxRecord, Depth, Tx, SeqTx
    <3>2. tx[t]["refund"].conf = 0
      BY <2>2, <2>4, <3>1 DEF Seen, Mined
    <3>3. QED
      BY <3>2 DEF FreshInv, FreshAt, Fresh
  <2>5. QED
    BY <2>3, <2>4
<1>6. ASSUME Brings(t, "refund") PROVE SeqTime(seqH) <= Waits(TakeBy)
  <2>1. Accepted(t, "refund")
    BY <1>6 DEF Brings
  <2>2. Unspent(t, "disburse")
    BY <2>1, Scripts DEF Accepted
  <2>3. Seen(t, "disburse") /\ ~Seen(t, "take") /\ ~Seen(t, "refund")
    BY <2>2, Spends DEF Unspent
  <2>4. QED
    BY <1>4, <2>3
<1>7. QED
  BY <1>2, <1>3, <1>5, <1>6

LEMMA FreshnessStep ==
  ASSUME TypeOK, ClockInv, BusyInv, FreshInv, PrincipalInv, [Next]_vars
  PROVE  FreshInv'
<1> SUFFICES ASSUME NEW t \in Takes PROVE FreshAt(t)'
  BY DEF FreshInv, FreshAt, Fresh, Waits, SeqTime, BtcTime, ClaimBy, TakeBy,
         DisburseBy
<1>1. FreshAt(t)
  BY DEF FreshInv
<1>2. ClaimBy \in Int /\ TakeBy \in Int /\ DisburseBy \in Int
  BY Deadline
<1>3. {"claim", "disburse", "take", "refund"} \subseteq SeqTx
  BY DEF SeqTx
<1>4. /\ Fresh(t, "claim", ClaimBy)' /\ Fresh(t, "disburse", DisburseBy)'
  BY <1>1, <1>2, <1>3, FreshOn, SentInTime DEF FreshAt
<1>5. /\ Fresh(t, "take", TakeBy)' /\ Fresh(t, "refund", TakeBy)'
  BY <1>1, <1>2, <1>3, FreshOn, SentInTime DEF FreshAt
<1>6. QED
  BY <1>4, <1>5 DEF FreshAt

LEMMA InTimeInvariant ==
  ASSUME LenderTerms PROVE Spec => [](FreshInv /\ PrincipalInv)
<1>1. Init => FreshInv /\ PrincipalInv
  BY FieldNames
  DEF Init, ChainsInit, FreshInv, FreshAt, Fresh, PrincipalInv, PrincipalAt,
      Seen, Mined, Absent, At, Idle, Tx, SeqTx
<1>2. /\ TypeOK /\ ClockInv /\ BackedInv /\ PaymentInv /\ BusyInv
      /\ FreshInv /\ PrincipalInv /\ [Next]_vars
      => FreshInv' /\ PrincipalInv'
  BY PrincipalStep, FreshnessStep
<1>3. LenderPrompt /\ OperatorLooks
  BY DEF LenderTerms
<1>4. Spec => []BusyInv
  BY <1>3, BusyInvariant
<1>5. Spec => []PaymentInv
  BY <1>3, PaymentInvariant
<1>6. QED
  BY <1>1, <1>2, <1>4, <1>5, TypeCorrect, ClockInvariant, BackedInvariant,
     PTL DEF Spec

-----------------------------------------------------------------------------
(* A repayment that was claimed stays claimed: the borrower's own refund   *)
(* of it opens too late to replace the claim.                              *)

PaidInv == \A t \in Takes : tPublic[t] => Seen(t, "claim")

LEMMA ClaimBeforeRefund ==
  ASSUME LenderTerms, TypeOK, FreshInv, NEW t \in Takes,
         tx[t]["claim"].conf = 0
  PROVE  seqH < Loan.repay_deadline
<1>1. /\ seqH \in Int /\ MaxLate \in Int /\ Loan.repay_deadline \in Int
      /\ ClaimMarginBlocks \in Int /\ SeqBlockSeconds \in Nat \ {0}
      /\ ClaimMargin \in Nat
      /\ Effective = Loan.repay_deadline - ClaimMarginBlocks
  BY Units
<1>2. SeqTime(seqH) <= Waits(ClaimBy)
  BY DEF FreshInv, FreshAt, Fresh
<1>3. /\ Waits(ClaimBy) <= ClaimBy + 2 * Drift * MaxReorgs
      /\ Waits(ClaimBy) \in Int /\ 2 * Drift * MaxReorgs \in Int
  BY Deadline, WaitBound
<1>4. ClaimBy = SeqTime(Loan.repay_deadline) - SeqTime(ClaimMarginBlocks)
                  + SeqTime(MaxLate) - SeqBlockSeconds
  <2> DEFINE d == Loan.repay_deadline - ClaimMarginBlocks
  <2>1. d \in Int /\ MaxLate - 1 \in Int /\ 1 \in Int
        /\ Effective - 1 + MaxLate = d + (MaxLate - 1)
    BY <1>1
  <2>2. SeqTime(d) = SeqTime(Loan.repay_deadline) - SeqTime(ClaimMarginBlocks)
    BY <1>1, SeqTimes
  <2>3. SeqTime(d + (MaxLate - 1)) = SeqTime(d) + SeqTime(MaxLate - 1)
    BY <2>1, SeqTimes
  <2>4. SeqTime(MaxLate - 1) = SeqTime(MaxLate) - SeqBlockSeconds
    BY <1>1, <2>1, SeqTimes
  <2>5. /\ SeqTime(Loan.repay_deadline) \in Int /\ SeqTime(MaxLate) \in Int
        /\ SeqTime(ClaimMarginBlocks) \in Int
    BY <1>1, SeqTimes
  <2>6. QED
    BY <1>1, <2>1, <2>2, <2>3, <2>4, <2>5 DEF ClaimBy
<1>5. ClaimMargin < SeqTime(ClaimMarginBlocks) + SeqBlockSeconds
  <2>1. ClaimMargin \in Int /\ SeqBlockSeconds \in Int /\ SeqBlockSeconds > 0
    BY <1>1
  <2>2. ClaimMargin < (ClaimMargin \div SeqBlockSeconds) * SeqBlockSeconds
                        + SeqBlockSeconds
    BY <2>1
  <2>3. QED
    BY <2>2 DEF SeqTime, ClaimMarginBlocks
<1>6. SeqTime(MaxLate) + SeqBlockSeconds + 2 * Drift * MaxReorgs <= ClaimMargin
  <2>1. 1 \in Int
    OBVIOUS
  <2>2. SeqTime(MaxLate + 1) = SeqTime(MaxLate) + SeqBlockSeconds
    BY <1>1, <2>1, SeqTimes
  <2>3. QED
    BY <2>2 DEF LenderTerms
<1>7. /\ SeqTime(seqH) \in Int /\ SeqTime(Loan.repay_deadline) \in Int
      /\ SeqTime(ClaimMarginBlocks) \in Int /\ SeqTime(MaxLate) \in Int
  BY <1>1, SeqTimes
<1>8. SeqTime(seqH) < SeqTime(Loan.repay_deadline)
  BY <1>1, <1>2, <1>3, <1>4, <1>5, <1>6, <1>7, Deadline
<1>9. Loan.repay_deadline <= seqH
        => SeqTime(Loan.repay_deadline) <= SeqTime(seqH)
  BY <1>1, SeqTimes
<1>10. QED
  BY <1>1, <1>7, <1>8, <1>9

LEMMA ClaimStays ==
  ASSUME LenderTerms, TypeOK, FreshInv, [Next]_vars, NEW t \in Takes,
         Seen(t, "claim")
  PROVE  Seen(t, "claim")'
<1> SUFFICES ASSUME ~Seen(t, "claim")' PROVE FALSE
  OBVIOUS
<1>1. "claim" \in Tx
  BY DEF Tx, SeqTx
<1>2. ASSUME NEW gone \in SUBSET (MayVanish \cap Undone(t)),
             "claim" \in Family(gone)
      PROVE  FALSE
  <2>1. gone \in SUBSET Tx /\ gone \cap {"repay", "claim"} = {}
    BY ChainAssumption DEF LenderTerms
  <2>2. QED
    BY <1>2, <2>1, Lineage
<1>3. ASSUME NEW y \in Tx, Brings(t, y), "claim" \in Replaces(y) PROVE FALSE
  <2>1. y = "unrepay"
    BY <1>3, Replaced DEF Tx, BtcTx, SeqTx
  <2>2. Borrow(t, "unrepay")
    BY <1>3, <2>1 DEF Brings
  <2>3. seqH >= Loan.repay_deadline /\ ~Mined(t, "claim")
    BY <2>2, Opponents DEF Borrow, BorrowerMay, Outbids
  <2>4. tx[t]["claim"].conf \in Int
    BY DEF TypeOK, ChainsTypeOK, TxRecord, Depth, Tx, SeqTx
  <2>5. tx[t]["claim"].conf = 0
    BY <2>3, <2>4 DEF Seen, Mined
  <2>6. seqH < Loan.repay_deadline /\ seqH \in Int /\ Loan.repay_deadline \in Int
    BY <2>5, ClaimBeforeRefund, Units
  <2>7. QED
    BY <2>3, <2>6
<1>4. ASSUME NEW y \in MayReplace, "claim" \in Family({y}) PROVE FALSE
  <2>1. y = "prevault" \/ y = "unrepay"
    BY LoanAssumption DEF LenderTerms
  <2>2. QED
    BY SMTT(30), <1>4, <2>1, Families DEF BtcTx
<1>5. QED
  BY <1>1, <1>2, <1>3, <1>4, Vanishes

LEMMA PaidInvariant ==
  ASSUME LenderTerms PROVE Spec => []PaidInv
<1>1. Init => PaidInv
  BY DEF Init, PaidInv
<1>2. TypeOK /\ FreshInv /\ PaidInv /\ [Next]_vars => PaidInv'
  <2> SUFFICES ASSUME TypeOK, FreshInv, PaidInv, [Next]_vars,
                      NEW t \in Takes, tPublic'[t]
               PROVE  Seen(t, "claim")'
    BY DEF PaidInv
  <2>1. CASE tPublic[t]
    BY <2>1, ClaimStays DEF PaidInv
  <2>2. CASE ~tPublic[t]
    <3>1. Enter(t, "claim") /\ "claim" \in Tx
      BY <2>2, PublicSteps DEF ClaimBroadcast, Tx, SeqTx
    <3>2. QED
      BY <3>1, Entered DEF TypeOK, Seen, Pooled
  <2>3. QED
    BY <2>1, <2>2
<1>3. QED
  BY <1>1, <1>2, InTimeInvariant, TypeCorrect, PTL DEF Spec

-----------------------------------------------------------------------------
(* The upgrade.  Once the principal is taken the collateral moves into the *)
(* vault before the abort opens: the take settles, the responder upgrades, *)
(* and Bitcoin confirms it, reorgs and all.                                *)

SettleBy == TakeBy + 2 * Drift * MaxReorgs
UpgradeBy == SettleBy + 2 * Drift + SeqTime(ClaimDepth)
               + BtcTime(AnchorDepth - 2)
MinedBy == UpgradeBy + SeqTime(MaxLate) + Drift

UpgradeAt(t) ==
    /\ Committed(t) => tx[t]["prevault"].conf >= 2
    /\ have[t].upgrade_txid \/ At("upgraded", t) => Seen(t, "upgrade")
    /\ Seen(t, "upgrade") => sent[t] > 0
    /\ AnchorSafe(t, "take") /\ ~Seen(t, "upgrade")
         => SeqTime(seqH - late) <= UpgradeBy
    /\ tx[t]["upgrade"].conf = 0 => BtcTime(btcH) <= MinedBy + BtcTime(reorgs)
    /\ tx[t]["upgrade"].conf = 1
         => BtcTime(btcH) <= MinedBy + BtcTime(reorgs + 1)
    /\ Seen(t, "abort") => btcH >= Loan.abort_after
    /\ Seen(t, "take") => ~Seen(t, "abort")

UpgradeInv == \A t \in Takes : UpgradeAt(t)

LEMMA Schedule ==
  ASSUME TypeOK
  PROVE  /\ SettleBy \in Int /\ UpgradeBy \in Int /\ MinedBy \in Int
         /\ SeqTime(MaxLate) \in Nat /\ SeqTime(ClaimDepth) \in Nat
         /\ BtcTime(AnchorDepth - 2) \in Nat /\ BtcTime(MaxReorgs) \in Nat
         /\ BtcTime(reorgs) \in Nat /\ BtcTime(reorgs) <= BtcTime(MaxReorgs)
         /\ 2 * Drift * MaxReorgs \in Nat /\ Drift \in Nat
         /\ Waits(TakeBy) \in Int /\ Waits(TakeBy) <= SettleBy
         /\ SeqTime(seqH) \in Int /\ BtcTime(btcH) \in Int
<1>1. /\ MaxLate \in Int /\ ClaimDepth \in Int /\ AnchorDepth - 2 \in Int
      /\ MaxReorgs \in Int /\ reorgs \in Int /\ seqH \in Int /\ btcH \in Int
      /\ MaxLate >= 0 /\ ClaimDepth >= 0 /\ AnchorDepth - 2 >= 0
      /\ MaxReorgs >= 0 /\ reorgs >= 0 /\ reorgs <= MaxReorgs /\ Drift \in Nat
  BY Units
<1>2. /\ SeqTime(MaxLate) \in Int /\ SeqTime(ClaimDepth) \in Int
      /\ SeqTime(MaxLate) >= 0 /\ SeqTime(ClaimDepth) >= 0
      /\ SeqTime(seqH) \in Int
  BY <1>1, SeqTimes
<1>3. /\ BtcTime(AnchorDepth - 2) \in Int /\ BtcTime(MaxReorgs) \in Int
      /\ BtcTime(reorgs) \in Int /\ BtcTime(btcH) \in Int
      /\ BtcTime(AnchorDepth - 2) >= 0 /\ BtcTime(MaxReorgs) >= 0
      /\ BtcTime(reorgs) >= 0 /\ BtcTime(reorgs) <= BtcTime(MaxReorgs)
  BY <1>1, BtcTimes
<1>4. /\ TakeBy \in Int /\ Waits(TakeBy) \in Int
      /\ 2 * Drift * MaxReorgs \in Nat
      /\ Waits(TakeBy) <= TakeBy + 2 * Drift * MaxReorgs
  BY Deadline, WaitBound
<1>5. SettleBy \in Int
  BY <1>4 DEF SettleBy
<1>6. UpgradeBy \in Int
  BY <1>1, <1>2, <1>3, <1>5 DEF UpgradeBy
<1>7. MinedBy \in Int
  BY <1>1, <1>2, <1>6 DEF MinedBy
<1>8. QED
  BY <1>1, <1>2, <1>3, <1>4, <1>5, <1>6, <1>7 DEF SettleBy

(* The margin of the upgrade covers all of it. *)
LEMMA UpgradeBeforeAbort ==
  ASSUME LenderTerms, TypeOK, LoanSane
  PROVE  MinedBy + BtcTime(MaxReorgs) < BtcTime(Loan.abort_after)
<1>1. /\ MaxLate \in Int /\ ClaimDepth \in Int /\ AnchorDepth - 2 \in Int
      /\ MaxReorgs \in Int /\ 2 * MaxLate \in Int /\ Loan.abort_after \in Int
      /\ 2 * MaxLate = MaxLate + MaxLate /\ Drift \in Int
      /\ UpgradeMargin \in Int
  BY Units
<1>2. SeqTime(2 * MaxLate + ClaimDepth)
        = SeqTime(MaxLate) + SeqTime(MaxLate) + SeqTime(ClaimDepth)
  <2>1. SeqTime(2 * MaxLate + ClaimDepth)
          = SeqTime(2 * MaxLate) + SeqTime(ClaimDepth)
    BY <1>1, SeqTimes
  <2>2. SeqTime(2 * MaxLate) = SeqTime(MaxLate) + SeqTime(MaxLate)
    BY <1>1, SeqTimes
  <2>3. QED
    BY <2>1, <2>2
<1>3. BtcTime(AnchorDepth - 2 + MaxReorgs)
        = BtcTime(AnchorDepth - 2) + BtcTime(MaxReorgs)
  BY <1>1, BtcTimes
<1>4. BtcTime(Loan.abort_after) \in Int
  BY <1>1, BtcTimes
<1>5. /\ SeqTime(2 * MaxLate + ClaimDepth)
           + BtcTime(AnchorDepth - 2 + MaxReorgs)
           + 4 * Drift + 2 * Drift * MaxReorgs < UpgradeMargin
      /\ BtcTime(Loan.abort_after)
           >= SeqTime(Loan.d_refund) + UpgradeMargin - Drift
  BY DEF LenderTerms, LoanSane
<1>6. MinedBy = SeqTime(Loan.d_refund) + SeqTime(MaxLate) + SeqTime(MaxLate)
                  + SeqTime(ClaimDepth) + BtcTime(AnchorDepth - 2)
                  + 3 * Drift + 2 * Drift * MaxReorgs
  BY <1>1, Schedule, Deadline DEF MinedBy, UpgradeBy, SettleBy
<1>7. QED
  BY <1>1, <1>2, <1>3, <1>4, <1>5, <1>6, Schedule, Deadline

(* A take that is not yet settled is not yet late. *)
LEMMA Settling ==
  ASSUME TypeOK, ClockInv, NEW t \in Takes, Fresh(t, "take", TakeBy),
         Seen(t, "take")
  PROVE  /\ tx[t]["take"].conf < ClaimDepth
              => /\ SeqTime(seqH + 1) <= UpgradeBy
                 /\ SeqTime(seqH) <= UpgradeBy
         /\ Mined(t, "take") /\ tx[t]["take"].anchor < AnchorDepth
              => SeqTime(seqH) <= UpgradeBy
         /\ ~AnchorSafe(t, "take") => SeqTime(seqH) <= UpgradeBy
<1> DEFINE c == tx[t]["take"].conf
           a == tx[t]["take"].anchor
<1>1. /\ seqH \in Int /\ btcH \in Int /\ 1 \in Int /\ ClaimDepth \in Int
      /\ ClaimDepth >= 1 /\ AnchorDepth \in Int /\ SeqBlockSeconds \in Nat
  BY Units
<1>2. c \in Int /\ a \in Nat /\ c >= 0
  BY DEF TypeOK, ChainsTypeOK, TxRecord, Depth, Tx, SeqTx, Seen
<1>3. /\ c = 0 => SeqTime(seqH) <= Waits(TakeBy)
      /\ c >= 1 /\ a < AnchorDepth
           => BtcTime(btcH - a + 1) <= Waits(TakeBy) + Drift
      /\ c >= 1 /\ c < ClaimDepth => SeqTime(seqH - c) <= Waits(TakeBy)
      /\ c >= 1 => a >= 1
  BY DEF Fresh, Mined
<1>4. ASSUME c < ClaimDepth
      PROVE  SeqTime(seqH + 1) <= UpgradeBy /\ SeqTime(seqH) <= UpgradeBy
  <2> HIDE DEF c
  <2>1. /\ seqH - c \in Int /\ c + 1 \in Int /\ c + 1 <= ClaimDepth
        /\ (seqH - c) + (c + 1) = seqH + 1 /\ seqH - 0 = seqH /\ seqH + 1 \in Int
        /\ seqH <= seqH + 1
    BY <1>1, <1>2, <1>4
  <2>2. SeqTime(seqH - c) <= SettleBy
    <3>1. SeqTime(seqH - c) <= Waits(TakeBy)
      BY <1>2, <1>3, <1>4, <2>1
    <3>2. SeqTime(seqH - c) \in Int
      BY <2>1, SeqTimes
    <3>3. QED
      BY <3>1, <3>2, Schedule
  <2>3. SeqTime(c + 1) <= SeqTime(ClaimDepth)
    BY <1>1, <2>1, SeqTimes
  <2>4. SeqTime(seqH + 1) = SeqTime(seqH - c) + SeqTime(c + 1)
    <3>1. SeqTime((seqH - c) + (c + 1)) = SeqTime(seqH - c) + SeqTime(c + 1)
      BY <2>1, SeqTimes
    <3>2. QED
      BY <2>1, <3>1
  <2>5. SeqTime(seqH) <= SeqTime(seqH + 1)
    BY <1>1, <2>1, SeqTimes
  <2>6. /\ SeqTime(seqH - c) \in Int /\ SeqTime(c + 1) \in Int
        /\ SeqTime(seqH + 1) \in Int
    BY <2>1, SeqTimes
  <2>7. QED
    BY <2>2, <2>3, <2>4, <2>5, <2>6, Schedule DEF UpgradeBy
<1>5. ASSUME c >= 1, a < AnchorDepth PROVE SeqTime(seqH) <= UpgradeBy
  <2> HIDE DEF c, a
  <2>1. /\ btcH - a + 1 \in Int /\ a - 1 \in Int /\ AnchorDepth - 2 \in Int
        /\ a - 1 <= AnchorDepth - 2 /\ (btcH - a + 1) + (a - 1) = btcH
    BY <1>1, <1>2, <1>5
  <2>2. BtcTime(a - 1) <= BtcTime(AnchorDepth - 2)
    BY <2>1, BtcTimes
  <2>3. BtcTime(btcH) = BtcTime(btcH - a + 1) + BtcTime(a - 1)
    <3>1. BtcTime((btcH - a + 1) + (a - 1))
            = BtcTime(btcH - a + 1) + BtcTime(a - 1)
      BY <2>1, BtcTimes
    <3>2. QED
      BY <2>1, <3>1
  <2>4. BtcTime(btcH - a + 1) \in Int /\ BtcTime(a - 1) \in Int
    BY <2>1, BtcTimes
  <2>5. BtcTime(btcH - a + 1) <= Waits(TakeBy) + Drift
    BY <1>3, <1>5
  <2>6. SeqTime(seqH) <= BtcTime(btcH) + Drift
    BY DEF ClockInv
  <2>7. QED
    BY <2>2, <2>3, <2>4, <2>5, <2>6, Schedule DEF UpgradeBy
<1>6. ~AnchorSafe(t, "take") => c < ClaimDepth \/ (c >= 1 /\ a < AnchorDepth)
  BY <1>1, <1>2 DEF AnchorSafe
<1>7. QED
  BY <1>4, <1>5, <1>6 DEF Mined

(* While the take waits for its upgrade, Bitcoin is not far. *)
LEMMA UpgradeSentBy ==
  ASSUME TypeOK, ClockInv, FreshInv, NEW t \in Takes, UpgradeAt(t),
         Seen(t, "take"), ~Seen(t, "upgrade")
  PROVE  BtcTime(btcH) <= MinedBy
<1>1. /\ seqH \in Int /\ late \in Int /\ MaxLate \in Int /\ late <= MaxLate
      /\ seqH - late \in Int
  BY Units
<1>2. SeqTime(seqH) <= UpgradeBy + SeqTime(MaxLate)
  <2>1. CASE AnchorSafe(t, "take")
    <3>1. SeqTime(seqH - late) <= UpgradeBy
      BY <2>1 DEF UpgradeAt
    <3>2. /\ SeqTime(seqH - late) = SeqTime(seqH) - SeqTime(late)
          /\ SeqTime(late) <= SeqTime(MaxLate) /\ SeqTime(late) \in Int
      BY <1>1, SeqTimes
    <3>3. QED
      BY <3>1, <3>2, Schedule
  <2>2. CASE ~AnchorSafe(t, "take")
    <3>1. Fresh(t, "take", TakeBy)
      BY DEF FreshInv, FreshAt
    <3>2. SeqTime(seqH) <= UpgradeBy
      BY <2>2, <3>1, Settling
    <3>3. QED
      BY <3>2, Schedule
  <2>3. QED
    BY <2>1, <2>2
<1>3. BtcTime(btcH) <= SeqTime(seqH) + Drift
  BY DEF ClockInv
<1>4. QED
  BY <1>2, <1>3, Schedule DEF MinedBy

LEMMA NoAbortYet ==
  ASSUME LenderTerms, TypeOK, ClockInv, BackedInv, SaneInv, PaymentInv,
         FreshInv, NEW t \in Takes, UpgradeAt(t),
         Seen(t, "take") \/ Seen(t, "upgrade"), ~Mined(t, "upgrade")
  PROVE  btcH < Loan.abort_after
<1>1. LoanSane
  <2>1. sent[t] > 0
    BY DEF BackedInv, BackedAt, UpgradeAt
  <2>2. have[t].t
    BY <2>1 DEF PaymentInv, PaymentAt, BackedInv, BackedAt
  <2>3. QED
    BY <2>2 DEF SaneInv
<1>2. BtcTime(btcH) <= MinedBy + BtcTime(MaxReorgs)
  <2>1. CASE Seen(t, "upgrade")
    <3>1. tx[t]["upgrade"].conf \in Int
      BY DEF TypeOK, ChainsTypeOK, TxRecord, Depth, Tx, BtcTx
    <3>2. tx[t]["upgrade"].conf = 0
      BY <2>1, <3>1 DEF Seen, Mined
    <3>3. BtcTime(btcH) <= MinedBy + BtcTime(reorgs)
      BY <3>2 DEF UpgradeAt
    <3>4. QED
      BY <3>3, Schedule
  <2>2. CASE ~Seen(t, "upgrade")
    <3>1. BtcTime(btcH) <= MinedBy
      BY <2>2, UpgradeSentBy
    <3>2. QED
      BY <3>1, Schedule
  <2>3. QED
    BY <2>1, <2>2
<1>3. /\ btcH \in Int /\ Loan.abort_after \in Int
  BY Units
<1>4. BtcTime(btcH) \in Int /\ BtcTime(Loan.abort_after) \in Int
  BY <1>3, BtcTimes
<1>5. BtcTime(btcH) < BtcTime(Loan.abort_after)
  BY <1>1, <1>2, <1>4, UpgradeBeforeAbort, Schedule
<1>6. Loan.abort_after <= btcH => BtcTime(Loan.abort_after) <= BtcTime(btcH)
  BY <1>3, BtcTimes
<1>7. QED
  BY <1>3, <1>4, <1>5, <1>6

LEMMA NoAbort ==
  ASSUME LenderTerms, TypeOK, ClockInv, BackedInv, SaneInv, PaymentInv,
         FreshInv, NEW t \in Takes, UpgradeAt(t),
         Seen(t, "take") \/ Seen(t, "upgrade")
  PROVE  ~Brings(t, "abort")
<1> SUFFICES ASSUME Borrow(t, "abort") PROVE FALSE
  BY DEF Brings
<1>1. btcH >= Loan.abort_after /\ ~Mined(t, "upgrade")
  BY Opponents DEF Borrow, BorrowerMay, Outbids
<1>2. QED
  BY <1>1, NoAbortYet, Units

(* A collateral two blocks deep stays: only the tip of Bitcoin is replaced.*)
LEMMA CollateralStays ==
  ASSUME TypeOK, [Next]_vars, NEW t \in Takes, tx[t]["prevault"].conf >= 2
  PROVE  tx'[t]["prevault"].conf >= 2
<1>1. "prevault" \in Tx /\ "prevault" \in BtcTx
  BY DEF Tx, BtcTx
<1>2. tx[t]["prevault"].conf \in Int /\ "prevault" \notin Undone(t)
  BY DEF TypeOK, ChainsTypeOK, TxRecord, Depth, Tx, BtcTx, SeqTx, Undone
<1>3. Seen(t, "prevault")
  BY <1>2 DEF Seen
<1>4. CASE SeqTick
  BY <1>1, <1>4, SeqMoves
<1>5. CASE BtcTick
  BY <1>1, <1>2, <1>5, BtcMoves, ChainAssumption DEF Deeper
<1>6. CASE Reorg
  <2>1. PICK gone \in SUBSET (MayVanish \cap Undone(t)) : \A y \in Tx :
           IF y \in Family(gone) THEN tx'[t][y] = Absent
           ELSE IF y \in Undone(t) THEN tx'[t][y] = Pooled
           ELSE tx'[t][y] = tx[t][y]
    BY <1>6, ReorgMoves
  <2>2. gone \in SUBSET Tx /\ "prevault" \notin gone
    BY <1>2, ChainAssumption
  <2>3. "prevault" \notin Family(gone)
    BY <2>2, Lineage
  <2>4. QED
    BY <1>1, <1>2, <2>1, <2>3
<1>7. CASE ~SeqTick /\ ~BtcTick /\ ~Reorg
  <2>1. Seen(t, "prevault")'
    <3>1. ASSUME NEW y \in Tx, "prevault" \in Replaces(y) PROVE FALSE
      BY <3>1, Replaced DEF Tx, BtcTx, SeqTx
    <3>2. ASSUME NEW y \in MayReplace, Replace(t, y), "prevault" \in Family({y})
          PROVE  FALSE
      <4>1. y = "prevault"
        <5>1. {y} \in SUBSET Tx
          BY LoanAssumption DEF Tx, BtcTx, SeqTx
        <5>2. QED
          BY <3>2, <5>1, Lineage
      <4>2. QED
        BY <1>2, <3>2, <4>1 DEF Replace
    <3>3. QED
      BY <1>1, <1>3, <1>7, <3>1, <3>2, Vanishes
  <2>2. tx'[t]["prevault"] # Absent
    BY <2>1 DEF Seen, Absent
  <2>3. tx'[t]["prevault"] = tx[t]["prevault"]
    BY <1>1, <1>3, <1>7, <2>2, TxMoves
  <2>4. QED
    BY <2>3
<1>8. QED
  BY <1>4, <1>5, <1>6, <1>7

(* ... and so does the upgrade that spends it. *)
LEMMA UpgradeStays ==
  ASSUME LenderTerms, TypeOK, ClockInv, BackedInv, SaneInv, PaymentInv,
         FreshInv, [Next]_vars, NEW t \in Takes, UpgradeAt(t),
         Seen(t, "upgrade")
  PROVE  Seen(t, "upgrade")'
<1> SUFFICES ASSUME ~Seen(t, "upgrade")' PROVE FALSE
  OBVIOUS
<1>1. "upgrade" \in Tx /\ "prevault" \in Tx
  BY DEF Tx, BtcTx
<1>2. tx[t]["prevault"].conf >= 2
  BY DEF UpgradeAt, PaymentInv, PaymentAt
<1>3. tx[t]["prevault"].conf \in Int
  BY <1>1 DEF TypeOK, ChainsTypeOK, TxRecord, Depth
<1>4. ASSUME NEW gone \in SUBSET (MayVanish \cap Undone(t)),
             "upgrade" \in Family(gone)
      PROVE  FALSE
  <2>1. gone \in SUBSET Tx /\ "upgrade" \notin gone
    BY ChainAssumption DEF LenderTerms
  <2>2. "prevault" \in gone
    BY <1>4, <2>1, Lineage
  <2>3. "prevault" \in Undone(t)
    BY <2>2
  <2>4. "prevault" \notin SeqTx
    BY DEF SeqTx
  <2>5. QED
    BY <1>2, <1>3, <2>3, <2>4 DEF Undone
<1>5. ASSUME NEW y \in Tx, Brings(t, y), "upgrade" \in Replaces(y) PROVE FALSE
  <2>1. y = "abort"
    BY <1>5, Replaced DEF Tx, BtcTx, SeqTx
  <2>2. QED
    BY <1>5, <2>1, NoAbort
<1>6. ASSUME NEW y \in MayReplace, Replace(t, y), "upgrade" \in Family({y})
      PROVE  FALSE
  <2>1. y = "prevault"
    BY <1>6, Families, LoanAssumption
  <2>2. QED
    BY <1>2, <1>3, <1>6, <2>1 DEF Replace
<1>7. QED
  BY <1>1, <1>4, <1>5, <1>6, Vanishes

(* The parts of UpgradeAt, one step further. *)
LEMMA CollateralDeep ==
  ASSUME TypeOK, PaymentInv, [Next]_vars, NEW t \in Takes, UpgradeAt(t),
         Committed(t)'
  PROVE  tx'[t]["prevault"].conf >= 2
<1>1. CASE Committed(t)
  BY <1>1, CollateralStays DEF UpgradeAt
<1>2. CASE ~Committed(t)
  <2>1. \/ DisburseMark(t)
        \/ DisburseRecord(t) \/ DisburseRecover(t) \/ OperatorFound(t)
    BY <1>2, FileSteps, FieldNames DEF FileStep, Writes, Committed
  <2>2. DisburseMark(t)
    BY <1>2, <2>1
    DEF DisburseRecord, DisburseRecover, DisburseFound, OperatorFound,
        PaymentInv, PaymentAt, Committed
  <2>3. tx[t]["prevault"].conf >= DisburseConf
    BY <2>2 DEF DisburseMark, Collateral
  <2>4. tx[t]["prevault"].conf \in Int
    BY DEF TypeOK, ChainsTypeOK, TxRecord, Depth, Tx, BtcTx
  <2>5. tx[t]["prevault"].conf >= 2
    BY <2>3, <2>4, ChainAssumption
  <2>6. QED
    BY <2>5, CollateralStays
<1>3. QED
  BY <1>1, <1>2

LEMMA UpgradeRecorded ==
  ASSUME LenderTerms, TypeOK, ClockInv, BackedInv, SaneInv, PaymentInv,
         FreshInv, [Next]_vars, NEW t \in Takes, UpgradeAt(t)
  PROVE  /\ have'[t].upgrade_txid \/ At("upgraded", t)' => Seen(t, "upgrade")'
         /\ Seen(t, "upgrade")' => sent'[t] > 0
<1>1. "upgrade" \in Tx
  BY DEF Tx, BtcTx
<1>2. UpgradeSend(t) => Seen(t, "upgrade")'
  <2>1. ASSUME Enter(t, "upgrade") PROVE Seen(t, "upgrade")'
    BY <1>1, <2>1, Entered DEF TypeOK, Seen, Pooled
  <2>2. QED
    BY <2>1 DEF UpgradeSend, Seen
<1>3. Seen(t, "upgrade") => Seen(t, "upgrade")'
  BY UpgradeStays
<1>4. have'[t].upgrade_txid => have[t].upgrade_txid \/ At("upgraded", t)
  BY FileSteps, FieldNames DEF FileStep, Writes, UpgradeRecord
<1>5. At("upgraded", t)' => At("upgraded", t) \/ UpgradeSend(t)
  BY PcSteps DEF Begins
<1>6. UpgradeSend(t) => sent[t] > 0
  <2>1. ASSUME AnchorSafe(t, "take") PROVE Seen(t, "take")
    <3>1. tx[t]["take"].conf \in Int
      BY DEF TypeOK, ChainsTypeOK, TxRecord, Depth, Tx, SeqTx
    <3>2. QED
      BY <2>1, <3>1, ChainAssumption DEF AnchorSafe, Seen
  <2>2. QED
    BY <2>1 DEF UpgradeSend, UpgradeDue, BackedInv, BackedAt
<1>7. Seen(t, "upgrade")' => Seen(t, "upgrade") \/ UpgradeSend(t)
  BY <1>1, Appears DEF Brings
<1>8. sent[t] > 0 => sent'[t] > 0
  BY PublicSteps
<1>9. QED
  BY <1>2, <1>3, <1>4, <1>5, <1>6, <1>7, <1>8 DEF UpgradeAt

(* While nothing is due no settled take waits for its upgrade. *)
LEMMA UpgradeIsDue ==
  ASSUME LenderTerms, TypeOK, BackedInv, PaymentInv, NEW t \in Takes,
         UpgradeAt(t), AnchorSafe(t, "take"), ~Seen(t, "upgrade"),
         pc = Idle
  PROVE  Due(t)
<1>1. Seen(t, "take")
  <2>1. tx[t]["take"].conf \in Int
    BY DEF TypeOK, ChainsTypeOK, TxRecord, Depth, Tx, SeqTx
  <2>2. QED
    BY <2>1, ChainAssumption DEF AnchorSafe, Seen
<1>2. Committed(t)
  <2>1. sent[t] > 0
    BY <1>1 DEF BackedInv, BackedAt
  <2>2. QED
    BY <2>1 DEF PaymentInv, PaymentAt
<1>3. CASE have[t].disbursing
  BY <1>1, <1>3 DEF Due, DisburseFound, LenderTerms
<1>4. CASE have[t].disbursement_txid
  <2>1. Seen(t, "prevault") /\ ~Seen(t, "abort")
    <3>1. tx[t]["prevault"].conf \in Int
      BY DEF TypeOK, ChainsTypeOK, TxRecord, Depth, Tx, BtcTx
    <3>2. QED
      BY <1>1, <1>2, <3>1 DEF UpgradeAt, Seen
  <2>2. Accepted(t, "upgrade")
    BY <2>1, Scripts, Spends DEF Accepted, Unspent
  <2>3. ~have[t].upgrade_txid
    BY DEF UpgradeAt
  <2>4. QED
    BY <1>4, <2>2, <2>3 DEF Due, UpgradeDue
<1>5. QED
  BY <1>2, <1>3, <1>4 DEF Committed

(* A take that settles in a step settles in time. *)
LEMMA TakeSettles ==
  ASSUME LenderTerms, TypeOK, ClockInv, FreshInv, [Next]_vars, NEW t \in Takes,
         ~AnchorSafe(t, "take"), AnchorSafe(t, "take")'
  PROVE  SeqTime(seqH') <= UpgradeBy
<1> DEFINE c == tx[t]["take"].conf
           a == tx[t]["take"].anchor
<1>1. /\ seqH \in Int /\ ClaimDepth \in Int /\ ClaimDepth >= 1
      /\ AnchorDepth \in Int /\ AnchorDepth >= 2
  BY Units
<1>2. /\ "take" \in Tx /\ "take" \in SeqTx /\ c \in Int /\ a \in Int
  BY DEF TypeOK, ChainsTypeOK, TxRecord, Depth, Tx, SeqTx
<1>3. Fresh(t, "take", TakeBy)
  BY DEF FreshInv, FreshAt
<1>4. AnchorSafe(t, "take")' <=> /\ tx'[t]["take"].conf >= ClaimDepth
                                 /\ tx'[t]["take"].anchor >= AnchorDepth
  BY DEF AnchorSafe
<1>5. CASE SeqTick
  <2>1. /\ tx'[t]["take"].conf = Deeper(c, ClaimDepth)
        /\ tx'[t]["take"].anchor = IF c = 0 THEN 1 ELSE a
        /\ seqH' = seqH + 1
    BY <1>2, <1>5, SeqMoves DEF SeqTick, SeqBlock
  <2> HIDE DEF c, a
  <2>2. c >= 0 /\ a >= AnchorDepth
    BY <1>1, <1>2, <1>4, <2>1 DEF Deeper
  <2>3. c < ClaimDepth
    BY <1>2, <1>1, <2>2 DEF AnchorSafe, c, a
  <2>4. Seen(t, "take")
    BY <2>2 DEF Seen, c
  <2>5. SeqTime(seqH + 1) <= UpgradeBy
    BY <1>3, <2>3, <2>4, Settling DEF c
  <2>6. QED
    BY <2>1, <2>5
<1>6. CASE BtcTick
  <2>1. /\ tx'[t]["take"].conf = c /\ seqH' = seqH
    BY <1>2, <1>6, BtcMoves DEF BtcTick, BtcBlock
  <2>2. Seen(t, "take")
    BY <1>1, <1>2, <1>4, <2>1 DEF Seen
  <2>3. SeqTime(seqH) <= UpgradeBy
    BY <1>3, <2>2, Settling
  <2>4. QED
    BY <2>1, <2>3
<1>7. CASE ~SeqTick /\ ~BtcTick
  <2>1. tx'[t]["take"] \in {tx[t]["take"], Absent, Pooled}
    <3>1. ASSUME Reorg
          PROVE  tx'[t]["take"] \in {tx[t]["take"], Absent, Pooled}
      BY <1>2, <3>1, ReorgMoves
    <3>2. QED
      BY <1>2, <1>7, <3>1, TxMoves
  <2>2. Absent.conf = -1 /\ Pooled.conf = 0
    BY DEF Absent, Pooled
  <2>3. tx'[t]["take"] = tx[t]["take"]
    BY <1>1, <1>4, <2>1, <2>2
  <2>4. QED
    BY <1>4, <2>3 DEF AnchorSafe
<1>8. QED
  BY <1>5, <1>6, <1>7

LEMMA UpgradeAwaited ==
  ASSUME LenderTerms, TypeOK, ClockInv, BackedInv, SaneInv, PaymentInv,
         FreshInv, [Next]_vars, NEW t \in Takes, UpgradeAt(t),
         AnchorSafe(t, "take")', ~Seen(t, "upgrade")'
  PROVE  SeqTime(seqH' - late') <= UpgradeBy
<1>1. seqH' \in Int /\ late' \in Int /\ late' >= 0
  <2>1. TypeOK'
    BY TypeStep
  <2>2. QED
    BY <2>1, LoanAssumption, ChainAssumption DEF TypeOK, ChainsTypeOK
<1>2. seqH \in Int /\ late \in Int /\ UpgradeBy \in Int
  BY Units, Schedule
<1>3. CASE ~AnchorSafe(t, "take")
  <2>1. SeqTime(seqH') <= UpgradeBy
    BY <1>3, TakeSettles
  <2>2. seqH' - late' \in Int /\ seqH' - late' <= seqH'
    <3>1. \A h, l \in Int : l >= 0 => h - l \in Int /\ h - l <= h
      OBVIOUS
    <3>2. QED
      BY <1>1, <3>1
  <2>3. SeqTime(seqH' - late') <= SeqTime(seqH')
    BY <1>1, <2>2, SeqTimes
  <2>4. SeqTime(seqH' - late') \in Int /\ SeqTime(seqH') \in Int
    BY <1>1, <2>2, SeqTimes
  <2>5. QED
    BY <1>2, <2>1, <2>3, <2>4
<1>4. CASE AnchorSafe(t, "take")
  <2>1. ~Seen(t, "upgrade")
    BY UpgradeStays
  <2>2. SomethingDue
    BY <1>4, <2>1, UpgradeIsDue DEF SomethingDue
  <2>3. seqH' - late' = seqH - late
    <3>1. LenderPrompt
      BY DEF LenderTerms
    <3>2. QED
      BY <1>2, <2>2, <3>1, LateStep
  <2>4. SeqTime(seqH - late) <= UpgradeBy
    BY <1>4, <2>1 DEF UpgradeAt
  <2>5. QED
    BY <2>3, <2>4
<1>5. QED
  BY <1>3, <1>4

(* The upgrade waits in Bitcoin's mempool for one block, and for one more  *)
(* after each reorg.                                                       *)
LEMMA UpgradeConfirms ==
  ASSUME LenderTerms, TypeOK, ClockInv, FreshInv, [Next]_vars,
         NEW t \in Takes, UpgradeAt(t)
  PROVE  /\ tx'[t]["upgrade"].conf = 0
              => BtcTime(btcH') <= MinedBy + BtcTime(reorgs')
         /\ tx'[t]["upgrade"].conf = 1
              => BtcTime(btcH') <= MinedBy + BtcTime(reorgs' + 1)
<1> DEFINE c == tx[t]["upgrade"].conf
           c1 == tx'[t]["upgrade"].conf
<1>1. /\ btcH \in Int /\ reorgs \in Int /\ 1 \in Int /\ reorgs + 1 \in Int
      /\ reorgs + 1 + 1 \in Int /\ reorgs <= reorgs + 1
      /\ reorgs + 1 <= reorgs + 1 + 1 /\ MinedBy \in Int
  BY Units, Schedule
<1>2. /\ BtcTime(btcH) \in Int /\ BtcTime(reorgs) \in Int
      /\ BtcTime(reorgs + 1) \in Int /\ BtcTime(reorgs + 1 + 1) \in Int
      /\ BtcTime(btcH + 1) = BtcTime(btcH) + BtcTime(1)
      /\ BtcTime(reorgs + 1) = BtcTime(reorgs) + BtcTime(1)
      /\ BtcTime(reorgs) <= BtcTime(reorgs + 1)
      /\ BtcTime(reorgs + 1) <= BtcTime(reorgs + 1 + 1) /\ BtcTime(1) \in Int
      /\ BtcTime(reorgs) >= 0
  <2>1. /\ BtcTime(btcH + 1) = BtcTime(btcH) + BtcTime(1)
        /\ BtcTime(reorgs + 1) = BtcTime(reorgs) + BtcTime(1)
    BY <1>1, BtcTimes
  <2>2. /\ BtcTime(reorgs) <= BtcTime(reorgs + 1)
        /\ BtcTime(reorgs + 1) <= BtcTime(reorgs + 1 + 1)
    BY <1>1, BtcTimes
  <2>3. /\ BtcTime(btcH) \in Int /\ BtcTime(reorgs) \in Int
        /\ BtcTime(reorgs + 1) \in Int /\ BtcTime(reorgs + 1 + 1) \in Int
        /\ BtcTime(1) \in Int
    BY <1>1, BtcTimes
  <2>4. BtcTime(reorgs) >= 0
    BY Schedule
  <2>5. QED
    BY <2>1, <2>2, <2>3, <2>4
<1>3. /\ "upgrade" \in Tx /\ "upgrade" \in BtcTx /\ c \in Int /\ c >= -1
  <2>1. "upgrade" \in Tx /\ "upgrade" \in BtcTx
    BY DEF Tx, BtcTx
  <2>2. tx[t]["upgrade"] \in TxRecord
    BY <2>1 DEF TypeOK, ChainsTypeOK
  <2>3. QED
    BY <2>1, <2>2, ChainAssumption DEF TxRecord, Depth
<1>4. /\ c = 0 => BtcTime(btcH) <= MinedBy + BtcTime(reorgs)
      /\ c = 1 => BtcTime(btcH) <= MinedBy + BtcTime(reorgs + 1)
  BY DEF UpgradeAt
<1>5. CASE SeqTick
  <2>1. c1 = c /\ btcH' = btcH /\ reorgs' = reorgs
    BY <1>3, <1>5, SeqMoves DEF SeqTick, SeqBlock
  <2>2. QED
    BY <1>4, <2>1
<1>6. CASE BtcTick
  <2>1. c1 = Deeper(c, DisburseConf) /\ btcH' = btcH + 1 /\ reorgs' = reorgs
    BY <1>3, <1>6, BtcMoves DEF BtcTick, BtcBlock
  <2> HIDE DEF c, c1
  <2>2. c1 # 0 /\ (c1 = 1 => c = 0)
    BY <1>3, <2>1, ChainAssumption DEF Deeper
  <2>3. c = 0 => BtcTime(btcH + 1) <= MinedBy + BtcTime(reorgs + 1)
    BY <1>1, <1>2, <1>4
  <2>4. QED
    BY <2>1, <2>2, <2>3 DEF c1
<1>7. CASE Reorg
  <2>1. btcH' = btcH /\ reorgs' = reorgs + 1
    BY <1>7 DEF Reorg, BtcReorg
  <2>2. c1 = -1 \/ (c = 1 /\ c1 = 0) \/ c1 = c
    <3>1. \/ tx'[t]["upgrade"] = Absent
          \/ "upgrade" \in Undone(t) /\ tx'[t]["upgrade"] = Pooled
          \/ tx'[t]["upgrade"] = tx[t]["upgrade"]
      BY <1>3, <1>7, ReorgMoves
    <3>2. "upgrade" \in Undone(t) => c = 1
      BY DEF Undone, SeqTx
    <3>3. QED
      BY <3>1, <3>2 DEF Absent, Pooled
  <2> HIDE DEF c, c1
  <2>3. /\ c1 = 0 => BtcTime(btcH) <= MinedBy + BtcTime(reorgs + 1)
        /\ c1 = 1 => BtcTime(btcH) <= MinedBy + BtcTime(reorgs + 1 + 1)
    BY <1>1, <1>2, <1>4, <2>2
  <2>4. QED
    BY <2>1, <2>3 DEF c1
<1>8. CASE ~SeqTick /\ ~BtcTick /\ ~Reorg
  <2>1. /\ btcH' = btcH /\ reorgs' = reorgs
        /\ \/ tx'[t]["upgrade"] = tx[t]["upgrade"]
           \/ tx'[t]["upgrade"] = Absent
           \/ /\ ~Seen(t, "upgrade") /\ tx'[t]["upgrade"] = Pooled
              /\ Brings(t, "upgrade")
    BY <1>3, <1>8, TxMoves
  <2>2. CASE tx'[t]["upgrade"] = tx[t]["upgrade"]
    BY <1>4, <2>1, <2>2
  <2>3. CASE tx'[t]["upgrade"] = Absent
    BY <2>3 DEF Absent
  <2>4. CASE /\ ~Seen(t, "upgrade") /\ tx'[t]["upgrade"] = Pooled
             /\ Brings(t, "upgrade")
    <3>1. AnchorSafe(t, "take")
      BY <2>4 DEF Brings, UpgradeSend, UpgradeDue
    <3>2. tx[t]["take"].conf \in Int
      BY DEF TypeOK, ChainsTypeOK, TxRecord, Depth, Tx, SeqTx
    <3>3. Seen(t, "take")
      BY <3>1, <3>2, ChainAssumption DEF AnchorSafe, Seen
    <3>4. BtcTime(btcH) <= MinedBy
      BY <2>4, <3>3, UpgradeSentBy
    <3>5. BtcTime(btcH) <= MinedBy + BtcTime(reorgs)
      BY <1>1, <1>2, <3>4
    <3>6. c1 = 0
      BY <2>4 DEF Pooled
    <3>7. QED
      BY <2>1, <3>5, <3>6
  <2>5. QED
    BY <2>1, <2>2, <2>3, <2>4
<1>9. QED
  BY <1>5, <1>6, <1>7, <1>8

(* A principal is not taken once the abort is open, nor the other way      *)
(* round.                                                                  *)
LEMMA TakeOrAbort ==
  ASSUME LenderTerms, TypeOK, ClockInv, BackedInv, SaneInv, PaymentInv,
         BusyInv, FreshInv, PrincipalInv, [Next]_vars,
         NEW t \in Takes, UpgradeAt(t)
  PROVE  /\ Seen(t, "abort")' => btcH' >= Loan.abort_after
         /\ Seen(t, "take")' => ~Seen(t, "abort")'
<1>1. /\ {"abort", "take"} \subseteq Tx
      /\ btcH \in Int /\ Loan.abort_after \in Int
      /\ btcH' = btcH \/ btcH' = btcH + 1
  BY Units, Heights DEF Tx, BtcTx, SeqTx
<1>2. Seen(t, "abort")' => btcH' >= Loan.abort_after
  <2>1. CASE Seen(t, "abort")
    BY <1>1, <2>1 DEF UpgradeAt
  <2>2. CASE Seen(t, "abort")' /\ ~Seen(t, "abort")
    <3>1. Borrow(t, "abort") /\ btcH' = btcH
      BY <1>1, <2>2, Appears DEF Brings
    <3>2. QED
      BY <3>1 DEF Borrow, BorrowerMay
  <2>3. QED
    BY <2>1, <2>2
<1>3. ASSUME Seen(t, "take")', Seen(t, "abort")' PROVE FALSE
  <2>1. CASE Seen(t, "take")
    <3>1. ~Seen(t, "abort")
      BY <2>1 DEF UpgradeAt
    <3>2. Brings(t, "abort")
      BY <1>1, <1>3, <3>1, Appears
    <3>3. QED
      BY <2>1, <3>2, NoAbort
  <2>2. CASE ~Seen(t, "take")
    <3>1. /\ Borrow(t, "take") /\ Brings(t, "take") /\ btcH' = btcH
      BY <1>1, <1>3, <2>2, Appears DEF Brings
    <3>2. Seen(t, "disburse")
      BY <3>1, Scripts DEF Borrow, Outbids
    <3>3. LoanSane
      <4>1. sent[t] > 0
        BY <3>2 DEF BackedInv, BackedAt
      <4>2. have[t].t
        BY <4>1 DEF PaymentInv, PaymentAt, BackedInv, BackedAt
      <4>3. QED
        BY <4>2 DEF SaneInv
    <3>4. SeqTime(seqH) <= Waits(TakeBy)
      BY <2>2, <3>1, SentInTime
    <3>5. BtcTime(btcH) <= SeqTime(seqH) + Drift
      BY DEF ClockInv
    <3>6. SettleBy + Drift <= MinedBy
      BY Schedule DEF MinedBy, UpgradeBy
    <3>7. BtcTime(Loan.abort_after) \in Int
      BY <1>1, BtcTimes
    <3>8. BtcTime(btcH) < BtcTime(Loan.abort_after)
      BY <3>3, <3>4, <3>5, <3>6, <3>7, Schedule, UpgradeBeforeAbort
    <3>9. BtcTime(Loan.abort_after) <= BtcTime(btcH)
      BY <1>1, <1>2, <1>3, <3>1, BtcTimes
    <3>10. QED
      BY <3>7, <3>8, <3>9, Schedule
  <2>3. QED
    BY <2>1, <2>2
<1>4. QED
  BY <1>2, <1>3

LEMMA UpgradeStep ==
  ASSUME LenderTerms, TypeOK, ClockInv, BackedInv, SaneInv, PaymentInv,
         BusyInv, FreshInv, PrincipalInv, UpgradeInv, [Next]_vars
  PROVE  UpgradeInv'
<1> SUFFICES ASSUME NEW t \in Takes, UpgradeAt(t) PROVE UpgradeAt(t)'
  BY DEF UpgradeInv
<1>1. Committed(t)' => tx'[t]["prevault"].conf >= 2
  BY CollateralDeep
<1>2. /\ have'[t].upgrade_txid \/ At("upgraded", t)' => Seen(t, "upgrade")'
      /\ Seen(t, "upgrade")' => sent'[t] > 0
  BY UpgradeRecorded
<1>3. AnchorSafe(t, "take")' /\ ~Seen(t, "upgrade")'
        => SeqTime(seqH' - late') <= UpgradeBy
  BY UpgradeAwaited
<1>4. /\ tx'[t]["upgrade"].conf = 0
           => BtcTime(btcH') <= MinedBy + BtcTime(reorgs')
      /\ tx'[t]["upgrade"].conf = 1
           => BtcTime(btcH') <= MinedBy + BtcTime(reorgs' + 1)
  BY UpgradeConfirms
<1>5. /\ Seen(t, "abort")' => btcH' >= Loan.abort_after
      /\ Seen(t, "take")' => ~Seen(t, "abort")'
  BY TakeOrAbort
<1>6. UpgradeBy' = UpgradeBy /\ MinedBy' = MinedBy
  BY DEF MinedBy, UpgradeBy, SettleBy, TakeBy, SeqTime, BtcTime
<1>7. QED
  BY <1>1, <1>2, <1>3, <1>4, <1>5, <1>6 DEF UpgradeAt, SeqTime, BtcTime

LEMMA UpgradeInvariant ==
  ASSUME LenderTerms PROVE Spec => []UpgradeInv
<1>1. Init => UpgradeInv
  <2> SUFFICES ASSUME Init, NEW t \in Takes PROVE UpgradeAt(t)
    BY DEF UpgradeInv
  <2>1. \A f \in Fields : ~have[t][f]
    BY DEF Init
  <2>2. \A x \in Tx : tx[t][x].conf = -1
    BY DEF Init, ChainsInit, Absent
  <2>3. \A op : ~At(op, t)
    BY DEF Init, At, Idle
  <2>4. {"take", "upgrade", "abort", "prevault"} \subseteq Tx
    BY DEF Tx, BtcTx, SeqTx
  <2>5. QED
    BY <2>1, <2>2, <2>3, <2>4, FieldNames, ChainAssumption
    DEF UpgradeAt, Committed, Seen, AnchorSafe
<1>2. /\ TypeOK /\ ClockInv /\ BackedInv /\ SaneInv /\ PaymentInv /\ BusyInv
      /\ FreshInv /\ PrincipalInv /\ UpgradeInv /\ [Next]_vars
      => UpgradeInv'
  BY UpgradeStep
<1>3. LenderPrompt /\ OperatorLooks
  BY DEF LenderTerms
<1>4. Spec => []BusyInv
  BY <1>3, BusyInvariant
<1>5. Spec => []PaymentInv
  BY <1>3, PaymentInvariant
<1>6. QED
  BY <1>1, <1>2, <1>4, <1>5, TypeCorrect, ClockInvariant, BackedInvariant,
     SaneInvariant, InTimeInvariant, PTL DEF Spec

(* A borrower who has the principal and their collateral back has paid the *)
(* debt: an abort never meets a principal that was taken, and a reclaim    *)
(* rests on a secret that only the claim of the repayment has shown, which *)
(* stays claimed.  For every deadline timelocks_sane accepts, if its       *)
(* margins cover the lateness, the depths and the reorgs the terms count   *)
(* (CrossLoan, LenderWhole).                                               *)
THEOREM LenderIsWhole ==
  ASSUME LenderTerms PROVE Spec => []LenderWhole
<1>1. TypeOK /\ BackedInv /\ PaidInv /\ UpgradeInv => LenderWhole
  <2> SUFFICES ASSUME TypeOK, BackedInv, PaidInv, UpgradeInv, NEW t \in Takes,
                      Mined(t, "take"), Mined(t, "abort") \/ Mined(t, "reclaim")
               PROVE  Seen(t, "claim")
    BY DEF LenderWhole
  <2>1. /\ tx[t]["take"].conf \in Int /\ tx[t]["abort"].conf \in Int
        /\ tx[t]["reclaim"].conf \in Int
    BY DEF TypeOK, ChainsTypeOK, TxRecord, Depth, Tx, BtcTx, SeqTx
  <2>2. Seen(t, "take") /\ (Seen(t, "abort") \/ Seen(t, "reclaim"))
    BY <2>1 DEF Seen, Mined
  <2>3. QED
    BY <2>2 DEF BackedInv, BackedAt, PaidInv, UpgradeInv, UpgradeAt
<1>2. QED
  BY <1>1, TypeCorrect, BackedInvariant, PaidInvariant, UpgradeInvariant, PTL

-----------------------------------------------------------------------------
(* The borrower's side: the vault is not swept from under a borrower who   *)
(* has paid.  A responder that claims in time does so while the sweep is   *)
(* still closed, and a borrower who can take the collateral back does not  *)
(* let the sweep open.  A relay that names an upgrade which is yet to come *)
(* has the secret shown before it; then the upgrade has to be in time too. *)

BorrowerTerms ==
    /\ LenderPrompt /\ BorrowerPrompt
    /\ "reclaim" \notin MayVanish
    /\ SeqTime(MaxLate - 1) + 2 * Drift
         < RepayMargin + SeqTime(ClaimMarginBlocks)
    /\ RelayTells => LenderTerms

(* No repayment is claimed once the sweep is open. *)
LEMMA ClaimBeforeSweep ==
  ASSUME BorrowerTerms, TypeOK, ClockInv, BackedInv, SaneInv, BusyInv,
         NEW t \in Takes, At("claim", t)
  PROVE  btcH < Loan.recover_after
<1>1. LoanSane
  <2>1. have[t].t
    BY DEF BackedInv, BackedAt
  <2>2. QED
    BY <2>1 DEF SaneInv
<1>2. /\ seqH \in Int /\ btcH \in Int /\ MaxLate \in Int /\ Drift \in Nat
      /\ RepayMargin \in Nat /\ ClaimMarginBlocks \in Int
      /\ Loan.repay_deadline \in Int /\ Loan.recover_after \in Int
      /\ Effective = Loan.repay_deadline - ClaimMarginBlocks
  BY Units
<1>3. seqH <= Loan.repay_deadline - ClaimMarginBlocks + (MaxLate - 1)
  <2>1. Effective - 1 + MaxLate = Effective + (MaxLate - 1)
    BY <1>2
  <2>2. QED
    BY <1>2, <2>1, ClaimSentBy
<1>4. SeqTime(seqH) <= SeqTime(Loan.repay_deadline)
                         - SeqTime(ClaimMarginBlocks) + SeqTime(MaxLate - 1)
  <2> DEFINE d == Loan.repay_deadline - ClaimMarginBlocks
  <2>1. d \in Int /\ MaxLate - 1 \in Int /\ d + (MaxLate - 1) \in Int
    BY <1>2
  <2>2. SeqTime(d) = SeqTime(Loan.repay_deadline) - SeqTime(ClaimMarginBlocks)
    BY <1>2, SeqTimes
  <2>3. SeqTime(d + (MaxLate - 1)) = SeqTime(d) + SeqTime(MaxLate - 1)
    BY <2>1, SeqTimes
  <2>4. SeqTime(seqH) <= SeqTime(d + (MaxLate - 1))
    BY <1>2, <1>3, <2>1, SeqTimes
  <2>5. QED
    BY <2>2, <2>3, <2>4
<1>5. /\ SeqTime(seqH) \in Int /\ SeqTime(Loan.repay_deadline) \in Int
      /\ SeqTime(ClaimMarginBlocks) \in Int /\ SeqTime(MaxLate - 1) \in Int
      /\ BtcTime(btcH) \in Int /\ BtcTime(Loan.recover_after) \in Int
  <2>1. MaxLate - 1 \in Int
    BY <1>2
  <2>2. QED
    BY <1>2, <2>1, SeqTimes, BtcTimes
<1>6. BtcTime(btcH) < BtcTime(Loan.recover_after)
  <2>1. BtcTime(btcH) <= SeqTime(seqH) + Drift
    BY DEF ClockInv
  <2>2. BtcTime(Loan.recover_after)
          >= SeqTime(Loan.repay_deadline) + RepayMargin - Drift
    BY <1>1 DEF LoanSane
  <2>3. SeqTime(MaxLate - 1) + 2 * Drift
          < RepayMargin + SeqTime(ClaimMarginBlocks)
    BY DEF BorrowerTerms
  <2>4. QED
    BY <1>2, <1>4, <1>5, <2>1, <2>2, <2>3
<1>7. Loan.recover_after <= btcH
        => BtcTime(Loan.recover_after) <= BtcTime(btcH)
  BY <1>2, BtcTimes
<1>8. QED
  BY <1>2, <1>5, <1>6, <1>7

SweepAt(t) ==
    /\ Seen(t, "timeout") => btcH >= Loan.recover_after
    /\ tPublic[t] => ~Seen(t, "timeout")
    /\ tPublic[t] => \/ btcH < Loan.recover_after
                     \/ Seen(t, "reclaim")
                     \/ ~Seen(t, "upgrade")

SweepInv == \A t \in Takes : SweepAt(t)

(* The step that shows the secret. *)
LEMMA ShownWhen ==
  ASSUME TypeOK, [Next]_vars, NEW t \in Takes, tPublic'[t], ~tPublic[t]
  PROVE  /\ At("claim", t) /\ Brings(t, "claim") /\ ~Seen(t, "claim")
         /\ UNCHANGED <<btcH, seqH>>
BY PublicSteps DEF ClaimBroadcast, Accepted, Brings, ClaimSend, ClaimLost

(* A reclaim is lost only with the vault it spends. *)
LEMMA ReclaimStays ==
  ASSUME TypeOK, "reclaim" \notin MayVanish, [Next]_vars, NEW t \in Takes,
         Seen(t, "reclaim"), Seen(t, "upgrade")'
  PROVE  Seen(t, "reclaim")'
<1> SUFFICES ASSUME ~Seen(t, "reclaim")' PROVE FALSE
  OBVIOUS
<1>1. /\ "reclaim" \in Tx /\ "upgrade" \in Tx /\ "abort" \in Tx
      /\ ~(Absent.conf >= 0) /\ ChainsTypeOK
  BY DEF Tx, BtcTx, Absent, TypeOK
<1>2. CASE Reorg
  <2>1. PICK gone \in SUBSET (MayVanish \cap Undone(t)) : \A x \in Tx :
           IF x \in Family(gone) THEN tx'[t][x] = Absent
           ELSE IF x \in Undone(t) THEN tx'[t][x] = Pooled
           ELSE tx'[t][x] = tx[t][x]
    BY <1>2, ReorgMoves
  <2>2. "reclaim" \in Family(gone)
    BY <1>1, <2>1 DEF Seen, Pooled
  <2>3. "upgrade" \notin Family(gone)
    BY <1>1, <2>1 DEF Seen
  <2>4. gone \in SUBSET Tx /\ "reclaim" \notin gone
    BY ChainAssumption
  <2>5. "prevault" \in gone \/ "upgrade" \in gone
    BY <2>2, <2>4, Lineage
  <2>6. "upgrade" \in gone \cup Children(gone)
    BY <1>1, <2>5, Scripts DEF Children
  <2>7. QED
    BY <2>3, <2>6 DEF Family
<1>3. ASSUME NEW y \in Tx, Enter(t, y), Brings(t, y), "reclaim" \in Replaces(y)
      PROVE  FALSE
  <2>1. y = "abort" \/ y = "timeout"
    BY <1>3, Replaced DEF Tx, BtcTx, SeqTx
  <2>2. CASE y = "abort"
    BY <1>1, <1>3, <2>2, Entered, Replaced DEF Seen
  <2>3. CASE y = "timeout"
    <3>1. Accepted(t, "timeout")
      BY <1>3, <2>3 DEF Brings, Timeout
    <3>2. QED
      BY <3>1, Scripts, Spends DEF Accepted, Unspent
  <2>4. QED
    BY <2>1, <2>2, <2>3
<1>4. ASSUME NEW y \in MayReplace, Replace(t, y), "reclaim" \in Family({y})
      PROVE  FALSE
  <2>1. y = "prevault"
    BY <1>4, Families, LoanAssumption
  <2>2. tx' = [tx EXCEPT ![t] = [z \in Tx |->
                 IF z \in Family({y}) THEN Absent ELSE tx[t][z]]]
    BY <1>4 DEF Replace
  <2>3. "upgrade" \in Family({y})
    BY <2>1, Families DEF BtcTx
  <2>4. tx'[t]["upgrade"] = Absent
    BY <1>1, <2>2, <2>3 DEF ChainsTypeOK
  <2>5. QED
    BY <1>1, <2>4 DEF Seen
<1>5. QED
  BY <1>1, <1>2, <1>3, <1>4, Vanishes

(* An upgrade comes before the sweep opens; a secret shown on the relay's  *)
(* word may be out before it.                                              *)
LEMMA UpgradeBeforeSweep ==
  ASSUME LenderTerms, TypeOK, ClockInv, BackedInv, SaneInv, FreshInv,
         UpgradeInv, NEW t \in Takes, tPublic[t], UpgradeSend(t),
         ~Seen(t, "upgrade")
  PROVE  btcH < Loan.recover_after
<1>1. LoanSane
  BY DEF BackedInv, BackedAt, SaneInv
<1>2. Seen(t, "take")
  <2>1. AnchorSafe(t, "take")
    BY DEF UpgradeSend, UpgradeDue
  <2>2. tx[t]["take"].conf \in Int
    BY DEF TypeOK, ChainsTypeOK, TxRecord, Depth, Tx, SeqTx
  <2>3. QED
    BY <2>1, <2>2, ChainAssumption DEF AnchorSafe, Seen
<1>3. BtcTime(btcH) <= MinedBy
  BY <1>2, UpgradeSentBy DEF UpgradeInv
<1>4. btcH \in Int /\ Loan.recover_after \in Int /\ Loan.abort_after \in Int
  BY Units
<1>5. /\ BtcTime(btcH) \in Int /\ BtcTime(Loan.recover_after) \in Int
      /\ BtcTime(Loan.abort_after) \in Int
      /\ Loan.recover_after <= btcH
           => BtcTime(Loan.recover_after) <= BtcTime(btcH)
  BY <1>4, BtcTimes
<1>6. BtcTime(btcH) < BtcTime(Loan.abort_after)
  BY <1>1, <1>3, <1>5, Schedule, UpgradeBeforeAbort
<1>7. QED
  BY <1>1, <1>4, <1>5, <1>6 DEF LoanSane

LEMMA SweepStep ==
  ASSUME BorrowerTerms, TypeOK, ClockInv, BackedInv, SaneInv, BusyInv,
         RelayTells => FreshInv /\ UpgradeInv, SweepInv, [Next]_vars
  PROVE  SweepInv'
<1> SUFFICES ASSUME NEW t \in Takes PROVE SweepAt(t)'
  BY DEF SweepInv, SweepAt
<1>1. SweepAt(t) /\ BackedAt(t)
  BY DEF SweepInv, BackedInv
<1>2. /\ {"timeout", "upgrade", "reclaim", "claim"} \subseteq Tx
      /\ btcH \in Nat /\ Loan.recover_after \in Int
      /\ btcH' = btcH \/ (BtcTick /\ btcH' = btcH + 1)
  BY Units, Heights DEF Tx, BtcTx, SeqTx
<1>3. tPublic'[t] /\ ~tPublic[t] => btcH < Loan.recover_after /\ btcH' = btcH
  BY ShownWhen, ClaimBeforeSweep
<1>4. Seen(t, "timeout")' => btcH' >= Loan.recover_after
  <2>1. CASE Seen(t, "timeout")
    BY <1>1, <1>2, <2>1 DEF SweepAt
  <2>2. CASE Seen(t, "timeout")' /\ ~Seen(t, "timeout")
    <3>1. Timeout(t) /\ btcH' = btcH
      BY <1>2, <2>2, Appears DEF Brings
    <3>2. QED
      BY <1>2, <3>1 DEF Timeout
  <2>3. QED
    BY <2>1, <2>2
<1>5. tPublic'[t] => ~Seen(t, "timeout")'
  <2>1. CASE tPublic[t]
    <3>1. ASSUME Seen(t, "timeout")' PROVE FALSE
      <4>1. ~Seen(t, "timeout")
        BY <1>1, <2>1 DEF SweepAt
      <4>2. Timeout(t)
        BY <1>2, <3>1, <4>1, Appears DEF Brings
      <4>3. Unspent(t, "upgrade") /\ btcH >= Loan.recover_after
        BY <4>2, Scripts DEF Timeout, Accepted
      <4>4. Seen(t, "upgrade") /\ ~Seen(t, "reclaim")
        BY <4>3, Spends DEF Unspent
      <4>5. QED
        BY <1>1, <1>2, <2>1, <4>3, <4>4 DEF SweepAt
    <3>2. QED
      BY <3>1
  <2>2. CASE ~tPublic[t]
    BY <1>2, <1>3, <1>4, <2>2
  <2>3. QED
    BY <2>1, <2>2
<1>6. tPublic'[t] => \/ btcH' < Loan.recover_after
                     \/ Seen(t, "reclaim")'
                     \/ ~Seen(t, "upgrade")'
  <2>1. CASE ~tPublic[t]
    BY <1>3, <2>1
  <2>2. ASSUME tPublic[t], Seen(t, "reclaim") \/ ~Seen(t, "upgrade"),
               Seen(t, "upgrade")'
        PROVE  Seen(t, "reclaim")' \/ btcH' < Loan.recover_after
    <3>1. CASE Seen(t, "reclaim")
      BY <2>2, <3>1, ReclaimStays DEF BorrowerTerms
    <3>2. CASE ~Seen(t, "upgrade")
      <4>1. UpgradeSend(t)
        BY <1>2, <2>2, <3>2, Appears DEF Brings
      <4>2. ~have[t].upgrade_txid /\ btcH' = btcH
        BY <4>1 DEF UpgradeSend, UpgradeDue
      <4>3. RelayTells
        BY <1>1, <2>2, <4>2 DEF BackedAt, Started
      <4>4. LenderTerms /\ FreshInv /\ UpgradeInv
        BY <4>3 DEF BorrowerTerms
      <4>5. QED
        BY <2>2, <3>2, <4>1, <4>2, <4>4, UpgradeBeforeSweep
    <3>3. QED
      BY <2>2, <3>1, <3>2
  <2>3. CASE tPublic[t] /\ btcH < Loan.recover_after
    <3>1. CASE btcH' = btcH
      BY <2>3, <3>1
    <3>2. CASE BtcTick
      <4>1. ~Accepted(t, "reclaim")
        BY <2>3, <3>2 DEF BtcTick, TimeMayPass, BorrowerTerms, ReclaimDue
      <4>2. Seen(t, "reclaim") \/ ~Unspent(t, "upgrade")
        BY <4>1, Scripts DEF Accepted
      <4>3. ~Unspent(t, "upgrade") =>
              \/ ~Seen(t, "upgrade") \/ Seen(t, "reclaim")
              \/ Seen(t, "timeout")
        BY Spends DEF Unspent
      <4>4. ~Seen(t, "timeout")
        BY <1>1, <2>3 DEF SweepAt
      <4>5. QED
        BY <2>2, <2>3, <4>2, <4>3, <4>4
    <3>3. QED
      BY <1>2, <3>1, <3>2
  <2>4. QED
    BY <1>1, <2>1, <2>2, <2>3 DEF SweepAt
<1>7. QED
  BY <1>4, <1>5, <1>6 DEF SweepAt

LEMMA SweepInvariant ==
  ASSUME BorrowerTerms PROVE Spec => []SweepInv
<1>1. Init => SweepInv
  BY DEF Init, ChainsInit, SweepInv, SweepAt, Seen, Absent, Tx, BtcTx
<1>2. /\ TypeOK /\ ClockInv /\ BackedInv /\ SaneInv /\ BusyInv /\ SweepInv
      /\ (RelayTells => FreshInv /\ UpgradeInv) /\ [Next]_vars
      => SweepInv'
  BY SweepStep
<1>3. LenderPrompt
  BY DEF BorrowerTerms
<1>4. Spec => []BusyInv
  BY <1>3, BusyInvariant
<1>5. Spec => [](RelayTells => FreshInv /\ UpgradeInv)
  <2>1. CASE RelayTells
    <3>1. LenderTerms
      BY <2>1 DEF BorrowerTerms
    <3>2. (Spec => [](FreshInv /\ PrincipalInv)) /\ (Spec => []UpgradeInv)
      BY <3>1, InTimeInvariant, UpgradeInvariant
    <3>3. QED
      BY <3>2, PTL
  <2>2. CASE ~RelayTells
    <3>1. RelayTells => FreshInv /\ UpgradeInv
      BY <2>2
    <3>2. QED
      BY <3>1, PTL
  <2>3. QED
    BY <2>1, <2>2
<1>6. QED
  BY <1>1, <1>2, <1>4, <1>5, TypeCorrect, ClockInvariant, BackedInvariant,
     SaneInvariant, PTL DEF Spec

(* A lender who was paid the debt does not sweep the collateral as well,   *)
(* of a borrower who takes it back when they can: whatever deadlines       *)
(* timelocks_sane accepts, if the margins cover the blocks a responder may *)
(* be late by (CrossLoan, BorrowerWhole).                                  *)
THEOREM BorrowerIsWhole ==
  ASSUME BorrowerTerms PROVE Spec => []BorrowerWhole
<1>1. TypeOK /\ BackedInv /\ SweepInv => BorrowerWhole
  <2> SUFFICES ASSUME TypeOK, BackedInv, SweepInv, NEW t \in Takes,
                      Mined(t, "claim"), Mined(t, "timeout")
               PROVE  FALSE
    BY DEF BorrowerWhole
  <2>1. tx[t]["claim"].conf \in Int /\ tx[t]["timeout"].conf \in Int
    BY DEF TypeOK, ChainsTypeOK, TxRecord, Depth, Tx, BtcTx, SeqTx
  <2>2. Seen(t, "claim") /\ Seen(t, "timeout")
    BY <2>1 DEF Seen, Mined
  <2>3. QED
    BY <2>2 DEF BackedInv, BackedAt, SweepInv, SweepAt
<1>2. QED
  BY <1>1, TypeCorrect, BackedInvariant, SweepInvariant, PTL
=============================================================================
