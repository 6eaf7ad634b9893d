----------------------------- MODULE VaultSpend -----------------------------
(* Composing the transactions of a covenant loan (pignus/vault.py and the   *)
(* commands that call it): an offer is funded, taken or withdrawn, a vault  *)
(* is repaid, liquidated, called at default or recovered.  A spender        *)
(* chooses a fee asset, picks coins, prepares explicit ones if they are     *)
(* short, composes and broadcasts; other people spend the same coins.       *)
(* What the covenants and the node accept is modelled from what the code    *)
(* composes for them, and is external.                                      *)
EXTENDS LoanTerms, Wallet

CONSTANTS
    Candidates,   \* terms somebody may write down
    Wallets,      \* what the spender's wallet may hold at first
    Attestations, \* what an oracle may have said
    Overfund,     \* atoms another taker may lock beyond the terms
    Lots,         \* lots of an offer
    MaxHeight, MaxTries

VARIABLES
    terms, height,
    offer,     \* debt asset in the offer's coin, 0 if there is none
    held,      \* collateral in the vault's coin, 0 if there is none
    coins, locked,
    job,       \* what the spender is doing
    tx,        \* the transaction composed last
    tries      \* composed or given up

vars == <<terms, height, offer, held, coins, locked, job, tx, tries>>

Exits == {"fund", "take", "withdraw", "repay", "liquidate", "default",
          "recover"}
Seizures == {"liquidate", "default"}
Parties == {"lender", "borrower", "spender", "vault", "offer", "fee"}
None == [leaf |-> "none"]
Idle == [at |-> "idle"]

WalletCoin == [id : Nat, asset : Assets, amount : Nat, plain : BOOLEAN]
Attestation == [price : Nat, timestamp : Nat, scale : Nat, signed : BOOLEAN]

ASSUME SpendAssumption ==
    /\ \A t \in Candidates :
         /\ {t.debt, t.principal, t.collateral, t.strike, t.not_before,
             t.maturity, t.recover_after, t.expiry, t.bonus_num, t.bonus_den,
             t.price_scale, t.max_price, t.oracle_threshold} \subseteq Nat
         /\ IsFiniteSet(t.oracles)
    /\ \A some \in Wallets : IsFiniteSet(some) /\ some \subseteq WalletCoin
    /\ Attestations \subseteq Attestation /\ NoAtt \notin Attestations
    /\ Lots \in Nat \ {0} /\ Overfund \in Nat
    /\ MaxHeight \in Nat /\ MaxTries \in Nat

Init ==
    /\ terms \in {t \in Candidates : Valid(t)}
    /\ height = 0
    /\ offer = 0 /\ held = 0
    /\ coins \in Wallets
    /\ locked = {}
    /\ job = Idle /\ tx = None /\ tries = 0

-----------------------------------------------------------------------------
(* Outputs are [amt, to, asset]; the covenant reads the first two.          *)

Out(amt, to, asset) == [amt |-> amt, to |-> to, asset |-> asset]

(* Mutant: dust is paid out like any change. *)
ChangeUnfolded(have, need, feeAsset) ==
    [left |-> [a \in Assets |-> have[a] - need[a]], extra |-> 0]

(* _change, and _change_outs followed by _fold_dust: what is left of each   *)
(* asset, dust of the fee asset given to the producer.                      *)
Change(have, need, feeAsset) ==
    LET rest == [a \in Assets |-> have[a] - need[a]]
        dust == rest[feeAsset] \in 1..(DustAtoms(feeAsset) - 1)
    IN [left |-> IF dust THEN [rest EXCEPT ![feeAsset] = 0] ELSE rest,
        extra |-> IF dust THEN rest[feeAsset] ELSE 0]

(* The outputs that pay it back. *)
PaidBack(left) ==
    LET one(a) == IF left[a] > 0 THEN <<Out(left[a], "spender", a)>> ELSE <<>>
    IN  one(C) \o one(D) \o one(F)

(* What a transaction spends, and the evidence it presents. *)
Spent(leaf, coin, given, slots) ==
    [leaf |-> leaf, coin |-> coin, given |-> given, slots |-> slots]

(* _raw_tx: the fee output goes where it is named, or last. *)
Raw(spent, ins, outs, fee, feeAsset, locktime) ==
    LET marked == [i \in DOMAIN outs |->
                     IF outs[i].to = "fee" THEN Out(fee, "fee", feeAsset)
                     ELSE outs[i]]
        named == \E i \in DOMAIN outs : outs[i].to = "fee"
    IN [leaf |-> spent.leaf, coin |-> spent.coin, given |-> spent.given,
        slots |-> spent.slots, ins |-> ins, feeAsset |-> feeAsset,
        locktime |-> locktime,
        outs |-> IF named THEN marked
                 ELSE Append(marked, Out(fee, "fee", feeAsset))]

FeeMark == Out(0, "fee", F)

(* Mutant: the fee output, whatever it is paid in. *)
FillerIsFee(asset, feeAsset, left) == [out |-> <<FeeMark>>, left |-> left]

(* What must sit at output 1 when nothing may be returned there: the fee,   *)
(* or change in another asset than the one the leaf looks for, which is     *)
(* taken out of the change; <<>> if there is neither.                       *)
Filler(asset, feeAsset, left) ==
    LET others == PaidBack([left EXCEPT ![asset] = 0])
    IN  IF feeAsset # asset THEN [out |-> <<FeeMark>>, left |-> left]
        ELSE IF others = <<>> THEN [out |-> <<>>, left |-> left]
        ELSE [out |-> <<others[1]>>, left |-> [left EXCEPT ![others[1].asset] = 0]]

Refused(why) == [ok |-> FALSE, why |-> why]
Composed(outs) == [ok |-> TRUE, outs |-> outs]

Repay(t, coin, left) ==
    Composed(<<Out(t.debt, "lender", D), Out(coin, "borrower", C)>> \o PaidBack(left))

Recover(coin, left) == Composed(<<Out(coin, "lender", C)>> \o PaidBack(left))

(* _seizure, at the price the slots make.  In the collateral asset's fee    *)
(* the borrower's return is lifted over the dust threshold.                 *)
Seizure(t, coin, price, feeAsset, left) ==
    LET seize == SeizureAt(t, price)
        surplus == coin - seize
        dust == IF feeAsset = C THEN DustAtoms(C) ELSE 0
        lifted == Larger(surplus, dust)
        filler == Filler(C, feeAsset, left)
        credit == Out(t.debt, "lender", D)
    IN CASE surplus > 0 /\ (seize < dust \/ coin - lifted < dust) ->
              Refused("dust")
         [] surplus > 0 /\ ~(seize < dust \/ coin - lifted < dust) ->
              Composed(<<credit, Out(lifted, "borrower", C),
                         Out(coin - lifted, "spender", C)>> \o PaidBack(left))
         [] surplus <= 0 /\ filler.out = <<>> -> Refused("filler")
         [] OTHER ->
              Composed(<<credit>> \o filler.out \o <<Out(coin, "spender", C)>>
                       \o PaidBack(filler.left))

(* take_offer: the vault, the remainder or something that is not the debt   *)
(* asset, the principal.                                                    *)
Take(t, coin, feeAsset, left) ==
    LET remainder == coin - t.principal
        filler == IF remainder > 0
                  THEN [out |-> <<Out(remainder, "offer", D)>>, left |-> left]
                  ELSE Filler(D, feeAsset, left)
    IN CASE remainder < 0 -> Refused("drawn")
         [] remainder >= 0 /\ filler.out = <<>> -> Refused("filler")
         [] OTHER ->
              Composed(<<Out(t.collateral, "vault", C)>> \o filler.out
                       \o <<Out(t.principal, "borrower", D)>>
                       \o PaidBack(filler.left))

Withdraw(coin, left) == Composed(<<Out(coin, "lender", D)>> \o PaidBack(left))

FundOffer(t, left) ==
    Composed(<<Out(t.principal * Lots, "offer", D)>> \o PaidBack(left))

-----------------------------------------------------------------------------
(* A spender: the fee asset, the coins, the transaction, the broadcast.     *)

Spends(t, exit) ==
    CASE exit = "fund" -> <<<<D, t.principal * Lots>>>>
      [] exit = "take" -> <<<<C, t.collateral>>>>
      [] exit \in {"withdraw", "recover"} -> <<>>
      [] OTHER -> <<<<D, t.debt>>>>

LockTime(t, exit) ==
    CASE exit = "default" -> t.maturity
      [] exit = "recover" -> t.recover_after
      [] exit = "withdraw" -> t.expiry
      [] OTHER -> 0

CoinOf(exit) ==
    CASE exit = "fund" -> 0
      [] exit \in {"take", "withdraw"} -> offer
      [] OTHER -> held

Unspent(exit) ==
    CASE exit = "fund" -> offer = 0 /\ held = 0
      [] exit = "take" -> offer > 0 /\ held = 0        \* one vault at a time
      [] OTHER -> CoinOf(exit) > 0

(* choose_fee: the asset the user names, or the one pick_fee finds, the     *)
(* debt asset first.  A locktime is waited for before coins are moved.      *)
ChooseFee(exit) ==
    /\ job = Idle /\ tries < MaxTries
    /\ Unspent(exit) /\ height >= LockTime(terms, exit)
    /\ \E a \in Priced \cup PickFee(coins, Need(Spends(terms, exit)), <<D>>) :
         job' = [at |-> "pick", exit |-> exit, fee |-> a, coin |-> CoinOf(exit),
                 need |-> Need(Spends(terms, exit) \o <<<<a, FeeAtoms(a)>>>>)]
    /\ tx' = None
    /\ UNCHANGED <<terms, height, offer, held, coins, locked, tries>>

(* No transaction; what the wallet has become stays. *)
GiveUp(why, given) ==
    /\ job' = Idle /\ locked' = {} /\ tries' = tries + 1
    /\ tx' = [leaf |-> "refused", why |-> why, given |-> given, job |-> job]

ToCompose(chosen) ==
    job' = [at |-> "compose", exit |-> job.exit, fee |-> job.fee,
            coin |-> job.coin, need |-> job.need, chosen |-> chosen]

(* select_funding up to the preparing sends.  They pay in the flow's own    *)
(* fee asset if the wallet has it, then in one that is not short; coins     *)
(* picked for the other assets are locked against them.                     *)
ToLock(chosen, short, prep) ==
    {c.id : c \in {x \in chosen : x.asset \notin short \cup {prep}}}

(* Mutant: what is missing is prepared, not all of it. *)
Missing(chosen, short, need) ==
    [a \in short |-> need[a] - Amount(chosen, a)]
Full(chosen, short, need) == [a \in short |-> need[a]]

Select ==
    LET chosen == Pick(coins, locked, job.need)
        short == Short(chosen, job.need)
        covered == {a \in Assets \ short : job.need[a] > 0}
        able == PickFee(coins, Nothing, <<job.fee>> \o InOrder(covered))
    IN /\ job.at = "pick"
       /\ \/ /\ short = {}
             /\ ToCompose(chosen)
             /\ UNCHANGED <<locked, tx, tries>>
          \/ /\ short # {}
             /\ \E prep \in able :
                  /\ job' = [at |-> "prepare", exit |-> job.exit,
                             fee |-> job.fee, coin |-> job.coin,
                             need |-> job.need, prep |-> prep,
                             full |-> Full(chosen, short, job.need)]
                  /\ locked' = ToLock(chosen, short, prep)
             /\ UNCHANGED <<tx, tries>>
          \/ /\ short # {} /\ able = {}
             /\ GiveUp("fee", <<>>)
       /\ UNCHANGED <<terms, height, offer, held, coins>>

(* One preparing send, of the full amount; the locks go whether or not the  *)
(* wallet can make it.                                                      *)
Prepare(a) ==
    /\ job.at = "prepare" /\ a \in DOMAIN job.full
    /\ LET sends == PreparingSends(coins, locked, a, job.full[a], job.prep) IN
         \/ /\ coins' \in sends
            /\ job' = [job EXCEPT !.full = Restrict(@, DOMAIN @ \ {a})]
            /\ UNCHANGED <<locked, tx, tries>>
         \/ /\ sends = {}
            /\ GiveUp("send", <<>>)
            /\ UNCHANGED coins
    /\ UNCHANGED <<terms, height, offer, held>>

Reselect ==
    LET chosen == Pick(coins, {}, job.need) IN
    /\ job.at = "prepare" /\ DOMAIN job.full = {}
    /\ \/ /\ Short(chosen, job.need) = {}
          /\ ToCompose(chosen)
          /\ locked' = {}
          /\ UNCHANGED <<tx, tries>>
       \/ /\ Short(chosen, job.need) # {}
          /\ GiveUp("short", <<>>)
    /\ UNCHANGED <<terms, height, offer, held, coins>>

(* What _oracle_evidence makes of the caller's attestations: the slots, or  *)
(* {}.  One it cannot use refuses them all.                                 *)
OracleEvidence(t, exit, given) ==
    IF \E o \in Given(given) : ~Usable(t, given[o]) THEN {}
    ELSE IF exit = "liquidate" THEN LiquidatableSlots(t, given)
    ELSE SelectThreshold(t, given)

Outputs(exit, given, slots, left) ==
    CASE exit = "fund" -> FundOffer(terms, left)
      [] exit = "take" -> Take(terms, job.coin, job.fee, left)
      [] exit = "withdraw" -> Withdraw(job.coin, left)
      [] exit = "repay" -> Repay(terms, job.coin, left)
      [] exit = "recover" -> Recover(job.coin, left)
      [] OTHER -> IF slots = {} THEN Refused("evidence")
                  ELSE Seizure(terms, job.coin, MaxPrice(given, slots),
                               job.fee, left)

CovenantAsset(exit) == IF exit \in {"take", "withdraw"} THEN D ELSE C

(* The spend of the coin that was found.  A vault's is looked up once more  *)
(* (_check_vault), an offer's is not.                                       *)
Checked(exit) ==
    exit \in {"repay", "recover"} \cup Seizures => held = job.coin

Compose(given) ==
    LET exit == job.exit
        slots == IF exit \in Seizures
                   THEN OracleEvidence(terms, exit, given) ELSE {}
        change == Change(Amounts(job.chosen), job.need, job.fee)
        made == IF Checked(exit) THEN Outputs(exit, given, slots, change.left)
                ELSE Refused("spent")
        ins == [a \in Assets |-> Amount(job.chosen, a)
                  + IF a = CovenantAsset(exit) THEN job.coin ELSE 0]
        raw == Raw(Spent(exit, job.coin, given, slots), ins, made.outs,
                   FeeAtoms(job.fee) + change.extra, job.fee,
                   LockTime(terms, exit))
    IN /\ job.at = "compose"
       /\ \/ /\ made.ok
             /\ tx' = raw
             /\ job' = [job EXCEPT !.at = "send"]
             /\ UNCHANGED <<locked, tries>>
          \/ /\ ~made.ok
             /\ GiveUp(made.why, given)
       /\ UNCHANGED <<terms, height, offer, held, coins>>

(* build_origination, the library's other way to a vault: the two parties   *)
(* bring the collateral, the principal and the fee.                         *)
Originate(spare, feeAsset) ==
    LET fee == FeeAtoms(feeAsset)
        left(n, to, a) == IF spare[n] > 0 THEN <<Out(spare[n], to, a)>> ELSE <<>>
    IN /\ job = Idle /\ tries < MaxTries /\ Unspent("fund")
       /\ tx' = Raw(Spent("originate", 0, <<>>, {}),
                    Need(<<<<C, terms.collateral + spare[1]>>,
                           <<D, terms.principal + spare[2]>>,
                           <<feeAsset, fee + spare[3]>>>>),
                    <<Out(terms.collateral, "vault", C),
                      Out(terms.principal, "borrower", D)>>
                      \o left(1, "borrower", C) \o left(2, "lender", D)
                      \o left(3, "lender", feeAsset),
                    fee, feeAsset, 0)
       /\ held' = terms.collateral
       /\ tries' = tries + 1
       /\ UNCHANGED <<terms, height, offer, coins, locked, job>>

-----------------------------------------------------------------------------
(* What the covenants read (external): the first two outputs, the lock      *)
(* time, the slots.                                                         *)

Pays(o, to, asset, amt) == o.to = to /\ o.asset = asset /\ o.amt >= amt

(* An output of the asset is taken for a return and must be one; without    *)
(* one nothing may be due.                                                  *)
Returns(o, to, asset, due) ==
    IF o.asset = asset THEN o.to = to /\ o.amt >= due ELSE due <= 0

SlotsOpen(x, t) ==
    /\ Cardinality(x.slots) = ThresholdOf(t)
    /\ \A o \in x.slots :
         /\ x.given[o].signed
         /\ x.given[o].timestamp >= t.not_before
         /\ x.leaf = "liquidate" => x.given[o].price < t.strike

(* OP_ADD64 on gross * price_scale and price - 1. *)
Overflows(t, price) == Gross(t) * t.price_scale + price - 1 >= Limit

SeizureOpens(x, t) ==
    LET price == Max({x.given[o].price : o \in x.slots})
        numerator == CeilDiv(t.debt * t.bonus_num, t.bonus_den) * t.price_scale
    IN /\ SlotsOpen(x, t)
       /\ ~Overflows(t, price)
       /\ Pays(x.outs[1], "lender", D, t.debt)
       /\ Returns(x.outs[2], "borrower", C,
                  x.coin - (numerator + price - 1) \div price)

LeafOpens(x, t) ==
    CASE x.leaf = "take" ->
           /\ Pays(x.outs[1], "vault", C, t.collateral)
           /\ Returns(x.outs[2], "offer", D, x.coin - t.principal)
      [] x.leaf = "withdraw" -> Pays(x.outs[1], "lender", D, x.coin)
      [] x.leaf = "repay" -> /\ Pays(x.outs[1], "lender", D, t.debt)
                             /\ Returns(x.outs[2], "borrower", C, x.coin)
      [] x.leaf = "recover" -> Pays(x.outs[1], "lender", C, x.coin)
      [] x.leaf \in Seizures -> SeizureOpens(x, t)
      [] OTHER -> TRUE

(* The node: every asset in is an asset out, and no output of the fee asset *)
(* is dust.                                                                 *)
OutOf(x, a) == MapThenSumSet(LAMBDA i : IF x.outs[i].asset = a
                                        THEN x.outs[i].amt ELSE 0,
                             DOMAIN x.outs)
InBalance(x) == \A a \in Assets : x.ins[a] = OutOf(x, a)

NoDust(x) ==
    \A i \in DOMAIN x.outs :
      x.outs[i].asset = x.feeAsset /\ x.outs[i].to # "fee"
        => x.outs[i].amt >= DustAtoms(x.feeAsset)

MadeOf(x, to, asset) ==
    MapThenSumSet(LAMBDA i : IF x.outs[i].to = to /\ x.outs[i].asset = asset
                             THEN x.outs[i].amt ELSE 0,
                  DOMAIN x.outs)

(* What the spender is paid is theirs to spend, explicitly. *)
Receipts(x) ==
    {[id |-> LastId(coins) + i, asset |-> x.outs[i].asset,
      amount |-> x.outs[i].amt, plain |-> TRUE] :
        i \in {j \in DOMAIN x.outs : x.outs[j].to = "spender"}}

Broadcast ==
    LET valid == /\ Unspent(job.exit) /\ CoinOf(job.exit) = tx.coin
                 /\ LeafOpens(tx, terms) /\ InBalance(tx) /\ NoDust(tx)
    IN /\ job.at = "send"
       /\ \/ /\ valid
             /\ offer' = IF job.exit \in {"fund", "take", "withdraw"}
                          THEN MadeOf(tx, "offer", D) ELSE offer
             /\ held' = IF job.exit \in {"fund", "withdraw"} THEN held
                        ELSE MadeOf(tx, "vault", C)
             /\ coins' = (coins \ job.chosen) \cup Receipts(tx)
          \/ ~valid /\ UNCHANGED <<offer, held, coins>>
       /\ job' = Idle /\ tries' = tries + 1
       /\ UNCHANGED <<terms, height, locked, tx>>

(* Others: a taker, who may lock more than the terms say, and somebody who  *)
(* closes the vault first.                                                  *)
OtherTake(extra) ==
    /\ offer >= terms.principal /\ held = 0
    /\ offer' = offer - terms.principal
    /\ held' = terms.collateral + extra
    /\ UNCHANGED <<terms, height, coins, locked, job, tx, tries>>

OtherExit ==
    /\ held > 0
    /\ held' = 0
    /\ UNCHANGED <<terms, height, offer, coins, locked, job, tx, tries>>

Tick ==
    /\ height < MaxHeight
    /\ height' = height + 1
    /\ UNCHANGED <<terms, offer, held, coins, locked, job, tx, tries>>

Evidence == [terms.oracles -> Attestations \cup {NoAtt}]

Next ==
    \/ \E exit \in Exits : ChooseFee(exit)
    \/ Select
    \/ \E a \in Assets : Prepare(a)
    \/ Reselect
    \/ \E given \in IF job.at = "compose" /\ job.exit \in Seizures
                      THEN Evidence ELSE {<<>>} : Compose(given)
    \/ Broadcast
    \/ \E spare \in [1..3 -> 0..1], a \in Priced : Originate(spare, a)
    \/ \E extra \in 0..Overfund : OtherTake(extra)
    \/ OtherExit
    \/ Tick

Spec == Init /\ [][Next]_vars

-----------------------------------------------------------------------------
(* Properties. *)

Made == tx.leaf \in Exits \cup {"originate"}
GaveUp(why) == tx.leaf = "refused" /\ tx.why = why

(* "Fails to build if the evidence does not actually open the leaf"         *)
(* (liquidate): what is composed is what its covenant accepts, whatever the *)
(* fee is paid in.  A price over the bound of the terms is excepted: the    *)
(* composer does not look at it.                                            *)
OpensItsLeaf ==
    Made => \/ LeafOpens(tx, terms)
            \/ /\ tx.leaf = "default"
               /\ MaxPrice(tx.given, tx.slots) > PriceBound(terms)

(* What is composed the node takes: it balances, also when the fee, the     *)
(* debt and the collateral share an asset (_need, _change), it has no empty *)
(* output, and none of the fee asset is dust: not the change, not the       *)
(* borrower's return, not the seizure.                                      *)
NodeAccepts ==
    Made => /\ InBalance(tx)
            /\ \A i \in DOMAIN tx.outs : tx.outs[i].amt >= 1
            /\ tx.leaf \in Exits => NoDust(tx)

(* A seizure is worth the debt and the bonus, and less than an atom of      *)
(* collateral more, at the price the covenant uses (design 2.3).            *)
SeizedIsGross ==
    tx.leaf \in Seizures =>
      LET price == MaxPrice(tx.given, tx.slots)
          kept == tx.coin - MadeOf(tx, "borrower", C)
      IN (kept - 1) * price < Gross(terms) * terms.price_scale

(* The slots presented make the lowest price any choice would, and a        *)
(* seizure is refused only when no choice opens it or an attestation is     *)
(* unusable (select_threshold).                                             *)
OpenSets(exit, given) ==
    {S \in kSubset(ThresholdOf(terms), Given(given)) :
       /\ SlotsOpen([leaf |-> exit, given |-> given, slots |-> S], terms)
       /\ \A o \in S : Usable(terms, given[o])}

EvidenceAtItsBest ==
    /\ tx.leaf \in Seizures =>
         \A S \in OpenSets(tx.leaf, tx.given) :
           MaxPrice(tx.given, tx.slots) <= MaxPrice(tx.given, S)
    /\ GaveUp("evidence") =>
         \/ OpenSets(tx.job.exit, tx.given) = {}
         \/ \E o \in Given(tx.given) : ~Usable(terms, tx.given[o])

(* The preparing sends leave nothing short but the asset they paid their    *)
(* own fee in: each makes the full amount, so it does not matter which      *)
(* coins it took (select_funding).                                          *)
OnlyFeeCoinsRunShort ==
    GaveUp("short") =>
      Short(Pick(coins, {}, tx.job.need), tx.job.need) \subseteq {tx.job.prep}

(* "The re-pick below is what recovers from a send that swallowed one" of   *)
(* the coins of the fee asset: a wallet with plenty of every asset is not   *)
(* refused for being short.  It is: the change of the send is blinded.      *)
PlentyIsFunded ==
    GaveUp("short") =>
      \E a \in Assets : Amount(coins, a) < tx.job.need[a] + FeeAtoms(a)
=============================================================================
