------------------------------- MODULE Wallet -------------------------------
(* The wallet a covenant transaction is funded from (select_funding and     *)
(* pignus/fees.py): which coins are picked, which asset pays a fee, what    *)
(* preparing explicit coins does to the wallet, and the change.             *)
EXTENDS Integers, FiniteSets, FiniteSetsExt, SequencesExt

CONSTANTS
    C, D, F,     \* the collateral asset, the debt asset, and another
    Rate,        \* Rate[a]: the node's exchange rate of a, 0 if it has none
    RateScale,
    FeeRef,      \* reference units the transaction's fee is worth
    DustRef,     \* reference units below which an output is dust
    PrepMin      \* PREP_MIN

Assets == {C, D, F}

(* Some of the assets, in the order the code meets them. *)
InOrder(some) ==
    LET one(a) == IF a \in some THEN <<a>> ELSE <<>>
    IN  one(C) \o one(D) \o one(F)

ASSUME WalletAssumption ==
    /\ Cardinality(Assets) = 3
    /\ Rate \in [Assets -> Nat]
    /\ {RateScale, FeeRef, DustRef, PrepMin} \subseteq Nat \ {0}

(* Atoms of an asset worth `ref` reference units, rounded up: fee_atoms and *)
(* dust_atoms.                                                              *)
AtomsOf(a, ref) == LET n == (ref * RateScale + Rate[a] - 1) \div Rate[a]
                   IN  IF n < 1 THEN 1 ELSE n

FeeAtoms(a) == AtomsOf(a, FeeRef)
DustAtoms(a) == AtomsOf(a, DustRef)
Priced == {a \in Assets : Rate[a] > 0}

(* Coins are [id, asset, amount, plain]; a plain coin is explicit, any      *)
(* other is blinded and no input of a covenant spend.                       *)
Amount(coins, a) == MapThenSumSet(LAMBDA c : c.amount,
                                  {c \in coins : c.asset = a})
Amounts(coins) == [a \in Assets |-> Amount(coins, a)]

Nothing == [a \in Assets |-> 0]

(* _need: requirements in one asset add up. *)
Need(pairs) ==
    [a \in Assets |-> MapThenSumSet(LAMBDA i : IF pairs[i][1] = a
                                               THEN pairs[i][2] ELSE 0,
                                    DOMAIN pairs)]

(* pick_fee: the first asset of the caller's order, then any, that covers   *)
(* the fee over what the flow itself spends.                                *)
CanPay(coins, committed) ==
    {a \in Priced : Amount(coins, a) - committed[a] >= FeeAtoms(a)}

PickFee(coins, committed, prefer) ==
    LET able == CanPay(coins, committed)
        liked == {i \in DOMAIN prefer : prefer[i] \in able}
    IN IF liked # {} THEN {prefer[Min(liked)]} ELSE able

-----------------------------------------------------------------------------
(* Selection (select_funding).  Within an asset the coins of exactly the    *)
(* right size come first, then the largest, until the need is covered.      *)
Prepared(n) == IF n < PrepMin THEN PrepMin ELSE n
Exact(c, n) == c.amount \in {n, Prepared(n)}

Before(c, d, n) ==
    IF Exact(c, n) # Exact(d, n) THEN Exact(c, n)
    ELSE IF ~Exact(c, n) /\ c.amount # d.amount THEN c.amount > d.amount
    ELSE c.id < d.id

(* The coins picked for n atoms of a, from the explicit coins not locked:   *)
(* listunspent reports no others.                                           *)
PickOf(coins, locked, a, n) ==
    LET pool == {c \in coins : c.asset = a /\ c.plain /\ c.id \notin locked}
        Ahead(c) == {d \in pool : Before(d, c, n)}
    IN {c \in pool : Amount(Ahead(c), a) < n}

Pick(coins, locked, want) ==
    UNION {PickOf(coins, locked, a, want[a]) : a \in Assets}

Short(chosen, want) == {a \in Assets : Amount(chosen, a) < want[a]}

(* What the wallet puts in a payment of its own: no coin too many.          *)
Covers(S, out) == \A a \in Assets : Amount(S, a) >= out[a]
Payments(coins, locked, out) ==
    {S \in SUBSET {c \in coins : c.id \notin locked /\ out[c.asset] > 0} :
       Covers(S, out) /\ \A c \in S : ~Covers(S \ {c}, out)}

LastId(coins) == Max({c.id : c \in coins} \cup {0})

(* One sendtoaddress of prepare_explicit: n atoms of a come back as one     *)
(* explicit coin, the change is blinded.                                    *)
PreparingSends(coins, locked, a, n, feeAsset) ==
    LET out == Need(<<<<a, Prepared(n)>>, <<feeAsset, FeeAtoms(feeAsset)>>>>)
        last == LastId(coins)
        left(S) == InOrder({b \in Assets : Amount(S, b) > out[b]})
    IN {(coins \ S)
          \cup {[id |-> last + i, asset |-> left(S)[i], plain |-> FALSE,
                 amount |-> Amount(S, left(S)[i]) - out[left(S)[i]]] :
                   i \in DOMAIN left(S)}
          \cup {[id |-> last + 4, asset |-> a, plain |-> TRUE,
                 amount |-> Prepared(n)]} :
          S \in Payments(coins, locked, out)}
=============================================================================
