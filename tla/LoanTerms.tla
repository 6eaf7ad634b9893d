----------------------------- MODULE LoanTerms -----------------------------
(* The arithmetic of a loan under a format-1 covenant: the terms that can   *)
(* be built (LoanTerms.__post_init__), what a seizure may take, and which   *)
(* attestations a spend presents.                                           *)
EXTENDS Integers, FiniteSets, FiniteSetsExt

CONSTANTS
    Limit,        \* 2^63: OP_ADD64 fails at this and above
    DefaultMax,   \* 2^40: the price DEFAULT is bounded by when none is named
    NoAtt         \* the oracle of a slot has said nothing

ASSUME LimitAssumption == Limit \in Nat \ {0} /\ DefaultMax \in Nat \ {0}

CeilDiv(n, d) == (n + d - 1) \div d

Larger(a, b) == IF a < b THEN b ELSE a

(* Debt plus the bonus: what a seizure must cover. *)
Gross(t) == CeilDiv(t.debt * t.bonus_num, t.bonus_den)

(* Mutant: the last atom rounded up twice. *)
SeizureAtPlus(t, price) == ((Gross(t) * t.price_scale) \div price) + 1

(* The collateral the covenant lets a liquidator keep at a price. *)
SeizureAt(t, price) == CeilDiv(Gross(t) * t.price_scale, price)

IsLiquidatable(t, price) == price < t.strike

(* The highest price the terms answer for. *)
PriceBound(t) ==
    Larger(IF t.max_price = 0 THEN DefaultMax ELSE t.max_price, t.strike)

ThresholdOf(t) ==
    IF t.oracle_threshold = 0 THEN Cardinality(t.oracles)
    ELSE t.oracle_threshold

Valid(t) ==
    /\ t.debt >= 1
    /\ t.strike \in 1..(Limit - 1)
    /\ t.bonus_den >= 1 /\ t.bonus_num >= t.bonus_den
    /\ t.price_scale >= 1
    /\ t.recover_after > t.maturity
    /\ Gross(t) * t.price_scale + PriceBound(t) < Limit
    /\ t.oracles # {}
    /\ ThresholdOf(t) \in 1..Cardinality(t.oracles)

-----------------------------------------------------------------------------
(* Attestations, as [price, scale, timestamp, signed]: signed stands for    *)
(* the signature and the feed, which one key signs together.                *)

Verifies(t, att) == att.signed /\ att.scale = t.price_scale

(* What _usable_attestation lets pass. *)
Usable(t, att) == att.scale = t.price_scale /\ att.price >= 1

Given(given) == {o \in DOMAIN given : given[o] # NoAtt}

MaxPrice(given, S) == Max({given[o].price : o \in S})

(* select_threshold: the slots of the threshold lowest attestations that    *)
(* count, {} if there are too few.  Of equal prices the earlier key is      *)
(* taken; which one makes no difference to the price.                       *)
Counting(t, given) ==
    {o \in Given(given) :
        Verifies(t, given[o]) /\ given[o].timestamp >= t.not_before}

(* Mutant: the highest of them, as if the covenant took the lowest. *)
SelectHighest(t, given) ==
    LET usable == Counting(t, given) IN
    IF Cardinality(usable) < ThresholdOf(t) THEN {}
    ELSE CHOOSE S \in kSubset(ThresholdOf(t), usable) :
           \A o \in S, p \in usable \ S : given[o].price >= given[p].price

SelectThreshold(t, given) ==
    LET usable == Counting(t, given) IN
    IF Cardinality(usable) < ThresholdOf(t) THEN {}
    ELSE CHOOSE S \in kSubset(ThresholdOf(t), usable) :
           \A o \in S, p \in usable \ S : given[o].price <= given[p].price

LiquidatableSlots(t, given) ==
    LET under == [o \in DOMAIN given |->
                    IF given[o] # NoAtt /\ IsLiquidatable(t, given[o].price)
                      THEN given[o] ELSE NoAtt]
    IN SelectThreshold(t, under)
=============================================================================
