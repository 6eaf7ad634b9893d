-------------------------- MODULE VaultSpendProofs --------------------------
(* What a spender composes opens its leaf, balances, is taken by the node,  *)
(* and is paid for, for every set of terms that can be written down, every  *)
(* wallet of finitely many coins, every price and rate, and every number of *)
(* lots.  Sums are tallies: of weights over the places of a sequence of     *)
(* outputs or requirements, and of amounts over a set of coins.             *)
EXTENDS VaultSpend, NumberTheorems, FiniteSetTheorems, SequenceTheorems, TLAPS

-----------------------------------------------------------------------------
(* The constants.                                                          *)

(* The three assets are distinct.                                          *)
LEMMA AssetsDiffer == C # D /\ D # F /\ C # F
<1>1. Cardinality(Assets) = 3
  BY WalletAssumption
<1>2. \A a, b : Cardinality({a, b}) <= 2
  <2> TAKE a, b
  <2>1. IsFiniteSet({b}) /\ Cardinality({b}) = 1
    BY FS_Singleton
  <2>2. Cardinality({b} \cup {a}) <= 2
    BY <2>1, FS_AddElement
  <2>3. {b} \cup {a} = {a, b}
    OBVIOUS
  <2> QED
    BY <2>2, <2>3
<1>4. CASE C = D
  <2>1. Assets = {D, F}
    BY <1>4 DEF Assets
  <2>2. Cardinality({D, F}) <= 2
    BY <1>2
  <2> QED
    BY <1>1, <2>1, <2>2
<1>5. CASE D = F
  <2>1. Assets = {C, D}
    BY <1>5 DEF Assets
  <2>2. Cardinality({C, D}) <= 2
    BY <1>2
  <2> QED
    BY <1>1, <2>1, <2>2
<1>6. CASE C = F
  <2>1. Assets = {C, D}
    BY <1>6 DEF Assets
  <2>2. Cardinality({C, D}) <= 2
    BY <1>2
  <2> QED
    BY <1>1, <2>1, <2>2
<1> QED
  BY <1>4, <1>5, <1>6

(* An asset that pays fees has a fee and a dust threshold of an atom or    *)
(* more.                                                                   *)
LEMMA AtomsType ==
  ASSUME NEW a \in Priced
  PROVE  /\ a \in Assets
         /\ FeeAtoms(a) \in Nat /\ FeeAtoms(a) >= 1
         /\ DustAtoms(a) \in Nat /\ DustAtoms(a) >= 1
<1>1. a \in Assets /\ Rate[a] \in Nat /\ Rate[a] > 0
  BY WalletAssumption DEF Priced
<1>2. ASSUME NEW ref \in Nat PROVE AtomsOf(a, ref) \in Nat /\ AtomsOf(a, ref) >= 1
  <2> DEFINE n == (ref * RateScale + Rate[a] - 1) \div Rate[a]
  <2>1. n \in Int
    <3>1. RateScale \in Nat
      BY WalletAssumption
    <3>2. ref * RateScale \in Nat
      BY <3>1
    <3> QED
      BY <1>1, <3>2
  <2> HIDE DEF n
  <2>2. AtomsOf(a, ref) = IF n < 1 THEN 1 ELSE n
    BY DEF AtomsOf, n
  <2> QED
    BY <2>1, <2>2
<1>3. FeeRef \in Nat /\ DustRef \in Nat
  BY WalletAssumption
<1> QED
  BY <1>1, <1>2, <1>3 DEF FeeAtoms, DustAtoms

(* A preparing send makes at least what is asked for.                      *)
LEMMA PreparedType ==
  ASSUME NEW n \in Nat
  PROVE  Prepared(n) \in Nat /\ Prepared(n) >= n /\ Prepared(n) >= 1
BY WalletAssumption DEF Prepared

-----------------------------------------------------------------------------
(* The sums of the model.                                                  *)

(* What a wallet holds of an asset, as a sum.                              *)
LEMMA AmountIs ==
  ASSUME NEW some, NEW a, IsFiniteSet(some)
  PROVE  Amount(some, a) = SumOf([c \in {c \in some : c.asset = a} |-> c.amount],
                                 {c \in some : c.asset = a})
<1> DEFINE S == {c \in some : c.asset = a}
           f == [c \in S |-> c.amount]
           Sums(it) == it = [s \in SUBSET S |->
                               IF s = {} THEN 0
                               ELSE (CHOOSE e \in s : TRUE).amount
                                      + it[s \ {CHOOSE e \in s : TRUE}]]
<1>0. IsFiniteSet(S)
  BY FS_Subset
<1> HIDE DEF S
<1>1. \A it : Sums(it) <=> IsSum(it, f, S)
  <2>1. ASSUME NEW it
        PROVE  [s \in SUBSET S |-> IF s = {} THEN 0
                                   ELSE (CHOOSE e \in s : TRUE).amount
                                          + it[s \ {CHOOSE e \in s : TRUE}]]
                 = [s \in SUBSET S |-> IF s = {} THEN 0
                                       ELSE f[CHOOSE e \in s : TRUE]
                                              + it[s \ {CHOOSE e \in s : TRUE}]]
    <3>1. \A s \in SUBSET S : s # {} => f[CHOOSE e \in s : TRUE] = (CHOOSE e \in s : TRUE).amount
      OBVIOUS
    <3> HIDE DEF f
    <3> QED
      BY <3>1
  <2> QED
    BY <2>1 DEF IsSum
<1>2. (CHOOSE it : Sums(it)) = (CHOOSE it : IsSum(it, f, S))
  <2> HIDE DEF Sums
  <2> QED
    BY <1>1
<1>3. Amount(some, a) = (CHOOSE it : Sums(it))[S]
  BY DEF Amount, MapThenSumSet, MapThenFoldSet, S
<1> QED
  BY <1>2, <1>3 DEF SumOf, S

(* A wallet: finitely many coins.                                          *)
IsWallet(some) == IsFiniteSet(some) /\ some \subseteq WalletCoin

(* A wallet holds a number of atoms of each asset.                         *)
LEMMA AmountType ==
  ASSUME NEW some, IsWallet(some), NEW a
  PROVE  Amount(some, a) \in Nat
<1> DEFINE S == {c \in some : c.asset = a}
           f == [c \in S |-> c.amount]
<1>1. IsFiniteSet(S) /\ IsFiniteSet(some)
  BY FS_Subset DEF IsWallet
<1>2. \A c \in S : f[c] \in Nat
  BY DEF IsWallet, WalletCoin
<1>3. Amount(some, a) = SumOf(f, S)
  BY <1>1, AmountIs
<1> HIDE DEF f, S
<1> QED
  BY <1>1, <1>2, <1>3, SumIsNat

(* Some of the coins hold no more than all of them.                        *)
LEMMA AmountGrows ==
  ASSUME NEW some, IsWallet(some), NEW part \in SUBSET some, NEW a
  PROVE  IsWallet(part) /\ Amount(part, a) <= Amount(some, a)
<1> DEFINE S == {c \in some : c.asset = a}
           f == [c \in S |-> c.amount]
           T == {c \in part : c.asset = a}
           g == [c \in T |-> c.amount]
<1>1. IsFiniteSet(S) /\ IsFiniteSet(T) /\ IsFiniteSet(some) /\ IsFiniteSet(part)
  BY FS_Subset DEF IsWallet
<1>2. \A c \in S : f[c] \in Nat
  BY DEF IsWallet, WalletCoin
<1>3. T \in SUBSET S /\ \A c \in T : g[c] \in Int /\ f[c] = g[c]
  BY <1>2
<1>4. Amount(some, a) = SumOf(f, S)
  BY <1>1, AmountIs
<1>5. Amount(part, a) = SumOf(g, T)
  BY <1>1, AmountIs
<1>6. IsWallet(part)
  BY <1>1 DEF IsWallet
<1> HIDE DEF f, g, S, T
<1>7. SumOf(f, T) <= SumOf(f, S)
  BY ONLY <1>1, <1>2, <1>3, SumGrows
<1>8. SumOf(f, T) = SumOf(g, T)
  BY ONLY <1>1, <1>3, SumSame
<1> QED
  BY <1>4, <1>5, <1>6, <1>7, <1>8

(* A wallet holds what any of its coins does.                              *)
LEMMA AmountHas ==
  ASSUME NEW some, IsWallet(some), NEW c \in some
  PROVE  c.amount <= Amount(some, c.asset) /\ c.amount \in Nat
<1> DEFINE S == {d \in some : d.asset = c.asset}
           f == [d \in S |-> d.amount]
<1>1. IsFiniteSet(S) /\ IsFiniteSet(some)
  BY FS_Subset DEF IsWallet
<1>2. c \in S /\ \A d \in S : f[d] \in Nat
  BY DEF IsWallet, WalletCoin
<1>3. Amount(some, c.asset) = SumOf(f, S)
  BY <1>1, AmountIs
<1>4. f[c] = c.amount
  BY <1>2
<1> HIDE DEF f, S
<1>5. f[c] <= SumOf(f, S)
  BY ONLY <1>1, <1>2, SumHasEach
<1> QED
  BY <1>2, <1>3, <1>4, <1>5

(* Only the coins of an asset count for it.                                *)
LEMMA AmountOfAsset ==
  ASSUME NEW some, NEW other, NEW a, IsFiniteSet(some), IsFiniteSet(other),
         {c \in some : c.asset = a} = {c \in other : c.asset = a}
  PROVE  Amount(some, a) = Amount(other, a)
BY AmountIs

(* What requirements name of an asset, and what outputs hold of one.       *)
Pair == Assets \X Nat
Named(a) == [p \in Pair |-> IF p[1] = a THEN p[2] ELSE 0]

Output == [amt : Nat, to : Parties, asset : Assets]
OfAsset(a) == [o \in Output |-> IF o.asset = a THEN o.amt ELSE 0]
OfParty(to, a) == [o \in Output |-> IF o.to = to /\ o.asset = a THEN o.amt ELSE 0]

(* Requirements, as a sum over the pairs.                                  *)
LEMMA NeedSums ==
  ASSUME NEW pairs, NEW a \in Assets
  PROVE  Need(pairs)[a] = SumOf([i \in DOMAIN pairs |-> IF pairs[i][1] = a THEN pairs[i][2] ELSE 0], DOMAIN pairs)
<1> DEFINE S == DOMAIN pairs
           f == [i \in DOMAIN pairs |-> IF pairs[i][1] = a THEN pairs[i][2] ELSE 0]
           Sums(it) == it = [s \in SUBSET S |->
                               IF s = {} THEN 0
                               ELSE (IF pairs[(CHOOSE e \in s : TRUE)][1] = a THEN pairs[(CHOOSE e \in s : TRUE)][2] ELSE 0)
                                      + it[s \ {CHOOSE e \in s : TRUE}]]
<1> HIDE DEF S
<1>1. \A it : Sums(it) <=> IsSum(it, f, S)
  <2> TAKE it
  <2> DEFINE A == [s \in SUBSET S |-> IF s = {} THEN 0
                                   ELSE (IF pairs[(CHOOSE e \in s : TRUE)][1] = a THEN pairs[(CHOOSE e \in s : TRUE)][2] ELSE 0)
                                          + it[s \ {CHOOSE e \in s : TRUE}]]
             B == [s \in SUBSET S |-> IF s = {} THEN 0
                                   ELSE f[CHOOSE e \in s : TRUE]
                                          + it[s \ {CHOOSE e \in s : TRUE}]]
  <2>1. A = B
    <3>1. \A s \in SUBSET S : s # {} => f[CHOOSE e \in s : TRUE] = (IF pairs[(CHOOSE e \in s : TRUE)][1] = a THEN pairs[(CHOOSE e \in s : TRUE)][2] ELSE 0)
      BY DEF S
    <3> HIDE DEF f
    <3> QED
      BY <3>1
  <2>2. Sums(it) <=> it = A
    OBVIOUS
  <2>3. IsSum(it, f, S) <=> it = B
    <3> HIDE DEF f
    <3> QED
      BY DEF IsSum
  <2> HIDE DEF A, B, Sums
  <2> QED
    BY <2>1, <2>2, <2>3
<1>2. (CHOOSE it : Sums(it)) = (CHOOSE it : IsSum(it, f, S))
  <2> HIDE DEF Sums
  <2> QED
    BY <1>1
<1>3. Need(pairs)[a] = (CHOOSE it : Sums(it))[S]
  BY DEF Need, MapThenSumSet, MapThenFoldSet, S
<1> QED
  BY <1>2, <1>3 DEF SumOf, S

(* What goes out in an asset, as a sum over the outputs.                   *)
LEMMA OutSums ==
  ASSUME NEW x, NEW a
  PROVE  OutOf(x, a) = SumOf([i \in DOMAIN x.outs |-> IF x.outs[i].asset = a THEN x.outs[i].amt ELSE 0], DOMAIN x.outs)
<1> DEFINE S == DOMAIN x.outs
           f == [i \in DOMAIN x.outs |-> IF x.outs[i].asset = a THEN x.outs[i].amt ELSE 0]
           Sums(it) == it = [s \in SUBSET S |->
                               IF s = {} THEN 0
                               ELSE (IF x.outs[(CHOOSE e \in s : TRUE)].asset = a THEN x.outs[(CHOOSE e \in s : TRUE)].amt ELSE 0)
                                      + it[s \ {CHOOSE e \in s : TRUE}]]
<1> HIDE DEF S
<1>1. \A it : Sums(it) <=> IsSum(it, f, S)
  <2> TAKE it
  <2> DEFINE A == [s \in SUBSET S |-> IF s = {} THEN 0
                                   ELSE (IF x.outs[(CHOOSE e \in s : TRUE)].asset = a THEN x.outs[(CHOOSE e \in s : TRUE)].amt ELSE 0)
                                          + it[s \ {CHOOSE e \in s : TRUE}]]
             B == [s \in SUBSET S |-> IF s = {} THEN 0
                                   ELSE f[CHOOSE e \in s : TRUE]
                                          + it[s \ {CHOOSE e \in s : TRUE}]]
  <2>1. A = B
    <3>1. \A s \in SUBSET S : s # {} => f[CHOOSE e \in s : TRUE] = (IF x.outs[(CHOOSE e \in s : TRUE)].asset = a THEN x.outs[(CHOOSE e \in s : TRUE)].amt ELSE 0)
      BY DEF S
    <3> HIDE DEF f
    <3> QED
      BY <3>1
  <2>2. Sums(it) <=> it = A
    OBVIOUS
  <2>3. IsSum(it, f, S) <=> it = B
    <3> HIDE DEF f
    <3> QED
      BY DEF IsSum
  <2> HIDE DEF A, B, Sums
  <2> QED
    BY <2>1, <2>2, <2>3
<1>2. (CHOOSE it : Sums(it)) = (CHOOSE it : IsSum(it, f, S))
  <2> HIDE DEF Sums
  <2> QED
    BY <1>1
<1>3. OutOf(x, a) = (CHOOSE it : Sums(it))[S]
  BY DEF OutOf, MapThenSumSet, MapThenFoldSet, S
<1> QED
  BY <1>2, <1>3 DEF SumOf, S

(* What a party is paid in an asset, as a sum over the outputs.            *)
LEMMA MadeSums ==
  ASSUME NEW x, NEW to, NEW a
  PROVE  MadeOf(x, to, a) = SumOf([i \in DOMAIN x.outs |-> IF x.outs[i].to = to /\ x.outs[i].asset = a THEN x.outs[i].amt ELSE 0], DOMAIN x.outs)
<1> DEFINE S == DOMAIN x.outs
           f == [i \in DOMAIN x.outs |-> IF x.outs[i].to = to /\ x.outs[i].asset = a THEN x.outs[i].amt ELSE 0]
           Sums(it) == it = [s \in SUBSET S |->
                               IF s = {} THEN 0
                               ELSE (IF x.outs[(CHOOSE e \in s : TRUE)].to = to /\ x.outs[(CHOOSE e \in s : TRUE)].asset = a THEN x.outs[(CHOOSE e \in s : TRUE)].amt ELSE 0)
                                      + it[s \ {CHOOSE e \in s : TRUE}]]
<1> HIDE DEF S
<1>1. \A it : Sums(it) <=> IsSum(it, f, S)
  <2> TAKE it
  <2> DEFINE A == [s \in SUBSET S |-> IF s = {} THEN 0
                                   ELSE (IF x.outs[(CHOOSE e \in s : TRUE)].to = to /\ x.outs[(CHOOSE e \in s : TRUE)].asset = a THEN x.outs[(CHOOSE e \in s : TRUE)].amt ELSE 0)
                                          + it[s \ {CHOOSE e \in s : TRUE}]]
             B == [s \in SUBSET S |-> IF s = {} THEN 0
                                   ELSE f[CHOOSE e \in s : TRUE]
                                          + it[s \ {CHOOSE e \in s : TRUE}]]
  <2>1. A = B
    <3>1. \A s \in SUBSET S : s # {} => f[CHOOSE e \in s : TRUE] = (IF x.outs[(CHOOSE e \in s : TRUE)].to = to /\ x.outs[(CHOOSE e \in s : TRUE)].asset = a THEN x.outs[(CHOOSE e \in s : TRUE)].amt ELSE 0)
      BY DEF S
    <3> HIDE DEF f
    <3> QED
      BY <3>1
  <2>2. Sums(it) <=> it = A
    OBVIOUS
  <2>3. IsSum(it, f, S) <=> it = B
    <3> HIDE DEF f
    <3> QED
      BY DEF IsSum
  <2> HIDE DEF A, B, Sums
  <2> QED
    BY <2>1, <2>2, <2>3
<1>2. (CHOOSE it : Sums(it)) = (CHOOSE it : IsSum(it, f, S))
  <2> HIDE DEF Sums
  <2> QED
    BY <1>1
<1>3. MadeOf(x, to, a) = (CHOOSE it : Sums(it))[S]
  BY DEF MadeOf, MapThenSumSet, MapThenFoldSet, S
<1> QED
  BY <1>2, <1>3 DEF SumOf, S

(* Requirements are the tally of what the pairs name.                      *)
LEMMA NeedIs ==
  ASSUME NEW pairs \in Seq(Pair), NEW a \in Assets
  PROVE  Need(pairs)[a] = Tally(Named(a), pairs)
<1>1. [i \in DOMAIN pairs |-> IF pairs[i][1] = a THEN pairs[i][2] ELSE 0]
        = [i \in DOMAIN pairs |-> Named(a)[pairs[i]]]
  <2>1. \A i \in DOMAIN pairs : Named(a)[pairs[i]] = IF pairs[i][1] = a THEN pairs[i][2] ELSE 0
    <3>1. \A i \in DOMAIN pairs : pairs[i] \in Pair
      OBVIOUS
    <3> HIDE DEF Pair
    <3> QED
      BY <3>1 DEF Named
  <2> QED
    BY <2>1
<1> QED
  BY <1>1, NeedSums DEF Tally

(* What goes out in an asset is the tally of the outputs that hold it.     *)
LEMMA OutOfIs ==
  ASSUME NEW x, x.outs \in Seq(Output), NEW a
  PROVE  OutOf(x, a) = Tally(OfAsset(a), x.outs)
<1>1. [i \in DOMAIN x.outs |-> IF x.outs[i].asset = a THEN x.outs[i].amt ELSE 0]
        = [i \in DOMAIN x.outs |-> OfAsset(a)[x.outs[i]]]
  <2>1. \A i \in DOMAIN x.outs : x.outs[i] \in Output
    OBVIOUS
  <2>2. \A i \in DOMAIN x.outs :
          OfAsset(a)[x.outs[i]] = IF x.outs[i].asset = a THEN x.outs[i].amt ELSE 0
    BY <2>1 DEF OfAsset
  <2> QED
    BY <2>2
<1> QED
  BY <1>1, OutSums DEF Tally

(* What a party is paid is the tally of the outputs to it.                 *)
LEMMA MadeOfIs ==
  ASSUME NEW x, x.outs \in Seq(Output), NEW to, NEW a
  PROVE  MadeOf(x, to, a) = Tally(OfParty(to, a), x.outs)
<1>1. [i \in DOMAIN x.outs |-> IF x.outs[i].to = to /\ x.outs[i].asset = a THEN x.outs[i].amt ELSE 0]
        = [i \in DOMAIN x.outs |-> OfParty(to, a)[x.outs[i]]]
  <2>1. \A i \in DOMAIN x.outs : x.outs[i] \in Output
    OBVIOUS
  <2>2. \A i \in DOMAIN x.outs :
          OfParty(to, a)[x.outs[i]]
            = IF x.outs[i].to = to /\ x.outs[i].asset = a THEN x.outs[i].amt ELSE 0
    BY <2>1 DEF OfParty
  <2> QED
    BY <2>2
<1> QED
  BY <1>1, MadeSums DEF Tally

(* These weights are numbers.                                              *)
LEMMA WeightTypes ==
  /\ \A a : Named(a) \in [Pair -> Nat] /\ OfAsset(a) \in [Output -> Nat]
  /\ \A to, a : OfParty(to, a) \in [Output -> Nat]
<1>1. ASSUME NEW a PROVE Named(a) \in [Pair -> Nat]
  <2>1. \A p \in Pair : p[2] \in Nat
    BY DEF Pair
  <2> HIDE DEF Pair
  <2>2. \A p \in Pair : (IF p[1] = a THEN p[2] ELSE 0) \in Nat
    BY <2>1
  <2> QED
    BY <2>2 DEF Named
<1>2. \A o \in Output : o.amt \in Nat
  BY DEF Output
<1> QED
  BY <1>1, <1>2 DEF OfAsset, OfParty

-----------------------------------------------------------------------------
(* The outputs of the change.                                              *)

Back(left, a) == IF left[a] > 0 THEN <<Out(left[a], "spender", a)>> ELSE <<>>

Returned(left) == {Out(left[a], "spender", a) : a \in {b \in Assets : left[b] > 0}}

(* The names of the assets.                                                *)
LEMMA AssetNames == C \in Assets /\ D \in Assets /\ F \in Assets
BY DEF Assets

(* An output is one.                                                       *)
LEMMA OutType ==
  ASSUME NEW n \in Nat, NEW to \in Parties, NEW a \in Assets
  PROVE  /\ Out(n, to, a) \in Output
         /\ Out(n, to, a).amt = n /\ Out(n, to, a).to = to /\ Out(n, to, a).asset = a
BY DEF Out, Output

(* An output weighs its amount, in its asset, to its party.                *)
LEMMA OutWeighs ==
  ASSUME NEW n \in Nat, NEW to \in Parties, NEW a \in Assets
  PROVE  /\ \A b : OfAsset(b)[Out(n, to, a)] = IF a = b THEN n ELSE 0
         /\ \A x, b : OfParty(x, b)[Out(n, to, a)] = IF to = x /\ a = b THEN n ELSE 0
<1>1. /\ Out(n, to, a) \in Output
      /\ Out(n, to, a).amt = n /\ Out(n, to, a).to = to /\ Out(n, to, a).asset = a
  BY OutType
<1>2. \A b : OfAsset(b)[Out(n, to, a)] = IF a = b THEN n ELSE 0
  BY <1>1 DEF OfAsset
<1>3. \A x, b : OfParty(x, b)[Out(n, to, a)] = IF to = x /\ a = b THEN n ELSE 0
  BY <1>1 DEF OfParty
<1> QED
  BY <1>2, <1>3

(* The change in one asset: one output of what is left, or none.           *)
LEMMA BackIs ==
  ASSUME NEW left \in [Assets -> Nat], NEW a \in Assets
  PROVE  /\ Back(left, a) \in Seq(Returned(left))
         /\ \A w \in [Output -> Nat] :
              Tally(w, Back(left, a)) = IF left[a] > 0 THEN w[Out(left[a], "spender", a)] ELSE 0
<1> DEFINE o == Out(left[a], "spender", a)
<1>0. o \in Output
  <2>1. "spender" \in Parties /\ left[a] \in Nat
    BY DEF Parties
  <2> QED
    BY <2>1, OutType
<1>1. CASE left[a] > 0
  <2>1. Back(left, a) = <<o>> /\ o \in Returned(left)
    BY <1>1 DEF Back, Returned
  <2> HIDE DEF o
  <2>2. <<o>> \in Seq(Returned(left))
    BY <2>1
  <2>3. \A w \in [Output -> Nat] : Tally(w, <<o>>) = w[o]
    BY <1>0, TallyOne
  <2> QED
    BY <1>1, <2>1, <2>2, <2>3 DEF o
<1>2. CASE ~(left[a] > 0)
  <2>1. Back(left, a) = <<>>
    BY <1>2 DEF Back
  <2> QED
    BY <1>2, <2>1, TallyNothing
<1> QED
  BY <1>1, <1>2

(* Change is paid in outputs.                                              *)
LEMMA ReturnedType ==
  ASSUME NEW left \in [Assets -> Nat]
  PROVE  Returned(left) \subseteq Output
<1>1. "spender" \in Parties
  BY DEF Parties
<1> QED
  BY <1>1, OutType DEF Returned

(* The change, asset by asset.                                             *)
LEMMA PaidBackIs ==
  ASSUME NEW left \in [Assets -> Nat]
  PROVE  /\ PaidBack(left) \in Seq(Returned(left)) /\ PaidBack(left) \in Seq(Output)
         /\ \A w \in [Output -> Nat] :
              Tally(w, PaidBack(left)) = Tally(w, Back(left, C)) + Tally(w, Back(left, D))
                                           + Tally(w, Back(left, F))
<1> DEFINE R == Returned(left)
           c == Back(left, C)
           d == Back(left, D)
           f == Back(left, F)
<1>1. c \in Seq(R) /\ d \in Seq(R) /\ f \in Seq(R)
  BY AssetNames, BackIs
<1>2. PaidBack(left) = (c \o d) \o f
  BY DEF PaidBack, Back
<1>3. R \subseteq Output
  BY ReturnedType
<1> HIDE DEF R, c, d, f
<1>4. c \o d \in Seq(R) /\ (c \o d) \o f \in Seq(R)
  BY <1>1
<1>5. c \in Seq(Output) /\ d \in Seq(Output) /\ f \in Seq(Output)
      /\ c \o d \in Seq(Output) /\ (c \o d) \o f \in Seq(Output)
  BY <1>1, <1>3, <1>4, SeqMonotonic
<1>6. ASSUME NEW w \in [Output -> Nat]
      PROVE  Tally(w, (c \o d) \o f) = Tally(w, c) + Tally(w, d) + Tally(w, f)
  <2>1. Tally(w, (c \o d) \o f) = Tally(w, c \o d) + Tally(w, f)
    BY ONLY <1>5, <1>6, TallyJoins
  <2>2. Tally(w, c \o d) = Tally(w, c) + Tally(w, d)
    BY ONLY <1>5, <1>6, TallyJoins
  <2> QED
    BY <2>1, <2>2
<1> QED
  BY <1>2, <1>4, <1>5, <1>6 DEF R, c, d, f

(* The change holds what is left of each asset, all of it to the spender.  *)
LEMMA PaidBackWeighs ==
  ASSUME NEW left \in [Assets -> Nat]
  PROVE  /\ \A a \in Assets : Tally(OfAsset(a), PaidBack(left)) = left[a]
         /\ \A to \in Parties \ {"spender"}, a \in Assets : Tally(OfParty(to, a), PaidBack(left)) = 0
<1>1. "spender" \in Parties
  BY DEF Parties
<1>2. ASSUME NEW a \in Assets PROVE Tally(OfAsset(a), PaidBack(left)) = left[a]
  <2>1. \A b \in Assets : Tally(OfAsset(a), Back(left, b)) = IF b = a THEN left[a] ELSE 0
    <3>1. \A b \in Assets : left[b] \in Nat
      OBVIOUS
    <3>2. \A b \in Assets : OfAsset(a)[Out(left[b], "spender", b)] = IF b = a THEN left[b] ELSE 0
      BY <1>1, <3>1, OutWeighs
    <3>3. OfAsset(a) \in [Output -> Nat]
      BY WeightTypes
    <3>4. \A b \in Assets : Tally(OfAsset(a), Back(left, b))
              = IF left[b] > 0 THEN OfAsset(a)[Out(left[b], "spender", b)] ELSE 0
      BY ONLY <3>3, left \in [Assets -> Nat], BackIs
    <3> QED
      BY <3>1, <3>2, <3>4
  <2>2. Tally(OfAsset(a), PaidBack(left)) = Tally(OfAsset(a), Back(left, C))
          + Tally(OfAsset(a), Back(left, D)) + Tally(OfAsset(a), Back(left, F))
    BY PaidBackIs, WeightTypes
  <2>3. a = C \/ a = D \/ a = F
    BY DEF Assets
  <2>4. left[a] \in Nat
    OBVIOUS
  <2> QED
    BY <2>1, <2>2, <2>3, <2>4, AssetNames, AssetsDiffer
<1>3. ASSUME NEW to \in Parties \ {"spender"}, NEW a \in Assets
      PROVE  Tally(OfParty(to, a), PaidBack(left)) = 0
  <2>1. \A b \in Assets : Tally(OfParty(to, a), Back(left, b)) = 0
    <3>1. \A b \in Assets : left[b] \in Nat
      OBVIOUS
    <3>2. \A b \in Assets : OfParty(to, a)[Out(left[b], "spender", b)] = 0
      BY <1>1, <3>1, OutWeighs
    <3>3. OfParty(to, a) \in [Output -> Nat]
      BY WeightTypes
    <3>4. \A b \in Assets : Tally(OfParty(to, a), Back(left, b))
              = IF left[b] > 0 THEN OfParty(to, a)[Out(left[b], "spender", b)] ELSE 0
      BY ONLY <3>3, left \in [Assets -> Nat], BackIs
    <3> QED
      BY <3>2, <3>4
  <2>2. OfParty(to, a) \in [Output -> Nat]
    BY WeightTypes
  <2>3. Tally(OfParty(to, a), PaidBack(left)) = Tally(OfParty(to, a), Back(left, C))
          + Tally(OfParty(to, a), Back(left, D)) + Tally(OfParty(to, a), Back(left, F))
    BY <2>2, PaidBackIs
  <2> QED
    BY <2>1, <2>3, AssetNames
<1> QED
  BY <1>2, <1>3

(* What fills output 1 is the fee, or change in another asset: what it     *)
(* holds is taken out of the change.                                       *)
LEMMA FillerIs ==
  ASSUME NEW left \in [Assets -> Nat], NEW asset \in Assets, NEW feeAsset \in Assets,
         NEW filler, filler = Filler(asset, feeAsset, left), filler.out # <<>>
  PROVE  /\ filler.left \in [Assets -> Nat] /\ Returned(filler.left) \subseteq Returned(left)
         /\ \E o \in Output :
              /\ filler.out = <<o>>
              /\ \/ o = FeeMark /\ feeAsset # asset
                 \/ o \in Returned(left) /\ o.to = "spender" /\ o.asset # asset
              /\ \A a \in Assets : OfAsset(a)[o] + filler.left[a] = left[a]
<1> DEFINE rest == [left EXCEPT ![asset] = 0]
           others == PaidBack(rest)
<1>0. "fee" \in Parties /\ "spender" \in Parties /\ F \in Assets
  BY AssetNames DEF Parties
<1>1. CASE feeAsset # asset
  <2>1. filler.out = <<FeeMark>> /\ filler.left = left
    BY <1>1 DEF Filler
  <2>2. FeeMark \in Output /\ \A a \in Assets : OfAsset(a)[FeeMark] = 0
    BY <1>0, OutType, OutWeighs DEF FeeMark
  <2>3. \A a \in Assets : OfAsset(a)[FeeMark] + left[a] = left[a]
    BY <2>2
  <2> QED
    BY <1>1, <2>1, <2>2, <2>3
<1>2. CASE feeAsset = asset
  <2>1. rest \in [Assets -> Nat]
    OBVIOUS
  <2>2. others \in Seq(Returned(rest))
    <3> HIDE DEF rest
    <3> QED
      BY <2>1, PaidBackIs
  <2>3. others # <<>> /\ filler.out = <<others[1]>>
        /\ filler.left = [left EXCEPT ![others[1].asset] = 0]
    BY <1>2 DEF Filler
  <2>4. others[1] \in Returned(rest)
    <3> HIDE DEF others
    <3> QED
      BY <2>2, <2>3
  <2> HIDE DEF others
  <2>5. PICK b \in Assets : rest[b] > 0 /\ others[1] = Out(rest[b], "spender", b)
    BY <2>4 DEF Returned
  <2>6. b # asset /\ rest[b] = left[b] /\ left[b] \in Nat /\ left[b] >= 1
    BY <2>5
  <2> DEFINE o == Out(left[b], "spender", b)
  <2>7. o \in Output /\ o.amt = left[b] /\ o.to = "spender" /\ o.asset = b
        /\ \A a : OfAsset(a)[o] = IF b = a THEN left[b] ELSE 0
    BY <1>0, <2>6, OutType, OutWeighs
  <2>8. others[1] = o
    BY <2>5, <2>6
  <2> HIDE DEF o
  <2>9. filler.left = [left EXCEPT ![b] = 0] /\ filler.out = <<o>>
    BY <2>3, <2>7, <2>8
  <2>10. filler.left \in [Assets -> Nat] /\ Returned(filler.left) \subseteq Returned(left)
    <3>1. [left EXCEPT ![b] = 0] \in [Assets -> Nat]
      OBVIOUS
    <3>2. \A a \in Assets : [left EXCEPT ![b] = 0][a] > 0 => [left EXCEPT ![b] = 0][a] = left[a]
      BY <2>6
    <3>3. Returned([left EXCEPT ![b] = 0]) \subseteq Returned(left)
      BY <3>2 DEF Returned
    <3> QED
      BY <2>9, <3>1, <3>3
  <2>11. \A a \in Assets : OfAsset(a)[o] + filler.left[a] = left[a]
    BY <2>6, <2>7, <2>9
  <2>12. o \in Returned(left)
    BY <2>6 DEF Returned, o
  <2> QED
    BY <2>6, <2>7, <2>9, <2>10, <2>11, <2>12
<1> QED
  BY <1>1, <1>2

(* _raw_tx: the fee takes the place marked for it, or the last.            *)
Marks(outs) ==
    \A i \in DOMAIN outs : outs[i].to = "fee" => i = 2 /\ outs[i] = FeeMark

RawFrom(x, outs, fee, feeAsset) ==
    /\ x.outs \in Seq(Output) /\ x.feeAsset = feeAsset
    /\ \A i \in DOMAIN outs :
         /\ i \in DOMAIN x.outs
         /\ outs[i].to # "fee" => x.outs[i] = outs[i]
         /\ outs[i].to = "fee" => x.outs[i] = Out(fee, "fee", feeAsset)
    /\ \A i \in DOMAIN x.outs :
         \/ i \in DOMAIN outs /\ outs[i].to # "fee" /\ x.outs[i] = outs[i]
         \/ x.outs[i] = Out(fee, "fee", feeAsset)
    /\ \A w \in [Output -> Nat] : w[FeeMark] = 0 =>
         Tally(w, x.outs) = Tally(w, outs) + w[Out(fee, "fee", feeAsset)]

(* What _raw_tx makes of the outputs it is given.                          *)
LEMMA RawIs ==
  ASSUME NEW spent, NEW ins, NEW outs \in Seq(Output), Marks(outs),
         NEW fee \in Nat, NEW feeAsset \in Assets, NEW locktime,
         NEW raw, raw = Raw(spent, ins, outs, fee, feeAsset, locktime)
  PROVE  /\ RawFrom(raw, outs, fee, feeAsset)
         /\ raw.leaf = spent.leaf /\ raw.coin = spent.coin /\ raw.given = spent.given
         /\ raw.slots = spent.slots /\ raw.ins = ins
<1> DEFINE paid == Out(fee, "fee", feeAsset)
           marked == [i \in DOMAIN outs |-> IF outs[i].to = "fee" THEN paid ELSE outs[i]]
           named == \E i \in DOMAIN outs : outs[i].to = "fee"
<1>1. paid \in Output /\ FeeMark \in Output
  <2>1. "fee" \in Parties /\ F \in Assets
    BY AssetNames DEF Parties
  <2> QED
    BY <2>1, OutType DEF FeeMark
<1>2. /\ raw.leaf = spent.leaf /\ raw.coin = spent.coin /\ raw.given = spent.given
      /\ raw.slots = spent.slots /\ raw.ins = ins /\ raw.feeAsset = feeAsset
      /\ raw.outs = IF named THEN marked ELSE Append(marked, paid)
  BY DEF Raw
<1> HIDE DEF paid
<1>3. marked \in Seq(Output) /\ DOMAIN marked = DOMAIN outs /\ Len(marked) = Len(outs)
  <2>1. \A i \in DOMAIN outs : outs[i] \in Output
    OBVIOUS
  <2> QED
    BY <1>1, <2>1
<1>4. CASE named
  <2>1. PICK k \in DOMAIN outs : outs[k].to = "fee"
    BY <1>4
  <2>2. outs[k] = FeeMark /\ \A i \in DOMAIN outs : outs[i].to = "fee" => i = k
    BY <2>1 DEF Marks
  <2>3. marked[k] = paid /\ \A i \in DOMAIN outs : i # k => marked[i] = outs[i]
    BY <2>1, <2>2
  <2>4. raw.outs = marked
    BY <1>2, <1>4
  <2>5. k \in 1..Len(outs) /\ DOMAIN outs = 1..Len(outs)
    OBVIOUS
  <2> HIDE DEF marked, named
  <2>6. ASSUME NEW w \in [Output -> Nat], w[FeeMark] = 0
        PROVE  Tally(w, marked) = Tally(w, outs) + w[paid]
    <3>0. /\ w \in [Output -> Nat] /\ outs \in Seq(Output) /\ marked \in Seq(Output)
          /\ Len(outs) = Len(marked) /\ k \in 1..Len(outs)
          /\ SameBut(outs, marked, k)
      BY <1>3, <2>3, <2>5 DEF SameBut
    <3>1. Tally(w, marked) + w[outs[k]] = Tally(w, outs) + w[marked[k]]
      BY ONLY <3>0, TallyChanges
    <3>2. Tally(w, marked) \in Nat
      BY <1>3, TallyIsNat
    <3> QED
      BY <2>2, <2>3, <2>6, <3>1, <3>2
  <2> QED
    BY <1>1, <1>2, <1>3, <2>1, <2>2, <2>3, <2>4, <2>6 DEF paid, RawFrom
<1>5. CASE ~named
  <2>1. marked = outs
    <3>1. \A i \in DOMAIN outs : marked[i] = outs[i]
      BY <1>5
    <3> QED
      BY <1>3, <3>1, SeqEqual
  <2>2. raw.outs = outs \o <<paid>>
    <3>1. raw.outs = Append(outs, paid)
      BY <1>2, <1>5, <2>1
    <3> QED
      BY <1>1, <3>1
  <2>3. <<paid>> \in Seq(Output) /\ Len(<<paid>>) = 1 /\ <<paid>>[1] = paid
    BY <1>1
  <2>4. raw.outs \in Seq(Output) /\ DOMAIN raw.outs = 1..Len(outs) + 1
        /\ \A i \in 1..Len(outs) : raw.outs[i] = outs[i]
        /\ raw.outs[Len(outs) + 1] = paid /\ Len(outs) \in Nat
        /\ DOMAIN outs = 1..Len(outs)
    BY <2>2, <2>3
  <2>5. ASSUME NEW w \in [Output -> Nat]
        PROVE  Tally(w, raw.outs) = Tally(w, outs) + w[paid]
    <3>1. Tally(w, outs \o <<paid>>) = Tally(w, outs) + Tally(w, <<paid>>)
      BY ONLY <2>3, <2>5, outs \in Seq(Output), TallyJoins
    <3>2. Tally(w, <<paid>>) = w[paid]
      BY <1>1, TallyOne
    <3> QED
      BY <2>2, <3>1, <3>2
  <2> HIDE DEF marked
  <2> QED
    BY <1>2, <1>5, <2>4, <2>5 DEF paid, RawFrom
<1> QED
  BY <1>4, <1>5

(* What is left of each asset, and what the fee asset's dust adds to the   *)
(* fee.                                                                    *)
LEMMA ChangeIs ==
  ASSUME NEW have \in [Assets -> Nat], NEW need \in [Assets -> Nat],
         \A a \in Assets : need[a] <= have[a], NEW feeAsset \in Priced,
         NEW change, change = Change(have, need, feeAsset)
  PROVE  /\ change.left \in [Assets -> Nat] /\ change.extra \in Nat
         /\ \A a \in Assets : have[a] = need[a] + change.left[a]
                                + (IF a = feeAsset THEN change.extra ELSE 0)
         /\ change.left[feeAsset] # 0 => change.left[feeAsset] >= DustAtoms(feeAsset)
<1> DEFINE rest == [a \in Assets |-> have[a] - need[a]]
           dust == rest[feeAsset] \in 1..(DustAtoms(feeAsset) - 1)
<1>1. change.left = (IF dust THEN [rest EXCEPT ![feeAsset] = 0] ELSE rest)
      /\ change.extra = (IF dust THEN rest[feeAsset] ELSE 0)
  BY DEF Change
<1>2. feeAsset \in Assets /\ DustAtoms(feeAsset) \in Nat /\ DustAtoms(feeAsset) >= 1
  BY AtomsType
<1>3. rest \in [Assets -> Nat] /\ \A a \in Assets : have[a] = need[a] + rest[a]
  <2>1. \A a \in Assets : have[a] \in Nat /\ need[a] \in Nat
    OBVIOUS
  <2>2. \A a \in Assets : have[a] - need[a] \in Nat /\ have[a] = need[a] + (have[a] - need[a])
    BY <2>1
  <2> QED
    BY <2>2
<1> HIDE DEF rest
<1>4. CASE dust
  <2>1. change.left = [rest EXCEPT ![feeAsset] = 0] /\ change.extra = rest[feeAsset]
    BY <1>1, <1>4
  <2>2. change.left \in [Assets -> Nat] /\ change.left[feeAsset] = 0
        /\ \A a \in Assets : a # feeAsset => change.left[a] = rest[a]
    BY <1>2, <1>3, <2>1
  <2>3. change.extra \in Nat
    BY <1>2, <1>3, <2>1
  <2>4. \A a \in Assets : rest[a] = change.left[a]
                            + (IF a = feeAsset THEN change.extra ELSE 0)
    <3>1. \A a \in Assets : rest[a] \in Nat
      BY <1>3
    <3> QED
      BY <1>2, <2>1, <2>2, <3>1
  <2> QED
    BY <1>3, <2>2, <2>3, <2>4
<1>5. CASE ~dust
  <2>1. change.left = rest /\ change.extra = 0
    BY <1>1, <1>5
  <2>2. rest[feeAsset] # 0 => rest[feeAsset] >= DustAtoms(feeAsset)
    BY <1>2, <1>3, <1>5
  <2>3. \A a \in Assets : rest[a] \in Nat /\ need[a] \in Nat
    BY <1>3
  <2> QED
    BY <1>3, <2>1, <2>2, <2>3
<1> QED
  BY <1>4, <1>5

(* Named outputs, and the change behind them.                              *)
Lays(outs, head, left) ==
    /\ outs \in Seq(Output) /\ Marks(outs)
    /\ \A i \in 1..Len(head) : i \in DOMAIN outs /\ outs[i] = head[i]
    /\ \A a \in Assets : Tally(OfAsset(a), outs) = Tally(OfAsset(a), head) + left[a]
    /\ \A to \in Parties \ {"spender"}, a \in Assets :
         Tally(OfParty(to, a), outs) = Tally(OfParty(to, a), head)
    /\ \A G : head \in Seq(G) /\ Returned(left) \subseteq G => outs \in Seq(G)

(* Outputs that end in the change keep what leads them in its place, and   *)
(* hold what it holds and what is left.                                    *)
LEMMA Laid ==
  ASSUME NEW head \in Seq(Output), Marks(head), NEW left \in [Assets -> Nat],
         NEW outs, outs = head \o PaidBack(left)
  PROVE  Lays(outs, head, left)
<1> DEFINE back == PaidBack(left)
<1>1. back \in Seq(Output) /\ back \in Seq(Returned(left))
  BY PaidBackIs
<1>2. /\ \A a \in Assets : Tally(OfAsset(a), back) = left[a]
      /\ \A to \in Parties \ {"spender"}, a \in Assets : Tally(OfParty(to, a), back) = 0
  BY PaidBackWeighs
<1>3. \A w \in [Output -> Nat] : Tally(w, head \o back) = Tally(w, head) + Tally(w, back)
                                 /\ Tally(w, head) \in Nat
  <2> HIDE DEF back
  <2> TAKE w \in [Output -> Nat]
  <2>1. Tally(w, head \o back) = Tally(w, head) + Tally(w, back)
    BY ONLY w \in [Output -> Nat], head \in Seq(Output), <1>1, TallyJoins
  <2>2. Tally(w, head) \in Nat
    BY ONLY w \in [Output -> Nat], head \in Seq(Output), TallyIsNat
  <2> QED
    BY <2>1, <2>2
<1>4. /\ \A a \in Assets : OfAsset(a) \in [Output -> Nat]
      /\ \A to, a : OfParty(to, a) \in [Output -> Nat]
  BY WeightTypes
<1> HIDE DEF back
<1>5. /\ head \o back \in Seq(Output) /\ DOMAIN (head \o back) = 1..Len(head) + Len(back)
      /\ DOMAIN back = 1..Len(back) /\ DOMAIN head = 1..Len(head)
      /\ Len(head) \in Nat /\ Len(back) \in Nat
      /\ \A i \in 1..Len(head) : (head \o back)[i] = head[i]
      /\ \A i \in 1..Len(head) + Len(back) : i > Len(head) =>
           (head \o back)[i] = back[i - Len(head)] /\ i - Len(head) \in 1..Len(back)
  BY <1>1
<1>6. outs = head \o back
  BY DEF back
<1>7. Marks(outs)
  <2> SUFFICES ASSUME NEW i \in DOMAIN outs, outs[i].to = "fee"
               PROVE  i = 2 /\ outs[i] = FeeMark
    BY DEF Marks
  <2>1. CASE i \in 1..Len(head)
    <3>1. outs[i] = head[i] /\ i \in DOMAIN head
      BY <1>5, <1>6, <2>1
    <3> QED
      BY <3>1 DEF Marks
  <2>2. CASE i \notin 1..Len(head)
    <3>1. PICK j \in DOMAIN back : outs[i] = back[j]
      BY <1>5, <1>6, <2>2
    <3>2. back[j] \in Returned(left)
      BY <1>1, <3>1
    <3>3. back[j].to = "spender"
      BY <3>2 DEF Returned, Out
    <3> QED
      BY <3>1, <3>3
  <2> QED
    BY <2>1, <2>2
<1>8. ASSUME NEW G, head \in Seq(G), Returned(left) \subseteq G PROVE outs \in Seq(G)
  <2>1. back \in Seq(G)
    BY <1>1, <1>8, SeqMonotonic
  <2> QED
    BY <1>6, <1>8, <2>1
<1>9. \A i \in 1..Len(head) : i \in DOMAIN outs /\ outs[i] = head[i]
  BY <1>5, <1>6
<1>10. \A a \in Assets : Tally(OfAsset(a), outs) = Tally(OfAsset(a), head) + left[a]
  BY <1>2, <1>3, <1>4, <1>6
<1>11. \A to \in Parties \ {"spender"}, a \in Assets :
         Tally(OfParty(to, a), outs) = Tally(OfParty(to, a), head)
  <2> TAKE to \in Parties \ {"spender"}, a \in Assets
  <2>1. OfParty(to, a) \in [Output -> Nat]
    BY <1>4
  <2>2. Tally(OfParty(to, a), outs) = Tally(OfParty(to, a), head) + Tally(OfParty(to, a), back)
        /\ Tally(OfParty(to, a), head) \in Nat
    BY <1>3, <1>6, <2>1
  <2>3. Tally(OfParty(to, a), back) = 0
    BY <1>2
  <2> QED
    BY <2>2, <2>3
<1> QED
  BY <1>5, <1>6, <1>7, <1>8, <1>9, <1>10, <1>11 DEF Lays

(* The names of the parties.                                               *)
LEMMA PartyNames ==
  /\ "lender" \in Parties /\ "borrower" \in Parties /\ "spender" \in Parties
  /\ "vault" \in Parties /\ "offer" \in Parties /\ "fee" \in Parties
BY DEF Parties

(* One, two or three named outputs.                                        *)
LEMMA HeadOne ==
  ASSUME NEW x \in Output, x.to # "fee"
  PROVE  /\ <<x>> \in Seq(Output) /\ Marks(<<x>>) /\ Len(<<x>>) = 1 /\ <<x>>[1] = x
         /\ \A a : Tally(OfAsset(a), <<x>>) = OfAsset(a)[x]
         /\ \A to, a : Tally(OfParty(to, a), <<x>>) = OfParty(to, a)[x]
         /\ \A G : x \in G => <<x>> \in Seq(G)
<1>1. <<x>> \in Seq(Output) /\ Len(<<x>>) = 1 /\ <<x>>[1] = x /\ DOMAIN <<x>> = {1}
  OBVIOUS
<1>2. Marks(<<x>>)
  BY <1>1 DEF Marks
<1>3. \A w \in [Output -> Nat] : Tally(w, <<x>>) = w[x]
  BY TallyOne
<1>4. \A G : x \in G => <<x>> \in Seq(G)
  OBVIOUS
<1>5. \A a : Tally(OfAsset(a), <<x>>) = OfAsset(a)[x]
  BY <1>3, WeightTypes
<1>6. \A to, a : Tally(OfParty(to, a), <<x>>) = OfParty(to, a)[x]
  BY <1>3, WeightTypes
<1> QED
  BY <1>1, <1>2, <1>4, <1>5, <1>6

(* Two named outputs.                                                      *)
LEMMA HeadTwo ==
  ASSUME NEW x \in Output, x.to # "fee", NEW y \in Output, y.to # "fee"
  PROVE  /\ <<x, y>> \in Seq(Output) /\ Marks(<<x, y>>) /\ Len(<<x, y>>) = 2
         /\ <<x, y>>[1] = x /\ <<x, y>>[2] = y
         /\ \A a : Tally(OfAsset(a), <<x, y>>) = OfAsset(a)[x] + OfAsset(a)[y]
         /\ \A to, a : Tally(OfParty(to, a), <<x, y>>) = OfParty(to, a)[x] + OfParty(to, a)[y]
         /\ \A G : x \in G /\ y \in G => <<x, y>> \in Seq(G)
<1>1. <<x, y>> \in Seq(Output) /\ Len(<<x, y>>) = 2 /\ <<x, y>>[1] = x /\ <<x, y>>[2] = y
      /\ DOMAIN <<x, y>> = {1, 2}
  OBVIOUS
<1>2. Marks(<<x, y>>)
  BY <1>1 DEF Marks
<1>3. \A w \in [Output -> Nat] : Tally(w, <<x, y>>) = w[x] + w[y]
  BY TallyTwo
<1>4. \A G : x \in G /\ y \in G => <<x, y>> \in Seq(G)
  OBVIOUS
<1>5. \A a : Tally(OfAsset(a), <<x, y>>) = OfAsset(a)[x] + OfAsset(a)[y]
  BY <1>3, WeightTypes
<1>6. \A to, a : Tally(OfParty(to, a), <<x, y>>) = OfParty(to, a)[x] + OfParty(to, a)[y]
  BY <1>3, WeightTypes
<1> QED
  BY <1>1, <1>2, <1>4, <1>5, <1>6

(* Three named outputs, of which the second may be the place of the fee.   *)
LEMMA HeadThree ==
  ASSUME NEW x \in Output, x.to # "fee", NEW y \in Output, y.to # "fee" \/ y = FeeMark,
         NEW z \in Output, z.to # "fee"
  PROVE  /\ <<x, y, z>> \in Seq(Output) /\ Marks(<<x, y, z>>) /\ Len(<<x, y, z>>) = 3
         /\ <<x, y, z>>[1] = x /\ <<x, y, z>>[2] = y /\ <<x, y, z>>[3] = z
         /\ \A a : Tally(OfAsset(a), <<x, y, z>>) = OfAsset(a)[x] + OfAsset(a)[y] + OfAsset(a)[z]
         /\ \A to, a : Tally(OfParty(to, a), <<x, y, z>>)
              = OfParty(to, a)[x] + OfParty(to, a)[y] + OfParty(to, a)[z]
         /\ \A G : x \in G /\ y \in G /\ z \in G => <<x, y, z>> \in Seq(G)
<1>1. <<x, y, z>> \in Seq(Output) /\ Len(<<x, y, z>>) = 3
      /\ <<x, y, z>>[1] = x /\ <<x, y, z>>[2] = y /\ <<x, y, z>>[3] = z
      /\ DOMAIN <<x, y, z>> = {1, 2, 3}
  OBVIOUS
<1>2. Marks(<<x, y, z>>)
  BY <1>1 DEF Marks
<1>3. \A w \in [Output -> Nat] : Tally(w, <<x, y, z>>) = w[x] + w[y] + w[z]
  BY TallyThree
<1>4. \A G : x \in G /\ y \in G /\ z \in G => <<x, y, z>> \in Seq(G)
  OBVIOUS
<1>5. \A a : Tally(OfAsset(a), <<x, y, z>>) = OfAsset(a)[x] + OfAsset(a)[y] + OfAsset(a)[z]
  BY <1>3, WeightTypes
<1>6. \A to, a : Tally(OfParty(to, a), <<x, y, z>>)
              = OfParty(to, a)[x] + OfParty(to, a)[y] + OfParty(to, a)[z]
  BY <1>3, WeightTypes
<1> QED
  BY <1>1, <1>2, <1>4, <1>5, <1>6

-----------------------------------------------------------------------------
(* What each exit composes.                                                *)

Owed(n, a, b) == IF a = b THEN n ELSE 0

(* The numbers of the terms.                                               *)
LEMMA TermsType ==
  ASSUME NEW t \in Candidates
  PROVE  /\ t.debt \in Nat /\ t.principal \in Nat /\ t.collateral \in Nat /\ t.strike \in Nat
         /\ t.not_before \in Nat /\ t.bonus_num \in Nat /\ t.bonus_den \in Nat
         /\ t.price_scale \in Nat /\ t.max_price \in Nat /\ t.oracle_threshold \in Nat
         /\ t.principal * Lots \in Nat
<1>1. /\ t.debt \in Nat /\ t.principal \in Nat /\ t.collateral \in Nat /\ t.strike \in Nat
      /\ t.not_before \in Nat /\ t.bonus_num \in Nat /\ t.bonus_den \in Nat
      /\ t.price_scale \in Nat /\ t.max_price \in Nat /\ t.oracle_threshold \in Nat
  BY SpendAssumption
<1>2. Lots \in Nat
  BY SpendAssumption
<1> QED
  BY <1>1, <1>2

LaysOne(outs, x, left) ==
    /\ outs \in Seq(Output) /\ Marks(outs) /\ 1 \in DOMAIN outs /\ outs[1] = x
    /\ \A a \in Assets : Tally(OfAsset(a), outs) = OfAsset(a)[x] + left[a]
    /\ \A to \in Parties \ {"spender"}, a \in Assets :
         Tally(OfParty(to, a), outs) = OfParty(to, a)[x]
    /\ \A G : x \in G /\ Returned(left) \subseteq G => outs \in Seq(G)

(* One named output and the change.                                        *)
LEMMA PaysOne ==
  ASSUME NEW x \in Output, x.to # "fee", NEW left \in [Assets -> Nat],
         NEW outs, outs = <<x>> \o PaidBack(left)
  PROVE  LaysOne(outs, x, left)
<1> DEFINE head == <<x>>
<1>1. /\ head \in Seq(Output) /\ Marks(head) /\ Len(head) = 1 /\ head[1] = x
      /\ \A a : Tally(OfAsset(a), head) = OfAsset(a)[x]
      /\ \A to, a : Tally(OfParty(to, a), head) = OfParty(to, a)[x]
      /\ \A G : x \in G => head \in Seq(G)
  BY HeadOne
<1>2. outs = head \o PaidBack(left)
  OBVIOUS
<1> HIDE DEF head
<1>3. /\ outs \in Seq(Output) /\ Marks(outs)
      /\ \A i \in 1..Len(head) : i \in DOMAIN outs /\ outs[i] = head[i]
      /\ \A a \in Assets : Tally(OfAsset(a), outs) = Tally(OfAsset(a), head) + left[a]
      /\ \A to \in Parties \ {"spender"}, a \in Assets :
           Tally(OfParty(to, a), outs) = Tally(OfParty(to, a), head)
      /\ \A G : head \in Seq(G) /\ Returned(left) \subseteq G => outs \in Seq(G)
  <2>1. head \in Seq(Output) /\ Marks(head) /\ left \in [Assets -> Nat]
    BY <1>1
  <2>2. Lays(outs, head, left)
    BY ONLY <1>2, <2>1, Laid
  <2> QED
    BY <2>2 DEF Lays
<1>4. 1 \in DOMAIN outs /\ outs[1] = x
  BY <1>1, <1>3
<1>5. \A a \in Assets : Tally(OfAsset(a), outs) = OfAsset(a)[x] + left[a]
  BY <1>1, <1>3
<1>6. \A to \in Parties \ {"spender"}, a \in Assets : Tally(OfParty(to, a), outs) = OfParty(to, a)[x]
  BY <1>1, <1>3
<1>7. \A G : x \in G /\ Returned(left) \subseteq G => outs \in Seq(G)
  BY <1>1, <1>3
<1> QED
  BY <1>3, <1>4, <1>5, <1>6, <1>7 DEF LaysOne

LaysTwo(outs, x, y, left) ==
    /\ outs \in Seq(Output) /\ Marks(outs)
    /\ 1 \in DOMAIN outs /\ 2 \in DOMAIN outs /\ outs[1] = x /\ outs[2] = y
    /\ \A a \in Assets : Tally(OfAsset(a), outs) = OfAsset(a)[x] + OfAsset(a)[y] + left[a]
    /\ \A to \in Parties \ {"spender"}, a \in Assets :
         Tally(OfParty(to, a), outs) = OfParty(to, a)[x] + OfParty(to, a)[y]
    /\ \A G : x \in G /\ y \in G /\ Returned(left) \subseteq G => outs \in Seq(G)

(* Two named outputs and the change.                                       *)
LEMMA PaysTwo ==
  ASSUME NEW x \in Output, x.to # "fee", NEW y \in Output, y.to # "fee",
         NEW left \in [Assets -> Nat], NEW outs, outs = <<x, y>> \o PaidBack(left)
  PROVE  LaysTwo(outs, x, y, left)
<1> DEFINE head == <<x, y>>
<1>1. /\ head \in Seq(Output) /\ Marks(head) /\ Len(head) = 2 /\ head[1] = x /\ head[2] = y
      /\ \A a : Tally(OfAsset(a), head) = OfAsset(a)[x] + OfAsset(a)[y]
      /\ \A to, a : Tally(OfParty(to, a), head) = OfParty(to, a)[x] + OfParty(to, a)[y]
      /\ \A G : x \in G /\ y \in G => head \in Seq(G)
  BY HeadTwo
<1>2. outs = head \o PaidBack(left)
  OBVIOUS
<1> HIDE DEF head
<1>3. /\ outs \in Seq(Output) /\ Marks(outs)
      /\ \A i \in 1..Len(head) : i \in DOMAIN outs /\ outs[i] = head[i]
      /\ \A a \in Assets : Tally(OfAsset(a), outs) = Tally(OfAsset(a), head) + left[a]
      /\ \A to \in Parties \ {"spender"}, a \in Assets :
           Tally(OfParty(to, a), outs) = Tally(OfParty(to, a), head)
      /\ \A G : head \in Seq(G) /\ Returned(left) \subseteq G => outs \in Seq(G)
  <2>1. head \in Seq(Output) /\ Marks(head) /\ left \in [Assets -> Nat]
    BY <1>1
  <2>2. Lays(outs, head, left)
    BY ONLY <1>2, <2>1, Laid
  <2> QED
    BY <2>2 DEF Lays
<1>4. 1 \in DOMAIN outs /\ outs[1] = x /\ 2 \in DOMAIN outs /\ outs[2] = y
  BY <1>1, <1>3
<1>5. \A a \in Assets : Tally(OfAsset(a), outs) = OfAsset(a)[x] + OfAsset(a)[y] + left[a]
  BY <1>1, <1>3
<1>6. \A to \in Parties \ {"spender"}, a \in Assets :
        Tally(OfParty(to, a), outs) = OfParty(to, a)[x] + OfParty(to, a)[y]
  <2> TAKE to \in Parties \ {"spender"}, a \in Assets
  <2>1. Tally(OfParty(to, a), outs) = Tally(OfParty(to, a), head)
    BY <1>3
  <2>2. Tally(OfParty(to, a), head) = OfParty(to, a)[x] + OfParty(to, a)[y]
    BY <1>1
  <2> QED
    BY <2>1, <2>2
<1>7. \A G : x \in G /\ y \in G /\ Returned(left) \subseteq G => outs \in Seq(G)
  <2> SUFFICES ASSUME NEW G, x \in G /\ y \in G, Returned(left) \subseteq G PROVE outs \in Seq(G)
    OBVIOUS
  <2>1. head \in Seq(G)
    BY <1>1
  <2> QED
    BY <1>3, <2>1
<1> QED
  BY <1>3, <1>4, <1>5, <1>6, <1>7 DEF LaysTwo

LaysThree(outs, x, y, z, left) ==
    /\ outs \in Seq(Output) /\ Marks(outs)
    /\ 1 \in DOMAIN outs /\ 2 \in DOMAIN outs /\ outs[1] = x /\ outs[2] = y
    /\ \A a \in Assets : Tally(OfAsset(a), outs)
         = OfAsset(a)[x] + OfAsset(a)[y] + OfAsset(a)[z] + left[a]
    /\ \A to \in Parties \ {"spender"}, a \in Assets :
         Tally(OfParty(to, a), outs) = OfParty(to, a)[x] + OfParty(to, a)[y] + OfParty(to, a)[z]
    /\ \A G : x \in G /\ y \in G /\ z \in G /\ Returned(left) \subseteq G => outs \in Seq(G)

(* Three named outputs and the change.                                     *)
LEMMA PaysThree ==
  ASSUME NEW x \in Output, x.to # "fee", NEW y \in Output, y.to # "fee" \/ y = FeeMark,
         NEW z \in Output, z.to # "fee",
         NEW left \in [Assets -> Nat], NEW outs, outs = <<x, y, z>> \o PaidBack(left)
  PROVE  LaysThree(outs, x, y, z, left)
<1> DEFINE head == <<x, y, z>>
<1>1. /\ head \in Seq(Output) /\ Marks(head) /\ Len(head) = 3 /\ head[1] = x /\ head[2] = y
      /\ \A a : Tally(OfAsset(a), head) = OfAsset(a)[x] + OfAsset(a)[y] + OfAsset(a)[z]
      /\ \A to, a : Tally(OfParty(to, a), head)
           = OfParty(to, a)[x] + OfParty(to, a)[y] + OfParty(to, a)[z]
      /\ \A G : x \in G /\ y \in G /\ z \in G => head \in Seq(G)
  BY HeadThree
<1>2. outs = head \o PaidBack(left)
  OBVIOUS
<1> HIDE DEF head
<1>3. /\ outs \in Seq(Output) /\ Marks(outs)
      /\ \A i \in 1..Len(head) : i \in DOMAIN outs /\ outs[i] = head[i]
      /\ \A a \in Assets : Tally(OfAsset(a), outs) = Tally(OfAsset(a), head) + left[a]
      /\ \A to \in Parties \ {"spender"}, a \in Assets :
           Tally(OfParty(to, a), outs) = Tally(OfParty(to, a), head)
      /\ \A G : head \in Seq(G) /\ Returned(left) \subseteq G => outs \in Seq(G)
  <2>1. head \in Seq(Output) /\ Marks(head) /\ left \in [Assets -> Nat]
    BY <1>1
  <2>2. Lays(outs, head, left)
    BY ONLY <1>2, <2>1, Laid
  <2> QED
    BY <2>2 DEF Lays
<1>4. 1 \in DOMAIN outs /\ outs[1] = x /\ 2 \in DOMAIN outs /\ outs[2] = y
  BY <1>1, <1>3
<1>5. \A a \in Assets : Tally(OfAsset(a), outs)
        = OfAsset(a)[x] + OfAsset(a)[y] + OfAsset(a)[z] + left[a]
  BY <1>1, <1>3
<1>6. \A to \in Parties \ {"spender"}, a \in Assets :
        Tally(OfParty(to, a), outs) = OfParty(to, a)[x] + OfParty(to, a)[y] + OfParty(to, a)[z]
  <2> TAKE to \in Parties \ {"spender"}, a \in Assets
  <2>1. Tally(OfParty(to, a), outs) = Tally(OfParty(to, a), head)
    BY <1>3
  <2>2. Tally(OfParty(to, a), head) = OfParty(to, a)[x] + OfParty(to, a)[y] + OfParty(to, a)[z]
    BY <1>1
  <2> QED
    BY <2>1, <2>2
<1>7. \A G : x \in G /\ y \in G /\ z \in G /\ Returned(left) \subseteq G => outs \in Seq(G)
  <2> SUFFICES ASSUME NEW G, x \in G /\ y \in G /\ z \in G, Returned(left) \subseteq G PROVE outs \in Seq(G)
    OBVIOUS
  <2>1. head \in Seq(G)
    BY <1>1
  <2> QED
    BY <1>3, <2>1
<1> QED
  BY <1>3, <1>4, <1>5, <1>6, <1>7 DEF LaysThree

(* The outputs of an exit hold what it spends beyond the coin, the coin,   *)
(* and the change; vaults and offers are paid what Broadcast reads.        *)
SpendsOf(t, exit, a) ==
    CASE exit = "fund" -> Owed(t.principal * Lots, D, a)
      [] exit = "take" -> Owed(t.collateral, C, a)
      [] exit \in {"withdraw", "recover"} -> 0
      [] OTHER -> Owed(t.debt, D, a)

Composes(outs, exit, t, coin, left) ==
    /\ outs \in Seq(Output) /\ Marks(outs) /\ 1 \in DOMAIN outs
    /\ \A a \in Assets : Tally(OfAsset(a), outs)
         = SpendsOf(t, exit, a) + Owed(coin, CovenantAsset(exit), a) + left[a]
    /\ Tally(OfParty("vault", C), outs) = (IF exit = "take" THEN t.collateral ELSE 0)
    /\ Tally(OfParty("offer", D), outs) = CASE exit = "fund" -> t.principal * Lots
                                            [] exit = "take" -> coin - t.principal
                                            [] OTHER -> 0

(* Output 1 is a return the leaf accepts, once the fee has its place.      *)
Second(outs, to, asset, due, feeAsset) ==
    /\ 2 \in DOMAIN outs
    /\ \/ /\ outs[2].to = to /\ to # "fee"
          /\ outs[2].asset = asset /\ outs[2].amt >= due
       \/ due <= 0 /\ outs[2].to = "fee" /\ feeAsset # asset
       \/ due <= 0 /\ outs[2].to # "fee" /\ outs[2].asset # asset

(* A repayment: the debt, and the collateral back.                         *)
LEMMA RepayIs ==
  ASSUME NEW t \in Candidates, NEW coin \in Nat, NEW left \in [Assets -> Nat],
         NEW outs, outs = Repay(t, coin, left).outs
  PROVE  /\ Repay(t, coin, left).ok /\ Composes(outs, "repay", t, coin, left)
         /\ outs[1] = Out(t.debt, "lender", D)
         /\ \A feeAsset : Second(outs, "borrower", C, coin, feeAsset)
         /\ \A G : {Out(t.debt, "lender", D), Out(coin, "borrower", C)} \subseteq G
                     /\ Returned(left) \subseteq G => outs \in Seq(G)
<1> DEFINE x == Out(t.debt, "lender", D)
           y == Out(coin, "borrower", C)
<1>1. t.debt \in Nat
  BY TermsType
<1>2. /\ x \in Output /\ x.to = "lender" /\ y \in Output /\ y.to = "borrower"
      /\ y.asset = C /\ y.amt = coin
  BY <1>1, AssetNames, PartyNames, OutType
<1>3. /\ \A a : OfAsset(a)[x] = IF D = a THEN t.debt ELSE 0
      /\ \A to, a : OfParty(to, a)[x] = IF "lender" = to /\ D = a THEN t.debt ELSE 0
  BY <1>1, AssetNames, PartyNames, OutWeighs
<1>4. /\ \A a : OfAsset(a)[y] = IF C = a THEN coin ELSE 0
      /\ \A to, a : OfParty(to, a)[y] = IF "borrower" = to /\ C = a THEN coin ELSE 0
  BY AssetNames, PartyNames, OutWeighs
<1>5. Repay(t, coin, left).ok /\ outs = <<x, y>> \o PaidBack(left)
  BY DEF Repay, Composed
<1> HIDE DEF x, y
<1>6. /\ outs \in Seq(Output) /\ Marks(outs)
      /\ 1 \in DOMAIN outs /\ 2 \in DOMAIN outs /\ outs[1] = x /\ outs[2] = y
      /\ \A a \in Assets : Tally(OfAsset(a), outs) = OfAsset(a)[x] + OfAsset(a)[y] + left[a]
      /\ \A to \in Parties \ {"spender"}, a \in Assets :
           Tally(OfParty(to, a), outs) = OfParty(to, a)[x] + OfParty(to, a)[y]
      /\ \A G : x \in G /\ y \in G /\ Returned(left) \subseteq G => outs \in Seq(G)
  <2>1. x.to # "fee" /\ y.to # "fee"
    BY <1>2
  <2>2. LaysTwo(outs, x, y, left)
    BY <1>2, <1>5, <2>1, PaysTwo
  <2> QED
    BY <2>2 DEF LaysTwo
<1>7. Composes(outs, "repay", t, coin, left)
  <2>1. \A a \in Assets : Tally(OfAsset(a), outs)
          = SpendsOf(t, "repay", a) + Owed(coin, CovenantAsset("repay"), a) + left[a]
    BY <1>3, <1>4, <1>6 DEF SpendsOf, CovenantAsset, Owed
  <2>2. Tally(OfParty("vault", C), outs) = 0 /\ Tally(OfParty("offer", D), outs) = 0
    BY <1>3, <1>4, <1>6, PartyNames, AssetNames
  <2> QED
    BY <1>6, <2>1, <2>2 DEF Composes
<1>8. \A feeAsset : Second(outs, "borrower", C, coin, feeAsset)
  BY <1>2, <1>6 DEF Second
<1>9. \A G : {x, y} \subseteq G /\ Returned(left) \subseteq G => outs \in Seq(G)
  BY <1>6
<1> QED
  BY <1>5, <1>6, <1>7, <1>8, <1>9 DEF x, y

(* A recovery: the collateral, to the lender.                              *)
LEMMA RecoverIs ==
  ASSUME NEW t \in Candidates, NEW coin \in Nat, NEW left \in [Assets -> Nat],
         NEW outs, outs = Recover(coin, left).outs
  PROVE  /\ Recover(coin, left).ok /\ Composes(outs, "recover", t, coin, left)
         /\ outs[1] = Out(coin, "lender", C)
         /\ \A G : Out(coin, "lender", C) \in G /\ Returned(left) \subseteq G
                     => outs \in Seq(G)
<1> DEFINE x == Out(coin, "lender", C)
<1>1. coin \in Nat
  OBVIOUS
<1>2. x \in Output /\ x.to = "lender"
  BY <1>1, AssetNames, PartyNames, OutType
<1>3. /\ \A a : OfAsset(a)[x] = IF C = a THEN coin ELSE 0
      /\ \A to, a : OfParty(to, a)[x] = IF "lender" = to /\ C = a THEN coin ELSE 0
  BY <1>1, AssetNames, PartyNames, OutWeighs
<1>4. Recover(coin, left).ok /\ outs = <<x>> \o PaidBack(left)
  BY DEF Recover, Composed
<1> HIDE DEF x
<1>5. /\ outs \in Seq(Output) /\ Marks(outs) /\ 1 \in DOMAIN outs /\ outs[1] = x
      /\ \A a \in Assets : Tally(OfAsset(a), outs) = OfAsset(a)[x] + left[a]
      /\ \A to \in Parties \ {"spender"}, a \in Assets :
           Tally(OfParty(to, a), outs) = OfParty(to, a)[x]
      /\ \A G : x \in G /\ Returned(left) \subseteq G => outs \in Seq(G)
  <2>1. x.to # "fee"
    BY <1>2
  <2>2. LaysOne(outs, x, left)
    BY <1>2, <1>4, <2>1, PaysOne
  <2> QED
    BY <2>2 DEF LaysOne
<1>6. Composes(outs, "recover", t, coin, left)
  <2>1. \A a \in Assets : Tally(OfAsset(a), outs)
          = SpendsOf(t, "recover", a) + Owed(coin, CovenantAsset("recover"), a) + left[a]
    BY <1>1, <1>3, <1>5 DEF SpendsOf, CovenantAsset, Owed
  <2>2. Tally(OfParty("vault", C), outs) = 0
        /\ Tally(OfParty("offer", D), outs) = 0
    BY <1>1, <1>3, <1>5, PartyNames, AssetNames
  <2> QED
    BY <1>5, <2>1, <2>2 DEF Composes
<1> QED
  BY <1>4, <1>5, <1>6 DEF x

(* A withdrawal: the offer, to the lender.                                 *)
LEMMA WithdrawIs ==
  ASSUME NEW t \in Candidates, NEW coin \in Nat, NEW left \in [Assets -> Nat],
         NEW outs, outs = Withdraw(coin, left).outs
  PROVE  /\ Withdraw(coin, left).ok /\ Composes(outs, "withdraw", t, coin, left)
         /\ outs[1] = Out(coin, "lender", D)
         /\ \A G : Out(coin, "lender", D) \in G /\ Returned(left) \subseteq G
                     => outs \in Seq(G)
<1> DEFINE x == Out(coin, "lender", D)
<1>1. coin \in Nat
  OBVIOUS
<1>2. x \in Output /\ x.to = "lender"
  BY <1>1, AssetNames, PartyNames, OutType
<1>3. /\ \A a : OfAsset(a)[x] = IF D = a THEN coin ELSE 0
      /\ \A to, a : OfParty(to, a)[x] = IF "lender" = to /\ D = a THEN coin ELSE 0
  BY <1>1, AssetNames, PartyNames, OutWeighs
<1>4. Withdraw(coin, left).ok /\ outs = <<x>> \o PaidBack(left)
  BY DEF Withdraw, Composed
<1> HIDE DEF x
<1>5. /\ outs \in Seq(Output) /\ Marks(outs) /\ 1 \in DOMAIN outs /\ outs[1] = x
      /\ \A a \in Assets : Tally(OfAsset(a), outs) = OfAsset(a)[x] + left[a]
      /\ \A to \in Parties \ {"spender"}, a \in Assets :
           Tally(OfParty(to, a), outs) = OfParty(to, a)[x]
      /\ \A G : x \in G /\ Returned(left) \subseteq G => outs \in Seq(G)
  <2>1. x.to # "fee"
    BY <1>2
  <2>2. LaysOne(outs, x, left)
    BY <1>2, <1>4, <2>1, PaysOne
  <2> QED
    BY <2>2 DEF LaysOne
<1>6. Composes(outs, "withdraw", t, coin, left)
  <2>1. \A a \in Assets : Tally(OfAsset(a), outs)
          = SpendsOf(t, "withdraw", a) + Owed(coin, CovenantAsset("withdraw"), a) + left[a]
    BY <1>1, <1>3, <1>5 DEF SpendsOf, CovenantAsset, Owed
  <2>2. Tally(OfParty("vault", C), outs) = 0
        /\ Tally(OfParty("offer", D), outs) = 0
    BY <1>1, <1>3, <1>5, PartyNames, AssetNames
  <2> QED
    BY <1>5, <2>1, <2>2 DEF Composes
<1> QED
  BY <1>4, <1>5, <1>6 DEF x

(* The funding of an offer: the lots.                                      *)
LEMMA FundIs ==
  ASSUME NEW t \in Candidates, NEW coin \in Nat, NEW left \in [Assets -> Nat],
         NEW outs, outs = FundOffer(t, left).outs, coin = 0
  PROVE  /\ FundOffer(t, left).ok /\ Composes(outs, "fund", t, coin, left)
         /\ outs[1] = Out(t.principal * Lots, "offer", D)
         /\ \A G : Out(t.principal * Lots, "offer", D) \in G /\ Returned(left) \subseteq G
                     => outs \in Seq(G)
<1> DEFINE x == Out(t.principal * Lots, "offer", D)
<1>1. t.principal * Lots \in Nat
  BY TermsType
<1>2. x \in Output /\ x.to = "offer"
  BY <1>1, AssetNames, PartyNames, OutType
<1>3. /\ \A a : OfAsset(a)[x] = IF D = a THEN t.principal * Lots ELSE 0
      /\ \A to, a : OfParty(to, a)[x] = IF "offer" = to /\ D = a THEN t.principal * Lots ELSE 0
  BY <1>1, AssetNames, PartyNames, OutWeighs
<1>4. FundOffer(t, left).ok /\ outs = <<x>> \o PaidBack(left)
  BY DEF FundOffer, Composed
<1> HIDE DEF x
<1>5. /\ outs \in Seq(Output) /\ Marks(outs) /\ 1 \in DOMAIN outs /\ outs[1] = x
      /\ \A a \in Assets : Tally(OfAsset(a), outs) = OfAsset(a)[x] + left[a]
      /\ \A to \in Parties \ {"spender"}, a \in Assets :
           Tally(OfParty(to, a), outs) = OfParty(to, a)[x]
      /\ \A G : x \in G /\ Returned(left) \subseteq G => outs \in Seq(G)
  <2>1. x.to # "fee"
    BY <1>2
  <2>2. LaysOne(outs, x, left)
    BY <1>2, <1>4, <2>1, PaysOne
  <2> QED
    BY <2>2 DEF LaysOne
<1>6. Composes(outs, "fund", t, coin, left)
  <2>1. \A a \in Assets : Tally(OfAsset(a), outs)
          = SpendsOf(t, "fund", a) + Owed(coin, CovenantAsset("fund"), a) + left[a]
    BY <1>1, <1>3, <1>5 DEF SpendsOf, CovenantAsset, Owed
  <2>2. Tally(OfParty("vault", C), outs) = 0
        /\ Tally(OfParty("offer", D), outs) = t.principal * Lots
    BY <1>1, <1>3, <1>5, PartyNames, AssetNames
  <2> QED
    BY <1>5, <2>1, <2>2 DEF Composes
<1> QED
  BY <1>4, <1>5, <1>6 DEF x

(* A take: the vault, the remainder or the filler, and the principal.  The *)
(* filler comes out of the change.                                         *)
LEMMA TakeIs ==
  ASSUME NEW t \in Candidates, NEW coin \in Nat, NEW left \in [Assets -> Nat],
         NEW feeAsset \in Assets, NEW made, made = Take(t, coin, feeAsset, left), made.ok,
         NEW outs, outs = made.outs
  PROVE  /\ coin >= t.principal /\ Composes(outs, "take", t, coin, left)
         /\ outs[1] = Out(t.collateral, "vault", C)
         /\ Second(outs, "offer", D, coin - t.principal, feeAsset)
         /\ \A G : /\ Out(t.collateral, "vault", C) \in G
                   /\ Out(t.principal, "borrower", D) \in G /\ FeeMark \in G
                   /\ coin > t.principal => Out(coin - t.principal, "offer", D) \in G
                   /\ Returned(left) \subseteq G
                   => outs \in Seq(G)
<1> DEFINE remainder == coin - t.principal
           filler == IF remainder > 0
                     THEN [out |-> <<Out(remainder, "offer", D)>>, left |-> left]
                     ELSE Filler(D, feeAsset, left)
           x == Out(t.collateral, "vault", C)
           z == Out(t.principal, "borrower", D)
<1>1. t.principal \in Nat /\ t.collateral \in Nat /\ remainder \in Int
  BY TermsType
<1>2. /\ ~(remainder < 0) /\ filler.out # <<>>
      /\ outs = ((<<x>> \o filler.out) \o <<z>>) \o PaidBack(filler.left)
  <2> HIDE DEF remainder, filler
  <2>1. made = CASE remainder < 0 -> Refused("drawn")
                 [] remainder >= 0 /\ filler.out = <<>> -> Refused("filler")
                 [] OTHER -> Composed(((<<x>> \o filler.out) \o <<z>>) \o PaidBack(filler.left))
    BY DEF Take, remainder, filler
  <2>2. Refused("drawn").ok = FALSE /\ Refused("filler").ok = FALSE
    BY DEF Refused
  <2>3. ~(remainder < 0) /\ ~(remainder >= 0 /\ filler.out = <<>>)
    BY <2>1, <2>2
  <2>4. made = Composed(((<<x>> \o filler.out) \o <<z>>) \o PaidBack(filler.left))
    BY <2>1, <2>3
  <2>5. outs = ((<<x>> \o filler.out) \o <<z>>) \o PaidBack(filler.left)
    <3> DEFINE laid == ((<<x>> \o filler.out) \o <<z>>) \o PaidBack(filler.left)
    <3> HIDE DEF laid
    <3>1. made = Composed(laid)
      BY <2>4 DEF laid
    <3>2. outs = laid
      BY <3>1 DEF Composed
    <3> QED
      BY <3>2 DEF laid
  <2>6. remainder \in Int
    BY <1>1 DEF remainder
  <2> QED
    BY <2>3, <2>5, <2>6
<1>3. remainder \in Nat
  BY <1>1, <1>2
<1>4. /\ filler.left \in [Assets -> Nat] /\ Returned(filler.left) \subseteq Returned(left)
      /\ \E o \in Output :
           /\ filler.out = <<o>>
           /\ \/ remainder > 0 /\ o = Out(remainder, "offer", D)
              \/ ~(remainder > 0) /\ o = FeeMark /\ feeAsset # D
              \/ ~(remainder > 0) /\ o \in Returned(left) /\ o.to = "spender" /\ o.asset # D
           /\ \A a \in Assets : OfAsset(a)[o] + filler.left[a] = Owed(remainder, D, a) + left[a]
  <2>1. CASE remainder > 0
    <3>1. filler.out = <<Out(remainder, "offer", D)>> /\ filler.left = left
      BY <2>1
    <3>2. Out(remainder, "offer", D) \in Output
          /\ \A a : OfAsset(a)[Out(remainder, "offer", D)] = IF D = a THEN remainder ELSE 0
      <4> HIDE DEF remainder
      <4> QED
        BY <1>3, AssetNames, PartyNames, OutType, OutWeighs
    <3>3. \A a \in Assets : OfAsset(a)[Out(remainder, "offer", D)] + left[a]
                              = Owed(remainder, D, a) + left[a]
      BY <3>2 DEF Owed
    <3> HIDE DEF remainder, filler
    <3> QED
      BY <2>1, <3>1, <3>2, <3>3
  <2>2. CASE ~(remainder > 0)
    <3>1. filler = Filler(D, feeAsset, left)
      BY <2>2
    <3>2. \A a \in Assets : Owed(remainder, D, a) + left[a] = left[a]
      BY <1>3, <2>2 DEF Owed
    <3> HIDE DEF remainder, filler
    <3>3. /\ filler.left \in [Assets -> Nat] /\ Returned(filler.left) \subseteq Returned(left)
          /\ \E o \in Output :
              /\ filler.out = <<o>>
              /\ \/ o = FeeMark /\ feeAsset # D
                 \/ o \in Returned(left) /\ o.to = "spender" /\ o.asset # D
              /\ \A a \in Assets : OfAsset(a)[o] + filler.left[a] = left[a]
      BY <1>2, <3>1, AssetNames, FillerIs
    <3> QED
      BY <2>2, <3>2, <3>3
  <2> QED
    BY <2>1, <2>2
<1> HIDE DEF filler
<1>5. PICK o \in Output :
           /\ filler.out = <<o>>
           /\ \/ remainder > 0 /\ o = Out(remainder, "offer", D)
              \/ ~(remainder > 0) /\ o = FeeMark /\ feeAsset # D
              \/ ~(remainder > 0) /\ o \in Returned(left) /\ o.to = "spender" /\ o.asset # D
           /\ \A a \in Assets : OfAsset(a)[o] + filler.left[a] = Owed(remainder, D, a) + left[a]
  BY <1>4
<1> HIDE DEF remainder
<1>6. /\ x \in Output /\ x.to = "vault" /\ z \in Output /\ z.to = "borrower"
  BY <1>1, AssetNames, PartyNames, OutType
<1>7. /\ \A a : OfAsset(a)[x] = IF C = a THEN t.collateral ELSE 0
      /\ \A to, a : OfParty(to, a)[x] = IF "vault" = to /\ C = a THEN t.collateral ELSE 0
  BY <1>1, AssetNames, PartyNames, OutWeighs
<1>8. /\ \A a : OfAsset(a)[z] = IF D = a THEN t.principal ELSE 0
      /\ \A to, a : OfParty(to, a)[z] = IF "borrower" = to /\ D = a THEN t.principal ELSE 0
  BY <1>1, AssetNames, PartyNames, OutWeighs
<1>9. /\ remainder > 0 => o.to = "offer" /\ o.asset = D /\ o.amt = remainder
      /\ OfParty("vault", C)[o] = 0
      /\ OfParty("offer", D)[o] = remainder
  <2>0. FeeMark.to = "fee" /\ FeeMark.asset = F /\ FeeMark.amt = 0
    BY DEF FeeMark, Out
  <2>1. CASE remainder > 0
    <3>1. o = Out(remainder, "offer", D)
      BY <1>5, <2>1
    <3> QED
      BY <1>3, <3>1, AssetNames, PartyNames, OutType, OutWeighs
  <2>2. CASE ~(remainder > 0)
    <3>1. o.to = "fee" \/ o.to = "spender"
      BY <1>5, <2>0, <2>2
    <3>2. remainder = 0
      BY <1>3, <2>2
    <3> QED
      BY <1>5, <2>2, <3>1, <3>2 DEF OfParty
  <2> QED
    BY <2>1, <2>2
<1> HIDE DEF x, z
<1>10. (<<x>> \o <<o>>) \o <<z>> = <<x, o, z>>
  <2>1. <<x>> \o <<o>> = <<x, o>>
    BY <1>5, <1>6, PairJoins
  <2>2. <<x, o>> \o <<z>> = <<x, o, z>>
    BY <1>5, <1>6, TripleJoins
  <2> QED
    BY <2>1, <2>2
<1>11. LaysThree(outs, x, o, z, filler.left)
  <2>1. x.to # "fee" /\ z.to # "fee"
    BY <1>6
  <2>2. o.to # "fee" \/ o = FeeMark
    BY <1>5, <1>9
  <2>3. outs = <<x, o, z>> \o PaidBack(filler.left)
    BY <1>2, <1>5, <1>10
  <2>4. filler.left \in [Assets -> Nat]
    BY <1>4
  <2> QED
    BY ONLY <1>5, <1>6, <2>1, <2>2, <2>3, <2>4, PaysThree
<1>12. Composes(outs, "take", t, coin, left)
  <2>0. /\ outs \in Seq(Output) /\ Marks(outs) /\ 1 \in DOMAIN outs
        /\ \A a \in Assets : Tally(OfAsset(a), outs)
             = OfAsset(a)[x] + OfAsset(a)[o] + OfAsset(a)[z] + filler.left[a]
        /\ \A to \in Parties \ {"spender"}, a \in Assets :
             Tally(OfParty(to, a), outs) = OfParty(to, a)[x] + OfParty(to, a)[o] + OfParty(to, a)[z]
    BY <1>11 DEF LaysThree
  <2>1. ASSUME NEW a \in Assets
        PROVE  Tally(OfAsset(a), outs)
                 = SpendsOf(t, "take", a) + Owed(coin, CovenantAsset("take"), a) + left[a]
    <3>1. SpendsOf(t, "take", a) = Owed(t.collateral, C, a) /\ CovenantAsset("take") = D
      BY DEF SpendsOf, CovenantAsset
    <3>2. OfAsset(a)[x] = Owed(t.collateral, C, a) /\ OfAsset(a)[z] = Owed(t.principal, D, a)
      BY <1>7, <1>8 DEF Owed
    <3>3. OfAsset(a)[o] + filler.left[a] = Owed(remainder, D, a) + left[a]
      BY <1>5
    <3>4. OfAsset(a)[o] \in Nat /\ filler.left[a] \in Nat /\ left[a] \in Nat
      BY <1>4, <1>5, WeightTypes
    <3>5. Owed(remainder, D, a) + Owed(t.principal, D, a) = Owed(coin, D, a)
      BY <1>1 DEF Owed, remainder
    <3>6. Owed(remainder, D, a) \in Int /\ Owed(t.principal, D, a) \in Int
          /\ Owed(coin, D, a) \in Int /\ Owed(t.collateral, C, a) \in Int
      BY <1>1 DEF Owed
    <3>7. Tally(OfAsset(a), outs)
            = OfAsset(a)[x] + OfAsset(a)[o] + OfAsset(a)[z] + filler.left[a]
      BY <2>0
    <3>8. Tally(OfAsset(a), outs) = Owed(t.collateral, C, a) + OfAsset(a)[o]
            + Owed(t.principal, D, a) + filler.left[a]
      BY <3>2, <3>7
    <3>9. Tally(OfAsset(a), outs) = Owed(t.collateral, C, a) + Owed(coin, D, a) + left[a]
      BY ONLY <3>3, <3>4, <3>5, <3>6, <3>8
    <3> QED
      BY <3>1, <3>9
  <2>2. Tally(OfParty("vault", C), outs) = t.collateral
    BY <1>1, <1>7, <1>8, <1>9, <2>0, PartyNames, AssetNames
  <2>3. Tally(OfParty("offer", D), outs) = remainder
    BY <1>1, <1>7, <1>8, <1>9, <2>0, PartyNames, AssetNames
  <2> QED
    BY <2>0, <2>1, <2>2, <2>3 DEF Composes, remainder
<1>13. Second(outs, "offer", D, coin - t.principal, feeAsset)
  <2>1. 2 \in DOMAIN outs /\ outs[2] = o
    BY <1>11 DEF LaysThree
  <2>2. FeeMark.to = "fee"
    BY DEF FeeMark, Out
  <2>3. CASE remainder > 0
    BY <1>1, <1>9, <2>1, <2>3 DEF Second, remainder
  <2>4. CASE ~(remainder > 0)
    <3>1. coin - t.principal <= 0
      BY <1>1, <2>4 DEF remainder
    <3>2. (o.to = "fee" /\ feeAsset # D) \/ (o.to # "fee" /\ o.asset # D)
      BY <1>5, <2>2, <2>4
    <3> QED
      BY <2>1, <3>1, <3>2 DEF Second
  <2> QED
    BY <2>3, <2>4
<1>14. ASSUME NEW G, x \in G, z \in G, FeeMark \in G, Returned(left) \subseteq G,
              coin > t.principal => Out(coin - t.principal, "offer", D) \in G
       PROVE  outs \in Seq(G)
  <2>1. o \in G
    BY <1>1, <1>5, <1>14 DEF remainder
  <2>2. Returned(filler.left) \subseteq G
    BY <1>4, <1>14
  <2> QED
    BY <1>11, <1>14, <2>1, <2>2 DEF LaysThree
<1>15. coin >= t.principal /\ outs[1] = x
  BY <1>1, <1>3, <1>11 DEF LaysThree, remainder
<1> QED
  BY <1>12, <1>13, <1>14, <1>15 DEF x, z

(* Rounding up.                                                            *)
LEMMA CeilDivIs ==
  ASSUME NEW n \in Nat, NEW d \in Nat, d >= 1
  PROVE  /\ CeilDiv(n, d) \in Nat
         /\ d * CeilDiv(n, d) >= n /\ d * CeilDiv(n, d) < n + d
         /\ n >= 1 => CeilDiv(n, d) >= 1
<1> DEFINE q == (n + d - 1) \div d
<1>1. n + d - 1 \in Nat
  OBVIOUS
<1>2. q \in Int /\ d * q <= n + d - 1 /\ n + d - 1 < d * q + d
  BY <1>1
<1>3. q >= 0
  BY <1>1, <1>2
<1> HIDE DEF q
<1>4. d * q \in Int
  BY <1>2
<1>5. d * q >= n /\ d * q < n + d
  BY <1>2, <1>4
<1>6. n >= 1 => q >= 1
  <2> SUFFICES ASSUME n >= 1, q = 0 PROVE FALSE
    BY <1>2, <1>3
  <2> QED
    BY <1>5
<1> QED
  BY <1>2, <1>3, <1>5, <1>6 DEF CeilDiv, q

(* What a seizure may take is worth the debt and the bonus, rounded up by  *)
(* less than an atom.                                                      *)
LEMMA SeizureIs ==
  ASSUME NEW t \in Candidates, Valid(t), NEW price \in Nat, price >= 1
  PROVE  /\ Gross(t) \in Nat /\ Gross(t) >= 1 /\ Gross(t) * t.price_scale \in Nat
         /\ SeizureAt(t, price) \in Nat /\ SeizureAt(t, price) >= 1
         /\ price * SeizureAt(t, price) < Gross(t) * t.price_scale + price
<1>1. /\ t.debt \in Nat /\ t.bonus_num \in Nat /\ t.bonus_den \in Nat /\ t.price_scale \in Nat
      /\ t.debt >= 1 /\ t.bonus_den >= 1 /\ t.bonus_num >= 1 /\ t.price_scale >= 1
  BY TermsType DEF Valid
<1>2. t.debt * t.bonus_num \in Nat /\ t.debt * t.bonus_num >= 1
  <2>1. \A m, n \in Nat : m >= 1 /\ n >= 1 => m * n \in Nat /\ m * n >= 1
    OBVIOUS
  <2> QED
    BY <1>1, <2>1
<1>3. Gross(t) \in Nat /\ Gross(t) >= 1
  BY <1>1, <1>2, CeilDivIs DEF Gross
<1> DEFINE n == Gross(t) * t.price_scale
<1>4. n \in Nat /\ n >= 1
  <2>1. \A m, k \in Nat : m >= 1 /\ k >= 1 => m * k \in Nat /\ m * k >= 1
    OBVIOUS
  <2> QED
    BY <1>1, <1>3, <2>1
<1> HIDE DEF n
<1>5. CeilDiv(n, price) \in Nat /\ CeilDiv(n, price) >= 1 /\ price * CeilDiv(n, price) < n + price
  BY <1>4, CeilDivIs
<1>6. SeizureAt(t, price) = CeilDiv(n, price)
  BY DEF SeizureAt, n
<1> QED
  BY <1>3, <1>4, <1>5, <1>6 DEF n

(* Keeping no more than the covenant's share keeps less than an atom more  *)
(* than what it is worth.                                                  *)
LEMMA KeptIsGross ==
  ASSUME NEW t \in Candidates, Valid(t), NEW price \in Nat, price >= 1,
         NEW kept \in Int, kept <= SeizureAt(t, price)
  PROVE  (kept - 1) * price < Gross(t) * t.price_scale
<1> DEFINE s == SeizureAt(t, price)
           n == Gross(t) * t.price_scale
<1>1. s \in Nat /\ n \in Nat /\ price * s < n + price
  BY SeizureIs
<1> HIDE DEF s, n
<1>2. kept <= s
  BY DEF s
<1>3. (kept - 1) * price <= (s - 1) * price
  BY <1>1, <1>2
<1>4. (s - 1) * price = price * s - price /\ price * s \in Int /\ (kept - 1) * price \in Int
  BY <1>1
<1> QED
  BY <1>1, <1>3, <1>4 DEF n

(* A seizure: the debt, the return or the filler, and the rest of the      *)
(* collateral.  The return is lifted out of what is taken, never lowered.  *)
LEMMA SeizureLays ==
  ASSUME NEW t \in Candidates, Valid(t), NEW coin \in Nat, NEW price \in Nat, price >= 1,
         NEW left \in [Assets -> Nat], NEW feeAsset \in Priced,
         NEW made, made = Seizure(t, coin, price, feeAsset, left), made.ok,
         NEW outs, outs = made.outs, NEW exit \in Seizures
  PROVE  /\ Composes(outs, exit, t, coin, left)
         /\ outs[1] = Out(t.debt, "lender", D)
         /\ Second(outs, "borrower", C, coin - SeizureAt(t, price), feeAsset)
         /\ coin - Tally(OfParty("borrower", C), outs) <= SeizureAt(t, price)
         /\ \A G : /\ Out(t.debt, "lender", D) \in G /\ FeeMark \in G
                   /\ \A n \in 1..coin, to \in {"borrower", "spender"} :
                        (n >= DustAtoms(C) \/ n = coin \/ feeAsset # C) => Out(n, to, C) \in G
                   /\ coin >= 1 /\ Returned(left) \subseteq G
                   => outs \in Seq(G)
<1> DEFINE seize == SeizureAt(t, price)
           surplus == coin - seize
           dust == IF feeAsset = C THEN DustAtoms(C) ELSE 0
           lifted == Larger(surplus, dust)
           filler == Filler(C, feeAsset, left)
           x == Out(t.debt, "lender", D)
           poor == seize < dust \/ coin - lifted < dust
           whole == ((<<x>> \o filler.out) \o <<Out(coin, "spender", C)>>) \o PaidBack(filler.left)
           split == <<x, Out(lifted, "borrower", C), Out(coin - lifted, "spender", C)>>
                      \o PaidBack(left)
<1>0. feeAsset \in Assets
  BY AtomsType
<1>1. /\ t.debt \in Nat /\ seize \in Nat /\ seize >= 1 /\ surplus \in Int /\ surplus < coin
      /\ dust \in Nat /\ lifted \in Int /\ lifted >= surplus /\ lifted >= dust
      /\ (lifted = surplus \/ lifted = dust)
      /\ feeAsset = C => dust = DustAtoms(C) /\ dust >= 1
      /\ feeAsset # C => dust = 0
  <2>1. t.debt \in Nat
    BY TermsType
  <2>2. seize \in Nat /\ seize >= 1
    BY SeizureIs
  <2> HIDE DEF seize
  <2>3. surplus \in Int /\ surplus < coin
    BY <2>2
  <2>4. /\ dust \in Nat
        /\ feeAsset = C => dust = DustAtoms(C) /\ dust >= 1
        /\ feeAsset # C => dust = 0
    BY AtomsType
  <2> HIDE DEF dust, surplus
  <2>5. lifted \in Int /\ lifted >= surplus /\ lifted >= dust
        /\ (lifted = surplus \/ lifted = dust)
    BY <2>3, <2>4 DEF Larger
  <2> QED
    BY <2>1, <2>2, <2>3, <2>4, <2>5
<1>2. /\ x \in Output /\ x.to = "lender"
      /\ \A a : OfAsset(a)[x] = IF D = a THEN t.debt ELSE 0
      /\ \A to, a : OfParty(to, a)[x] = IF "lender" = to /\ D = a THEN t.debt ELSE 0
  BY <1>1, AssetNames, PartyNames, OutType, OutWeighs
<1>3. made = CASE surplus > 0 /\ poor -> Refused("dust")
               [] surplus > 0 /\ ~poor -> Composed(split)
               [] surplus <= 0 /\ filler.out = <<>> -> Refused("filler")
               [] OTHER -> Composed(whole)
  BY DEF Seizure
<1>4. Refused("dust").ok = FALSE /\ Refused("filler").ok = FALSE
  BY DEF Refused
<1>5. SpendsOf(t, exit, C) = 0 /\ CovenantAsset(exit) = C
      /\ exit # "take" /\ exit # "fund"
      /\ \A a : SpendsOf(t, exit, a) = Owed(t.debt, D, a)
  <2>1. exit = "liquidate" \/ exit = "default"
    BY DEF Seizures
  <2> QED
    BY <2>1, AssetsDiffer DEF SpendsOf, CovenantAsset, Owed
<1>6. CASE surplus > 0
  <2> DEFINE y == Out(lifted, "borrower", C)
             z == Out(coin - lifted, "spender", C)
  <2>1. ~poor /\ outs = <<x, y, z>> \o PaidBack(left)
    <3> HIDE DEF split, whole, poor, surplus, filler
    <3>1. ~poor
      BY <1>3, <1>4, <1>6
    <3>2. made = Composed(split)
      <4>1. ~(surplus <= 0)
        BY <1>1, <1>6
      <4> QED
        BY <1>3, <1>6, <3>1, <4>1
    <3>3. outs = split
      BY <3>2 DEF Composed
    <3> QED
      BY <3>1, <3>3 DEF split
  <2> HIDE DEF x, split, whole
  <2>2. /\ lifted \in Nat /\ lifted >= 1 /\ coin - lifted \in Nat /\ coin - lifted >= dust
        /\ coin - lifted >= 1
    <3> HIDE DEF seize, dust, surplus, lifted
    <3>1. coin - lifted >= dust
      BY <1>1, <2>1
    <3>2. lifted >= 1 /\ lifted \in Nat
      BY <1>1, <1>6
    <3>3. CASE lifted = surplus
      BY <1>1, <3>1, <3>2, <3>3
    <3>4. CASE lifted = dust
      BY <1>1, <3>1, <3>2, <3>4
    <3> QED
      BY <1>1, <3>3, <3>4
  <2> HIDE DEF poor, lifted, seize, dust, surplus, filler
  <2>3. /\ y \in Output /\ y.to = "borrower" /\ y.asset = C /\ y.amt = lifted
        /\ z \in Output /\ z.to = "spender"
    BY <2>2, AssetNames, PartyNames, OutType
  <2>4. /\ \A a : OfAsset(a)[y] = IF C = a THEN lifted ELSE 0
        /\ \A to, a : OfParty(to, a)[y] = IF "borrower" = to /\ C = a THEN lifted ELSE 0
    BY <2>2, AssetNames, PartyNames, OutWeighs
  <2>5. /\ \A a : OfAsset(a)[z] = IF C = a THEN coin - lifted ELSE 0
        /\ \A to, a : OfParty(to, a)[z] = IF "spender" = to /\ C = a THEN coin - lifted ELSE 0
    BY <2>2, AssetNames, PartyNames, OutWeighs
  <2> HIDE DEF y, z
  <2>6. LaysThree(outs, x, y, z, left)
    <3>1. x.to # "fee" /\ z.to # "fee" /\ (y.to # "fee" \/ y = FeeMark)
      BY <1>2, <2>3
    <3>2. x \in Output /\ y \in Output /\ z \in Output /\ left \in [Assets -> Nat]
          /\ outs = <<x, y, z>> \o PaidBack(left)
      BY <1>2, <2>1, <2>3
    <3> QED
      BY ONLY <3>1, <3>2, PaysThree
  <2>7. /\ outs \in Seq(Output) /\ Marks(outs) /\ 1 \in DOMAIN outs /\ 2 \in DOMAIN outs
        /\ outs[1] = x /\ outs[2] = y
        /\ \A a \in Assets : Tally(OfAsset(a), outs)
             = OfAsset(a)[x] + OfAsset(a)[y] + OfAsset(a)[z] + left[a]
        /\ \A to \in Parties \ {"spender"}, a \in Assets :
             Tally(OfParty(to, a), outs) = OfParty(to, a)[x] + OfParty(to, a)[y] + OfParty(to, a)[z]
        /\ \A G : x \in G /\ y \in G /\ z \in G /\ Returned(left) \subseteq G => outs \in Seq(G)
    BY <2>6 DEF LaysThree
  <2>8. Composes(outs, exit, t, coin, left)
    <3>1. ASSUME NEW a \in Assets
          PROVE  Tally(OfAsset(a), outs)
                   = SpendsOf(t, exit, a) + Owed(coin, CovenantAsset(exit), a) + left[a]
      <4>1. Tally(OfAsset(a), outs) = OfAsset(a)[x] + OfAsset(a)[y] + OfAsset(a)[z] + left[a]
        BY <2>7
      <4>2. OfAsset(a)[x] = Owed(t.debt, D, a) /\ OfAsset(a)[y] = Owed(lifted, C, a)
            /\ OfAsset(a)[z] = Owed(coin - lifted, C, a)
        BY <1>2, <2>4, <2>5 DEF Owed
      <4>3. Owed(lifted, C, a) + Owed(coin - lifted, C, a) = Owed(coin, C, a)
            /\ Owed(lifted, C, a) \in Nat /\ Owed(coin - lifted, C, a) \in Nat
            /\ Owed(t.debt, D, a) \in Nat /\ left[a] \in Nat /\ Owed(coin, C, a) \in Nat
        BY <1>1, <2>2 DEF Owed
      <4>4. Tally(OfAsset(a), outs) = Owed(t.debt, D, a) + Owed(coin, C, a) + left[a]
        BY ONLY <4>1, <4>2, <4>3
      <4> QED
        BY <1>5, <4>4
    <3>2. Tally(OfParty("vault", C), outs) = 0 /\ Tally(OfParty("offer", D), outs) = 0
      BY <1>2, <2>4, <2>5, <2>7, PartyNames, AssetNames
    <3> QED
      BY <1>5, <2>7, <3>1, <3>2 DEF Composes
  <2>9. Second(outs, "borrower", C, coin - seize, feeAsset)
    <3>1. lifted >= coin - seize
      BY <1>1 DEF surplus
    <3> QED
      BY <2>3, <2>7, <3>1 DEF Second
  <2>10. coin - Tally(OfParty("borrower", C), outs) <= seize
    <3>1. Tally(OfParty("borrower", C), outs) = lifted
      BY <1>2, <2>2, <2>4, <2>5, <2>7, PartyNames, AssetNames
    <3> QED
      BY <1>1, <3>1 DEF surplus
  <2>11. ASSUME NEW G, x \in G, Returned(left) \subseteq G,
                \A n \in 1..coin, to \in {"borrower", "spender"} :
                  (n >= DustAtoms(C) \/ n = coin \/ feeAsset # C) => Out(n, to, C) \in G
         PROVE  outs \in Seq(G)
    <3>1. lifted \in 1..coin /\ coin - lifted \in 1..coin
      BY <2>2
    <3>2. feeAsset = C => lifted >= DustAtoms(C) /\ coin - lifted >= DustAtoms(C)
      BY <1>1, <2>2
    <3>3. y \in G /\ z \in G
      BY <2>11, <3>1, <3>2 DEF y, z
    <3> QED
      BY <2>7, <2>11, <3>3
  <2> QED
    BY <2>7, <2>8, <2>9, <2>10, <2>11 DEF x, seize
<1>7. CASE ~(surplus > 0)
  <2> DEFINE z == Out(coin, "spender", C)
  <2>1. filler.out # <<>> /\ outs = whole
    <3> HIDE DEF split, whole, poor, filler, surplus
    <3>1. surplus <= 0
      BY <1>1, <1>7
    <3>2. filler.out # <<>> /\ made = Composed(whole)
      BY <1>3, <1>4, <1>7, <3>1
    <3>3. outs = whole
      BY <3>2 DEF Composed
    <3> QED
      BY <3>2, <3>3
  <2>2. /\ filler.left \in [Assets -> Nat] /\ Returned(filler.left) \subseteq Returned(left)
        /\ \E o \in Output :
              /\ filler.out = <<o>>
              /\ \/ o = FeeMark /\ feeAsset # C
                 \/ o \in Returned(left) /\ o.to = "spender" /\ o.asset # C
              /\ \A a \in Assets : OfAsset(a)[o] + filler.left[a] = left[a]
    BY <1>0, <2>1, AssetNames, FillerIs
  <2> HIDE DEF filler, x, z, split, lifted, poor
  <2>3. PICK o \in Output :
              /\ filler.out = <<o>>
              /\ \/ o = FeeMark /\ feeAsset # C
                 \/ o \in Returned(left) /\ o.to = "spender" /\ o.asset # C
              /\ \A a \in Assets : OfAsset(a)[o] + filler.left[a] = left[a]
    BY <2>2
  <2>4. z \in Output /\ z.to = "spender"
        /\ (\A a : OfAsset(a)[z] = IF C = a THEN coin ELSE 0)
        /\ (\A to, a : OfParty(to, a)[z] = IF "spender" = to /\ C = a THEN coin ELSE 0)
    BY AssetNames, PartyNames, OutType, OutWeighs DEF z
  <2>5. (o.to = "fee" \/ o.to = "spender") /\ (o.to # "fee" \/ o = FeeMark)
        /\ ((o.to = "fee" /\ feeAsset # C) \/ (o.to # "fee" /\ o.asset # C))
    <3>1. FeeMark.to = "fee"
      BY DEF FeeMark, Out
    <3> QED
      BY <2>3, <3>1
  <2>6. outs = <<x, o, z>> \o PaidBack(filler.left)
    <3>1. <<x>> \o <<o>> = <<x, o>>
      BY <1>2, <2>3, PairJoins
    <3>2. <<x, o>> \o <<z>> = <<x, o, z>>
      BY <1>2, <2>3, <2>4, TripleJoins
    <3>3. whole = ((<<x>> \o <<o>>) \o <<z>>) \o PaidBack(filler.left)
      BY <2>3 DEF whole, z
    <3> QED
      BY <2>1, <3>1, <3>2, <3>3
  <2> HIDE DEF whole
  <2>7. LaysThree(outs, x, o, z, filler.left)
    <3>1. x.to # "fee" /\ z.to # "fee" /\ (o.to # "fee" \/ o = FeeMark)
      BY <1>2, <2>4, <2>5
    <3>2. x \in Output /\ o \in Output /\ z \in Output /\ filler.left \in [Assets -> Nat]
      BY <1>2, <2>2, <2>4
    <3> QED
      BY ONLY <2>6, <3>1, <3>2, PaysThree
  <2>8. /\ outs \in Seq(Output) /\ Marks(outs) /\ 1 \in DOMAIN outs /\ 2 \in DOMAIN outs
        /\ outs[1] = x /\ outs[2] = o
        /\ \A a \in Assets : Tally(OfAsset(a), outs)
             = OfAsset(a)[x] + OfAsset(a)[o] + OfAsset(a)[z] + filler.left[a]
        /\ \A to \in Parties \ {"spender"}, a \in Assets :
             Tally(OfParty(to, a), outs) = OfParty(to, a)[x] + OfParty(to, a)[o] + OfParty(to, a)[z]
        /\ \A G : x \in G /\ o \in G /\ z \in G /\ Returned(filler.left) \subseteq G
                    => outs \in Seq(G)
    BY <2>7 DEF LaysThree
  <2>9. \A to \in {"vault", "offer", "borrower"} : \A a : OfParty(to, a)[o] = 0
    BY <2>3, <2>5 DEF OfParty
  <2>10. Composes(outs, exit, t, coin, left)
    <3>1. ASSUME NEW a \in Assets
          PROVE  Tally(OfAsset(a), outs)
                   = SpendsOf(t, exit, a) + Owed(coin, CovenantAsset(exit), a) + left[a]
      <4>1. Tally(OfAsset(a), outs)
              = OfAsset(a)[x] + OfAsset(a)[o] + OfAsset(a)[z] + filler.left[a]
        BY <2>8
      <4>2. OfAsset(a)[x] = Owed(t.debt, D, a) /\ OfAsset(a)[z] = Owed(coin, C, a)
            /\ OfAsset(a)[o] + filler.left[a] = left[a]
        BY <1>2, <2>3, <2>4 DEF Owed
      <4>3. /\ Owed(t.debt, D, a) \in Nat /\ left[a] \in Nat /\ Owed(coin, C, a) \in Nat
            /\ OfAsset(a)[o] \in Nat /\ filler.left[a] \in Nat
        BY <1>1, <2>2, <2>3, WeightTypes DEF Owed
      <4>4. Tally(OfAsset(a), outs) = Owed(t.debt, D, a) + Owed(coin, C, a) + left[a]
        BY ONLY <4>1, <4>2, <4>3
      <4> QED
        BY <1>5, <4>4
    <3>2. Tally(OfParty("vault", C), outs) = 0 /\ Tally(OfParty("offer", D), outs) = 0
      <4>1. /\ OfParty("vault", C)[x] = 0 /\ OfParty("offer", D)[x] = 0
            /\ OfParty("vault", C)[z] = 0 /\ OfParty("offer", D)[z] = 0
        BY <1>2, <2>4
      <4>2. OfParty("vault", C)[o] = 0 /\ OfParty("offer", D)[o] = 0
        BY <2>9
      <4> QED
        BY <2>8, <4>1, <4>2, PartyNames, AssetNames
    <3> QED
      BY <1>5, <2>8, <3>1, <3>2 DEF Composes
  <2>11. Second(outs, "borrower", C, coin - seize, feeAsset)
    <3>1. coin - seize <= 0
      BY <1>1, <1>7 DEF surplus
    <3> QED
      BY <2>5, <2>8, <3>1 DEF Second
  <2>12. coin - Tally(OfParty("borrower", C), outs) <= seize
    <3>1. Tally(OfParty("borrower", C), outs) = 0
      BY <1>2, <2>4, <2>8, <2>9, PartyNames, AssetNames
    <3> QED
      BY <1>1, <1>7, <3>1 DEF surplus
  <2>13. ASSUME NEW G, x \in G, FeeMark \in G, Returned(left) \subseteq G, coin >= 1,
                \A n \in 1..coin, to \in {"borrower", "spender"} :
                  (n >= DustAtoms(C) \/ n = coin \/ feeAsset # C) => Out(n, to, C) \in G
         PROVE  outs \in Seq(G)
    <3>1. coin \in 1..coin
      BY <2>13
    <3>2. z \in G
      BY <2>13, <3>1 DEF z
    <3>3. o \in G
      BY <2>3, <2>13
    <3> QED
      BY <2>2, <2>8, <2>13, <3>2, <3>3
  <2> QED
    BY <2>8, <2>10, <2>11, <2>12, <2>13 DEF x, seize
<1> QED
  BY <1>6, <1>7

-----------------------------------------------------------------------------
(* The evidence of a seizure.                                              *)

(* One of finitely many things is the highest.                             *)
LEMMA HighestExists ==
  ASSUME NEW S, IsFiniteSet(S), NEW f, \A e \in S : f[e] \in Nat, S # {}
  PROVE  \E m \in S : \A e \in S : f[e] <= f[m]
<1> DEFINE P == {s \in SUBSET S : s = {} \/ \E m \in s : \A e \in s : f[e] <= f[m]}
<1>1. {} \in P
  OBVIOUS
<1>2. ASSUME NEW s \in SUBSET S, NEW e \in S, s \in P, e \notin s
      PROVE  s \cup {e} \in P
  <2>1. CASE s = {}
    <3>1. s \cup {e} = {e} /\ f[e] <= f[e]
      BY <2>1
    <3> QED
      BY <3>1
  <2>2. CASE s # {}
    <3>1. PICK m \in s : \A x \in s : f[x] <= f[m]
      BY <1>2, <2>2
    <3>2. f[m] \in Nat /\ f[e] \in Nat /\ \A x \in s : f[x] \in Nat
      BY <3>1
    <3>3. CASE f[e] <= f[m]
      <4>1. \A x \in s \cup {e} : f[x] <= f[m]
        BY <3>1, <3>3
      <4> QED
        BY <3>1, <4>1
    <3>4. CASE ~(f[e] <= f[m])
      <4>1. \A x \in s \cup {e} : f[x] <= f[e]
        BY <3>1, <3>2, <3>4
      <4> QED
        BY <4>1
    <3> QED
      BY <3>3, <3>4
  <2> QED
    BY <2>1, <2>2
<1> HIDE DEF P
<1>3. \A s \in SUBSET S : s \in P
  BY <1>1, <1>2, SubsetsReached
<1> QED
  BY <1>3 DEF P

(* One of some things is the lowest.                                       *)
LEMMA LowestExists ==
  ASSUME NEW S, NEW f, \A e \in S : f[e] \in Nat, S # {}
  PROVE  \E m \in S : \A e \in S : f[m] <= f[e]
<1> DEFINE N == {f[e] : e \in S}
<1>1. N \in SUBSET Nat /\ N # {}
  OBVIOUS
<1> HIDE DEF N
<1>2. PICK n \in N : \A k \in N : n <= k
  BY <1>1, LeastExists
<1> QED
  BY <1>2 DEF N

(* The price of some slots is the highest of them.                         *)
LEMMA MaxPriceIs ==
  ASSUME NEW given, NEW S, IsFiniteSet(S), S # {}, \A o \in S : given[o].price \in Nat
  PROVE  /\ MaxPrice(given, S) \in Nat
         /\ \E o \in S : MaxPrice(given, S) = given[o].price
         /\ \A o \in S : given[o].price <= MaxPrice(given, S)
<1> DEFINE f == [o \in S |-> given[o].price]
           N == {given[o].price : o \in S}
<1>1. \E m \in S : \A e \in S : f[e] <= f[m]
  <2>1. \A e \in S : f[e] \in Nat
    OBVIOUS
  <2> HIDE DEF f
  <2> QED
    BY <2>1, HighestExists
<1>2. \E n \in N : \A k \in N : n >= k
  <2>1. PICK m \in S : \A e \in S : f[e] <= f[m]
    BY <1>1
  <2>2. \A e \in S : given[m].price >= given[e].price
    BY <2>1
  <2> QED
    BY <2>2
<1>3. MaxPrice(given, S) = CHOOSE n \in N : \A k \in N : n >= k
  BY DEF MaxPrice, Max
<1>4. MaxPrice(given, S) \in N /\ \A k \in N : MaxPrice(given, S) >= k
  <2> HIDE DEF N
  <2> QED
    BY <1>2, <1>3
<1>5. \A k \in N : k \in Nat
  OBVIOUS
<1>6. \A o \in S : given[o].price \in N
  OBVIOUS
<1> QED
  BY <1>4, <1>5, <1>6

(* Any number of slots has a choice of the lowest prices.                  *)
LEMMA LowestSlots ==
  ASSUME NEW given, NEW U, IsFiniteSet(U), \A o \in U : given[o].price \in Nat,
         NEW n \in Nat, n <= Cardinality(U)
  PROVE  \E S \in kSubset(n, U) :
           \A o \in S, p \in U \ S : given[o].price <= given[p].price
<1> DEFINE Low(S) == \A o \in S, p \in U \ S : given[o].price <= given[p].price
           K == {j \in Nat : j <= n => \E S \in SUBSET U : Cardinality(S) = j /\ Low(S)}
<1>1. 0 \in K
  <2>1. Cardinality({}) = 0 /\ Low({}) /\ {} \in SUBSET U
    BY FS_EmptySet
  <2> HIDE DEF Low
  <2> QED
    BY <2>1
<1>2. ASSUME NEW j \in Nat, j < n, j \in K PROVE j + 1 \in K
  <2>1. PICK S \in SUBSET U : Cardinality(S) = j /\ Low(S)
    <3> HIDE DEF Low
    <3> QED
      BY <1>2
  <2>2. IsFiniteSet(S)
    BY FS_Subset
  <2>3. U \ S # {}
    <3>1. S # U
      BY <1>2, <2>1, FS_CardinalityType
    <3> QED
      BY <3>1
  <2>4. PICK m \in U \ S : \A e \in U \ S : given[m].price <= given[e].price
    <3> DEFINE f == [o \in U |-> given[o].price]
               T == U \ S
    <3>1. \A e \in T : f[e] \in Nat
      OBVIOUS
    <3> HIDE DEF f
    <3>2. \E m \in T : \A e \in T : f[m] <= f[e]
      <4> HIDE DEF T
      <4> QED
        BY <2>3, <3>1, LowestExists DEF T
    <3> QED
      BY <3>2 DEF f
  <2>5. Cardinality(S \cup {m}) = j + 1
    <3>1. m \notin S
      BY <2>4
    <3> QED
      BY <2>1, <2>2, <3>1, FS_AddElement
  <2>6. Low(S \cup {m})
    <3> SUFFICES ASSUME NEW o \in S \cup {m}, NEW p \in U \ (S \cup {m})
                 PROVE  given[o].price <= given[p].price
      OBVIOUS
    <3>1. CASE o \in S
      BY <2>1, <3>1
    <3>2. CASE o = m
      BY <2>4, <3>2
    <3> QED
      BY <3>1, <3>2
  <2>7. S \cup {m} \in SUBSET U
    BY <2>4
  <2> HIDE DEF Low
  <2> QED
    BY <2>5, <2>6, <2>7
<1> HIDE DEF K
<1>3. n \in K
  BY <1>1, <1>2, Reaches
<1> QED
  BY <1>3 DEF K, kSubset

(* select_threshold.                                                       *)
LEMMA SelectIs ==
  ASSUME NEW t, NEW given, IsFiniteSet(DOMAIN given), ThresholdOf(t) \in Nat,
         \A o \in Given(given) : given[o].price \in Nat,
         NEW slots, slots = SelectThreshold(t, given)
  PROVE  /\ IsFiniteSet(Counting(t, given)) /\ Cardinality(Counting(t, given)) \in Nat
         /\ Cardinality(Counting(t, given)) < ThresholdOf(t) => slots = {}
         /\ ~(Cardinality(Counting(t, given)) < ThresholdOf(t)) =>
              /\ slots \in SUBSET Counting(t, given) /\ Cardinality(slots) = ThresholdOf(t)
              /\ \A o \in slots, p \in Counting(t, given) \ slots :
                   given[o].price <= given[p].price
<1> DEFINE U == Counting(t, given)
           n == ThresholdOf(t)
           Low(S) == \A o \in S, p \in U \ S : given[o].price <= given[p].price
<1>1. U \subseteq DOMAIN given /\ U \subseteq Given(given)
  BY DEF Counting, Given
<1>2. IsFiniteSet(U) /\ Cardinality(U) \in Nat
  <2> HIDE DEF U
  <2> QED
    BY <1>1, FS_Subset, FS_CardinalityType
<1>3. slots = IF Cardinality(U) < n THEN {} ELSE CHOOSE S \in kSubset(n, U) : Low(S)
  BY DEF SelectThreshold
<1>4. \A o \in U : given[o].price \in Nat
  BY <1>1
<1> HIDE DEF U, n
<1>5. ASSUME ~(Cardinality(U) < n)
      PROVE  slots \in SUBSET U /\ Cardinality(slots) = n /\ Low(slots)
  <2>1. n \in Nat /\ n <= Cardinality(U)
    BY <1>2, <1>5 DEF n
  <2>2. \E S \in kSubset(n, U) : Low(S)
    BY <1>2, <1>4, <2>1, LowestSlots
  <2> HIDE DEF Low
  <2>3. slots \in kSubset(n, U) /\ Low(slots)
    BY <1>3, <1>5, <2>2
  <2> QED
    BY <2>3 DEF kSubset
<1> QED
  BY <1>2, <1>3, <1>5 DEF U, n

Evidenced(exit, given, slots) ==
    /\ slots \in SUBSET Given(given) /\ IsFiniteSet(slots) /\ slots # {}
    /\ Cardinality(slots) = ThresholdOf(terms)
    /\ \A o \in slots :
         /\ given[o].signed /\ given[o].timestamp >= terms.not_before
         /\ given[o].price \in Nat /\ given[o].price >= 1
         /\ exit = "liquidate" => given[o].price < terms.strike

(* What the caller may have been given by the oracles.                     *)
LEMMA EvidenceType ==
  ASSUME terms \in Candidates, Valid(terms), NEW given \in Evidence
  PROVE  /\ DOMAIN given = terms.oracles /\ IsFiniteSet(terms.oracles)
         /\ ThresholdOf(terms) \in Nat /\ ThresholdOf(terms) >= 1
         /\ \A o \in Given(given) : /\ given[o] # NoAtt /\ given[o].price \in Nat
                                    /\ given[o].timestamp \in Nat
<1>1. DOMAIN given = terms.oracles /\ IsFiniteSet(terms.oracles)
  BY SpendAssumption DEF Evidence
<1>2. ThresholdOf(terms) \in 1..Cardinality(terms.oracles)
  BY DEF Valid
<1>3. Cardinality(terms.oracles) \in Nat
  BY <1>1, FS_CardinalityType
<1>4. ASSUME NEW o \in Given(given)
      PROVE  given[o] # NoAtt /\ given[o].price \in Nat /\ given[o].timestamp \in Nat
  <2>1. o \in terms.oracles /\ given[o] # NoAtt
    BY <1>1 DEF Given
  <2>2. given[o] \in Attestations
    BY <2>1 DEF Evidence
  <2>3. given[o] \in Attestation
    BY <2>2, SpendAssumption
  <2> QED
    BY <2>1, <2>3 DEF Attestation
<1> QED
  BY <1>1, <1>2, <1>3, <1>4

(* The evidence of a seizure is signed, usable, of the threshold's size,   *)
(* and as low as any that opens the leaf; without it nothing opens it, or  *)
(* something given is unusable.                                            *)
LEMMA EvidenceIs ==
  ASSUME terms \in Candidates, Valid(terms), NEW exit \in Seizures, NEW given \in Evidence,
         NEW slots, slots = OracleEvidence(terms, exit, given)
  PROVE  /\ slots # {} =>
              /\ Evidenced(exit, given, slots)
              /\ \A S \in OpenSets(exit, given) : MaxPrice(given, slots) <= MaxPrice(given, S)
         /\ slots = {} => \/ OpenSets(exit, given) = {}
                          \/ \E o \in Given(given) : ~Usable(terms, given[o])
<1> DEFINE under == [o \in DOMAIN given |->
                       IF given[o] # NoAtt /\ IsLiquidatable(terms, given[o].price)
                         THEN given[o] ELSE NoAtt]
           att == IF exit = "liquidate" THEN under ELSE given
           U == Counting(terms, att)
           n == ThresholdOf(terms)
<1>1. /\ DOMAIN given = terms.oracles /\ IsFiniteSet(terms.oracles)
      /\ n \in Nat /\ n >= 1
      /\ \A o \in Given(given) : /\ given[o] # NoAtt /\ given[o].price \in Nat
                                 /\ given[o].timestamp \in Nat
  BY EvidenceType
<1>2. CASE \E o \in Given(given) : ~Usable(terms, given[o])
  BY <1>2 DEF OracleEvidence
<1>3. CASE \A o \in Given(given) : Usable(terms, given[o])
  <2>1. slots = SelectThreshold(terms, att)
    BY <1>3 DEF OracleEvidence, LiquidatableSlots
  <2>2. DOMAIN att = DOMAIN given
    OBVIOUS
  <2>3. \A o \in Given(att) : /\ o \in Given(given) /\ att[o] = given[o]
                              /\ exit = "liquidate" => given[o].price < terms.strike
    BY DEF Given, IsLiquidatable
  <2>4. \A o \in Given(given) : (exit = "liquidate" => given[o].price < terms.strike)
                                  => o \in Given(att) /\ att[o] = given[o]
    BY DEF Given, IsLiquidatable
  <2> HIDE DEF att
  <2>5. \A o \in Given(att) : att[o].price \in Nat
    BY <1>1, <2>3
  <2>6. /\ IsFiniteSet(U) /\ Cardinality(U) \in Nat
        /\ Cardinality(U) < n => slots = {}
        /\ ~(Cardinality(U) < n) =>
             /\ slots \in SUBSET U /\ Cardinality(slots) = n
             /\ \A o \in slots, p \in U \ slots : att[o].price <= att[p].price
    <3>1. IsFiniteSet(DOMAIN att)
      BY <1>1, <2>2
    <3> QED
      BY <1>1, <2>1, <2>5, <3>1, SelectIs
  <2>7. ASSUME NEW o \in U
        PROVE  /\ o \in Given(given) /\ att[o] = given[o]
               /\ given[o].signed /\ given[o].timestamp >= terms.not_before
               /\ given[o].price \in Nat /\ given[o].price >= 1
               /\ exit = "liquidate" => given[o].price < terms.strike
    <3>1. o \in Given(att) /\ att[o].signed /\ att[o].timestamp >= terms.not_before
      BY DEF Counting, Verifies
    <3>2. o \in Given(given) /\ att[o] = given[o]
          /\ (exit = "liquidate" => given[o].price < terms.strike)
      BY <2>3, <3>1
    <3>3. given[o].price >= 1
      BY <1>3, <3>2 DEF Usable
    <3> QED
      BY <1>1, <3>1, <3>2, <3>3
  <2>8. \A S \in OpenSets(exit, given) :
          S \in SUBSET U /\ Cardinality(S) = n /\ IsFiniteSet(S) /\ S # {}
    <3> SUFFICES ASSUME NEW S \in OpenSets(exit, given)
                 PROVE  S \in SUBSET U /\ Cardinality(S) = n /\ IsFiniteSet(S) /\ S # {}
      OBVIOUS
    <3>1. /\ S \in SUBSET Given(given) /\ Cardinality(S) = n
          /\ SlotsOpen([leaf |-> exit, given |-> given, slots |-> S], terms)
          /\ \A o \in S : Usable(terms, given[o])
      BY DEF OpenSets, kSubset
    <3>2. \A o \in S : /\ given[o].signed /\ given[o].timestamp >= terms.not_before
                       /\ exit = "liquidate" => given[o].price < terms.strike
      BY <3>1 DEF SlotsOpen
    <3>3. ASSUME NEW o \in S PROVE o \in U
      <4>1. o \in Given(att) /\ att[o] = given[o]
        BY <2>4, <3>1, <3>2
      <4>2. att[o].signed /\ att[o].timestamp >= terms.not_before
            /\ att[o].scale = terms.price_scale
        BY <3>1, <3>2, <4>1 DEF Usable
      <4> QED
        BY <4>1, <4>2 DEF Counting, Verifies
    <3> HIDE DEF U, n
    <3>4. S \in SUBSET U
      BY <3>3
    <3>5. IsFiniteSet(S)
      BY <2>6, <3>4, FS_Subset
    <3>6. S # {}
      BY <1>1, <3>1, <3>5, FS_EmptySet
    <3> QED
      BY <3>1, <3>4, <3>5, <3>6
  <2> HIDE DEF U, n
  <2>9. Cardinality(U) < n => OpenSets(exit, given) = {}
    <3> SUFFICES ASSUME NEW S \in OpenSets(exit, given) PROVE ~(Cardinality(U) < n)
      OBVIOUS
    <3>1. S \in SUBSET U /\ Cardinality(S) = n
      BY <2>8
    <3>2. Cardinality(S) <= Cardinality(U)
      BY <2>6, <3>1, FS_Subset
    <3> QED
      BY <1>1, <2>6, <3>1, <3>2
  <2>10. ASSUME ~(Cardinality(U) < n)
         PROVE  slots # {} /\ Evidenced(exit, given, slots)
    <3>1. slots \in SUBSET U /\ Cardinality(slots) = n
      BY <2>6, <2>10
    <3>2. IsFiniteSet(slots)
      BY <2>6, <3>1, FS_Subset
    <3>3. slots # {}
      BY <1>1, <3>1, FS_EmptySet
    <3>4. slots \in SUBSET Given(given)
      BY <2>7, <3>1
    <3>5. \A o \in slots :
            /\ given[o].signed /\ given[o].timestamp >= terms.not_before
            /\ given[o].price \in Nat /\ given[o].price >= 1
            /\ exit = "liquidate" => given[o].price < terms.strike
      BY <2>7, <3>1
    <3> QED
      BY <3>1, <3>2, <3>3, <3>4, <3>5 DEF Evidenced, n
  <2>11. ASSUME ~(Cardinality(U) < n), NEW S \in OpenSets(exit, given)
         PROVE  MaxPrice(given, slots) <= MaxPrice(given, S)
    <3>1. slots \in SUBSET U /\ Cardinality(slots) = n /\ slots # {} /\ IsFiniteSet(slots)
          /\ \A o \in slots, p \in U \ slots : att[o].price <= att[p].price
      BY <2>6, <2>10, <2>11, FS_Subset
    <3>2. S \in SUBSET U /\ Cardinality(S) = n /\ IsFiniteSet(S) /\ S # {}
      BY <2>8
    <3>3. \A o \in U : given[o].price \in Nat /\ att[o] = given[o]
      BY <2>7
    <3>4. PICK o \in slots : MaxPrice(given, slots) = given[o].price
      BY <3>1, <3>3, MaxPriceIs
    <3>5. MaxPrice(given, S) \in Nat /\ \A e \in S : given[e].price <= MaxPrice(given, S)
      BY <3>2, <3>3, MaxPriceIs
    <3>6. CASE o \in S
      BY <3>4, <3>5, <3>6
    <3>7. CASE o \notin S
      <4>1. ~(S \subseteq slots)
        <5> SUFFICES ASSUME S \subseteq slots PROVE FALSE
          OBVIOUS
        <5>1. S \in SUBSET slots /\ Cardinality(S) = Cardinality(slots)
          BY <3>1, <3>2
        <5>2. slots = S
          BY <3>1, <5>1, FS_Subset
        <5> QED
          BY <3>7, <5>2
      <4>2. PICK p \in S : p \notin slots
        BY <4>1
      <4>3. p \in U \ slots /\ o \in U
        BY <3>1, <3>2, <4>2
      <4>4. given[o].price <= given[p].price
        BY <3>1, <3>3, <4>3
      <4>5. given[p].price <= MaxPrice(given, S) /\ given[p].price \in Nat /\ given[o].price \in Nat
        BY <3>3, <3>5, <4>3
      <4> QED
        BY <3>4, <3>5, <4>4, <4>5
    <3> QED
      BY <3>6, <3>7
  <2> QED
    BY <2>6, <2>9, <2>10, <2>11
<1> QED
  BY <1>2, <1>3

-----------------------------------------------------------------------------
(* The coins that are picked.                                              *)

(* Selection puts the coins in an order.                                   *)
LEMMA BeforeOrders ==
  ASSUME NEW n, NEW c \in WalletCoin, NEW d \in WalletCoin, NEW e \in WalletCoin
  PROVE  /\ ~Before(c, c, n)
         /\ Before(c, d, n) /\ Before(d, e, n) => Before(c, e, n)
<1>1. /\ c.id \in Nat /\ d.id \in Nat /\ e.id \in Nat
      /\ c.amount \in Nat /\ d.amount \in Nat /\ e.amount \in Nat
  BY DEF WalletCoin
<1>2. Exact(c, n) \in BOOLEAN /\ Exact(d, n) \in BOOLEAN /\ Exact(e, n) \in BOOLEAN
  BY DEF Exact
<1>3. \A x, y : /\ Exact(x, n) /\ ~Exact(y, n) => Before(x, y, n)
                /\ ~Exact(x, n) /\ Exact(y, n) => ~Before(x, y, n)
                /\ Exact(x, n) /\ Exact(y, n) => (Before(x, y, n) <=> x.id < y.id)
                /\ ~Exact(x, n) /\ ~Exact(y, n) =>
                      (Before(x, y, n) <=> IF x.amount # y.amount THEN x.amount > y.amount
                                           ELSE x.id < y.id)
  <2> TAKE x, y
  <2>1. Exact(x, n) \in BOOLEAN /\ Exact(y, n) \in BOOLEAN
    BY DEF Exact
  <2>2. CASE Exact(x, n) /\ ~Exact(y, n)
    BY <2>1, <2>2 DEF Before
  <2>3. CASE ~Exact(x, n) /\ Exact(y, n)
    BY <2>1, <2>3 DEF Before
  <2>4. CASE Exact(x, n) /\ Exact(y, n)
    <3>1. Before(x, y, n) = (x.id < y.id)
      BY <2>1, <2>4 DEF Before
    <3> QED
      BY <3>1, <2>4
  <2>5. CASE ~Exact(x, n) /\ ~Exact(y, n)
    <3>1. Before(x, y, n) = IF x.amount # y.amount THEN x.amount > y.amount ELSE x.id < y.id
      BY <2>1, <2>5 DEF Before
    <3>2. CASE x.amount = y.amount
      BY <2>5, <3>1, <3>2
    <3>3. CASE x.amount # y.amount
      BY <2>5, <3>1, <3>3
    <3> QED
      BY <3>2, <3>3
  <2> QED
    BY <2>1, <2>2, <2>3, <2>4, <2>5
<1>4. ~Before(c, c, n)
  BY <1>1, <1>2, <1>3
<1>5. ASSUME Before(c, d, n), Before(d, e, n) PROVE Before(c, e, n)
  <2> HIDE DEF Exact
  <2>1. CASE Exact(c, n) /\ Exact(d, n) /\ Exact(e, n)
    BY <1>1, <1>3, <1>5, <2>1
  <2>2. CASE ~Exact(c, n) /\ ~Exact(d, n) /\ ~Exact(e, n)
    BY <1>1, <1>3, <1>5, <2>2
  <2>3. CASE Exact(c, n) /\ ~Exact(e, n)
    BY <1>3, <2>3
  <2>4. ~(~Exact(c, n) /\ Exact(d, n)) /\ ~(~Exact(d, n) /\ Exact(e, n))
    BY <1>3, <1>5
  <2> QED
    BY <2>1, <2>2, <2>3, <2>4
<1> QED
  BY <1>4, <1>5

(* One of some coins comes first in it.                                    *)
LEMMA FirstExists ==
  ASSUME NEW S, IsFiniteSet(S), S \subseteq WalletCoin, S # {}, NEW n
  PROVE  \E c \in S : \A d \in S : ~Before(d, c, n)
<1> DEFINE P == {s \in SUBSET S : s = {} \/ \E c \in s : \A d \in s : ~Before(d, c, n)}
<1>1. {} \in P
  OBVIOUS
<1>2. ASSUME NEW s \in SUBSET S, NEW e \in S, s \in P, e \notin s
      PROVE  s \cup {e} \in P
  <2>0. ~Before(e, e, n)
    BY BeforeOrders
  <2>1. CASE s = {}
    BY <2>0, <2>1
  <2>2. CASE s # {}
    <3>1. PICK m \in s : \A d \in s : ~Before(d, m, n)
      BY <1>2, <2>2
    <3>2. CASE Before(e, m, n)
      <4>1. \A d \in s : ~Before(d, e, n)
        BY <3>1, <3>2, BeforeOrders
      <4> QED
        BY <2>0, <4>1
    <3>3. CASE ~Before(e, m, n)
      BY <3>1, <3>3
    <3> QED
      BY <3>2, <3>3
  <2> QED
    BY <2>1, <2>2
<1> HIDE DEF P
<1>3. \A s \in SUBSET S : s \in P
  BY <1>1, <1>2, SubsetsReached
<1> QED
  BY <1>3 DEF P

Plain(some) == {c \in some : c.plain}

(* What the pool can cover is covered.                                     *)
LEMMA PickCovers ==
  ASSUME NEW some, IsWallet(some), NEW a \in Assets, NEW n \in Nat,
         Amount(Plain(some), a) >= n
  PROVE  Amount(PickOf(some, {}, a, n), a) >= n
<1> DEFINE pool == {c \in some : c.asset = a /\ c.plain /\ c.id \notin {}}
           Ahead(c) == {d \in pool : Before(d, c, n)}
           P == {c \in pool : Amount(Ahead(c), a) < n}
<1>1. P = PickOf(some, {}, a, n)
  BY DEF PickOf
<1>2. IsWallet(Plain(some)) /\ IsWallet(pool) /\ IsWallet(P)
  <2>1. Plain(some) \in SUBSET some /\ pool \in SUBSET some /\ P \in SUBSET some
    BY DEF Plain
  <2> HIDE DEF pool, P
  <2> QED
    BY <2>1, AmountGrows
<1>3. Amount(pool, a) = Amount(Plain(some), a)
  <2>1. {c \in pool : c.asset = a} = {c \in Plain(some) : c.asset = a}
    BY DEF Plain
  <2>2. IsFiniteSet(pool) /\ IsFiniteSet(Plain(some))
    BY <1>2 DEF IsWallet
  <2> HIDE DEF pool
  <2> QED
    BY <2>1, <2>2, AmountOfAsset
<1>4. SUFFICES ASSUME Amount(P, a) < n PROVE FALSE
  <2> HIDE DEF P
  <2>1. Amount(P, a) \in Nat
    BY <1>2, AmountType
  <2>2. Amount(P, a) < n \/ Amount(P, a) >= n
    BY <2>1
  <2> QED
    BY <1>1, <2>2
<1>5. pool \ P # {}
  <2>1. P \subseteq pool
    OBVIOUS
  <2>2. P # pool
    <3> HIDE DEF P, pool
    <3>1. Amount(pool, a) >= n /\ Amount(pool, a) \in Nat
      BY <1>2, <1>3, AmountType
    <3> QED
      BY <1>4, <3>1
  <2> HIDE DEF P, pool
  <2> QED
    BY <2>1, <2>2
<1>6. PICK c \in pool \ P : \A d \in pool \ P : ~Before(d, c, n)
  <2> DEFINE T == pool \ P
  <2>1. T \in SUBSET pool
    OBVIOUS
  <2> HIDE DEF P, pool
  <2>2. IsFiniteSet(T) /\ T \subseteq WalletCoin
    BY <1>2, <2>1, FS_Subset DEF IsWallet
  <2>3. T # {}
    BY <1>5
  <2> HIDE DEF T
  <2>4. \E c \in T : \A d \in T : ~Before(d, c, n)
    BY <2>2, <2>3, FirstExists
  <2> QED
    BY <2>4 DEF T
<1>7. Ahead(c) \in SUBSET P
  BY <1>6
<1>8. Amount(Ahead(c), a) <= Amount(P, a) /\ Amount(Ahead(c), a) \in Nat /\ Amount(P, a) \in Nat
  <2> DEFINE A == Ahead(c)
  <2>1. A \in SUBSET P
    BY <1>7
  <2> HIDE DEF A, P
  <2>2. IsWallet(A) /\ Amount(A, a) <= Amount(P, a)
    BY <1>2, <2>1, AmountGrows
  <2>3. Amount(A, a) \in Nat /\ Amount(P, a) \in Nat
    BY <1>2, <2>2, AmountType
  <2> QED
    BY <2>2, <2>3 DEF A
<1>9. Amount(Ahead(c), a) < n
  BY <1>4, <1>8
<1> QED
  BY <1>6, <1>9

(* What is picked is explicit, and asset by asset.                         *)
LEMMA PickIs ==
  ASSUME NEW some, IsWallet(some), NEW lock, NEW want
  PROVE  /\ Pick(some, lock, want) \in SUBSET Plain(some)
         /\ IsWallet(Pick(some, lock, want)) /\ IsWallet(Plain(some))
         /\ \A a \in Assets : Amount(Pick(some, lock, want), a)
                                = Amount(PickOf(some, lock, a, want[a]), a)
<1> DEFINE P == Pick(some, lock, want)
<1>1. P \in SUBSET Plain(some) /\ P \in SUBSET some /\ Plain(some) \in SUBSET some
  BY DEF Pick, PickOf, Plain
<1>2. \A a \in Assets : {c \in P : c.asset = a} = {c \in PickOf(some, lock, a, want[a]) : c.asset = a}
  <2>1. \A b : \A c \in PickOf(some, lock, b, want[b]) : c.asset = b
    BY DEF PickOf
  <2>2. \A c : c \in P <=> \E b \in Assets : c \in PickOf(some, lock, b, want[b])
    BY DEF Pick
  <2> HIDE DEF P
  <2> QED
    BY <2>1, <2>2
<1>3. \A a \in Assets : PickOf(some, lock, a, want[a]) \in SUBSET some
  BY DEF PickOf
<1> HIDE DEF P
<1>4. IsWallet(P) /\ IsWallet(Plain(some))
  BY <1>1, AmountGrows
<1>5. \A a \in Assets : Amount(P, a) = Amount(PickOf(some, lock, a, want[a]), a)
  <2> TAKE a \in Assets
  <2>1. IsFiniteSet(P) /\ IsFiniteSet(PickOf(some, lock, a, want[a]))
    BY <1>3, <1>4, FS_Subset DEF IsWallet
  <2> QED
    BY <1>2, <2>1, AmountOfAsset
<1> QED
  BY <1>1, <1>4, <1>5 DEF P

(* A finite set has finitely many images.                                  *)
LEMMA ImageIsFinite ==
  ASSUME NEW S, IsFiniteSet(S), NEW f
  PROVE  IsFiniteSet({f[x] : x \in S})
<1> DEFINE T == {f[x] : x \in S}
           g == [x \in S |-> f[x]]
<1>1. g \in Surjection(S, T)
  BY DEF Surjection
<1> HIDE DEF g, T
<1>2. IsFiniteSet(T)
  BY <1>1, FS_Surjection
<1> QED
  BY <1>2 DEF T

(* The identifiers of a wallet have a last one.                            *)
LEMMA LastIdType ==
  ASSUME NEW some, IsWallet(some)
  PROVE  LastId(some) \in Nat
<1> DEFINE f == [c \in some |-> c.id]
           I == {c.id : c \in some} \cup {0}
<1>1. IsFiniteSet({f[c] : c \in some})
  BY ImageIsFinite DEF IsWallet
<1>2. {f[c] : c \in some} = {c.id : c \in some}
  OBVIOUS
<1>3. IsFiniteSet(I) /\ I \subseteq Nat /\ I # {}
  <2>1. IsFiniteSet({c.id : c \in some} \cup {0})
    BY <1>1, <1>2, FS_Singleton, FS_Union
  <2>2. \A c \in some : c.id \in Nat
    BY DEF IsWallet, WalletCoin
  <2> QED
    BY <2>1, <2>2
<1> HIDE DEF I
<1>4. \E m \in I : \A i \in I : i <= m
  <2> DEFINE id == [i \in I |-> i]
  <2>1. \A i \in I : id[i] \in Nat
    BY <1>3
  <2> HIDE DEF id
  <2>2. \E m \in I : \A i \in I : id[i] <= id[m]
    BY <1>3, <2>1, HighestExists
  <2> QED
    BY <2>2 DEF id
<1>5. \E m \in I : \A i \in I : m >= i
  BY <1>3, <1>4
<1>6. LastId(some) = CHOOSE m \in I : \A i \in I : m >= i
  BY DEF LastId, Max, I
<1> QED
  BY <1>3, <1>5, <1>6

(* A requirement is short after the pick only if the explicit coins are.   *)
LEMMA ShortIsShort ==
  ASSUME NEW some, IsWallet(some), NEW need \in [Assets -> Nat],
         NEW a \in Short(Pick(some, {}, need), need)
  PROVE  a \in Assets /\ Amount(Plain(some), a) < need[a]
<1>1. a \in Assets /\ Amount(Pick(some, {}, need), a) < need[a] /\ need[a] \in Nat
  BY DEF Short
<1>2. Amount(Pick(some, {}, need), a) = Amount(PickOf(some, {}, a, need[a]), a)
  BY <1>1, PickIs
<1>3. IsWallet(Plain(some)) /\ IsWallet(Pick(some, {}, need))
  BY PickIs
<1>4. Amount(Plain(some), a) \in Nat /\ Amount(Pick(some, {}, need), a) \in Nat
  BY <1>3, AmountType
<1>5. Amount(Plain(some), a) >= need[a] => Amount(PickOf(some, {}, a, need[a]), a) >= need[a]
  BY <1>1, PickCovers
<1> QED
  BY <1>1, <1>2, <1>4, <1>5

(* What is not short is there.                                             *)
LEMMA NotShort ==
  ASSUME NEW some, IsWallet(some), NEW lock, NEW need \in [Assets -> Nat],
         NEW chosen, chosen = Pick(some, lock, need),
         NEW a \in Assets, a \notin Short(chosen, need)
  PROVE  /\ IsWallet(chosen) /\ Amount(chosen, a) >= need[a]
         /\ Amount(Plain(some), a) >= need[a]
<1>1. IsWallet(chosen) /\ IsWallet(Plain(some)) /\ chosen \in SUBSET Plain(some)
  BY PickIs
<1>2. Amount(chosen, a) \in Nat /\ Amount(Plain(some), a) \in Nat /\ need[a] \in Nat
  BY <1>1, AmountType
<1>3. Amount(chosen, a) <= Amount(Plain(some), a)
  BY <1>1, AmountGrows
<1>4. ~(Amount(chosen, a) < need[a])
  BY DEF Short
<1> QED
  BY <1>1, <1>2, <1>3, <1>4

(* Assets in their order are assets.                                       *)
LEMMA InOrderType ==
  ASSUME NEW some
  PROVE  InOrder(some) \in Seq(some)
<1> DEFINE one(a) == IF a \in some THEN <<a>> ELSE <<>>
<1>1. \A a : one(a) \in Seq(some)
  OBVIOUS
<1> HIDE DEF one
<1>2. one(C) \o one(D) \o one(F) \in Seq(some)
  BY <1>1
<1> QED
  BY <1>2 DEF InOrder, one

-----------------------------------------------------------------------------
(* The preparing sends.                                                    *)

PairOf(a, n, b, m) == <<<<a, n>>, <<b, m>>>>

NeedsBoth(out, a, n, b, m) ==
  /\ out \in [Assets -> Nat]
  /\ \A e \in Assets : out[e] = (IF a = e THEN n ELSE 0) + (IF b = e THEN m ELSE 0)

(* Two requirements.                                                       *)
LEMMA NeedOfTwo ==
  ASSUME NEW a \in Assets, NEW n \in Nat, NEW b \in Assets, NEW m \in Nat
  PROVE  NeedsBoth(Need(PairOf(a, n, b, m)), a, n, b, m)
<1> DEFINE x == <<a, n>>
           y == <<b, m>>
<1>1. x \in Pair /\ y \in Pair /\ x[1] = a /\ x[2] = n /\ y[1] = b /\ y[2] = m
  BY DEF Pair
<1>2. PairOf(a, n, b, m) = <<x, y>>
  BY DEF PairOf
<1> HIDE DEF x, y
<1>3. <<x, y>> \in Seq(Pair)
  BY <1>1
<1>4. \A e \in Assets : Need(<<x, y>>)[e] = (IF a = e THEN n ELSE 0) + (IF b = e THEN m ELSE 0)
  <2> TAKE e \in Assets
  <2>1. Need(<<x, y>>)[e] = Tally(Named(e), <<x, y>>)
    BY <1>3, NeedIs
  <2>2. Named(e) \in [Pair -> Nat]
    BY WeightTypes
  <2>3. Tally(Named(e), <<x, y>>) = Named(e)[x] + Named(e)[y]
    BY ONLY <1>1, <2>2, TallyTwo
  <2>4. Named(e)[x] = (IF a = e THEN n ELSE 0) /\ Named(e)[y] = (IF b = e THEN m ELSE 0)
    BY <1>1 DEF Named
  <2> QED
    BY <2>1, <2>3, <2>4
<1>5. DOMAIN Need(<<x, y>>) = Assets
  BY DEF Need
<1>6. Need(<<x, y>>) = [e \in Assets |-> Need(<<x, y>>)[e]]
  BY <1>5 DEF Need
<1> QED
  BY <1>2, <1>4, <1>6 DEF NeedsBoth

(* A send leaves the wallet a wallet, makes one explicit coin of at least  *)
(* the amount, and touches no other asset but the one its fee is paid in.  *)
LEMMA PreparingKeeps ==
  ASSUME NEW some, IsWallet(some), NEW lock, NEW a \in Assets, NEW n \in Nat,
         NEW feeAsset \in Priced, NEW new \in PreparingSends(some, lock, a, n, feeAsset)
  PROVE  /\ IsWallet(new)
         /\ Amount(Plain(new), a) >= n
         /\ \A b \in Assets \ {a, feeAsset} : Amount(Plain(new), b) >= Amount(Plain(some), b)
<1> DEFINE out == Need(PairOf(a, Prepared(n), feeAsset, FeeAtoms(feeAsset)))
           last == LastId(some)
           left(S) == InOrder({b \in Assets : Amount(S, b) > out[b]})
           change(S) == {[id |-> last + i, asset |-> left(S)[i], plain |-> FALSE,
                          amount |-> Amount(S, left(S)[i]) - out[left(S)[i]]] :
                            i \in DOMAIN left(S)}
           made == [id |-> last + 4, asset |-> a, plain |-> TRUE, amount |-> Prepared(n)]
<1>1. PICK S \in Payments(some, lock, out) : new = (some \ S) \cup change(S) \cup {made}
  BY DEF PreparingSends, PairOf
<1>2. Prepared(n) \in Nat /\ Prepared(n) >= n /\ FeeAtoms(feeAsset) \in Nat /\ feeAsset \in Assets
  BY PreparedType, AtomsType
<1>3. /\ out \in [Assets -> Nat]
      /\ \A b \in Assets \ {a, feeAsset} : out[b] = 0
  <2> DEFINE m == Prepared(n)
             k == FeeAtoms(feeAsset)
  <2>1. m \in Nat /\ k \in Nat /\ a \in Assets /\ feeAsset \in Assets
    BY <1>2
  <2> HIDE DEF m, k
  <2>2. NeedsBoth(Need(PairOf(a, m, feeAsset, k)), a, m, feeAsset, k)
    BY ONLY <2>1, NeedOfTwo
  <2>3. out = Need(PairOf(a, m, feeAsset, k))
    BY DEF m, k
  <2> HIDE DEF out
  <2> QED
    BY <2>1, <2>2, <2>3 DEF NeedsBoth
<1> HIDE DEF out
<1>4. S \in SUBSET some /\ \A c \in S : out[c.asset] > 0
  BY <1>1 DEF Payments
<1>5. IsWallet(S) /\ last \in Nat
  BY <1>4, AmountGrows, LastIdType
<1> HIDE DEF last
<1>6. IsWallet(change(S)) /\ \A c \in change(S) : ~c.plain
  <2> DEFINE seq == left(S)
             B == {b \in Assets : Amount(S, b) > out[b]}
             coin == [i \in DOMAIN seq |-> [id |-> last + i, asset |-> seq[i], plain |-> FALSE,
                          amount |-> Amount(S, seq[i]) - out[seq[i]]]]
  <2>1. seq \in Seq(B)
    BY InOrderType
  <2>2. \A b \in B : b \in Assets /\ Amount(S, b) \in Nat /\ out[b] \in Nat /\ Amount(S, b) > out[b]
    BY <1>3, <1>5, AmountType
  <2>3. change(S) = {coin[i] : i \in DOMAIN seq}
    OBVIOUS
  <2> HIDE DEF B, seq
  <2>4. DOMAIN seq \in SUBSET Nat /\ IsFiniteSet(DOMAIN seq) /\ \A i \in DOMAIN seq : seq[i] \in B
    <3>1. DOMAIN seq = 1..Len(seq) /\ Len(seq) \in Nat /\ \A i \in 1..Len(seq) : seq[i] \in B
      BY <2>1
    <3>2. IsFiniteSet(1..Len(seq))
      <4>1. 1 \in Int /\ Len(seq) \in Int
        BY <3>1
      <4> QED
        BY <4>1, FS_Interval
    <3> QED
      BY <3>1, <3>2
  <2>5. \A i \in DOMAIN seq : coin[i] \in WalletCoin /\ ~coin[i].plain
    <3> TAKE i \in DOMAIN seq
    <3>1. seq[i] \in Assets /\ Amount(S, seq[i]) - out[seq[i]] \in Nat /\ last + i \in Nat
      BY <1>5, <2>2, <2>4
    <3> QED
      BY <3>1 DEF WalletCoin
  <2> HIDE DEF coin
  <2>6. IsFiniteSet({coin[i] : i \in DOMAIN seq})
    BY <2>4, ImageIsFinite
  <2> QED
    BY <2>3, <2>5, <2>6 DEF IsWallet
<1>7. made \in WalletCoin /\ made.plain /\ made.asset = a /\ made.amount = Prepared(n)
  BY <1>2, <1>5 DEF WalletCoin
<1> DEFINE X == change(S)
<1> HIDE DEF change, made
<1>8. new = (some \ S) \cup X \cup {made}
  BY <1>1
<1>9. IsWallet(X) /\ \A c \in X : ~c.plain
  BY <1>6
<1> HIDE DEF X
<1>10. IsWallet(new)
  <2>1. IsFiniteSet(some \ S) /\ IsFiniteSet(X) /\ IsFiniteSet({made})
    BY <1>9, FS_Subset, FS_Singleton DEF IsWallet
  <2>2. IsFiniteSet((some \ S) \cup X)
    BY <2>1, FS_Union
  <2>3. IsFiniteSet(new)
    BY <1>8, <2>1, <2>2, FS_Union
  <2> QED
    BY <1>7, <1>8, <1>9, <2>3 DEF IsWallet
<1>11. IsWallet(Plain(new)) /\ IsWallet(Plain(some)) /\ made \in Plain(new)
  <2>1. Plain(new) \in SUBSET new /\ Plain(some) \in SUBSET some /\ made \in Plain(new)
    BY <1>7, <1>8 DEF Plain
  <2> QED
    BY <1>10, <2>1, AmountGrows
<1>12. Amount(Plain(new), a) >= n
  <2>1. made.amount <= Amount(Plain(new), made.asset)
    BY <1>11, AmountHas
  <2>2. Amount(Plain(new), a) \in Nat
    BY <1>11, AmountType
  <2> QED
    BY <1>2, <1>7, <2>1, <2>2
<1>13. ASSUME NEW b \in Assets \ {a, feeAsset}
       PROVE  Amount(Plain(new), b) >= Amount(Plain(some), b)
  <2> DEFINE part == {c \in Plain(some) : c.asset = b}
  <2>1. part \in SUBSET Plain(new) /\ part \in SUBSET Plain(some)
    <3>1. out[b] = 0
      BY <1>3
    <3>2. \A c \in part : c \in some /\ c \notin S /\ c.plain
      BY <1>4, <3>1 DEF Plain
    <3> QED
      BY <1>8, <3>2 DEF Plain
  <2>2. {c \in part : c.asset = b} = {c \in Plain(some) : c.asset = b}
    OBVIOUS
  <2> HIDE DEF part
  <2>3. IsWallet(part) /\ Amount(part, b) <= Amount(Plain(new), b)
    BY <1>11, <2>1, AmountGrows
  <2>4. IsFiniteSet(part) /\ IsFiniteSet(Plain(some))
    BY <1>11, <2>3 DEF IsWallet
  <2>5. Amount(part, b) = Amount(Plain(some), b)
    BY <2>2, <2>4, AmountOfAsset
  <2>6. Amount(Plain(new), b) \in Nat /\ Amount(part, b) \in Nat
    BY <1>11, <2>3, AmountType
  <2> QED
    BY <2>3, <2>5, <2>6
<1> QED
  BY <1>10, <1>12, <1>13

(* The fee is paid in an asset with a rate.                                *)
LEMMA PickFeePays ==
  ASSUME NEW some, NEW committed, NEW prefer \in Seq(Assets)
  PROVE  PickFee(some, committed, prefer) \subseteq Priced
<1> DEFINE able == CanPay(some, committed)
           liked == {i \in DOMAIN prefer : prefer[i] \in able}
<1>1. able \subseteq Priced
  BY DEF CanPay
<1> HIDE DEF able
<1>2. CASE liked = {}
  BY <1>1, <1>2 DEF PickFee, able
<1>3. CASE liked # {}
  <2>1. liked \subseteq Nat
    OBVIOUS
  <2>2. \E m \in liked : \A i \in liked : m <= i
    <3> DEFINE id == [i \in liked |-> i]
    <3>1. \A i \in liked : id[i] \in Nat
      BY <2>1
    <3> HIDE DEF id
    <3>2. \E m \in liked : \A i \in liked : id[m] <= id[i]
      BY <1>3, <3>1, LowestExists
    <3> QED
      BY <3>2 DEF id
  <2>3. Min(liked) \in liked
    <3> HIDE DEF liked
    <3> QED
      BY <2>2 DEF Min
  <2>4. PickFee(some, committed, prefer) = {prefer[Min(liked)]}
    BY <1>3 DEF PickFee, able
  <2>5. prefer[Min(liked)] \in able
    BY <2>3
  <2> QED
    BY <1>1, <2>4, <2>5
<1> QED
  BY <1>2, <1>3

-----------------------------------------------------------------------------
(* What holds in every state.                                              *)

(* What the coin of an exit is worth: whole lots, or a vault's collateral. *)
CoinFits(exit, coin) ==
    /\ exit = "fund" => coin = 0
    /\ exit # "fund" => coin >= 1
    /\ exit \in {"take", "withdraw"} => \E k \in Nat : coin = k * terms.principal
    /\ exit \in {"repay", "recover"} \cup Seizures => coin >= terms.collateral

JobFits(j) ==
    /\ {"at", "exit", "fee", "coin", "need"} \subseteq DOMAIN j
    /\ j.exit \in Exits /\ j.fee \in Priced
    /\ j.coin \in Nat /\ CoinFits(j.exit, j.coin)
    /\ j.need = Need(Spends(terms, j.exit) \o <<<<j.fee, FeeAtoms(j.fee)>>>>)

(* What is not being prepared is there.                                    *)
PrepareFits(j) ==
    /\ {"prep", "full"} \subseteq DOMAIN j
    /\ j.prep \in Priced /\ DOMAIN j.full \subseteq Assets
    /\ \A a \in DOMAIN j.full : j.full[a] = j.need[a]
    /\ \A a \in Assets \ ({j.prep} \cup DOMAIN j.full) :
         Amount(Plain(coins), a) >= j.need[a]

ChosenFits(j) ==
    /\ "chosen" \in DOMAIN j /\ IsWallet(j.chosen)
    /\ \A a \in Assets : Amount(j.chosen, a) >= j.need[a]

(* What Broadcast makes of the transaction.                                *)
MakesFit(x, exit, coin) ==
    /\ MadeOf(x, "vault", C) = (IF exit = "take" THEN terms.collateral ELSE 0)
    /\ exit = "fund" => MadeOf(x, "offer", D) = terms.principal * Lots
    /\ exit = "take" => /\ coin >= terms.principal
                        /\ MadeOf(x, "offer", D) = coin - terms.principal
    /\ exit = "withdraw" => MadeOf(x, "offer", D) = 0

TermsInv == terms \in Candidates /\ Valid(terms)

CoinsInv ==
    /\ IsWallet(coins)
    /\ offer \in Nat /\ \E k \in Nat : offer = k * terms.principal
    /\ held \in Nat /\ (held = 0 \/ held >= terms.collateral)

JobInv ==
    \/ job = Idle
    \/ /\ JobFits(job) /\ tx.leaf # "refused"
       /\ \/ job.at = "pick"
          \/ job.at = "prepare" /\ PrepareFits(job)
          \/ job.at = "compose" /\ ChosenFits(job)
          \/ /\ job.at = "send" /\ ChosenFits(job)
             /\ tx.leaf = job.exit /\ tx.coin = job.coin
             /\ tx.outs \in Seq(Output) /\ MakesFit(tx, job.exit, job.coin)

SpendInv == TermsInv /\ CoinsInv /\ JobInv

NeedFits(need, exit, fee) ==
    /\ need \in [Assets -> Nat]
    /\ \A a \in Assets : need[a] = SpendsOf(terms, exit, a) + Owed(FeeAtoms(fee), fee, a)

(* What an exit needs is what it spends, and its fee.                      *)
LEMMA NeedIsFor ==
  ASSUME TermsInv, NEW exit \in Exits, NEW fee \in Priced
  PROVE  NeedFits(Need(Spends(terms, exit) \o <<<<fee, FeeAtoms(fee)>>>>), exit, fee)
<1> DEFINE last == <<fee, FeeAtoms(fee)>>
           k == FeeAtoms(fee)
<1>1. fee \in Assets /\ k \in Nat /\ last \in Pair /\ last[1] = fee /\ last[2] = k
  BY AtomsType DEF Pair
<1>2. /\ terms.debt \in Nat /\ terms.collateral \in Nat /\ terms.principal * Lots \in Nat
  BY TermsType DEF TermsInv
<1>3. C \in Assets /\ D \in Assets
  BY AssetNames
<1>4. ASSUME NEW a \in Assets, NEW n \in Nat, Spends(terms, exit) = <<<<a, n>>>>,
             \A b : SpendsOf(terms, exit, b) = Owed(n, a, b)
      PROVE  NeedFits(Need(Spends(terms, exit) \o <<last>>), exit, fee)
  <2> DEFINE x == <<a, n>>
  <2>1. x \in Pair
    BY DEF Pair
  <2>2. <<x>> \o <<last>> = PairOf(a, n, fee, k)
    <3> HIDE DEF x, last
    <3>1. <<x>> \o <<last>> = <<x, last>>
      BY <1>1, <2>1, PairJoins
    <3> QED
      BY <3>1 DEF x, last, PairOf
  <2>3. Spends(terms, exit) \o <<last>> = PairOf(a, n, fee, k)
    BY <1>4, <2>2
  <2> HIDE DEF k, last, x
  <2>4. NeedsBoth(Need(PairOf(a, n, fee, k)), a, n, fee, k)
    BY <1>1, NeedOfTwo
  <2>5. NeedsBoth(Need(Spends(terms, exit) \o <<last>>), a, n, fee, k)
    BY <2>3, <2>4
  <2> QED
    BY <1>4, <2>5 DEF NeedFits, NeedsBoth, Owed, k
<1>5. CASE exit \in {"withdraw", "recover"}
  <2>1. Spends(terms, exit) = <<>> /\ \A a : SpendsOf(terms, exit, a) = 0
    BY <1>5 DEF Spends, SpendsOf
  <2> DEFINE need == Need(<<last>>)
  <2>2. <<>> \o <<last>> = <<last>> /\ <<last>> \in Seq(Pair)
    BY <1>1
  <2> HIDE DEF last, k
  <2>3. \A a \in Assets : need[a] = Named(a)[last]
    <3> TAKE a \in Assets
    <3>1. need[a] = Tally(Named(a), <<last>>)
      BY <2>2, NeedIs
    <3>2. Named(a) \in [Pair -> Nat]
      BY WeightTypes
    <3>3. Tally(Named(a), <<last>>) = Named(a)[last]
      BY <1>1, <3>2, TallyOne
    <3> QED
      BY <3>1, <3>3
  <2>4. \A a \in Assets : need[a] = Owed(k, fee, a)
    BY <1>1, <2>3 DEF Named, Owed
  <2>5. need = [a \in Assets |-> need[a]]
    BY DEF Need
  <2>6. \A a \in Assets : Owed(k, fee, a) \in Nat
    BY <1>1 DEF Owed
  <2>7. need \in [Assets -> Nat]
    BY <2>4, <2>5, <2>6
  <2>8. NeedFits(need, exit, fee)
    <3> HIDE DEF need
    <3> QED
      BY <2>1, <2>4, <2>6, <2>7 DEF NeedFits, k
  <2>9. Spends(terms, exit) \o <<last>> = <<last>>
    BY <2>1, <2>2
  <2> QED
    BY <2>8, <2>9 DEF last, k
<1>6. CASE exit = "fund"
  <2>1. Spends(terms, exit) = <<<<D, terms.principal * Lots>>>>
    BY <1>6 DEF Spends
  <2>2. \A b : SpendsOf(terms, exit, b) = Owed(terms.principal * Lots, D, b)
    BY <1>6 DEF SpendsOf
  <2> QED
    BY <1>2, <1>3, <1>4, <2>1, <2>2
<1>7. CASE exit = "take"
  <2>1. Spends(terms, exit) = <<<<C, terms.collateral>>>>
    BY <1>7 DEF Spends
  <2>2. \A b : SpendsOf(terms, exit, b) = Owed(terms.collateral, C, b)
    BY <1>7 DEF SpendsOf
  <2> QED
    BY <1>2, <1>3, <1>4, <2>1, <2>2
<1>8. CASE exit \in {"repay", "liquidate", "default"}
  <2>1. Spends(terms, exit) = <<<<D, terms.debt>>>>
    BY <1>8 DEF Spends
  <2>2. \A b : SpendsOf(terms, exit, b) = Owed(terms.debt, D, b)
    BY <1>8 DEF SpendsOf
  <2> QED
    BY <1>2, <1>3, <1>4, <2>1, <2>2
<1> QED
  BY <1>5, <1>6, <1>7, <1>8 DEF Exits

-----------------------------------------------------------------------------
(* What an exit composes fits what it spends, its leaf and the node.       *)

(* No amount of the terms is nothing, or dust of an asset that may pay the *)
(* fee.                                                                    *)
Worth(t) ==
    /\ t.principal >= 1 /\ t.collateral >= 1
    /\ D \in Priced => t.principal >= DustAtoms(D) /\ t.debt >= DustAtoms(D)
    /\ C \in Priced => t.collateral >= DustAtoms(C)

GoodOut(fee) ==
    {o \in Output : \/ o = FeeMark
                    \/ o.amt >= 1 /\ (o.asset = fee => o.amt >= DustAtoms(fee))}

(* Change is something, and no dust of the fee asset.                      *)
LEMMA GoodReturned ==
  ASSUME NEW left \in [Assets -> Nat], NEW fee, left[fee] # 0 => left[fee] >= DustAtoms(fee)
  PROVE  Returned(left) \subseteq GoodOut(fee)
<1> SUFFICES ASSUME NEW a \in Assets, left[a] > 0
             PROVE  Out(left[a], "spender", a) \in GoodOut(fee)
  BY DEF Returned
<1>1. left[a] \in Nat /\ left[a] >= 1 /\ (a = fee => left[a] >= DustAtoms(fee))
  OBVIOUS
<1> DEFINE o == Out(left[a], "spender", a)
<1>2. o \in Output /\ o.amt = left[a] /\ o.asset = a
  BY <1>1, OutType, PartyNames
<1> HIDE DEF o
<1>3. o \in GoodOut(fee)
  BY <1>1, <1>2 DEF GoodOut
<1> QED
  BY <1>3 DEF o

(* A named output that is something and no dust.                           *)
LEMMA GoodNamed ==
  ASSUME NEW n \in Nat, n >= 1, NEW to \in Parties, NEW a \in Assets,
         NEW fee, a = fee => n >= DustAtoms(fee)
  PROVE  Out(n, to, a) \in GoodOut(fee)
<1> DEFINE o == Out(n, to, a)
<1>1. o \in Output /\ o.amt = n /\ o.asset = a
  BY OutType
<1> HIDE DEF o
<1>2. o \in GoodOut(fee)
  BY <1>1 DEF GoodOut
<1> QED
  BY <1>2 DEF o

(* The place of the fee is good: it is filled later.                       *)
LEMMA MarkIsGood ==
  ASSUME NEW fee
  PROVE  FeeMark \in GoodOut(fee)
<1>1. FeeMark \in Output
  BY OutType, PartyNames, AssetNames DEF FeeMark
<1> QED
  BY <1>1 DEF GoodOut

(* The amounts of worthy terms, and of an offer of whole lots, are         *)
(* something, and no dust in the asset of the fee.                         *)
LEMMA TermsAreWorth ==
  ASSUME TermsInv, Worth(terms), NEW fee \in Priced, NEW coin \in Nat
  PROVE  /\ terms.collateral >= 1 /\ (C = fee => terms.collateral >= DustAtoms(fee))
         /\ terms.principal >= 1 /\ (D = fee => terms.principal >= DustAtoms(fee))
         /\ terms.debt >= 1 /\ (D = fee => terms.debt >= DustAtoms(fee))
         /\ terms.principal * Lots >= terms.principal
         /\ coin >= 1 /\ (\E k \in Nat : coin = k * terms.principal)
              => /\ coin >= terms.principal
                 /\ coin > terms.principal => coin - terms.principal >= terms.principal
<1>1. terms.principal \in Nat /\ Lots \in Nat /\ Lots >= 1
  BY TermsType, SpendAssumption DEF TermsInv
<1>2. ASSUME NEW p \in Nat, NEW k \in Nat, k >= 1
      PROVE  /\ k * p >= p /\ p * k >= p
             /\ k * p > p => k * p - p >= p
  <2> DEFINE j == k - 1
  <2>1. j \in Nat /\ k = j + 1
    BY <1>2
  <2> HIDE DEF j
  <2>2. k * p = j * p + p /\ p * k = j * p + p /\ j * p \in Nat
    BY <2>1
  <2>3. j # 0 => j * p >= p
    <3> SUFFICES ASSUME j # 0 PROVE j * p >= p
      OBVIOUS
    <3> DEFINE i == j - 1
    <3>1. i \in Nat /\ j = i + 1
      BY <2>1
    <3> HIDE DEF i
    <3>2. j * p = i * p + p /\ i * p \in Nat
      BY <3>1
    <3> QED
      BY <3>2
  <2>4. j = 0 => k * p = p
    BY <2>1
  <2> QED
    BY <2>2, <2>3, <2>4
<1>3. terms.principal * Lots >= terms.principal
  BY <1>1, <1>2
<1>4. ASSUME coin >= 1, NEW k \in Nat, coin = k * terms.principal
      PROVE  /\ coin >= terms.principal
             /\ coin > terms.principal => coin - terms.principal >= terms.principal
  <2>1. k # 0
    BY <1>1, <1>4
  <2> QED
    BY <1>1, <1>2, <1>4, <2>1
<1>5. terms.debt >= 1
  BY DEF TermsInv, Valid
<1> QED
  BY <1>3, <1>4, <1>5 DEF Worth

OutFits(outs, exit, coin, fee, given, slots, left) ==
    /\ Composes(outs, exit, terms, coin, left)
    /\ exit = "take" => /\ coin >= terms.principal
                        /\ outs[1] = Out(terms.collateral, "vault", C)
                        /\ Second(outs, "offer", D, coin - terms.principal, fee)
    /\ exit = "withdraw" => outs[1] = Out(coin, "lender", D)
    /\ exit = "recover" => outs[1] = Out(coin, "lender", C)
    /\ exit = "repay" => /\ outs[1] = Out(terms.debt, "lender", D)
                         /\ Second(outs, "borrower", C, coin, fee)
    /\ exit \in Seizures =>
         LET price == MaxPrice(given, slots) IN
           /\ outs[1] = Out(terms.debt, "lender", D)
           /\ Evidenced(exit, given, slots)
           /\ \A S \in OpenSets(exit, given) : price <= MaxPrice(given, S)
           /\ Second(outs, "borrower", C, coin - SeizureAt(terms, price), fee)
           /\ coin - Tally(OfParty("borrower", C), outs) <= SeizureAt(terms, price)
    /\ Worth(terms) => outs \in Seq(GoodOut(fee))

(* Whatever an exit composes fits.                                         *)
LEMMA OutputsFit ==
  ASSUME TermsInv, JobFits(job), NEW left \in [Assets -> Nat],
         left[job.fee] # 0 => left[job.fee] >= DustAtoms(job.fee),
         NEW given, job.exit \in Seizures => given \in Evidence,
         NEW slots, slots = IF job.exit \in Seizures
                              THEN OracleEvidence(terms, job.exit, given) ELSE {},
         NEW made, made = Outputs(job.exit, given, slots, left), made.ok
  PROVE  OutFits(made.outs, job.exit, job.coin, job.fee, given, slots, left)
<1> DEFINE exit == job.exit
           coin == job.coin
           fee == job.fee
           outs == made.outs
           G == GoodOut(fee)
<1>1. /\ exit \in Exits /\ fee \in Priced /\ fee \in Assets /\ coin \in Nat
      /\ CoinFits(exit, coin) /\ terms \in Candidates /\ Valid(terms)
  BY AtomsType DEF JobFits, TermsInv
<1>2. /\ terms.debt \in Nat /\ terms.principal \in Nat /\ terms.collateral \in Nat
      /\ terms.principal * Lots \in Nat
  BY <1>1, TermsType
<1>3. Returned(left) \subseteq G /\ FeeMark \in G
  BY GoodReturned, MarkIsGood
<1>4. \A n \in Nat, to \in Parties, a \in Assets :
        n >= 1 /\ (a = fee => n >= DustAtoms(fee)) => Out(n, to, a) \in G
  BY GoodNamed
<1>5. Worth(terms) =>
        /\ terms.collateral >= 1 /\ (C = fee => terms.collateral >= DustAtoms(fee))
        /\ terms.principal >= 1 /\ (D = fee => terms.principal >= DustAtoms(fee))
        /\ terms.debt >= 1 /\ (D = fee => terms.debt >= DustAtoms(fee))
        /\ terms.principal * Lots >= terms.principal
        /\ coin >= 1 /\ (\E k \in Nat : coin = k * terms.principal)
             => /\ coin >= terms.principal
                /\ coin > terms.principal => coin - terms.principal >= terms.principal
  BY <1>1, TermsAreWorth
<1>6. DustAtoms(fee) \in Nat
  BY <1>1, AtomsType
<1> HIDE DEF exit, coin, fee, outs, G
<1>7. CASE exit = "fund"
  <2>1. made = FundOffer(terms, left)
    BY <1>7 DEF Outputs, exit
  <2>2. coin = 0
    BY <1>1, <1>7 DEF CoinFits
  <2>3. /\ Composes(outs, "fund", terms, coin, left)
        /\ \A H : Out(terms.principal * Lots, "offer", D) \in H /\ Returned(left) \subseteq H
                      => outs \in Seq(H)
    BY <1>1, <2>1, <2>2, FundIs DEF outs
  <2>4. Worth(terms) => Out(terms.principal * Lots, "offer", D) \in G
    BY <1>2, <1>4, <1>5, <1>6, PartyNames, AssetNames
  <2> QED
    BY <1>3, <1>7, <2>3, <2>4 DEF OutFits, exit, coin, fee, outs, G, Seizures
<1>8. CASE exit = "take"
  <2>1. made = Take(terms, coin, fee, left)
    BY <1>8 DEF Outputs, exit, coin, fee
  <2>2. coin >= 1 /\ \E k \in Nat : coin = k * terms.principal
    BY <1>1, <1>8 DEF CoinFits
  <2>3. /\ coin >= terms.principal /\ Composes(outs, "take", terms, coin, left)
        /\ outs[1] = Out(terms.collateral, "vault", C)
        /\ Second(outs, "offer", D, coin - terms.principal, fee)
        /\ \A H : /\ Out(terms.collateral, "vault", C) \in H
                  /\ Out(terms.principal, "borrower", D) \in H /\ FeeMark \in H
                  /\ coin > terms.principal => Out(coin - terms.principal, "offer", D) \in H
                  /\ Returned(left) \subseteq H
                  => outs \in Seq(H)
    BY <1>1, <2>1, TakeIs DEF outs
  <2>4. Worth(terms) => /\ Out(terms.collateral, "vault", C) \in G
                        /\ Out(terms.principal, "borrower", D) \in G
    BY <1>2, <1>4, <1>5, PartyNames, AssetNames
  <2>5. Worth(terms) /\ coin > terms.principal => Out(coin - terms.principal, "offer", D) \in G
    <3> SUFFICES ASSUME Worth(terms), coin > terms.principal
                 PROVE  Out(coin - terms.principal, "offer", D) \in G
      OBVIOUS
    <3>1. coin - terms.principal \in Nat /\ coin - terms.principal >= terms.principal
      BY <1>1, <1>2, <1>5, <2>2
    <3>2. coin - terms.principal >= 1 /\ (D = fee => coin - terms.principal >= DustAtoms(fee))
      BY <1>1, <1>2, <1>5, <1>6, <3>1
    <3> QED
      BY <1>4, <3>1, <3>2, PartyNames, AssetNames
  <2>6. Worth(terms) => outs \in Seq(G)
    BY <1>3, <2>3, <2>4, <2>5
  <2> QED
    BY <1>8, <2>3, <2>6 DEF OutFits, exit, coin, fee, outs, G, Seizures
<1>9. CASE exit = "withdraw"
  <2>1. made = Withdraw(coin, left)
    BY <1>9 DEF Outputs, exit, coin
  <2>2. coin >= 1 /\ \E k \in Nat : coin = k * terms.principal
    BY <1>1, <1>9 DEF CoinFits
  <2>3. /\ Composes(outs, "withdraw", terms, coin, left) /\ outs[1] = Out(coin, "lender", D)
        /\ \A H : Out(coin, "lender", D) \in H /\ Returned(left) \subseteq H => outs \in Seq(H)
    BY <1>1, <2>1, WithdrawIs DEF outs
  <2>4. Worth(terms) => Out(coin, "lender", D) \in G
    BY <1>1, <1>2, <1>4, <1>5, <1>6, <2>2, PartyNames, AssetNames
  <2> QED
    BY <1>3, <1>9, <2>3, <2>4 DEF OutFits, exit, coin, fee, outs, G, Seizures
<1>10. CASE exit = "repay"
  <2>1. made = Repay(terms, coin, left)
    BY <1>10 DEF Outputs, exit, coin
  <2>2. coin >= 1 /\ coin >= terms.collateral
    BY <1>1, <1>10 DEF CoinFits
  <2>3. /\ Composes(outs, "repay", terms, coin, left) /\ outs[1] = Out(terms.debt, "lender", D)
        /\ Second(outs, "borrower", C, coin, fee)
        /\ \A H : {Out(terms.debt, "lender", D), Out(coin, "borrower", C)} \subseteq H
                    /\ Returned(left) \subseteq H => outs \in Seq(H)
    BY <1>1, <2>1, RepayIs DEF outs
  <2>4. Worth(terms) => Out(terms.debt, "lender", D) \in G /\ Out(coin, "borrower", C) \in G
    BY <1>1, <1>2, <1>4, <1>5, <1>6, <2>2, PartyNames, AssetNames
  <2> QED
    BY <1>3, <1>10, <2>3, <2>4 DEF OutFits, exit, coin, fee, outs, G, Seizures
<1>11. CASE exit = "recover"
  <2>1. made = Recover(coin, left)
    BY <1>11 DEF Outputs, exit, coin
  <2>2. coin >= 1 /\ coin >= terms.collateral
    BY <1>1, <1>11 DEF CoinFits
  <2>3. /\ Composes(outs, "recover", terms, coin, left) /\ outs[1] = Out(coin, "lender", C)
        /\ \A H : Out(coin, "lender", C) \in H /\ Returned(left) \subseteq H => outs \in Seq(H)
    BY <1>1, <2>1, RecoverIs DEF outs
  <2>4. Worth(terms) => Out(coin, "lender", C) \in G
    BY <1>1, <1>2, <1>4, <1>5, <1>6, <2>2, PartyNames, AssetNames
  <2> QED
    BY <1>3, <1>11, <2>3, <2>4 DEF OutFits, exit, coin, fee, outs, G, Seizures
<1>12. CASE exit \in Seizures
  <2> DEFINE price == MaxPrice(given, slots)
  <2>1. slots # {} /\ made = Seizure(terms, coin, price, fee, left)
    BY <1>12 DEF Outputs, exit, coin, fee, Seizures, Refused
  <2>2. coin >= 1 /\ coin >= terms.collateral
    BY <1>1, <1>12 DEF CoinFits, Seizures
  <2>3. given \in Evidence /\ slots = OracleEvidence(terms, exit, given)
    BY <1>12 DEF exit
  <2>4. /\ Evidenced(exit, given, slots)
        /\ \A S \in OpenSets(exit, given) : price <= MaxPrice(given, S)
    BY <1>1, <1>12, <2>1, <2>3, EvidenceIs
  <2>5. price \in Nat /\ price >= 1
    <3>1. /\ IsFiniteSet(slots) /\ slots # {}
          /\ \A o \in slots : given[o].price \in Nat /\ given[o].price >= 1
      BY <2>4 DEF Evidenced
    <3>2. price \in Nat /\ \E o \in slots : price = given[o].price
      BY <3>1, MaxPriceIs
    <3> QED
      BY <3>1, <3>2
  <2> HIDE DEF price
  <2>6. /\ Composes(outs, exit, terms, coin, left)
        /\ outs[1] = Out(terms.debt, "lender", D)
        /\ Second(outs, "borrower", C, coin - SeizureAt(terms, price), fee)
        /\ coin - Tally(OfParty("borrower", C), outs) <= SeizureAt(terms, price)
        /\ \A H : /\ Out(terms.debt, "lender", D) \in H /\ FeeMark \in H
                  /\ \A n \in 1..coin, to \in {"borrower", "spender"} :
                       (n >= DustAtoms(C) \/ n = coin \/ fee # C) => Out(n, to, C) \in H
                  /\ coin >= 1 /\ Returned(left) \subseteq H
                  => outs \in Seq(H)
    BY <1>1, <1>12, <2>1, <2>5, SeizureLays DEF outs
  <2>7. Worth(terms) => Out(terms.debt, "lender", D) \in G
    BY <1>2, <1>4, <1>5, PartyNames, AssetNames
  <2>8. Worth(terms) => \A n \in 1..coin, to \in {"borrower", "spender"} :
          (n >= DustAtoms(C) \/ n = coin \/ fee # C) => Out(n, to, C) \in G
    BY <1>1, <1>2, <1>4, <1>5, <1>6, <2>2, PartyNames, AssetNames
  <2>9. Worth(terms) => outs \in Seq(G)
    BY <1>3, <2>2, <2>6, <2>7, <2>8
  <2> QED
    BY <1>12, <2>4, <2>6, <2>9 DEF OutFits, exit, coin, fee, outs, G, Seizures, price
<1> QED
  BY <1>1, <1>7, <1>8, <1>9, <1>10, <1>11, <1>12 DEF Exits, Seizures

-----------------------------------------------------------------------------
(* The transaction that is made of it.                                     *)

(* What the outputs hold of an asset, the fee among them.                  *)
LEMMA RawHolds ==
  ASSUME NEW x, NEW outs \in Seq(Output), NEW fee \in Nat, NEW feeAsset \in Assets,
         RawFrom(x, outs, fee, feeAsset)
  PROVE  /\ \A a \in Assets : OutOf(x, a) = Tally(OfAsset(a), outs) + Owed(fee, feeAsset, a)
         /\ \A to \in Parties \ {"fee"}, a \in Assets :
              MadeOf(x, to, a) = Tally(OfParty(to, a), outs)
<1> DEFINE o == Out(fee, "fee", feeAsset)
<1>1. "fee" \in Parties /\ F \in Assets /\ 0 \in Nat
  BY PartyNames, AssetNames
<1>2. o \in Output /\ \A b : OfAsset(b)[o] = Owed(fee, feeAsset, b)
  BY <1>1, OutType, OutWeighs DEF Owed
<1>3. \A to, b : to # "fee" => OfParty(to, b)[o] = 0
  BY <1>1, OutWeighs
<1>4. \A b : OfAsset(b)[FeeMark] = 0
  BY <1>1, OutWeighs DEF FeeMark
<1>5. \A to, b : OfParty(to, b)[FeeMark] = 0
  BY <1>1, OutWeighs DEF FeeMark
<1>6. x.outs \in Seq(Output)
  BY DEF RawFrom
<1>7. \A w \in [Output -> Nat] : w[FeeMark] = 0 => Tally(w, x.outs) = Tally(w, outs) + w[o]
  BY DEF RawFrom
<1> HIDE DEF o
<1>8. ASSUME NEW a \in Assets
      PROVE  OutOf(x, a) = Tally(OfAsset(a), outs) + Owed(fee, feeAsset, a)
  <2>1. OutOf(x, a) = Tally(OfAsset(a), x.outs)
    BY <1>6, OutOfIs
  <2>2. OfAsset(a) \in [Output -> Nat]
    BY WeightTypes
  <2>3. Tally(OfAsset(a), x.outs) = Tally(OfAsset(a), outs) + OfAsset(a)[o]
    BY <1>4, <1>7, <2>2
  <2> QED
    BY <1>2, <2>1, <2>3
<1>9. ASSUME NEW to \in Parties \ {"fee"}, NEW a \in Assets
      PROVE  MadeOf(x, to, a) = Tally(OfParty(to, a), outs)
  <2>1. MadeOf(x, to, a) = Tally(OfParty(to, a), x.outs)
    BY <1>6, MadeOfIs
  <2>2. OfParty(to, a) \in [Output -> Nat]
    BY WeightTypes
  <2>3. Tally(OfParty(to, a), x.outs) = Tally(OfParty(to, a), outs) + OfParty(to, a)[o]
    BY <1>5, <1>7, <2>2
  <2>4. Tally(OfParty(to, a), outs) \in Nat
    BY <2>2, TallyIsNat
  <2> QED
    BY <1>3, <2>1, <2>3, <2>4
<1> QED
  BY <1>8, <1>9

(* The inputs are the coins picked and the coin spent; the outputs are     *)
(* what they are worth.                                                    *)
LEMMA Balances ==
  ASSUME TermsInv, NEW exit \in Exits, NEW fee \in Priced, NEW coin \in Nat,
         NEW need, NeedFits(need, exit, fee),
         NEW have \in [Assets -> Nat], \A a \in Assets : need[a] <= have[a],
         NEW change, change = Change(have, need, fee),
         NEW outs, Composes(outs, exit, terms, coin, change.left),
         NEW x, RawFrom(x, outs, FeeAtoms(fee) + change.extra, fee),
         \A a \in Assets : x.ins[a] = have[a] + IF a = CovenantAsset(exit) THEN coin ELSE 0
  PROVE  InBalance(x)
<1>1. /\ change.left \in [Assets -> Nat] /\ change.extra \in Nat
      /\ \A a \in Assets : have[a] = need[a] + change.left[a]
                             + (IF a = fee THEN change.extra ELSE 0)
  BY ChangeIs DEF NeedFits
<1>2. fee \in Assets /\ FeeAtoms(fee) \in Nat
  BY AtomsType
<1>3. /\ terms.debt \in Nat /\ terms.collateral \in Nat /\ terms.principal * Lots \in Nat
  BY TermsType DEF TermsInv
<1>4. outs \in Seq(Output)
  BY DEF Composes
<1> DEFINE paid == FeeAtoms(fee) + change.extra
<1>5. paid \in Nat
  BY <1>1, <1>2
<1>6. \A a \in Assets : OutOf(x, a) = Tally(OfAsset(a), outs) + Owed(paid, fee, a)
  <2>1. RawFrom(x, outs, paid, fee)
    OBVIOUS
  <2> HIDE DEF paid
  <2> QED
    BY ONLY <1>2, <1>4, <1>5, <2>1, RawHolds
<1>7. ASSUME NEW a \in Assets PROVE x.ins[a] = OutOf(x, a)
  <2> DEFINE spent == SpendsOf(terms, exit, a)
             cov == Owed(coin, CovenantAsset(exit), a)
  <2>1. spent \in Nat /\ cov \in Nat
    BY <1>3 DEF SpendsOf, Owed, Exits
  <2>2. Tally(OfAsset(a), outs) = spent + cov + change.left[a]
    BY DEF Composes
  <2>3. need[a] = spent + Owed(FeeAtoms(fee), fee, a)
    BY DEF NeedFits
  <2>4. x.ins[a] = have[a] + cov
    BY DEF Owed
  <2> HIDE DEF spent, cov
  <2>5. change.left[a] \in Nat /\ have[a] \in Nat
    BY <1>1
  <2>6. CASE a = fee
    <3>1. Owed(FeeAtoms(fee), fee, a) = FeeAtoms(fee) /\ Owed(paid, fee, a) = paid
      BY <2>6 DEF Owed
    <3> QED
      BY <1>1, <1>2, <1>6, <2>1, <2>2, <2>3, <2>4, <2>5, <2>6, <3>1
  <2>7. CASE a # fee
    <3>1. Owed(FeeAtoms(fee), fee, a) = 0 /\ Owed(paid, fee, a) = 0
      BY <2>7 DEF Owed
    <3> QED
      BY <1>1, <1>2, <1>6, <2>1, <2>2, <2>3, <2>4, <2>5, <2>7, <3>1
  <2> QED
    BY <2>6, <2>7
<1> QED
  BY <1>7 DEF InBalance

(* The node's other conditions.                                            *)
LEMMA GoodTaken ==
  ASSUME NEW fee \in Priced, NEW outs \in Seq(GoodOut(fee)), NEW paid \in Nat, paid >= 1,
         NEW x, RawFrom(x, outs, paid, fee)
  PROVE  NoDust(x) /\ \A i \in DOMAIN x.outs : x.outs[i].amt >= 1
<1>1. ASSUME NEW i \in DOMAIN x.outs
      PROVE  /\ x.outs[i].amt >= 1
             /\ x.outs[i].asset = fee /\ x.outs[i].to # "fee" => x.outs[i].amt >= DustAtoms(fee)
  <2>1. CASE x.outs[i] = Out(paid, "fee", fee)
    BY <2>1 DEF Out
  <2>2. CASE i \in DOMAIN outs /\ outs[i].to # "fee" /\ x.outs[i] = outs[i]
    <3>1. outs[i] \in GoodOut(fee)
      BY <2>2
    <3>2. outs[i] # FeeMark
      BY <2>2 DEF FeeMark, Out
    <3> QED
      BY <2>2, <3>1, <3>2 DEF GoodOut
  <2> QED
    BY <2>1, <2>2 DEF RawFrom
<1>2. x.feeAsset = fee
  BY DEF RawFrom
<1> QED
  BY <1>1, <1>2 DEF NoDust

(* Output 1 is what the leaf takes for a return.                           *)
LEMMA ReturnsIs ==
  ASSUME NEW outs, NEW paid, NEW fee, NEW x, RawFrom(x, outs, paid, fee),
         NEW to, NEW asset, NEW due, Second(outs, to, asset, due, fee)
  PROVE  Returns(x.outs[2], to, asset, due)
<1>1. /\ 2 \in DOMAIN outs
      /\ outs[2].to # "fee" => x.outs[2] = outs[2]
      /\ outs[2].to = "fee" => x.outs[2] = Out(paid, "fee", fee)
  BY DEF RawFrom, Second
<1>2. Out(paid, "fee", fee).asset = fee
  BY DEF Out
<1>3. CASE outs[2].to = "fee"
  BY <1>1, <1>2, <1>3 DEF Second, Returns
<1>4. CASE outs[2].to # "fee"
  BY <1>1, <1>4 DEF Second, Returns
<1> QED
  BY <1>3, <1>4

(* A named first output is still there in the transaction.                 *)
LEMMA PaysIs ==
  ASSUME NEW outs, NEW paid, NEW fee, NEW x, RawFrom(x, outs, paid, fee), 1 \in DOMAIN outs,
         NEW n \in Nat, NEW to \in Parties, to # "fee", NEW asset \in Assets,
         outs[1] = Out(n, to, asset)
  PROVE  Pays(x.outs[1], to, asset, n)
<1>1. outs[1].to = to /\ outs[1].amt = n /\ outs[1].asset = asset
  BY DEF Out
<1>2. x.outs[1] = outs[1]
  BY <1>1 DEF RawFrom
<1> QED
  BY <1>1, <1>2 DEF Pays

(* The evidence opens a seizure whose price its terms answer for.          *)
LEMMA SeizureOpensIs ==
  ASSUME TermsInv, NEW exit \in Seizures, NEW given, NEW slots, Evidenced(exit, given, slots),
         NEW price, price = MaxPrice(given, slots),
         NEW coin \in Nat, NEW fee \in Priced, NEW outs, NEW paid, NEW x,
         RawFrom(x, outs, paid, fee), 1 \in DOMAIN outs,
         outs[1] = Out(terms.debt, "lender", D),
         Second(outs, "borrower", C, coin - SeizureAt(terms, price), fee),
         x.leaf = exit, x.coin = coin, x.given = given, x.slots = slots
  PROVE  SeizureOpens(x, terms) \/ (exit = "default" /\ price > PriceBound(terms))
<1>1. /\ IsFiniteSet(slots) /\ slots # {}
      /\ \A o \in slots : given[o].price \in Nat /\ given[o].price >= 1
  BY DEF Evidenced
<1>2. price \in Nat /\ \E o \in slots : price = given[o].price
  BY <1>1, MaxPriceIs
<1>3. price >= 1
  BY <1>1, <1>2
<1>4. SlotsOpen(x, terms)
  BY DEF SlotsOpen, Evidenced
<1>5. terms \in Candidates /\ Valid(terms)
  BY DEF TermsInv
<1>6. terms.debt \in Nat /\ terms.strike \in Nat /\ terms.max_price \in Nat
  BY <1>5, TermsType
<1>7. Gross(terms) * terms.price_scale \in Nat /\ SeizureAt(terms, price) \in Nat
  BY <1>2, <1>3, <1>5, SeizureIs
<1>8. /\ PriceBound(terms) \in Nat /\ PriceBound(terms) >= terms.strike
  BY <1>6, LimitAssumption DEF PriceBound, Larger
<1>9. exit = "liquidate" => price < terms.strike
  BY <1>2 DEF Evidenced
<1>10. ASSUME price <= PriceBound(terms) PROVE ~Overflows(terms, price)
  <2>1. Gross(terms) * terms.price_scale + PriceBound(terms) < Limit /\ Limit \in Nat
    BY <1>5, LimitAssumption DEF Valid
  <2> DEFINE g == Gross(terms) * terms.price_scale
  <2>2. g \in Nat /\ g + PriceBound(terms) < Limit
    BY <1>7, <2>1
  <2>3. Overflows(terms, price) <=> g + price - 1 >= Limit
    BY DEF Overflows
  <2> HIDE DEF g
  <2> QED
    BY <1>2, <1>8, <1>10, <2>1, <2>2, <2>3
<1>11. Pays(x.outs[1], "lender", D, terms.debt)
  BY <1>6, PaysIs, PartyNames, AssetNames
<1>12. Returns(x.outs[2], "borrower", C, coin - SeizureAt(terms, price))
  BY ReturnsIs
<1>13. SeizureAt(terms, price)
         = (CeilDiv(terms.debt * terms.bonus_num, terms.bonus_den) * terms.price_scale
              + price - 1) \div price
  BY DEF SeizureAt, Gross, CeilDiv
<1>14. price = Max({x.given[o].price : o \in x.slots})
  BY DEF MaxPrice
<1>15. ASSUME ~Overflows(terms, price) PROVE SeizureOpens(x, terms)
  <2> HIDE DEF MaxPrice
  <2> QED
    BY <1>4, <1>11, <1>12, <1>13, <1>14, <1>15 DEF SeizureOpens
<1>16. price <= PriceBound(terms) \/ price > PriceBound(terms)
  BY <1>2, <1>8
<1>17. exit = "default" \/ exit = "liquidate"
  BY DEF Seizures
<1> QED
  BY <1>2, <1>6, <1>8, <1>9, <1>10, <1>15, <1>16, <1>17

(* The transaction is one its leaf, the node and the terms agree with.     *)
TxFits(x) ==
    /\ x.outs \in Seq(Output) /\ MakesFit(x, x.leaf, x.coin)
    /\ InBalance(x)
    /\ \/ LeafOpens(x, terms)
       \/ x.leaf = "default" /\ MaxPrice(x.given, x.slots) > PriceBound(terms)
    /\ x.leaf \in Seizures =>
         LET price == MaxPrice(x.given, x.slots) IN
           /\ (x.coin - MadeOf(x, "borrower", C) - 1) * price < Gross(terms) * terms.price_scale
           /\ \A S \in OpenSets(x.leaf, x.given) : price <= MaxPrice(x.given, S)
    /\ Worth(terms) => NoDust(x) /\ \A i \in DOMAIN x.outs : x.outs[i].amt >= 1

(* A transaction made of outputs that fit fits.                            *)
LEMMA RawFits ==
  ASSUME TermsInv, NEW exit \in Exits, NEW fee \in Priced, NEW coin \in Nat,
         NEW given, NEW slots, NEW left, NEW outs, NEW paid \in Nat, paid >= 1,
         OutFits(outs, exit, coin, fee, given, slots, left),
         NEW x, RawFrom(x, outs, paid, fee), InBalance(x),
         x.leaf = exit, x.coin = coin, x.given = given, x.slots = slots
  PROVE  TxFits(x)
<1>1. /\ terms \in Candidates /\ Valid(terms)
      /\ terms.debt \in Nat /\ terms.principal \in Nat /\ terms.collateral \in Nat
  BY TermsType DEF TermsInv
<1>2. /\ Composes(outs, exit, terms, coin, left) /\ outs \in Seq(Output) /\ 1 \in DOMAIN outs
  BY DEF OutFits, Composes
<1>3. fee \in Assets
  BY AtomsType
<1>4. \A to \in Parties \ {"fee"}, a \in Assets : MadeOf(x, to, a) = Tally(OfParty(to, a), outs)
  BY <1>2, <1>3, RawHolds
<1>5. /\ MadeOf(x, "vault", C) = Tally(OfParty("vault", C), outs)
      /\ MadeOf(x, "offer", D) = Tally(OfParty("offer", D), outs)
      /\ MadeOf(x, "borrower", C) = Tally(OfParty("borrower", C), outs)
  BY <1>4, PartyNames, AssetNames
<1>6. MakesFit(x, exit, coin)
  BY <1>2, <1>5 DEF MakesFit, Composes, OutFits
<1>7. x.outs \in Seq(Output)
  BY DEF RawFrom
<1>8. Worth(terms) => NoDust(x) /\ \A i \in DOMAIN x.outs : x.outs[i].amt >= 1
  BY GoodTaken DEF OutFits
<1>9. exit \in Seizures =>
        LET price == MaxPrice(given, slots) IN
          /\ (coin - MadeOf(x, "borrower", C) - 1) * price < Gross(terms) * terms.price_scale
          /\ \A S \in OpenSets(exit, given) : price <= MaxPrice(given, S)
          /\ SeizureOpens(x, terms) \/ (exit = "default" /\ price > PriceBound(terms))
  <2> SUFFICES ASSUME exit \in Seizures
               PROVE  LET price == MaxPrice(given, slots) IN
                        /\ (coin - MadeOf(x, "borrower", C) - 1) * price
                             < Gross(terms) * terms.price_scale
                        /\ \A S \in OpenSets(exit, given) : price <= MaxPrice(given, S)
                        /\ SeizureOpens(x, terms) \/ (exit = "default" /\ price > PriceBound(terms))
    OBVIOUS
  <2> DEFINE price == MaxPrice(given, slots)
             kept == coin - Tally(OfParty("borrower", C), outs)
  <2>1. /\ outs[1] = Out(terms.debt, "lender", D)
        /\ Evidenced(exit, given, slots)
        /\ \A S \in OpenSets(exit, given) : price <= MaxPrice(given, S)
        /\ Second(outs, "borrower", C, coin - SeizureAt(terms, price), fee)
        /\ kept <= SeizureAt(terms, price)
    BY DEF OutFits
  <2>2. price \in Nat /\ price >= 1
    <3>1. /\ IsFiniteSet(slots) /\ slots # {}
          /\ \A o \in slots : given[o].price \in Nat /\ given[o].price >= 1
      BY <2>1 DEF Evidenced
    <3>2. price \in Nat /\ \E o \in slots : price = given[o].price
      BY <3>1, MaxPriceIs
    <3> QED
      BY <3>1, <3>2
  <2>3. kept \in Int /\ kept = coin - MadeOf(x, "borrower", C)
    <3>1. OfParty("borrower", C) \in [Output -> Nat]
      BY WeightTypes
    <3>2. Tally(OfParty("borrower", C), outs) \in Nat
      BY <1>2, <3>1, TallyIsNat
    <3> QED
      BY <1>5, <3>2
  <2> HIDE DEF kept, price
  <2>4. (kept - 1) * price < Gross(terms) * terms.price_scale
    BY <1>1, <2>1, <2>2, <2>3, KeptIsGross
  <2>5. SeizureOpens(x, terms) \/ (exit = "default" /\ price > PriceBound(terms))
    <3>1. price = MaxPrice(given, slots)
      BY DEF price
    <3> QED
      BY <1>2, <2>1, <3>1, SeizureOpensIs
  <2>6. coin - MadeOf(x, "borrower", C) - 1 = kept - 1
    BY <2>3
  <2> QED
    BY <2>1, <2>4, <2>5, <2>6 DEF price
<1>10. LeafOpens(x, terms) \/ (exit = "default" /\ MaxPrice(given, slots) > PriceBound(terms))
  <2>1. CASE exit = "take"
    <3>1. Pays(x.outs[1], "vault", C, terms.collateral)
      BY <1>1, <1>2, <2>1, PaysIs, PartyNames, AssetNames DEF OutFits
    <3>2. Returns(x.outs[2], "offer", D, coin - terms.principal)
      BY <2>1, ReturnsIs DEF OutFits
    <3> QED
      BY <2>1, <3>1, <3>2 DEF LeafOpens, Seizures
  <2>2. CASE exit = "withdraw"
    <3>1. Pays(x.outs[1], "lender", D, coin)
      BY <1>2, <2>2, PaysIs, PartyNames, AssetNames DEF OutFits
    <3> QED
      BY <2>2, <3>1 DEF LeafOpens, Seizures
  <2>3. CASE exit = "repay"
    <3>1. Pays(x.outs[1], "lender", D, terms.debt)
      BY <1>1, <1>2, <2>3, PaysIs, PartyNames, AssetNames DEF OutFits
    <3>2. Returns(x.outs[2], "borrower", C, coin)
      BY <2>3, ReturnsIs DEF OutFits
    <3> QED
      BY <2>3, <3>1, <3>2 DEF LeafOpens, Seizures
  <2>4. CASE exit = "recover"
    <3>1. Pays(x.outs[1], "lender", C, coin)
      BY <1>2, <2>4, PaysIs, PartyNames, AssetNames DEF OutFits
    <3> QED
      BY <2>4, <3>1 DEF LeafOpens, Seizures
  <2>5. CASE exit \in Seizures
    <3>1. LeafOpens(x, terms) <=> SeizureOpens(x, terms)
      BY <2>5 DEF LeafOpens, Seizures
    <3> QED
      BY <1>9, <2>5, <3>1
  <2>6. CASE exit = "fund"
    BY <2>6 DEF LeafOpens, Seizures
  <2> QED
    BY <2>1, <2>2, <2>3, <2>4, <2>5, <2>6 DEF Exits, Seizures
<1> QED
  BY <1>6, <1>7, <1>8, <1>9, <1>10 DEF TxFits

-----------------------------------------------------------------------------
(* The steps.                                                              *)

(* What is said of the terms does not change with anything else.           *)
LEMMA TermsKept ==
  ASSUME UNCHANGED terms
  PROVE  /\ TermsInv => TermsInv'
         /\ \A j : JobFits(j)' <=> JobFits(j)
         /\ \A x, exit, coin : MakesFit(x, exit, coin)' <=> MakesFit(x, exit, coin)
         /\ \A exit, given : OpenSets(exit, given)' = OpenSets(exit, given)
<1>1. \A exit, coin : CoinFits(exit, coin)' <=> CoinFits(exit, coin)
  BY DEF CoinFits
<1>2. \A j : JobFits(j)' <=> JobFits(j)
  BY <1>1 DEF JobFits
<1>3. \A x, exit, coin : MakesFit(x, exit, coin)' <=> MakesFit(x, exit, coin)
  BY DEF MakesFit
<1>4. \A exit, given : OpenSets(exit, given)' = OpenSets(exit, given)
  BY DEF OpenSets
<1> QED
  BY <1>2, <1>3, <1>4 DEF TermsInv

(* Nor does what is said of the coins.                                     *)
LEMMA CoinsKept ==
  ASSUME UNCHANGED coins
  PROVE  \A j : PrepareFits(j)' <=> PrepareFits(j)
BY DEF PrepareFits

(* What is composed spends what it pays, of every asset.                   *)
Balanced == Made => InBalance(tx)

(* What is said of the transaction made last.                              *)
Sound ==
    /\ OpensItsLeaf /\ SeizedIsGross /\ EvidenceAtItsBest /\ OnlyFeeCoinsRunShort
    /\ Balanced
    /\ Worth(terms) => NodeAccepts

(* Nor what is said of the transaction.                                    *)
LEMMA SoundKept ==
  ASSUME Sound, UNCHANGED <<terms, tx>>, tx.leaf # "refused" \/ UNCHANGED coins
  PROVE  Sound'
<1>1. \A exit, given : OpenSets(exit, given)' = OpenSets(exit, given)
  BY TermsKept
<1>2. OpensItsLeaf' /\ SeizedIsGross' /\ (Worth(terms) => NodeAccepts)' /\ Balanced'
  BY DEF Sound, OpensItsLeaf, SeizedIsGross, NodeAccepts, Balanced, Made
<1>3. EvidenceAtItsBest'
  BY <1>1 DEF Sound, EvidenceAtItsBest, GaveUp
<1>4. OnlyFeeCoinsRunShort'
  BY DEF Sound, OnlyFeeCoinsRunShort, GaveUp
<1> QED
  BY <1>2, <1>3, <1>4 DEF Sound

(* No transaction is sound.                                                *)
LEMMA NoneIsSound ==
  ASSUME tx' = None
  PROVE  Sound'
<1>1. tx'.leaf = "none"
  BY DEF None
<1> QED
  BY <1>1 DEF Sound, OpensItsLeaf, SeizedIsGross, EvidenceAtItsBest, OnlyFeeCoinsRunShort,
              NodeAccepts, Balanced, Made, GaveUp, Exits, Seizures

(* A refusal is sound when its reason is one the properties allow.         *)
LEMMA RefusedIsSound ==
  ASSUME UNCHANGED terms, tx'.leaf = "refused",
         tx'.why = "short" => OnlyFeeCoinsRunShort',
         tx'.why = "evidence" => \/ OpenSets(tx'.job.exit, tx'.given) = {}
                                 \/ \E o \in Given(tx'.given) : ~Usable(terms, tx'.given[o])
  PROVE  Sound'
<1>1. \A exit, given : OpenSets(exit, given)' = OpenSets(exit, given)
  BY TermsKept
<1>2. OpensItsLeaf' /\ SeizedIsGross' /\ NodeAccepts' /\ Balanced'
  BY DEF OpensItsLeaf, SeizedIsGross, NodeAccepts, Balanced, Made, Exits, Seizures
<1>3. EvidenceAtItsBest'
  BY <1>1 DEF EvidenceAtItsBest, GaveUp, Seizures
<1>4. OnlyFeeCoinsRunShort'
  BY DEF OnlyFeeCoinsRunShort, GaveUp
<1> QED
  BY <1>2, <1>3, <1>4 DEF Sound

(* A transaction that fits is sound.                                       *)
LEMMA MadeIsSound ==
  ASSUME UNCHANGED terms, tx'.leaf \in Exits, TxFits(tx')
  PROVE  Sound'
<1>1. \A exit, given : OpenSets(exit, given)' = OpenSets(exit, given)
  BY TermsKept
<1>2. OpensItsLeaf'
  BY DEF TxFits, OpensItsLeaf
<1>3. SeizedIsGross'
  BY DEF TxFits, SeizedIsGross
<1>4. (Worth(terms) => NodeAccepts)' /\ Balanced'
  BY DEF TxFits, NodeAccepts, Balanced
<1>5. tx'.leaf # "refused"
  BY DEF Exits
<1>6. EvidenceAtItsBest'
  BY <1>1, <1>5 DEF TxFits, EvidenceAtItsBest, GaveUp
<1>7. OnlyFeeCoinsRunShort'
  BY <1>5 DEF OnlyFeeCoinsRunShort, GaveUp
<1> QED
  BY <1>2, <1>3, <1>4, <1>6, <1>7 DEF Sound

(* JobInv, when the coins and the terms stay.                              *)
LEMMA JobSame ==
  ASSUME JobInv, UNCHANGED <<terms, coins, job, tx>>
  PROVE  JobInv'
<1>1. \A j : JobFits(j)' <=> JobFits(j)
  BY TermsKept
<1>2. \A x, exit, coin : MakesFit(x, exit, coin)' <=> MakesFit(x, exit, coin)
  BY TermsKept
<1>3. \A j : PrepareFits(j)' <=> PrepareFits(j)
  BY CoinsKept
<1> QED
  BY <1>1, <1>2, <1>3 DEF JobInv

(* The funds stay when the coins of the two leaves do.                     *)
LEMMA FundsSame ==
  ASSUME CoinsInv, UNCHANGED <<terms, offer, held>>, IsWallet(coins)'
  PROVE  CoinsInv'
BY DEF CoinsInv

(* choose_fee.                                                             *)
LEMMA ChooseKeeps ==
  ASSUME SpendInv, NEW exit \in Exits, ChooseFee(exit)
  PROVE  SpendInv' /\ Sound'
<1>1. UNCHANGED <<terms, height, offer, held, coins, locked, tries>> /\ tx' = None
  BY DEF ChooseFee
<1>2. PICK a \in Priced \cup PickFee(coins, Need(Spends(terms, exit)), <<D>>) :
        job' = [at |-> "pick", exit |-> exit, fee |-> a, coin |-> CoinOf(exit),
                need |-> Need(Spends(terms, exit) \o <<<<a, FeeAtoms(a)>>>>)]
  BY DEF ChooseFee
<1>3. a \in Priced
  <2>1. D \in Assets
    BY AssetNames
  <2>2. <<D>> \in Seq(Assets)
    BY <2>1
  <2>3. PickFee(coins, Need(Spends(terms, exit)), <<D>>) \subseteq Priced
    BY <2>2, PickFeePays
  <2> QED
    BY <1>2, <2>3
<1>4. CoinOf(exit) \in Nat /\ CoinFits(exit, CoinOf(exit))
  <2>1. /\ offer \in Nat /\ \E k \in Nat : offer = k * terms.principal
        /\ held \in Nat /\ (held = 0 \/ held >= terms.collateral)
    BY DEF SpendInv, CoinsInv
  <2>2. Unspent(exit)
    BY DEF ChooseFee
  <2>3. CASE exit = "fund"
    BY <2>3 DEF CoinOf, CoinFits, Seizures
  <2>4. CASE exit \in {"take", "withdraw"}
    <3>1. CoinOf(exit) = offer /\ offer >= 1
      BY <2>1, <2>2, <2>4 DEF CoinOf, Unspent
    <3> QED
      BY <2>1, <2>4, <3>1 DEF CoinFits, Seizures
  <2>5. CASE exit \in {"repay", "recover"} \cup Seizures
    <3>1. CoinOf(exit) = held /\ held >= 1
      BY <2>1, <2>2, <2>5 DEF CoinOf, Unspent, Seizures
    <3> QED
      BY <2>1, <2>5, <3>1 DEF CoinFits, Seizures
  <2> QED
    BY <2>3, <2>4, <2>5 DEF Exits, Seizures
<1>5. JobFits(job')
  BY <1>2, <1>3, <1>4 DEF JobFits
<1>6. JobInv'
  <2>1. JobFits(job)'
    BY <1>1, <1>5, TermsKept
  <2>2. tx'.leaf # "refused"
    BY <1>1 DEF None
  <2>3. job'.at = "pick"
    BY <1>2
  <2> QED
    BY <2>1, <2>2, <2>3 DEF JobInv
<1>7. CoinsInv'
  BY <1>1, FundsSame DEF SpendInv, CoinsInv
<1>8. TermsInv' /\ Sound'
  BY <1>1, TermsKept, NoneIsSound DEF SpendInv
<1> QED
  BY <1>6, <1>7, <1>8 DEF SpendInv

(* Nothing is being done, and what is said of the last one holds.          *)
LEMMA IdleKeeps ==
  ASSUME SpendInv, job' = Idle, UNCHANGED <<terms, offer, held, coins>>
  PROVE  SpendInv'
<1>1. JobInv'
  BY DEF JobInv
<1>2. CoinsInv'
  BY FundsSame DEF SpendInv, CoinsInv
<1>3. TermsInv'
  BY TermsKept DEF SpendInv
<1> QED
  BY <1>1, <1>2, <1>3 DEF SpendInv

(* A job that goes on with the coins and the terms as they are.            *)
LEMMA BusyKeeps ==
  ASSUME SpendInv, UNCHANGED <<terms, offer, held>>, IsWallet(coins)',
         JobFits(job'), tx'.leaf # "refused",
         \/ job'.at = "pick"
         \/ job'.at = "prepare" /\ PrepareFits(job)'
         \/ job'.at = "compose" /\ ChosenFits(job')
         \/ /\ job'.at = "send" /\ ChosenFits(job')
            /\ tx'.leaf = job'.exit /\ tx'.coin = job'.coin
            /\ tx'.outs \in Seq(Output) /\ MakesFit(tx', job'.exit, job'.coin)
  PROVE  SpendInv'
<1>1. JobFits(job)' /\ (MakesFit(tx', job'.exit, job'.coin) => MakesFit(tx, job.exit, job.coin)')
  BY TermsKept
<1>2. JobInv'
  BY <1>1 DEF JobInv, ChosenFits
<1>3. CoinsInv'
  BY FundsSame DEF SpendInv, CoinsInv
<1>4. TermsInv'
  BY TermsKept DEF SpendInv
<1> QED
  BY <1>2, <1>3, <1>4 DEF SpendInv

(* The need of the job at hand.                                            *)
LEMMA NeedOfJob ==
  ASSUME TermsInv, JobFits(job)
  PROVE  NeedFits(job.need, job.exit, job.fee) /\ job.need \in [Assets -> Nat]
BY NeedIsFor DEF JobFits, NeedFits

(* An exit under way has not been refused.                                 *)
LEMMA JobAt ==
  ASSUME SpendInv, job # Idle
  PROVE  /\ JobFits(job) /\ tx.leaf # "refused"
         /\ job.at = "prepare" => PrepareFits(job)
         /\ job.at \in {"compose", "send"} => ChosenFits(job)
         /\ job.at = "send" => /\ tx.leaf = job.exit /\ tx.coin = job.coin
                               /\ tx.outs \in Seq(Output) /\ MakesFit(tx, job.exit, job.coin)
BY DEF SpendInv, JobInv

(* Coins that are not short are enough to compose with.                    *)
LEMMA ToComposeFits ==
  ASSUME TermsInv, JobFits(job), IsWallet(coins), NEW lock, NEW chosen,
         chosen = Pick(coins, lock, job.need), Short(chosen, job.need) = {}, ToCompose(chosen)
  PROVE  JobFits(job') /\ job'.at = "compose" /\ ChosenFits(job')
<1>1. job.need \in [Assets -> Nat]
  BY NeedOfJob
<1>2. /\ job'.at = "compose" /\ job'.exit = job.exit /\ job'.fee = job.fee
      /\ job'.coin = job.coin /\ job'.need = job.need /\ job'.chosen = chosen
      /\ {"at", "exit", "fee", "coin", "need", "chosen"} \subseteq DOMAIN job'
  BY DEF ToCompose
<1>3. IsWallet(chosen) /\ \A a \in Assets : Amount(chosen, a) >= job.need[a]
  <2>1. IsWallet(chosen)
    BY PickIs
  <2>2. \A a \in Assets : Amount(chosen, a) >= job.need[a]
    BY <1>1, NotShort
  <2> QED
    BY <2>1, <2>2
<1> QED
  BY <1>2, <1>3 DEF JobFits, ChosenFits

(* Giving up keeps the invariant, for every reason that says nothing more. *)
LEMMA GiveUpKeeps ==
  ASSUME SpendInv, NEW why, NEW given, GiveUp(why, given), why \notin {"short", "evidence"},
         UNCHANGED <<terms, offer, held, coins>>
  PROVE  SpendInv' /\ Sound'
<1>1. job' = Idle /\ tx'.leaf = "refused" /\ tx'.why = why
  BY DEF GiveUp
<1>2. Sound'
  BY <1>1, RefusedIsSound
<1> QED
  BY <1>1, <1>2, IdleKeeps

(* select_funding up to the preparing sends: what is short is prepared in  *)
(* full, what is locked stays.                                             *)
LEMMA SelectKeeps ==
  ASSUME SpendInv, Sound, Select
  PROVE  SpendInv' /\ Sound'
<1> DEFINE chosen == Pick(coins, locked, job.need)
           short == Short(chosen, job.need)
           covered == {a \in Assets \ short : job.need[a] > 0}
           able == PickFee(coins, Nothing, <<job.fee>> \o InOrder(covered))
<1>1. job.at = "pick" /\ UNCHANGED <<terms, offer, held, coins>>
  BY DEF Select
<1>2. job # Idle
  BY <1>1 DEF Idle
<1>3. JobFits(job) /\ tx.leaf # "refused" /\ IsWallet(coins) /\ TermsInv
  BY <1>2, JobAt DEF SpendInv, CoinsInv
<1>4. job.need \in [Assets -> Nat]
  BY <1>3, NeedOfJob
<1>5. /\ job.fee \in Assets /\ {"at", "exit", "fee", "coin", "need"} \subseteq DOMAIN job
  BY <1>3, AtomsType DEF JobFits
<1>6. CASE short = {} /\ ToCompose(chosen) /\ UNCHANGED tx
  <2>1. JobFits(job') /\ job'.at = "compose" /\ ChosenFits(job')
    BY <1>3, <1>6, ToComposeFits
  <2>2. SpendInv'
    BY <1>1, <1>3, <1>6, <2>1, BusyKeeps
  <2> QED
    BY <1>1, <1>6, <2>2, SoundKept
<1>7. ASSUME NEW prep \in able, short # {}, UNCHANGED tx,
             job' = [at |-> "prepare", exit |-> job.exit, fee |-> job.fee, coin |-> job.coin,
                     need |-> job.need, prep |-> prep, full |-> Full(chosen, short, job.need)]
      PROVE  SpendInv' /\ Sound'
  <2>1. prep \in Priced
    <3>1. covered \subseteq Assets
      OBVIOUS
    <3> HIDE DEF covered
    <3>2. InOrder(covered) \in Seq(Assets)
      <4>1. InOrder(covered) \in Seq(covered)
        BY InOrderType
      <4> QED
        BY <3>1, <4>1
    <3>3. <<job.fee>> \o InOrder(covered) \in Seq(Assets)
      BY <1>5, <3>2
    <3>4. able \subseteq Priced
      BY <3>3, PickFeePays
    <3> QED
      BY <1>7, <3>4
  <2>2. /\ job'.at = "prepare" /\ job'.exit = job.exit /\ job'.fee = job.fee
        /\ job'.coin = job.coin /\ job'.need = job.need /\ job'.prep = prep
        /\ job'.full = [a \in short |-> job.need[a]]
        /\ {"at", "exit", "fee", "coin", "need", "prep", "full"} \subseteq DOMAIN job'
    BY <1>7 DEF Full
  <2>3. short \subseteq Assets
    BY DEF Short
  <2>4. \A a \in Assets \ ({prep} \cup short) : Amount(Plain(coins), a) >= job.need[a]
    BY <1>3, <1>4, NotShort
  <2> HIDE DEF short
  <2>5. JobFits(job')
    BY <1>3, <2>2 DEF JobFits
  <2>6. PrepareFits(job)'
    BY <1>1, <2>1, <2>2, <2>3, <2>4 DEF PrepareFits
  <2>7. SpendInv'
    BY <1>1, <1>3, <1>7, <2>2, <2>5, <2>6, BusyKeeps
  <2> QED
    BY <1>1, <1>7, <2>7, SoundKept
<1>8. CASE GiveUp("fee", <<>>)
  BY <1>1, <1>8, GiveUpKeeps
<1> HIDE DEF chosen
<1> QED
  BY <1>6, <1>7, <1>8 DEF Select, chosen

(* A preparing send takes no explicit coin that covers another asset:      *)
(* those are locked, or of the asset its fee is paid in.                   *)
LEMMA PrepareKeeps ==
  ASSUME SpendInv, Sound, NEW a \in Assets, Prepare(a)
  PROVE  SpendInv' /\ Sound'
<1> DEFINE sends == PreparingSends(coins, locked, a, job.full[a], job.prep)
<1>1. job.at = "prepare" /\ a \in DOMAIN job.full /\ UNCHANGED <<terms, offer, held>>
  BY DEF Prepare
<1>2. job # Idle
  BY <1>1 DEF Idle
<1>3. JobFits(job) /\ PrepareFits(job) /\ tx.leaf # "refused" /\ IsWallet(coins) /\ TermsInv
  BY <1>1, <1>2, JobAt DEF SpendInv, CoinsInv
<1>4. job.need \in [Assets -> Nat]
  BY <1>3, NeedOfJob
<1>5. /\ job.prep \in Priced /\ DOMAIN job.full \subseteq Assets
      /\ \A b \in DOMAIN job.full : job.full[b] = job.need[b]
      /\ \A b \in Assets \ ({job.prep} \cup DOMAIN job.full) :
           Amount(Plain(coins), b) >= job.need[b]
      /\ {"at", "exit", "fee", "coin", "need", "prep", "full"} \subseteq DOMAIN job
  BY <1>3 DEF PrepareFits, JobFits
<1>6. CASE /\ coins' \in sends /\ UNCHANGED tx
           /\ job' = [job EXCEPT !.full = Restrict(@, DOMAIN @ \ {a})]
  <2>1. job.full[a] = job.need[a] /\ job.full[a] \in Nat
    BY <1>1, <1>4, <1>5
  <2>2. /\ IsWallet(coins') /\ Amount(Plain(coins'), a) >= job.need[a]
        /\ \A b \in Assets \ {a, job.prep} : Amount(Plain(coins'), b) >= Amount(Plain(coins), b)
    BY <1>3, <1>5, <1>6, <2>1, PreparingKeeps
  <2>3. /\ job'.at = "prepare" /\ job'.exit = job.exit /\ job'.fee = job.fee
        /\ job'.coin = job.coin /\ job'.need = job.need /\ job'.prep = job.prep
        /\ job'.full = [b \in DOMAIN job.full \ {a} |-> job.full[b]]
        /\ DOMAIN job' = DOMAIN job
    BY <1>1, <1>5, <1>6 DEF Restrict
  <2>4. JobFits(job')
    BY <1>3, <2>3 DEF JobFits
  <2>5. ASSUME NEW b \in Assets \ ({job.prep} \cup (DOMAIN job.full \ {a}))
        PROVE  Amount(Plain(coins'), b) >= job.need[b]
    <3>1. CASE b = a
      BY <2>2, <3>1
    <3>2. CASE b # a
      <4>1. Amount(Plain(coins), b) >= job.need[b]
        BY <1>5, <2>5, <3>2
      <4>2. Amount(Plain(coins'), b) >= Amount(Plain(coins), b)
        BY <2>2, <2>5, <3>2
      <4>3. Amount(Plain(coins), b) \in Nat /\ Amount(Plain(coins'), b) \in Nat
        <5>1. Plain(coins) \in SUBSET coins /\ Plain(coins') \in SUBSET coins'
          BY DEF Plain
        <5>2. IsWallet(Plain(coins)) /\ IsWallet(Plain(coins'))
          BY <1>3, <2>2, <5>1, AmountGrows
        <5> QED
          BY <5>2, AmountType
      <4> QED
        BY <1>4, <4>1, <4>2, <4>3
    <3> QED
      BY <3>1, <3>2
  <2>6. PrepareFits(job)'
    BY <1>5, <2>3, <2>5 DEF PrepareFits
  <2>7. SpendInv'
    BY <1>1, <1>3, <1>6, <2>2, <2>3, <2>4, <2>6, BusyKeeps
  <2> QED
    BY <1>1, <1>3, <1>6, <2>7, SoundKept
<1>7. CASE GiveUp("send", <<>>) /\ UNCHANGED coins
  BY <1>1, <1>7, GiveUpKeeps
<1> HIDE DEF sends
<1> QED
  BY <1>6, <1>7 DEF Prepare, sends

(* The second pick finds all but the asset the sends paid in.              *)
LEMMA ReselectKeeps ==
  ASSUME SpendInv, Sound, Reselect
  PROVE  SpendInv' /\ Sound'
<1> DEFINE chosen == Pick(coins, {}, job.need)
<1>1. job.at = "prepare" /\ DOMAIN job.full = {} /\ UNCHANGED <<terms, offer, held, coins>>
  BY DEF Reselect
<1>2. job # Idle
  BY <1>1 DEF Idle
<1>3. JobFits(job) /\ PrepareFits(job) /\ tx.leaf # "refused" /\ IsWallet(coins) /\ TermsInv
  BY <1>1, <1>2, JobAt DEF SpendInv, CoinsInv
<1>4. job.need \in [Assets -> Nat]
  BY <1>3, NeedOfJob
<1>5. CASE Short(chosen, job.need) = {} /\ ToCompose(chosen) /\ UNCHANGED tx
  <2>1. JobFits(job') /\ job'.at = "compose" /\ ChosenFits(job')
    BY <1>3, <1>5, ToComposeFits
  <2>2. SpendInv'
    BY <1>1, <1>3, <1>5, <2>1, BusyKeeps
  <2> QED
    BY <1>1, <1>5, <2>2, SoundKept
<1>6. CASE GiveUp("short", <<>>)
  <2>1. Short(chosen, job.need) \subseteq {job.prep}
    <3> SUFFICES ASSUME NEW b \in Short(chosen, job.need), b # job.prep PROVE FALSE
      OBVIOUS
    <3>1. b \in Assets /\ Amount(Plain(coins), b) < job.need[b]
      BY <1>3, <1>4, ShortIsShort
    <3>2. Amount(Plain(coins), b) >= job.need[b]
      BY <1>1, <1>3, <3>1 DEF PrepareFits
    <3>3. Amount(Plain(coins), b) \in Nat /\ job.need[b] \in Nat
      <4>1. IsWallet(Plain(coins))
        BY <1>3, PickIs
      <4> QED
        BY <1>4, <3>1, <4>1, AmountType
    <3> QED
      BY <3>1, <3>2, <3>3
  <2>2. job' = Idle /\ tx'.leaf = "refused" /\ tx'.why = "short" /\ tx'.job = job
    BY <1>6 DEF GiveUp
  <2>3. OnlyFeeCoinsRunShort'
    <3>1. Short(Pick(coins', {}, tx'.job.need), tx'.job.need) \subseteq {tx'.job.prep}
      BY <1>1, <2>1, <2>2
    <3> QED
      BY <3>1 DEF OnlyFeeCoinsRunShort
  <2>4. Sound'
    BY <1>1, <2>2, <2>3, RefusedIsSound
  <2> QED
    BY <1>1, <2>2, <2>4, IdleKeeps
<1> HIDE DEF chosen
<1> QED
  BY <1>5, <1>6 DEF Reselect, chosen

Evidenceable(given) == job.exit \in Seizures => given \in Evidence

(* What a composer refuses for.                                            *)
LEMMA SeizureWhy ==
  ASSUME NEW t \in Candidates, Valid(t), NEW coin \in Nat, NEW price \in Nat, price >= 1,
         NEW left, NEW fee, NEW made, made = Seizure(t, coin, price, fee, left), ~made.ok
  PROVE  made.why \in {"dust", "filler"}
<1> DEFINE surplus == coin - SeizureAt(t, price)
           dust == IF fee = C THEN DustAtoms(C) ELSE 0
           lifted == Larger(surplus, dust)
           filler == Filler(C, fee, left)
           poor == SeizureAt(t, price) < dust \/ coin - lifted < dust
           whole == <<Out(t.debt, "lender", D)>> \o filler.out \o <<Out(coin, "spender", C)>>
                       \o PaidBack(filler.left)
           split == <<Out(t.debt, "lender", D), Out(lifted, "borrower", C),
                      Out(coin - lifted, "spender", C)>> \o PaidBack(left)
<1>1. made = CASE surplus > 0 /\ poor -> Refused("dust")
               [] surplus > 0 /\ ~poor -> Composed(split)
               [] surplus <= 0 /\ filler.out = <<>> -> Refused("filler")
               [] OTHER -> Composed(whole)
  BY DEF Seizure
<1>2. surplus \in Int
  <2>1. SeizureAt(t, price) \in Nat
    BY SeizureIs
  <2> QED
    BY <2>1
<1>3. surplus > 0 <=> ~(surplus <= 0)
  <2> HIDE DEF surplus
  <2> QED
    BY <1>2
<1>4. \A o : Composed(o).ok
  BY DEF Composed
<1>5. Refused("dust").why = "dust" /\ Refused("filler").why = "filler"
  BY DEF Refused
<1> HIDE DEF surplus, poor, filler, whole, split
<1>6. made \in {Refused("dust"), Refused("filler")}
  BY <1>1, <1>3, <1>4
<1> QED
  BY <1>5, <1>6

(* Why a take is refused.                                                  *)
LEMMA TakeWhy ==
  ASSUME NEW t \in Candidates, NEW coin \in Nat, NEW left, NEW fee,
         NEW made, made = Take(t, coin, fee, left), ~made.ok
  PROVE  made.why \in {"drawn", "filler"}
<1> DEFINE remainder == coin - t.principal
           filler == IF remainder > 0
                     THEN [out |-> <<Out(remainder, "offer", D)>>, left |-> left]
                     ELSE Filler(D, fee, left)
           whole == <<Out(t.collateral, "vault", C)>> \o filler.out
                       \o <<Out(t.principal, "borrower", D)>> \o PaidBack(filler.left)
<1>1. made = CASE remainder < 0 -> Refused("drawn")
               [] remainder >= 0 /\ filler.out = <<>> -> Refused("filler")
               [] OTHER -> Composed(whole)
  BY DEF Take
<1>2. remainder < 0 <=> ~(remainder >= 0)
  <2>1. t.principal \in Nat
    BY TermsType
  <2> QED
    BY <2>1
<1>3. \A o : Composed(o).ok
  BY DEF Composed
<1>4. Refused("drawn").why = "drawn" /\ Refused("filler").why = "filler"
  BY DEF Refused
<1> HIDE DEF remainder, filler, whole
<1>5. made \in {Refused("drawn"), Refused("filler")}
  BY <1>1, <1>2, <1>3
<1> QED
  BY <1>4, <1>5

(* Evidence makes a price.                                                 *)
LEMMA PriceOfEvidence ==
  ASSUME NEW exit, NEW given, NEW slots, Evidenced(exit, given, slots)
  PROVE  MaxPrice(given, slots) \in Nat /\ MaxPrice(given, slots) >= 1
<1>1. /\ IsFiniteSet(slots) /\ slots # {}
      /\ \A o \in slots : given[o].price \in Nat /\ given[o].price >= 1
  BY DEF Evidenced
<1>2. MaxPrice(given, slots) \in Nat /\ \E o \in slots : MaxPrice(given, slots) = given[o].price
  BY <1>1, MaxPriceIs
<1> QED
  BY <1>1, <1>2

(* Why an exit is refused.                                                 *)
LEMMA OutputsWhy ==
  ASSUME TermsInv, JobFits(job), NEW left, NEW given,
         job.exit \in Seizures => given \in Evidence,
         NEW slots, slots = IF job.exit \in Seizures
                              THEN OracleEvidence(terms, job.exit, given) ELSE {},
         NEW made, made = Outputs(job.exit, given, slots, left), ~made.ok
  PROVE  /\ made.why # "short"
         /\ made.why = "evidence" => job.exit \in Seizures /\ slots = {}
<1>1. terms \in Candidates /\ Valid(terms) /\ job.coin \in Nat /\ job.exit \in Exits
  BY DEF TermsInv, JobFits
<1>2. CASE job.exit \in {"fund", "withdraw", "repay", "recover"}
  BY <1>2 DEF Outputs, FundOffer, Withdraw, Repay, Recover, Composed
<1>3. CASE job.exit = "take"
  <2>1. made = Take(terms, job.coin, job.fee, left)
    BY <1>3 DEF Outputs
  <2> QED
    BY <1>1, <2>1, TakeWhy
<1>4. CASE job.exit \in Seizures
  <2>1. made = IF slots = {} THEN Refused("evidence")
               ELSE Seizure(terms, job.coin, MaxPrice(given, slots), job.fee, left)
    BY <1>4 DEF Outputs, Seizures
  <2>2. CASE slots = {}
    BY <1>4, <2>1, <2>2 DEF Refused
  <2>3. CASE slots # {}
    <3>1. Evidenced(job.exit, given, slots)
      BY <1>1, <1>4, <2>3, EvidenceIs
    <3>2. MaxPrice(given, slots) \in Nat /\ MaxPrice(given, slots) >= 1
      BY <3>1, PriceOfEvidence
    <3>3. made.why \in {"dust", "filler"}
      BY <1>1, <2>1, <2>3, <3>2, SeizureWhy
    <3> QED
      BY <3>3
  <2> QED
    BY <2>2, <2>3
<1> QED
  BY <1>1, <1>2, <1>3, <1>4 DEF Exits, Seizures

(* Composing.                                                              *)
LEMMA ComposeKeeps ==
  ASSUME SpendInv, Sound, NEW given, Evidenceable(given), Compose(given)
  PROVE  SpendInv' /\ Sound'
<1> DEFINE exit == job.exit
           slots == IF exit \in Seizures THEN OracleEvidence(terms, exit, given) ELSE {}
           have == Amounts(job.chosen)
           change == Change(have, job.need, job.fee)
           all == Outputs(exit, given, slots, change.left)
           made == IF Checked(exit) THEN all ELSE Refused("spent")
           ins == [a \in Assets |-> Amount(job.chosen, a)
                     + IF a = CovenantAsset(exit) THEN job.coin ELSE 0]
           paid == FeeAtoms(job.fee) + change.extra
           spent == Spent(exit, job.coin, given, slots)
           raw == Raw(spent, ins, made.outs, paid, job.fee, LockTime(terms, exit))
<1>1. job.at = "compose" /\ UNCHANGED <<terms, offer, held, coins>>
  BY DEF Compose
<1>2. job # Idle
  BY <1>1 DEF Idle
<1>3. JobFits(job) /\ ChosenFits(job) /\ tx.leaf # "refused" /\ IsWallet(coins) /\ TermsInv
  BY <1>1, <1>2, JobAt DEF SpendInv, CoinsInv
<1>4. NeedFits(job.need, exit, job.fee) /\ job.need \in [Assets -> Nat]
  BY <1>3, NeedOfJob
<1>5. /\ exit \in Exits /\ job.fee \in Priced /\ job.fee \in Assets /\ job.coin \in Nat
      /\ FeeAtoms(job.fee) \in Nat /\ FeeAtoms(job.fee) >= 1
      /\ {"at", "exit", "fee", "coin", "need", "chosen"} \subseteq DOMAIN job
  BY <1>3, AtomsType DEF JobFits, ChosenFits
<1>6. /\ have \in [Assets -> Nat]
      /\ \A a \in Assets : have[a] = Amount(job.chosen, a) /\ job.need[a] <= have[a]
  <2>1. IsWallet(job.chosen) /\ \A a \in Assets : Amount(job.chosen, a) >= job.need[a]
    BY <1>3 DEF ChosenFits
  <2>2. \A a \in Assets : Amount(job.chosen, a) \in Nat
    BY <2>1, AmountType
  <2> QED
    BY <1>4, <2>1, <2>2 DEF Amounts
<1> HIDE DEF have
<1>7. /\ change.left \in [Assets -> Nat] /\ change.extra \in Nat
      /\ change.left[job.fee] # 0 => change.left[job.fee] >= DustAtoms(job.fee)
  BY <1>4, <1>5, <1>6, ChangeIs
<1>8. paid \in Nat /\ paid >= 1
  BY <1>5, <1>7
<1>9. \/ made.ok /\ tx' = raw /\ job' = [job EXCEPT !.at = "send"]
      \/ ~made.ok /\ GiveUp(made.why, given)
  BY DEF Compose, have
<1> HIDE DEF change, slots
<1>10. CASE made.ok /\ tx' = raw /\ job' = [job EXCEPT !.at = "send"]
  <2>1. made = all /\ all.ok
    BY <1>10 DEF Refused
  <2>2. slots = IF job.exit \in Seizures THEN OracleEvidence(terms, job.exit, given) ELSE {}
    BY DEF slots
  <2>3. job.exit \in Seizures => given \in Evidence
    BY DEF Evidenceable
  <2>4. OutFits(all.outs, exit, job.coin, job.fee, given, slots, change.left)
    <3> DEFINE left == change.left
    <3>1. left \in [Assets -> Nat] /\ (left[job.fee] # 0 => left[job.fee] >= DustAtoms(job.fee))
      BY <1>7
    <3>2. all = Outputs(job.exit, given, slots, left)
      OBVIOUS
    <3> HIDE DEF left, all
    <3>3. OutFits(all.outs, job.exit, job.coin, job.fee, given, slots, left)
      BY <1>3, <2>1, <2>2, <2>3, <3>1, <3>2, OutputsFit
    <3> QED
      BY <3>3 DEF left
  <2>5. /\ Composes(all.outs, exit, terms, job.coin, change.left)
        /\ all.outs \in Seq(Output) /\ Marks(all.outs)
    BY <2>4 DEF OutFits, Composes
  <2> DEFINE outs == all.outs
             lock == LockTime(terms, exit)
  <2>6. tx' = Raw(spent, ins, outs, paid, job.fee, lock)
    BY <1>10, <2>1
  <2>7. outs \in Seq(Output) /\ Marks(outs)
    BY <2>5
  <2>8. /\ spent.leaf = exit /\ spent.coin = job.coin /\ spent.given = given /\ spent.slots = slots
    BY DEF Spent
  <2>9. \A a \in Assets : ins[a] = have[a] + IF a = CovenantAsset(exit) THEN job.coin ELSE 0
    BY <1>6
  <2> HIDE DEF paid, ins, spent, outs, lock, all, made, raw
  <2>10. /\ RawFrom(tx', outs, paid, job.fee)
         /\ tx'.leaf = spent.leaf /\ tx'.coin = spent.coin /\ tx'.given = spent.given
         /\ tx'.slots = spent.slots /\ tx'.ins = ins
    BY <1>5, <1>8, <2>6, <2>7, RawIs
  <2>11. InBalance(tx')
    <3>1. \A a \in Assets : tx'.ins[a] = have[a] + IF a = CovenantAsset(exit) THEN job.coin ELSE 0
      BY <2>9, <2>10
    <3>2. Composes(outs, exit, terms, job.coin, change.left)
      BY <2>5 DEF outs
    <3>3. RawFrom(tx', outs, FeeAtoms(job.fee) + change.extra, job.fee)
      BY <2>10 DEF paid
    <3>4. change = Change(have, job.need, job.fee)
      BY DEF change
    <3>5. TermsInv /\ exit \in Exits /\ job.fee \in Priced /\ job.coin \in Nat
      BY <1>3, <1>5
    <3>6. NeedFits(job.need, exit, job.fee)
      BY <1>4
    <3>7. have \in [Assets -> Nat] /\ \A a \in Assets : job.need[a] <= have[a]
      BY <1>6
    <3> HIDE DEF exit, have, change
    <3> QED
      BY ONLY <3>1, <3>2, <3>3, <3>4, <3>5, <3>6, <3>7, Balances
  <2>12. TxFits(tx')
    <3>1. OutFits(outs, exit, job.coin, job.fee, given, slots, change.left)
      BY <2>4 DEF outs
    <3>2. tx'.leaf = exit /\ tx'.coin = job.coin /\ tx'.given = given /\ tx'.slots = slots
      BY <2>8, <2>10
    <3> HIDE DEF exit
    <3> QED
      BY <1>3, <1>5, <1>8, <2>10, <2>11, <3>1, <3>2, RawFits
  <2>13. tx'.leaf = exit /\ tx'.coin = job.coin /\ exit \in Exits
    BY <1>5, <2>8, <2>10
  <2>14. Sound'
    BY <1>1, <2>12, <2>13, MadeIsSound
  <2>15. /\ job'.at = "send" /\ job'.exit = job.exit /\ job'.fee = job.fee
         /\ job'.coin = job.coin /\ job'.need = job.need /\ job'.chosen = job.chosen
         /\ DOMAIN job' = DOMAIN job
    BY <1>5, <1>10
  <2>16. JobFits(job') /\ ChosenFits(job')
    BY <1>3, <2>15 DEF JobFits, ChosenFits
  <2>17. tx'.leaf # "refused" /\ tx'.outs \in Seq(Output) /\ MakesFit(tx', job'.exit, job'.coin)
    BY <2>12, <2>13, <2>15 DEF TxFits, Exits
  <2>18. SpendInv'
    BY <1>1, <1>3, <2>13, <2>15, <2>16, <2>17, BusyKeeps
  <2> QED
    BY <2>14, <2>18
<1>11. CASE ~made.ok /\ GiveUp(made.why, given)
  <2>1. job' = Idle /\ tx'.leaf = "refused" /\ tx'.why = made.why /\ tx'.given = given
        /\ tx'.job = job
    BY <1>11 DEF GiveUp
  <2>2. /\ made.why # "short"
        /\ made.why = "evidence" => exit \in Seizures /\ slots = {}
    <3>1. CASE ~Checked(exit)
      BY <3>1 DEF Refused
    <3>2. CASE Checked(exit)
      <4>1. slots = IF job.exit \in Seizures THEN OracleEvidence(terms, job.exit, given) ELSE {}
        BY DEF slots
      <4> DEFINE left == change.left
      <4>2. made = Outputs(job.exit, given, slots, left)
        BY <3>2
      <4> HIDE DEF made, left
      <4> QED
        BY <1>3, <1>11, <4>1, <4>2, OutputsWhy DEF Evidenceable
    <3> QED
      BY <3>1, <3>2
  <2>3. ASSUME made.why = "evidence"
        PROVE  \/ OpenSets(exit, given) = {}
               \/ \E o \in Given(given) : ~Usable(terms, given[o])
    <3>1. exit \in Seizures /\ slots = {}
      BY <2>2, <2>3
    <3>2. given \in Evidence /\ slots = OracleEvidence(terms, exit, given)
      BY <3>1 DEF Evidenceable, slots
    <3> HIDE DEF exit, made
    <3> QED
      BY <1>3, <3>1, <3>2, EvidenceIs DEF TermsInv
  <2>4. Sound'
    <3> HIDE DEF made
    <3> QED
      BY <1>1, <2>1, <2>2, <2>3, RefusedIsSound
  <2> QED
    BY <1>1, <2>1, <2>4, IdleKeeps
<1> QED
  BY <1>9, <1>10, <1>11

-----------------------------------------------------------------------------
(* The chain.                                                              *)

(* A lot less of whole lots is whole lots.                                 *)
LEMMA LotsLess ==
  ASSUME NEW p \in Nat, NEW k \in Nat, NEW n \in Nat, n = k * p, n >= p
  PROVE  n - p \in Nat /\ \E j \in Nat : n - p = j * p
<1>1. CASE k = 0
  <2>1. n = 0 /\ p = 0
    BY <1>1
  <2>2. n - p = 0 * p
    BY <2>1
  <2> QED
    BY <2>1, <2>2
<1>2. CASE k # 0
  <2> DEFINE j == k - 1
  <2>1. j \in Nat /\ k = j + 1
    BY <1>2
  <2> HIDE DEF j
  <2>2. k * p = j * p + p /\ j * p \in Nat
    BY <2>1
  <2>3. n - p = j * p
    BY <2>2
  <2> QED
    BY <2>1, <2>2, <2>3
<1> QED
  BY <1>1, <1>2

(* What the spender is paid are coins.                                     *)
LEMMA ReceiptsType ==
  ASSUME IsWallet(coins), NEW x, x.outs \in Seq(Output)
  PROVE  IsWallet(Receipts(x))
<1> DEFINE paid == {j \in DOMAIN x.outs : x.outs[j].to = "spender"}
           coin == [i \in paid |-> [id |-> LastId(coins) + i, asset |-> x.outs[i].asset,
                                    amount |-> x.outs[i].amt, plain |-> TRUE]]
<1>1. LastId(coins) \in Nat
  BY LastIdType
<1>2. paid \subseteq Nat /\ IsFiniteSet(paid) /\ \A i \in paid : x.outs[i] \in Output
  <2>1. DOMAIN x.outs = 1..Len(x.outs) /\ Len(x.outs) \in Nat
        /\ \A i \in DOMAIN x.outs : x.outs[i] \in Output
    OBVIOUS
  <2>2. IsFiniteSet(1..Len(x.outs))
    <3>1. 1 \in Int /\ Len(x.outs) \in Int
      BY <2>1
    <3> QED
      BY <3>1, FS_Interval
  <2>3. paid \in SUBSET (1..Len(x.outs))
    BY <2>1
  <2> QED
    BY <2>1, <2>2, <2>3, FS_Subset
<1> HIDE DEF paid
<1>3. \A i \in paid : coin[i] \in WalletCoin
  <2> TAKE i \in paid
  <2>1. /\ LastId(coins) + i \in Nat /\ x.outs[i].asset \in Assets /\ x.outs[i].amt \in Nat
    BY <1>1, <1>2 DEF Output
  <2> QED
    BY <2>1 DEF WalletCoin
<1>4. Receipts(x) = {coin[i] : i \in paid}
  BY DEF Receipts, paid
<1> HIDE DEF coin
<1>5. IsFiniteSet({coin[i] : i \in paid})
  BY <1>2, ImageIsFinite
<1> QED
  BY <1>3, <1>4, <1>5 DEF IsWallet

(* The broadcast: whole lots stay whole, a vault holds the collateral.     *)
LEMMA BroadcastKeeps ==
  ASSUME SpendInv, Sound, Broadcast
  PROVE  SpendInv' /\ Sound'
<1>1. job.at = "send" /\ UNCHANGED <<terms, tx>> /\ job' = Idle
  BY DEF Broadcast
<1>2. job # Idle
  BY <1>1 DEF Idle
<1>3. /\ JobFits(job) /\ tx.leaf # "refused" /\ IsWallet(coins) /\ TermsInv
      /\ tx.coin = job.coin /\ tx.outs \in Seq(Output) /\ MakesFit(tx, job.exit, job.coin)
  BY <1>1, <1>2, JobAt DEF SpendInv, CoinsInv
<1>4. Sound'
  BY <1>1, <1>3, SoundKept
<1>5. TermsInv' /\ JobInv'
  BY <1>1, <1>3, TermsKept DEF JobInv
<1>6. CASE UNCHANGED <<offer, held, coins>>
  BY <1>1, <1>4, <1>6, IdleKeeps
<1>7. CASE /\ CoinOf(job.exit) = tx.coin
           /\ offer' = IF job.exit \in {"fund", "take", "withdraw"}
                        THEN MadeOf(tx, "offer", D) ELSE offer
           /\ held' = IF job.exit \in {"fund", "withdraw"} THEN held
                      ELSE MadeOf(tx, "vault", C)
           /\ coins' = (coins \ job.chosen) \cup Receipts(tx)
  <2>1. IsWallet(coins')
    <3>1. IsWallet(Receipts(tx))
      BY <1>3, ReceiptsType
    <3>2. IsFiniteSet(coins \ job.chosen) /\ coins \ job.chosen \subseteq WalletCoin
      BY <1>3, FS_Subset DEF IsWallet
    <3>3. IsFiniteSet((coins \ job.chosen) \cup Receipts(tx))
      BY <3>1, <3>2, FS_Union DEF IsWallet
    <3> QED
      BY <1>7, <3>1, <3>2, <3>3 DEF IsWallet
  <2>2. /\ terms.principal \in Nat /\ terms.collateral \in Nat /\ Lots \in Nat
    BY <1>3, TermsType, SpendAssumption DEF TermsInv
  <2>3. /\ offer \in Nat /\ \E k \in Nat : offer = k * terms.principal
        /\ held \in Nat /\ (held = 0 \/ held >= terms.collateral)
    BY DEF SpendInv, CoinsInv
  <2>4. offer' \in Nat /\ \E k \in Nat : offer' = k * terms.principal
    <3>1. CASE job.exit = "fund"
      <4>1. offer' = terms.principal * Lots
        BY <1>3, <1>7, <3>1 DEF MakesFit
      <4>2. terms.principal * Lots = Lots * terms.principal /\ Lots * terms.principal \in Nat
        BY <2>2
      <4> QED
        BY <2>2, <4>1, <4>2
    <3>2. CASE job.exit = "take"
      <4>1. offer' = job.coin - terms.principal /\ job.coin >= terms.principal
        BY <1>3, <1>7, <3>2 DEF MakesFit
      <4>2. job.coin = offer
        BY <1>3, <1>7, <3>2 DEF CoinOf
      <4> QED
        BY <2>2, <2>3, <4>1, <4>2, LotsLess
    <3>3. CASE job.exit = "withdraw"
      <4>1. offer' = 0
        BY <1>3, <1>7, <3>3 DEF MakesFit
      <4>2. 0 = 0 * terms.principal
        BY <2>2
      <4> QED
        BY <4>1, <4>2
    <3>4. CASE job.exit \notin {"fund", "take", "withdraw"}
      BY <1>7, <2>3, <3>4
    <3> QED
      BY <3>1, <3>2, <3>3, <3>4
  <2>5. held' \in Nat /\ (held' = 0 \/ held' >= terms.collateral)
    <3>1. CASE job.exit \in {"fund", "withdraw"}
      BY <1>7, <2>3, <3>1
    <3>2. CASE job.exit \notin {"fund", "withdraw"}
      <4>1. held' = IF job.exit = "take" THEN terms.collateral ELSE 0
        BY <1>3, <1>7, <3>2 DEF MakesFit
      <4> QED
        BY <2>2, <4>1
    <3> QED
      BY <3>1, <3>2
  <2>6. CoinsInv'
    BY <1>1, <2>1, <2>4, <2>5 DEF CoinsInv
  <2> QED
    BY <1>4, <1>5, <2>6 DEF SpendInv
<1> QED
  BY <1>6, <1>7 DEF Broadcast

(* Another taker locks the collateral or more.                             *)
LEMMA OtherTakeKeeps ==
  ASSUME SpendInv, Sound, NEW extra \in 0..Overfund, OtherTake(extra)
  PROVE  SpendInv' /\ Sound'
<1>1. /\ offer >= terms.principal /\ offer' = offer - terms.principal
      /\ held' = terms.collateral + extra
      /\ UNCHANGED <<terms, coins, job, tx>>
  BY DEF OtherTake
<1>2. /\ TermsInv /\ JobInv /\ IsWallet(coins)
      /\ offer \in Nat /\ \E k \in Nat : offer = k * terms.principal
  BY DEF SpendInv, CoinsInv
<1>3. /\ terms.principal \in Nat /\ terms.collateral \in Nat /\ extra \in Nat
  BY <1>2, TermsType, SpendAssumption DEF TermsInv
<1>4. offer' \in Nat /\ \E k \in Nat : offer' = k * terms.principal
  BY <1>1, <1>2, <1>3, LotsLess
<1>5. held' \in Nat /\ held' >= terms.collateral
  BY <1>1, <1>3
<1>6. CoinsInv'
  BY <1>1, <1>2, <1>4, <1>5 DEF CoinsInv
<1>7. JobInv' /\ TermsInv' /\ Sound'
  BY <1>1, <1>2, JobSame, TermsKept, SoundKept
<1> QED
  BY <1>6, <1>7 DEF SpendInv

(* A vault that somebody closed holds nothing.                             *)
LEMMA OtherExitKeeps ==
  ASSUME SpendInv, Sound, OtherExit
  PROVE  SpendInv' /\ Sound'
<1>1. held' = 0 /\ UNCHANGED <<terms, offer, coins, job, tx>>
  BY DEF OtherExit
<1>2. CoinsInv'
  BY <1>1 DEF SpendInv, CoinsInv
<1>3. JobInv' /\ TermsInv' /\ Sound'
  BY <1>1, JobSame, TermsKept, SoundKept DEF SpendInv
<1> QED
  BY <1>2, <1>3 DEF SpendInv

(* Steps that touch none of it: the clock, and stuttering.                 *)
LEMMA StillKeeps ==
  ASSUME SpendInv, Sound, UNCHANGED <<terms, offer, held, coins, job, tx>>
  PROVE  SpendInv' /\ Sound'
<1>1. CoinsInv'
  BY FundsSame DEF SpendInv, CoinsInv
<1>2. JobInv' /\ TermsInv' /\ Sound'
  BY JobSame, TermsKept, SoundKept DEF SpendInv
<1> QED
  BY <1>1, <1>2 DEF SpendInv

-----------------------------------------------------------------------------
(* The library's other way to a vault.                                     *)

Unmarked == {o \in Output : o.to # "fee"}
Positive == {o \in Unmarked : o.amt >= 1}

Spare(n, to, a) == IF n > 0 THEN <<Out(n, to, a)>> ELSE <<>>

(* A named output to anybody.                                              *)
LEMMA UnmarkedOut ==
  ASSUME NEW n \in Nat, NEW to \in Parties \ {"fee"}, NEW a \in Assets,
         NEW o, o = Out(n, to, a)
  PROVE  /\ o \in Output /\ o \in Unmarked /\ (n >= 1 => o \in Positive)
         /\ \A b : OfAsset(b)[o] = Owed(n, a, b)
<1>1. o \in Output /\ o.amt = n /\ o.to = to
  BY OutType
<1>2. \A b : OfAsset(b)[o] = Owed(n, a, b)
  BY OutWeighs DEF Owed
<1> QED
  BY <1>1, <1>2 DEF Unmarked, Positive

(* What a party of an origination gets back: one output, or none.          *)
LEMMA SpareIs ==
  ASSUME NEW n \in Nat, NEW to \in Parties \ {"fee"}, NEW a \in Assets
  PROVE  /\ Spare(n, to, a) \in Seq(Positive)
         /\ \A b : Tally(OfAsset(b), Spare(n, to, a)) = Owed(n, a, b)
<1> DEFINE o == Out(n, to, a)
<1>1. o \in Output /\ (n >= 1 => o \in Positive) /\ \A b : OfAsset(b)[o] = Owed(n, a, b)
  BY UnmarkedOut
<1>2. Spare(n, to, a) = IF n > 0 THEN <<o>> ELSE <<>>
  BY DEF Spare
<1> HIDE DEF o
<1>3. CASE n > 0
  <2>1. Spare(n, to, a) = <<o>> /\ <<o>> \in Seq(Positive)
    BY <1>1, <1>2, <1>3
  <2>2. \A b : Tally(OfAsset(b), <<o>>) = OfAsset(b)[o]
    BY <1>1, WeightTypes, TallyOne
  <2> QED
    BY <1>1, <2>1, <2>2
<1>4. CASE ~(n > 0)
  <2>1. Spare(n, to, a) = <<>> /\ n = 0 /\ Spare(n, to, a) \in Seq(Positive)
    BY <1>2, <1>4
  <2>2. \A b : Tally(OfAsset(b), <<>>) = 0
    BY TallyNothing
  <2>3. \A b : Owed(0, a, b) = 0
    BY DEF Owed
  <2> QED
    BY <2>1, <2>2, <2>3
<1> QED
  BY <1>3, <1>4

(* Outputs without the place of the fee.                                   *)
LEMMA UnmarkedMarks ==
  ASSUME NEW outs \in Seq(Unmarked)
  PROVE  outs \in Seq(Output) /\ Marks(outs) /\ \A i \in DOMAIN outs : outs[i].to # "fee"
<1>1. Unmarked \subseteq Output /\ \A o \in Unmarked : o.to # "fee"
  BY DEF Unmarked
<1>2. \A i \in DOMAIN outs : outs[i] \in Unmarked
  OBVIOUS
<1> HIDE DEF Unmarked
<1>3. outs \in Seq(Output)
  BY <1>1, <1>2
<1> QED
  BY <1>1, <1>2, <1>3 DEF Marks

(* Sequences joined four times.                                            *)
TalliesFour(w, p, q, r, s) ==
  Tally(w, p \o q \o r \o s) = Tally(w, p) + Tally(w, q) + Tally(w, r) + Tally(w, s)

(* The tally of four sequences is the sum of theirs.                       *)
LEMMA TallyJoinsFour ==
  ASSUME NEW X, NEW w \in [X -> Nat], NEW p \in Seq(X), NEW q \in Seq(X), NEW r \in Seq(X),
         NEW s \in Seq(X)
  PROVE  TalliesFour(w, p, q, r, s)
<1> DEFINE u == p \o q
           v == u \o r
<1>1. u \in Seq(X)
  OBVIOUS
<1>2. Tally(w, u) = Tally(w, p) + Tally(w, q)
  BY TallyJoins
<1> HIDE DEF u
<1>3. v \in Seq(X)
  BY <1>1
<1>4. Tally(w, v) = Tally(w, u) + Tally(w, r)
  BY <1>1, TallyJoins
<1> HIDE DEF v
<1>5. Tally(w, v \o s) = Tally(w, v) + Tally(w, s)
  BY <1>3, TallyJoins
<1> QED
  BY <1>2, <1>4, <1>5 DEF u, v, TalliesFour

(* Three requirements.                                                     *)
LEMMA NeedOfThree ==
  ASSUME NEW a \in Assets, NEW n \in Nat, NEW b \in Assets, NEW m \in Nat,
         NEW c \in Assets, NEW k \in Nat, NEW need, need = Need(<<<<a, n>>, <<b, m>>, <<c, k>>>>)
  PROVE  \A e \in Assets : need[e] = Owed(n, a, e) + Owed(m, b, e) + Owed(k, c, e)
<1> DEFINE x == <<a, n>>
           y == <<b, m>>
           z == <<c, k>>
<1>1. /\ x \in Pair /\ y \in Pair /\ z \in Pair
      /\ x[1] = a /\ x[2] = n /\ y[1] = b /\ y[2] = m /\ z[1] = c /\ z[2] = k
  BY DEF Pair
<1>2. need = Need(<<x, y, z>>)
  OBVIOUS
<1> HIDE DEF x, y, z
<1> TAKE e \in Assets
<1>3. <<x, y, z>> \in Seq(Pair)
  BY <1>1
<1>4. need[e] = Tally(Named(e), <<x, y, z>>)
  BY <1>2, <1>3, NeedIs
<1>5. Named(e) \in [Pair -> Nat]
  BY WeightTypes
<1>6. Tally(Named(e), <<x, y, z>>) = Named(e)[x] + Named(e)[y] + Named(e)[z]
  BY ONLY <1>1, <1>5, TallyThree
<1>7. /\ Named(e)[x] = Owed(n, a, e) /\ Named(e)[y] = Owed(m, b, e)
      /\ Named(e)[z] = Owed(k, c, e)
  BY <1>1 DEF Named, Owed
<1> QED
  BY <1>4, <1>6, <1>7

(* build_origination.                                                      *)
LEMMA OriginateKeeps ==
  ASSUME SpendInv, Sound, NEW spare \in [1..3 -> 0..1], NEW feeAsset \in Priced,
         Originate(spare, feeAsset)
  PROVE  SpendInv' /\ Sound'
<1> DEFINE fee == FeeAtoms(feeAsset)
           n1 == spare[1]
           n2 == spare[2]
           n3 == spare[3]
           V == Out(terms.collateral, "vault", C)
           B == Out(terms.principal, "borrower", D)
           s1 == Spare(n1, "borrower", C)
           s2 == Spare(n2, "lender", D)
           s3 == Spare(n3, "lender", feeAsset)
           outs == <<V, B>> \o s1 \o s2 \o s3
           ins == Need(<<<<C, terms.collateral + n1>>, <<D, terms.principal + n2>>,
                         <<feeAsset, fee + n3>>>>)
           spent == Spent("originate", 0, <<>>, {})
<1>1. /\ job = Idle /\ tx' = Raw(spent, ins, outs, fee, feeAsset, 0)
      /\ held' = terms.collateral /\ UNCHANGED <<terms, offer, coins, job>>
  BY DEF Originate, Spare
<1>2. /\ TermsInv /\ CoinsInv /\ terms.principal \in Nat /\ terms.collateral \in Nat
  BY TermsType DEF SpendInv, TermsInv
<1>3. /\ feeAsset \in Assets /\ fee \in Nat /\ fee >= 1 /\ C \in Assets /\ D \in Assets
      /\ n1 \in Nat /\ n2 \in Nat /\ n3 \in Nat
  BY AtomsType, AssetNames
<1>4. /\ "vault" \in Parties \ {"fee"} /\ "borrower" \in Parties \ {"fee"}
      /\ "lender" \in Parties \ {"fee"}
  BY PartyNames
<1>5. spent.leaf = "originate"
  BY DEF Spent
<1> HIDE DEF fee, n1, n2, n3, spent
<1>6. /\ V \in Output /\ V \in Unmarked /\ (terms.collateral >= 1 => V \in Positive)
      /\ \A b : OfAsset(b)[V] = Owed(terms.collateral, C, b)
      /\ B \in Output /\ B \in Unmarked /\ (terms.principal >= 1 => B \in Positive)
      /\ \A b : OfAsset(b)[B] = Owed(terms.principal, D, b)
  BY <1>2, <1>3, <1>4, UnmarkedOut
<1>7. /\ s1 \in Seq(Positive) /\ \A b : Tally(OfAsset(b), s1) = Owed(n1, C, b)
      /\ s2 \in Seq(Positive) /\ \A b : Tally(OfAsset(b), s2) = Owed(n2, D, b)
      /\ s3 \in Seq(Positive) /\ \A b : Tally(OfAsset(b), s3) = Owed(n3, feeAsset, b)
  BY <1>3, <1>4, SpareIs
<1>8. \A e \in Assets : ins[e] = Owed(terms.collateral + n1, C, e)
         + Owed(terms.principal + n2, D, e) + Owed(fee + n3, feeAsset, e)
  <2> DEFINE p == terms.collateral + n1
             q == terms.principal + n2
             r == fee + n3
  <2>1. p \in Nat /\ q \in Nat /\ r \in Nat
    BY <1>2, <1>3
  <2>2. ins = Need(<<<<C, p>>, <<D, q>>, <<feeAsset, r>>>>)
    OBVIOUS
  <2> HIDE DEF p, q, r, ins
  <2>3. \A e \in Assets : ins[e] = Owed(p, C, e) + Owed(q, D, e) + Owed(r, feeAsset, e)
    BY <1>3, <2>1, <2>2, NeedOfThree
  <2> QED
    BY <2>3 DEF p, q, r
<1> HIDE DEF V, B, s1, s2, s3, ins
<1>9. Positive \subseteq Unmarked /\ Unmarked \subseteq Output
  BY DEF Positive, Unmarked
<1>10. /\ s1 \in Seq(Unmarked) /\ s2 \in Seq(Unmarked) /\ s3 \in Seq(Unmarked)
       /\ s1 \in Seq(Output) /\ s2 \in Seq(Output) /\ s3 \in Seq(Output)
  <2>1. \A s : s \in Seq(Positive) => s \in Seq(Unmarked) /\ s \in Seq(Output)
    <3> HIDE DEF Positive, Unmarked
    <3> SUFFICES ASSUME NEW s \in Seq(Positive) PROVE s \in Seq(Unmarked) /\ s \in Seq(Output)
      OBVIOUS
    <3>1. \A i \in DOMAIN s : s[i] \in Unmarked /\ s[i] \in Output
      BY <1>9
    <3> QED
      BY <3>1
  <2> QED
    BY <1>7, <2>1
<1>11. <<V, B>> \in Seq(Unmarked) /\ <<V, B>> \in Seq(Output)
  BY <1>6
<1>12. outs \in Seq(Unmarked) /\ outs \in Seq(Output) /\ Marks(outs)
       /\ \A i \in DOMAIN outs : outs[i].to # "fee"
  <2>1. outs \in Seq(Unmarked)
    BY <1>10, <1>11
  <2> HIDE DEF outs
  <2> QED
    BY <2>1, UnmarkedMarks
<1>13. ASSUME Worth(terms) PROVE outs \in Seq(Positive)
  <2>1. V \in Positive /\ B \in Positive
    BY <1>6, <1>13 DEF Worth
  <2>2. <<V, B>> \in Seq(Positive)
    BY <2>1
  <2> QED
    BY <1>7, <2>2
<1>14. ASSUME NEW a \in Assets
       PROVE  Tally(OfAsset(a), outs)
                = Owed(terms.collateral, C, a) + Owed(terms.principal, D, a)
                  + Owed(n1, C, a) + Owed(n2, D, a) + Owed(n3, feeAsset, a)
  <2>1. OfAsset(a) \in [Output -> Nat]
    BY WeightTypes
  <2>2. Tally(OfAsset(a), <<V, B>>) = OfAsset(a)[V] + OfAsset(a)[B]
    BY <1>6, <2>1, TallyTwo
  <2> DEFINE head == <<V, B>>
  <2>3. head \in Seq(Output)
    BY <1>11
  <2> HIDE DEF head
  <2>4. TalliesFour(OfAsset(a), head, s1, s2, s3)
    BY ONLY <1>10, <2>1, <2>3, TallyJoinsFour
  <2>5. /\ Owed(terms.collateral, C, a) \in Nat /\ Owed(terms.principal, D, a) \in Nat
        /\ Owed(n1, C, a) \in Nat /\ Owed(n2, D, a) \in Nat /\ Owed(n3, feeAsset, a) \in Nat
    BY <1>2, <1>3 DEF Owed
  <2>6. Tally(OfAsset(a), head) = Owed(terms.collateral, C, a) + Owed(terms.principal, D, a)
    BY <1>6, <2>2 DEF head
  <2> QED
    BY <1>7, <2>4, <2>5, <2>6 DEF head, outs, TalliesFour
<1> HIDE DEF outs
<1>15. /\ RawFrom(tx', outs, fee, feeAsset) /\ tx'.leaf = "originate" /\ tx'.ins = ins
  BY <1>1, <1>3, <1>5, <1>12, RawIs
<1>16. InBalance(tx')
  <2> SUFFICES ASSUME NEW a \in Assets PROVE tx'.ins[a] = OutOf(tx', a)
    BY DEF InBalance
  <2>0. outs \in Seq(Output) /\ fee \in Nat /\ feeAsset \in Assets
        /\ RawFrom(tx', outs, fee, feeAsset)
    BY <1>3, <1>12, <1>15
  <2>1. OutOf(tx', a) = Tally(OfAsset(a), outs) + Owed(fee, feeAsset, a)
    BY ONLY <2>0, RawHolds
  <2>2. /\ Owed(terms.collateral + n1, C, a) = Owed(terms.collateral, C, a) + Owed(n1, C, a)
        /\ Owed(terms.principal + n2, D, a) = Owed(terms.principal, D, a) + Owed(n2, D, a)
        /\ Owed(fee + n3, feeAsset, a) = Owed(fee, feeAsset, a) + Owed(n3, feeAsset, a)
    BY <1>2, <1>3 DEF Owed
  <2>3. /\ Owed(terms.collateral, C, a) \in Nat /\ Owed(terms.principal, D, a) \in Nat
        /\ Owed(n1, C, a) \in Nat /\ Owed(n2, D, a) \in Nat /\ Owed(n3, feeAsset, a) \in Nat
        /\ Owed(fee, feeAsset, a) \in Nat
    BY <1>2, <1>3 DEF Owed
  <2> QED
    BY <1>8, <1>14, <1>15, <2>1, <2>2, <2>3
<1>17. ASSUME Worth(terms), NEW i \in DOMAIN tx'.outs PROVE tx'.outs[i].amt >= 1
  <2>1. CASE tx'.outs[i] = Out(fee, "fee", feeAsset)
    BY <1>3, <2>1 DEF Out
  <2>2. CASE i \in DOMAIN outs /\ tx'.outs[i] = outs[i]
    <3>1. outs[i] \in Positive
      BY <1>13, <1>17, <2>2
    <3> QED
      BY <2>2, <3>1 DEF Positive
  <2> QED
    BY <1>15, <2>1, <2>2 DEF RawFrom
<1>18. tx'.leaf \notin Exits /\ tx'.leaf \notin Seizures /\ tx'.leaf # "refused"
  BY <1>15 DEF Exits, Seizures
<1>19. LeafOpens(tx', terms')
  BY <1>15, <1>18 DEF LeafOpens
<1>20. Sound'
  <2>1. (Worth(terms) => NodeAccepts)' /\ Balanced'
    BY <1>1, <1>16, <1>17, <1>18 DEF NodeAccepts, Balanced
  <2>2. OpensItsLeaf' /\ SeizedIsGross' /\ EvidenceAtItsBest' /\ OnlyFeeCoinsRunShort'
    BY <1>18, <1>19 DEF OpensItsLeaf, SeizedIsGross, EvidenceAtItsBest, OnlyFeeCoinsRunShort,
                        GaveUp
  <2> QED
    BY <2>1, <2>2 DEF Sound
<1>21. CoinsInv'
  BY <1>1, <1>2 DEF CoinsInv
<1>22. JobInv' /\ TermsInv'
  BY <1>1, <1>2, TermsKept DEF JobInv
<1> QED
  BY <1>20, <1>21, <1>22 DEF SpendInv

-----------------------------------------------------------------------------
(* The theorems.                                                           *)

(* The first state.                                                        *)
LEMMA SpendStarts ==
  ASSUME Init
  PROVE  SpendInv /\ Sound
<1>1. /\ terms \in Candidates /\ Valid(terms) /\ offer = 0 /\ held = 0
      /\ coins \in Wallets /\ job = Idle /\ tx = None
  BY DEF Init
<1>2. IsWallet(coins)
  BY <1>1, SpendAssumption DEF IsWallet
<1>3. \E k \in Nat : offer = k * terms.principal
  <2>1. terms.principal \in Nat
    BY <1>1, TermsType
  <2>2. 0 = 0 * terms.principal
    BY <2>1
  <2> QED
    BY <1>1, <2>2
<1>4. SpendInv
  BY <1>1, <1>2, <1>3 DEF SpendInv, TermsInv, CoinsInv, JobInv
<1>5. tx.leaf = "none"
  BY <1>1 DEF None
<1>6. Sound
  BY <1>5 DEF Sound, OpensItsLeaf, SeizedIsGross, EvidenceAtItsBest, OnlyFeeCoinsRunShort,
              NodeAccepts, Balanced, Made, GaveUp, Exits, Seizures
<1> QED
  BY <1>4, <1>6

(* Every step.                                                             *)
LEMMA SpendSteps ==
  ASSUME SpendInv, Sound, [Next]_vars
  PROVE  SpendInv' /\ Sound'
<1>1. CASE UNCHANGED vars
  BY <1>1, StillKeeps DEF vars
<1>2. CASE Next
  <2>1. ASSUME NEW exit \in Exits, ChooseFee(exit) PROVE SpendInv' /\ Sound'
    BY <2>1, ChooseKeeps
  <2>2. CASE Select
    BY <2>2, SelectKeeps
  <2>3. ASSUME NEW a \in Assets, Prepare(a) PROVE SpendInv' /\ Sound'
    BY <2>3, PrepareKeeps
  <2>4. CASE Reselect
    BY <2>4, ReselectKeeps
  <2>5. ASSUME NEW given \in IF job.at = "compose" /\ job.exit \in Seizures
                               THEN Evidence ELSE {<<>>}, Compose(given)
        PROVE  SpendInv' /\ Sound'
    <3>1. job.at = "compose"
      BY <2>5 DEF Compose
    <3>2. Evidenceable(given)
      BY <2>5, <3>1 DEF Evidenceable
    <3> QED
      BY <2>5, <3>2, ComposeKeeps
  <2>6. CASE Broadcast
    BY <2>6, BroadcastKeeps
  <2>7. ASSUME NEW spare \in [1..3 -> 0..1], NEW a \in Priced, Originate(spare, a)
        PROVE  SpendInv' /\ Sound'
    BY <2>7, OriginateKeeps
  <2>8. ASSUME NEW extra \in 0..Overfund, OtherTake(extra) PROVE SpendInv' /\ Sound'
    BY <2>8, OtherTakeKeeps
  <2>9. CASE OtherExit
    BY <2>9, OtherExitKeeps
  <2>10. CASE Tick
    BY <2>10, StillKeeps DEF Tick
  <2> QED
    BY <1>2, <2>1, <2>2, <2>3, <2>4, <2>5, <2>6, <2>7, <2>8, <2>9, <2>10 DEF Next
<1> QED
  BY <1>1, <1>2

(* The invariant the others rest on: terms that can be built, whole lots   *)
(* in an offer, at least the collateral of the terms in a vault, and a     *)
(* spender's job that has all it will spend; and with it what is said of   *)
(* the transaction composed last.                                          *)
THEOREM SpendInvariant == Spec => [](SpendInv /\ Sound)
<1>1. Init => SpendInv /\ Sound
  BY SpendStarts
<1>2. (SpendInv /\ Sound) /\ [Next]_vars => (SpendInv /\ Sound)'
  BY SpendSteps
<1> QED
  BY <1>1, <1>2, PTL DEF Spec

(* What is composed opens its leaf, whatever asset the fee is paid in and  *)
(* however much another taker locked (see OpensItsLeaf).                   *)
THEOREM LeafIsOpened == Spec => []OpensItsLeaf
<1>1. SpendInv /\ Sound => OpensItsLeaf
  BY DEF Sound
<1> QED
  BY <1>1, SpendInvariant, PTL

(* A seizure takes the debt and the bonus, within an atom (see             *)
(* SeizedIsGross).                                                         *)
THEOREM SeizureIsGross == Spec => []SeizedIsGross
<1>1. SpendInv /\ Sound => SeizedIsGross
  BY DEF Sound
<1> QED
  BY <1>1, SpendInvariant, PTL

(* The slots presented make the lowest price that can be made of what the  *)
(* oracles said (see EvidenceAtItsBest).                                   *)
THEOREM EvidenceIsBest == Spec => []EvidenceAtItsBest
<1>1. SpendInv /\ Sound => EvidenceAtItsBest
  BY DEF Sound
<1> QED
  BY <1>1, SpendInvariant, PTL

(* The preparing sends leave nothing short but the asset of their own fee  *)
(* (see OnlyFeeCoinsRunShort).                                             *)
THEOREM OnlyFeeIsShort == Spec => []OnlyFeeCoinsRunShort
<1>1. SpendInv /\ Sound => OnlyFeeCoinsRunShort
  BY DEF Sound
<1> QED
  BY <1>1, SpendInvariant, PTL

(* What is composed spends exactly what it pays, of every asset, whatever  *)
(* the terms and whichever asset the fee is in.                            *)
THEOREM NothingIsLost == Spec => []Balanced
<1>1. SpendInv /\ Sound => Balanced
  BY DEF Sound
<1> QED
  BY <1>1, SpendInvariant, PTL

(* The node takes what is composed, when no amount of the terms that can   *)
(* be built is nothing, or dust of an asset that may pay the fee.          *)
(* LoanTerms does not check that, and without it a principal of nothing    *)
(* would be an output of nothing.                                          *)
THEOREM NodeTakes ==
  ASSUME \A t \in Candidates : Valid(t) => Worth(t)
  PROVE  Spec => []NodeAccepts
<1>1. SpendInv /\ Sound => NodeAccepts
  BY DEF SpendInv, TermsInv, Sound
<1> QED
  BY <1>1, SpendInvariant, PTL
=============================================================================
