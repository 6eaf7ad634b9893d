-------------------------- MODULE LineWatchProofs --------------------------
(***************************************************************************)
(* The lines of format-2 offers and loans, for every set of transactions   *)
(* the programs allow in which no chain of spends is longer than four,     *)
(* every length of the chain, and every number of reorganisations,         *)
(* evictions, restarts and unanswered questions.                           *)
(***************************************************************************)
EXTENDS LineWatch, NumberTheorems, SequenceTheorems, TLAPS

-----------------------------------------------------------------------------
(* The transactions. *)

Maker(c) == TheOne(Makers(c))
Age == CHOOSE age \in [Txs -> {n \in 0..3 : n < Steps}] : InOrder(age)

LEMMA CoinsHaveMakers ==
  \A c \in Coins : /\ Maker(c) \in Txs /\ Makers(c) = {Maker(c)}
                   /\ \A x \in Txs : c \in Makes[x] <=> x = Maker(c)
<1> SUFFICES ASSUME NEW c \in Coins
             PROVE  /\ Maker(c) \in Txs /\ Makers(c) = {Maker(c)}
                    /\ \A x \in Txs : c \in Makes[x] <=> x = Maker(c)
  OBVIOUS
<1>1. PICK x \in Txs : Makers(c) = {x}
  BY ProgramAssumption
<1>2. Maker(c) = x
  BY <1>1 DEF Maker, TheOne
<1> QED
  BY <1>1, <1>2 DEF Makers

LEMMA AgesGrow ==
  /\ Age \in [Txs -> {n \in 0..3 : n < Steps}]
  /\ \A c \in Coins, x \in Txs : Spends[x] = c => Age[Maker(c)] < Age[x]
<1>1. /\ Age \in [Txs -> {n \in 0..3 : n < Steps}]
      /\ \A x, y \in Txs : Spends[x] \in Makes[y] => Age[y] < Age[x]
  BY ProgramAssumption DEF Age, InOrder
<1> QED
  BY <1>1, CoinsHaveMakers

LEMMA CoinsAre ==
  /\ Coins = OfferCoins \cup VaultCoins /\ OfferCoins \cap VaultCoins = {}
  /\ None \notin Coins /\ None \notin Txs
  /\ Spends \in [Txs -> Coins \cup {None}] /\ Makes \in [Txs -> SUBSET Coins]
BY LineAssumption, LedgerAssumption

-----------------------------------------------------------------------------
(* What a coin owes. *)

OwesOf(k, f, c) ==
    IF Spends[Maker(c)] \notin VaultCoins THEN <<Debt, Lock[Maker(c)]>>
    ELSE Outputs(k, Maker(c), f[Spends[Maker(c)]]).main

LEMMA OwingExists ==
  ASSUME NEW k
  PROVE  \E f : f = [c \in VaultCoins |-> OwesOf(k, f, c)]
<1> DEFINE Good(f, j) == /\ f = [c \in VaultCoins |-> f[c]]
                         /\ \A c \in VaultCoins : Age[Maker(c)] < j => f[c] = OwesOf(k, f, c)
           K == {j \in Nat : \E f : Good(f, j)}
<1>1. \A c \in VaultCoins : Age[Maker(c)] \in 0..3 /\ ~(Age[Maker(c)] < 0) /\ Age[Maker(c)] < 4
  BY CoinsHaveMakers, AgesGrow, CoinsAre
<1>2. 0 \in K
  <2> DEFINE f == [c \in VaultCoins |-> 0]
  <2>1. Good(f, 0)
    BY <1>1
  <2> QED
    BY <2>1
<1>3. ASSUME NEW j \in Nat, j < 4 /\ j \in K PROVE j + 1 \in K
  <2>1. PICK f : Good(f, j)
    BY <1>3
  <2> DEFINE g == [c \in VaultCoins |-> OwesOf(k, f, c)]
  <2>2. ASSUME NEW c \in VaultCoins, Age[Maker(c)] < j + 1
        PROVE  OwesOf(k, f, c) = OwesOf(k, g, c)
    <3>1. CASE Spends[Maker(c)] \notin VaultCoins
      BY <3>1 DEF OwesOf
    <3>2. CASE Spends[Maker(c)] \in VaultCoins
      <4> DEFINE d == Spends[Maker(c)]
      <4>1. Age[Maker(d)] < Age[Maker(c)]
        BY <3>2, AgesGrow, CoinsHaveMakers, CoinsAre
      <4>2. Age[Maker(d)] < j
        BY <4>1, <2>2, <1>1, <3>2
      <4>3. f[d] = g[d]
        BY <4>2, <2>1, <3>2
      <4> HIDE DEF g
      <4> QED
        BY <4>3 DEF OwesOf
    <3> QED
      BY <3>1, <3>2
  <2>3. Good(g, j + 1)
    BY <2>2
  <2> HIDE DEF Good, g
  <2> QED
    BY <2>3
<1>4. 4 \in K
  <2> HIDE DEF K
  <2> QED
    BY <1>2, <1>3, Reaches
<1>5. PICK f : Good(f, 4)
  BY <1>4
<1>6. \A c \in VaultCoins : f[c] = OwesOf(k, f, c)
  BY <1>1, <1>5
<1>7. f = [c \in VaultCoins |-> f[c]]
  BY <1>5
<1> QED
  BY <1>6, <1>7, Zenon

LEMMA OwingIs ==
  ASSUME NEW k
  PROVE  \A c \in VaultCoins : Owing(k)[c] = OwesOf(k, Owing(k), c)
<1>1. Owing(k) = CHOOSE f : f = [c \in VaultCoins |-> OwesOf(k, f, c)]
  BY Zenon DEF Owing, OwesOf, Maker
<1>2. PICK f : f = [c \in VaultCoins |-> OwesOf(k, f, c)]
  BY OwingExists
<1>3. Owing(k) = [c \in VaultCoins |-> OwesOf(k, Owing(k), c)]
  BY <1>1, <1>2, Zenon
<1> QED
  BY <1>3, Zenon

-----------------------------------------------------------------------------
(* What the programs let be. *)

Owed == (Nat \ {0}) \X Nat
Made(x) == kind[x] # None

LEMMA OutputsAre ==
  ASSUME NEW x, NEW o
  PROVE  LET out == Outputs(kind, x, o) IN
         /\ kind[x] = "top_up" => out = [main |-> o, paid |-> 0, beacon |-> FALSE]
         /\ kind[x] = "repay" =>
              out = [main |-> <<o[1] - 1, o[2]>>, paid |-> 1, beacon |-> FALSE]
         /\ kind[x] = "liquidate" =>
              out = [main |-> <<o[1] - 1, Lock[x]>>, paid |-> 1, beacon |-> TRUE]
         /\ kind[x] = "repaid" => out = [main |-> Borrower, paid |-> o[1], beacon |-> FALSE]
         /\ kind[x] = "liquidated" => out = [main |-> Borrower, paid |-> o[1], beacon |-> TRUE]
         /\ kind[x] = "recovered" => out = [main |-> Lender, paid |-> 0, beacon |-> FALSE]
BY DEF Outputs

(* What a transaction that is made is, by what it spends and makes. *)
LEMMA KindIs ==
  ASSUME kind \in Kinds, NEW x \in Txs, Made(x)
  PROVE  /\ Spends[x] \in VaultCoins =>
              \/ /\ kind[x] \in Moved /\ VaultOf(x) \in VaultCoins
                 /\ Maker(VaultOf(x)) = x
                 /\ kind[x] # "top_up" => Owes[Spends[x]][1] > 1
                 /\ kind[x] = "liquidate" => Lock[x] # Owes[Spends[x]][2]
              \/ (kind[x] \in Closed /\ VaultOf(x) = None)
         /\ Spends[x] \in OfferCoins =>
              \/ /\ kind[x] = "take" /\ VaultOf(x) \in VaultCoins
                 /\ Maker(VaultOf(x)) = x
                 /\ RestOf(x) = None \/ (RestOf(x) \in OfferCoins /\ Maker(RestOf(x)) = x)
              \/ (kind[x] = "refund" /\ VaultOf(x) = None)
         /\ Makes[x] \cap VaultCoins # {} => kind[x] \in Moved \cup {"take"}
         /\ Makes[x] \cap OfferCoins # {} => kind[x] \in {"fund", "take"}
         /\ kind[x] = "take" => Spends[x] \in OfferCoins
         /\ kind[x] \in Moved \cup Closed => Spends[x] \in VaultCoins
         /\ \A c \in Coins : Spends[x] = c => Made(Maker(c))
<1>1. Allowed(kind, x) /\ \A y \in Txs : Spends[x] \in Makes[y] => kind[y] # None
  BY ProgramAssumption DEF Made
<1>2. \A c \in Coins : Spends[x] = c => Made(Maker(c))
  BY <1>1, CoinsHaveMakers DEF Made
<1>3. Makes[x] \in SUBSET Coins /\ OfferCoins \cap VaultCoins = {}
      /\ Coins = OfferCoins \cup VaultCoins /\ None \notin Coins
  BY CoinsAre
<1>4. Makes[x] \cap VaultCoins # {} => VaultOf(x) \in VaultCoins /\ Maker(VaultOf(x)) = x
  <2> SUFFICES ASSUME Makes[x] \cap VaultCoins # {}
               PROVE  VaultOf(x) \in VaultCoins /\ Maker(VaultOf(x)) = x
    OBVIOUS
  <2>1. VaultOf(x) \in Makes[x] \cap VaultCoins
    BY DEF VaultOf, TheOne
  <2> QED
    BY <2>1, <1>3, CoinsHaveMakers
<1>5. RestOf(x) = None \/ (RestOf(x) \in OfferCoins /\ Maker(RestOf(x)) = x)
  <2> SUFFICES ASSUME Makes[x] \cap OfferCoins # {}
               PROVE  RestOf(x) \in OfferCoins /\ Maker(RestOf(x)) = x
    BY DEF RestOf, TheOne
  <2>1. RestOf(x) \in Makes[x] \cap OfferCoins
    BY DEF RestOf, TheOne
  <2> QED
    BY <2>1, <1>3, CoinsHaveMakers
<1>6. Makes[x] \cap VaultCoins = {} => VaultOf(x) = None
  BY DEF VaultOf, TheOne
<1> USE <1>2, <1>3, <1>4, <1>5, <1>6 DEF Made
<1>7. CASE kind[x] = "fund" /\ Spends[x] = None /\ Makes[x] \subseteq OfferCoins
  BY <1>7 DEF Moved, Closed
<1>8. CASE kind[x] = "take" /\ Spends[x] \in OfferCoins /\ Makes[x] \cap VaultCoins # {}
  BY <1>8 DEF Moved, Closed
<1>9. CASE kind[x] = "refund" /\ Spends[x] \in OfferCoins /\ Makes[x] = {}
  BY <1>9 DEF Moved, Closed
<1>10. CASE /\ kind[x] \in Moved
            /\ Spends[x] \in VaultCoins /\ Makes[x] # {} /\ Makes[x] \subseteq VaultCoins
            /\ kind[x] # "top_up" => Owing(kind)[Spends[x]][1] > 1
            /\ kind[x] = "liquidate" => Lock[x] # Owing(kind)[Spends[x]][2]
  <2>1. kind[x] \notin {"take", "fund"} /\ Makes[x] \cap VaultCoins # {}
        /\ Makes[x] \cap OfferCoins = {} /\ Spends[x] \notin OfferCoins
    BY <1>10 DEF Moved
  <2>2. /\ kind[x] # "top_up" => Owes[Spends[x]][1] > 1
        /\ kind[x] = "liquidate" => Lock[x] # Owes[Spends[x]][2]
    BY <1>10 DEF Owes
  <2> QED
    BY <1>10, <2>1, <2>2
<1>11. CASE kind[x] \in Closed /\ Spends[x] \in VaultCoins /\ Makes[x] = {}
  BY <1>11 DEF Closed
<1> QED
  BY <1>1, <1>7, <1>8, <1>9, <1>10, <1>11 DEF Allowed

LEMMA OwesAre ==
  ASSUME kind \in Kinds
  PROVE  \A c \in VaultCoins : Made(Maker(c)) =>
           /\ Owes[c] \in Owed
           /\ Spends[Maker(c)] \in OfferCoins => Owes[c] = <<Debt, Lock[Maker(c)]>>
           /\ Spends[Maker(c)] \in VaultCoins =>
                Owes[c] = Outputs(kind, Maker(c), Owes[Spends[Maker(c)]]).main
<1>1. \A c \in VaultCoins :
         Owes[c] = IF Spends[Maker(c)] \notin VaultCoins THEN <<Debt, Lock[Maker(c)]>>
                   ELSE Outputs(kind, Maker(c), Owes[Spends[Maker(c)]]).main
  BY OwingIs, Zenon DEF OwesOf, Owes
<1> DEFINE K == {j \in Nat : \A c \in VaultCoins :
                   Made(Maker(c)) /\ Age[Maker(c)] < j => Owes[c] \in Owed}
<1>2. \A c \in VaultCoins : /\ Age[Maker(c)] \in 0..3 /\ ~(Age[Maker(c)] < 0)
                            /\ Age[Maker(c)] < 4 /\ Maker(c) \in Txs
                            /\ c \in Makes[Maker(c)] \cap VaultCoins
  BY CoinsHaveMakers, AgesGrow, CoinsAre
<1>3. 0 \in K
  BY <1>2
<1>4. ASSUME NEW j \in Nat, j < 4 /\ j \in K PROVE j + 1 \in K
  <2> SUFFICES ASSUME NEW c \in VaultCoins, Made(Maker(c)), Age[Maker(c)] < j + 1
               PROVE  Owes[c] \in Owed
    OBVIOUS
  <2> DEFINE x == Maker(c)
             d == Spends[x]
  <2>0. x \in Txs /\ Lock[x] \in Nat /\ Debt \in Nat \ {0}
    BY <1>2, LineAssumption
  <2>1. CASE d \notin VaultCoins
    <3>1. Owes[c] = <<Debt, Lock[x]>>
      BY <1>1, <2>1
    <3> QED
      BY <3>1, <2>0 DEF Owed
  <2>2. CASE d \in VaultCoins
    <3>1. Made(Maker(d)) /\ kind[x] \in Moved /\ (kind[x] # "top_up" => Owes[d][1] > 1)
      <4>1. Makes[x] \cap VaultCoins # {} /\ Made(x)
        BY <1>2
      <4>2. kind[x] \in Moved \cup {"take"} /\ OfferCoins \cap VaultCoins = {}
            /\ (kind[x] = "take" => Spends[x] \in OfferCoins)
        BY <4>1, <2>0, KindIs, CoinsAre
      <4>3. kind[x] \in Moved
        BY <4>2, <2>2
      <4>4. kind[x] \notin Closed
        BY <4>3 DEF Moved, Closed
      <4>5. d \in Coins
        BY <2>2, CoinsAre
      <4> QED
        BY <4>1, <4>3, <4>4, <4>5, <2>0, <2>2, KindIs
    <3>2. Age[Maker(d)] < j
      <4>1. Age[Maker(d)] < Age[x]
        BY <2>0, <2>2, AgesGrow, CoinsAre
      <4> QED
        BY <4>1, <1>2, <2>2
    <3>3. Owes[d] \in Owed
      BY <3>1, <3>2, <1>4, <2>2
    <3>4. Owes[c] = Outputs(kind, x, Owes[d]).main
      BY <1>1, <2>2
    <3>5. PICK n \in Nat \ {0}, l \in Nat : Owes[d] = <<n, l>>
      BY <3>3 DEF Owed
    <3>6. CASE kind[x] = "top_up"
      BY <3>6, <3>4, <3>3, OutputsAre
    <3>7. CASE kind[x] = "repay"
      <4>1. n > 1
        BY <3>7, <3>1, <3>5
      <4>2. Owes[c] = <<n - 1, l>>
        BY <3>7, <3>4, <3>5, OutputsAre
      <4> QED
        BY <4>1, <4>2 DEF Owed
    <3>8. CASE kind[x] = "liquidate"
      <4>1. n > 1
        BY <3>8, <3>1, <3>5
      <4>2. Owes[c] = <<n - 1, Lock[x]>>
        BY <3>8, <3>4, <3>5, OutputsAre
      <4> QED
        BY <4>1, <4>2, <2>0 DEF Owed
    <3> QED
      BY <3>1, <3>6, <3>7, <3>8 DEF Moved
  <2> QED
    BY <2>1, <2>2
<1>5. 4 \in K
  <2> HIDE DEF K
  <2> QED
    BY <1>3, <1>4, Reaches
<1>6. \A c \in VaultCoins : Made(Maker(c)) => Owes[c] \in Owed
  BY <1>2, <1>5
<1> QED
  BY <1>1, <1>6, CoinsAre

(* vault2.follow reads off a spend of a vault what it did, and what its    *)
(* successor owes, if it is told what the vault owed.                      *)
LEMMA FollowIs ==
  ASSUME kind \in Kinds, NEW x \in Txs, Made(x), Spends[x] \in VaultCoins
  PROVE  Follow(Owes[Spends[x]], x) =
           [event |-> kind[x],
            owes |-> IF kind[x] \in Moved THEN Owes[VaultOf(x)] ELSE NoDebt]
<1> DEFINE d == Spends[x]
           out == Outputs(kind, x, Owes[d])
<1>1. Made(Maker(d)) /\ d \in Coins
  BY KindIs, CoinsAre
<1>2. PICK n \in Nat \ {0}, l \in Nat : Owes[d] = <<n, l>>
  BY <1>1, OwesAre DEF Owed
<1>3. /\ <<n, l>>[1] = n /\ <<n, l>>[2] = l
      /\ Borrower # <<n, l>> /\ Lender # <<n, l>> /\ Borrower # Lender
      /\ <<n - 1, l>> # <<n, l>> /\ <<n - 1, Lock[x]>> # <<n, l>>
  <2>1. Len(<<n, l>>) = 2 /\ Len(<<"borrower">>) = 1 /\ Len(<<"lender">>) = 1
    OBVIOUS
  <2>2. n - 1 # n
    OBVIOUS
  <2> QED
    BY <2>1, <2>2 DEF Borrower, Lender
<1>4. kind[x] \in Moved => /\ Owes[VaultOf(x)] = out.main
                           /\ kind[x] # "top_up" => n > 1
                           /\ kind[x] = "liquidate" => Lock[x] # l
  <2> SUFFICES ASSUME kind[x] \in Moved
               PROVE  /\ Owes[VaultOf(x)] = out.main
                      /\ kind[x] # "top_up" => n > 1
                      /\ kind[x] = "liquidate" => Lock[x] # l
    OBVIOUS
  <2>1. kind[x] \notin Closed
    BY DEF Moved, Closed
  <2>2. /\ VaultOf(x) \in VaultCoins /\ Maker(VaultOf(x)) = x
        /\ kind[x] # "top_up" => Owes[d][1] > 1
        /\ kind[x] = "liquidate" => Lock[x] # Owes[d][2]
    BY <2>1, KindIs
  <2>3. Owes[VaultOf(x)] = out.main
    BY <2>2, OwesAre
  <2> QED
    BY <2>2, <2>3, <1>2
<1>5. kind[x] \in Moved \cup Closed
  BY KindIs
<1> DEFINE did(event, left) == [event |-> event, owes |-> left]
           owes == <<n, l>>
           paid == <<n - out.paid, l>>
           seized == <<n - out.paid, Lock[x]>>
<1>6. Follow(Owes[d], x) =
        IF out.main = owes THEN did("top_up", owes)
        ELSE IF out.paid > 0 /\ out.paid < n
             THEN IF out.main = paid THEN did("repay", paid)
                  ELSE IF out.main = seized THEN did("liquidate", seized)
                  ELSE did("spent_unknown", NoDebt)
        ELSE IF out.paid > 0
             THEN did(IF out.beacon THEN "liquidated" ELSE "repaid", NoDebt)
        ELSE did(IF out.main = Lender THEN "recovered" ELSE "spent_unknown",
                 NoDebt)
  BY <1>2, <1>3 DEF Follow
<1>7. out = Outputs(kind, x, owes)
  BY <1>2
<1> HIDE DEF out
<1>8. CASE kind[x] = "top_up"
  <2>1. out.main = owes
    BY <1>7, <1>8, OutputsAre
  <2>2. kind[x] \in Moved
    BY <1>8 DEF Moved
  <2> QED
    BY <1>4, <1>6, <1>8, <2>1, <2>2
<1>9. CASE kind[x] = "repay"
  <2>1. out.main = <<n - 1, l>> /\ out.paid = 1
    BY <1>3, <1>7, <1>9, OutputsAre
  <2>2. kind[x] \in Moved
    BY <1>9 DEF Moved
  <2>3. n > 1
    BY <1>4, <1>9, <2>2
  <2>4. out.main # owes /\ out.main = paid /\ out.paid > 0 /\ out.paid < n
    BY <1>3, <2>1, <2>3
  <2>5. Follow(Owes[d], x) = did("repay", paid)
    BY <1>6, <2>4, Zenon
  <2> QED
    BY <1>4, <1>9, <2>2, <2>4, <2>5
<1>10. CASE kind[x] = "liquidate"
  <2>1. out.main = <<n - 1, Lock[x]>> /\ out.paid = 1
    BY <1>3, <1>7, <1>10, OutputsAre
  <2>2. kind[x] \in Moved
    BY <1>10 DEF Moved
  <2>3. n > 1 /\ Lock[x] # l
    BY <1>4, <1>10, <2>2
  <2>4. out.main # owes /\ out.main = seized /\ out.main # paid /\ out.paid > 0 /\ out.paid < n
    BY <1>3, <2>1, <2>3
  <2>5. Follow(Owes[d], x) = did("liquidate", seized)
    BY <1>6, <2>4, Zenon
  <2> QED
    BY <1>4, <1>10, <2>2, <2>4, <2>5
<1>11. CASE kind[x] \in {"repaid", "liquidated"}
  <2>1. out.main = Borrower /\ out.paid = n /\ (out.beacon <=> kind[x] = "liquidated")
    BY <1>3, <1>7, <1>11, OutputsAre
  <2>2. kind[x] \notin Moved
    BY <1>11 DEF Moved
  <2>3. out.main # owes /\ out.paid > 0 /\ ~(out.paid < n)
    BY <1>3, <2>1
  <2>4. Follow(Owes[d], x) = did(IF out.beacon THEN "liquidated" ELSE "repaid", NoDebt)
    BY <1>6, <2>3, Zenon
  <2>5. (IF out.beacon THEN "liquidated" ELSE "repaid") = kind[x]
    BY <1>11, <2>1
  <2> QED
    BY <2>2, <2>4, <2>5
<1>12. CASE kind[x] = "recovered"
  <2>1. out.main = Lender /\ out.paid = 0
    BY <1>7, <1>12, OutputsAre
  <2>2. kind[x] \notin Moved
    BY <1>12 DEF Moved
  <2>3. out.main # owes /\ ~(out.paid > 0)
    BY <1>3, <2>1
  <2>4. Follow(Owes[d], x) = did("recovered", NoDebt)
    BY <1>6, <2>1, <2>3, Zenon
  <2> QED
    BY <1>12, <2>2, <2>4
<1> QED
  BY <1>5, <1>8, <1>9, <1>10, <1>11, <1>12 DEF Moved, Closed

-----------------------------------------------------------------------------
(* The chain.  A transaction is in one place, spends a coin that is there, *)
(* and no other that is there spends the same coin.                        *)

ChainInv ==
    /\ LedgerTypeOK
    /\ \A x \in Txs : Known(x) => Made(x)
    /\ \A x \in mempool : ~InChain(x)
    /\ \A x \in Txs : \A h, k \in 1..Height :
         x \in chain[h].txs /\ x \in chain[k].txs => h = k
    /\ \A x, y \in Txs : /\ Known(x) /\ Known(y)
                         /\ Spends[x] = Spends[y] /\ Spends[x] # None
                         => x = y
    /\ \A x \in Txs : Spends[x] # None =>
         /\ x \in mempool => Known(Maker(Spends[x]))
         /\ \A h \in 1..Height : x \in chain[h].txs =>
              \E k \in 1..h : Maker(Spends[x]) \in chain[k].txs

(* Family is all that is built on a set.                                   *)
LEMMA FamilyIs ==
  ASSUME NEW S \in SUBSET Txs
  PROVE  /\ S \subseteq Family(S) /\ Family(S) \subseteq Txs
         /\ \A y \in Family(S) : \E z \in S : Age[z] <= Age[y]
         /\ \A y \in Family(S), x \in Txs : Spends[x] \in Makes[y] => x \in Family(S)
<1> DEFINE C1 == Children(S)
           C2 == Children(C1)
           C3 == Children(C2)
<1>1. /\ Age \in [Txs -> {n \in 0..3 : n < Steps}]
      /\ \A x, y \in Txs : Spends[x] \in Makes[y] => Age[y] < Age[x]
  BY ProgramAssumption DEF Age, InOrder
<1>2. ASSUME NEW T \in SUBSET Txs
      PROVE  /\ Children(T) \in SUBSET Txs
             /\ \A x \in Children(T) : \E y \in T : Age[y] < Age[x]
             /\ \A y \in T, x \in Txs : Spends[x] \in Makes[y] => x \in Children(T)
  BY <1>1 DEF Children
<1>3. /\ C1 \in SUBSET Txs /\ C2 \in SUBSET Txs /\ C3 \in SUBSET Txs
      /\ \A x \in C1 : \E y \in S : Age[y] < Age[x]
      /\ \A x \in C2 : \E y \in C1 : Age[y] < Age[x]
      /\ \A x \in C3 : \E y \in C2 : Age[y] < Age[x]
  <2>1. C1 \in SUBSET Txs
    BY <1>2
  <2>2. C2 \in SUBSET Txs
    BY <2>1, <1>2
  <2> QED
    BY <2>1, <2>2, <1>2
<1>4. Family(S) = S \cup C1 \cup C2 \cup C3
  BY DEF Family
<1> HIDE DEF C1, C2, C3
<1>5. \A x \in Txs : Age[x] \in Int /\ Age[x] >= 0 /\ Age[x] <= 3
  BY <1>1
<1>6. /\ \A x \in C1 : \E y \in S : Age[y] <= Age[x]
      /\ \A x \in C2 : \E y \in S : Age[y] <= Age[x]
      /\ \A x \in C3 : \E y \in S : Age[y] <= Age[x]
  <2>1. \A x \in C1 : \E y \in S : Age[y] <= Age[x]
    BY <1>3, <1>5
  <2>2. \A x \in C2 : \E y \in S : Age[y] <= Age[x]
    BY <2>1, <1>3, <1>5
  <2>3. \A x \in C3 : \E y \in S : Age[y] <= Age[x]
    BY <2>2, <1>3, <1>5
  <2> QED
    BY <2>1, <2>2, <2>3
<1>7. \A x \in C3 : Age[x] >= 3
  <2>1. \A x \in C1 : Age[x] >= 1
    BY <1>3, <1>5
  <2>2. \A x \in C2 : Age[x] >= 2
    BY <2>1, <1>3, <1>5
  <2> QED
    BY <2>2, <1>3, <1>5
<1>8. \A y \in C3, x \in Txs : Spends[x] \notin Makes[y]
  BY <1>1, <1>3, <1>5, <1>7
<1>9. \A y \in Family(S), x \in Txs : Spends[x] \in Makes[y] => x \in Family(S)
  <2> SUFFICES ASSUME NEW y \in Family(S), NEW x \in Txs, Spends[x] \in Makes[y]
               PROVE  x \in Family(S)
    OBVIOUS
  <2>1. CASE y \in S
    BY <2>1, <1>2, <1>4 DEF C1
  <2>2. CASE y \in C1
    BY <2>2, <1>2, <1>3, <1>4 DEF C2
  <2>3. CASE y \in C2
    BY <2>3, <1>2, <1>3, <1>4 DEF C3
  <2>4. CASE y \in C3
    BY <2>4, <1>8
  <2> QED
    BY <1>4, <2>1, <2>2, <2>3, <2>4
<1>10. \A y \in S : Age[y] <= Age[y]
  BY <1>5
<1>11. \A y \in Family(S) : \E z \in S : Age[z] <= Age[y]
  BY <1>4, <1>6, <1>10
<1>12. S \subseteq Family(S) /\ Family(S) \subseteq Txs
  BY <1>3, <1>4
<1> QED
  BY <1>9, <1>11, <1>12

LEMMA MakerOfSpent ==
  ASSUME NEW x \in Txs, Spends[x] # None
  PROVE  /\ Spends[x] \in Coins /\ Maker(Spends[x]) \in Txs
         /\ Spends[x] \in Makes[Maker(Spends[x])]
         /\ \A y \in Txs : Spends[x] \in Makes[y] <=> y = Maker(Spends[x])
         /\ Age[Maker(Spends[x])] < Age[x]
<1>1. Spends[x] \in Coins
  BY CoinsAre
<1> QED
  BY <1>1, CoinsHaveMakers, AgesGrow

LEMMA HeightType ==
  ASSUME LedgerTypeOK
  PROVE  /\ Height \in 0..MaxHeight /\ Height \in Int /\ MaxHeight \in Nat \ {0}
         /\ mempool \subseteq Txs
         /\ \A h \in 1..Height : /\ h \in 1..MaxHeight /\ chain[h] \in Block
                                 /\ chain[h].txs \subseteq Txs
                                 /\ chain[h].fork \in 0..MaxForks
<1>1. chain \in Seq(Block) /\ Len(chain) \in 0..MaxHeight /\ MaxHeight \in Nat \ {0}
  BY LedgerAssumption DEF LedgerTypeOK
<1>2. \A h \in 1..Height : chain[h] \in Block /\ h \in 1..MaxHeight
  BY <1>1 DEF Height
<1>3. Height \in 0..MaxHeight /\ Height \in Int
  BY <1>1 DEF Height
<1>4. mempool \subseteq Txs
  BY DEF LedgerTypeOK
<1> QED
  BY <1>1, <1>2, <1>3, <1>4 DEF Block

LEMMA MineDoes ==
  ASSUME LedgerTypeOK, Mine
  PROVE  /\ LedgerTypeOK'
         /\ Height' = Height + 1 /\ forks' = forks
         /\ \A h \in 1..Height : chain'[h] = chain[h]
         /\ chain'[Height + 1].fork = forks
         /\ chain'[Height + 1].txs \subseteq mempool
         /\ mempool' = mempool \ chain'[Height + 1].txs
         /\ \A x \in chain'[Height + 1].txs : \A y \in mempool :
               Spends[x] \in Makes[y] => y \in chain'[Height + 1].txs
<1>1. PICK txs \in Blocks :
         /\ chain' = Append(chain, [fork |-> forks, txs |-> txs])
         /\ mempool' = mempool \ txs
  BY DEF Mine
<1>7. /\ txs \subseteq mempool
      /\ \A x \in txs : \A y \in mempool : Spends[x] \in Makes[y] => y \in txs
  BY DEF Blocks
<1>2. chain \in Seq(Block) /\ Len(chain) \in Nat /\ Len(chain) < MaxHeight
  BY DEF Mine, LedgerTypeOK, Height
<1>3. [fork |-> forks, txs |-> txs] \in Block
  BY <1>7 DEF LedgerTypeOK, Block
<1>4. /\ chain' \in Seq(Block) /\ Len(chain') = Len(chain) + 1
      /\ \A h \in 1..Len(chain) : chain'[h] = chain[h]
      /\ chain'[Len(chain) + 1] = [fork |-> forks, txs |-> txs]
  BY <1>1, <1>2, <1>3
<1>5. forks' = forks /\ evictions' = evictions
  BY DEF Mine
<1>6. LedgerTypeOK'
  BY <1>1, <1>2, <1>4, <1>5, LedgerAssumption DEF LedgerTypeOK
<1> QED
  BY <1>1, <1>4, <1>5, <1>6, <1>7 DEF Height

(* The top blocks are undone down to n, and what was in them is there, in  *)
(* the mempool or one new block, except what is lost.                      *)
Replaced(n, pool) ==
    /\ n \in 1..(Height - 1)
    /\ Height' \in {n, Height}
    /\ \A h \in 1..n : chain'[h] = chain[h]
    /\ \A h \in n + 1..Height' : /\ chain'[h].fork = forks + 1
                                 /\ chain'[h].txs \subseteq pool \ mempool'
                                 /\ h # n + 1 => chain'[h].txs = {}
    /\ mempool' \in {pool, {}}
    /\ \A x \in pool : \/ x \in mempool'
                       \/ n + 1 <= Height' /\ x \in chain'[n + 1].txs

LEMMA ReorgDoes ==
  ASSUME LedgerTypeOK, Reorg
  PROVE  /\ LedgerTypeOK'
         /\ forks' = forks + 1 /\ forks < MaxForks
         /\ \E n \in 1..(Height - 1) : \E lost \in SUBSET Txs :
              LET gone == UNION {chain[h].txs : h \in n + 1..Height}
              IN  Replaced(n, (mempool \cup gone) \ Family(lost))
<1>1. PICK depth \in 1..MaxDepth :
         /\ depth < Height
         /\ LET kept == SubSeq(chain, 1, Height - depth)
                gone == UNION {chain[h].txs : h \in Height - depth + 1 .. Height}
            IN  \E lost \in SUBSET gone :
                  LET pool == (mempool \cup gone) \ Family(lost)
                  IN  IF ShorterChains
                      THEN chain' = kept /\ mempool' = pool
                      ELSE \E txs \in {pool, {}} :
                             /\ mempool' = pool \ txs
                             /\ chain' = kept \o
                                  [k \in 1..depth |->
                                     [fork |-> forks + 1,
                                      txs |-> IF k = 1 THEN txs ELSE {}]]
  BY DEF Reorg
<1> DEFINE n == Height - depth
           gone == UNION {chain[h].txs : h \in n + 1..Height}
           kept == SubSeq(chain, 1, n)
<1>2. PICK lost \in SUBSET gone :
        LET pool == (mempool \cup gone) \ Family(lost)
        IN  IF ShorterChains
            THEN chain' = kept /\ mempool' = pool
            ELSE \E txs \in {pool, {}} :
                   /\ mempool' = pool \ txs
                   /\ chain' = kept \o
                        [k \in 1..depth |->
                           [fork |-> forks + 1,
                            txs |-> IF k = 1 THEN txs ELSE {}]]
  BY <1>1
<1> DEFINE pool == (mempool \cup gone) \ Family(lost)
<1>3. /\ n \in 1..(Height - 1) /\ Height \in 0..MaxHeight
      /\ depth \in Nat \ {0} /\ depth + n = Height
  <2>1. MaxDepth \in Nat /\ MaxHeight \in Nat
    BY LedgerAssumption
  <2>2. Height \in 0..MaxHeight /\ Height \in Int
    BY HeightType
  <2>3. depth \in 1..MaxDepth /\ depth < Height
    BY <1>1
  <2> HIDE DEF Height
  <2> QED
    BY <2>1, <2>2, <2>3
<1>4. kept \in Seq(Block) /\ Len(kept) = n /\ \A h \in 1..n : kept[h] = chain[h]
  <2>1. chain \in Seq(Block) /\ Len(chain) = Height
    BY DEF LedgerTypeOK, Height
  <2> HIDE DEF n
  <2> QED
    BY <2>1, <1>3
<1>5. gone \subseteq Txs /\ mempool \subseteq Txs /\ pool \subseteq Txs
      /\ lost \in SUBSET Txs
  <2>1. \A h \in n + 1..Height : chain[h].txs \subseteq Txs
    BY <1>3, HeightType
  <2>2. gone \subseteq Txs
    BY <2>1
  <2> QED
    BY <2>2 DEF LedgerTypeOK
<1>6. /\ forks' = forks + 1 /\ forks < MaxForks /\ forks \in 0..MaxForks
      /\ evictions' = evictions
  BY DEF Reorg, LedgerTypeOK
<1> HIDE DEF n, gone, kept, pool
<1>7. CASE ShorterChains
  <2>1. chain' = kept /\ mempool' = pool
    BY <1>2, <1>7 DEF pool
  <2>2. LedgerTypeOK'
    BY <2>1, <1>3, <1>4, <1>5, <1>6, LedgerAssumption DEF LedgerTypeOK
  <2>3. Height' = n
    BY <2>1, <1>4 DEF Height
  <2>4. Replaced(n, pool)
    BY <2>1, <2>3, <1>3, <1>4 DEF Replaced
  <2> QED
    BY <2>2, <2>4, <1>3, <1>5, <1>6 DEF gone, pool
<1>8. CASE ~ShorterChains
  <2>1. PICK txs \in {pool, {}} :
           /\ mempool' = pool \ txs
           /\ chain' = kept \o
                [k \in 1..depth |->
                   [fork |-> forks + 1, txs |-> IF k = 1 THEN txs ELSE {}]]
    BY <1>2, <1>8 DEF pool
  <2> DEFINE new == [k \in 1..depth |->
                      [fork |-> forks + 1, txs |-> IF k = 1 THEN txs ELSE {}]]
  <2>2. new \in Seq(Block) /\ Len(new) = depth
    <3>1. \A k \in 1..depth :
            [fork |-> forks + 1, txs |-> IF k = 1 THEN txs ELSE {}] \in Block
      BY <2>1, <1>5, <1>6, LedgerAssumption DEF Block
    <3> QED
      BY <3>1, <1>3
  <2>3. /\ chain' \in Seq(Block) /\ Len(chain') = Height
        /\ \A h \in 1..n : chain'[h] = chain[h]
        /\ \A h \in n + 1..Height : chain'[h] = new[h - n]
    <3> HIDE DEF new
    <3>1. chain' = kept \o new
      BY <2>1 DEF new
    <3>2. /\ kept \o new \in Seq(Block)
          /\ Len(kept \o new) = n + depth
          /\ \A h \in 1..(n + depth) :
               (kept \o new)[h] = IF h <= n THEN kept[h] ELSE new[h - n]
      BY <2>2, <1>3, <1>4
    <3>3. n + depth = Height /\ 1..n \subseteq 1..Height
          /\ n + 1..Height \subseteq 1..Height
          /\ \A h \in n + 1..Height : ~(h <= n)
      BY <1>3
    <3>4. chain' \in Seq(Block) /\ Len(chain') = Height
      BY <3>1, <3>2, <3>3
    <3>5. ASSUME NEW h \in 1..n PROVE chain'[h] = chain[h]
      <4>1. h \in 1..(n + depth) /\ h <= n
        BY <1>3
      <4> QED
        BY <4>1, <3>1, <3>2, <1>4
    <3>6. ASSUME NEW h \in n + 1..Height PROVE chain'[h] = new[h - n]
      <4>1. h \in 1..(n + depth) /\ ~(h <= n)
        BY <3>3, <1>3
      <4> QED
        BY <4>1, <3>1, <3>2
    <3> QED
      BY <3>4, <3>5, <3>6
  <2>4. LedgerTypeOK'
    <3>1. mempool' \subseteq Txs
      BY <2>1, <1>5
    <3>2. Len(chain') \in 0..MaxHeight
      BY <2>3, <1>3
    <3> QED
      BY <3>1, <3>2, <2>3, <1>6, LedgerAssumption DEF LedgerTypeOK
  <2>5. Height' = Height
    BY <2>3 DEF Height
  <2>6. ASSUME NEW h \in n + 1..Height
        PROVE  /\ chain'[h].fork = forks + 1
               /\ h # n + 1 => chain'[h].txs = {}
               /\ h = n + 1 => chain'[h].txs = txs
    <3>1. h - n \in 1..depth /\ (h # n + 1 => h - n # 1) /\ (h = n + 1 => h - n = 1)
      BY <1>3
    <3>2. chain'[h] = [fork |-> forks + 1,
                       txs |-> IF h - n = 1 THEN txs ELSE {}]
      BY <2>3, <3>1
    <3> QED
      BY <3>1, <3>2
  <2>7. n + 1 \in n + 1..Height /\ n + 1 <= Height
    BY <1>3
  <2>8. chain'[n + 1].txs = txs
    BY <2>6, <2>7
  <2>9. Replaced(n, pool)
    <3>1. \A h \in n + 1..Height' : /\ chain'[h].fork = forks + 1
                                    /\ chain'[h].txs \subseteq pool \ mempool'
                                    /\ h # n + 1 => chain'[h].txs = {}
      <4> SUFFICES ASSUME NEW h \in n + 1..Height
                   PROVE  /\ chain'[h].fork = forks + 1
                          /\ chain'[h].txs \subseteq pool \ mempool'
                          /\ h # n + 1 => chain'[h].txs = {}
        BY <2>5
      <4>1. chain'[h].txs \in {txs, {}} /\ txs \subseteq pool \ mempool'
        BY <2>1, <2>6
      <4> QED
        BY <2>6, <4>1
    <3>2. /\ mempool' \in {pool, {}}
          /\ \A x \in pool : x \in mempool' \/ x \in chain'[n + 1].txs
      BY <2>1, <2>8
    <3> QED
      BY <3>1, <3>2, <2>3, <2>5, <2>7, <1>3 DEF Replaced
  <2> QED
    BY <2>4, <2>9, <1>3, <1>5, <1>6 DEF gone, pool
<1> QED
  BY <1>7, <1>8

LEMMA MineKeeps ==
  ASSUME ChainInv, Mine, kind' = kind
  PROVE  ChainInv' /\ \A x \in Txs : Known(x)' <=> Known(x)
<1>1. LedgerTypeOK
  BY DEF ChainInv
<1> DEFINE H == Height
           B == chain'[H + 1].txs
<1>2. /\ LedgerTypeOK'
      /\ Height' = H + 1
      /\ \A h \in 1..H : chain'[h] = chain[h]
      /\ B \subseteq mempool
      /\ \A x \in B : \A y \in mempool : Spends[x] \in Makes[y] => y \in B
      /\ mempool' = mempool \ B
  BY <1>1, MineDoes
<1>3. H \in Nat /\ mempool \subseteq Txs
  BY <1>1, HeightType
<1> HIDE DEF H, B
<1>4. /\ 1..(H + 1) = (1..H) \cup {H + 1} /\ H + 1 \notin 1..H
      /\ \A h \in 1..H : 1..h \subseteq 1..H
  BY <1>3
<1>5. \A x \in Txs : InChain(x)' <=> InChain(x) \/ x \in B
  <2>1. \A x : InChain(x) <=> \E h \in 1..H : x \in chain[h].txs
    BY DEF InChain, H
  <2>2. \A x : InChain(x)' <=> \E h \in 1..(H + 1) : x \in chain'[h].txs
    BY <1>2 DEF InChain
  <2> QED
    BY <2>1, <2>2, <1>2, <1>4 DEF B
<1>6. \A x \in Txs : Known(x)' <=> Known(x)
  BY <1>2, <1>5 DEF Known
<1>7. \A x \in Txs : Made(x)' <=> Made(x)
  BY DEF Made
<1>8. \A x \in mempool' : ~InChain(x)'
  BY <1>2, <1>3, <1>5 DEF ChainInv
<1>9. \A x \in Txs : \A h, k \in 1..Height' :
         x \in chain'[h].txs /\ x \in chain'[k].txs => h = k
  <2> SUFFICES ASSUME NEW x \in Txs, NEW h \in 1..(H + 1), NEW k \in 1..(H + 1),
                      x \in chain'[h].txs, x \in chain'[k].txs
               PROVE  h = k
    BY <1>2
  <2>1. \A j \in 1..H : x \in chain[j].txs => x \notin B
    BY <1>2 DEF ChainInv, InChain, H
  <2>2. CASE h \in 1..H /\ k \in 1..H
    BY <2>2, <1>2 DEF ChainInv, H
  <2>3. CASE h = H + 1 \/ k = H + 1
    BY <2>1, <2>3, <1>2, <1>4 DEF B
  <2> QED
    BY <2>2, <2>3, <1>4
<1>10. ASSUME NEW x \in Txs, Spends[x] # None
       PROVE  /\ x \in mempool' => Known(Maker(Spends[x]))'
              /\ \A h \in 1..Height' : x \in chain'[h].txs =>
                   \E k \in 1..h : Maker(Spends[x]) \in chain'[k].txs
  <2> DEFINE p == Maker(Spends[x])
  <2>1. p \in Txs
    BY <1>10, MakerOfSpent
  <2>2. /\ x \in mempool => Known(p)
        /\ \A h \in 1..H : x \in chain[h].txs => \E k \in 1..h : p \in chain[k].txs
    BY <1>10 DEF ChainInv, H
  <2> HIDE DEF p
  <2>3. x \in mempool' => Known(p)'
    BY <2>1, <2>2, <1>2, <1>6
  <2>4. ASSUME NEW h \in 1..(H + 1), x \in chain'[h].txs
        PROVE  \E k \in 1..h : p \in chain'[k].txs
    <3>1. CASE h \in 1..H
      <4>1. PICK k \in 1..h : p \in chain[k].txs
        BY <2>2, <2>4, <3>1, <1>2
      <4> QED
        BY <4>1, <3>1, <1>2, <1>4
    <3>2. CASE h = H + 1
      <4>1. x \in mempool /\ x \in B /\ Spends[x] \in Makes[p]
        BY <2>4, <3>2, <1>2, <1>10, MakerOfSpent DEF B, p
      <4>2. p \in B \/ \E k \in 1..H : p \in chain[k].txs
        BY <4>1, <2>2, <1>2 DEF Known, InChain, H
      <4>3. CASE p \in B
        BY <4>3, <3>2, <1>3 DEF B
      <4>4. CASE \E k \in 1..H : p \in chain[k].txs
        BY <4>4, <3>2, <1>2, <1>4
      <4> QED
        BY <4>2, <4>3, <4>4
    <3> QED
      BY <3>1, <3>2, <1>4
  <2> QED
    BY <2>3, <2>4, <1>2 DEF p
<1>11. ChainInv'
  <2>1. \A x \in Txs : Known(x)' => Made(x)'
    BY <1>6, <1>7 DEF ChainInv
  <2>2. \A x, y \in Txs : /\ Known(x)' /\ Known(y)'
                          /\ Spends[x] = Spends[y] /\ Spends[x] # None
                          => x = y
    BY <1>6 DEF ChainInv
  <2> QED
    BY <2>1, <2>2, <1>2, <1>8, <1>9, <1>10 DEF ChainInv
<1> QED
  BY <1>6, <1>11

LEMMA ReorgKeeps ==
  ASSUME ChainInv, Reorg, kind' = kind
  PROVE  ChainInv'
<1>1. LedgerTypeOK
  BY DEF ChainInv
<1>2. LedgerTypeOK'
  BY <1>1, ReorgDoes
<1>3. PICK n \in 1..(Height - 1) : \E lost \in SUBSET Txs :
        LET gone == UNION {chain[h].txs : h \in n + 1..Height}
        IN  Replaced(n, (mempool \cup gone) \ Family(lost))
  BY <1>1, ReorgDoes
<1>4. PICK lost \in SUBSET Txs :
        LET gone == UNION {chain[h].txs : h \in n + 1..Height}
        IN  Replaced(n, (mempool \cup gone) \ Family(lost))
  BY <1>3
<1> DEFINE gone == UNION {chain[h].txs : h \in n + 1..Height}
           pool == (mempool \cup gone) \ Family(lost)
           Low(x) == \E h \in 1..n : x \in chain[h].txs
<1>5. Replaced(n, pool)
  BY <1>4
<1>6. /\ Height' \in {n, Height} /\ n \in Nat /\ Height \in Nat /\ n < Height
      /\ \A h \in 1..n : chain'[h] = chain[h]
      /\ \A h \in n + 1..Height' : /\ chain'[h].txs \subseteq pool \ mempool'
                                   /\ h # n + 1 => chain'[h].txs = {}
      /\ mempool' \in {pool, {}}
      /\ \A x \in pool : x \in mempool' \/ (n + 1 <= Height' /\ x \in chain'[n + 1].txs)
  <2>1. n \in Nat /\ Height \in Nat /\ n < Height
    BY <1>1, HeightType
  <2> HIDE DEF pool
  <2> QED
    BY <1>5, <2>1 DEF Replaced
<1>7. \A x \in Txs : /\ x \in pool => Known(x) /\ ~Low(x) /\ x \notin Family(lost)
                     /\ Known(x) => Low(x) \/ x \in pool \/ x \in Family(lost)
  <2> SUFFICES ASSUME NEW x \in Txs
               PROVE  /\ x \in pool => Known(x) /\ ~Low(x) /\ x \notin Family(lost)
                      /\ Known(x) => Low(x) \/ x \in pool \/ x \in Family(lost)
    OBVIOUS
  <2>1. Known(x) <=> Low(x) \/ x \in mempool \/ x \in gone
    <3>1. 1..Height = (1..n) \cup (n + 1..Height)
      BY <1>6
    <3> QED
      BY <3>1 DEF Known, InChain
  <2>2. Low(x) => x \notin mempool /\ x \notin gone
    <3>1. /\ \A h \in 1..n : h \in 1..Height
          /\ \A k \in n + 1..Height : k \in 1..Height
          /\ \A h \in 1..n, k \in n + 1..Height : h # k
      BY <1>6
    <3>2. Low(x) => InChain(x)
      BY <3>1 DEF InChain
    <3>3. Low(x) => x \notin gone
      BY <3>1 DEF ChainInv
    <3> QED
      BY <3>2, <3>3 DEF ChainInv
  <2> QED
    BY <2>1, <2>2
<1> HIDE DEF pool, gone
<1>8. \A x \in Txs : /\ InChain(x)' <=> \/ Low(x)
                                        \/ n + 1 <= Height' /\ x \in chain'[n + 1].txs
                     /\ Known(x)' <=> Low(x) \/ x \in pool
  <2>1. 1..Height' = (1..n) \cup (n + 1..Height') /\ 1..n \subseteq 1..Height'
    BY <1>6
  <2>2. \A x \in Txs : InChain(x)' <=> \/ Low(x)
                                       \/ \E h \in n + 1..Height' : x \in chain'[h].txs
    <3>1. \A x : InChain(x)' <=> \E h \in 1..Height' : x \in chain'[h].txs
      BY DEF InChain
    <3> HIDE DEF Low
    <3>2. \A x : Low(x) <=> \E h \in 1..n : x \in chain'[h].txs
      BY <1>6 DEF Low
    <3> QED
      BY <3>1, <3>2, <2>1
  <2>3. \A x : (\E h \in n + 1..Height' : x \in chain'[h].txs)
                 <=> n + 1 <= Height' /\ x \in chain'[n + 1].txs
    BY <1>6
  <2>4. \A x \in Txs : InChain(x)' <=> \/ Low(x)
                                       \/ n + 1 <= Height' /\ x \in chain'[n + 1].txs
    BY <2>2, <2>3
  <2>5. n + 1 <= Height' => n + 1 \in n + 1..Height'
    BY <1>6
  <2>6. \A x \in Txs : Known(x)' <=> Low(x) \/ x \in pool
    <3> HIDE DEF Low
    <3> QED
      BY <2>4, <2>5, <1>6 DEF Known
  <2> QED
    BY <2>4, <2>6
<1>9. \A x \in Txs : Known(x)' => Known(x)
  <2>1. \A x \in Txs : Low(x) => Known(x)
    <3>1. 1..n \subseteq 1..Height
      BY <1>6
    <3> QED
      BY <3>1 DEF Known, InChain
  <2> QED
    BY <2>1, <1>7, <1>8
<1>10. \A x \in mempool' : ~InChain(x)'
  <2> SUFFICES ASSUME NEW x \in mempool' PROVE ~InChain(x)'
    OBVIOUS
  <2>1. x \in pool /\ x \in Txs
    BY <1>2, <1>6 DEF LedgerTypeOK
  <2>2. ~Low(x)
    BY <2>1, <1>7
  <2>3. n + 1 <= Height' => x \notin chain'[n + 1].txs
    BY <1>6
  <2> QED
    BY <2>1, <2>2, <2>3, <1>8
<1>11. ASSUME NEW x \in Txs, NEW h \in 1..Height', NEW k \in 1..Height',
              x \in chain'[h].txs, x \in chain'[k].txs
       PROVE  h = k
  <2>1. CASE h <= n /\ k <= n
    <3>1. h \in 1..n /\ k \in 1..n /\ h \in 1..Height /\ k \in 1..Height
      BY <2>1, <1>6
    <3>2. x \in chain[h].txs /\ x \in chain[k].txs
      BY <3>1, <1>6, <1>11
    <3> QED
      BY <3>1, <3>2 DEF ChainInv
  <2>2. CASE h > n /\ k > n
    <3>1. h \in n + 1..Height' /\ k \in n + 1..Height'
      BY <2>2, <1>6
    <3>2. h = n + 1 /\ k = n + 1
      BY <3>1, <1>6, <1>11
    <3> QED
      BY <3>2
  <2>3. CASE h <= n /\ k > n
    <3>1. h \in 1..n /\ k \in n + 1..Height'
      BY <2>3, <1>6
    <3>2. Low(x) /\ x \in pool
      BY <3>1, <1>6, <1>11
    <3> QED
      BY <3>2, <1>7
  <2>4. CASE h > n /\ k <= n
    <3>1. k \in 1..n /\ h \in n + 1..Height'
      BY <2>4, <1>6
    <3>2. Low(x) /\ x \in pool
      BY <3>1, <1>6, <1>11
    <3> QED
      BY <3>2, <1>7
  <2> QED
    BY <2>1, <2>2, <2>3, <2>4, <1>6
<1>12. ASSUME NEW x \in Txs, Spends[x] # None
       PROVE  /\ x \in mempool' => Known(Maker(Spends[x]))'
              /\ \A h \in 1..Height' : x \in chain'[h].txs =>
                   \E k \in 1..h : Maker(Spends[x]) \in chain'[k].txs
  <2> DEFINE p == Maker(Spends[x])
  <2>1. p \in Txs /\ Spends[x] \in Makes[p]
    BY <1>12, MakerOfSpent
  <2>2. /\ x \in mempool => Known(p)
        /\ \A h \in 1..Height : x \in chain[h].txs => \E k \in 1..h : p \in chain[k].txs
    BY <1>12 DEF ChainInv
  <2> HIDE DEF p
  <2>3. Known(x) => Known(p)
    <3>1. ASSUME NEW h \in 1..Height, x \in chain[h].txs PROVE InChain(p)
      <4>1. PICK k \in 1..h : p \in chain[k].txs
        BY <2>2, <3>1
      <4>2. k \in 1..Height
        BY <1>6
      <4> QED
        BY <4>1, <4>2 DEF InChain
    <3> QED
      BY <2>2, <3>1 DEF Known, InChain
  <2>4. x \in pool => Low(p) \/ p \in pool
    <3>1. p \in Family(lost) => x \in Family(lost)
      BY <2>1, FamilyIs
    <3> QED
      BY <3>1, <2>1, <2>3, <1>7
  <2>5. x \in mempool' => Known(p)'
    BY <2>1, <2>4, <1>6, <1>8
  <2>6. ASSUME NEW h \in 1..Height', x \in chain'[h].txs
        PROVE  \E k \in 1..h : p \in chain'[k].txs
    <3>1. CASE h <= n
      <4>1. h \in 1..n /\ h \in 1..Height
        BY <3>1, <1>6
      <4>2. PICK k \in 1..h : p \in chain[k].txs
        BY <4>1, <2>2, <2>6, <1>6
      <4>3. k \in 1..n
        BY <4>1
      <4> QED
        BY <4>2, <4>3, <1>6
    <3>2. CASE h > n
      <4>1. h \in n + 1..Height'
        BY <3>2, <1>6
      <4>2. h = n + 1 /\ x \in pool /\ n + 1 <= Height'
        BY <4>1, <2>6, <1>6
      <4>3. CASE Low(p)
        BY <4>2, <4>3, <1>6
      <4>4. CASE p \in pool
        <5>1. mempool' = {}
          BY <4>2, <2>6, <1>6
        <5> QED
          BY <5>1, <4>2, <4>4, <1>6
      <4> QED
        BY <4>3, <4>4, <4>2, <2>4
    <3> QED
      BY <3>1, <3>2, <1>6
  <2> QED
    BY <2>5, <2>6 DEF p
<1>13. ChainInv'
  <2>1. \A x \in Txs : Known(x)' => Made(x)'
    BY <1>9 DEF ChainInv, Made
  <2>2. \A x, y \in Txs : /\ Known(x)' /\ Known(y)'
                          /\ Spends[x] = Spends[y] /\ Spends[x] # None
                          => x = y
    BY <1>9 DEF ChainInv
  <2> QED
    BY <2>1, <2>2, <1>2, <1>10, <1>11, <1>12 DEF ChainInv
<1> QED
  BY <1>13

(* Taking a family out of the mempool leaves no transaction there without  *)
(* the one it builds on.                                                   *)
LEMMA PoolKeeps ==
  ASSUME ChainInv, kind' = kind, UNCHANGED <<chain, forks>>,
         evictions' \in 0..MaxEvictions,
         NEW S \in SUBSET Txs, NEW new \in SUBSET Txs,
         mempool' = (mempool \ Family(S)) \cup new,
         \A x \in new : /\ Made(x) /\ ~InChain(x)
                        /\ Spends[x] # None =>
                             /\ \A y \in Txs : Spends[y] = Spends[x] /\ y # x
                                  => ~InChain(y) /\ y \in Family(S) /\ y \notin new
                             /\ Known(Maker(Spends[x])) /\ Maker(Spends[x]) \notin Family(S)
  PROVE  ChainInv'
<1>1. LedgerTypeOK'
  BY DEF ChainInv, LedgerTypeOK
<1>2. Height' = Height /\ chain' = chain
  BY DEF Height
<1>3. \A x : InChain(x)' <=> InChain(x)
  BY <1>2 DEF InChain
<1>4. \A x : Known(x)' <=> x \in mempool' \/ InChain(x)
  BY <1>3 DEF Known
<1>5. \A x : Known(x) <=> x \in mempool \/ InChain(x)
  BY DEF Known
<1>6. \A x \in Txs : Known(x)' => Known(x) \/ x \in new
  BY <1>4, <1>5
<1>7. \A x \in Txs : Known(x)' => Made(x)'
  BY <1>6 DEF ChainInv, Made
<1>8. \A x \in mempool' : ~InChain(x)'
  BY <1>3 DEF ChainInv
<1>9. \A x \in Txs : \A h, k \in 1..Height' :
         x \in chain'[h].txs /\ x \in chain'[k].txs => h = k
  BY <1>2 DEF ChainInv
<1>10. ASSUME NEW x \in Txs, NEW y \in Txs, Known(x)', Known(y)',
              Spends[x] = Spends[y], Spends[x] # None
       PROVE  x = y
  <2>1. CASE x \notin new /\ y \notin new
    BY <2>1, <1>6, <1>10 DEF ChainInv
  <2>2. ASSUME NEW u \in new, NEW z \in Txs, Known(z)', Spends[z] = Spends[u],
               Spends[u] # None
        PROVE  z = u
    <3> SUFFICES ASSUME z # u PROVE FALSE
      OBVIOUS
    <3>1. ~InChain(z) /\ z \in Family(S) /\ z \notin new
      BY <2>2
    <3> QED
      BY <3>1, <2>2, <1>4
  <2>3. CASE x \in new
    BY <2>2, <2>3, <1>10
  <2>4. CASE y \in new
    BY <2>2, <2>4, <1>10
  <2> QED
    BY <2>1, <2>3, <2>4
<1>11. ASSUME NEW x \in Txs, Spends[x] # None
       PROVE  /\ x \in mempool' => Known(Maker(Spends[x]))'
              /\ \A h \in 1..Height' : x \in chain'[h].txs =>
                   \E k \in 1..h : Maker(Spends[x]) \in chain'[k].txs
  <2> DEFINE p == Maker(Spends[x])
  <2>1. p \in Txs /\ Spends[x] \in Makes[p]
    BY <1>11, MakerOfSpent
  <2>2. x \in mempool => Known(p)
    BY <1>11 DEF ChainInv
  <2>3. \A h \in 1..Height' : x \in chain'[h].txs => \E k \in 1..h : p \in chain'[k].txs
    BY <1>2, <1>11 DEF ChainInv
  <2>4. x \in new => Known(p) /\ p \notin Family(S)
    BY <1>11
  <2> HIDE DEF p
  <2>5. p \in Family(S) => x \in Family(S)
    BY <2>1, FamilyIs
  <2>6. x \in mempool' => Known(p) /\ p \notin Family(S)
    BY <2>2, <2>4, <2>5
  <2> QED
    BY <2>3, <2>6, <1>4, <1>5 DEF p
<1> QED
  BY <1>1, <1>7, <1>8, <1>9, <1>10, <1>11 DEF ChainInv

LEMMA BroadcastKeeps ==
  ASSUME ChainInv, kind' = kind, NEW x \in Txs, Made(x), Broadcast(x)
  PROVE  ChainInv'
<1>1. LedgerTypeOK
  BY DEF ChainInv
<1>2. /\ UNCHANGED <<chain, forks>> /\ evictions' \in 0..MaxEvictions
      /\ ~InChain(x)
  BY <1>1 DEF Broadcast, LedgerTypeOK, Known
<1>3. CASE Spends[x] = None
  <2>1. mempool' = (mempool \ Family({})) \cup {x}
    <3>1. Family({}) = {}
      BY DEF Family, Children
    <3> QED
      BY <3>1, <1>3 DEF Broadcast
  <2>2. {} \in SUBSET Txs /\ {x} \in SUBSET Txs
    OBVIOUS
  <2>3. \A y \in {x} : /\ Made(y) /\ ~InChain(y)
                       /\ Spends[y] # None =>
                            /\ \A z \in Txs : Spends[z] = Spends[y] /\ z # y
                                 => ~InChain(z) /\ z \in Family({}) /\ z \notin {x}
                            /\ Known(Maker(Spends[y])) /\ Maker(Spends[y]) \notin Family({})
    BY <1>2, <1>3
  <2> QED
    BY <2>1, <2>2, <2>3, <1>2, PoolKeeps
<1>4. CASE Spends[x] # None
  <2> DEFINE S == Spenders(Spends[x])
  <2>1. S \in SUBSET Txs /\ {x} \in SUBSET Txs
    BY DEF Spenders
  <2>2. mempool' = (mempool \ Family(S)) \cup {x}
    BY <1>4 DEF Broadcast
  <2>3. S \subseteq Family(S) /\ \A y \in Family(S) : \E z \in S : Age[z] <= Age[y]
    BY <2>1, FamilyIs
  <2>4. Known(Maker(Spends[x]))
    <3>1. Makers(Spends[x]) = {Maker(Spends[x])}
      BY <1>4, MakerOfSpent, CoinsHaveMakers
    <3> QED
      BY <3>1, <1>4 DEF Broadcast
  <2>5. Maker(Spends[x]) \notin Family(S)
    <3> SUFFICES ASSUME Maker(Spends[x]) \in Family(S) PROVE FALSE
      OBVIOUS
    <3>1. PICK z \in S : Age[z] <= Age[Maker(Spends[x])]
      BY <2>3
    <3>2. z \in Txs /\ Spends[z] = Spends[x]
      BY DEF Spenders
    <3>3. Age[Maker(Spends[x])] < Age[z] /\ Maker(Spends[x]) \in Txs
      BY <3>2, <1>4, MakerOfSpent
    <3>4. Age[z] \in Int /\ Age[Maker(Spends[x])] \in Int
      BY <3>2, <3>3, AgesGrow
    <3> QED
      BY <3>1, <3>3, <3>4
  <2>6. \A y \in Txs : Spends[y] = Spends[x] => ~InChain(y) /\ y \in Family(S)
    <3>1. \A y \in Txs : Spends[y] = Spends[x] => y \in S
      BY DEF Spenders
    <3>2. \A y \in S : ~InChain(y)
      BY <1>4 DEF Broadcast
    <3> QED
      BY <3>1, <3>2, <2>3
  <2> HIDE DEF S
  <2>7. \A y \in {x} : /\ Made(y) /\ ~InChain(y)
                       /\ Spends[y] # None =>
                            /\ \A z \in Txs : Spends[z] = Spends[y] /\ z # y
                                 => ~InChain(z) /\ z \in Family(S) /\ z \notin {x}
                            /\ Known(Maker(Spends[y])) /\ Maker(Spends[y]) \notin Family(S)
    BY <1>2, <2>4, <2>5, <2>6
  <2> QED
    BY <2>1, <2>2, <2>7, <1>2, PoolKeeps
<1> QED
  BY <1>3, <1>4

LEMMA EvictKeeps ==
  ASSUME ChainInv, kind' = kind, NEW x \in Txs, Evict(x)
  PROVE  ChainInv'
<1>1. LedgerTypeOK
  BY DEF ChainInv
<1>2. UNCHANGED <<chain, forks>> /\ evictions' \in 0..MaxEvictions
  BY <1>1, LedgerAssumption DEF Evict, LedgerTypeOK
<1>3. {x} \in SUBSET Txs /\ {} \in SUBSET Txs
  OBVIOUS
<1>4. mempool' = (mempool \ Family({x})) \cup {}
  BY DEF Evict
<1>5. \A y \in {} : /\ Made(y) /\ ~InChain(y)
                    /\ Spends[y] # None =>
                         /\ \A z \in Txs : Spends[z] = Spends[y] /\ z # y
                              => ~InChain(z) /\ z \in Family({x}) /\ z \notin {}
                         /\ Known(Maker(Spends[y])) /\ Maker(Spends[y]) \notin Family({x})
  OBVIOUS
<1> QED
  BY <1>2, <1>3, <1>4, <1>5, PoolKeeps

LEMMA MovesKeep ==
  ASSUME ChainInv, ChainMoves
  PROVE  ChainInv'
<1>1. kind' = kind
  BY DEF ChainMoves
<1>2. \/ Mine \/ Reorg \/ \E x \in Txs : (Made(x) /\ Broadcast(x)) \/ Evict(x)
  BY DEF ChainMoves, Made
<1> QED
  BY <1>1, <1>2, MineKeeps, ReorgKeeps, BroadcastKeeps, EvictKeeps

LEMMA ChainStays ==
  ASSUME ChainInv, UNCHANGED <<ledger, kind>>
  PROVE  ChainInv'
<1>1. chain' = chain /\ mempool' = mempool /\ forks' = forks /\ evictions' = evictions
      /\ Height' = Height
  BY DEF ledger, Height
<1>2. \A x : /\ InChain(x)' <=> InChain(x)
             /\ Known(x)' <=> Known(x)
             /\ Made(x)' <=> Made(x)
  BY <1>1 DEF InChain, Known, Made
<1>3. LedgerTypeOK'
  BY <1>1 DEF ChainInv, LedgerTypeOK
<1> QED
  BY <1>1, <1>2, <1>3 DEF ChainInv

-----------------------------------------------------------------------------
(* Places.  A fork has one block at a height: a step whose place is still  *)
(* in the chain is in that block.                                          *)

ForkInv == Height >= 1 /\ \A h \in 1..Height : HashAt(h) <= forks

Placed(x, at) ==
    /\ at \in [h : 0..MaxHeight, fork : 0..MaxForks]
    /\ at.h = 0 => at = InPool
    /\ at.h > 0 => at.fork <= forks /\ (at.fork = forks => at.h <= Height)
    /\ at.h \in 1..Height /\ HashAt(at.h) = at.fork => x \in chain[at.h].txs

LEMMA PlaceTypes ==
  ASSUME NEW x, NEW at, Placed(x, at)
  PROVE  at \in Places /\ at # Gone
<1>1. at \in [h : 0..MaxHeight, fork : 0..MaxForks] /\ MaxHeight \in Nat
  BY LedgerAssumption DEF Placed
<1>2. at.h # -1
  BY <1>1
<1>3. at # Gone
  BY <1>2 DEF Gone
<1>4. at \in Places
  BY <1>1 DEF Places
<1> QED
  BY <1>3, <1>4

LEMMA MoveKeepsPlaces ==
  ASSUME ChainInv, ForkInv, ChainMoves
  PROVE  /\ ForkInv'
         /\ \A x, at : Placed(x, at) => Placed(x, at)'
<1>1. LedgerTypeOK /\ LedgerTypeOK'
  BY MovesKeep DEF ChainInv
<1>2. /\ Height \in Nat /\ forks \in Nat /\ Height >= 1
      /\ \A h \in 1..Height : HashAt(h) <= forks /\ HashAt(h) \in Nat /\ HashAt(h) = chain[h].fork
  <2>1. forks \in Nat
    BY <1>1, LedgerAssumption DEF LedgerTypeOK
  <2>2. \A h \in 1..Height : chain[h].fork \in Nat
    BY <1>1, HeightType, LedgerAssumption
  <2> QED
    BY <1>1, <2>1, <2>2, HeightType DEF ForkInv, HashAt
<1>3. ASSUME NEW n \in 1..Height, Height' \in Nat, n <= Height', forks' \in Nat,
             \A h \in 1..n : chain'[h] = chain[h],
             \A h \in n + 1..Height' : chain'[h].fork = forks',
             forks' = forks + 1 \/ (forks' = forks /\ n = Height)
      PROVE  /\ ForkInv'
             /\ \A x, at : Placed(x, at) => Placed(x, at)'
  <2>1. \A h \in 1..Height' : /\ HashAt(h)' = chain'[h].fork
                              /\ h <= n => h \in 1..n /\ h \in 1..Height
                              /\ h > n => h \in n + 1..Height'
    BY <1>2, <1>3 DEF HashAt
  <2>2. forks <= forks'
    BY <1>2, <1>3
  <2>3. ForkInv'
    <3>1. Height' >= 1
      BY <1>2, <1>3
    <3>2. ASSUME NEW h \in 1..Height' PROVE HashAt(h)' <= forks'
      <4>1. CASE h <= n
        <5>1. h \in 1..n /\ h \in 1..Height
          BY <4>1, <2>1
        <5>2. HashAt(h)' = HashAt(h) /\ HashAt(h) <= forks /\ HashAt(h) \in Nat
          BY <5>1, <2>1, <1>2, <1>3
        <5> QED
          BY <5>2, <2>2, <1>2, <1>3
      <4>2. CASE h > n
        BY <4>2, <2>1, <1>3
      <4> QED
        BY <4>1, <4>2, <1>2, <1>3
    <3> QED
      BY <3>1, <3>2 DEF ForkInv
  <2>4. ASSUME NEW x, NEW at, Placed(x, at)
        PROVE  Placed(x, at)'
    <3>1. /\ at.h \in 0..MaxHeight /\ at.fork \in Nat
          /\ at.h = 0 => at = InPool
          /\ at.h > 0 => at.fork <= forks /\ (at.fork = forks => at.h <= Height)
          /\ at.h \in 1..Height /\ HashAt(at.h) = at.fork => x \in chain[at.h].txs
          /\ at \in [h : 0..MaxHeight, fork : 0..MaxForks]
      BY <2>4, LedgerAssumption DEF Placed
    <3>2. at.h \in Nat
      BY <3>1, LedgerAssumption
    <3>3. at.h > 0 => at.fork <= forks' /\ (at.fork = forks' => at.h <= Height')
      BY <3>1, <3>2, <1>2, <1>3
    <3>4. at.h \in 1..Height' /\ chain'[at.h].fork = at.fork => x \in chain'[at.h].txs
      <4> SUFFICES ASSUME at.h \in 1..Height', chain'[at.h].fork = at.fork
                   PROVE  x \in chain'[at.h].txs
        OBVIOUS
      <4>1. CASE at.h <= n
        <5>1. at.h \in 1..n /\ at.h \in 1..Height
          BY <4>1, <2>1
        <5>2. chain'[at.h] = chain[at.h]
          BY <5>1, <1>3
        <5> QED
          BY <5>1, <5>2, <3>1, <1>2
      <4>2. CASE at.h > n
        <5>1. at.fork = forks'
          BY <4>2, <2>1, <1>3
        <5>2. at.h <= Height /\ at.fork = forks
          BY <5>1, <3>1, <3>2, <1>2, <1>3
        <5> QED
          BY <4>2, <5>1, <5>2, <3>2, <1>2, <1>3
      <4> QED
        BY <4>1, <4>2, <3>2, <1>3
    <3>5. at.h \in 1..Height' => HashAt(at.h)' = chain'[at.h].fork
      BY <2>1
    <3> QED
      BY <3>1, <3>3, <3>4, <3>5 DEF Placed, InPool
  <2> QED
    BY <2>3, <2>4
<1>4. CASE Mine
  <2>1. /\ Height' = Height + 1 /\ forks' = forks
        /\ \A h \in 1..Height : chain'[h] = chain[h]
        /\ chain'[Height + 1].fork = forks
    BY <1>1, <1>4, MineDoes
  <2>2. /\ Height \in 1..Height /\ Height' \in Nat /\ Height <= Height' /\ forks' \in Nat
        /\ \A h \in Height + 1..Height' : h = Height + 1
    BY <2>1, <1>2
  <2> QED
    BY <2>1, <2>2, <1>3
<1>5. CASE Reorg
  <2>1. PICK n \in 1..(Height - 1) : \E lost \in SUBSET Txs :
          LET gone == UNION {chain[h].txs : h \in n + 1..Height}
          IN  Replaced(n, (mempool \cup gone) \ Family(lost))
    BY <1>1, <1>5, ReorgDoes
  <2>2. /\ Height' \in {n, Height}
        /\ \A h \in 1..n : chain'[h] = chain[h]
        /\ \A h \in n + 1..Height' : chain'[h].fork = forks + 1
    BY <2>1 DEF Replaced
  <2>3. forks' = forks + 1
    BY <1>1, <1>5, ReorgDoes
  <2>4. n \in 1..Height /\ Height' \in Nat /\ n <= Height' /\ forks' \in Nat
    BY <2>2, <2>3, <1>2
  <2> QED
    BY <2>2, <2>3, <2>4, <1>3
<1>6. CASE \E x \in Txs : Broadcast(x) \/ Evict(x)
  <2>1. chain' = chain /\ forks' = forks /\ Height' = Height
    BY <1>6 DEF Broadcast, Evict, Height
  <2>2. /\ Height \in 1..Height /\ Height' \in Nat /\ Height <= Height' /\ forks' \in Nat
        /\ \A h \in Height + 1..Height' : chain'[h].fork = forks'
    BY <2>1, <1>2
  <2> QED
    BY <2>1, <2>2, <1>3
<1> QED
  BY <1>4, <1>5, <1>6 DEF ChainMoves

LEMMA PlacesStay ==
  ASSUME UNCHANGED ledger
  PROVE  /\ ForkInv' <=> ForkInv
         /\ \A x, at : Placed(x, at)' <=> Placed(x, at)
<1>1. chain' = chain /\ forks' = forks
  BY DEF ledger
<1> QED
  BY <1>1 DEF ForkInv, Placed, Height, HashAt, InPool

(* Where x is now. *)
IsAt(x, at) ==
    IF x \in mempool THEN at = InPool
    ELSE at.h \in 1..Height /\ x \in chain[at.h].txs

LEMMA AtIsPlaced ==
  ASSUME LedgerTypeOK, ForkInv, NEW h \in 1..Height, NEW x, x \in chain[h].txs
  PROVE  Placed(x, At(h)) /\ At(h).h = h
<1>1. h \in 1..MaxHeight /\ Height \in Nat /\ HashAt(h) \in 0..MaxForks /\ forks \in Nat
  <2>1. forks \in Nat
    BY LedgerAssumption DEF LedgerTypeOK
  <2> QED
    BY <2>1, HeightType DEF HashAt
<1>2. At(h) = [h |-> h, fork |-> HashAt(h)]
  BY DEF At
<1>3. HashAt(h) <= forks
  BY DEF ForkInv
<1>4. At(h) \in [h : 0..MaxHeight, fork : 0..MaxForks]
  BY <1>1, <1>2
<1> QED
  BY <1>1, <1>2, <1>3, <1>4 DEF Placed

LEMMA PoolIsPlaced == \A x : Placed(x, InPool)
<1>1. InPool \in [h : 0..MaxHeight, fork : 0..MaxForks] /\ InPool.h = 0
  BY LedgerAssumption DEF InPool
<1>2. ~(0 > 0) /\ ~(0 \in 1..Height)
  BY DEF InPool
<1> QED
  BY <1>1, <1>2 DEF Placed

LEMMA HighestIs ==
  ASSUME NEW S \in SUBSET Nat, S # {}, NEW n \in Nat, \A h \in S : h <= n
  PROVE  /\ Highest(S) \in S
         /\ \A k \in S : k <= Highest(S)
BY GreatestExists DEF Highest

LEMMA LowestIs ==
  ASSUME NEW S \in SUBSET Nat, S # {}
  PROVE  /\ Lowest(S) \in S
         /\ \A k \in S : Lowest(S) <= k
BY LeastExists DEF Lowest

(* From where a step is looked for.                                        *)
From(at, tip) == LargerOf(1, (IF at.h = 0 THEN tip ELSE at.h) - Below)

LEMMA FromType ==
  ASSUME NEW x, NEW at, Placed(x, at), NEW tip \in 1..MaxHeight
  PROVE  From(at, tip) \in Nat /\ From(at, tip) >= 1 /\ (Below >= MaxHeight => From(at, tip) = 1)
<1>1. at.h \in 0..MaxHeight /\ MaxHeight \in Nat /\ Below \in Nat
  BY LedgerAssumption, LineAssumption DEF Placed
<1> QED
  BY <1>1 DEF From, LargerOf

(* A place that is given is the one the step has now.  A step that is      *)
(* looked for and not found is not there, and one that is where it was     *)
(* last seen is found.                                                     *)
LEMMA WhereIs ==
  ASSUME ChainInv, ForkInv, NEW s, Placed(s.tx, s.at),
         NEW tip \in 1..MaxHeight, NEW pool \in {mempool, {}}
  PROVE  /\ Where(s, tip, pool) # Gone =>
              /\ Known(s.tx) /\ Placed(s.tx, Where(s, tip, pool))
              /\ IsAt(s.tx, Where(s, tip, pool))
         /\ pool = mempool /\ tip = Height /\ Where(s, tip, pool) = Gone =>
              /\ s.tx \notin mempool
              /\ \A h \in From(s.at, tip)..Height : s.tx \notin chain[h].txs
         /\ pool = mempool /\ tip = Height /\ IsAt(s.tx, s.at) =>
              Where(s, tip, pool) # Gone
<1> DEFINE seen == {h \in From(s.at, tip) .. SmallerOf(tip, Height) : s.tx \in chain[h].txs}
           w == Where(s, tip, pool)
<1>1. w = IF s.tx \in pool THEN InPool
          ELSE IF s.at.h \in 1..Height /\ HashAt(s.at.h) = s.at.fork THEN s.at
          ELSE IF seen = {} THEN Gone
          ELSE At(Lowest(seen))
  BY DEF Where, From
<1>2. /\ From(s.at, tip) \in Nat /\ From(s.at, tip) >= 1 /\ LedgerTypeOK
      /\ Height \in Nat /\ SmallerOf(tip, Height) <= Height /\ tip \in Nat
      /\ tip = Height => SmallerOf(tip, Height) = Height
  <2>1. Height \in Nat /\ tip \in Nat /\ LedgerTypeOK
    BY HeightType DEF ChainInv
  <2> QED
    BY <2>1, FromType DEF SmallerOf
<1> HIDE DEF w
<1>3. CASE s.tx \in pool
  <2>1. w = InPool /\ s.tx \in mempool
    BY <1>1, <1>3
  <2>2. w # Gone
    BY <2>1 DEF InPool, Gone
  <2> QED
    BY <2>1, <2>2, PoolIsPlaced DEF w, IsAt, Known
<1>4. CASE s.tx \notin pool /\ s.at.h \in 1..Height /\ HashAt(s.at.h) = s.at.fork
  <2>1. w = s.at
    BY <1>1, <1>4
  <2>2. w # Gone /\ s.tx \in chain[w.h].txs
    BY <2>1, <1>4, PlaceTypes DEF Placed
  <2>3. InChain(s.tx)
    BY <2>1, <2>2, <1>4 DEF InChain
  <2>4. s.tx \notin mempool
    BY <2>3 DEF ChainInv
  <2> QED
    BY <2>1, <2>2, <2>3, <2>4, <1>4 DEF w, IsAt, Known
<1>5. CASE s.tx \notin pool /\ ~(s.at.h \in 1..Height /\ HashAt(s.at.h) = s.at.fork)
  <2>1. CASE seen = {}
    <3>1. w = Gone
      BY <1>1, <1>5, <2>1, Zenon
    <3>2. tip = Height => \A h \in From(s.at, tip)..Height : s.tx \notin chain[h].txs
      BY <1>2, <2>1
    <3>3. pool = mempool /\ tip = Height => ~IsAt(s.tx, s.at)
      <4> SUFFICES ASSUME pool = mempool, tip = Height, IsAt(s.tx, s.at) PROVE FALSE
        OBVIOUS
      <4>1. s.at.h \in 1..Height /\ s.tx \in chain[s.at.h].txs
        BY <1>5 DEF IsAt
      <4>2. From(s.at, tip) <= s.at.h
        BY <4>1, <1>2, LineAssumption DEF From, LargerOf
      <4>3. s.at.h \in From(s.at, tip)..Height
        BY <4>1, <4>2, <1>2
      <4> QED
        BY <4>1, <4>3, <3>2
    <3> QED
      BY <3>1, <3>2, <3>3, <1>5 DEF w
  <2>2. CASE seen # {}
    <3>1. seen \subseteq 1..Height
      <4>1. \A h \in From(s.at, tip) .. SmallerOf(tip, Height) : h \in 1..Height
        <5>1. SmallerOf(tip, Height) \in Int
          BY <1>2 DEF SmallerOf
        <5> HIDE DEF seen
        <5> QED
          BY <1>2, <5>1
      <4> QED
        BY <4>1
    <3>2. seen \in SUBSET Nat
      BY <3>1
    <3>3. Lowest(seen) \in seen
      BY <3>2, <2>2, LowestIs
    <3>4. Lowest(seen) \in 1..Height /\ s.tx \in chain[Lowest(seen)].txs
      BY <3>1, <3>3
    <3>5. w = At(Lowest(seen))
      BY <1>1, <1>5, <2>2, Zenon
    <3> HIDE DEF seen
    <3>6. Placed(s.tx, w) /\ w.h = Lowest(seen)
      BY <1>2, <3>4, <3>5, AtIsPlaced
    <3>7. w # Gone /\ InChain(s.tx)
      BY <3>4, <3>6, PlaceTypes DEF InChain
    <3>8. s.tx \notin mempool
      BY <3>7 DEF ChainInv
    <3> QED
      BY <3>4, <3>6, <3>7, <3>8 DEF w, IsAt, Known
  <2> QED
    BY <2>1, <2>2
<1> QED
  BY <1>3, <1>4, <1>5

(* Spent coins: what is found spends the coin, and is where it is said to  *)
(* be.                                                                     *)
LEMMA SpentByIs ==
  ASSUME ChainInv, ForkInv, NEW step, step.at.h \in 0..MaxHeight, NEW tip \in 1..MaxHeight,
         NEW f \in SpentBy(step, tip)
  PROVE  /\ f = [tx |-> f.tx, at |-> f.at]
         /\ f.tx \in Txs /\ Spends[f.tx] = step.coin /\ Known(f.tx)
         /\ Placed(f.tx, f.at) /\ IsAt(f.tx, f.at)
<1>1. LedgerTypeOK /\ Height \in Nat /\ MaxHeight \in Nat /\ tip \in Nat /\ step.at.h \in Nat
  <2>1. LedgerTypeOK
    BY DEF ChainInv
  <2> QED
    BY <2>1, HeightType
<1> DEFINE from == IF step.at.h = 0 THEN tip ELSE step.at.h
           mined(h) == FoundIn(step.coin, chain[h].txs, At(h))
<1>2. from .. SmallerOf(tip, Height) \subseteq 1..Height
  BY <1>1 DEF SmallerOf
<1>3. SpentBy(step, tip) =
        FoundIn(step.coin, mempool, InPool)
        \cup UNION {mined(h) : h \in from .. SmallerOf(tip, Height)}
  BY DEF SpentBy
<1>4. CASE f \in FoundIn(step.coin, mempool, InPool)
  <2>1. PICK x \in Spenders(step.coin) \cap mempool : f = [tx |-> x, at |-> InPool]
    BY <1>4 DEF FoundIn
  <2>2. f.tx = x /\ f.at = InPool /\ x \in Txs /\ Spends[x] = step.coin /\ x \in mempool
    BY <2>1 DEF Spenders
  <2> QED
    BY <2>1, <2>2, PoolIsPlaced DEF Known, IsAt
<1>5. CASE \E h \in 1..Height : f \in mined(h)
  <2>1. PICK h \in 1..Height : f \in mined(h)
    BY <1>5
  <2>2. PICK x \in Spenders(step.coin) \cap chain[h].txs : f = [tx |-> x, at |-> At(h)]
    BY <2>1 DEF FoundIn
  <2>3. f.tx = x /\ f.at = At(h) /\ x \in Txs /\ Spends[x] = step.coin /\ x \in chain[h].txs
    BY <2>2 DEF Spenders
  <2>4. Placed(x, At(h)) /\ At(h).h = h /\ InChain(x)
    BY <1>1, <2>3, AtIsPlaced DEF InChain
  <2>5. x \notin mempool
    BY <2>4 DEF ChainInv
  <2> QED
    BY <2>2, <2>3, <2>4, <2>5 DEF Known, IsAt
<1>6. \/ \E h \in from .. SmallerOf(tip, Height) : f \in mined(h)
      \/ f \in FoundIn(step.coin, mempool, InPool)
  <2> HIDE DEF from
  <2> QED
    BY <1>3
<1> HIDE DEF mined, from
<1> QED
  BY <1>2, <1>4, <1>5, <1>6

(* A spent coin's spender is found, if the coin is where it is said to be. *)
LEMMA SpenderIsFound ==
  ASSUME ChainInv, NEW step, IsAt(step.tx, step.at), step.at.h \in 0..MaxHeight,
         step.tx \in Txs, step.coin \in Coins, Maker(step.coin) = step.tx,
         Known(step.tx), ~Unspent(step.coin)
  PROVE  SpentBy(step, Height) # {}
<1>1. PICK x \in Txs : Spends[x] = step.coin /\ Known(x)
  <2>1. step.tx \in Makers(step.coin)
    BY CoinsHaveMakers
  <2> QED
    BY <2>1 DEF Unspent, Spenders
<1>2. LedgerTypeOK /\ Height \in Nat /\ MaxHeight \in Nat
  <2>1. LedgerTypeOK
    BY DEF ChainInv
  <2> QED
    BY <2>1, HeightType
<1>3. SmallerOf(Height, Height) = Height
  BY DEF SmallerOf
<1>4. x \in Spenders(step.coin) /\ Spends[x] # None
  BY <1>1, CoinsAre DEF Spenders
<1>5. CASE x \in mempool
  <2>1. [tx |-> x, at |-> InPool] \in FoundIn(step.coin, mempool, InPool)
    BY <1>4, <1>5 DEF FoundIn
  <2>2. FoundIn(step.coin, mempool, InPool) \subseteq SpentBy(step, Height)
    BY DEF SpentBy
  <2> QED
    BY <2>1, <2>2
<1>6. CASE x \notin mempool
  <2>1. PICK h \in 1..Height : x \in chain[h].txs
    BY <1>1, <1>6 DEF Known, InChain
  <2>2. PICK k \in 1..h : step.tx \in chain[k].txs
    BY <1>1, <1>4, <2>1 DEF ChainInv
  <2>3. k \in 1..Height /\ k <= h /\ h \in Nat
    BY <1>2, <2>1, <2>2
  <2>4. step.tx \notin mempool
    BY <2>2, <2>3 DEF ChainInv, InChain
  <2>5. step.at.h \in 1..Height /\ step.tx \in chain[step.at.h].txs
    BY <2>4 DEF IsAt
  <2>6. step.at.h = k
    BY <2>2, <2>3, <2>5 DEF ChainInv
  <2>7. h \in (IF step.at.h = 0 THEN Height ELSE step.at.h) .. SmallerOf(Height, Height)
    BY <1>2, <1>3, <2>1, <2>3, <2>5, <2>6
  <2>8. [tx |-> x, at |-> At(h)] \in FoundIn(step.coin, chain[h].txs, At(h))
    BY <1>4, <2>1 DEF FoundIn
  <2>9. FoundIn(step.coin, chain[h].txs, At(h)) \subseteq SpentBy(step, Height)
    BY <2>7 DEF SpentBy
  <2> QED
    BY <2>8, <2>9
<1> QED
  BY <1>5, <1>6

-----------------------------------------------------------------------------
(* Lines.  Each step is a transaction the programs allow, at a place it    *)
(* has been at; it spends the coin the step before it made, and what is    *)
(* written of it is what it did.                                           *)

GoodStep(s, coins) ==
    /\ s \in LineSteps
    /\ Made(s.tx) /\ Placed(s.tx, s.at)
    /\ s.coin # None => s.coin \in coins /\ Maker(s.coin) = s.tx
    /\ s.coin = None => s.event \notin Moved
    /\ s.owes = IF s.coin \in VaultCoins THEN Owes[s.coin] ELSE NoDebt

Linked(line, n) ==
    /\ line[n - 1].coin # None
    /\ Spends[line[n].tx] = line[n - 1].coin
    /\ line[n].event = kind[line[n].tx]

GoodLine(line, coins) ==
    /\ line \in Seq(LineSteps)
    /\ \A n \in 1..Len(line) : GoodStep(line[n], coins)
    /\ Len(line) > 0 => line[1].coin # None /\ line[1].event \in {"open", "fund"}
    /\ \A n \in 2..Len(line) : Linked(line, n)

(* What a spend of the last coin appends. *)
Found(line, s) ==
    /\ Last(line).coin # None /\ ~Unspent(Last(line).coin)
    /\ Spends[s.tx] = Last(line).coin
    /\ Known(s.tx) /\ IsAt(s.tx, s.at)

LEMMA SeqFacts ==
  ASSUME NEW S, NEW line \in Seq(S)
  PROVE  /\ Len(line) \in Nat
         /\ line # <<>> <=> Len(line) > 0
         /\ \A n \in 1..Len(line) : line[n] \in S
         /\ line # <<>> => Last(line) = line[Len(line)] /\ Len(line) \in 1..Len(line)
                           /\ Last(line) \in S
         /\ \A e \in S : /\ Append(line, e) \in Seq(S) /\ Len(Append(line, e)) = Len(line) + 1
                         /\ \A n \in 1..Len(line) : Append(line, e)[n] = line[n]
                         /\ Append(line, e)[Len(line) + 1] = e /\ Last(Append(line, e)) = e
                         /\ Append(line, e) # <<>>
<1>1. Len(line) \in Nat /\ (line # <<>> <=> Len(line) > 0)
      /\ \A n \in 1..Len(line) : line[n] \in S
  OBVIOUS
<1>2. line # <<>> => Len(line) \in 1..Len(line)
  BY <1>1
<1>3. ASSUME NEW e \in S
      PROVE  /\ Append(line, e) \in Seq(S) /\ Len(Append(line, e)) = Len(line) + 1
             /\ \A n \in 1..Len(line) : Append(line, e)[n] = line[n]
             /\ Append(line, e)[Len(line) + 1] = e /\ Last(Append(line, e)) = e
             /\ Append(line, e) # <<>>
  <2>1. /\ Append(line, e) \in Seq(S) /\ Len(Append(line, e)) = Len(line) + 1
        /\ \A n \in 1..Len(line) : Append(line, e)[n] = line[n]
        /\ Append(line, e)[Len(line) + 1] = e
    OBVIOUS
  <2>2. Last(Append(line, e)) = e
    BY <2>1 DEF Last
  <2>3. Append(line, e) # <<>>
    <3> SUFFICES ASSUME Append(line, e) = <<>> PROVE FALSE
      OBVIOUS
    <3>1. Len(Append(line, e)) = 0
      OBVIOUS
    <3> QED
      BY <1>1, <2>1, <3>1
  <2> QED
    BY <2>1, <2>2, <2>3
<1> QED
  BY <1>1, <1>2, <1>3 DEF Last

LEMMA AppendKeepsLine ==
  ASSUME NEW coins, NEW line, GoodLine(line, coins), line # <<>>,
         NEW s, GoodStep(s, coins), Last(line).coin # None,
         Spends[s.tx] = Last(line).coin, s.event = kind[s.tx]
  PROVE  GoodLine(Append(line, s), coins)
<1> DEFINE new == Append(line, s)
           k == Len(line)
<1>1. line \in Seq(LineSteps) /\ s \in LineSteps
  BY DEF GoodLine, GoodStep
<1>2. /\ k \in Nat /\ k > 0 /\ k \in 1..k /\ Last(line) = line[k]
      /\ new \in Seq(LineSteps) /\ Len(new) = k + 1
      /\ \A n \in 1..k : new[n] = line[n]
      /\ new[k + 1] = s
  BY <1>1, SeqFacts
<1> HIDE DEF new, k
<1>3. \A n \in 1..k : GoodStep(line[n], coins)
  BY DEF GoodLine, k
<1>4. ASSUME NEW n \in 1..(k + 1) PROVE GoodStep(new[n], coins)
  <2>1. n \in 1..k \/ n = k + 1
    BY <1>2
  <2> QED
    BY <1>2, <1>3, <2>1
<1>5. new[1].coin # None /\ new[1].event \in {"open", "fund"}
  <2>1. 1 \in 1..k
    BY <1>2
  <2> QED
    BY <1>2, <2>1 DEF GoodLine, k
<1>6. ASSUME NEW n \in 2..(k + 1) PROVE Linked(new, n)
  <2>1. CASE n \in 2..k
    <3>1. n \in 1..k /\ n - 1 \in 1..k
      BY <2>1, <1>2
    <3>2. Linked(line, n)
      BY <2>1 DEF GoodLine, k
    <3> QED
      BY <1>2, <3>1, <3>2 DEF Linked
  <2>2. CASE n = k + 1
    <3>1. n - 1 = k
      BY <2>2, <1>2
    <3> QED
      BY <1>2, <2>2, <3>1 DEF Linked
  <2> QED
    BY <2>1, <2>2, <1>2
<1> QED
  BY <1>2, <1>4, <1>5, <1>6 DEF GoodLine, new

LEMMA AlongIs ==
  ASSUME kind \in Kinds, ChainInv, ForkInv, NEW coins \in {OfferCoins, VaultCoins},
         NEW line, GoodLine(line, coins), line # <<>>, NEW tip \in 1..MaxHeight
  PROVE  /\ GoodLine(Along(line, tip), coins)
         /\ Along(line, tip) = line
            \/ \E s \in LineSteps : Along(line, tip) = Append(line, s) /\ Found(line, s)
         /\ /\ Along(line, tip) = line
            /\ tip = Height
            /\ Known(Last(line).tx) /\ IsAt(Last(line).tx, Last(line).at)
            => Last(line).coin = None \/ Unspent(Last(line).coin)
<1> DEFINE cur == Last(line)
<1>1. line \in Seq(LineSteps) /\ cur \in LineSteps /\ GoodStep(cur, coins)
  <2>1. line \in Seq(LineSteps)
    BY DEF GoodLine
  <2>2. cur = line[Len(line)] /\ Len(line) \in 1..Len(line)
    BY <2>1, SeqFacts
  <2> QED
    BY <2>1, <2>2 DEF GoodLine, GoodStep
<1>2. /\ cur.tx \in Txs /\ cur.coin \in Coins \cup {None} /\ cur.at.h \in 0..MaxHeight
      /\ Made(cur.tx)
      /\ cur.coin # None => cur.coin \in coins /\ Maker(cur.coin) = cur.tx
      /\ cur.owes = IF cur.coin \in VaultCoins THEN Owes[cur.coin] ELSE NoDebt
  BY <1>1 DEF GoodStep, LineSteps, Placed
<1>3. Along(line, tip) =
        IF cur.coin = None \/ Unspent(cur.coin) THEN line
        ELSE IF SpentBy(cur, tip) = {} THEN line
        ELSE LET found == TheOne(SpentBy(cur, tip))
             IN  Append(line, IF cur.coin \in VaultCoins
                              THEN VaultStep(cur, found) ELSE OfferStep(cur, found))
  BY DEF Along
<1> HIDE DEF cur
<1>4. CASE cur.coin = None \/ Unspent(cur.coin)
  <2>1. Along(line, tip) = line
    BY <1>3, <1>4, Zenon
  <2> QED
    BY <1>4, <2>1 DEF cur
<1>5. CASE ~(cur.coin = None \/ Unspent(cur.coin)) /\ SpentBy(cur, tip) = {}
  <2>1. Along(line, tip) = line
    BY <1>3, <1>5, Zenon
  <2>2. tip = Height /\ Known(cur.tx) /\ IsAt(cur.tx, cur.at) => SpentBy(cur, tip) # {}
    BY <1>2, <1>5, SpenderIsFound
  <2> QED
    BY <1>5, <2>1, <2>2 DEF cur
<1>6. CASE ~(cur.coin = None \/ Unspent(cur.coin)) /\ SpentBy(cur, tip) # {}
  <2> DEFINE found == TheOne(SpentBy(cur, tip))
             s == IF cur.coin \in VaultCoins
                  THEN VaultStep(cur, found) ELSE OfferStep(cur, found)
             x == found.tx
  <2>1. Along(line, tip) = Append(line, s)
    BY <1>3, <1>6, Zenon
  <2>2. found \in SpentBy(cur, tip)
    BY <1>6 DEF TheOne
  <2>3. /\ x \in Txs /\ Spends[x] = cur.coin /\ Known(x)
        /\ Placed(x, found.at) /\ IsAt(x, found.at)
    BY <1>2, <2>2, SpentByIs
  <2>4. Made(x) /\ found.at \in Places
    BY <2>3, PlaceTypes DEF ChainInv
  <2> HIDE DEF found
  <2>5. /\ s \in LineSteps /\ GoodStep(s, coins) /\ s.event = kind[s.tx]
        /\ s.tx = x /\ s.at = found.at
    <3>1. CASE cur.coin \in VaultCoins
      <4>1. s = Step(x, IF Follow(cur.owes, x).event \in Moved THEN VaultOf(x) ELSE None,
                     found.at, Follow(cur.owes, x).owes, Follow(cur.owes, x).event)
        BY <3>1 DEF VaultStep
      <4>2. cur.owes = Owes[Spends[x]] /\ Spends[x] \in VaultCoins
        BY <1>2, <2>3, <3>1
      <4>3. Follow(cur.owes, x) =
              [event |-> kind[x],
               owes |-> IF kind[x] \in Moved THEN Owes[VaultOf(x)] ELSE NoDebt]
        BY <2>3, <2>4, <4>2, FollowIs
      <4>4. s = [tx |-> x, coin |-> IF kind[x] \in Moved THEN VaultOf(x) ELSE None,
                 at |-> found.at,
                 owes |-> IF kind[x] \in Moved THEN Owes[VaultOf(x)] ELSE NoDebt,
                 event |-> kind[x]]
        BY <4>1, <4>3 DEF Step
      <4>5. \/ /\ kind[x] \in Moved /\ VaultOf(x) \in VaultCoins /\ Maker(VaultOf(x)) = x
               /\ Owes[VaultOf(x)] \in Owed
            \/ kind[x] \in Closed /\ kind[x] \notin Moved
        <5>1. \/ /\ kind[x] \in Moved /\ VaultOf(x) \in VaultCoins /\ Maker(VaultOf(x)) = x
              \/ kind[x] \in Closed /\ VaultOf(x) = None
          BY <2>3, <2>4, <4>2, KindIs
        <5>2. kind[x] \in Closed => kind[x] \notin Moved
          BY DEF Moved, Closed
        <5>3. VaultOf(x) \in VaultCoins /\ Maker(VaultOf(x)) = x => Owes[VaultOf(x)] \in Owed
          BY <2>4, OwesAre
        <5> QED
          BY <5>1, <5>2, <5>3
      <4>6. kind[x] \in Events
        BY <4>5 DEF Moved, Closed, Events
      <4>7. coins = VaultCoins
        BY <1>2, <1>6, <3>1, CoinsAre
      <4>8. VaultCoins \subseteq Coins /\ Owed \subseteq Nat \X Nat /\ NoDebt \in Nat \X Nat
            /\ None \notin VaultCoins
        BY CoinsAre DEF Owed, NoDebt
      <4>9. CASE kind[x] \in Moved
        <5>1. s = [tx |-> x, coin |-> VaultOf(x), at |-> found.at,
                   owes |-> Owes[VaultOf(x)], event |-> kind[x]]
          BY <4>4, <4>9
        <5>2. /\ VaultOf(x) \in VaultCoins /\ Maker(VaultOf(x)) = x
              /\ Owes[VaultOf(x)] \in Nat \X Nat /\ VaultOf(x) \in Coins
          BY <4>5, <4>8, <4>9 DEF Moved, Closed
        <5> HIDE DEF s
        <5>3. s \in LineSteps
          BY <5>1, <5>2, <2>3, <2>4, <4>6 DEF LineSteps
        <5>4. s.coin # None
          BY <5>1, <5>2, <4>8
        <5> QED
          BY <5>1, <5>2, <5>3, <5>4, <2>3, <2>4, <4>7 DEF GoodStep
      <4>10. CASE kind[x] \notin Moved
        <5>1. s = [tx |-> x, coin |-> None, at |-> found.at,
                   owes |-> NoDebt, event |-> kind[x]]
          BY <4>4, <4>10
        <5> HIDE DEF s
        <5>2. s \in LineSteps
          BY <5>1, <2>3, <2>4, <4>6, <4>8 DEF LineSteps
        <5> QED
          BY <5>1, <5>2, <2>3, <2>4, <4>8, <4>10 DEF GoodStep
      <4> QED
        BY <4>9, <4>10
    <3>2. CASE cur.coin \notin VaultCoins
      <4>1. cur.coin \in OfferCoins /\ coins = OfferCoins
        BY <1>2, <1>6, <3>2
      <4>2. \/ /\ kind[x] = "take" /\ VaultOf(x) \in VaultCoins
               /\ RestOf(x) = None \/ (RestOf(x) \in OfferCoins /\ Maker(RestOf(x)) = x)
            \/ kind[x] = "refund" /\ VaultOf(x) = None
        BY <2>3, <2>4, <4>1, KindIs
      <4>3. None \notin VaultCoins /\ OfferCoins \subseteq Coins
            /\ OfferCoins \cap VaultCoins = {} /\ NoDebt \in Nat \X Nat
        BY CoinsAre DEF NoDebt
      <4>4. PICK c \in OfferCoins \cup {None} :
               /\ s = [tx |-> x, coin |-> c, at |-> found.at, owes |-> NoDebt, event |-> kind[x]]
               /\ c # None => Maker(c) = x
        <5>1. CASE VaultOf(x) # None
          <6>1. s = [tx |-> x, coin |-> RestOf(x), at |-> found.at, owes |-> NoDebt,
                     event |-> kind[x]]
            BY <3>2, <4>2, <5>1 DEF OfferStep, Step
          <6> QED
            BY <6>1, <4>2, <5>1
        <5>2. CASE VaultOf(x) = None
          <6>1. kind[x] = "refund"
            BY <4>2, <4>3, <5>2
          <6>2. s = [tx |-> x, coin |-> None, at |-> found.at, owes |-> NoDebt,
                     event |-> kind[x]]
            BY <3>2, <6>1, <5>2 DEF OfferStep, Step
          <6> QED
            BY <6>2
        <5> QED
          BY <5>1, <5>2
      <4>5. kind[x] \in Events /\ kind[x] \notin Moved
            /\ c \in Coins \cup {None} /\ c \notin VaultCoins
        BY <4>2, <4>3 DEF Events, Moved
      <4> HIDE DEF s
      <4>6. s \in LineSteps
        BY <2>3, <2>4, <4>3, <4>4, <4>5 DEF LineSteps
      <4> QED
        BY <2>3, <2>4, <4>1, <4>4, <4>5, <4>6 DEF GoodStep
    <3> QED
      BY <3>1, <3>2
  <2> HIDE DEF s
  <2>6. Found(line, s)
    BY <1>6, <2>3, <2>5 DEF Found, cur
  <2>7. GoodLine(Along(line, tip), coins)
    BY <1>6, <2>1, <2>3, <2>5, AppendKeepsLine DEF cur
  <2>8. Along(line, tip) # line
    <3>1. Len(Append(line, s)) = Len(line) + 1 /\ Len(line) \in Nat
      BY <1>1, <2>5, SeqFacts
    <3> QED
      BY <2>1, <3>1
  <2> QED
    BY <2>1, <2>5, <2>6, <2>7, <2>8
<1> QED
  BY <1>4, <1>5, <1>6

(* A step, seen elsewhere. *)
Seen(s, at) == [s EXCEPT !.at = at]
Alike(s, t) == s.tx = t.tx /\ s.coin = t.coin /\ s.owes = t.owes /\ s.event = t.event

LEMMA SeenIs ==
  ASSUME NEW coins, NEW s, GoodStep(s, coins), NEW at, Placed(s.tx, at)
  PROVE  GoodStep(Seen(s, at), coins) /\ Alike(Seen(s, at), s) /\ Seen(s, at).at = at
<1>1. s \in LineSteps /\ at \in Places
  BY PlaceTypes DEF GoodStep
<1>2. /\ Seen(s, at) \in LineSteps
      /\ Alike(Seen(s, at), s) /\ Seen(s, at).at = at
  BY <1>1 DEF Seen, LineSteps, Alike
<1> QED
  BY <1>2 DEF GoodStep, Alike

(* What is kept of a line is its start, up to the last step that is there. *)
LEMMA KeptIs ==
  ASSUME ChainInv, ForkInv, NEW coins, NEW line, GoodLine(line, coins),
         NEW tip \in 1..MaxHeight, NEW pool \in {mempool, {}}
  PROVE  LET kept == KeptOf(line, tip, pool) IN
         /\ GoodLine(kept, coins)
         /\ Len(kept) \in 0..Len(line)
         /\ \A n \in 1..Len(kept) : Alike(kept[n], line[n])
         /\ \A n \in 1..Len(line) : Where(line[n], tip, pool) # Gone => n <= Len(kept)
         /\ kept # <<>> => Known(Last(kept).tx) /\ IsAt(Last(kept).tx, Last(kept).at)
<1> DEFINE kept == KeptOf(line, tip, pool)
           w(m) == Where(line[m], tip, pool)
           there == {m \in 1..Len(line) : w(m) # Gone}
           n == Highest(there)
           sub == SubSeq(line, 1, n)
<1>1. /\ line \in Seq(LineSteps) /\ Len(line) \in Nat
      /\ \A m \in 1..Len(line) : GoodStep(line[m], coins) /\ line[m] \in LineSteps
  BY DEF GoodLine, GoodStep
<1>2. kept = IF there = {} THEN <<>> ELSE [sub EXCEPT ![n].at = w(n)]
  BY DEF KeptOf
<1>3. CASE there = {}
  <2>1. kept = <<>>
    BY <1>2, <1>3
  <2>2. Len(kept) = 0 /\ kept \in Seq(LineSteps)
    BY <2>1
  <2>3. GoodLine(kept, coins)
    <3> HIDE DEF kept
    <3> QED
      BY <2>2 DEF GoodLine
  <2>4. \A m \in 1..Len(line) : ~(w(m) # Gone)
    BY <1>3
  <2> HIDE DEF kept, there
  <2> QED
    BY <1>1, <2>1, <2>2, <2>3, <2>4 DEF kept
<1>4. CASE there # {}
  <2>1. /\ n \in there
        /\ \A k \in there : k <= n
    <3>1. there \in SUBSET Nat /\ \A h \in there : h <= Len(line)
      BY <1>1
    <3> HIDE DEF there
    <3> QED
      BY <1>1, <1>4, <3>1, HighestIs
  <2>2. n \in 1..Len(line) /\ w(n) # Gone
    BY <2>1
  <2> HIDE DEF n, w
  <2>3. /\ sub \in Seq(LineSteps) /\ Len(sub) = n
        /\ \A m \in 1..n : sub[m] = line[m]
    <3>1. \A m \in 1..n : m \in 1..Len(line) /\ line[m] \in LineSteps
      BY <1>1, <2>2
    <3>2. /\ sub \in Seq(LineSteps)
          /\ Len(sub) = IF 1 <= n THEN n - 1 + 1 ELSE 0
          /\ \A m \in 1..n - 1 + 1 : sub[m] = line[1 + m - 1]
      BY <1>1, <2>2, <3>1, SubSeqProperties
    <3> QED
      BY <1>1, <2>2, <3>2
  <2> HIDE DEF sub
  <2> DEFINE last == Seen(line[n], w(n))
  <2>4. /\ Known(line[n].tx) /\ Placed(line[n].tx, w(n)) /\ IsAt(line[n].tx, w(n))
    <3>1. Placed(line[n].tx, line[n].at)
      BY <1>1, <2>2 DEF GoodStep
    <3> QED
      BY <2>2, <3>1, WhereIs DEF w
  <2>5. /\ GoodStep(last, coins) /\ Alike(last, line[n]) /\ last.at = w(n)
        /\ last \in LineSteps
    <3>1. GoodStep(line[n], coins)
      BY <1>1, <2>2
    <3>2. GoodStep(last, coins) /\ Alike(last, line[n]) /\ last.at = w(n)
      BY <2>4, <3>1, SeenIs
    <3> QED
      BY <3>2 DEF GoodStep
  <2>6. kept = [sub EXCEPT ![n] = last]
    <3>1. n \in DOMAIN sub
      BY <2>2, <2>3, <1>1
    <3>2. kept = [sub EXCEPT ![n].at = w(n)]
      BY <1>2, <1>4, Zenon
    <3>3. sub[n] = line[n]
      BY <2>2, <2>3, <1>1
    <3> HIDE DEF kept
    <3> QED
      BY <3>1, <3>2, <3>3 DEF Seen
  <2> HIDE DEF last, kept
  <2>7. /\ kept \in Seq(LineSteps) /\ Len(kept) = n
        /\ \A m \in 1..n : kept[m] = IF m = n THEN last ELSE line[m]
    <3>1. n \in 1..Len(sub)
      BY <2>2, <2>3, <1>1
    <3>2. /\ [sub EXCEPT ![n] = last] \in Seq(LineSteps)
          /\ Len([sub EXCEPT ![n] = last]) = Len(sub)
          /\ \A m \in 1..Len(sub) : [sub EXCEPT ![n] = last][m] = IF m = n THEN last ELSE sub[m]
      BY <2>3, <2>5, <3>1, ExceptSeq
    <3> QED
      BY <2>3, <2>6, <3>2
  <2>8. \A m \in 1..n : /\ m \in 1..Len(line) /\ Alike(kept[m], line[m])
                        /\ GoodStep(kept[m], coins)
    <3> SUFFICES ASSUME NEW m \in 1..n
                 PROVE  /\ m \in 1..Len(line) /\ Alike(kept[m], line[m])
                        /\ GoodStep(kept[m], coins)
      OBVIOUS
    <3>1. m \in 1..Len(line)
      BY <1>1, <2>2
    <3>2. Alike(line[m], line[m]) /\ GoodStep(line[m], coins)
      BY <1>1, <3>1 DEF Alike
    <3> QED
      BY <2>5, <2>7, <3>1, <3>2
  <2>9. GoodLine(kept, coins)
    <3>1. kept[1].coin # None /\ kept[1].event \in {"open", "fund"}
      <4>1. 1 \in 1..n /\ Len(line) > 0
        BY <1>1, <2>2
      <4>2. line[1].coin # None /\ line[1].event \in {"open", "fund"}
        BY <4>1 DEF GoodLine
      <4> QED
        BY <2>8, <4>1, <4>2 DEF Alike
    <3>2. ASSUME NEW m \in 2..n PROVE Linked(kept, m)
      <4>1. m \in 1..n /\ m - 1 \in 1..n /\ m \in 2..Len(line)
        BY <1>1, <2>2
      <4>2. Linked(line, m)
        BY <4>1 DEF GoodLine
      <4>3. Alike(kept[m], line[m]) /\ Alike(kept[m - 1], line[m - 1])
        BY <2>8, <4>1
      <4> QED
        BY <4>2, <4>3 DEF Linked, Alike
    <3> QED
      BY <2>7, <2>8, <3>1, <3>2 DEF GoodLine
  <2>10. Last(kept) = last
    BY <1>1, <2>2, <2>7 DEF Last
  <2>11. Known(Last(kept).tx) /\ IsAt(Last(kept).tx, Last(kept).at)
    BY <2>4, <2>5, <2>10 DEF Alike
  <2>12. \A m \in 1..Len(line) : w(m) # Gone => m <= Len(kept)
    BY <2>1, <2>7
  <2> QED
    BY <1>1, <2>2, <2>7, <2>8, <2>9, <2>11, <2>12 DEF kept, w
<1> QED
  BY <1>3, <1>4

(* A line is no longer than the transactions are many. *)
LEMMA LinesAreShort ==
  ASSUME NEW coins, NEW line, GoodLine(line, coins)
  PROVE  Len(line) <= Steps /\ Steps \in Nat
<1> DEFINE K == {j \in Nat : \A n \in 1..Len(line) : n <= j + 1 => Age[line[n].tx] >= n - 1}
<1>1. /\ Steps \in Nat
      /\ Age \in [Txs -> {n \in 0..3 : n < Steps}]
      /\ \A c \in Coins, x \in Txs : Spends[x] = c => Age[Maker(c)] < Age[x]
  BY AgesGrow, ProgramAssumption, FS_CardinalityType DEF Steps
<1>2. /\ Len(line) \in Nat
      /\ \A n \in 1..Len(line) : GoodStep(line[n], coins) /\ line[n] \in LineSteps
      /\ \A n \in 2..Len(line) : Linked(line, n)
  BY DEF GoodLine, GoodStep
<1>3. \A n \in 1..Len(line) : line[n].tx \in Txs /\ Age[line[n].tx] \in Nat /\ Age[line[n].tx] < Steps
  BY <1>1, <1>2 DEF LineSteps
<1>4. 0 \in K
  BY <1>2, <1>3
<1>5. ASSUME NEW j \in Nat, j \in K PROVE j + 1 \in K
  <2> SUFFICES ASSUME NEW n \in 1..Len(line), n = j + 2
               PROVE  Age[line[n].tx] >= n - 1
    BY <1>2, <1>5
  <2>1. n \in 2..Len(line) /\ n - 1 \in 1..Len(line) /\ n - 1 <= j + 1
    BY <1>2
  <2>2. Spends[line[n].tx] = line[n - 1].coin /\ line[n - 1].coin # None
    BY <1>2, <2>1 DEF Linked
  <2>3. line[n - 1].coin \in Coins /\ Maker(line[n - 1].coin) = line[n - 1].tx
    BY <1>2, <2>1, <2>2 DEF GoodStep, LineSteps
  <2>4. Age[line[n - 1].tx] < Age[line[n].tx]
    BY <1>1, <1>3, <2>2, <2>3
  <2>5. Age[line[n - 1].tx] >= (n - 1) - 1
    BY <1>5, <2>1
  <2> QED
    BY <1>3, <2>1, <2>4, <2>5
<1>6. Len(line) \in K
  <2> HIDE DEF K
  <2> QED
    BY <1>2, <1>4, <1>5, Reaches
<1>7. Len(line) > 0 => Age[line[Len(line)].tx] >= Len(line) - 1
  BY <1>2, <1>6
<1> QED
  BY <1>1, <1>2, <1>3, <1>7

(* Going forward. *)
Goes(f, line, tip) ==
    f = [n \in 0..Steps |-> IF n = 0 THEN line ELSE Along(f[n - 1], tip)]

LEMMA ForwardExists ==
  ASSUME NEW line, NEW tip
  PROVE  \E f : Goes(f, line, tip)
<1> DEFINE K == {j \in Nat :
             \E f : f = [n \in 0..j |-> IF n = 0 THEN line ELSE Along(f[n - 1], tip)]}
<1>1. 0 \in K
  <2> DEFINE f == [n \in 0..0 |-> line]
  <2>1. f = [n \in 0..0 |-> IF n = 0 THEN line ELSE Along(f[n - 1], tip)]
    OBVIOUS
  <2> QED
    BY <2>1
<1>2. ASSUME NEW j \in Nat, j \in K PROVE j + 1 \in K
  <2>1. PICK f : f = [n \in 0..j |-> IF n = 0 THEN line ELSE Along(f[n - 1], tip)]
    BY <1>2
  <2> DEFINE g == [n \in 0..(j + 1) |-> IF n = j + 1 THEN Along(f[j], tip) ELSE f[n]]
  <2>2. \A n \in 0..(j + 1) :
          g[n] = IF n = 0 THEN line ELSE Along(g[n - 1], tip)
    <3> SUFFICES ASSUME NEW n \in 0..(j + 1)
                 PROVE  g[n] = IF n = 0 THEN line ELSE Along(g[n - 1], tip)
      OBVIOUS
    <3>1. CASE n = j + 1
      <4>1. g[n] = Along(f[j], tip) /\ g[n - 1] = f[j] /\ n # 0
        BY <3>1
      <4> QED
        BY <4>1
    <3>2. CASE n # j + 1
      <4>1. n \in 0..j /\ g[n] = f[n] /\ (n # 0 => n - 1 \in 0..j /\ g[n - 1] = f[n - 1])
        BY <3>2
      <4>2. f[n] = IF n = 0 THEN line ELSE Along(f[n - 1], tip)
        BY <2>1, <4>1
      <4> QED
        BY <4>1, <4>2
    <3> QED
      BY <3>1, <3>2
  <2>3. g = [n \in 0..(j + 1) |-> g[n]]
    OBVIOUS
  <2> HIDE DEF g
  <2>4. g = [n \in 0..(j + 1) |-> IF n = 0 THEN line ELSE Along(g[n - 1], tip)]
    BY <2>2, <2>3
  <2> QED
    BY <2>4
<1>3. Steps \in Nat
  BY ProgramAssumption, FS_CardinalityType DEF Steps
<1>4. Steps \in K
  <2> HIDE DEF K
  <2> QED
    BY <1>1, <1>2, <1>3, Reaches
<1> QED
  BY <1>4 DEF Goes

LEMMA ForwardIs ==
  ASSUME kind \in Kinds, ChainInv, ForkInv, NEW coins \in {OfferCoins, VaultCoins},
         NEW line, GoodLine(line, coins), line # <<>>, NEW tip \in 1..MaxHeight
  PROVE  LET ahead == Forward(line, tip) IN
         /\ GoodLine(ahead, coins)
         /\ ahead # <<>> /\ Len(line) <= Len(ahead)
         /\ \A n \in 1..Len(line) : ahead[n] = line[n]
         /\ Last(line).coin = None \/ Unspent(Last(line).coin) => ahead = line
         /\ tip = Height /\ Known(Last(line).tx) /\ IsAt(Last(line).tx, Last(line).at) =>
              /\ Last(ahead).coin = None \/ Unspent(Last(ahead).coin)
              /\ Known(Last(ahead).tx) /\ IsAt(Last(ahead).tx, Last(ahead).at)
<1>1. \E f : Goes(f, line, tip)
  BY ForwardExists, Zenon
<1> DEFINE a == CHOOSE g : Goes(g, line, tip)
<1>2. Goes(a, line, tip)
  BY <1>1, Zenon
<1>3. Forward(line, tip) = a[Steps]
  BY Zenon DEF Forward, Goes
<1>4. Steps \in Nat
  BY LinesAreShort
<1> HIDE DEF a
<1>5. a[0] = line /\ \A j \in Nat : j < Steps => a[j + 1] = Along(a[j], tip)
  <2>1. \A n \in 0..Steps : a[n] = IF n = 0 THEN line ELSE Along(a[n - 1], tip)
    BY <1>2 DEF Goes
  <2>2. a[0] = line
    BY <1>4, <2>1
  <2>3. ASSUME NEW j \in Nat, j < Steps PROVE a[j + 1] = Along(a[j], tip)
    <3>1. j + 1 \in 0..Steps /\ j + 1 # 0 /\ (j + 1) - 1 = j
      BY <1>4, <2>3
    <3> QED
      BY <2>1, <3>1
  <2> QED
    BY <2>2, <2>3
<1> DEFINE Seen1(l) == Known(Last(l).tx) /\ IsAt(Last(l).tx, Last(l).at)
           Ok(l) == /\ GoodLine(l, coins)
                    /\ l # <<>> /\ Len(line) <= Len(l)
                    /\ \A n \in 1..Len(line) : l[n] = line[n]
                    /\ Last(line).coin = None \/ Unspent(Last(line).coin) => l = line
                    /\ Seen1(line) => Seen1(l)
           Far(j) == Len(a[j]) >= Len(line) + j \/ Along(a[j], tip) = a[j]
           K == {j \in Nat : j <= Steps => Ok(a[j]) /\ Far(j)}
<1>6. 0 \in K
  <2>1. Len(line) \in Nat
    BY DEF GoodLine
  <2>2. Ok(line)
    BY <2>1
  <2>3. Far(0)
    BY <1>5, <2>1
  <2> HIDE DEF Ok, Far
  <2> QED
    BY <1>5, <2>2, <2>3
<1>7. ASSUME NEW l, Ok(l)
      PROVE  /\ Ok(Along(l, tip))
             /\ Along(l, tip) = l \/ Len(Along(l, tip)) = Len(l) + 1
  <2>1. /\ GoodLine(Along(l, tip), coins)
        /\ Along(l, tip) = l \/ \E s \in LineSteps : Along(l, tip) = Append(l, s) /\ Found(l, s)
    BY <1>7, AlongIs
  <2>2. CASE Along(l, tip) = l
    BY <2>2, <1>7
  <2>3. CASE \E s \in LineSteps : Along(l, tip) = Append(l, s) /\ Found(l, s)
    <3>1. PICK s \in LineSteps : Along(l, tip) = Append(l, s) /\ Found(l, s)
      BY <2>3
    <3>2. l \in Seq(LineSteps) /\ line \in Seq(LineSteps)
      BY <1>7 DEF GoodLine
    <3>3. /\ Len(l) \in Nat /\ Len(line) \in Nat
          /\ Len(Append(l, s)) = Len(l) + 1
          /\ \A n \in 1..Len(l) : Append(l, s)[n] = l[n]
          /\ Last(Append(l, s)) = s /\ Append(l, s) # <<>>
      BY <3>1, <3>2, SeqFacts
    <3>4. Seen1(Append(l, s))
      BY <3>1, <3>3 DEF Found
    <3>5. ~(Last(line).coin = None \/ Unspent(Last(line).coin))
      <4> SUFFICES ASSUME Last(line).coin = None \/ Unspent(Last(line).coin) PROVE FALSE
        OBVIOUS
      <4>1. l = line
        BY <1>7
      <4> QED
        BY <3>1, <4>1 DEF Found
    <3>6. \A n \in 1..Len(line) : Append(l, s)[n] = line[n]
      <4>1. \A n \in 1..Len(line) : n \in 1..Len(l) /\ l[n] = line[n]
        BY <1>7, <3>3
      <4> QED
        BY <3>3, <4>1
    <3>7. Len(line) <= Len(Append(l, s))
      BY <1>7, <3>3
    <3> HIDE DEF Seen1
    <3> QED
      BY <2>1, <3>1, <3>3, <3>4, <3>5, <3>6, <3>7
  <2> QED
    BY <2>1, <2>2, <2>3
<1> HIDE DEF Ok
<1>8. ASSUME NEW j \in Nat, j \in K PROVE j + 1 \in K
  <2> SUFFICES ASSUME j + 1 <= Steps PROVE Ok(a[j + 1]) /\ Far(j + 1)
    OBVIOUS
  <2>1. j < Steps /\ a[j + 1] = Along(a[j], tip) /\ Ok(a[j]) /\ Far(j)
    BY <1>4, <1>5, <1>8
  <2>2. /\ Ok(a[j + 1])
        /\ a[j + 1] = a[j] \/ Len(a[j + 1]) = Len(a[j]) + 1
    BY <1>7, <2>1
  <2>3. Len(line) \in Nat /\ Len(a[j]) \in Nat
    BY <2>1 DEF Ok, GoodLine
  <2>4. CASE a[j + 1] = a[j]
    <3>1. Along(a[j + 1], tip) = a[j + 1]
      BY <2>1, <2>4
    <3> QED
      BY <2>2, <3>1
  <2>5. CASE a[j + 1] # a[j]
    <3>1. Len(a[j]) >= Len(line) + j
      BY <2>1, <2>5
    <3>2. Len(a[j + 1]) >= Len(line) + (j + 1)
      BY <2>2, <2>3, <2>5, <3>1
    <3> QED
      BY <2>2, <3>2
  <2> QED
    BY <2>4, <2>5
<1>9. Steps \in K
  <2> HIDE DEF K
  <2> QED
    BY <1>4, <1>6, <1>8, Reaches
<1>10. Ok(a[Steps]) /\ Far(Steps)
  BY <1>4, <1>9
<1>11. Along(a[Steps], tip) = a[Steps]
  <2>1. GoodLine(a[Steps], coins)
    BY <1>10 DEF Ok
  <2>2. Len(a[Steps]) <= Steps
    BY <2>1, LinesAreShort
  <2>3. Len(line) \in Nat /\ Len(line) > 0 /\ Len(a[Steps]) \in Nat
    <3>1. line \in Seq(LineSteps) /\ a[Steps] \in Seq(LineSteps)
      BY <2>1 DEF GoodLine
    <3> QED
      BY <3>1, SeqFacts
  <2> QED
    BY <1>4, <1>10, <2>2, <2>3
<1>12. tip = Height /\ Seen1(line) =>
         /\ Last(a[Steps]).coin = None \/ Unspent(Last(a[Steps]).coin)
         /\ Seen1(a[Steps])
  <2> SUFFICES ASSUME tip = Height, Seen1(line)
               PROVE  /\ Last(a[Steps]).coin = None \/ Unspent(Last(a[Steps]).coin)
                      /\ Seen1(a[Steps])
    OBVIOUS
  <2>1. GoodLine(a[Steps], coins) /\ a[Steps] # <<>> /\ Seen1(a[Steps])
    BY <1>10 DEF Ok
  <2> QED
    BY <1>11, <2>1, AlongIs
<1> QED
  BY <1>3, <1>10, <1>12 DEF Ok

-----------------------------------------------------------------------------
(* The book's records. *)

GoodLoan(c, rec) ==
    /\ rec \in LoanRecords
    /\ GoodStep(rec.opening, VaultCoins)
    /\ rec.opening.coin = c /\ rec.opening.event = "open"
    /\ GoodLine(rec.line, VaultCoins)
    /\ rec.line # <<>> => rec.line[1].coin = c
    /\ rec.state = "GHOST" <=> rec.line = <<>>

GoodOffer(rec) ==
    /\ rec \in OfferRecords
    /\ GoodLine(rec.line, OfferCoins)
    /\ rec.status = "ghost" <=> rec.line = <<>>

(* The loan a take opens, as the step that opens it. *)
GoodOpening(s) ==
    /\ GoodStep(s, VaultCoins)
    /\ s.coin \in VaultCoins /\ s.event = "open"
    /\ kind[s.tx] = "take"

(* Nothing is left to be found ahead, and the last step is where it is     *)
(* said to be.                                                             *)
Settled(line) ==
    /\ Last(line).coin = None \/ Unspent(Last(line).coin)
    /\ Known(Last(line).tx) /\ IsAt(Last(line).tx, Last(line).at)

(* A step that is in the chain is no lower than it is looked for. *)
Near(s, tip) == \A h \in 1..Height : s.tx \in chain[h].txs => From(s.at, tip) <= h
LoanIsNear(rec, tip) ==
    Near(rec.opening, tip) \/ (rec.line # <<>> /\ Near(rec.line[1], tip))

LEMMA NearIsFound ==
  ASSUME ChainInv, ForkInv, NEW s, Placed(s.tx, s.at), NEW tip \in 1..MaxHeight,
         tip = Height, Near(s, tip), Where(s, tip, mempool) = Gone
  PROVE  ~Known(s.tx)
<1>1. /\ s.tx \notin mempool
      /\ \A h \in From(s.at, tip)..Height : s.tx \notin chain[h].txs
  BY WhereIs
<1>2. From(s.at, tip) \in Nat /\ Height \in Nat
  BY FromType, HeightType DEF ChainInv
<1>3. ASSUME NEW h \in 1..Height, s.tx \in chain[h].txs PROVE FALSE
  <2>1. h \in From(s.at, tip)..Height
    BY <1>2, <1>3 DEF Near
  <2> QED
    BY <1>1, <1>3, <2>1
<1> QED
  BY <1>1, <1>3 DEF Known, InChain

(* A loan's line ends with what the programs call a close. *)
LEMMA ClosedIs ==
  ASSUME kind \in Kinds, NEW line, GoodLine(line, VaultCoins), line # <<>>,
         Last(line).coin = None
  PROVE  Last(line).event \in Closed
<1> DEFINE n == Len(line)
           x == line[n].tx
<1>1. /\ n \in Nat /\ n \in 1..n /\ Last(line) = line[n] /\ line[n] \in LineSteps
      /\ GoodStep(line[n], VaultCoins) /\ line[1].coin # None
  <2>1. line \in Seq(LineSteps) /\ n \in Nat
    BY DEF GoodLine
  <2>2. n > 0 /\ n \in 1..n /\ Last(line) = line[n]
    BY <2>1, SeqFacts
  <2> QED
    BY <2>1, <2>2 DEF GoodLine, GoodStep
<1>2. n \in 2..n /\ n - 1 \in 1..n
  BY <1>1
<1>3. /\ line[n].event = kind[x] /\ Spends[x] = line[n - 1].coin
      /\ line[n - 1].coin \in VaultCoins
  <2>1. Linked(line, n) /\ GoodStep(line[n - 1], VaultCoins)
    BY <1>2 DEF GoodLine
  <2> QED
    BY <2>1 DEF Linked, GoodStep
<1>4. x \in Txs /\ Made(x) /\ line[n].event \notin Moved
  BY <1>1 DEF GoodStep, LineSteps
<1>5. kind[x] \in Moved \cup Closed
  <2> HIDE DEF x, n
  <2> QED
    BY <1>3, <1>4, KindIs
<1> QED
  BY <1>1, <1>3, <1>4, <1>5

LEMMA ReconcileLoanIs ==
  ASSUME kind \in Kinds, ChainInv, ForkInv, NEW c \in VaultCoins, NEW rec, GoodLoan(c, rec),
         NEW tip \in 1..MaxHeight, NEW pool \in {mempool, {}}
  PROVE  LET now == ReconcileLoan(rec, tip, pool) IN
         /\ GoodLoan(c, now)
         /\ now.opening = rec.opening /\ now.named = rec.named
         /\ pool = mempool /\ tip = Height =>
              /\ now.line # <<>> => Settled(now.line)
              /\ now.line = <<>> /\ LoanIsNear(rec, tip) => ~Known(rec.opening.tx)
<1> DEFINE kept == KeptOf(rec.line, tip, pool)
           again == Where(rec.opening, tip, pool)
           from == IF kept # <<>> THEN kept
                   ELSE IF again = Gone THEN <<>>
                   ELSE <<[rec.opening EXCEPT !.at = again]>>
           line == Followed(from, tip)
           state == IF Last(line).coin = None THEN Last(line).event
                    ELSE IF Last(line).at.h = 0 THEN "UNCONFIRMED" ELSE "LIVE"
           now == ReconcileLoan(rec, tip, pool)
<1>1. now = IF line = <<>> THEN [rec EXCEPT !.line = <<>>, !.state = "GHOST"]
            ELSE [rec EXCEPT !.line = line, !.state = state]
  BY DEF ReconcileLoan, LoanWith
<1>2. /\ rec \in LoanRecords /\ GoodStep(rec.opening, VaultCoins)
      /\ rec.opening.coin = c /\ rec.opening.event = "open"
      /\ GoodLine(rec.line, VaultCoins)
      /\ rec.line # <<>> => rec.line[1].coin = c
      /\ rec.opening \in LineSteps /\ Placed(rec.opening.tx, rec.opening.at)
      /\ c # None
  <2>1. /\ rec \in LoanRecords /\ GoodStep(rec.opening, VaultCoins)
        /\ rec.opening.coin = c /\ rec.opening.event = "open"
        /\ GoodLine(rec.line, VaultCoins)
        /\ rec.line # <<>> => rec.line[1].coin = c
    BY DEF GoodLoan
  <2>2. rec.opening \in LineSteps /\ Placed(rec.opening.tx, rec.opening.at)
    BY <2>1 DEF GoodStep
  <2>3. c # None
    BY CoinsAre
  <2> QED
    BY <2>1, <2>2, <2>3
<1>3. /\ GoodLine(kept, VaultCoins) /\ Len(kept) \in 0..Len(rec.line)
      /\ \A n \in 1..Len(kept) : Alike(kept[n], rec.line[n])
      /\ \A n \in 1..Len(rec.line) : Where(rec.line[n], tip, pool) # Gone => n <= Len(kept)
      /\ kept # <<>> => Known(Last(kept).tx) /\ IsAt(Last(kept).tx, Last(kept).at)
  BY <1>2, KeptIs
<1>4. again # Gone => /\ Known(rec.opening.tx) /\ Placed(rec.opening.tx, again)
                      /\ IsAt(rec.opening.tx, again)
  BY <1>2, WhereIs
<1> HIDE DEF kept, again
<1>5. /\ GoodLine(from, VaultCoins)
      /\ from # <<>> => /\ from[1].coin = c
                        /\ Known(Last(from).tx) /\ IsAt(Last(from).tx, Last(from).at)
  <2>1. CASE kept # <<>>
    <3>1. from = kept /\ kept \in Seq(LineSteps) /\ rec.line \in Seq(LineSteps)
      BY <1>2, <1>3, <2>1 DEF GoodLine
    <3>2. Len(kept) > 0 /\ Len(kept) \in Nat /\ Len(rec.line) \in Nat
      BY <2>1, <3>1, SeqFacts
    <3>3. 1 \in 1..Len(kept) /\ rec.line # <<>>
      BY <1>3, <3>1, <3>2
    <3>4. kept[1].coin = c
      BY <1>2, <1>3, <3>3 DEF Alike
    <3> QED
      BY <1>3, <2>1, <3>1, <3>4
  <2>2. CASE kept = <<>> /\ again = Gone
    <3>1. from = <<>>
      BY <2>2
    <3>2. GoodLine(<<>>, VaultCoins)
      BY <1>3, <2>2
    <3> HIDE DEF from
    <3> QED
      BY <3>1, <3>2
  <2>3. CASE kept = <<>> /\ again # Gone
    <3> DEFINE s == Seen(rec.opening, again)
    <3>1. from = <<s>>
      BY <2>3 DEF Seen
    <3>2. GoodStep(s, VaultCoins) /\ Alike(s, rec.opening) /\ s.at = again
      BY <1>2, <1>4, <2>3, SeenIs
    <3> HIDE DEF s, from
    <3>3. s \in LineSteps /\ s.coin = c /\ s.event = "open" /\ s.tx = rec.opening.tx
      BY <1>2, <3>2 DEF Alike, GoodStep
    <3>4. <<s>> \in Seq(LineSteps) /\ Len(<<s>>) = 1 /\ <<s>>[1] = s /\ <<s>> # <<>>
      BY <3>3
    <3>5. Last(<<s>>) = s
      BY <3>4 DEF Last
    <3>6. GoodLine(<<s>>, VaultCoins)
      BY <1>2, <3>2, <3>3, <3>4 DEF GoodLine
    <3> QED
      BY <1>4, <2>3, <3>1, <3>2, <3>3, <3>4, <3>5, <3>6
  <2> QED
    BY <2>1, <2>2, <2>3
<1>6. from = <<>> <=> (kept = <<>> /\ again = Gone)
  <2>1. \A e : <<e>> # <<>>
    OBVIOUS
  <2> QED
    BY <2>1
<1> HIDE DEF from
<1>7. /\ GoodLine(line, VaultCoins) /\ (line = <<>> <=> from = <<>>)
      /\ line # <<>> => line[1].coin = c
      /\ pool = mempool /\ tip = Height /\ line # <<>> => Settled(line)
  <2>1. CASE from = <<>>
    <3>1. line = <<>>
      BY <2>1 DEF Followed
    <3> HIDE DEF line
    <3> QED
      BY <1>5, <2>1, <3>1
  <2>2. CASE from # <<>>
    <3>1. line = Forward(from, tip)
      BY <2>2 DEF Followed
    <3>2. /\ GoodLine(line, VaultCoins) /\ line # <<>>
          /\ \A n \in 1..Len(from) : line[n] = from[n]
          /\ tip = Height =>
               /\ Last(line).coin = None \/ Unspent(Last(line).coin)
               /\ Known(Last(line).tx) /\ IsAt(Last(line).tx, Last(line).at)
      BY <1>5, <2>2, <3>1, ForwardIs
    <3>3. 1 \in 1..Len(from)
      <4>1. from \in Seq(LineSteps)
        BY <1>5 DEF GoodLine
      <4>2. Len(from) > 0 /\ Len(from) \in Nat
        BY <2>2, <4>1, SeqFacts
      <4> QED
        BY <4>2
    <3> HIDE DEF line
    <3> QED
      BY <1>5, <2>2, <3>2, <3>3 DEF Settled
  <2> QED
    BY <2>1, <2>2
<1> HIDE DEF line
<1>8. line # <<>> => state \in {"UNCONFIRMED", "LIVE"} \cup Closed
  BY <1>7, ClosedIs
<1> HIDE DEF state
<1>9. /\ now \in LoanRecords /\ now.opening = rec.opening /\ now.named = rec.named
      /\ now.line = line /\ (line = <<>> => now.state = "GHOST")
      /\ (line # <<>> => now.state = state)
  <2>1. line \in Seq(LineSteps) /\ <<>> \in Seq(LineSteps)
    BY <1>7 DEF GoodLine
  <2>2. CASE line = <<>>
    <3>1. now = [rec EXCEPT !.line = <<>>, !.state = "GHOST"]
      BY <1>1, <2>2
    <3> HIDE DEF now
    <3> QED
      BY <1>2, <2>1, <2>2, <3>1 DEF LoanRecords
  <2>3. CASE line # <<>>
    <3>1. now = [rec EXCEPT !.line = line, !.state = state]
      BY <1>1, <2>3
    <3> HIDE DEF now
    <3> QED
      BY <1>2, <1>8, <2>1, <2>3, <3>1 DEF LoanRecords
  <2> QED
    BY <2>2, <2>3
<1> HIDE DEF now
<1>10. "GHOST" \notin {"UNCONFIRMED", "LIVE"} \cup Closed
  BY DEF Closed
<1>11. GoodLoan(c, now)
  BY <1>2, <1>7, <1>8, <1>9, <1>10 DEF GoodLoan
<1>12. pool = mempool /\ tip = Height /\ line = <<>> /\ LoanIsNear(rec, tip)
       => ~Known(rec.opening.tx)
  <2> SUFFICES ASSUME pool = mempool, tip = Height, line = <<>>, LoanIsNear(rec, tip)
               PROVE  ~Known(rec.opening.tx)
    OBVIOUS
  <2>1. kept = <<>> /\ again = Gone
    BY <1>6, <1>7
  <2>2. CASE Near(rec.opening, tip)
    BY <1>2, <2>1, <2>2, NearIsFound DEF again
  <2>3. CASE rec.line # <<>> /\ Near(rec.line[1], tip)
    <3>1. rec.line \in Seq(LineSteps)
      BY <1>2 DEF GoodLine
    <3>2. Len(rec.line) > 0 /\ Len(rec.line) \in Nat
      BY <2>3, <3>1, SeqFacts
    <3>3. 1 \in 1..Len(rec.line) /\ Len(kept) = 0
      BY <2>1, <3>2
    <3>4. Where(rec.line[1], tip, pool) = Gone
      BY <1>3, <3>3
    <3>5. GoodStep(rec.line[1], VaultCoins)
      BY <1>2, <3>3 DEF GoodLine
    <3>6. Placed(rec.line[1].tx, rec.line[1].at) /\ rec.line[1].tx = rec.opening.tx
      BY <1>2, <2>3, <3>5 DEF GoodStep
    <3>7. ~Known(rec.line[1].tx)
      BY <2>3, <3>4, <3>6, NearIsFound
    <3> QED
      BY <3>6, <3>7
  <2> QED
    BY <2>2, <2>3 DEF LoanIsNear
<1> QED
  BY <1>7, <1>9, <1>11, <1>12 DEF now

(* Every take on a line opens a loan, or was on the line before.           *)
TakesAre(line, was, opened) ==
    \A n \in 1..Len(line) : line[n].event = "take" =>
       \/ \E s \in opened : s.coin = VaultOf(line[n].tx)
       \/ \E m \in 1..Len(was) : was[m].event = "take" /\ was[m].tx = line[n].tx

LEMMA ReconcileOfferIs ==
  ASSUME kind \in Kinds, ChainInv, ForkInv, NEW rec, GoodOffer(rec),
         NEW tip \in 1..MaxHeight, NEW pool \in {mempool, {}}
  PROVE  LET now == ReconcileOffer(rec, tip, pool)
             opened == OpenedBy(rec, tip, pool)
         IN
         /\ GoodOffer(now)
         /\ now.status = "open" => Last(now.line).coin # None
         /\ now.status \in {"taken", "refunded"} => Last(now.line).coin = None
         /\ rec.line = <<>> => now.line = <<>>
         /\ \A s \in opened : GoodOpening(s)
         /\ TakesAre(now.line, rec.line, opened)
         /\ pool = mempool /\ tip = Height =>
              /\ now.line # <<>> => Settled(now.line)
              /\ now.line = <<>> /\ rec.line # <<>> /\ Near(rec.line[1], tip)
                   => ~Known(rec.line[1].tx)
              /\ (rec.line # <<>> => Settled(rec.line)) => opened = {}
<1> DEFINE kept == KeptOf(rec.line, tip, pool)
           line == Followed(kept, tip)
           takes == NewTakes(line, Len(kept))
           status == IF Last(line).coin # None THEN "open"
                     ELSE IF Last(line).event = "take" THEN "taken" ELSE "refunded"
           now == ReconcileOffer(rec, tip, pool)
           opened == OpenedBy(rec, tip, pool)
           opening(s) == Step(s.tx, VaultOf(s.tx), s.at, <<Debt, Lock[s.tx]>>, "open")
<1>1. now = IF line = <<>> THEN [rec EXCEPT !.line = <<>>, !.status = "ghost"]
            ELSE [line |-> line, taken |-> rec.taken + Cardinality(takes), status |-> status]
  BY DEF ReconcileOffer, OfferWith
<1>2. /\ rec \in OfferRecords /\ GoodLine(rec.line, OfferCoins)
      /\ rec.line \in Seq(LineSteps) /\ Len(rec.line) \in Nat
  BY DEF GoodOffer, GoodLine
<1>3. /\ GoodLine(kept, OfferCoins) /\ Len(kept) \in 0..Len(rec.line)
      /\ \A n \in 1..Len(kept) : Alike(kept[n], rec.line[n])
      /\ \A n \in 1..Len(rec.line) : Where(rec.line[n], tip, pool) # Gone => n <= Len(kept)
      /\ kept # <<>> => Known(Last(kept).tx) /\ IsAt(Last(kept).tx, Last(kept).at)
  BY <1>2, KeptIs
<1> HIDE DEF kept
<1>4. kept \in Seq(LineSteps) /\ Len(kept) \in Nat /\ (kept # <<>> <=> Len(kept) > 0)
  <2>1. kept \in Seq(LineSteps)
    BY <1>3 DEF GoodLine
  <2> QED
    BY <2>1, SeqFacts
<1>5. /\ GoodLine(line, OfferCoins) /\ (line = <<>> <=> kept = <<>>)
      /\ Len(kept) <= Len(line)
      /\ \A n \in 1..Len(kept) : line[n] = kept[n]
      /\ kept # <<>> /\ (Last(kept).coin = None \/ Unspent(Last(kept).coin)) => line = kept
      /\ pool = mempool /\ tip = Height /\ line # <<>> => Settled(line)
  <2>1. CASE kept = <<>>
    <3>1. line = kept
      BY <2>1 DEF Followed
    <3> HIDE DEF line
    <3> QED
      BY <1>3, <1>4, <2>1, <3>1
  <2>2. CASE kept # <<>>
    <3>1. line = Forward(kept, tip)
      BY <2>2 DEF Followed
    <3>2. /\ GoodLine(line, OfferCoins) /\ line # <<>> /\ Len(kept) <= Len(line)
          /\ \A n \in 1..Len(kept) : line[n] = kept[n]
          /\ Last(kept).coin = None \/ Unspent(Last(kept).coin) => line = kept
          /\ tip = Height =>
               /\ Last(line).coin = None \/ Unspent(Last(line).coin)
               /\ Known(Last(line).tx) /\ IsAt(Last(line).tx, Last(line).at)
      BY <1>3, <2>2, <3>1, ForwardIs
    <3> HIDE DEF line
    <3> QED
      BY <2>2, <3>2 DEF Settled
  <2> QED
    BY <2>1, <2>2
<1> HIDE DEF line
<1>6. line \in Seq(LineSteps) /\ Len(line) \in Nat
  BY <1>5 DEF GoodLine
<1>7. Cardinality(takes) \in Nat
  <2>1. takes \subseteq Len(kept) + 1 .. Len(line) /\ IsFiniteSet(Len(kept) + 1 .. Len(line))
    BY <1>4, <1>6, FS_Interval DEF NewTakes
  <2> HIDE DEF takes
  <2> QED
    BY <2>1, FS_Subset, FS_CardinalityType
<1>8. opened = {opening(s) : s \in {line[n] : n \in takes}}
  BY DEF OpenedBy, Openings, kept, line
<1> HIDE DEF takes, status, opened, now
<1>9. /\ now \in OfferRecords /\ now.line = line /\ (now.status = "ghost" <=> line = <<>>)
      /\ now.status = "open" => Last(line).coin # None
      /\ now.status \in {"taken", "refunded"} => Last(line).coin = None
  <2>1. CASE line = <<>>
    <3>1. now = [rec EXCEPT !.line = <<>>, !.status = "ghost"] /\ <<>> \in Seq(LineSteps)
      BY <1>1, <1>6, <2>1
    <3> QED
      BY <1>2, <2>1, <3>1 DEF OfferRecords
  <2>2. CASE line # <<>>
    <3>1. now = [line |-> line, taken |-> rec.taken + Cardinality(takes), status |-> status]
      BY <1>1, <2>2
    <3>2. /\ status \in {"open", "taken", "refunded"}
          /\ status = "open" <=> Last(line).coin # None
      BY DEF status
    <3>3. rec.taken + Cardinality(takes) \in Nat
      BY <1>2, <1>7 DEF OfferRecords
    <3>4. now.line = line /\ now.status = status
      BY <3>1
    <3>5. now \in OfferRecords
      BY <1>6, <3>1, <3>2, <3>3 DEF OfferRecords
    <3> QED
      BY <2>2, <3>2, <3>4, <3>5
  <2> QED
    BY <2>1, <2>2
<1>10. GoodOffer(now)
  BY <1>5, <1>9 DEF GoodOffer
<1>11. \A n \in takes : /\ n \in 1..Len(line) /\ line[n].event = "take" /\ n > Len(kept)
                        /\ GoodStep(line[n], OfferCoins) /\ line[n].tx \in Txs
                        /\ kind[line[n].tx] = "take"
  <2> SUFFICES ASSUME NEW n \in takes
               PROVE  /\ n \in 1..Len(line) /\ line[n].event = "take" /\ n > Len(kept)
                      /\ GoodStep(line[n], OfferCoins) /\ line[n].tx \in Txs
                      /\ kind[line[n].tx] = "take"
    OBVIOUS
  <2>1. n \in 1..Len(line) /\ line[n].event = "take" /\ n > Len(kept)
    BY <1>4, <1>6 DEF takes, NewTakes
  <2>2. GoodStep(line[n], OfferCoins)
    BY <1>5, <2>1 DEF GoodLine
  <2>3. n # 1
    <3>1. Len(line) > 0
      BY <1>6, <2>1
    <3>2. line[1].event \in {"open", "fund"}
      BY <1>5, <3>1 DEF GoodLine
    <3> QED
      BY <2>1, <3>2
  <2>4. Linked(line, n)
    <3>1. n \in 2..Len(line)
      BY <1>6, <2>1, <2>3
    <3> QED
      BY <1>5, <3>1 DEF GoodLine
  <2> QED
    BY <2>1, <2>2, <2>4 DEF Linked, GoodStep, LineSteps
<1>12. ASSUME NEW s \in opened PROVE GoodOpening(s)
  <2>1. PICK n \in takes : s = opening(line[n])
    BY <1>8
  <2> DEFINE x == line[n].tx
  <2>2. x \in Txs /\ kind[x] = "take" /\ GoodStep(line[n], OfferCoins)
    BY <1>11, <2>1
  <2> HIDE DEF x
  <2>3. s = [tx |-> x, coin |-> VaultOf(x), at |-> line[n].at,
             owes |-> <<Debt, Lock[x]>>, event |-> "open"]
    BY <2>1 DEF Step, x
  <2>4. Made(x)
    BY <2>2 DEF GoodStep, x
  <2>5. Spends[x] \in OfferCoins /\ VaultOf(x) \in VaultCoins /\ Maker(VaultOf(x)) = x
    BY <2>2, <2>4, KindIs
  <2>6. Owes[VaultOf(x)] = <<Debt, Lock[x]>>
    BY <2>4, <2>5, OwesAre
  <2>7. /\ Placed(x, line[n].at) /\ line[n].at \in Places
        /\ <<Debt, Lock[x]>> \in Nat \X Nat
        /\ VaultOf(x) \in Coins /\ "open" \in Events /\ VaultOf(x) # None
    <3>1. Placed(x, line[n].at)
      BY <2>2 DEF GoodStep, x
    <3> QED
      BY <2>2, <2>5, <3>1, PlaceTypes, CoinsAre, LineAssumption DEF Events
  <2> HIDE DEF opening
  <2>8. s \in LineSteps
    BY <2>2, <2>3, <2>7 DEF LineSteps
  <2>9. /\ s.tx = x /\ s.coin = VaultOf(x) /\ s.at = line[n].at
        /\ s.owes = <<Debt, Lock[x]>> /\ s.event = "open"
    BY <2>3
  <2>10. GoodStep(s, VaultCoins)
    BY <2>4, <2>5, <2>6, <2>7, <2>8, <2>9 DEF GoodStep
  <2> QED
    BY <2>2, <2>5, <2>9, <2>10 DEF GoodOpening
<1>13. ASSUME NEW n \in 1..Len(line), line[n].event = "take"
       PROVE  \/ \E s \in opened : s.coin = VaultOf(line[n].tx)
              \/ \E m \in 1..Len(rec.line) : rec.line[m].event = "take"
                                             /\ rec.line[m].tx = line[n].tx
  <2>1. CASE n <= Len(kept)
    <3>1. n \in 1..Len(kept) /\ n \in 1..Len(rec.line)
      BY <1>2, <1>3, <1>4, <2>1
    <3>2. line[n] = kept[n] /\ Alike(kept[n], rec.line[n])
      BY <1>3, <1>5, <3>1
    <3> QED
      BY <1>13, <3>1, <3>2 DEF Alike
  <2>2. CASE n > Len(kept)
    <3>1. n \in takes
      BY <1>4, <1>6, <1>13, <2>2 DEF takes, NewTakes
    <3>2. opening(line[n]) \in opened
      BY <1>8, <3>1
    <3>3. opening(line[n]).coin = VaultOf(line[n].tx)
      BY DEF Step
    <3> QED
      BY <3>2, <3>3
  <2> QED
    BY <1>4, <1>6, <2>1, <2>2
<1>14. ASSUME pool = mempool, tip = Height, line = <<>>, rec.line # <<>>,
              Near(rec.line[1], tip)
       PROVE  ~Known(rec.line[1].tx)
  <2>1. Len(kept) = 0 /\ 1 \in 1..Len(rec.line)
    <3>1. Len(rec.line) > 0
      BY <1>2, <1>14, SeqFacts
    <3> QED
      BY <1>2, <1>4, <1>5, <1>14, <3>1
  <2>2. Where(rec.line[1], tip, pool) = Gone
    BY <1>3, <2>1
  <2>3. Placed(rec.line[1].tx, rec.line[1].at)
    BY <1>2, <2>1 DEF GoodLine, GoodStep
  <2> QED
    BY <1>14, <2>2, <2>3, NearIsFound
<1>16. ASSUME rec.line = <<>> PROVE line = <<>>
  <2>1. Len(rec.line) = 0
    BY <1>16
  <2> QED
    BY <1>3, <1>4, <1>5, <2>1
<1>15. ASSUME pool = mempool, tip = Height, rec.line # <<>> => Settled(rec.line)
       PROVE  opened = {}
  <2>1. CASE rec.line = <<>>
    <3>1. Len(rec.line) = 0
      BY <2>1
    <3>2. kept = <<>> /\ line = <<>>
      BY <1>3, <1>4, <1>5, <3>1
    <3>3. Len(line) = 0 /\ Len(kept) = 0
      BY <3>2
    <3>4. takes = {}
      BY <1>11, <3>3
    <3> QED
      BY <1>8, <3>4
  <2>2. CASE rec.line # <<>>
    <3> DEFINE k == Len(rec.line)
    <3>1. k \in 1..k /\ Last(rec.line) = rec.line[k] /\ Settled(rec.line)
      BY <1>2, <1>15, <2>2, SeqFacts
    <3>2. Placed(rec.line[k].tx, rec.line[k].at)
      BY <1>2, <3>1 DEF GoodLine, GoodStep
    <3>3. IsAt(rec.line[k].tx, rec.line[k].at)
      BY <3>1 DEF Settled
    <3>4. Where(rec.line[k], tip, pool) # Gone
      BY <1>15, <3>2, <3>3, WhereIs
    <3>5. Len(kept) = k
      BY <1>2, <1>3, <3>1, <3>4
    <3>6. kept # <<>> /\ Last(kept) = kept[k] /\ Alike(kept[k], rec.line[k])
      BY <1>3, <1>4, <3>1, <3>5 DEF Last
    <3>7. line = kept
      BY <1>5, <3>1, <3>6 DEF Settled, Alike
    <3>8. takes = {}
      BY <1>11, <1>4, <3>7
    <3> QED
      BY <1>8, <3>8
  <2> QED
    BY <2>1, <2>2
<1> QED
  <2>1. TakesAre(line, rec.line, opened)
    BY <1>13 DEF TakesAre
  <2> QED
    BY <1>5, <1>9, <1>10, <1>12, <1>14, <1>15, <1>16, <2>1 DEF now, opened

(* What was true of a record stays true of it while the chain moves. *)
LEMMA RecordsStay ==
  ASSUME ChainInv, ForkInv, kind' = kind, ChainMoves \/ UNCHANGED ledger
  PROVE  /\ ForkInv'
         /\ \A s, coins : GoodStep(s, coins) => GoodStep(s, coins)'
         /\ \A line, coins : GoodLine(line, coins) => GoodLine(line, coins)'
         /\ \A c, rec : GoodLoan(c, rec) => GoodLoan(c, rec)'
         /\ \A rec : GoodOffer(rec) => GoodOffer(rec)'
         /\ \A s : GoodOpening(s) => GoodOpening(s)'
<1>1. ForkInv' /\ \A x, at : Placed(x, at) => Placed(x, at)'
  BY MoveKeepsPlaces, PlacesStay
<1>2. Owes' = Owes /\ \A x : Made(x)' <=> Made(x)
  BY DEF Owes, Made
<1>3. \A s, coins : GoodStep(s, coins) => GoodStep(s, coins)'
  BY <1>1, <1>2 DEF GoodStep
<1>4. \A line, n : Linked(line, n)' <=> Linked(line, n)
  BY DEF Linked
<1>5. \A line, coins : GoodLine(line, coins) => GoodLine(line, coins)'
  BY <1>3, <1>4 DEF GoodLine
<1>6. \A c, rec : GoodLoan(c, rec) => GoodLoan(c, rec)'
  BY <1>3, <1>5 DEF GoodLoan
<1>7. \A rec : GoodOffer(rec) => GoodOffer(rec)'
  BY <1>5 DEF GoodOffer
<1>8. \A s : GoodOpening(s) => GoodOpening(s)'
  BY <1>3 DEF GoodOpening
<1> QED
  BY <1>1, <1>3, <1>5, <1>6, <1>7, <1>8

LEMMA OneStepLine ==
  ASSUME NEW coins, NEW s, GoodStep(s, coins), s.coin # None, s.event \in {"open", "fund"}
  PROVE  GoodLine(<<s>>, coins) /\ <<s>> # <<>> /\ <<s>>[1] = s
<1>1. s \in LineSteps
  BY DEF GoodStep
<1>2. <<s>> \in Seq(LineSteps) /\ Len(<<s>>) = 1 /\ <<s>>[1] = s /\ <<s>> # <<>>
  BY <1>1
<1> QED
  BY <1>2 DEF GoodLine

(* Where gettxout says a coin is. *)
LEMMA PlaceOfIs ==
  ASSUME ChainInv, ForkInv, NEW coin \in Coins, Unspent(coin)
  PROVE  Known(Maker(coin)) /\ Made(Maker(coin)) /\ Placed(Maker(coin), PlaceOf(coin))
<1> DEFINE at == {h \in 1..Height : chain[h].txs \cap Makers(coin) # {}}
           h == CHOOSE h \in at : TRUE
<1>1. Maker(coin) \in Txs /\ Makers(coin) = {Maker(coin)}
  BY CoinsHaveMakers
<1>2. Known(Maker(coin))
  BY <1>1 DEF Unspent
<1>3. Made(Maker(coin))
  BY <1>1, <1>2 DEF ChainInv
<1>4. Confirmations(coin) = IF at = {} THEN 0 ELSE Height - h + 1
  BY DEF Confirmations
<1>5. LedgerTypeOK /\ Height \in Nat
  BY HeightType DEF ChainInv
<1>6. CASE at = {}
  <2>1. PlaceOf(coin) = InPool
    BY <1>4, <1>6 DEF PlaceOf
  <2> QED
    BY <1>2, <1>3, <2>1, PoolIsPlaced
<1>7. CASE at # {}
  <2>1. h \in at
    BY <1>7
  <2>2. h \in 1..Height /\ Maker(coin) \in chain[h].txs
    BY <1>1, <2>1
  <2> HIDE DEF h, at
  <2>3. Confirmations(coin) = Height - h + 1 /\ Confirmations(coin) # 0
        /\ Height - Confirmations(coin) + 1 = h
    BY <1>4, <1>5, <1>7, <2>2
  <2>4. PlaceOf(coin) = At(h)
    BY <2>3 DEF PlaceOf
  <2> QED
    BY <1>2, <1>3, <1>5, <2>2, <2>4, AtIsPlaced
<1> QED
  BY <1>6, <1>7

LoansInv(all) ==
    /\ all \in [VaultCoins -> LoanRecords \cup {None}]
    /\ \A c \in VaultCoins : all[c] # None => GoodLoan(c, all[c])
OfferInv(rec) == rec # None => GoodOffer(rec)

(* A loan is opened once, and what was there stays as it was, except that  *)
(* a borrower may be named.                                                *)
LEMMA OpenIs ==
  ASSUME kind \in Kinds, NEW all, LoansInv(all), NEW s, GoodStep(s, VaultCoins),
         s.coin \in VaultCoins, s.event = "open", NEW named \in BOOLEAN
  PROVE  LET new == Open(all, s, named) IN
         /\ LoansInv(new)
         /\ \A c \in VaultCoins : all[c] # None =>
              /\ new[c] # None /\ new[c].state = all[c].state
              /\ all[c].named => new[c].named
              /\ ~named => new[c] = all[c]
         /\ \A c \in VaultCoins : all[c] = None /\ new[c] # None =>
              c = s.coin /\ new[c].named = named
              /\ \A d \in VaultCoins : all[d] # None => ~HasCoin(all[d], s.coin)
         /\ kind[s.tx] = "take" => new[s.coin] # None
<1> DEFINE same == IF all[s.coin] # None THEN {s.coin}
                   ELSE {c \in VaultCoins : all[c] # None /\ HasCoin(all[c], s.coin)}
           new == Open(all, s, named)
           loan == NewLoan(s, named)
<1>1. new = IF same = {} THEN [all EXCEPT ![s.coin] = loan]
            ELSE [all EXCEPT ![TheOne(same)].named = @ \/ named]
  BY DEF Open
<1>2. /\ all \in [VaultCoins -> LoanRecords \cup {None}]
      /\ \A c \in VaultCoins : all[c] # None => GoodLoan(c, all[c]) /\ all[c] \in LoanRecords
  BY DEF LoansInv
<1>3. None \notin LoanRecords /\ s.coin # None
  BY RecordAssumption, CoinsAre
<1>4. CASE same = {}
  <2>1. /\ all[s.coin] = None
        /\ \A d \in VaultCoins : all[d] # None => ~HasCoin(all[d], s.coin)
    BY <1>4
  <2>2. GoodLoan(s.coin, loan) /\ loan \in LoanRecords /\ loan.named = named
    <3>1. GoodLine(<<s>>, VaultCoins) /\ <<s>> # <<>> /\ <<s>>[1] = s
      BY <1>3, OneStepLine
    <3>2. s \in LineSteps /\ <<s>> \in Seq(LineSteps)
      BY <3>1 DEF GoodStep, GoodLine
    <3>3. loan = [opening |-> s, line |-> <<s>>, state |-> "UNCONFIRMED", named |-> named]
      BY DEF NewLoan
    <3> HIDE DEF loan
    <3>4. loan \in LoanRecords
      BY <3>2, <3>3 DEF LoanRecords
    <3> QED
      BY <3>1, <3>3, <3>4 DEF GoodLoan
  <2>3. new = [all EXCEPT ![s.coin] = loan]
    BY <1>1, <1>4, Zenon
  <2> HIDE DEF new, loan
  <2>4. \A c \in VaultCoins : new[c] = IF c = s.coin THEN loan ELSE all[c]
    BY <1>2, <2>3
  <2>5. new \in [VaultCoins -> LoanRecords \cup {None}]
    BY <1>2, <2>2, <2>3
  <2>6. LoansInv(new)
    BY <1>2, <2>2, <2>4, <2>5 DEF LoansInv
  <2>7. loan # None
    BY <1>3, <2>2
  <2> QED
    BY <2>1, <2>2, <2>4, <2>6, <2>7 DEF new
<1>5. CASE same # {}
  <2> DEFINE k == TheOne(same)
             old == all[k]
             loan2 == [old EXCEPT !.named = old.named \/ named]
  <2>1. k \in same
    BY <1>5 DEF TheOne
  <2>2. k \in VaultCoins /\ old # None
    BY <2>1
  <2>3. new = [all EXCEPT ![k].named = @ \/ named]
    BY <1>1, <1>5, Zenon
  <2>4. new = [all EXCEPT ![k] = loan2]
    BY <1>2, <2>2, <2>3
  <2>5. old \in LoanRecords /\ GoodLoan(k, old)
    BY <1>2, <2>2
  <2> HIDE DEF k, old, new
  <2>6. /\ loan2 \in LoanRecords /\ loan2.named = (old.named \/ named)
        /\ loan2.opening = old.opening /\ loan2.line = old.line /\ loan2.state = old.state
    BY <2>5 DEF LoanRecords
  <2>7. ~named => loan2 = old
    <3> SUFFICES ASSUME ~named PROVE loan2 = old
      OBVIOUS
    <3>1. old.named \in BOOLEAN /\ DOMAIN old = {"opening", "line", "named", "state"}
      BY <2>5 DEF LoanRecords
    <3>2. (old.named \/ named) = old.named
      BY <3>1
    <3>3. [old EXCEPT !.named = old.named] = old
      BY <2>5 DEF LoanRecords
    <3> QED
      BY <3>2, <3>3
  <2> HIDE DEF loan2
  <2>8. GoodLoan(k, loan2) /\ loan2 # None
    BY <1>3, <2>5, <2>6 DEF GoodLoan
  <2>9. \A c \in VaultCoins : new[c] = IF c = k THEN loan2 ELSE all[c]
    BY <1>2, <2>4
  <2>10. new \in [VaultCoins -> LoanRecords \cup {None}]
    BY <1>2, <2>4, <2>6
  <2>11. LoansInv(new)
    BY <1>2, <2>8, <2>9, <2>10 DEF LoansInv
  <2>12. \A c \in VaultCoins : all[c] # None =>
              /\ new[c] # None /\ new[c].state = all[c].state
              /\ all[c].named => new[c].named
              /\ ~named => new[c] = all[c]
    BY <2>6, <2>7, <2>8, <2>9 DEF old
  <2>13. \A c \in VaultCoins : all[c] = None => new[c] = None
    BY <2>2, <2>9 DEF old
  <2>14. ASSUME kind[s.tx] = "take" PROVE new[s.coin] # None
    <3>1. CASE all[s.coin] # None
      BY <2>12, <3>1
    <3>2. CASE all[s.coin] = None
      <4>1. HasCoin(old, s.coin)
        BY <2>1, <3>2 DEF old
      <4>2. PICK n \in 1..Len(old.line) : old.line[n].coin = s.coin
        BY <4>1 DEF HasCoin
      <4>3. GoodLine(old.line, VaultCoins) /\ Len(old.line) \in Nat
        BY <2>5 DEF GoodLoan, GoodLine
      <4>4. s.tx \in Txs /\ Made(s.tx) /\ old.line[n].tx = s.tx
        <5>1. GoodStep(old.line[n], VaultCoins)
          BY <4>3 DEF GoodLine
        <5> QED
          BY <1>3, <4>2, <5>1 DEF GoodStep, LineSteps
      <4>5. n # 1
        <5>1. old.line # <<>> => old.line[1].coin = k
          BY <2>5 DEF GoodLoan
        <5>2. Len(<<>>) = 0
          OBVIOUS
        <5>3. old.line # <<>>
          BY <4>3, <5>2
        <5> QED
          BY <2>2, <3>2, <4>2, <5>1, <5>3 DEF old
      <4>6. n \in 2..Len(old.line) /\ n - 1 \in 1..Len(old.line)
        BY <4>3, <4>5
      <4>7. Linked(old.line, n) /\ GoodStep(old.line[n - 1], VaultCoins)
        BY <4>3, <4>6 DEF GoodLine
      <4>8. Spends[s.tx] \in VaultCoins
        BY <4>4, <4>7 DEF Linked, GoodStep
      <4>9. Spends[s.tx] \in OfferCoins
        BY <2>14, <4>4, KindIs
      <4> QED
        BY <4>8, <4>9, CoinsAre
    <3> QED
      BY <3>1, <3>2
  <2> QED
    BY <2>11, <2>12, <2>13, <2>14 DEF new
<1> QED
  BY <1>4, <1>5

-----------------------------------------------------------------------------
(* The book, its file and the poll's copies. *)

Polls == [phase : {"idle", "offers", "open", "loans"}, tip : 1..MaxHeight,
          offer : OfferRecords \cup {None}, opened : SUBSET LineSteps,
          loans : [VaultCoins -> LoanRecords \cup {None}], calm : BOOLEAN]

BookInv ==
    /\ kind \in Kinds /\ ChainInv /\ ForkInv
    /\ LoansInv(loans) /\ OfferInv(offer)
    /\ disk = <<disk[1], disk[2]>> /\ OfferInv(disk[1]) /\ LoansInv(disk[2])
    /\ poll \in Polls
    /\ OfferInv(poll.offer) /\ LoansInv(poll.loans)
    /\ \A s \in poll.opened : GoodOpening(s)
    /\ faults \in 0..MaxFaults /\ fresh \in BOOLEAN

(* What a step writes, as seen before it. *)
BookStays ==
    /\ LoansInv(loans') /\ OfferInv(offer')
    /\ disk' = <<disk'[1], disk'[2]>> /\ OfferInv(disk'[1]) /\ LoansInv(disk'[2])
    /\ poll' \in Polls
    /\ OfferInv(poll'.offer) /\ LoansInv(poll'.loans)
    /\ \A s \in poll'.opened : GoodOpening(s)
    /\ faults' \in 0..MaxFaults /\ fresh' \in BOOLEAN

LEMMA NoLoansIs == LoansInv([c \in VaultCoins |-> None])
BY DEF LoansInv

LEMMA NoPollIs ==
  ASSUME NEW tip \in 1..MaxHeight
  PROVE  /\ NoPoll(tip) \in Polls
         /\ NoPoll(tip).phase = "idle" /\ NoPoll(tip).tip = tip /\ NoPoll(tip).offer = None
         /\ NoPoll(tip).opened = {} /\ NoPoll(tip).loans = [c \in VaultCoins |-> None]
         /\ NoPoll(tip).calm = FALSE
         /\ OfferInv(NoPoll(tip).offer) /\ LoansInv(NoPoll(tip).loans)
<1>1. NoPoll(tip) = [phase |-> "idle", tip |-> tip, offer |-> None,
                     opened |-> {}, loans |-> [c \in VaultCoins |-> None],
                     calm |-> FALSE]
  BY DEF NoPoll
<1>2. NoPoll(tip) \in Polls
  BY <1>1 DEF Polls
<1>3. OfferInv(None)
  BY DEF OfferInv
<1> QED
  BY <1>1, <1>2, <1>3, NoLoansIs

LEMMA PollIs ==
  ASSUME BookInv
  PROVE  /\ poll.phase \in {"idle", "offers", "open", "loans"} /\ poll.tip \in 1..MaxHeight
         /\ poll.offer \in OfferRecords \cup {None} /\ poll.opened \subseteq LineSteps
         /\ poll.loans \in [VaultCoins -> LoanRecords \cup {None}] /\ poll.calm \in BOOLEAN
         /\ Height \in 1..MaxHeight /\ {} \in SUBSET LineSteps
         /\ MaxFaults \in Nat /\ faults \in 0..MaxFaults
<1>1. poll \in Polls /\ Height >= 1 /\ LedgerTypeOK /\ faults \in 0..MaxFaults
  BY DEF BookInv, ForkInv, ChainInv
<1>2. Height \in 1..MaxHeight
  BY <1>1, HeightType
<1> QED
  BY <1>1, <1>2, LineAssumption DEF Polls

LEMMA PollBeginsStays ==
  ASSUME BookInv, PollBegins
  PROVE  BookStays
<1>1. Height \in 1..MaxHeight
  BY PollIs
<1>2. /\ poll' = [NoPoll(Height) EXCEPT !.phase = "offers", !.offer = offer, !.calm = TRUE]
      /\ loans' = loans /\ offer' = offer /\ disk' = disk /\ fresh' = fresh /\ faults' = faults
  BY DEF PollBegins, book
<1>3. offer \in OfferRecords \cup {None}
  BY DEF BookInv, OfferInv, GoodOffer
<1>4. /\ poll' \in Polls /\ poll'.offer = offer /\ poll'.opened = {}
      /\ poll'.loans = NoPoll(Height).loans
  <2> DEFINE p == NoPoll(Height)
  <2>1. p \in Polls /\ p.opened = {}
    BY <1>1, NoPollIs
  <2> HIDE DEF p
  <2>2. poll' = [p EXCEPT !.phase = "offers", !.offer = offer, !.calm = TRUE]
    BY <1>2 DEF p
  <2>3. /\ poll' \in Polls /\ poll'.offer = offer /\ poll'.opened = p.opened
        /\ poll'.loans = p.loans
    BY <1>3, <2>1, <2>2 DEF Polls
  <2> QED
    BY <2>1, <2>3 DEF p
<1>5. LoansInv(poll'.loans)
  BY <1>1, <1>4, NoPollIs
<1> QED
  BY <1>2, <1>4, <1>5 DEF BookInv, BookStays

LEMMA PollOffersStays ==
  ASSUME BookInv, PollOffers
  PROVE  BookStays
<1>1. PICK pool \in Pools :
        /\ Asked(pool)
        /\ LET was == poll.offer
               now == IF was = None THEN None
                      ELSE ReconcileOffer(was, poll.tip, pool)
           IN  /\ offer' = IF now = was THEN offer ELSE now
               /\ poll' = [poll EXCEPT !.phase = "open", !.offer = None,
                             !.opened = IF was = None THEN {}
                                        ELSE OpenedBy(was, poll.tip, pool),
                             !.calm = @ /\ pool = mempool]
  BY DEF PollOffers
<1> DEFINE was == poll.offer
           now == IF was = None THEN None ELSE ReconcileOffer(was, poll.tip, pool)
           opened == IF was = None THEN {} ELSE OpenedBy(was, poll.tip, pool)
<1>2. /\ loans' = loans /\ fresh' = fresh /\ disk' = disk
      /\ offer' = IF now = was THEN offer ELSE now
      /\ poll' = [poll EXCEPT !.phase = "open", !.offer = None, !.opened = opened,
                              !.calm = poll.calm /\ pool = mempool]
  BY <1>1 DEF PollOffers, InBatch
<1>3. pool \in {mempool, {}} /\ faults' \in 0..MaxFaults
  <2>1. pool = mempool \/ (pool = {} /\ faults < MaxFaults)
    BY DEF Pools
  <2> QED
    BY <1>1, <2>1, PollIs DEF Asked
<1>4. OfferInv(now) /\ \A s \in opened : GoodOpening(s)
  <2>1. CASE was = None
    BY <2>1 DEF OfferInv
  <2>2. CASE was # None
    <3>1. GoodOffer(was) /\ poll.tip \in 1..MaxHeight
      BY <2>2, PollIs DEF BookInv, OfferInv
    <3> HIDE DEF was
    <3>2. GoodOffer(ReconcileOffer(was, poll.tip, pool))
          /\ \A s \in OpenedBy(was, poll.tip, pool) : GoodOpening(s)
      BY <1>3, <3>1, ReconcileOfferIs DEF BookInv
    <3> QED
      BY <2>2, <3>2 DEF OfferInv
  <2> QED
    BY <2>1, <2>2
<1> HIDE DEF now, opened
<1>5. OfferInv(offer')
  BY <1>2, <1>4 DEF BookInv
<1>6. /\ poll' \in Polls /\ poll'.offer = None /\ poll'.opened = opened
      /\ poll'.loans = poll.loans
  <2>1. opened \subseteq LineSteps
    BY <1>4 DEF GoodOpening, GoodStep
  <2>2. poll \in Polls
    BY DEF BookInv
  <2> QED
    BY <1>2, <2>1, <2>2 DEF Polls
<1>7. OfferInv(poll'.offer)
  BY <1>6 DEF OfferInv
<1> QED
  BY <1>2, <1>3, <1>4, <1>5, <1>6, <1>7 DEF BookInv, BookStays

LEMMA PollOpensStays ==
  ASSUME BookInv, PollOpens
  PROVE  BookStays
<1>1. PICK s \in poll.opened : /\ loans' = Open(loans, s, FALSE)
                               /\ poll' = [poll EXCEPT !.opened = @ \ {s}]
  BY DEF PollOpens
<1>2. offer' = offer /\ disk' = disk /\ fresh' = fresh /\ faults' = faults
  BY DEF PollOpens
<1>3. GoodOpening(s) /\ poll \in Polls
  BY DEF BookInv
<1>4. LoansInv(loans')
  <2>1. /\ GoodStep(s, VaultCoins) /\ s.coin \in VaultCoins /\ s.event = "open"
        /\ kind \in Kinds /\ LoansInv(loans)
    BY <1>3 DEF GoodOpening, BookInv
  <2> QED
    BY <1>1, <2>1, OpenIs
<1>5. /\ poll' \in Polls /\ poll'.offer = poll.offer /\ poll'.loans = poll.loans
      /\ poll'.opened = poll.opened \ {s}
  BY <1>1, <1>3 DEF Polls
<1> QED
  BY <1>2, <1>4, <1>5 DEF BookInv, BookStays

LEMMA PollCopiesStays ==
  ASSUME BookInv, PollCopies
  PROVE  BookStays
<1>1. /\ poll' = [poll EXCEPT !.phase = "loans", !.loans = loans]
      /\ loans' = loans /\ offer' = offer /\ disk' = disk /\ fresh' = fresh /\ faults' = faults
  BY DEF PollCopies, book
<1>2. poll \in Polls /\ loans \in [VaultCoins -> LoanRecords \cup {None}]
  BY DEF BookInv, LoansInv
<1>3. /\ poll' \in Polls /\ poll'.offer = poll.offer /\ poll'.loans = loans
      /\ poll'.opened = poll.opened
  BY <1>1, <1>2 DEF Polls
<1> QED
  BY <1>1, <1>3 DEF BookInv, BookStays

(* A loan as the poll leaves it. *)
Polled(c, pool) ==
    LET was == poll.loans[c]
        now == IF was = None THEN None ELSE ReconcileLoan(was, poll.tip, pool)
    IN  IF now = was THEN loans[c] ELSE now

LEMMA PolledIs ==
  ASSUME BookInv, NEW pool \in {mempool, {}}, NEW c \in VaultCoins
  PROVE  /\ Polled(c, pool) \in LoanRecords \cup {None}
         /\ Polled(c, pool) # None => GoodLoan(c, Polled(c, pool))
         /\ poll.loans[c] = None => Polled(c, pool) = loans[c]
         /\ poll.loans[c] # None =>
              LET now == ReconcileLoan(poll.loans[c], poll.tip, pool) IN
              /\ now # None
              /\ Polled(c, pool) = now \/ (now = poll.loans[c] /\ Polled(c, pool) = loans[c])
<1> DEFINE was == poll.loans[c]
           now == ReconcileLoan(was, poll.tip, pool)
<1>1. Polled(c, pool) = LET new == IF was = None THEN None ELSE now
                        IN  IF new = was THEN loans[c] ELSE new
  BY DEF Polled
<1>2. loans[c] \in LoanRecords \cup {None} /\ (loans[c] # None => GoodLoan(c, loans[c]))
  BY DEF BookInv, LoansInv
<1>3. was # None => GoodLoan(c, now) /\ now \in LoanRecords /\ now # None
  <2> SUFFICES ASSUME was # None
               PROVE  GoodLoan(c, now) /\ now \in LoanRecords /\ now # None
    OBVIOUS
  <2>1. GoodLoan(c, was) /\ poll.tip \in 1..MaxHeight
    BY PollIs DEF BookInv, LoansInv
  <2> HIDE DEF was
  <2>2. GoodLoan(c, now)
    BY <2>1, ReconcileLoanIs DEF BookInv
  <2> QED
    BY <2>2, RecordAssumption DEF GoodLoan
<1> HIDE DEF now
<1> QED
  BY <1>1, <1>2, <1>3 DEF now

LEMMA PollLoansDoes ==
  ASSUME BookInv, PollLoans
  PROVE  \E pool \in Pools :
           /\ Asked(pool) /\ pool \in {mempool, {}} /\ faults' \in 0..MaxFaults
           /\ \A c \in VaultCoins : loans'[c] = Polled(c, pool)
           /\ DOMAIN loans' = VaultCoins /\ loans' = [c \in VaultCoins |-> loans'[c]]
           /\ fresh' = (poll.calm /\ pool = mempool)
<1>1. PICK pool \in Pools :
         /\ Asked(pool)
         /\ loans' = [c \in VaultCoins |->
              LET was == poll.loans[c]
                  now == IF was = None THEN None
                         ELSE ReconcileLoan(was, poll.tip, pool)
              IN  IF now = was THEN loans[c] ELSE now]
         /\ fresh' = (poll.calm /\ pool = mempool)
  BY DEF PollLoans
<1>2. loans' = [c \in VaultCoins |-> Polled(c, pool)]
  BY <1>1 DEF Polled
<1>3. pool \in {mempool, {}} /\ faults' \in 0..MaxFaults
  <2>1. pool = mempool \/ (pool = {} /\ faults < MaxFaults)
    BY DEF Pools
  <2> QED
    BY <1>1, <2>1, PollIs DEF Asked
<1> QED
  BY <1>1, <1>2, <1>3

LEMMA PollLoansStays ==
  ASSUME BookInv, PollLoans
  PROVE  BookStays
<1>1. PICK pool \in {mempool, {}} :
        /\ \A c \in VaultCoins : loans'[c] = Polled(c, pool)
        /\ loans' = [c \in VaultCoins |-> loans'[c]]
        /\ fresh' = (poll.calm /\ pool = mempool)
        /\ faults' \in 0..MaxFaults
  BY PollLoansDoes
<1>2. poll' = NoPoll(poll.tip) /\ offer' = offer /\ disk' = <<offer, loans'>>
  BY DEF PollLoans
<1>3. LoansInv(loans')
  BY <1>1, PolledIs DEF LoansInv
<1>4. /\ poll' \in Polls /\ OfferInv(poll'.offer) /\ LoansInv(poll'.loans)
      /\ poll'.opened = {}
  BY <1>2, NoPollIs, PollIs
<1> QED
  BY <1>1, <1>2, <1>3, <1>4 DEF BookInv, BookStays

LEMMA PollFailsStays ==
  ASSUME BookInv, PollFails
  PROVE  BookStays
<1>1. /\ poll' = NoPoll(poll.tip) /\ offer' = offer /\ loans' = loans
      /\ disk' = <<offer, loans>> /\ fresh' = fresh
  BY DEF PollFails, book
<1>2. faults' \in 0..MaxFaults
  BY PollIs DEF PollFails
<1>3. /\ poll' \in Polls /\ OfferInv(poll'.offer) /\ LoansInv(poll'.loans)
      /\ poll'.opened = {}
  BY <1>1, NoPollIs, PollIs
<1> QED
  BY <1>1, <1>2, <1>3 DEF BookInv, BookStays

LEMMA PublishStays ==
  ASSUME BookInv, NEW coin, Publish(coin)
  PROVE  /\ BookStays
         /\ offer'.line = <<Step(Maker(coin), coin, PlaceOf(coin), NoDebt, "fund")>>
         /\ offer' # None /\ offer'.status = "open"
<1> DEFINE s == Step(Maker(coin), coin, PlaceOf(coin), NoDebt, "fund")
<1>1. /\ coin \in OfferCoins /\ Unspent(coin)
      /\ offer' = [status |-> "open", taken |-> 0, line |-> <<s>>]
      /\ disk' = <<offer', loans>> /\ fresh' = FALSE
      /\ poll' = [poll EXCEPT !.calm = FALSE]
      /\ loans' = loans /\ faults' = faults
  BY DEF Publish, Maker
<1>2. coin \in Coins /\ coin \notin VaultCoins /\ coin # None /\ Maker(coin) \in Txs
  BY <1>1, CoinsAre, CoinsHaveMakers
<1>3. /\ Made(Maker(coin)) /\ Placed(Maker(coin), PlaceOf(coin)) /\ PlaceOf(coin) \in Places
  BY <1>1, <1>2, PlaceOfIs, PlaceTypes DEF BookInv
<1>4. s = [tx |-> Maker(coin), coin |-> coin, at |-> PlaceOf(coin), owes |-> NoDebt,
           event |-> "fund"]
  BY DEF Step
<1> HIDE DEF s
<1>5. s \in LineSteps /\ NoDebt \in Nat \X Nat
  BY <1>2, <1>3, <1>4 DEF LineSteps, Events, NoDebt
<1>6. GoodStep(s, OfferCoins)
  BY <1>1, <1>2, <1>3, <1>4, <1>5 DEF GoodStep
<1>7. GoodLine(<<s>>, OfferCoins) /\ <<s>> # <<>>
  BY <1>2, <1>4, <1>6, OneStepLine
<1>8. GoodOffer(offer') /\ offer' \in OfferRecords
  <2>1. <<s>> \in Seq(LineSteps)
    BY <1>5
  <2>2. offer' \in OfferRecords
    BY <1>1, <2>1 DEF OfferRecords
  <2> QED
    BY <1>1, <1>7, <2>2 DEF GoodOffer
<1>9. offer' # None /\ OfferInv(offer')
  BY <1>8, RecordAssumption DEF OfferInv
<1>10. /\ poll' \in Polls /\ poll'.offer = poll.offer /\ poll'.loans = poll.loans
       /\ poll'.opened = poll.opened
  <2>1. poll \in Polls
    BY DEF BookInv
  <2> QED
    BY <1>1, <2>1 DEF Polls
<1>11. BookStays
  BY <1>1, <1>9, <1>10 DEF BookInv, BookStays
<1> QED
  BY <1>1, <1>9, <1>11 DEF s

(* The step a borrower registers. *)
Named(coin) == Step(Maker(coin), coin, PlaceOf(coin), Owes[coin], "open")

LEMMA RegisterStays ==
  ASSUME BookInv, NEW coin, Register(coin)
  PROVE  /\ BookStays
         /\ coin \in VaultCoins /\ loans' = Open(loans, Named(coin), TRUE)
         /\ GoodStep(Named(coin), VaultCoins)
         /\ Named(coin).coin = coin /\ Named(coin).event = "open"
<1> DEFINE s == Named(coin)
<1>1. /\ coin \in VaultCoins /\ Unspent(coin)
      /\ loans' = Open(loans, s, TRUE)
      /\ disk' = <<offer, loans'>> /\ fresh' = FALSE
      /\ poll' = [poll EXCEPT !.calm = FALSE]
      /\ offer' = offer /\ faults' = faults
  BY DEF Register, Maker, Named
<1>2. coin \in Coins /\ coin # None /\ Maker(coin) \in Txs
  BY <1>1, CoinsAre, CoinsHaveMakers
<1>3. /\ Made(Maker(coin)) /\ Placed(Maker(coin), PlaceOf(coin)) /\ PlaceOf(coin) \in Places
  BY <1>1, <1>2, PlaceOfIs, PlaceTypes DEF BookInv
<1>4. s = [tx |-> Maker(coin), coin |-> coin, at |-> PlaceOf(coin), owes |-> Owes[coin],
           event |-> "open"]
  BY DEF Step, Named
<1> HIDE DEF s
<1>5. Owes[coin] \in Nat \X Nat
  <2>1. Owes[coin] \in Owed
    BY <1>1, <1>3, OwesAre DEF BookInv
  <2> QED
    BY <2>1 DEF Owed
<1>6. s \in LineSteps
  BY <1>2, <1>3, <1>4, <1>5 DEF LineSteps, Events
<1>7. GoodStep(s, VaultCoins) /\ s.coin = coin /\ s.event = "open"
  BY <1>1, <1>2, <1>3, <1>4, <1>6 DEF GoodStep
<1>8. LoansInv(loans')
  <2>1. kind \in Kinds /\ LoansInv(loans)
    BY DEF BookInv
  <2> QED
    BY <1>1, <1>7, <2>1, OpenIs
<1>9. /\ poll' \in Polls /\ poll'.offer = poll.offer /\ poll'.loans = poll.loans
      /\ poll'.opened = poll.opened
  <2>1. poll \in Polls
    BY DEF BookInv
  <2> QED
    BY <1>1, <2>1 DEF Polls
<1>10. BookStays
  BY <1>1, <1>8, <1>9 DEF BookInv, BookStays
<1> QED
  BY <1>1, <1>7, <1>10 DEF s

LEMMA RestartStays ==
  ASSUME BookInv, Restart
  PROVE  BookStays
<1>1. /\ poll' = NoPoll(poll.tip) /\ offer' = disk[1] /\ loans' = disk[2]
      /\ disk' = disk /\ fresh' = FALSE /\ faults' = faults + 1 /\ faults < MaxFaults
  BY DEF Restart
<1>2. /\ poll' \in Polls /\ OfferInv(poll'.offer) /\ LoansInv(poll'.loans)
      /\ poll'.opened = {}
  BY <1>1, NoPollIs, PollIs
<1>3. faults' \in 0..MaxFaults
  BY <1>1, PollIs
<1> QED
  BY <1>1, <1>2, <1>3 DEF BookInv, BookStays

LEMMA ChainMovesStays ==
  ASSUME BookInv, ChainMoves
  PROVE  BookStays
<1>1. /\ poll' = [poll EXCEPT !.calm = FALSE] /\ offer' = offer /\ loans' = loans
      /\ disk' = disk /\ fresh' = FALSE /\ faults' = faults
  BY DEF ChainMoves, book
<1>2. /\ poll' \in Polls /\ poll'.offer = poll.offer /\ poll'.loans = poll.loans
      /\ poll'.opened = poll.opened
  <2>1. poll \in Polls
    BY DEF BookInv
  <2> QED
    BY <1>1, <2>1 DEF Polls
<1> QED
  BY <1>1, <1>2 DEF BookInv, BookStays

(* Only ChainMoves moves the chain. *)
LEMMA OnlyChainMoves ==
  ASSUME [Next]_vars
  PROVE  kind' = kind /\ (ChainMoves \/ UNCHANGED ledger)
<1>1. CASE ChainMoves
  BY <1>1 DEF ChainMoves
<1>2. CASE PollBegins \/ PollOffers \/ PollOpens \/ PollCopies \/ PollLoans \/ PollFails
  BY <1>2 DEF PollBegins, PollOffers, PollOpens, PollCopies, PollLoans, PollFails
<1>3. CASE \E c \in Coins : Publish(c) \/ Register(c)
  BY <1>3 DEF Publish, Register
<1>4. CASE Restart
  BY <1>4 DEF Restart
<1>5. CASE UNCHANGED vars
  BY <1>5 DEF vars
<1> QED
  BY <1>1, <1>2, <1>3, <1>4, <1>5 DEF Next

LEMMA BookStep == BookInv /\ [Next]_vars => BookInv'
<1> SUFFICES ASSUME BookInv, [Next]_vars PROVE BookInv'
  OBVIOUS
<1>1. kind' = kind /\ (ChainMoves \/ UNCHANGED ledger)
  BY OnlyChainMoves
<1>2. BookStays
  <2>1. CASE UNCHANGED vars
    BY <2>1 DEF vars, book, BookInv, BookStays
  <2> QED
    BY <2>1, ChainMovesStays, PollBeginsStays, PollOffersStays, PollOpensStays,
       PollCopiesStays, PollLoansStays, PollFailsStays, PublishStays, RegisterStays,
       RestartStays DEF Next
<1>3. ChainInv'
  BY <1>1, MovesKeep, ChainStays DEF BookInv
<1>4. /\ ForkInv'
      /\ \A c, rec : GoodLoan(c, rec) => GoodLoan(c, rec)'
      /\ \A rec : GoodOffer(rec) => GoodOffer(rec)'
      /\ \A s : GoodOpening(s) => GoodOpening(s)'
  BY <1>1, RecordsStay DEF BookInv
<1>5. /\ \A all : LoansInv(all) => LoansInv(all)'
      /\ \A rec : OfferInv(rec) => OfferInv(rec)'
  BY <1>4 DEF LoansInv, OfferInv
<1>6. LoansInv(loans)' /\ OfferInv(offer)'
  BY <1>2, <1>5 DEF BookStays
<1>7. OfferInv(disk[1])' /\ LoansInv(disk[2])'
  BY <1>2, <1>5 DEF BookStays
<1>8. OfferInv(poll.offer)' /\ LoansInv(poll.loans)'
  BY <1>2, <1>5 DEF BookStays
<1>9. \A s \in poll'.opened : GoodOpening(s)'
  BY <1>2, <1>4 DEF BookStays
<1> QED
  BY <1>1, <1>2, <1>3, <1>4, <1>6, <1>7, <1>8, <1>9 DEF BookInv, BookStays, Polls

LEMMA BookStart == Init => BookInv
<1> SUFFICES ASSUME Init PROVE BookInv
  OBVIOUS
<1> DEFINE b == [fork |-> 0, txs |-> {}]
<1>1. /\ chain = <<b>> /\ mempool = {} /\ forks = 0 /\ evictions = 0
      /\ kind \in Kinds /\ offer = None /\ loans = [c \in VaultCoins |-> None]
      /\ disk = <<offer, loans>> /\ poll = NoPoll(1) /\ fresh = FALSE /\ faults = 0
  BY DEF Init, book
<1>2. /\ MaxHeight \in Nat \ {0} /\ MaxForks \in Nat /\ MaxEvictions \in Nat
      /\ MaxFaults \in Nat
  BY LedgerAssumption, LineAssumption
<1>3. b \in Block
  BY <1>2 DEF Block
<1>4. chain \in Seq(Block) /\ Height = 1 /\ chain[1] = b
  BY <1>1, <1>3 DEF Height
<1>5. LedgerTypeOK
  BY <1>1, <1>2, <1>4 DEF LedgerTypeOK, Height
<1>6. \A x : ~InChain(x) /\ ~Known(x)
  <2>1. \A h \in 1..Height : chain[h].txs = {}
    BY <1>4
  <2> QED
    BY <1>1, <2>1 DEF InChain, Known
<1>7. ChainInv
  <2>1. \A h \in 1..Height : chain[h].txs = {}
    BY <1>4
  <2> QED
    BY <1>1, <1>5, <1>6, <2>1 DEF ChainInv
<1>8. ForkInv
  <2>1. \A h \in 1..Height : HashAt(h) = 0
    BY <1>4 DEF HashAt
  <2> QED
    BY <1>1, <1>4, <2>1 DEF ForkInv
<1>9. LoansInv(loans) /\ OfferInv(offer)
  BY <1>1, NoLoansIs DEF OfferInv
<1>10. /\ poll \in Polls /\ OfferInv(poll.offer) /\ LoansInv(poll.loans) /\ poll.opened = {}
  <2>1. 1 \in 1..MaxHeight
    BY <1>2
  <2> QED
    BY <1>1, <2>1, NoPollIs
<1>11. disk = <<disk[1], disk[2]>> /\ disk[1] = offer /\ disk[2] = loans
  BY <1>1
<1>12. faults \in 0..MaxFaults /\ fresh \in BOOLEAN
  <2>1. faults \in 0..MaxFaults
    BY <1>1, <1>2
  <2>2. fresh \in BOOLEAN
    BY <1>1
  <2> QED
    BY <2>1, <2>2
<1>13. \A s \in poll.opened : GoodOpening(s)
  BY <1>10
<1> QED
  BY <1>1, <1>7, <1>8, <1>9, <1>10, <1>11, <1>12, <1>13 DEF BookInv

LEMMA BookHolds == Spec => []BookInv
BY BookStart, BookStep, PTL DEF Spec

(* What is kept is lines, of steps the chain's transactions take, and a    *)
(* record without a line is a ghost (reconcile_loan, reconcile_offer).     *)
THEOREM TypeCorrect == Spec => []TypeOK
<1>1. BookInv => TypeOK
  <2> SUFFICES ASSUME BookInv PROVE TypeOK
    OBVIOUS
  <2>1. ASSUME NEW line, NEW coins, GoodLine(line, coins) PROVE IsLine(line, coins)
    <3> SUFFICES ASSUME NEW n \in 1..Len(line)
                 PROVE  /\ line[n].at # Gone
                        /\ line[n].coin # None => line[n].coin \in coins
                        /\ n < Len(line) => line[n].coin # None
      BY DEF IsLine
    <3>1. GoodStep(line[n], coins) /\ Len(line) \in Nat
      BY <2>1 DEF GoodLine
    <3>2. line[n].at # Gone
      BY <3>1, PlaceTypes DEF GoodStep
    <3>3. ASSUME n < Len(line) PROVE line[n].coin # None
      <4>1. n + 1 \in 2..Len(line) /\ (n + 1) - 1 = n
        BY <3>1, <3>3
      <4>2. Linked(line, n + 1)
        BY <2>1, <4>1 DEF GoodLine
      <4> QED
        BY <4>1, <4>2 DEF Linked
    <3> QED
      BY <3>1, <3>2, <3>3 DEF GoodStep
  <2>2. offer # None => IsOffer(offer)
    BY <2>1 DEF BookInv, OfferInv, GoodOffer, IsOffer
  <2>3. \A c \in VaultCoins : loans[c] # None => IsLoan(loans[c])
    BY <2>1 DEF BookInv, LoansInv, GoodLoan, IsLoan
  <2>4. \A s \in poll.opened : s \in LineSteps /\ s.coin \in VaultCoins
    BY DEF BookInv, GoodOpening, GoodStep
  <2>5. LedgerTypeOK
    BY DEF BookInv, ChainInv
  <2> QED
    BY <2>2, <2>3, <2>4, <2>5, PollIs DEF TypeOK
<1> QED
  BY <1>1, BookHolds, PTL

(* A take on a line is one of the programs' takes, and opens a vault. *)
LEMMA TakeIs ==
  ASSUME kind \in Kinds, NEW coins, NEW line, GoodLine(line, coins),
         NEW n \in 1..Len(line), line[n].event = "take"
  PROVE  /\ n \in 2..Len(line)
         /\ line[n].tx \in Txs /\ kind[line[n].tx] = "take"
         /\ VaultOf(line[n].tx) \in VaultCoins
<1>1. Len(line) \in Nat /\ Len(line) > 0
  BY DEF GoodLine
<1>2. n # 1
  <2>1. line[1].event \in {"open", "fund"}
    BY <1>1 DEF GoodLine
  <2> QED
    BY <2>1
<1>3. n \in 2..Len(line)
  BY <1>1, <1>2
<1>4. Linked(line, n) /\ GoodStep(line[n], coins)
  BY <1>3 DEF GoodLine
<1>5. line[n].tx \in Txs /\ Made(line[n].tx) /\ kind[line[n].tx] = "take"
  BY <1>4 DEF Linked, GoodStep, LineSteps
<1>6. Spends[line[n].tx] \in OfferCoins
  BY <1>5, KindIs
<1>7. VaultOf(line[n].tx) \in VaultCoins
  BY <1>5, <1>6, KindIs
<1> QED
  BY <1>3, <1>5, <1>7

-----------------------------------------------------------------------------
(* No post in a poll: the poll's copies are the book, what is not on disk  *)
(* is what the poll made of it, and every take has its loan or is about to *)
(* be given it.                                                            *)

Covered(rec, all, opened) ==
    rec # None =>
      \A n \in 1..Len(rec.line) : rec.line[n].event = "take" =>
        \/ all[VaultOf(rec.line[n].tx)] # None
        \/ \E s \in opened : s.coin = VaultOf(rec.line[n].tx)

CopyInv ==
    /\ poll.phase = "offers" => poll.offer = offer
    /\ poll.phase \in {"idle", "offers"} => disk[1] = offer /\ disk[2] = loans
    /\ poll.phase # "open" => poll.opened = {}
    /\ Covered(offer, loans, poll.opened)
    /\ Covered(disk[1], disk[2], {})

(* The file is the book, and no poll is under way or one has just begun.   *)
WrittenAs(rec, all) ==
    /\ Covered(rec, all, {})
    /\ offer' = rec /\ loans' = all /\ disk'[1] = rec /\ disk'[2] = all
    /\ poll'.phase \in {"idle", "offers"} /\ (poll'.phase = "offers" => poll'.offer = rec)
    /\ poll'.opened = {}

LEMMA WrittenIsCopy ==
  ASSUME NEW rec, NEW all, WrittenAs(rec, all)
  PROVE  CopyInv'
BY DEF WrittenAs, CopyInv, Covered

(* Loans that are there cover what they covered. *)
LEMMA CoverStays ==
  ASSUME kind \in Kinds, NEW rec, OfferInv(rec), NEW all, NEW more, NEW opened, NEW left,
         \A c \in VaultCoins : all[c] # None => more[c] # None,
         \A s \in opened : s \in left \/ more[s.coin] # None,
         Covered(rec, all, opened)
  PROVE  Covered(rec, more, left)
<1> SUFFICES ASSUME rec # None, NEW n \in 1..Len(rec.line), rec.line[n].event = "take"
             PROVE  \/ more[VaultOf(rec.line[n].tx)] # None
                    \/ \E s \in left : s.coin = VaultOf(rec.line[n].tx)
  BY DEF Covered
<1>1. VaultOf(rec.line[n].tx) \in VaultCoins
  <2>1. GoodLine(rec.line, OfferCoins)
    BY DEF OfferInv, GoodOffer
  <2> QED
    BY <2>1, TakeIs
<1> QED
  BY <1>1 DEF Covered

LEMMA CopyStep ==
  ASSUME "post" \notin MidPoll, BookInv, CopyInv, [Next]_vars
  PROVE  CopyInv'
<1> USE DEF BookInv
<1>1. CASE UNCHANGED vars
  BY <1>1 DEF vars, book, CopyInv, Covered
<1>2. CASE ChainMoves
  <2>1. /\ poll' = [poll EXCEPT !.calm = FALSE] /\ offer' = offer /\ loans' = loans
        /\ disk' = disk /\ poll \in Polls
    BY <1>2 DEF ChainMoves, book
  <2>2. /\ poll'.phase = poll.phase /\ poll'.offer = poll.offer
        /\ poll'.opened = poll.opened
    BY <2>1 DEF Polls
  <2> QED
    BY <2>1, <2>2 DEF CopyInv, Covered
<1>3. CASE PollBegins
  <2>1. /\ poll' = [NoPoll(Height) EXCEPT !.phase = "offers", !.offer = offer, !.calm = TRUE]
        /\ loans' = loans /\ offer' = offer /\ disk' = disk /\ poll.phase = "idle"
    BY <1>3 DEF PollBegins, book
  <2>2. poll'.phase = "offers" /\ poll'.offer = offer /\ poll'.opened = {}
    <3>1. NoPoll(Height) \in Polls /\ NoPoll(Height).opened = {}
      BY PollIs, NoPollIs
    <3> QED
      BY <2>1, <3>1 DEF Polls
  <2>3. disk[1] = offer /\ disk[2] = loans /\ poll.opened = {} /\ Covered(offer, loans, {})
    BY <2>1 DEF CopyInv
  <2>4. WrittenAs(offer, loans)
    BY <2>1, <2>2, <2>3 DEF WrittenAs
  <2> QED
    BY <2>4, WrittenIsCopy
<1>4. CASE PollOffers
  <2> DEFINE was == poll.offer
  <2>1. PICK pool \in Pools :
         LET now == IF was = None THEN None ELSE ReconcileOffer(was, poll.tip, pool)
         IN  /\ offer' = IF now = was THEN offer ELSE now
             /\ poll' = [poll EXCEPT !.phase = "open", !.offer = None,
                           !.opened = IF was = None THEN {} ELSE OpenedBy(was, poll.tip, pool),
                           !.calm = @ /\ pool = mempool]
    BY ONLY ZenonT(40), <1>4 DEF PollOffers
  <2> DEFINE now == IF was = None THEN None ELSE ReconcileOffer(was, poll.tip, pool)
             opened == IF was = None THEN {} ELSE OpenedBy(was, poll.tip, pool)
  <2>2. /\ was = offer /\ disk[1] = offer /\ disk[2] = loans /\ poll.opened = {}
        /\ Covered(offer, loans, {}) /\ loans' = loans /\ disk' = disk
        /\ poll.phase = "offers"
    BY <1>4 DEF PollOffers, CopyInv, InBatch
  <2>3. offer' = now
    BY <2>1, <2>2
  <2>4. poll'.phase = "open" /\ poll'.opened = opened
    <3>1. poll \in Polls
      OBVIOUS
    <3>2. /\ poll' = [poll EXCEPT !.phase = "open", !.offer = None, !.opened = opened,
                                  !.calm = poll.calm /\ pool = mempool]
      BY <2>1
    <3> HIDE DEF opened
    <3> QED
      BY <3>1, <3>2 DEF Polls
  <2>5. pool \in {mempool, {}}
    BY DEF Pools
  <2>6. Covered(now, loans, opened)
    <3>1. CASE was = None
      BY <2>2, <3>1 DEF Covered
    <3>2. CASE was # None
      <4>1. GoodOffer(was) /\ poll.tip \in 1..MaxHeight
        BY <2>2, <3>2, PollIs DEF OfferInv
      <4> HIDE DEF was
      <4>2. now = ReconcileOffer(was, poll.tip, pool) /\ opened = OpenedBy(was, poll.tip, pool)
        BY <3>2
      <4>3. \A n \in 1..Len(now.line) : now.line[n].event = "take" =>
              \/ \E s \in opened : s.coin = VaultOf(now.line[n].tx)
              \/ \E m \in 1..Len(was.line) : was.line[m].event = "take"
                                             /\ was.line[m].tx = now.line[n].tx
        <5>1. kind \in Kinds /\ ChainInv /\ ForkInv /\ pool \in {mempool, {}}
          BY <2>5
        <5> DEFINE tip == poll.tip
        <5>2. /\ now = ReconcileOffer(was, tip, pool) /\ opened = OpenedBy(was, tip, pool)
              /\ GoodOffer(was) /\ tip \in 1..MaxHeight
          BY <4>1, <4>2
        <5> HIDE DEF now, opened, tip, BookInv
        <5>3. TakesAre(now.line, was.line, opened)
          BY <5>1, <5>2, ReconcileOfferIs
        <5> QED
          BY <5>3 DEF TakesAre
      <4> HIDE DEF now, opened
      <4>4. \A m \in 1..Len(was.line) : was.line[m].event = "take" =>
              loans[VaultOf(was.line[m].tx)] # None
        BY <2>2, <3>2 DEF Covered
      <4> QED
        BY <4>3, <4>4 DEF Covered
    <3> QED
      BY <3>1, <3>2
  <2> HIDE DEF now, opened, was
  <2> QED
    BY <2>2, <2>3, <2>4, <2>6 DEF CopyInv, Covered
<1>5. CASE PollOpens
  <2>1. PICK s \in poll.opened : /\ loans' = Open(loans, s, FALSE)
                                 /\ poll' = [poll EXCEPT !.opened = @ \ {s}]
    BY <1>5 DEF PollOpens
  <2>2. /\ offer' = offer /\ disk' = disk /\ poll.phase = "open"
        /\ poll'.phase = "open" /\ poll'.opened = poll.opened \ {s}
    <3>1. poll \in Polls
      OBVIOUS
    <3> QED
      BY <1>5, <2>1, <3>1 DEF PollOpens, Polls
  <2>3. /\ \A c \in VaultCoins : loans[c] # None => loans'[c] # None
        /\ loans'[s.coin] # None
    <3>1. /\ GoodStep(s, VaultCoins) /\ s.coin \in VaultCoins /\ s.event = "open"
          /\ kind[s.tx] = "take"
      BY DEF GoodOpening
    <3> DEFINE no == FALSE
    <3>2. no \in BOOLEAN /\ loans' = Open(loans, s, no)
      BY <2>1
    <3>3. kind \in Kinds /\ LoansInv(loans)
      OBVIOUS
    <3> HIDE DEF no, BookInv
    <3> QED
      BY <3>1, <3>2, <3>3, OpenIs
  <2>4. \A e \in poll.opened : e \in poll'.opened \/ loans'[e.coin] # None
    BY <2>2, <2>3
  <2>5. Covered(offer, loans', poll'.opened)
    <3>1. Covered(offer, loans, poll.opened)
      BY DEF CopyInv
    <3> QED
      BY <2>3, <2>4, <3>1, CoverStays
  <2>6. Covered(disk[1], disk[2], {})
    BY DEF CopyInv
  <2> QED
    BY <2>2, <2>5, <2>6 DEF CopyInv, Covered
<1>6. CASE PollCopies
  <2>1. /\ poll' = [poll EXCEPT !.phase = "loans", !.loans = loans] /\ poll.opened = {}
        /\ loans' = loans /\ offer' = offer /\ disk' = disk /\ poll \in Polls
    BY <1>6 DEF PollCopies, book
  <2>2. poll'.phase = "loans" /\ poll'.opened = {} /\ poll'.loans = loans
    BY <2>1 DEF Polls
  <2> QED
    BY <2>1, <2>2 DEF CopyInv, Covered
<1>7. CASE PollLoans
  <2>1. PICK pool \in {mempool, {}} : \A c \in VaultCoins : loans'[c] = Polled(c, pool)
    BY <1>7, PollLoansDoes
  <2>2. /\ poll' = NoPoll(poll.tip) /\ offer' = offer /\ disk' = <<offer, loans'>>
        /\ poll.phase = "loans" /\ poll.opened = {}
    BY <1>7 DEF PollLoans, CopyInv
  <2>3. poll'.phase = "idle" /\ poll'.opened = {}
    BY <2>2, PollIs, NoPollIs
  <2>4. \A c \in VaultCoins : loans[c] # None => loans'[c] # None
    BY <2>1, PolledIs
  <2>5. Covered(offer, loans', {})
    <3>1. Covered(offer, loans, {})
      BY <2>2 DEF CopyInv
    <3> QED
      BY <2>4, <3>1, CoverStays
  <2>6. WrittenAs(offer, loans')
    BY <2>2, <2>3, <2>5 DEF WrittenAs
  <2> QED
    BY <2>6, WrittenIsCopy
<1>8. CASE PollFails
  <2>1. /\ poll' = NoPoll(poll.tip) /\ offer' = offer /\ loans' = loans
        /\ disk' = <<offer, loans>> /\ poll.phase \in {"offers", "loans"}
    BY <1>8 DEF PollFails, book
  <2>2. poll'.phase = "idle" /\ poll'.opened = {}
    BY <2>1, PollIs, NoPollIs
  <2>3. Covered(offer, loans, {})
    BY <2>1 DEF CopyInv
  <2>4. WrittenAs(offer, loans)
    BY <2>1, <2>2, <2>3 DEF WrittenAs
  <2> QED
    BY <2>4, WrittenIsCopy
<1>9. ASSUME NEW coin \in Coins, Publish(coin)
      PROVE  CopyInv'
  <2>1. /\ poll.phase = "idle" /\ poll' = [poll EXCEPT !.calm = FALSE] /\ poll \in Polls
        /\ disk' = <<offer', loans>> /\ loans' = loans
    BY <1>9 DEF Publish, May
  <2>2. poll'.phase = "idle" /\ poll'.opened = {}
    BY <2>1 DEF Polls, CopyInv
  <2>3. Covered(offer', loans, {})
    <3>1. offer'.line = <<Step(Maker(coin), coin, PlaceOf(coin), NoDebt, "fund")>>
      BY <1>9, PublishStays
    <3>2. \A n \in 1..Len(offer'.line) : offer'.line[n].event = "fund"
      BY <3>1 DEF Step
    <3> QED
      BY <3>2 DEF Covered
  <2>4. WrittenAs(offer', loans)
    BY <2>1, <2>2, <2>3 DEF WrittenAs
  <2> QED
    BY <2>4, WrittenIsCopy
<1>10. ASSUME NEW coin \in Coins, Register(coin)
       PROVE  CopyInv'
  <2>1. /\ poll.phase = "idle" /\ poll' = [poll EXCEPT !.calm = FALSE] /\ poll \in Polls
        /\ disk' = <<offer, loans'>> /\ offer' = offer
    BY <1>10 DEF Register, May
  <2>2. poll'.phase = "idle" /\ poll'.opened = {} /\ poll.opened = {}
    BY <2>1 DEF Polls, CopyInv
  <2>3. Covered(offer, loans', {})
    <3>1. Covered(offer, loans, {})
      BY <2>2 DEF CopyInv
    <3>2. /\ coin \in VaultCoins /\ loans' = Open(loans, Named(coin), TRUE)
          /\ GoodStep(Named(coin), VaultCoins)
          /\ Named(coin).coin = coin /\ Named(coin).event = "open"
      BY <1>10, RegisterStays
    <3>3. \A c \in VaultCoins : loans[c] # None => loans'[c] # None
      <4> DEFINE yes == TRUE
      <4>1. yes \in BOOLEAN /\ loans' = Open(loans, Named(coin), yes)
        BY <3>2
      <4>2. kind \in Kinds /\ LoansInv(loans) /\ Named(coin).coin \in VaultCoins
        BY <3>2
      <4> DEFINE s == Named(coin)
      <4>3. GoodStep(s, VaultCoins) /\ s.event = "open" /\ s.coin \in VaultCoins
            /\ loans' = Open(loans, s, yes)
        BY <3>2, <4>1
      <4> HIDE DEF yes, s, BookInv
      <4> QED
        BY <4>1, <4>2, <4>3, OpenIs
    <3> QED
      BY <3>1, <3>3, CoverStays
  <2>4. WrittenAs(offer, loans')
    BY <2>1, <2>2, <2>3 DEF WrittenAs
  <2> QED
    BY <2>4, WrittenIsCopy
<1>11. CASE Restart
  <2>1. poll' = NoPoll(poll.tip) /\ offer' = disk[1] /\ loans' = disk[2] /\ disk' = disk
    BY <1>11 DEF Restart
  <2>2. poll'.phase = "idle" /\ poll'.opened = {}
    BY <2>1, PollIs, NoPollIs
  <2>3. WrittenAs(disk[1], disk[2])
    BY <2>1, <2>2 DEF WrittenAs, CopyInv
  <2> QED
    BY <2>3, WrittenIsCopy
<1> QED
  BY <1>1, <1>2, <1>3, <1>4, <1>5, <1>6, <1>7, <1>8, <1>9, <1>10, <1>11 DEF Next

LEMMA CopyStart == Init => CopyInv
<1> SUFFICES ASSUME Init PROVE CopyInv
  OBVIOUS
<1>1. /\ offer = None /\ loans = [c \in VaultCoins |-> None]
      /\ disk[1] = offer /\ disk[2] = loans /\ poll = NoPoll(1)
  BY DEF Init, book
<1>2. poll.phase = "idle" /\ poll.opened = {}
  <2>1. 1 \in 1..MaxHeight
    BY LedgerAssumption
  <2> QED
    BY <1>1, <2>1, NoPollIs
<1> QED
  BY <1>1, <1>2 DEF CopyInv, Covered

LEMMA CopyHolds ==
  ASSUME "post" \notin MidPoll
  PROVE  Spec => []CopyInv
<1>1. BookInv /\ CopyInv /\ [Next]_vars => CopyInv'
  BY CopyStep
<1> QED
  BY <1>1, CopyStart, BookHolds, PTL DEF Spec

(* What a restart finds on disk has every script the book has. *)
NameInv ==
    \A c \in VaultCoins : loans[c] # None /\ loans[c].named
                          => disk[2][c] # None /\ disk[2][c].named

(* RegisteredIsKept, of one step. *)
NameStays ==
    \A c \in VaultCoins :
      loans[c] # None /\ loans[c].named
      => loans'[c] # None /\ (loans'[c].named \/ Overwritten(c))

(* What a poll puts in place of a record that has the script: a copy that  *)
(* has it too, or one taken before it came.                                *)
LEMMA PollNames ==
  ASSUME BookInv, PollLoans, NEW c \in VaultCoins, loans[c] # None, loans[c].named
  PROVE  loans'[c] # None /\ (loans'[c].named \/ Overwritten(c))
<1> DEFINE was == poll.loans[c]
<1>1. PICK pool \in {mempool, {}} : loans'[c] = Polled(c, pool)
  BY PollLoansDoes
<1>2. CASE was = None
  <2>1. loans'[c] = loans[c]
    BY <1>1, <1>2, PolledIs
  <2> QED
    BY <2>1
<1>3. CASE was # None
  <2> DEFINE now == ReconcileLoan(was, poll.tip, pool)
  <2>1. now # None /\ loans'[c] \in {now, loans[c]}
    BY <1>1, <1>3, PolledIs
  <2>2. now.named = was.named
    <3>1. GoodLoan(c, was) /\ poll.tip \in 1..MaxHeight /\ ChainInv /\ ForkInv /\ kind \in Kinds
      BY <1>3, PollIs DEF BookInv, LoansInv
    <3> HIDE DEF was
    <3> QED
      BY <3>1, ReconcileLoanIs
  <2>3. was.named \/ Overwritten(c)
    BY <1>3 DEF Overwritten, PollLoans
  <2> HIDE DEF was, now
  <2> QED
    BY <2>1, <2>2, <2>3
<1> QED
  BY <1>2, <1>3

LEMMA NameStep ==
  ASSUME BookInv, NameInv, [Next]_vars
  PROVE  NameStays /\ NameInv'
<1>0. kind \in Kinds /\ LoansInv(loans)
  BY DEF BookInv
<1>1. ASSUME loans' = loans, disk' = disk PROVE NameStays /\ NameInv'
  BY <1>1 DEF NameInv, NameStays
<1>2. ASSUME disk'[2] = loans' PROVE NameInv'
  BY <1>2 DEF NameInv
<1>3. CASE PollOpens
  <2>1. PICK s \in poll.opened : loans' = Open(loans, s, FALSE)
    BY <1>3 DEF PollOpens
  <2>2. GoodStep(s, VaultCoins) /\ s.coin \in VaultCoins /\ s.event = "open"
    BY DEF BookInv, GoodOpening
  <2> DEFINE no == FALSE
             new == Open(loans, s, no)
  <2>0. no \in BOOLEAN /\ ~no
    OBVIOUS
  <2> HIDE DEF no
  <2>3. \A c \in VaultCoins : loans[c] # None => new[c] # None /\ new[c] = loans[c]
    BY <1>0, <2>0, <2>2, OpenIs
  <2>4. \A c \in VaultCoins : loans[c] = None /\ new[c] # None => ~new[c].named
    BY <1>0, <2>0, <2>2, OpenIs
  <2>5. new = loans' /\ disk' = disk
    BY <1>3, <2>1 DEF PollOpens, no
  <2> HIDE DEF new
  <2> QED
    BY <2>3, <2>4, <2>5 DEF NameInv, NameStays
<1>4. CASE PollLoans
  <2>1. NameStays
    BY <1>4, PollNames DEF NameStays
  <2>2. disk'[2] = loans'
    BY <1>4 DEF PollLoans
  <2> QED
    BY <1>2, <2>1, <2>2
<1>5. CASE PollFails
  <2>1. loans' = loans /\ disk'[2] = loans'
    BY <1>5 DEF PollFails, book
  <2> QED
    BY <1>2, <2>1 DEF NameStays
<1>6. ASSUME NEW coin \in Coins, Publish(coin)
      PROVE  NameStays /\ NameInv'
  <2>1. loans' = loans /\ disk'[2] = loans'
    BY <1>6 DEF Publish
  <2> QED
    BY <1>2, <2>1 DEF NameStays
<1>7. ASSUME NEW coin \in Coins, Register(coin)
      PROVE  NameStays /\ NameInv'
  <2> DEFINE yes == TRUE
             s == Named(coin)
  <2>1. /\ s.coin \in VaultCoins /\ loans' = Open(loans, s, yes)
        /\ GoodStep(s, VaultCoins) /\ s.event = "open" /\ yes \in BOOLEAN
    BY <1>7, RegisterStays
  <2> HIDE DEF yes, s
  <2>2. \A c \in VaultCoins : loans[c] # None =>
          loans'[c] # None /\ (loans[c].named => loans'[c].named)
    BY <1>0, <2>1, OpenIs
  <2>3. disk'[2] = loans'
    BY <1>7 DEF Register
  <2> QED
    BY <1>2, <2>2, <2>3 DEF NameStays
<1>8. CASE Restart
  <2>1. loans' = disk[2] /\ disk'[2] = loans'
    BY <1>8 DEF Restart
  <2> QED
    BY <1>2, <2>1 DEF NameStays, NameInv
<1>9. CASE PollOffers
  <2>1. loans' = loans /\ disk' = disk
    BY ONLY <1>9 DEF PollOffers, InBatch
  <2> QED
    BY <1>1, <2>1
<1>10. CASE ChainMoves \/ PollBegins \/ PollCopies \/ UNCHANGED vars
  <2>1. loans' = loans /\ disk' = disk
    BY ONLY <1>10 DEF ChainMoves, PollBegins, PollCopies, vars, book
  <2> QED
    BY <1>1, <2>1
<1> QED
  BY <1>3, <1>4, <1>5, <1>6, <1>7, <1>8, <1>9, <1>10 DEF Next

(* A borrower's payout script stays with the loan (open_v2_loan) through   *)
(* every interleaving of requests, polls, restarts and reorgs: only a poll *)
(* that took its copy of the record before the script came puts back one   *)
(* without it (v2_items, put_v2).                                          *)
THEOREM NamesAreKept == Spec => RegisteredIsKept
<1>1. Init => NameInv
  <2> SUFFICES ASSUME Init PROVE NameInv
    OBVIOUS
  <2>1. \A c \in VaultCoins : loans[c] = None
    BY DEF Init
  <2> QED
    BY <2>1 DEF NameInv
<1>2. BookInv /\ NameInv /\ [Next]_vars => NameInv'
  BY NameStep
<1>3. BookInv /\ NameInv /\ [Next]_vars => [NameStays]_vars
  BY NameStep
<1>4. Spec => [][NameStays]_vars
  BY <1>1, <1>2, <1>3, BookHolds, PTL DEF Spec
<1> QED
  BY <1>4 DEF RegisteredIsKept, NameStays

(* Every take on the offer's line opened a loan the book has, if no        *)
(* request comes inside a poll (with one between two takes, and a crash,   *)
(* it is false): a crash then loses the takes a poll read together with    *)
(* the loans they opened, and the next poll reads them again (Book.batch). *)
THEOREM TakesHaveLoans ==
  ASSUME "post" \notin MidPoll
  PROVE  Spec => []TakesAreLoans
<1>1. BookInv /\ CopyInv => TakesAreLoans
  <2> SUFFICES ASSUME BookInv, CopyInv, poll.phase = "idle", offer # None,
                      NEW n \in 2..Len(offer.line), offer.line[n].event = "take"
               PROVE  loans[VaultOf(offer.line[n].tx)] # None
    BY DEF TakesAreLoans
  <2>1. GoodLine(offer.line, OfferCoins)
    BY DEF BookInv, OfferInv, GoodOffer
  <2>2. n \in 1..Len(offer.line)
    BY <2>1 DEF GoodLine
  <2> QED
    BY <2>2 DEF CopyInv, Covered
<1> QED
  BY <1>1, BookHolds, CopyHolds, PTL

-----------------------------------------------------------------------------
(* Ghosts. *)

(* A poll that is under way has seen every block there is. *)
TipInv == poll.phase # "idle" => Height <= poll.tip

LEMMA ReorgIsNoHigher ==
  ASSUME LedgerTypeOK, Reorg
  PROVE  Height' <= Height
<1>1. PICK n \in 1..(Height - 1), lost \in SUBSET Txs :
        LET gone == UNION {chain[h].txs : h \in n + 1..Height}
        IN  Replaced(n, (mempool \cup gone) \ Family(lost))
  BY ReorgDoes
<1>2. n \in 1..(Height - 1) /\ Height \in Int
  BY HeightType
<1>3. Height' \in {n, Height}
  BY <1>1 DEF Replaced
<1> QED
  BY <1>2, <1>3

LEMMA TipStep ==
  ASSUME "mine" \notin MidPoll, BookInv, TipInv, [Next]_vars
  PROVE  TipInv'
<1>1. poll \in Polls /\ Height \in 1..MaxHeight /\ poll.tip \in 1..MaxHeight /\ LedgerTypeOK
  BY PollIs DEF BookInv, ChainInv
<1>2. CASE ChainMoves
  <2>1. poll' = [poll EXCEPT !.calm = FALSE]
    BY <1>2 DEF ChainMoves
  <2>2. poll'.phase = poll.phase /\ poll'.tip = poll.tip
    BY <1>1, <2>1 DEF Polls
  <2>3. CASE May("mine") /\ Mine
    BY <2>2, <2>3 DEF May, TipInv
  <2>4. CASE Reorg
    <3>1. Height' <= Height
      BY <1>1, <2>4, ReorgIsNoHigher
    <3>2. Height' \in 0..MaxHeight /\ MaxHeight \in Nat
      <4>1. LedgerTypeOK'
        BY <1>1, <2>4, ReorgDoes
      <4> QED
        BY <4>1, LedgerAssumption DEF LedgerTypeOK, Height
    <3> QED
      BY <1>1, <2>2, <3>1, <3>2 DEF TipInv
  <2>5. CASE \E x \in Txs : Broadcast(x) \/ Evict(x)
    BY <2>2, <2>5 DEF Broadcast, Evict, Height, TipInv
  <2> QED
    BY <1>2, <2>3, <2>4, <2>5 DEF ChainMoves
<1>3. CASE UNCHANGED ledger
  <2>1. Height' = Height
    BY <1>3 DEF ledger, Height
  <2>2. CASE PollBegins
    <3>1. poll' = [NoPoll(Height) EXCEPT !.phase = "offers", !.offer = offer, !.calm = TRUE]
      BY <2>2 DEF PollBegins
    <3>2. poll'.tip = Height
      BY ZenonT(40), <1>1, <3>1, NoPollIs DEF Polls
    <3> QED
      BY <1>1, <2>1, <3>2 DEF TipInv
  <2>3. CASE poll' \in Polls /\ poll'.tip = poll.tip /\ (poll.phase = "idle" => poll'.phase = "idle")
    BY <2>1, <2>3 DEF TipInv
  <2>4. CASE PollOffers \/ PollOpens \/ PollCopies
    <3>1. poll.phase # "idle" /\ poll'.tip = poll.tip
      BY <1>1, <2>4 DEF PollOffers, PollOpens, PollCopies, Polls
    <3> QED
      BY <2>1, <3>1 DEF TipInv
  <2>5. CASE PollLoans \/ PollFails \/ Restart
    <3>1. poll' = NoPoll(poll.tip)
      BY <2>5 DEF PollLoans, PollFails, Restart
    <3> QED
      BY <1>1, <3>1, NoPollIs DEF TipInv
  <2>6. CASE \E coin \in Coins : Publish(coin) \/ Register(coin)
    <3>1. poll' = [poll EXCEPT !.calm = FALSE]
      BY <2>6 DEF Publish, Register
    <3> QED
      BY <1>1, <2>1, <3>1 DEF Polls, TipInv
  <2>7. CASE UNCHANGED vars
    BY <2>1, <2>7 DEF vars, TipInv
  <2>8. CASE ChainMoves
    BY <1>2, <2>8
  <2> QED
    BY <2>2, <2>4, <2>5, <2>6, <2>7, <2>8 DEF Next
<1> QED
  BY <1>2, <1>3, OnlyChainMoves

LEMMA TipHolds ==
  ASSUME "mine" \notin MidPoll
  PROVE  Spec => []TipInv
<1>1. Init => TipInv
  <2> SUFFICES ASSUME Init PROVE TipInv
    OBVIOUS
  <2>1. poll = NoPoll(1) /\ 1 \in 1..MaxHeight
    BY LedgerAssumption DEF Init
  <2> QED
    BY <2>1, NoPollIs DEF TipInv
<1>2. BookInv /\ TipInv /\ [Next]_vars => TipInv'
  BY TipStep
<1> QED
  BY <1>1, <1>2, BookHolds, PTL DEF Spec

(* What a poll looks for, it looks for low enough: no step it asks about   *)
(* is in the chain deeper than Below under where it was last seen, nor     *)
(* under the tip if it was last seen in the mempool.                       *)
WithinReach ==
    /\ poll.phase = "offers" /\ poll.offer # None /\ poll.offer.line # <<>>
         => Near(poll.offer.line[1], poll.tip)
    /\ poll.phase = "loans"
         => \A c \in VaultCoins :
              poll.loans[c] # None => LoanIsNear(poll.loans[c], poll.tip)

LoanGhosts ==
    \A c \in VaultCoins :
      loans[c] # None /\ loans[c].state # "GHOST"
      /\ loans'[c] # None /\ loans'[c].state = "GHOST"
      => ~Known(loans[c].opening.tx)
OfferGhosts ==
    offer # None /\ offer.status # "ghost" /\ offer' # None /\ offer'.status = "ghost"
    => \E o \in Judged : ~Known(o.line[1].tx)

(* What a restart finds on disk is no ghost the book does not have, and    *)
(* the copy a poll judges is the offer unless another was published since. *)
DiskInv ==
    /\ poll.phase = "offers" =>
         poll.offer = offer \/ (offer # None /\ offer.status # "ghost")
    /\ disk[1] # None /\ disk[1].status = "ghost" => offer # None /\ offer.status = "ghost"
    /\ \A c \in VaultCoins : disk[2][c] # None => loans[c] = disk[2][c]

(* The file is the book, and no poll is judging the offer. *)
LEMMA WholeDisk ==
  ASSUME disk'[1] = offer', disk'[2] = loans',
         poll'.phase = "offers" => poll'.offer = offer'
  PROVE  DiskInv'
BY DEF DiskInv

(* What the poll leaves of an offer it had a copy of. *)
LEMMA OfferPolledIs ==
  ASSUME BookInv, PollOffers
  PROVE  LET was == poll.offer IN
         /\ was = None => offer' = offer
         /\ was # None => \E pool \in Pools :
              LET now == ReconcileOffer(was, poll.tip, pool) IN
              /\ GoodOffer(was) /\ GoodOffer(now) /\ now # None
              /\ offer' = IF now = was THEN offer ELSE now
              /\ was.line = <<>> => now = was
<1> DEFINE was == poll.offer
<1>1. PICK pool \in Pools :
        LET now == IF was = None THEN None ELSE ReconcileOffer(was, poll.tip, pool)
        IN  offer' = IF now = was THEN offer ELSE now
  BY DEF PollOffers
<1>2. CASE was = None
  BY <1>1, <1>2
<1>3. CASE was # None
  <2> DEFINE tip == poll.tip
             now == ReconcileOffer(was, tip, pool)
  <2>1. /\ GoodOffer(was) /\ tip \in 1..MaxHeight /\ pool \in {mempool, {}}
        /\ kind \in Kinds /\ ChainInv /\ ForkInv
    BY <1>3, PollIs DEF BookInv, OfferInv, Pools
  <2>2. offer' = IF now = was THEN offer ELSE now
    BY <1>1, <1>3
  <2> HIDE DEF was, tip
  <2>3. GoodOffer(now)
    BY <2>1, ReconcileOfferIs
  <2>4. now # None
    BY <2>3, RecordAssumption DEF GoodOffer
  <2>5. ASSUME was.line = <<>> PROVE now = was
    <3>1. KeptOf(was.line, tip, pool) = <<>>
      BY <2>5 DEF KeptOf
    <3>2. now = [was EXCEPT !.line = <<>>, !.status = "ghost"]
      BY <3>1 DEF ReconcileOffer, OfferWith, Followed
    <3>3. was \in OfferRecords /\ was.status = "ghost"
      BY <2>1, <2>5 DEF GoodOffer
    <3> HIDE DEF now
    <3> QED
      BY <2>5, <3>2, <3>3 DEF OfferRecords
  <2> HIDE DEF now
  <2> QED
    BY <1>3, <2>1, <2>2, <2>3, <2>4, <2>5 DEF was, tip, now
<1> QED
  BY <1>2, <1>3

LEMMA DiskStep ==
  ASSUME BookInv, DiskInv, [Next]_vars
  PROVE  DiskInv'
<1>1. poll \in Polls /\ poll.tip \in 1..MaxHeight /\ LoansInv(loans) /\ OfferInv(offer)
  BY PollIs DEF BookInv
<1>2. CASE UNCHANGED vars
  BY <1>2 DEF vars, book, DiskInv
<1>3. CASE ChainMoves
  <2>1. /\ poll' = [poll EXCEPT !.calm = FALSE] /\ offer' = offer /\ loans' = loans
        /\ disk' = disk
    BY <1>3 DEF ChainMoves, book
  <2>2. poll'.phase = poll.phase /\ poll'.offer = poll.offer
    BY <1>1, <2>1 DEF Polls
  <2> QED
    BY <2>1, <2>2 DEF DiskInv
<1>4. CASE PollBegins
  <2>1. /\ poll' = [NoPoll(Height) EXCEPT !.phase = "offers", !.offer = offer, !.calm = TRUE]
        /\ loans' = loans /\ offer' = offer /\ disk' = disk
    BY <1>4 DEF PollBegins, book
  <2>2. poll'.offer = offer
    <3>1. NoPoll(Height) \in Polls
      BY PollIs, NoPollIs
    <3> QED
      BY <2>1, <3>1 DEF Polls
  <2> QED
    BY <2>1, <2>2 DEF DiskInv
<1>5. CASE PollOffers
  <2>1. poll'.phase = "open"
    BY <1>1, <1>5 DEF PollOffers, Polls
  <2>2. loans' = loans /\ disk' = disk /\ poll.phase = "offers"
    BY <1>5 DEF PollOffers, InBatch
  <2>3. ASSUME offer # None, offer.status = "ghost"
        PROVE  offer' # None /\ offer'.status = "ghost"
    <3>1. poll.offer = offer
      BY <2>2, <2>3 DEF DiskInv
    <3>2. offer.line = <<>>
      BY <1>1, <2>3 DEF OfferInv, GoodOffer
    <3>3. offer' = offer
      BY <1>5, <2>3, <3>1, <3>2, OfferPolledIs
    <3> QED
      BY <2>3, <3>3
  <2> QED
    BY <2>1, <2>2, <2>3 DEF DiskInv
<1>6. CASE PollOpens
  <2>1. PICK s \in poll.opened : /\ loans' = Open(loans, s, FALSE)
                                 /\ poll' = [poll EXCEPT !.opened = @ \ {s}]
    BY <1>6 DEF PollOpens
  <2>2. offer' = offer /\ disk' = disk /\ poll'.phase = "open"
    BY <1>1, <1>6, <2>1 DEF PollOpens, Polls
  <2>3. \A c \in VaultCoins : loans[c] # None => loans'[c] = loans[c]
    <3>1. /\ GoodStep(s, VaultCoins) /\ s.coin \in VaultCoins /\ s.event = "open"
          /\ kind \in Kinds /\ LoansInv(loans)
      BY DEF BookInv, GoodOpening
    <3> DEFINE no == FALSE
    <3>2. no \in BOOLEAN /\ loans' = Open(loans, s, no) /\ ~no
      BY <2>1
    <3> HIDE DEF no
    <3> QED
      BY <3>1, <3>2, OpenIs
  <2> QED
    BY <2>2, <2>3 DEF DiskInv
<1>7. CASE PollCopies
  <2>1. /\ poll' = [poll EXCEPT !.phase = "loans", !.loans = loans]
        /\ loans' = loans /\ offer' = offer /\ disk' = disk
    BY <1>7 DEF PollCopies, book
  <2>2. poll'.phase = "loans"
    BY <1>1, <2>1 DEF Polls
  <2> QED
    BY <2>1, <2>2 DEF DiskInv
<1>8. CASE PollLoans \/ PollFails
  <2>1. poll' = NoPoll(poll.tip) /\ disk' = <<offer', loans'>>
    BY <1>8 DEF PollLoans, PollFails, book
  <2>2. poll'.phase = "idle"
    BY <1>1, <2>1, NoPollIs
  <2> QED
    BY <2>1, <2>2, WholeDisk
<1>9. ASSUME NEW coin \in Coins, Publish(coin)
      PROVE  DiskInv'
  <2>1. /\ poll' = [poll EXCEPT !.calm = FALSE] /\ disk' = <<offer', loans>> /\ loans' = loans
    BY <1>9 DEF Publish
  <2>2. offer' # None /\ offer'.status # "ghost"
    BY <1>9, PublishStays
  <2> QED
    BY <2>1, <2>2 DEF DiskInv
<1>10. ASSUME NEW coin \in Coins, Register(coin)
       PROVE  DiskInv'
  <2>1. /\ poll' = [poll EXCEPT !.calm = FALSE] /\ disk' = <<offer, loans'>> /\ offer' = offer
    BY <1>10 DEF Register
  <2>2. poll'.phase = poll.phase /\ poll'.offer = poll.offer
    BY <1>1, <2>1 DEF Polls
  <2> QED
    BY <2>1, <2>2 DEF DiskInv
<1>11. CASE Restart
  <2>1. poll' = NoPoll(poll.tip) /\ offer' = disk[1] /\ loans' = disk[2] /\ disk' = disk
    BY <1>11 DEF Restart
  <2>2. poll'.phase = "idle"
    BY <1>1, <2>1, NoPollIs
  <2> QED
    BY <2>1, <2>2, WholeDisk
<1> QED
  BY <1>2, <1>3, <1>4, <1>5, <1>6, <1>7, <1>8, <1>9, <1>10, <1>11 DEF Next

LEMMA DiskHolds == Spec => []DiskInv
<1>1. Init => DiskInv
  <2> SUFFICES ASSUME Init PROVE DiskInv
    OBVIOUS
  <2>1. disk[1] = offer /\ disk[2] = loans /\ offer = None /\ poll = NoPoll(1)
    BY DEF Init, book
  <2>2. poll.phase = "idle"
    <3>1. 1 \in 1..MaxHeight
      BY LedgerAssumption
    <3> QED
      BY <2>1, <3>1, NoPollIs
  <2> QED
    BY <2>1, <2>2 DEF DiskInv
<1>2. BookInv /\ DiskInv /\ [Next]_vars => DiskInv'
  BY DiskStep
<1> QED
  BY <1>1, <1>2, BookHolds, PTL DEF Spec

LEMMA LoanGhostsAre ==
  ASSUME ~PoolMayFail, BookInv, DiskInv, TipInv, WithinReach, [Next]_vars
  PROVE  LoanGhosts
<1> SUFFICES ASSUME NEW c \in VaultCoins, loans[c] # None, loans[c].state # "GHOST",
                    loans'[c] # None, loans'[c].state = "GHOST"
             PROVE  ~Known(loans[c].opening.tx)
  BY DEF LoanGhosts
<1>1. /\ kind \in Kinds /\ ChainInv /\ ForkInv /\ LoansInv(loans)
      /\ poll.tip \in 1..MaxHeight /\ Height \in 1..MaxHeight
  BY PollIs DEF BookInv
<1>2. CASE loans' = loans
  BY <1>2
<1>3. CASE PollOpens
  <2>1. PICK s \in poll.opened : loans' = Open(loans, s, FALSE)
    BY <1>3 DEF PollOpens
  <2>2. GoodStep(s, VaultCoins) /\ s.coin \in VaultCoins /\ s.event = "open"
    BY DEF BookInv, GoodOpening
  <2> DEFINE no == FALSE
  <2>3. no \in BOOLEAN /\ loans' = Open(loans, s, no)
    BY <2>1
  <2> HIDE DEF no
  <2>4. loans'[c].state = loans[c].state
    BY <1>1, <2>2, <2>3, OpenIs
  <2> QED
    BY <2>4
<1>4. CASE PollLoans
  <2> DEFINE was == poll.loans[c]
             tip == poll.tip
  <2>1. PICK pool \in Pools : loans'[c] = Polled(c, pool)
    BY <1>4, PollLoansDoes
  <2> DEFINE now == ReconcileLoan(was, tip, pool)
  <2>2. pool = mempool /\ pool \in {mempool, {}}
    BY DEF Pools
  <2>3. was # None /\ now # None /\ loans'[c] = now
    <3>1. loans'[c] # loans[c]
      OBVIOUS
    <3> QED
      BY <2>1, <2>2, <3>1, PolledIs
  <2>4. tip = Height /\ poll.phase = "loans"
    BY <1>1, <1>4 DEF PollLoans, TipInv
  <2>5. GoodLoan(c, was) /\ LoanIsNear(was, tip) /\ tip \in 1..MaxHeight
    BY <1>1, <2>3, <2>4 DEF LoansInv, WithinReach, BookInv
  <2>6. now.state = "GHOST"
    BY <2>3
  <2> HIDE DEF was, tip
  <2>7. GoodLoan(c, now) /\ (now.line = <<>> => ~Known(was.opening.tx))
    <3> HIDE DEF now
    <3>1. now = ReconcileLoan(was, tip, pool)
      BY DEF now
    <3> QED
      BY <1>1, <2>2, <2>4, <2>5, <3>1, ReconcileLoanIs
  <2>8. ~Known(was.opening.tx)
    BY <2>6, <2>7 DEF GoodLoan
  <2>9. was.opening.tx = Maker(c) /\ loans[c].opening.tx = Maker(c)
    <3>1. GoodLoan(c, loans[c]) /\ c # None
      BY <1>1, CoinsAre DEF LoansInv
    <3> QED
      BY <2>5, <3>1 DEF GoodLoan, GoodStep
  <2>10. was.opening.tx = loans[c].opening.tx
    BY <2>9
  <2> HIDE DEF now
  <2> QED
    BY <2>8, <2>10
<1>5. ASSUME NEW coin \in Coins, Register(coin)
      PROVE  loans'[c].state = loans[c].state
  <2> DEFINE s == Named(coin)
             yes == TRUE
  <2>1. /\ loans' = Open(loans, s, yes) /\ yes \in BOOLEAN
        /\ GoodStep(s, VaultCoins) /\ s.coin \in VaultCoins /\ s.event = "open"
    BY <1>5, RegisterStays
  <2> HIDE DEF s, yes
  <2> QED
    BY <1>1, <2>1, OpenIs
<1>6. CASE Restart
  <2>1. loans' = disk[2]
    BY <1>6 DEF Restart
  <2>2. loans'[c] = loans[c]
    BY <2>1 DEF DiskInv
  <2> QED
    BY <2>2
<1>7. CASE ChainMoves \/ PollBegins \/ PollOffers \/ PollCopies \/ PollFails
           \/ (\E coin \in Coins : Publish(coin)) \/ UNCHANGED vars
  <2>1. PollOffers => loans' = loans
    BY DEF PollOffers
  <2>2. ChainMoves \/ PollBegins \/ PollCopies \/ PollFails \/ UNCHANGED vars => loans' = loans
    BY DEF ChainMoves, PollBegins, PollCopies, PollFails, vars, book
  <2>3. (\E coin \in Coins : Publish(coin)) => loans' = loans
    BY DEF Publish
  <2>4. loans' = loans
    BY ONLY <1>7, <2>1, <2>2, <2>3
  <2> QED
    BY <2>4
<1> QED
  BY <1>3, <1>4, <1>5, <1>6, <1>7 DEF Next

LEMMA OfferGhostsAre ==
  ASSUME ~PoolMayFail, BookInv, DiskInv, TipInv, WithinReach, [Next]_vars
  PROVE  OfferGhosts
<1> SUFFICES ASSUME offer # None, offer.status # "ghost", offer' # None, offer'.status = "ghost"
             PROVE  \E o \in Judged : ~Known(o.line[1].tx)
  BY DEF OfferGhosts
<1>1. /\ kind \in Kinds /\ ChainInv /\ ForkInv
      /\ poll.tip \in 1..MaxHeight /\ Height \in 1..MaxHeight
  BY PollIs DEF BookInv
<1>2. CASE PollOffers
  <2> DEFINE was == poll.offer
             tip == poll.tip
  <2>1. was # None
    BY <1>2, OfferPolledIs
  <2>2. PICK pool \in Pools :
          LET now == ReconcileOffer(was, tip, pool) IN
          /\ GoodOffer(was) /\ GoodOffer(now) /\ now # None
          /\ offer' = IF now = was THEN offer ELSE now
          /\ was.line = <<>> => now = was
    BY <1>2, <2>1, OfferPolledIs
  <2> DEFINE now == ReconcileOffer(was, tip, pool)
  <2>3. offer' = now /\ was.line # <<>>
    BY <2>2
  <2>4. pool = mempool /\ pool \in {mempool, {}}
    BY DEF Pools
  <2>5. tip = Height /\ tip \in 1..MaxHeight /\ poll.phase = "offers"
    BY <1>1, <1>2 DEF PollOffers, TipInv
  <2>6. Near(was.line[1], tip) /\ was \in Judged
    BY <2>1, <2>3, <2>5 DEF WithinReach, Judged
  <2>7. GoodOffer(was) /\ GoodOffer(now)
    BY <2>2
  <2> HIDE DEF was, tip
  <2>8. now.line = <<>> => ~Known(was.line[1].tx)
    <3> HIDE DEF now
    <3>1. now = ReconcileOffer(was, tip, pool)
      BY DEF now
    <3> QED
      BY <1>1, <2>3, <2>4, <2>5, <2>6, <2>7, <3>1, ReconcileOfferIs
  <2>9. now.line = <<>>
    BY <2>3, <2>7 DEF GoodOffer
  <2> QED
    BY <2>6, <2>8, <2>9
<1>3. ASSUME NEW coin \in Coins, Publish(coin)
      PROVE  FALSE
  BY <1>3, PublishStays
<1>4. CASE Restart
  BY <1>4 DEF Restart, DiskInv
<1>5. CASE ChainMoves \/ PollBegins \/ PollOpens \/ PollCopies \/ PollLoans \/ PollFails
           \/ (\E coin \in Coins : Register(coin)) \/ UNCHANGED vars
  <2>1. offer' = offer
    BY <1>5 DEF ChainMoves, PollBegins, PollOpens, PollCopies, PollLoans, PollFails, Register,
                vars, book
  <2> QED
    BY <2>1
<1> QED
  BY <1>2, <1>3, <1>4, <1>5 DEF Next

(* A loan or an offer is called a ghost only when its opening or its       *)
(* funding, or that of the copy the poll judged, has left the chain and    *)
(* the mempool (reconcile_loan, reconcile_offer), whatever requests,       *)
(* restarts and reorgs come between the steps of a poll, if every step is  *)
(* looked for low enough, no new block comes inside a poll, and every      *)
(* question is answered.                                                   *)
THEOREM GhostsHaveGone ==
  ASSUME "mine" \notin MidPoll, ~PoolMayFail
  PROVE  Spec /\ []WithinReach => GhostsAreGone
<1> DEFINE Ghosts ==
             /\ \A c \in VaultCoins :
                  loans[c] # None /\ loans[c].state # "GHOST"
                  /\ loans'[c] # None /\ loans'[c].state = "GHOST"
                  => ~Known(loans[c].opening.tx)
             /\ offer # None /\ offer.status # "ghost"
                /\ offer' # None /\ offer'.status = "ghost"
                => \E o \in Judged : ~Known(o.line[1].tx)
<1>1. BookInv /\ DiskInv /\ TipInv /\ WithinReach /\ [Next]_vars => Ghosts
  BY LoanGhostsAre, OfferGhostsAre DEF LoanGhosts, OfferGhosts
<1>2. Spec /\ []WithinReach => [][Ghosts]_vars
  <2> HIDE DEF Ghosts
  <2> QED
    BY <1>1, BookHolds, DiskHolds, TipHolds, PTL DEF Spec
<1> QED
  BY <1>2 DEF GhostsAreGone

(* On a chain no higher than Below, everything is looked for low enough.   *)
LEMMA LowIsNear ==
  ASSUME Below >= MaxHeight, BookInv
  PROVE  WithinReach
<1>1. poll.tip \in 1..MaxHeight /\ Height \in 1..MaxHeight
  BY PollIs
<1>2. \A s, coins : GoodStep(s, coins) => Near(s, poll.tip)
  <2> SUFFICES ASSUME NEW s, Placed(s.tx, s.at), NEW h \in 1..Height
               PROVE  From(s.at, poll.tip) <= h
    BY DEF Near, GoodStep
  <2>1. From(s.at, poll.tip) = 1
    BY <1>1, FromType
  <2> QED
    BY <1>1, <2>1
<1>3. ASSUME poll.offer # None, poll.offer.line # <<>>
      PROVE  Near(poll.offer.line[1], poll.tip)
  <2>1. GoodLine(poll.offer.line, OfferCoins)
    BY <1>3 DEF BookInv, OfferInv, GoodOffer
  <2>2. 1 \in 1..Len(poll.offer.line)
    BY <1>3, <2>1, SeqFacts DEF GoodLine
  <2>3. GoodStep(poll.offer.line[1], OfferCoins)
    BY <2>1, <2>2 DEF GoodLine
  <2> QED
    BY <1>2, <2>3
<1>4. ASSUME NEW c \in VaultCoins, poll.loans[c] # None
      PROVE  LoanIsNear(poll.loans[c], poll.tip)
  <2>1. GoodStep(poll.loans[c].opening, VaultCoins)
    BY <1>4 DEF BookInv, LoansInv, GoodLoan
  <2> QED
    BY <1>2, <2>1 DEF LoanIsNear
<1> QED
  BY <1>3, <1>4 DEF WithinReach

(* ... so of such a chain GhostsHaveGone needs no other condition.         *)
COROLLARY GhostsOfALowChainHaveGone ==
  ASSUME "mine" \notin MidPoll, ~PoolMayFail, Below >= MaxHeight
  PROVE  Spec => GhostsAreGone
<1>1. BookInv => WithinReach
  BY LowIsNear
<1> QED
  BY <1>1, BookHolds, GhostsHaveGone, PTL

-----------------------------------------------------------------------------
(* One loan for a vault. *)

(* Where loans begin: at coins that takes made. *)
Rooted(all) == \A c \in VaultCoins : all[c] # None => kind[Maker(c)] = "take"
RootInv == Rooted(loans) /\ Rooted(disk[2]) /\ Rooted(poll.loans)

LEMMA TakesAreRoots ==
  ASSUME kind \in Kinds, NEW c \in VaultCoins, NEW line, GoodLine(line, VaultCoins),
         line # <<>> => line[1].coin = c, kind[Maker(c)] = "take"
  PROVE  \A n \in 1..Len(line) : line[n].coin # None =>
           /\ line[n].coin \in VaultCoins /\ Maker(line[n].coin) = line[n].tx
           /\ n > 1 => n - 1 \in 1..Len(line) /\ line[n - 1].coin # None
                       /\ line[n - 1].coin = Spends[line[n].tx]
           /\ n = 1 <=> kind[line[n].tx] = "take"
<1> SUFFICES ASSUME NEW n \in 1..Len(line), line[n].coin # None
             PROVE  /\ line[n].coin \in VaultCoins /\ Maker(line[n].coin) = line[n].tx
                    /\ n > 1 => n - 1 \in 1..Len(line) /\ line[n - 1].coin # None
                                /\ line[n - 1].coin = Spends[line[n].tx]
                    /\ n = 1 <=> kind[line[n].tx] = "take"
  OBVIOUS
<1>1. Len(line) \in Nat /\ line # <<>>
  BY DEF GoodLine
<1>2. GoodStep(line[n], VaultCoins) /\ line[n].tx \in Txs /\ Made(line[n].tx)
  BY DEF GoodLine, GoodStep, LineSteps
<1>3. line[n].coin \in VaultCoins /\ Maker(line[n].coin) = line[n].tx
  BY <1>2 DEF GoodStep
<1>4. ASSUME n > 1
      PROVE  /\ n - 1 \in 1..Len(line) /\ line[n - 1].coin # None
             /\ line[n - 1].coin = Spends[line[n].tx] /\ kind[line[n].tx] # "take"
  <2>1. n \in 2..Len(line) /\ n - 1 \in 1..Len(line)
    BY <1>1, <1>4
  <2>2. Linked(line, n) /\ GoodStep(line[n - 1], VaultCoins)
    BY <2>1 DEF GoodLine
  <2>3. Spends[line[n].tx] \in VaultCoins
    BY <2>2 DEF Linked, GoodStep
  <2>4. Spends[line[n].tx] \notin OfferCoins
    BY <2>3, CoinsAre
  <2>5. kind[line[n].tx] # "take"
    BY <1>2, <2>4, KindIs
  <2> QED
    BY <2>1, <2>2, <2>5 DEF Linked
<1>5. n = 1 => kind[line[n].tx] = "take"
  BY <1>1, <1>3
<1> QED
  BY <1>1, <1>3, <1>4, <1>5

(* Down two lines that share a coin, to the coins that opened them.        *)
LEMMA LinesAreApart ==
  ASSUME kind \in Kinds, NEW c \in VaultCoins, NEW d \in VaultCoins,
         NEW l, GoodLine(l, VaultCoins), l # <<>> => l[1].coin = c, kind[Maker(c)] = "take",
         NEW m, GoodLine(m, VaultCoins), m # <<>> => m[1].coin = d, kind[Maker(d)] = "take",
         NEW i \in 1..Len(l), NEW j \in 1..Len(m), l[i].coin # None, l[i].coin = m[j].coin
  PROVE  c = d
<1> DEFINE Both == {n \in 1..Len(l) : /\ l[n].coin # None
                                      /\ \E k \in 1..Len(m) : m[k].coin = l[n].coin}
           n == Lowest(Both)
<1>1. n \in Both /\ \A k \in Both : n <= k
  <2>1. Both \in SUBSET Nat /\ i \in Both
    OBVIOUS
  <2> HIDE DEF Both
  <2> QED
    BY <2>1, LowestIs
<1> HIDE DEF n
<1>2. PICK k \in 1..Len(m) : m[k].coin = l[n].coin
  BY <1>1
<1>3. /\ n \in 1..Len(l) /\ l[n].coin # None /\ m[k].coin # None
      /\ Len(l) \in Nat /\ Len(m) \in Nat
  BY <1>1, <1>2 DEF GoodLine
<1>4. /\ l[n].tx = Maker(l[n].coin)
      /\ n > 1 => n - 1 \in 1..Len(l) /\ l[n - 1].coin # None
                  /\ l[n - 1].coin = Spends[l[n].tx]
      /\ n = 1 <=> kind[l[n].tx] = "take"
  BY <1>3, TakesAreRoots
<1>5. /\ m[k].tx = Maker(m[k].coin)
      /\ k > 1 => k - 1 \in 1..Len(m) /\ m[k - 1].coin # None
                  /\ m[k - 1].coin = Spends[m[k].tx]
      /\ k = 1 <=> kind[m[k].tx] = "take"
  BY <1>3, TakesAreRoots
<1>6. l[n].tx = m[k].tx /\ (n = 1 <=> k = 1)
  BY <1>2, <1>4, <1>5
<1>7. CASE n = 1
  <2>1. l # <<>> /\ m # <<>>
    BY <1>2, <1>3
  <2> QED
    BY <1>2, <1>6, <1>7, <2>1
<1>8. CASE n > 1
  <2>1. k > 1
    BY <1>3, <1>6, <1>8
  <2>2. n - 1 \in Both
    BY <1>4, <1>5, <1>6, <1>8, <2>1
  <2> HIDE DEF Both
  <2> QED
    BY <1>1, <1>3, <2>2
<1> QED
  BY <1>3, <1>7, <1>8

LEMMA RootStep ==
  ASSUME AnyCoin = FALSE, BookInv, RootInv, [Next]_vars
  PROVE  RootInv'
<1>1. kind \in Kinds /\ LoansInv(loans) /\ kind' = kind /\ poll \in Polls
  BY OnlyChainMoves DEF BookInv
<1>2. ASSUME NEW all, \A c \in VaultCoins : all[c] = None
      PROVE  Rooted(all)
  BY <1>2 DEF Rooted
<1>3. \A tip \in 1..MaxHeight : Rooted(NoPoll(tip).loans)
  BY <1>2, NoPollIs
<1>4. /\ \A all : Rooted(all)' <=> Rooted(all)
      /\ Rooted(loans)' <=> Rooted(loans')
      /\ Rooted(disk[2])' <=> Rooted(disk'[2])
      /\ Rooted(poll.loans)' <=> Rooted(poll'.loans)
  BY <1>1 DEF Rooted
<1>5. SUFFICES Rooted(loans') /\ Rooted(disk'[2]) /\ Rooted(poll'.loans)
  BY <1>4 DEF RootInv
<1>6. poll.tip \in 1..MaxHeight /\ Height \in 1..MaxHeight
  BY PollIs
<1>7. CASE ChainMoves
  <2>1. poll' = [poll EXCEPT !.calm = FALSE] /\ loans' = loans /\ disk' = disk
    BY <1>7 DEF ChainMoves, book
  <2>2. poll'.loans = poll.loans
    BY <1>1, <2>1 DEF Polls
  <2> QED
    BY <2>1, <2>2 DEF RootInv
<1>8. CASE PollBegins
  <2>1. poll' = [NoPoll(Height) EXCEPT !.phase = "offers", !.offer = offer, !.calm = TRUE]
        /\ loans' = loans /\ disk' = disk
    BY <1>8 DEF PollBegins, book
  <2>2. poll'.loans = NoPoll(Height).loans
    BY <1>6, <2>1, NoPollIs DEF Polls
  <2> QED
    BY <1>3, <1>6, <2>1, <2>2 DEF RootInv
<1>9. CASE PollOffers
  <2>1. loans' = loans /\ disk' = disk
    BY <1>9 DEF PollOffers, InBatch
  <2>2. poll'.loans = poll.loans
    <3>1. PICK opened, calm : poll' = [poll EXCEPT !.phase = "open", !.offer = None,
                                         !.opened = opened, !.calm = calm]
      BY <1>9 DEF PollOffers
    <3> QED
      BY <1>1, <3>1 DEF Polls
  <2> QED
    BY <2>1, <2>2 DEF RootInv
<1>10. CASE PollOpens
  <2>1. PICK s \in poll.opened : /\ loans' = Open(loans, s, FALSE)
                                 /\ poll' = [poll EXCEPT !.opened = @ \ {s}]
    BY <1>10 DEF PollOpens
  <2>2. poll'.loans = poll.loans /\ disk' = disk
    BY <1>1, <1>10, <2>1 DEF PollOpens, Polls
  <2>3. GoodStep(s, VaultCoins) /\ s.coin \in VaultCoins /\ s.event = "open"
        /\ kind[Maker(s.coin)] = "take"
    <3>1. GoodOpening(s) /\ s.coin # None
      BY CoinsAre DEF BookInv, GoodOpening
    <3> QED
      BY <3>1 DEF GoodOpening, GoodStep
  <2> DEFINE no == FALSE
  <2>4. no \in BOOLEAN /\ loans' = Open(loans, s, no)
    BY <2>1
  <2> HIDE DEF no
  <2>5. \A c \in VaultCoins : loans[c] = None /\ loans'[c] # None => c = s.coin
    BY <1>1, <2>3, <2>4, OpenIs
  <2>6. Rooted(loans')
    BY <2>3, <2>5 DEF RootInv, Rooted
  <2> QED
    BY <2>2, <2>6 DEF RootInv
<1>11. CASE PollCopies
  <2>1. poll' = [poll EXCEPT !.phase = "loans", !.loans = loans]
        /\ loans' = loans /\ disk' = disk
    BY <1>11 DEF PollCopies, book
  <2>2. poll'.loans = loans
    BY <1>1, <2>1 DEF Polls
  <2> QED
    BY <2>1, <2>2 DEF RootInv
<1>12. CASE PollLoans
  <2>1. PICK pool \in {mempool, {}} : \A c \in VaultCoins : loans'[c] = Polled(c, pool)
    BY <1>12, PollLoansDoes
  <2>2. poll' = NoPoll(poll.tip) /\ disk'[2] = loans'
    BY <1>12 DEF PollLoans
  <2>3. \A c \in VaultCoins : poll.loans[c] = None => loans'[c] = loans[c]
    BY <2>1, PolledIs
  <2>4. Rooted(loans')
    BY <2>3 DEF RootInv, Rooted
  <2> QED
    BY <1>3, <1>6, <2>2, <2>4
<1>13. CASE PollFails
  <2>1. poll' = NoPoll(poll.tip) /\ loans' = loans /\ disk'[2] = loans
    BY <1>13 DEF PollFails, book
  <2> QED
    BY <1>3, <1>6, <2>1 DEF RootInv
<1>14. ASSUME NEW coin \in Coins, Publish(coin)
       PROVE  Rooted(loans') /\ Rooted(disk'[2]) /\ Rooted(poll'.loans)
  <2>1. poll' = [poll EXCEPT !.calm = FALSE] /\ loans' = loans /\ disk'[2] = loans
    BY <1>14 DEF Publish
  <2>2. poll'.loans = poll.loans
    BY <1>1, <2>1 DEF Polls
  <2> QED
    BY <2>1, <2>2 DEF RootInv
<1>15. ASSUME NEW coin \in Coins, Register(coin)
       PROVE  Rooted(loans') /\ Rooted(disk'[2]) /\ Rooted(poll'.loans)
  <2>1. poll' = [poll EXCEPT !.calm = FALSE] /\ disk'[2] = loans'
    BY <1>15 DEF Register
  <2>2. poll'.loans = poll.loans
    BY <1>1, <2>1 DEF Polls
  <2>3. \/ kind[Maker(coin)] = "take"
        \/ \E c \in VaultCoins : loans[c] # None /\ HasCoin(loans[c], coin)
    BY <1>15 DEF Register, Maker
  <2> DEFINE s == Named(coin)
             yes == TRUE
  <2>4. /\ loans' = Open(loans, s, yes) /\ yes \in BOOLEAN /\ s.coin = coin
        /\ GoodStep(s, VaultCoins) /\ s.coin \in VaultCoins /\ s.event = "open"
    BY <1>15, RegisterStays
  <2> HIDE DEF s, yes
  <2>5. \A c \in VaultCoins : loans[c] = None /\ loans'[c] # None =>
          c = coin /\ \A d \in VaultCoins : loans[d] # None => ~HasCoin(loans[d], coin)
    BY <1>1, <2>4, OpenIs
  <2>6. Rooted(loans')
    <3> SUFFICES ASSUME NEW c \in VaultCoins, loans'[c] # None
                 PROVE  kind[Maker(c)] = "take"
      BY DEF Rooted
    <3> QED
      BY <2>3, <2>5 DEF RootInv, Rooted
  <2> QED
    BY <2>1, <2>2, <2>6 DEF RootInv
<1>16. CASE Restart
  <2>1. poll' = NoPoll(poll.tip) /\ loans' = disk[2] /\ disk' = disk
    BY <1>16 DEF Restart
  <2> QED
    BY <1>3, <1>6, <2>1 DEF RootInv
<1>17. CASE UNCHANGED vars
  BY <1>17 DEF vars, book, RootInv
<1> QED
  BY <1>7, <1>8, <1>9, <1>10, <1>11, <1>12, <1>13, <1>14, <1>15, <1>16, <1>17 DEF Next

(* No two loans follow one vault (open_v2_loan), through any interleaving  *)
(* of requests, polls, crashes and reorgs, if a borrower registers only at *)
(* a coin a take made or a line has: whichever comes first, the other      *)
(* finds it.                                                               *)
THEOREM VaultsAreFollowedOnce ==
  ASSUME AnyCoin = FALSE
  PROVE  Spec => []OneLoanPerVault
<1>1. Init => RootInv
  <2> SUFFICES ASSUME Init PROVE RootInv
    OBVIOUS
  <2>1. /\ loans = [c \in VaultCoins |-> None] /\ disk[2] = loans
        /\ poll = NoPoll(1) /\ 1 \in 1..MaxHeight
    BY LedgerAssumption DEF Init, book
  <2>2. poll.loans = [c \in VaultCoins |-> None]
    BY <2>1, NoPollIs
  <2> QED
    BY <2>1, <2>2 DEF RootInv, Rooted
<1>2. BookInv /\ RootInv /\ [Next]_vars => RootInv'
  BY RootStep
<1>3. BookInv /\ RootInv => OneLoanPerVault
  <2> SUFFICES ASSUME BookInv, RootInv, NEW c \in VaultCoins, NEW d \in VaultCoins, c # d,
                      loans[c] # None, loans[d] # None,
                      NEW n \in 1..Len(loans[c].line), loans[c].line[n].coin # None,
                      NEW m \in 1..Len(loans[d].line),
                      loans[d].line[m].coin = loans[c].line[n].coin
               PROVE  FALSE
    BY DEF OneLoanPerVault, HasCoin
  <2> DEFINE l == loans[c].line
             k == loans[d].line
  <2>1. /\ kind \in Kinds /\ GoodLine(l, VaultCoins) /\ GoodLine(k, VaultCoins)
        /\ l # <<>> => l[1].coin = c
        /\ k # <<>> => k[1].coin = d
        /\ kind[Maker(c)] = "take" /\ kind[Maker(d)] = "take"
    BY DEF BookInv, LoansInv, GoodLoan, RootInv, Rooted
  <2>2. n \in 1..Len(l) /\ m \in 1..Len(k) /\ l[n].coin # None /\ l[n].coin = k[m].coin
    OBVIOUS
  <2> HIDE DEF l, k
  <2> QED
    BY <2>1, <2>2, LinesAreApart
<1> QED
  BY <1>1, <1>2, <1>3, BookHolds, PTL DEF Spec

-----------------------------------------------------------------------------
(* Lines that are the chain's. *)

OfferTrue(rec) ==
    rec # None /\ rec.line # <<>> =>
      /\ Settled(rec.line)
      /\ rec.status = "open" <=> Last(rec.line).coin # None
LoanTrue(rec) ==
    rec # None =>
      /\ rec.line # <<>> => Settled(rec.line)
      /\ rec.line = <<>> => ~Known(rec.opening.tx)

(* What a poll that nothing has disturbed has seen, and what holds from    *)
(* its end until something does.                                           *)
CalmInv ==
    poll.calm =>
      /\ poll.tip = Height
      /\ poll.phase = "offers" => poll.offer = offer
      /\ poll.phase = "loans" => poll.loans = loans
      /\ poll.phase \in {"open", "loans"} => OfferTrue(offer)
FreshInv ==
    fresh =>
      /\ poll.tip = Height /\ (poll.phase = "idle" \/ poll.calm)
      /\ poll.opened = {}
      /\ OfferTrue(offer)
      /\ \A c \in VaultCoins : LoanTrue(loans[c])

LEMMA TruthStays ==
  ASSUME UNCHANGED ledger
  PROVE  /\ Height' = Height
         /\ \A rec : OfferTrue(rec) => OfferTrue(rec)'
         /\ \A rec : LoanTrue(rec) => LoanTrue(rec)'
<1>1. chain' = chain /\ mempool' = mempool /\ Height' = Height
  BY DEF ledger, Height
<1>2. \A x : (Known(x)' <=> Known(x)) /\ (\A at : IsAt(x, at)' <=> IsAt(x, at))
  BY <1>1 DEF Known, InChain, IsAt
<1>3. \A coin : Unspent(coin)' <=> Unspent(coin)
  BY <1>2 DEF Unspent
<1>4. \A line : Settled(line)' <=> Settled(line)
  BY <1>2, <1>3 DEF Settled
<1> QED
  BY <1>1, <1>2, <1>4 DEF OfferTrue, LoanTrue

(* What a poll makes of the offer, and of a loan. *)
LEMMA OfferIsPolled ==
  ASSUME ~PoolMayFail, BookInv, PollOffers, poll.offer = offer, poll.tip = Height
  PROVE  /\ OfferTrue(offer')
         /\ OfferTrue(offer) => poll'.opened = {}
<1> DEFINE was == poll.offer
           tip == poll.tip
<1>1. PICK pool \in Pools :
        LET now == IF was = None THEN None ELSE ReconcileOffer(was, tip, pool)
        IN  /\ offer' = IF now = was THEN offer ELSE now
            /\ poll' = [poll EXCEPT !.phase = "open", !.offer = None,
                          !.opened = IF was = None THEN {} ELSE OpenedBy(was, tip, pool),
                          !.calm = @ /\ pool = mempool]
  BY DEF PollOffers
<1>2. pool = mempool /\ pool \in {mempool, {}}
  BY DEF Pools
<1> DEFINE now == ReconcileOffer(was, tip, pool)
           opened == OpenedBy(was, tip, pool)
<1>3. /\ offer' = IF was = None THEN None ELSE now
      /\ poll'.opened = IF was = None THEN {} ELSE opened
  <2>1. poll \in Polls
    BY DEF BookInv
  <2>2. offer' = IF was = None THEN None ELSE now
    BY <1>1
  <2> DEFINE all == IF was = None THEN {} ELSE opened
  <2>3. poll' = [poll EXCEPT !.phase = "open", !.offer = None, !.opened = all,
                             !.calm = poll.calm /\ pool = mempool]
    BY <1>1
  <2> HIDE DEF all
  <2>4. poll'.opened = all
    BY <2>1, <2>3 DEF Polls
  <2> QED
    BY <2>2, <2>4 DEF all
<1>4. CASE was = None
  BY <1>3, <1>4 DEF OfferTrue
<1>5. CASE was # None
  <2>1. /\ kind \in Kinds /\ ChainInv /\ ForkInv /\ GoodOffer(was)
        /\ tip \in 1..MaxHeight /\ tip = Height
    BY <1>5, PollIs DEF BookInv, OfferInv
  <2> HIDE DEF was, tip, now, opened
  <2>2. now = ReconcileOffer(was, tip, pool) /\ opened = OpenedBy(was, tip, pool)
    BY DEF now, opened
  <2>3. /\ GoodOffer(now)
        /\ now.status = "open" => Last(now.line).coin # None
        /\ now.status \in {"taken", "refunded"} => Last(now.line).coin = None
        /\ now.line # <<>> => Settled(now.line)
        /\ (was.line # <<>> => Settled(was.line)) => opened = {}
    BY <1>2, <2>1, <2>2, ReconcileOfferIs
  <2>4. now.status \in {"open", "taken", "refunded", "ghost"}
    BY <2>3 DEF GoodOffer, OfferRecords
  <2>5. OfferTrue(now)
    BY <2>3, <2>4 DEF OfferTrue, GoodOffer
  <2>6. OfferTrue(was) => opened = {}
    BY <1>5, <2>3 DEF OfferTrue
  <2> QED
    BY <1>3, <1>5, <2>5, <2>6 DEF was
<1> QED
  BY <1>4, <1>5

LEMMA LoansArePolled ==
  ASSUME ~PoolMayFail, BookInv, PollLoans, poll.loans = loans, poll.tip = Height, WithinReach
  PROVE  \A c \in VaultCoins : LoanTrue(loans'[c])
<1> SUFFICES ASSUME NEW c \in VaultCoins PROVE LoanTrue(loans'[c])
  OBVIOUS
<1>1. PICK pool \in Pools : loans'[c] = Polled(c, pool)
  BY PollLoansDoes
<1>2. pool = mempool /\ pool \in {mempool, {}}
  BY DEF Pools
<1> DEFINE was == loans[c]
           tip == poll.tip
           now == ReconcileLoan(was, tip, pool)
<1>3. CASE was = None
  <2>1. loans'[c] = None
    BY <1>1, <1>2, <1>3, PolledIs
  <2> QED
    BY <2>1 DEF LoanTrue
<1>4. CASE was # None
  <2>1. loans'[c] = now
    <3>1. loans'[c] = now \/ (now = was /\ loans'[c] = loans[c])
      BY <1>1, <1>2, <1>4, PolledIs
    <3> QED
      BY <3>1
  <2>2. /\ kind \in Kinds /\ ChainInv /\ ForkInv /\ GoodLoan(c, was)
        /\ tip \in 1..MaxHeight /\ tip = Height
    BY <1>4, PollIs DEF BookInv, LoansInv
  <2>3. LoanIsNear(was, tip)
    BY <1>4 DEF WithinReach, PollLoans
  <2> HIDE DEF was, tip, now
  <2>4. now = ReconcileLoan(was, tip, pool)
    BY DEF now
  <2>5. /\ now.opening = was.opening
        /\ now.line # <<>> => Settled(now.line)
        /\ now.line = <<>> => ~Known(was.opening.tx)
    BY <1>2, <2>2, <2>3, <2>4, ReconcileLoanIs
  <2>6. LoanTrue(now)
    BY <2>5 DEF LoanTrue
  <2> QED
    BY <2>1, <2>6
<1> QED
  BY <1>3, <1>4

LEMMA TruthStep ==
  ASSUME ~PoolMayFail, BookInv, CalmInv, FreshInv, WithinReach, [Next]_vars
  PROVE  CalmInv' /\ FreshInv'
<1>1. poll \in Polls /\ poll.tip \in 1..MaxHeight /\ Height \in 1..MaxHeight
  BY PollIs DEF BookInv
<1>2. \A tip \in 1..MaxHeight :
        /\ NoPoll(tip) \in Polls /\ NoPoll(tip).phase = "idle" /\ NoPoll(tip).tip = tip
        /\ NoPoll(tip).opened = {} /\ NoPoll(tip).calm = FALSE
  BY NoPollIs
<1>3. CASE ChainMoves \/ \E coin \in Coins : Publish(coin) \/ Register(coin)
  <2>1. poll' = [poll EXCEPT !.calm = FALSE] /\ fresh' = FALSE
    BY <1>3 DEF ChainMoves, Publish, Register
  <2>2. ~poll'.calm
    BY <1>1, <2>1 DEF Polls
  <2> QED
    BY <2>1, <2>2 DEF CalmInv, FreshInv
<1>4. CASE Restart
  <2>1. poll' = NoPoll(poll.tip) /\ fresh' = FALSE
    BY <1>4 DEF Restart
  <2> QED
    BY <1>1, <1>2, <2>1 DEF CalmInv, FreshInv
<1>5. ASSUME UNCHANGED ledger
      PROVE  /\ Height' = Height
             /\ OfferTrue(offer') => OfferTrue(offer)'
             /\ \A c \in VaultCoins : LoanTrue(loans'[c]) => LoanTrue(loans[c])'
  <2>1. \A rec : OfferTrue(rec) => OfferTrue(rec)'
    BY <1>5, TruthStays
  <2>2. \A rec : LoanTrue(rec) => LoanTrue(rec)'
    BY <1>5, TruthStays
  <2> QED
    BY <1>5, <2>1, <2>2, TruthStays
<1>6. CASE PollBegins
  <2>1. /\ poll' = [NoPoll(Height) EXCEPT !.phase = "offers", !.offer = offer, !.calm = TRUE]
        /\ UNCHANGED ledger /\ offer' = offer /\ loans' = loans /\ fresh' = fresh
    BY <1>6 DEF PollBegins, book
  <2>2. /\ poll'.phase = "offers" /\ poll'.offer = offer /\ poll'.tip = Height
        /\ poll'.opened = {} /\ poll'.calm
    BY <1>1, <1>2, <2>1 DEF Polls
  <2> QED
    BY <1>5, <2>1, <2>2 DEF CalmInv, FreshInv
<1>7. CASE PollOffers
  <2>1. /\ poll.phase = "offers" /\ UNCHANGED ledger /\ loans' = loans /\ fresh' = fresh
    BY <1>7 DEF PollOffers
  <2>2. /\ poll'.phase = "open" /\ poll'.tip = poll.tip /\ (poll'.calm <=> poll.calm)
    <3>1. PICK pool \in Pools :
            poll' = [poll EXCEPT !.phase = "open", !.offer = None,
                       !.opened = IF poll.offer = None THEN {}
                                  ELSE OpenedBy(poll.offer, poll.tip, pool),
                       !.calm = @ /\ pool = mempool]
      BY <1>7 DEF PollOffers
    <3> DEFINE opened == IF poll.offer = None THEN {}
                         ELSE OpenedBy(poll.offer, poll.tip, pool)
    <3>2. pool = mempool
      BY DEF Pools
    <3>3. poll' = [poll EXCEPT !.phase = "open", !.offer = None, !.opened = opened,
                               !.calm = poll.calm /\ pool = mempool]
      BY <3>1
    <3> HIDE DEF opened
    <3> QED
      BY <1>1, <3>2, <3>3 DEF Polls
  <2>3. poll.calm => OfferTrue(offer') /\ (OfferTrue(offer) => poll'.opened = {})
    BY <1>7, <2>1, OfferIsPolled DEF CalmInv
  <2>4. CalmInv'
    BY <1>5, <2>1, <2>2, <2>3 DEF CalmInv
  <2>5. FreshInv'
    BY <1>5, <2>1, <2>2, <2>3 DEF FreshInv
  <2> QED
    BY <2>4, <2>5
<1>8. CASE PollOpens
  <2>1. PICK s \in poll.opened : poll' = [poll EXCEPT !.opened = @ \ {s}]
    BY <1>8 DEF PollOpens
  <2>2. /\ poll.phase = "open" /\ UNCHANGED ledger /\ offer' = offer /\ fresh' = fresh
    BY <1>8 DEF PollOpens
  <2>3. poll'.phase = "open" /\ poll'.tip = poll.tip /\ (poll'.calm <=> poll.calm)
    BY <1>1, <2>1, <2>2 DEF Polls
  <2>4. ~fresh
    BY <2>1 DEF FreshInv
  <2> QED
    BY <1>5, <2>2, <2>3, <2>4 DEF CalmInv, FreshInv
<1>9. CASE PollCopies
  <2>1. /\ poll' = [poll EXCEPT !.phase = "loans", !.loans = loans] /\ poll.opened = {}
        /\ poll.phase = "open"
        /\ UNCHANGED ledger /\ offer' = offer /\ loans' = loans /\ fresh' = fresh
    BY <1>9 DEF PollCopies, book
  <2>2. /\ poll'.phase = "loans" /\ poll'.loans = loans /\ poll'.opened = {}
        /\ poll'.tip = poll.tip /\ (poll'.calm <=> poll.calm)
    BY <1>1, <2>1 DEF Polls
  <2> QED
    BY <1>5, <2>1, <2>2 DEF CalmInv, FreshInv
<1>10. CASE PollLoans
  <2>1. /\ poll.phase = "loans" /\ poll' = NoPoll(poll.tip)
        /\ UNCHANGED ledger /\ offer' = offer
    BY <1>10 DEF PollLoans
  <2>2. fresh' => poll.calm
    BY <1>10, PollLoansDoes
  <2>3. /\ poll'.phase = "idle" /\ poll'.tip = poll.tip /\ poll'.opened = {} /\ ~poll'.calm
    BY <1>1, <1>2, <2>1
  <2>4. poll.calm => /\ \A c \in VaultCoins : LoanTrue(loans'[c])
                     /\ OfferTrue(offer) /\ poll.tip = Height
    BY <1>10, <2>1, LoansArePolled DEF CalmInv
  <2> QED
    BY <1>5, <2>1, <2>2, <2>3, <2>4 DEF CalmInv, FreshInv
<1>11. CASE PollFails
  <2>1. /\ poll' = NoPoll(poll.tip)
        /\ UNCHANGED ledger /\ offer' = offer /\ loans' = loans /\ fresh' = fresh
    BY <1>11 DEF PollFails, book
  <2>2. /\ poll'.phase = "idle" /\ poll'.tip = poll.tip /\ poll'.opened = {} /\ ~poll'.calm
    BY <1>1, <1>2, <2>1
  <2> QED
    BY <1>5, <2>1, <2>2 DEF CalmInv, FreshInv
<1>12. CASE UNCHANGED vars
  <2>1. /\ poll' = poll /\ UNCHANGED ledger /\ offer' = offer /\ loans' = loans
        /\ fresh' = fresh
    BY <1>12 DEF vars, book
  <2> QED
    BY <1>5, <2>1 DEF CalmInv, FreshInv
<1> QED
  BY <1>3, <1>4, <1>6, <1>7, <1>8, <1>9, <1>10, <1>11, <1>12 DEF Next

(* A line whose end is settled is the chain's, from its beginning.         *)
LEMMA SettledIsTrue ==
  ASSUME ChainInv, NEW coins \in {OfferCoins, VaultCoins}, NEW line, GoodLine(line, coins),
         line # <<>>, Settled(line)
  PROVE  IsTrue(line)
<1>1. /\ line \in Seq(LineSteps) /\ Len(line) \in Nat /\ Len(line) \in 1..Len(line)
      /\ Last(line) = line[Len(line)]
  BY SeqFacts DEF GoodLine
<1>2. \A n \in 1..Len(line) : line[n].tx \in Txs
  BY DEF GoodLine, GoodStep, LineSteps
<1>3. \A n \in 1..Len(line) : Known(line[n].tx)
  <2> DEFINE Bad == {n \in 1..Len(line) : ~Known(line[n].tx)}
             n == Highest(Bad)
  <2> SUFFICES ASSUME Bad # {} PROVE FALSE
    OBVIOUS
  <2>1. Bad \in SUBSET Nat /\ \A k \in Bad : k <= Len(line)
    BY <1>1
  <2>2. n \in Bad /\ \A k \in Bad : k <= n
    <3> HIDE DEF Bad
    <3> QED
      BY <1>1, <2>1, HighestIs
  <2> HIDE DEF n
  <2>3. n \in 1..Len(line) /\ ~Known(line[n].tx) /\ n # Len(line)
    BY <1>1, <2>2 DEF Settled
  <2>4. n + 1 \in 2..Len(line) /\ n + 1 \in 1..Len(line) /\ (n + 1) - 1 = n
    BY <1>1, <2>3
  <2>5. Known(line[n + 1].tx)
    BY <1>1, <2>2, <2>4
  <2>6. /\ line[n].coin # None /\ Spends[line[n + 1].tx] = line[n].coin
        /\ Maker(line[n].coin) = line[n].tx
    BY <2>3, <2>4 DEF GoodLine, Linked, GoodStep
  <2>7. Known(line[n].tx)
    <3> DEFINE x == line[n + 1].tx
    <3>1. x \in Txs /\ Spends[x] # None /\ Maker(Spends[x]) = line[n].tx /\ Known(x)
      BY <1>2, <2>4, <2>5, <2>6
    <3> HIDE DEF x
    <3>2. CASE x \in mempool
      BY <3>1, <3>2 DEF ChainInv
    <3>3. CASE InChain(x)
      <4>1. PICK h \in 1..Height : x \in chain[h].txs
        BY <3>3 DEF InChain
      <4>2. PICK k \in 1..h : line[n].tx \in chain[k].txs
        BY <3>1, <4>1 DEF ChainInv
      <4>3. k \in 1..Height
        BY <4>1, <4>2, HeightType DEF ChainInv
      <4> QED
        BY <4>2, <4>3 DEF Known, InChain
    <3> QED
      BY <3>1, <3>2, <3>3 DEF Known
  <2> QED
    BY <2>3, <2>7
<1>4. \A n \in 2..Len(line) : Spends[line[n].tx] = line[n - 1].coin
  BY DEF GoodLine, Linked
<1> QED
  BY <1>3, <1>4 DEF IsTrue, Settled, IsAt

LEMMA TruthIs ==
  ASSUME BookInv, FreshInv
  PROVE  LinesAreTrue
<1> SUFFICES ASSUME fresh PROVE LinesAreTrue
  BY DEF LinesAreTrue
<1>1. ChainInv /\ \A c \in VaultCoins : LoanTrue(loans[c])
  BY DEF BookInv, FreshInv
<1>2. ASSUME NEW c \in VaultCoins, loans[c] # None
      PROVE  LET r == loans[c] IN
             IF ~Known(r.opening.tx) THEN r.state = "GHOST"
             ELSE /\ r.line # <<>> /\ r.line[1].coin = c /\ IsTrue(r.line)
                  /\ \A n \in 2..Len(r.line) : r.line[n].event = kind[r.line[n].tx]
                  /\ \A n \in 1..Len(r.line) :
                       r.line[n].coin # None => r.line[n].owes = Owes[r.line[n].coin]
  <2> DEFINE r == loans[c]
             line == r.line
  <2>1. GoodLoan(c, r) /\ LoanTrue(r) /\ r # None
    BY <1>1, <1>2 DEF BookInv, LoansInv
  <2> HIDE DEF r
  <2>2. GoodLine(line, VaultCoins) /\ (line # <<>> => line[1].coin = c)
        /\ (r.state = "GHOST" <=> line = <<>>)
    BY <2>1 DEF GoodLoan
  <2>3. line # <<>> => IsTrue(line)
    <3> SUFFICES ASSUME line # <<>> PROVE IsTrue(line)
      OBVIOUS
    <3>1. Settled(line)
      BY <2>1 DEF LoanTrue
    <3> HIDE DEF line
    <3> QED
      BY <1>1, <2>2, <3>1, SettledIsTrue
  <2>4. line # <<>> => Known(r.opening.tx)
    <3> SUFFICES ASSUME line # <<>> PROVE Known(r.opening.tx)
      OBVIOUS
    <3>1. 1 \in 1..Len(line)
      BY <2>2, SeqFacts DEF GoodLine
    <3>2. Known(line[1].tx)
      BY <2>3, <3>1 DEF IsTrue
    <3>3. line[1].tx = Maker(c) /\ r.opening.tx = Maker(c)
      <4>1. GoodStep(line[1], VaultCoins) /\ GoodStep(r.opening, VaultCoins)
            /\ r.opening.coin = c /\ line[1].coin = c /\ c # None
        BY <2>1, <2>2, <3>1, CoinsAre DEF GoodLoan, GoodLine
      <4> QED
        BY <4>1 DEF GoodStep
    <3> QED
      BY <3>2, <3>3
  <2>5. line = <<>> => ~Known(r.opening.tx)
    BY <2>1 DEF LoanTrue
  <2>6. /\ \A n \in 2..Len(line) : line[n].event = kind[line[n].tx]
        /\ \A n \in 1..Len(line) : line[n].coin # None => line[n].owes = Owes[line[n].coin]
    BY <2>2 DEF GoodLine, GoodStep, Linked
  <2> QED
    BY <2>2, <2>3, <2>4, <2>5, <2>6 DEF r
<1>3. ASSUME offer # None, offer.status # "ghost"
      PROVE  /\ IsTrue(offer.line)
             /\ offer.status = "open" <=> Last(offer.line).coin # None
  <2>1. GoodOffer(offer) /\ OfferTrue(offer)
    BY <1>3 DEF BookInv, OfferInv, FreshInv
  <2>2. offer.line # <<>> /\ GoodLine(offer.line, OfferCoins)
    BY <1>3, <2>1 DEF GoodOffer
  <2>3. Settled(offer.line) /\ (offer.status = "open" <=> Last(offer.line).coin # None)
    BY <1>3, <2>1, <2>2 DEF OfferTrue
  <2> QED
    BY <1>1, <2>2, <2>3, SettledIsTrue
<1> QED
  BY <1>2, <1>3 DEF LinesAreTrue

(* After a whole poll that nothing disturbed, and until something does,    *)
(* every line is the chain's: its steps, their order, where its end rests  *)
(* or how it closed, and what each of its coins owes (reconcile_loan,      *)
(* reconcile_offer, vault2.follow), if every question is answered and      *)
(* every step is looked for low enough.                                    *)
THEOREM FollowedIsTrue ==
  ASSUME ~PoolMayFail
  PROVE  Spec /\ []WithinReach => []LinesAreTrue
<1>1. Init => CalmInv /\ FreshInv
  <2> SUFFICES ASSUME Init PROVE CalmInv /\ FreshInv
    OBVIOUS
  <2>1. poll = NoPoll(1) /\ 1 \in 1..MaxHeight /\ fresh = FALSE
    BY LedgerAssumption DEF Init
  <2>2. poll.calm = FALSE
    BY <2>1, NoPollIs
  <2> QED
    BY <2>1, <2>2 DEF CalmInv, FreshInv
<1>2. BookInv /\ CalmInv /\ FreshInv /\ WithinReach /\ [Next]_vars => CalmInv' /\ FreshInv'
  BY TruthStep
<1>3. BookInv /\ FreshInv => LinesAreTrue
  BY TruthIs
<1> QED
  BY <1>1, <1>2, <1>3, BookHolds, PTL DEF Spec

(* ... and on a chain no higher than Below without that condition.         *)
COROLLARY FollowedOnALowChainIsTrue ==
  ASSUME ~PoolMayFail, Below >= MaxHeight
  PROVE  Spec => []LinesAreTrue
<1>1. BookInv => WithinReach
  BY LowIsNear
<1> QED
  BY <1>1, BookHolds, FollowedIsTrue, PTL
=============================================================================
