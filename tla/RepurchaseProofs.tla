-------------------------- MODULE RepurchaseProofs --------------------------
(***************************************************************************)
(* What the two parties of a repurchase are told, and what they end up     *)
(* with, for any terms they hold, any depth, any payment, any coins the    *)
(* bond's address is paid besides.                                         *)
(*                                                                         *)
(* What a party was told holds of a chain that is reorganised once, never  *)
(* as deep as the burial, or whose transactions are not replaced while     *)
(* they are back in the mempool (Shallow): two reorganisations together    *)
(* may be as deep as the burial, and then a sender can take the bond back. *)
(***************************************************************************)
EXTENDS Repurchase, NumberTheorems, SequenceTheorems, TLAPS

Shallow == MaxReorgs <= 1 \/ MaxDrops = 0

B == docs.borrower
L == docs.lender
BondOuts == tx["bond"].outs

-----------------------------------------------------------------------------
(* Small sets. *)

LEMMA MinOfTwo ==
  ASSUME NEW a \in Int, NEW b \in Int
  PROVE  /\ Min({a, b}) \in {a, b}
         /\ Min({a, b}) <= a /\ Min({a, b}) <= b
<1>1. \E x \in {a, b} : \A y \in {a, b} : x <= y
  OBVIOUS
<1> QED
  BY <1>1 DEF Min

LEMMA MinIs ==
  ASSUME NEW S \in SUBSET Nat, S # {}
  PROVE  Min(S) \in S
BY LeastExists DEF Min

LEMMA Numbers ==
  /\ Depth \in Nat /\ Depth >= 1
  /\ MaxReorgs \in Nat /\ MaxDrops \in Nat /\ Deep \in Nat /\ Deep >= Depth
  /\ Fee \in Nat /\ DustFold \in Nat
<1>1. /\ Depth \in Nat /\ Depth >= 1 /\ MaxReorgs \in Nat /\ MaxDrops \in Nat
      /\ Fee \in Nat /\ DustFold \in Nat
  <2>1. /\ Depth \in Nat \ {0} /\ MaxReorgs \in Nat /\ MaxDrops \in Nat
        /\ Fee \in Nat \ {0} /\ DustFold \in Nat
    BY RepurchaseAssumption, Zenon
  <2> QED
    BY <2>1
<1>2. ASSUME NEW a \in Nat, NEW b \in Nat, NEW c \in Nat PROVE a + b * c \in Nat /\ a + b * c >= a
  <2>1. b * c \in Nat
    OBVIOUS
  <2> DEFINE d == b * c
  <2> HIDE DEF d
  <2>2. d \in Nat
    BY <2>1 DEF d
  <2>3. a + d \in Nat /\ a + d >= a
    BY <2>2
  <2> QED
    BY <2>3 DEF d
<1>3. Depth - 1 \in Nat
  BY <1>1
<1> DEFINE b == Depth - 1
<1> HIDE DEF b
<1>4. Depth + b * MaxReorgs \in Nat /\ Depth + b * MaxReorgs >= Depth
  BY <1>1, <1>2, <1>3 DEF b
<1>5. Deep \in Nat /\ Deep >= Depth
  BY <1>4 DEF Deep, b
<1> QED
  BY <1>1, <1>5

-----------------------------------------------------------------------------
(* The transactions. *)

TxInv ==
    /\ docs = [borrower |-> docs.borrower, lender |-> docs.lender]
    /\ docs.borrower \in BorrowerDocs /\ Sane(docs.borrower)
    /\ docs.lender \in LenderDocs /\ Sane(docs.lender)
    /\ tx = [x \in Tx |-> [conf |-> tx[x].conf, ins |-> tx[x].ins, outs |-> tx[x].outs]]
    /\ \A x \in Tx : /\ tx[x].conf \in Int /\ tx[x].conf >= -1
                     /\ tx[x].conf = -1 => tx[x] = Absent
    /\ tx["bond"].ins = {} /\ tx["leg"].ins = {}
    /\ Seen("bond") => tx["bond"].outs \in Fundings(docs.lender)

LEMMA TermsAre ==
  ASSUME TxInv
  PROVE  /\ B.borrower = "borrower" /\ B.cu = "borrower_cu" /\ L.lender = "lender"
         /\ B.asset # Money /\ L.asset # Money
         /\ \A t \in {B, L} :
              /\ t.q \in Int /\ t.principal \in Int /\ t.debt \in Int /\ t.value \in Int
              /\ t.q > 0 /\ t.debt > 0 /\ Bond(t) \in Int /\ Bond(t) > 0
         /\ \A m \in Misses : m \in Int /\ Bond(L) + m >= 0
<1>1. /\ B \in BorrowerDocs /\ Sane(B) /\ L \in LenderDocs /\ Sane(L)
  BY DEF TxInv, B, L
<1>2. \A t \in {B, L} : t.q \in Int /\ t.principal \in Int /\ t.debt \in Int /\ t.value \in Int
  BY <1>1, RepurchaseAssumption
<1>3. \A t \in {B, L} : t.q > 0 /\ t.principal > 0 /\ t.principal < t.debt /\ t.debt < t.value
                        /\ t.asset # Money
  BY <1>1 DEF Sane
<1>4. \A t \in {B, L} : t.debt > 0 /\ Bond(t) \in Int /\ Bond(t) > 0
  BY <1>2, <1>3 DEF Bond
<1>5. \A m \in Misses : m \in Int /\ Bond(L) + m >= 0
  BY <1>1, RepurchaseAssumption
<1>6. B.borrower = "borrower" /\ B.cu = "borrower_cu" /\ L.lender = "lender"
  BY <1>1, RepurchaseAssumption
<1> QED
  BY <1>2, <1>3, <1>4, <1>5, <1>6

(* What the bond's transaction pays: one output or two, each of them       *)
(* something.                                                              *)
IsOut(o) == o = Out(o.to, o.asset, o.amt) /\ o.amt \in Int /\ o.amt >= 0

LEMMA FundingIs ==
  ASSUME TxInv, NEW outs \in Fundings(L)
  PROVE  /\ DOMAIN outs \in {{1}, {1, 2}}
         /\ \A n \in DOMAIN outs : IsOut(outs[n])
<1> DEFINE bond == Out(Address(L), Money, Bond(L))
           change == Out(Spk("lender"), Money, 1)
           wrong == {[bond EXCEPT !.amt = @ + m] : m \in Misses}
                      \cup {[bond EXCEPT !.asset = "another"]}
<1>1. \/ outs \in {<<bond>>, <<change, bond>>}
      \/ \E w \in wrong : outs \in {<<w>>, <<w, bond>>}
  BY Zenon DEF Fundings
<1>2. Bond(L) \in Int /\ Bond(L) > 0
  BY TermsAre
<1>3. IsOut(bond) /\ IsOut(change)
  BY <1>2 DEF Out, IsOut
<1>4. ASSUME NEW w \in wrong PROVE IsOut(w)
  <2>1. CASE \E m \in Misses : w = [bond EXCEPT !.amt = @ + m]
    <3>1. PICK m \in Misses : w = [bond EXCEPT !.amt = @ + m]
      BY <2>1
    <3>2. w = Out(Address(L), Money, Bond(L) + m)
      BY <3>1 DEF Out
    <3>3. m \in Int /\ Bond(L) + m >= 0
      BY TermsAre
    <3> QED
      BY <1>2, <3>2, <3>3 DEF Out, IsOut
  <2>2. CASE w = [bond EXCEPT !.asset = "another"]
    <3>1. w = Out(Address(L), "another", Bond(L))
      BY <2>2 DEF Out
    <3> QED
      BY <1>2, <3>1 DEF Out, IsOut
  <2> QED
    BY <2>1, <2>2
<1> HIDE DEF bond, change, wrong
<1>5. ASSUME NEW w, IsOut(w), outs \in {<<w>>, <<w, bond>>}
      PROVE  /\ DOMAIN outs \in {{1}, {1, 2}}
             /\ \A n \in DOMAIN outs : IsOut(outs[n])
  <2>1. CASE outs = <<w>>
    <3>1. DOMAIN outs = {1} /\ outs[1] = w
      BY <2>1
    <3> QED
      BY <1>5, <3>1
  <2>2. CASE outs = <<w, bond>>
    <3>1. DOMAIN outs = {1, 2} /\ outs[1] = w /\ outs[2] = bond
      BY <2>2
    <3> QED
      BY <1>3, <1>5, <3>1
  <2> QED
    BY <1>5, <2>1, <2>2
<1>6. CASE outs \in {<<bond>>, <<change, bond>>}
  <2>1. CASE outs = <<bond>>
    BY <1>3, <1>5, <2>1
  <2>2. CASE outs = <<change, bond>>
    BY <1>3, <1>5, <2>2
  <2> QED
    BY <1>6, <2>1, <2>2
<1>7. CASE \E w \in wrong : outs \in {<<w>>, <<w, bond>>}
  BY <1>4, <1>5, <1>7
<1> QED
  BY <1>1, <1>6, <1>7

LEMMA BondOutsAre ==
  ASSUME TxInv
  PROVE  /\ DOMAIN BondOuts \in {{}, {1}, {1, 2}}
         /\ DOMAIN BondOuts # {} => Seen("bond")
         /\ \A n \in DOMAIN BondOuts : IsOut(BondOuts[n])
<1>1. CASE Seen("bond")
  BY <1>1, FundingIs DEF TxInv, BondOuts, L
<1>2. CASE ~Seen("bond")
  <2>1. tx["bond"].conf = -1
    BY <1>2 DEF TxInv, Seen, Tx
  <2>2. BondOuts = <<>>
    BY <2>1 DEF TxInv, BondOuts, Absent, Tx
  <2> QED
    BY <2>2
<1> QED
  BY <1>1, <1>2

(* The output that is found is one of the unspent, and is the bond.        *)
LEMMA FundingFound ==
  ASSUME TxInv, NEW t, NEW vout \in Nat
  PROVE  LET found == VerifyFunding(t, vout) IN
         \/ found = NotFunded
         \/ found = Refused
         \/ /\ found \in Coins("bond") /\ found \in DOMAIN BondOuts /\ found > 0
            /\ IsBond(t, BondOuts[found])
<1> DEFINE there == IF vout = 0 THEN Coins("bond") ELSE {vout} \cap Coins("bond")
           bonds == {n \in there : IsBond(t, BondOuts[n])}
           found == VerifyFunding(t, vout)
<1>1. there \subseteq Coins("bond") /\ Coins("bond") \subseteq DOMAIN BondOuts
  BY DEF Coins, BondOuts
<1>2. DOMAIN BondOuts \subseteq Nat \ {0}
  BY BondOutsAre
<1>3. CASE bonds # {}
  <2>1. found = Min(bonds)
    BY <1>3 DEF VerifyFunding, BondOuts
  <2>2. bonds \subseteq Nat
    BY <1>1, <1>2
  <2>3. bonds \subseteq there /\ \A n \in bonds : IsBond(t, BondOuts[n])
    OBVIOUS
  <2> HIDE DEF bonds, there, found
  <2>4. found \in bonds
    BY <1>3, <2>1, <2>2, MinIs
  <2>5. found \in Coins("bond") /\ found \in DOMAIN BondOuts /\ IsBond(t, BondOuts[found])
    BY <1>1, <2>3, <2>4
  <2>6. found > 0
    BY <1>2, <2>5
  <2> QED
    BY <2>5, <2>6 DEF found
<1>4. CASE bonds = {}
  <2>1. found \in {NotFunded, Refused}
    BY <1>4 DEF VerifyFunding, BondOuts
  <2> QED
    BY <2>1
<1> QED
  BY <1>3, <1>4

(* The settlement's outputs: what is owed and the bond to the lender, the  *)
(* asset to the borrower, a change there may be and the fee.               *)
Change(payment) == Folded(payment - B.debt - Fee)

LEMMA OneMore ==
  ASSUME NEW T, NEW s \in Seq(T), NEW f \in T
  PROVE  /\ s \o <<f>> \in Seq(T) /\ Len(s \o <<f>>) = Len(s) + 1
         /\ \A n \in 1..Len(s) : (s \o <<f>>)[n] = s[n]
         /\ (s \o <<f>>)[Len(s) + 1] = f
BY AppendIsConcat, AppendProperties

LEMMA OutputsAre ==
  ASSUME NEW held, NEW payment,
         NEW outs, outs = Outputs(B, held, payment)
  PROVE  /\ outs[1] = Out(Spk("verifier"), "verifier", 1)
         /\ outs[2] = Out(Spk(B.lender), Money, B.debt)
         /\ outs[3] = Out(Spk(B.cu), B.asset, B.q)
         /\ outs[4] = Out(Spk(B.lender), Money, held)
         /\ \/ /\ DOMAIN outs = 1..6
               /\ outs[5] = Out(Spk("borrower"), Money, Change(payment))
               /\ outs[6] = Out(Spk("fee"), Money, payment - B.debt - Change(payment))
            \/ /\ DOMAIN outs = 1..5
               /\ outs[5] = Out(Spk("fee"), Money, payment - B.debt - Change(payment))
<1> DEFINE a == Out(Spk("verifier"), "verifier", 1)
           b == Out(Spk(B.lender), Money, B.debt)
           c == Out(Spk(B.cu), B.asset, B.q)
           d == Out(Spk(B.lender), Money, held)
           e == Out(Spk("borrower"), Money, Change(payment))
           f == Out(Spk("fee"), Money, payment - B.debt - Change(payment))
           T == {a, b, c, d, e, f}
           s == <<a, b, c, d>>
<1>1. outs = s \o (IF Change(payment) > 0 THEN <<e>> ELSE <<>>) \o <<f>>
  BY DEF Outputs, Change
<1> HIDE DEF a, b, c, d, e, f
<1>2. s \in Seq(T) /\ Len(s) = 4 /\ s[1] = a /\ s[2] = b /\ s[3] = c /\ s[4] = d
  OBVIOUS
<1>3. e \in T /\ f \in T
  OBVIOUS
<1> HIDE DEF s, T
<1>4. CASE Change(payment) > 0
  <2> DEFINE u == s \o <<e>>
  <2>1. /\ u \in Seq(T) /\ Len(u) = 4 + 1
        /\ \A n \in 1..4 : u[n] = s[n]
        /\ u[4 + 1] = e
    <3>1. s \in Seq(T)
      BY <1>2
    <3>2. /\ s \o <<e>> \in Seq(T) /\ Len(s \o <<e>>) = Len(s) + 1
          /\ \A n \in 1..Len(s) : (s \o <<e>>)[n] = s[n]
          /\ (s \o <<e>>)[Len(s) + 1] = e
      BY <3>1, <1>3, OneMore
    <3> QED
      BY <1>2, <3>2
  <2>2. outs = u \o <<f>>
    BY <1>1, <1>4
  <2> HIDE DEF u
  <2>3. Len(u) = 5 /\ u[1] = a /\ u[2] = b /\ u[3] = c /\ u[4] = d /\ u[5] = e
    BY <1>2, <2>1
  <2>4. /\ outs \in Seq(T) /\ Len(outs) = 5 + 1
        /\ \A n \in 1..5 : outs[n] = u[n]
        /\ outs[5 + 1] = f
    <3>1. u \in Seq(T)
      BY <2>1
    <3>2. /\ u \o <<f>> \in Seq(T) /\ Len(u \o <<f>>) = Len(u) + 1
          /\ \A n \in 1..Len(u) : (u \o <<f>>)[n] = u[n]
          /\ (u \o <<f>>)[Len(u) + 1] = f
      BY <3>1, <1>3, OneMore
    <3> QED
      BY <2>2, <2>3, <3>2
  <2>5. DOMAIN outs = 1..6 /\ outs[1] = a /\ outs[2] = b /\ outs[3] = c /\ outs[4] = d
        /\ outs[5] = e /\ outs[6] = f
    BY <2>3, <2>4
  <2> QED
    BY <2>5 DEF a, b, c, d, e, f
<1>5. CASE ~(Change(payment) > 0)
  <2>1. outs = (s \o <<>>) \o <<f>>
    BY <1>1, <1>5
  <2>2. outs = s \o <<f>>
    BY <1>2, <2>1, ConcatEmptySeq
  <2>3. /\ outs \in Seq(T) /\ Len(outs) = 4 + 1
        /\ \A n \in 1..4 : outs[n] = s[n]
        /\ outs[4 + 1] = f
    <3>1. s \in Seq(T)
      BY <1>2
    <3>2. /\ s \o <<f>> \in Seq(T) /\ Len(s \o <<f>>) = Len(s) + 1
          /\ \A n \in 1..Len(s) : (s \o <<f>>)[n] = s[n]
          /\ (s \o <<f>>)[Len(s) + 1] = f
      BY <3>1, <1>3, OneMore
    <3> QED
      BY <1>2, <2>2, <3>2
  <2>4. DOMAIN outs = 1..5 /\ outs[1] = a /\ outs[2] = b /\ outs[3] = c /\ outs[4] = d
        /\ outs[5] = f
    BY <1>2, <2>3
  <2> QED
    BY <2>4 DEF a, b, c, d, e, f
<1> QED
  BY <1>4, <1>5

-----------------------------------------------------------------------------
(* What a step does to the transactions: what survives it spends and pays  *)
(* what it did.                                                            *)

Survives(x) ==
    /\ Seen(x)
    /\ tx'[x] = [conf |-> tx'[x].conf, ins |-> tx[x].ins, outs |-> tx[x].outs]
    /\ tx'[x].conf \in Int /\ tx'[x].conf >= 0

Gone(x) == tx'[x] = Absent

LEMMA AbsentIs ==
  /\ Absent = [conf |-> Absent.conf, ins |-> Absent.ins, outs |-> Absent.outs]
  /\ Absent.conf = -1 /\ Absent.ins = {} /\ Absent.outs = <<>>
BY DEF Absent

LEMMA TxKept ==
  ASSUME TxInv, docs' = docs, tx' = [x \in Tx |-> tx'[x]],
         \A x \in Tx : Survives(x) \/ Gone(x) \/ tx'[x] = tx[x]
  PROVE  TxInv'
<1>1. ASSUME NEW x \in Tx
      PROVE  /\ tx'[x] = [conf |-> tx'[x].conf, ins |-> tx'[x].ins, outs |-> tx'[x].outs]
             /\ tx'[x].conf \in Int /\ tx'[x].conf >= -1
             /\ tx'[x].conf = -1 => tx'[x] = Absent
             /\ tx'[x].ins = tx[x].ins \/ tx'[x].ins = {}
             /\ tx'[x].conf >= 0 => Seen(x) /\ tx'[x].outs = tx[x].outs
  <2>1. CASE Survives(x)
    <3>1. tx'[x].ins = tx[x].ins /\ tx'[x].outs = tx[x].outs
      BY <2>1 DEF Survives
    <3> QED
      BY <2>1, <3>1 DEF Survives
  <2>2. CASE Gone(x)
    BY <2>2, AbsentIs DEF Gone
  <2>3. CASE tx'[x] = tx[x]
    <3>1. tx[x] = [conf |-> tx[x].conf, ins |-> tx[x].ins, outs |-> tx[x].outs]
      BY DEF TxInv
    <3>2. /\ tx[x].conf \in Int /\ tx[x].conf >= -1
          /\ tx[x].conf = -1 => tx[x] = Absent
      BY DEF TxInv
    <3> QED
      BY <2>3, <3>1, <3>2 DEF Seen
  <2> QED
    BY <2>1, <2>2, <2>3
<1>2. "bond" \in Tx /\ "leg" \in Tx
  BY DEF Tx
<1>3. tx' = [x \in Tx |-> [conf |-> tx'[x].conf, ins |-> tx'[x].ins, outs |-> tx'[x].outs]]
  BY <1>1
<1>4. tx'["bond"].ins = {} /\ tx'["leg"].ins = {}
  BY <1>1, <1>2 DEF TxInv
<1>5. tx'["bond"].conf >= 0 => tx'["bond"].outs \in Fundings(docs.lender)
  BY <1>1, <1>2 DEF TxInv
<1>6. /\ docs = [borrower |-> docs.borrower, lender |-> docs.lender]
      /\ docs.borrower \in BorrowerDocs /\ Sane(docs.borrower)
      /\ docs.lender \in LenderDocs /\ Sane(docs.lender)
  BY DEF TxInv
<1> QED
  BY <1>1, <1>3, <1>4, <1>5, <1>6 DEF TxInv, Seen

LEMMA MineTx ==
  ASSUME TxInv, Mine
  PROVE  /\ docs' = docs /\ tx' = [x \in Tx |-> tx'[x]]
         /\ \A x \in Tx : IF Seen(x) THEN /\ Survives(x)
                                          /\ tx'[x].conf > tx[x].conf \/ tx'[x].conf >= Depth
                          ELSE tx'[x] = tx[x]
<1>1. docs' = docs /\ tx' = [x \in Tx |-> [tx[x] EXCEPT
                                !.conf = IF @ = -1 THEN @ ELSE Min({@ + 1, Deep})]]
  BY DEF Mine
<1>2. ASSUME NEW x \in Tx
      PROVE  IF Seen(x) THEN /\ Survives(x)
                             /\ tx'[x].conf > tx[x].conf \/ tx'[x].conf >= Depth
             ELSE tx'[x] = tx[x]
  <2>1. tx[x] = [conf |-> tx[x].conf, ins |-> tx[x].ins, outs |-> tx[x].outs]
    BY DEF TxInv
  <2>2. tx[x].conf \in Int /\ tx[x].conf >= -1
    BY DEF TxInv
  <2>3. tx'[x] = [tx[x] EXCEPT !.conf = IF @ = -1 THEN @ ELSE Min({@ + 1, Deep})]
    BY <1>1
  <2>4. CASE Seen(x)
    <3> DEFINE c == Min({tx[x].conf + 1, Deep})
    <3>1. tx'[x] = [tx[x] EXCEPT !.conf = c]
      BY <2>2, <2>3, <2>4 DEF Seen
    <3>2. /\ tx[x].conf + 1 \in Int /\ Deep \in Int /\ Deep >= Depth /\ Depth \in Nat
          /\ Depth >= 1
      BY <2>2, Numbers
    <3>3. c \in {tx[x].conf + 1, Deep}
      BY <3>2, MinOfTwo
    <3> HIDE DEF c
    <3>4. tx'[x].conf = c /\ tx'[x].ins = tx[x].ins /\ tx'[x].outs = tx[x].outs
          /\ tx'[x] = [conf |-> c, ins |-> tx[x].ins, outs |-> tx[x].outs]
      BY <2>1, <3>1
    <3>5. c \in Int /\ c >= 0 /\ (c > tx[x].conf \/ c >= Depth)
      BY <2>2, <2>4, <3>2, <3>3 DEF Seen
    <3> QED
      BY <2>4, <3>4, <3>5 DEF Survives
  <2>5. CASE ~Seen(x)
    <3>1. tx[x].conf = -1
      BY <2>2, <2>5 DEF Seen
    <3> QED
      BY <2>1, <2>3, <2>5, <3>1
  <2> QED
    BY <2>4, <2>5
<1> QED
  BY <1>1, <1>2

LEMMA ReorgTx ==
  ASSUME TxInv, Reorg
  PROVE  /\ docs' = docs /\ tx' = [x \in Tx |-> tx'[x]]
         /\ reorgs < MaxReorgs /\ reorgs' = reorgs + 1
         /\ \A x \in Tx : /\ Survives(x) \/ Gone(x)
                          /\ Seen(x) /\ x # "forfeit" =>
                               Survives(x) /\ tx'[x].conf > tx[x].conf - Depth
<1>1. /\ docs' = docs /\ reorgs < MaxReorgs /\ reorgs' = reorgs + 1
      /\ \E d \in 1..(Depth - 1) :
           tx' = [x \in Tx |->
                     IF tx[x].conf = -1 THEN tx[x]
                     ELSE IF tx[x].conf > d \/ Final(x, height - d)
                     THEN [tx[x] EXCEPT !.conf = IF @ > d THEN @ - d ELSE 0]
                     ELSE Absent]
  BY DEF Reorg
<1>2. PICK d \in 1..(Depth - 1) :
           tx' = [x \in Tx |->
                     IF tx[x].conf = -1 THEN tx[x]
                     ELSE IF tx[x].conf > d \/ Final(x, height - d)
                     THEN [tx[x] EXCEPT !.conf = IF @ > d THEN @ - d ELSE 0]
                     ELSE Absent]
  BY <1>1
<1>3. d \in Int /\ d >= 1 /\ d < Depth /\ Depth \in Nat
  <2>1. Depth \in Nat
    BY Numbers
  <2> QED
    BY <2>1
<1>4. ASSUME NEW x \in Tx
      PROVE  /\ Survives(x) \/ Gone(x)
             /\ Seen(x) /\ x # "forfeit" =>
                  Survives(x) /\ tx'[x].conf > tx[x].conf - Depth
  <2>1. tx[x] = [conf |-> tx[x].conf, ins |-> tx[x].ins, outs |-> tx[x].outs]
    BY DEF TxInv
  <2>2. tx[x].conf \in Int /\ tx[x].conf >= -1 /\ (tx[x].conf = -1 => tx[x] = Absent)
    BY DEF TxInv
  <2>3. x # "forfeit" => Final(x, height - d)
    BY DEF Final
  <2> DEFINE c == IF tx[x].conf > d THEN tx[x].conf - d ELSE 0
  <2>4. c \in Int /\ c >= 0 /\ (Seen(x) => c > tx[x].conf - Depth)
    BY <1>3, <2>2 DEF Seen
  <2>5. CASE tx[x].conf = -1
    <3>1. tx'[x] = tx[x]
      BY <1>2, <2>5
    <3> QED
      BY <2>2, <2>5, <3>1 DEF Gone, Seen
  <2>6. CASE tx[x].conf # -1 /\ (tx[x].conf > d \/ Final(x, height - d))
    <3>1. tx'[x] = [tx[x] EXCEPT !.conf = c]
      BY <1>2, <2>6
    <3> HIDE DEF c
    <3>2. tx'[x].conf = c /\ tx'[x] = [conf |-> c, ins |-> tx[x].ins, outs |-> tx[x].outs]
      BY <2>1, <3>1
    <3>3. Seen(x)
      BY <2>2, <2>6 DEF Seen
    <3> QED
      BY <2>4, <3>2, <3>3 DEF Survives
  <2>7. CASE tx[x].conf # -1 /\ ~(tx[x].conf > d \/ Final(x, height - d))
    <3>1. tx'[x] = Absent
      BY <1>2, <2>7
    <3>2. x = "forfeit"
      BY <2>3, <2>7
    <3> QED
      BY <3>1, <3>2 DEF Gone
  <2> QED
    BY <2>5, <2>6, <2>7
<1> QED
  BY <1>1, <1>2, <1>4

(* Without takes what spends from the set with it, and leaves the rest.    *)
LEMMA WithoutTx ==
  ASSUME TxInv, NEW S, tx' = Without(S)
  PROVE  /\ tx' = [x \in Tx |-> tx'[x]]
         /\ \A x \in Tx : /\ Gone(x) \/ tx'[x] = tx[x]
                          /\ x \in S \/ (\E c \in tx[x].ins : c[1] \in S) => Gone(x)
                          /\ ~(x \in S \/ \E c \in tx[x].ins : c[1] \in S) => tx'[x] = tx[x]
BY DEF Without, Gone

LEMMA SendTx ==
  ASSUME TxInv, NEW x \in Tx, NEW ins, NEW outs, Send(x, ins, outs)
  PROVE  /\ tx' = [y \in Tx |-> tx'[y]]
         /\ \A y \in Tx : y # x => tx'[y] = tx[y]
         /\ tx'[x] = [conf |-> 0, ins |-> ins, outs |-> outs]
BY DEF Send, TxInv

LEMMA TxSent ==
  ASSUME TxInv, docs' = docs, NEW x \in Tx, NEW ins, NEW outs, Send(x, ins, outs),
         x \in {"bond", "leg"} => ins = {},
         x = "bond" => outs \in Fundings(docs.lender)
  PROVE  TxInv'
<1>1. /\ tx' = [y \in Tx |-> tx'[y]]
      /\ \A y \in Tx : y # x => tx'[y] = tx[y]
      /\ tx'[x] = [conf |-> 0, ins |-> ins, outs |-> outs]
  BY SendTx
<1>2. tx'[x].conf = 0 /\ tx'[x].ins = ins /\ tx'[x].outs = outs
  BY <1>1
<1>3. ASSUME NEW y \in Tx
      PROVE  /\ tx'[y] = [conf |-> tx'[y].conf, ins |-> tx'[y].ins, outs |-> tx'[y].outs]
             /\ tx'[y].conf \in Int /\ tx'[y].conf >= -1
             /\ tx'[y].conf = -1 => tx'[y] = Absent
  <2>1. CASE y = x
    BY <1>1, <1>2, <2>1
  <2>2. CASE y # x
    <3>1. /\ tx[y] = [conf |-> tx[y].conf, ins |-> tx[y].ins, outs |-> tx[y].outs]
          /\ tx[y].conf \in Int /\ tx[y].conf >= -1
          /\ tx[y].conf = -1 => tx[y] = Absent
      BY DEF TxInv
    <3> QED
      BY <1>1, <2>2, <3>1
  <2> QED
    BY <2>1, <2>2
<1>4. tx' = [y \in Tx |-> [conf |-> tx'[y].conf, ins |-> tx'[y].ins, outs |-> tx'[y].outs]]
  BY <1>1, <1>3
<1>5. "bond" \in Tx /\ "leg" \in Tx
  BY DEF Tx
<1>6. tx'["bond"].ins = {} /\ tx'["leg"].ins = {}
  <2>1. tx["bond"].ins = {} /\ tx["leg"].ins = {}
    BY DEF TxInv
  <2> QED
    BY <1>1, <1>2, <1>5, <2>1
<1>7. tx'["bond"].conf >= 0 => tx'["bond"].outs \in Fundings(docs.lender)
  <2>1. tx["bond"].conf >= 0 => tx["bond"].outs \in Fundings(docs.lender)
    BY DEF TxInv, Seen
  <2> QED
    BY <1>1, <1>2, <1>5, <2>1
<1>8. /\ docs = [borrower |-> docs.borrower, lender |-> docs.lender]
      /\ docs.borrower \in BorrowerDocs /\ Sane(docs.borrower)
      /\ docs.lender \in LenderDocs /\ Sane(docs.lender)
  BY DEF TxInv
<1> QED
  BY <1>3, <1>4, <1>6, <1>7, <1>8 DEF TxInv, Seen

LEMMA TxInit ==
  ASSUME Init
  PROVE  TxInv
<1>1. /\ docs \in [borrower : {t \in BorrowerDocs : Sane(t)},
                   lender : {t \in LenderDocs : Sane(t)}]
      /\ tx = [x \in Tx |-> Absent]
  BY DEF Init
<1>2. /\ docs = [borrower |-> docs.borrower, lender |-> docs.lender]
      /\ docs.borrower \in BorrowerDocs /\ Sane(docs.borrower)
      /\ docs.lender \in LenderDocs /\ Sane(docs.lender)
  BY <1>1
<1>3. "bond" \in Tx /\ "leg" \in Tx
  BY DEF Tx
<1>4. \A x \in Tx : tx[x] = Absent /\ tx[x].conf = -1 /\ tx[x].ins = {}
  BY <1>1, AbsentIs
<1>5. tx = [x \in Tx |-> [conf |-> tx[x].conf, ins |-> tx[x].ins, outs |-> tx[x].outs]]
  BY <1>1, <1>4, AbsentIs
<1> QED
  BY <1>2, <1>3, <1>4, <1>5 DEF TxInv, Seen

LEMMA TxStep ==
  ASSUME TxInv, [Next]_vars
  PROVE  TxInv'
<1>1. CASE Mine
  <2>1. docs' = docs /\ tx' = [x \in Tx |-> tx'[x]]
        /\ \A x \in Tx : Survives(x) \/ Gone(x) \/ tx'[x] = tx[x]
    BY <1>1, MineTx
  <2> QED
    BY <2>1, TxKept
<1>2. CASE Reorg
  <2>1. docs' = docs /\ tx' = [x \in Tx |-> tx'[x]]
        /\ \A x \in Tx : Survives(x) \/ Gone(x) \/ tx'[x] = tx[x]
    BY <1>2, ReorgTx
  <2> QED
    BY <2>1, TxKept
<1>3. ASSUME NEW S, tx' = Without(S), docs' = docs PROVE TxInv'
  <2>1. tx' = [x \in Tx |-> tx'[x]] /\ \A x \in Tx : Gone(x) \/ tx'[x] = tx[x]
    BY <1>3, WithoutTx
  <2> QED
    BY <1>3, <2>1, TxKept
<1>4. ASSUME tx' = tx, docs' = docs PROVE TxInv'
  BY <1>4 DEF TxInv, Seen
<1>5. CASE Drop
  BY <1>3, <1>5 DEF Drop
<1>6. CASE Moved
  BY <1>3, <1>4, <1>6 DEF Moved
<1>7. CASE Fund
  <2>1. docs' = docs /\ \E outs \in Fundings(docs.lender) : Send("bond", {}, outs)
    BY <1>7 DEF Fund
  <2>2. PICK outs \in Fundings(docs.lender) : Send("bond", {}, outs)
    BY <2>1
  <2>3. "bond" \in Tx
    BY DEF Tx
  <2> QED
    BY <2>1, <2>2, <2>3, TxSent
<1>8. CASE Sell
  <2>1. docs' = docs /\ \E outs : Send("leg", {}, outs)
    BY <1>8 DEF Sell
  <2>2. PICK outs : Send("leg", {}, outs)
    BY <2>1
  <2>3. "leg" \in Tx
    BY DEF Tx
  <2> QED
    BY <2>1, <2>2, <2>3, TxSent
<1>9. CASE PayPrincipal
  BY <1>4, <1>9 DEF PayPrincipal
<1>10. CASE \E p \in Parties : RepoVerify(p)
  BY <1>4, <1>10 DEF RepoVerify
<1>11. CASE ComposeSettlement
  BY <1>4, <1>11 DEF ComposeSettlement
<1>12. CASE CoSign
  BY <1>4, <1>12 DEF CoSign
<1>13. CASE Attach
  <2>1. docs' = docs
        /\ Send("settle", {<<"bond", skeleton.bond>>, <<"leg", 1>>}, skeleton.outs)
    BY <1>13 DEF Attach
  <2>2. "settle" \in Tx
    BY DEF Tx
  <2> QED
    BY <2>1, <2>2, TxSent
<1>14. CASE Forfeit
  <2>1. docs' = docs /\ \E ins, outs : Send("forfeit", ins, outs)
    BY <1>14 DEF Forfeit
  <2>2. PICK ins, outs : Send("forfeit", ins, outs)
    BY <2>1
  <2>3. "forfeit" \in Tx
    BY DEF Tx
  <2> QED
    BY <2>1, <2>2, <2>3, TxSent
<1>15. CASE UNCHANGED vars
  BY <1>4, <1>15 DEF vars
<1> QED
  BY <1>1, <1>2, <1>5, <1>6, <1>7, <1>8, <1>9, <1>10, <1>11, <1>12, <1>13, <1>14, <1>15 DEF Next

-----------------------------------------------------------------------------
(* What a settlement, its document and a sweep are made of.  Only the      *)
(* lender's signature says that the terms are also the lender's.           *)

Owed(n, payment) ==
    /\ n \in DOMAIN BondOuts /\ IsBond(B, BondOuts[n])
    /\ payment \in Payments /\ payment - B.debt - Fee >= 0

Known(n) ==
    BondOuts[n].to = Address(L) /\ B.lender = L.lender /\ B.debt >= L.debt

Settles(n, payment) ==
    /\ Owed(n, payment) /\ Known(n)
    /\ tx["settle"].ins = {<<"bond", n>>, <<"leg", 1>>}
    /\ tx["settle"].outs = Outputs(B, BondOuts[n].amt, payment)

Sweeps(n) ==
    /\ n \in DOMAIN BondOuts
    /\ tx["forfeit"].ins = {<<"bond", n>>}
    /\ tx["forfeit"].outs = <<Out(Spk("borrower"), Money, Bond(B))>>

DocumentInv ==
    /\ skeleton = [signed |-> skeleton.signed, bond |-> skeleton.bond,
                   payment |-> skeleton.payment, outs |-> skeleton.outs]
    /\ skeleton.signed # {} =>
         /\ Seen("bond") /\ Seen("leg") /\ Owed(skeleton.bond, skeleton.payment)
         /\ skeleton.outs = Outputs(B, BondOuts[skeleton.bond].amt, skeleton.payment)
    /\ skeleton.signed = Parties => Known(skeleton.bond)

SettleInv ==
    /\ Seen("settle") => /\ Seen("bond") /\ Seen("leg")
                         /\ \E n, payment : Settles(n, payment)
    /\ Seen("forfeit") => Seen("bond") /\ \E n : Sweeps(n)
    /\ DocumentInv

Same(x) == Seen(x) /\ tx'[x].ins = tx[x].ins /\ tx'[x].outs = tx[x].outs

LEMMA NamesAre ==
  /\ "bond" \in Tx /\ "leg" \in Tx /\ "settle" \in Tx /\ "forfeit" \in Tx
  /\ Parties # {} /\ Parties # {"borrower"} /\ NoSkeleton.signed = {}
BY DEF Tx, Parties, NoSkeleton

LEMMA SettleKept ==
  ASSUME SettleInv, docs' = docs, skeleton' \in {skeleton, NoSkeleton},
         Seen("settle")' => Same("settle"), Seen("forfeit")' => Same("forfeit"),
         Seen("settle")' \/ Seen("forfeit")' \/ skeleton'.signed # {} =>
           Seen("bond")' /\ Same("bond"),
         Seen("settle")' \/ skeleton'.signed # {} => Seen("leg")'
  PROVE  SettleInv'
<1>1. Seen("bond")' /\ Same("bond") =>
        /\ BondOuts' = BondOuts
        /\ \A n, payment : (Owed(n, payment)' <=> Owed(n, payment)) /\ (Known(n)' <=> Known(n))
  BY DEF Same, BondOuts, Owed, Known, B, L, IsBond, Address, Bond
<1>2. Seen("settle")' => /\ Seen("bond")' /\ Seen("leg")'
                         /\ \E n, payment : Settles(n, payment)'
  <2> SUFFICES ASSUME Seen("settle")' PROVE \E n, payment : Settles(n, payment)'
    OBVIOUS
  <2>1. PICK n, payment : Settles(n, payment)
    BY DEF SettleInv, Same
  <2>2. B' = B
    BY DEF B
  <2>3. Outputs(B, BondOuts[n].amt, payment)' = Outputs(B, BondOuts[n].amt, payment)
    BY <1>1, <2>2 DEF Outputs, Folded
  <2>4. Owed(n, payment)' /\ Known(n)'
    BY <1>1, <2>1 DEF Settles
  <2>5. /\ tx'["settle"].ins = {<<"bond", n>>, <<"leg", 1>>}
        /\ tx'["settle"].outs = Outputs(B, BondOuts[n].amt, payment)
    BY <2>1 DEF Same, Settles
  <2>6. Settles(n, payment)'
    BY <2>3, <2>4, <2>5 DEF Settles
  <2> QED
    BY <2>6
<1>3. Seen("forfeit")' => Seen("bond")' /\ \E n : Sweeps(n)'
  <2> SUFFICES ASSUME Seen("forfeit")' PROVE \E n : Sweeps(n)'
    OBVIOUS
  <2>1. PICK n : Sweeps(n)
    BY DEF SettleInv, Same
  <2>2. Sweeps(n)'
    BY <1>1, <2>1 DEF Sweeps, Same, B, Bond
  <2> QED
    BY <2>2
<1>4. CASE skeleton' = NoSkeleton
  <2>1. DocumentInv'
    <3>1. skeleton'.signed = {}
      BY <1>4, NamesAre
    <3>2. (skeleton = [signed |-> skeleton.signed, bond |-> skeleton.bond,
                       payment |-> skeleton.payment, outs |-> skeleton.outs])'
      BY <1>4 DEF NoSkeleton
    <3>3. ~(skeleton.signed # {})' /\ ~(skeleton.signed = Parties)'
      BY <3>1, NamesAre DEF Parties
    <3> QED
      BY <3>2, <3>3 DEF DocumentInv
  <2> QED
    BY <1>2, <1>3, <2>1 DEF SettleInv
<1>5. CASE skeleton' = skeleton
  <2>1. DocumentInv'
    <3>1. CASE skeleton.signed = {}
      <4>1. skeleton'.signed # Parties
        BY <1>5, <3>1, NamesAre
      <4> QED
        BY <1>5, <3>1, <4>1, NamesAre DEF SettleInv, DocumentInv, Parties
    <3>2. CASE skeleton.signed # {}
      <4>1. Seen("bond")' /\ Same("bond") /\ Seen("leg")'
        BY <1>5, <3>2
      <4>2. /\ BondOuts' = BondOuts
            /\ Owed(skeleton.bond, skeleton.payment)' <=> Owed(skeleton.bond, skeleton.payment)
            /\ Known(skeleton.bond)' <=> Known(skeleton.bond)
        BY <1>1, <1>5, <4>1
      <4>3. Outputs(B, BondOuts[skeleton.bond].amt, skeleton.payment)'
              = Outputs(B, BondOuts[skeleton.bond].amt, skeleton.payment)
        BY <1>5, <4>2 DEF Outputs, Folded, B
      <4>4. DocumentInv
        BY DEF SettleInv
      <4> QED
        BY <1>5, <3>2, <4>1, <4>2, <4>3, <4>4 DEF DocumentInv, Parties
    <3> QED
      BY <3>1, <3>2
  <2> QED
    BY <1>2, <1>3, <2>1 DEF SettleInv
<1> QED
  BY <1>4, <1>5

(* The hypotheses of SettleKept, from what the invariant says of before.   *)
LEMMA SettleSame ==
  ASSUME TxInv, SettleInv, docs' = docs, skeleton' \in {skeleton, NoSkeleton},
         \A x \in Tx : Survives(x) \/ Gone(x) \/ tx'[x] = tx[x],
         Seen("settle")' => tx'["bond"].conf >= 0 /\ tx'["leg"].conf >= 0,
         Seen("forfeit")' => tx'["bond"].conf >= 0,
         skeleton'.signed # {} => tx'["bond"].conf >= 0 /\ tx'["leg"].conf >= 0
  PROVE  SettleInv'
<1>1. ASSUME NEW x \in Tx, tx'[x].conf >= 0 PROVE Same(x)
  <2>1. CASE Survives(x)
    BY <2>1 DEF Survives, Same
  <2>2. CASE Gone(x)
    BY <1>1, <2>2, AbsentIs DEF Gone
  <2>3. CASE tx'[x] = tx[x]
    BY <1>1, <2>3 DEF Same, Seen
  <2> QED
    BY <2>1, <2>2, <2>3
<1>2. /\ Seen("settle")' => Same("settle")
      /\ Seen("forfeit")' => Same("forfeit")
      /\ Seen("settle")' \/ Seen("forfeit")' \/ skeleton'.signed # {} =>
           Seen("bond")' /\ Same("bond")
      /\ Seen("settle")' \/ skeleton'.signed # {} => Seen("leg")'
  BY <1>1, NamesAre DEF Seen
<1> QED
  BY <1>2, SettleKept

LEMMA SettleInit ==
  ASSUME Init
  PROVE  SettleInv
<1>1. tx = [x \in Tx |-> Absent] /\ skeleton = NoSkeleton
  BY DEF Init
<1>2. ~Seen("settle") /\ ~Seen("forfeit")
  BY <1>1, NamesAre, AbsentIs DEF Seen
<1>3. DocumentInv
  BY <1>1 DEF DocumentInv, NoSkeleton, Parties
<1> QED
  BY <1>2, <1>3 DEF SettleInv

LEMMA SettleWithout ==
  ASSUME TxInv, SettleInv, NEW S, tx' = Without(S), docs' = docs,
         \/ skeleton' = NoSkeleton
         \/ skeleton' = skeleton /\ "bond" \notin S /\ "leg" \notin S
  PROVE  SettleInv'
<1>1. \A x \in Tx : /\ Gone(x) \/ tx'[x] = tx[x]
                    /\ x \in S \/ (\E c \in tx[x].ins : c[1] \in S) => Gone(x)
                    /\ ~(x \in S \/ \E c \in tx[x].ins : c[1] \in S) => tx'[x] = tx[x]
  BY WithoutTx
<1>2. /\ "bond" \notin S => tx'["bond"] = tx["bond"]
      /\ "leg" \notin S => tx'["leg"] = tx["leg"]
  BY <1>1, NamesAre DEF TxInv
<1>3. Seen("settle")' => tx'["bond"].conf >= 0 /\ tx'["leg"].conf >= 0
  <2> SUFFICES ASSUME Seen("settle")' PROVE tx'["bond"].conf >= 0 /\ tx'["leg"].conf >= 0
    OBVIOUS
  <2>1. ~Gone("settle")
    BY AbsentIs DEF Seen, Gone
  <2>2. tx'["settle"] = tx["settle"]
    BY <1>1, <2>1, NamesAre
  <2>3. Seen("settle")
    BY <2>2 DEF Seen
  <2>4. Seen("bond") /\ Seen("leg") /\ \E n, payment : Settles(n, payment)
    BY <2>3 DEF SettleInv
  <2>5. PICK n, payment : Settles(n, payment)
    BY <2>4
  <2>6. <<"bond", n>> \in tx["settle"].ins /\ <<"leg", 1>> \in tx["settle"].ins
    BY <2>5 DEF Settles
  <2>7. "bond" \notin S /\ "leg" \notin S
    BY <1>1, <2>1, <2>6, NamesAre
  <2> QED
    BY <1>2, <2>4, <2>7 DEF Seen
<1>4. Seen("forfeit")' => tx'["bond"].conf >= 0
  <2> SUFFICES ASSUME Seen("forfeit")' PROVE tx'["bond"].conf >= 0
    OBVIOUS
  <2>1. ~Gone("forfeit")
    BY AbsentIs DEF Seen, Gone
  <2>2. tx'["forfeit"] = tx["forfeit"]
    BY <1>1, <2>1, NamesAre
  <2>3. Seen("forfeit")
    BY <2>2 DEF Seen
  <2>4. Seen("bond") /\ \E n : Sweeps(n)
    BY <2>3 DEF SettleInv
  <2>5. PICK n : Sweeps(n)
    BY <2>4
  <2>6. <<"bond", n>> \in tx["forfeit"].ins
    BY <2>5 DEF Sweeps
  <2>7. "bond" \notin S
    BY <1>1, <2>1, <2>6, NamesAre
  <2> QED
    BY <1>2, <2>4, <2>7 DEF Seen
<1>5. skeleton'.signed # {} => tx'["bond"].conf >= 0 /\ tx'["leg"].conf >= 0
  BY <1>2, NamesAre DEF SettleInv, DocumentInv, Seen
<1>6. \A x \in Tx : Survives(x) \/ Gone(x) \/ tx'[x] = tx[x]
  BY <1>1
<1> QED
  BY <1>3, <1>4, <1>5, <1>6, SettleSame

(* What the borrower's own command finds it can spend is the bond.         *)
LEMMA SpendableIs ==
  ASSUME TxInv, NEW n \in Spendable(B)
  PROVE  n \in DOMAIN BondOuts /\ IsBond(B, BondOuts[n]) /\ BondOuts[n].amt = Bond(B)
<1>1. n = VerifyFunding(B, 0) /\ n > 0
  BY DEF Spendable
<1>2. n # NotFunded /\ n # Refused
  BY <1>1 DEF NotFunded, Refused
<1>3. n \in DOMAIN BondOuts /\ IsBond(B, BondOuts[n])
  <2> DEFINE found == VerifyFunding(B, 0)
  <2>1. \/ found = NotFunded \/ found = Refused
        \/ found \in DOMAIN BondOuts /\ IsBond(B, BondOuts[found])
    BY FundingFound
  <2> QED
    BY <1>1, <1>2, <2>1
<1> QED
  BY <1>3 DEF IsBond

LEMMA BondSame ==
  ASSUME docs' = docs, tx'["bond"] = tx["bond"]
  PROVE  /\ BondOuts' = BondOuts /\ B' = B /\ L' = L /\ Seen("bond")' = Seen("bond")
         /\ \A n, payment : /\ Owed(n, payment)' <=> Owed(n, payment)
                            /\ Known(n)' <=> Known(n)
                            /\ Outputs(B, BondOuts[n].amt, payment)'
                                 = Outputs(B, BondOuts[n].amt, payment)
                            /\ tx'["settle"] = tx["settle"] =>
                                 (Settles(n, payment)' <=> Settles(n, payment))
                            /\ tx'["forfeit"] = tx["forfeit"] => (Sweeps(n)' <=> Sweeps(n))
<1>1. BondOuts' = BondOuts /\ B' = B /\ L' = L /\ Seen("bond")' = Seen("bond")
  BY DEF BondOuts, B, L, Seen
<1>2. ASSUME NEW n, NEW payment
      PROVE  /\ Owed(n, payment)' <=> Owed(n, payment)
             /\ Known(n)' <=> Known(n)
             /\ Outputs(B, BondOuts[n].amt, payment)' = Outputs(B, BondOuts[n].amt, payment)
  BY <1>1 DEF Owed, Known, IsBond, Address, Bond, Outputs, Folded
<1>3. ASSUME NEW n, NEW payment, tx'["settle"] = tx["settle"]
      PROVE  Settles(n, payment)' <=> Settles(n, payment)
  BY <1>2, <1>3 DEF Settles
<1>4. ASSUME NEW n, tx'["forfeit"] = tx["forfeit"]
      PROVE  Sweeps(n)' <=> Sweeps(n)
  BY <1>1, <1>4 DEF Sweeps, Bond
<1> QED
  BY <1>1, <1>2, <1>3, <1>4

LEMMA DocumentSame ==
  ASSUME docs' = docs, tx'["bond"] = tx["bond"], Seen("leg") => Seen("leg")',
         skeleton' = skeleton, DocumentInv
  PROVE  DocumentInv'
<1>1. /\ BondOuts' = BondOuts /\ Seen("bond")' = Seen("bond")
      /\ \A n, payment : /\ Owed(n, payment)' <=> Owed(n, payment)
                         /\ Known(n)' <=> Known(n)
                         /\ Outputs(B, BondOuts[n].amt, payment)'
                              = Outputs(B, BondOuts[n].amt, payment)
  BY BondSame
<1> QED
  BY <1>1 DEF DocumentInv, Parties

LEMMA NoDocument ==
  ASSUME skeleton' = NoSkeleton
  PROVE  DocumentInv'
BY DEF DocumentInv, NoSkeleton, Parties

LEMMA SettleCompose ==
  ASSUME TxInv, SettleInv, ComposeSettlement
  PROVE  SettleInv'
<1>1. docs' = docs /\ tx' = tx /\ 1 \in Coins("leg")
  BY DEF ComposeSettlement
<1>2. PICK bond \in Spendable(B), payment \in Payments :
        /\ payment - B.debt - Fee >= 0
        /\ skeleton' =
             [signed |-> {"borrower"}, bond |-> bond, payment |-> payment,
              outs |-> Outputs(B, BondOuts[bond].amt, payment)]
  BY DEF ComposeSettlement, B, BondOuts
<1>3. bond \in DOMAIN BondOuts /\ IsBond(B, BondOuts[bond])
  BY SpendableIs
<1>4. Seen("bond")
  BY <1>3, BondOutsAre
<1>5. Seen("leg")
  <2>1. 1 \in DOMAIN tx["leg"].outs
    BY <1>1 DEF Coins
  <2>2. tx["leg"].conf # -1
    BY <2>1, NamesAre, AbsentIs DEF TxInv
  <2> QED
    BY <2>2, NamesAre DEF TxInv, Seen
<1>6. DocumentInv'
  <2>1. /\ skeleton'.signed = {"borrower"} /\ skeleton'.bond = bond
        /\ skeleton'.payment = payment
        /\ skeleton'.outs = Outputs(B, BondOuts[bond].amt, payment)
        /\ skeleton' = [signed |-> skeleton'.signed, bond |-> skeleton'.bond,
                        payment |-> skeleton'.payment, outs |-> skeleton'.outs]
    BY <1>2
  <2>2. Owed(bond, payment)
    BY <1>2, <1>3 DEF Owed
  <2>3. /\ BondOuts' = BondOuts /\ Owed(bond, payment)'
        /\ Outputs(B, BondOuts[bond].amt, payment)' = Outputs(B, BondOuts[bond].amt, payment)
    BY <1>1, <2>2, BondSame
  <2>4. Seen("bond")' /\ Seen("leg")'
    BY <1>1, <1>4, <1>5 DEF Seen
  <2> QED
    BY <2>1, <2>3, <2>4 DEF DocumentInv, Parties
<1>7. \A n, payment_ : (Settles(n, payment_)' <=> Settles(n, payment_)) /\ (Sweeps(n)' <=> Sweeps(n))
  BY <1>1, BondSame
<1>8. \A x \in Tx : Seen(x)' = Seen(x)
  BY <1>1 DEF Seen
<1> QED
  BY <1>6, <1>7, <1>8, NamesAre DEF SettleInv

LEMMA SettleCoSign ==
  ASSUME TxInv, SettleInv, CoSign
  PROVE  SettleInv'
<1>1. /\ docs' = docs /\ tx' = tx /\ skeleton.signed = {"borrower"}
      /\ InspectSettlement(L, skeleton)
      /\ skeleton' = [skeleton EXCEPT !.signed = Parties]
  BY DEF CoSign, L
<1>2. /\ skeleton = [signed |-> skeleton.signed, bond |-> skeleton.bond,
                     payment |-> skeleton.payment, outs |-> skeleton.outs]
      /\ Seen("bond") /\ Seen("leg") /\ Owed(skeleton.bond, skeleton.payment)
      /\ skeleton.outs = Outputs(B, BondOuts[skeleton.bond].amt, skeleton.payment)
  BY <1>1 DEF SettleInv, DocumentInv
<1>3. /\ skeleton'.signed = Parties /\ skeleton'.bond = skeleton.bond
      /\ skeleton'.payment = skeleton.payment /\ skeleton'.outs = skeleton.outs
      /\ skeleton' = [signed |-> skeleton'.signed, bond |-> skeleton'.bond,
                      payment |-> skeleton'.payment, outs |-> skeleton'.outs]
  BY <1>1, <1>2
<1>4. Known(skeleton.bond)
  <2>1. skeleton.outs[2] = Out(Spk(B.lender), Money, B.debt)
    BY <1>2, OutputsAre
  <2>2. /\ BondOuts[skeleton.bond].to = Address(L)
        /\ skeleton.outs[2].to = Spk(L.lender) /\ skeleton.outs[2].amt >= L.debt
    BY <1>1 DEF InspectSettlement, BondOuts
  <2>3. Spk(B.lender) = Spk(L.lender) /\ B.debt >= L.debt
    BY <2>1, <2>2 DEF Out
  <2>4. Spk(B.lender).borrower = B.lender /\ Spk(L.lender).borrower = L.lender
    BY DEF Spk
  <2> QED
    BY <2>2, <2>3, <2>4 DEF Known
<1>5. DocumentInv'
  <2>2. \A n, payment : /\ Owed(n, payment)' <=> Owed(n, payment)
                        /\ Known(n)' <=> Known(n)
                        /\ Outputs(B, BondOuts[n].amt, payment)'
                             = Outputs(B, BondOuts[n].amt, payment)
    BY <1>1, BondSame
  <2>3. Seen("bond")' /\ Seen("leg")'
    BY <1>1, <1>2 DEF Seen
  <2> QED
    BY <1>2, <1>3, <1>4, <2>2, <2>3 DEF DocumentInv, Parties
<1>7. \A n, payment : (Settles(n, payment)' <=> Settles(n, payment)) /\ (Sweeps(n)' <=> Sweeps(n))
  BY <1>1, BondSame
<1>8. \A x \in Tx : Seen(x)' = Seen(x)
  BY <1>1 DEF Seen
<1> QED
  BY <1>5, <1>7, <1>8, NamesAre DEF SettleInv

LEMMA SettleAttach ==
  ASSUME TxInv, SettleInv, Attach
  PROVE  SettleInv'
<1>1. /\ docs' = docs /\ skeleton.signed = Parties /\ skeleton' = NoSkeleton
      /\ Send("settle", {<<"bond", skeleton.bond>>, <<"leg", 1>>}, skeleton.outs)
  BY DEF Attach
<1>2. /\ Seen("bond") /\ Seen("leg") /\ Owed(skeleton.bond, skeleton.payment)
      /\ skeleton.outs = Outputs(B, BondOuts[skeleton.bond].amt, skeleton.payment)
      /\ Known(skeleton.bond)
  BY <1>1, NamesAre DEF SettleInv, DocumentInv
<1>3. /\ \A y \in Tx : y # "settle" => tx'[y] = tx[y]
      /\ tx'["settle"] = [conf |-> 0, ins |-> {<<"bond", skeleton.bond>>, <<"leg", 1>>},
                          outs |-> skeleton.outs]
  BY <1>1 DEF Send, TxInv, Tx
<1>4. tx'["bond"] = tx["bond"] /\ tx'["leg"] = tx["leg"] /\ tx'["forfeit"] = tx["forfeit"]
  BY <1>3, NamesAre
<1>5. \A n, payment : /\ Owed(n, payment)' <=> Owed(n, payment)
                      /\ Known(n)' <=> Known(n)
                      /\ Outputs(B, BondOuts[n].amt, payment)'
                           = Outputs(B, BondOuts[n].amt, payment)
                      /\ Sweeps(n)' <=> Sweeps(n)
  BY <1>1, <1>4, BondSame
<1>6. \E n, payment : Settles(n, payment)'
  <2> DEFINE n == skeleton.bond
             payment == skeleton.payment
  <2>1. Owed(n, payment) /\ Known(n) /\ skeleton.outs = Outputs(B, BondOuts[n].amt, payment)
    BY <1>2
  <2>2. tx'["settle"].ins = {<<"bond", n>>, <<"leg", 1>>} /\ tx'["settle"].outs = skeleton.outs
    BY <1>3
  <2> HIDE DEF n, payment
  <2>3. PICK m, paying : m = n /\ paying = payment
    OBVIOUS
  <2>4. /\ Owed(m, paying)' /\ Known(m)'
        /\ skeleton.outs = Outputs(B, BondOuts[m].amt, paying)'
    BY <1>5, <2>1, <2>3
  <2>5. Settles(m, paying)'
    BY <2>2, <2>3, <2>4 DEF Settles
  <2> QED
    BY <2>5
<1>7. DocumentInv'
  BY <1>1, NoDocument
<1>8. Seen("bond")' /\ Seen("leg")' /\ (Seen("forfeit")' <=> Seen("forfeit"))
  BY <1>2, <1>4 DEF Seen
<1> QED
  BY <1>5, <1>6, <1>7, <1>8 DEF SettleInv

LEMMA SettleForfeit ==
  ASSUME TxInv, SettleInv, Forfeit
  PROVE  SettleInv'
<1>1. /\ docs' = docs /\ skeleton' = skeleton
      /\ \E bond \in Spendable(B) :
           Send("forfeit", {<<"bond", bond>>},
                <<Out(Spk(B.borrower), Money, BondOuts[bond].amt)>>)
  BY DEF Forfeit, B, BondOuts
<1>2. PICK bond \in Spendable(B) :
           Send("forfeit", {<<"bond", bond>>},
                <<Out(Spk(B.borrower), Money, BondOuts[bond].amt)>>)
  BY <1>1
<1>3. bond \in DOMAIN BondOuts /\ BondOuts[bond].amt = Bond(B)
  BY SpendableIs
<1>4. Seen("bond") /\ B.borrower = "borrower"
  BY <1>3, BondOutsAre, TermsAre
<1>5. /\ \A y \in Tx : y # "forfeit" => tx'[y] = tx[y]
      /\ tx'["forfeit"] = [conf |-> 0, ins |-> {<<"bond", bond>>},
                           outs |-> <<Out(Spk("borrower"), Money, Bond(B))>>]
  BY <1>2, <1>3, <1>4 DEF Send, TxInv, Tx
<1>6. tx'["bond"] = tx["bond"] /\ tx'["leg"] = tx["leg"] /\ tx'["settle"] = tx["settle"]
  BY <1>5, NamesAre
<1>7. BondOuts' = BondOuts /\ Bond(B)' = Bond(B)
      /\ \A n, payment : Settles(n, payment)' <=> Settles(n, payment)
  BY <1>1, <1>6, BondSame DEF Bond
<1>8. Sweeps(bond)'
  BY <1>3, <1>5, <1>7 DEF Sweeps
<1>9. DocumentInv'
  <2>1. DocumentInv /\ (Seen("leg") => Seen("leg")')
    BY <1>6 DEF SettleInv, Seen
  <2> QED
    BY <1>1, <1>6, <2>1, DocumentSame
<1>10. Seen("bond")' /\ (Seen("leg")' <=> Seen("leg")) /\ (Seen("settle")' <=> Seen("settle"))
  BY <1>4, <1>6 DEF Seen
<1> QED
  BY <1>7, <1>8, <1>9, <1>10 DEF SettleInv

LEMMA SettleStep ==
  ASSUME TxInv, SettleInv, [Next]_vars
  PROVE  SettleInv'
<1>1. ASSUME docs' = docs, skeleton' = skeleton,
             \A x \in Tx : Survives(x) \/ Gone(x) \/ tx'[x] = tx[x],
             \A x \in {"bond", "leg"} : Seen(x) => tx'[x].conf >= 0,
             \A x \in {"settle", "forfeit"} : tx'[x].conf >= 0 => Seen(x)
      PROVE  SettleInv'
  <2>1. /\ Seen("settle") => tx'["bond"].conf >= 0 /\ tx'["leg"].conf >= 0
        /\ Seen("forfeit") => tx'["bond"].conf >= 0
        /\ skeleton.signed # {} => tx'["bond"].conf >= 0 /\ tx'["leg"].conf >= 0
    BY <1>1 DEF SettleInv, DocumentInv
  <2>2. (Seen("settle")' => Seen("settle")) /\ (Seen("forfeit")' => Seen("forfeit"))
    BY <1>1 DEF Seen
  <2> QED
    BY <1>1, <2>1, <2>2, SettleSame
<1>2. ASSUME docs' = docs, skeleton' = skeleton, tx' = tx PROVE SettleInv'
  BY <1>1, <1>2 DEF Seen
<1>3. CASE Mine
  <2>1. /\ docs' = docs
        /\ \A x \in Tx : IF Seen(x) THEN Survives(x) ELSE tx'[x] = tx[x]
    BY <1>3, MineTx
  <2>2. skeleton' = skeleton
    BY <1>3 DEF Mine
  <2>3. \A x \in Tx : (Seen(x) => tx'[x].conf >= 0) /\ (tx'[x].conf >= 0 => Seen(x))
    BY <2>1 DEF Survives, Seen
  <2> QED
    BY <1>1, <2>1, <2>2, <2>3, NamesAre
<1>4. CASE Reorg
  <2>1. /\ docs' = docs
        /\ \A x \in Tx : /\ Survives(x) \/ Gone(x)
                         /\ Seen(x) /\ x # "forfeit" => Survives(x)
    BY <1>4, ReorgTx
  <2>2. skeleton' = skeleton
    BY <1>4 DEF Reorg
  <2>3. \A x \in Tx : /\ Seen(x) /\ x # "forfeit" => tx'[x].conf >= 0
                      /\ tx'[x].conf >= 0 => Seen(x)
    <3> SUFFICES ASSUME NEW x \in Tx
                 PROVE  /\ Seen(x) /\ x # "forfeit" => tx'[x].conf >= 0
                        /\ tx'[x].conf >= 0 => Seen(x)
      OBVIOUS
    <3>1. CASE Survives(x)
      BY <3>1 DEF Survives
    <3>2. CASE Gone(x)
      <4>1. tx'[x].conf = -1
        BY <3>2, AbsentIs DEF Gone
      <4>2. Seen(x) /\ x # "forfeit" => Survives(x)
        BY <2>1
      <4> QED
        BY <4>1, <4>2 DEF Survives
    <3> QED
      BY <2>1, <3>1, <3>2
  <2> QED
    BY <1>1, <2>1, <2>2, <2>3, NamesAre
<1>5. CASE Drop
  <2>1. docs' = docs
        /\ \E x \in Tx : /\ tx' = Without({x})
                         /\ skeleton' = IF x \in {"bond", "leg"} THEN NoSkeleton ELSE skeleton
    BY <1>5 DEF Drop
  <2>2. PICK x \in Tx : /\ tx' = Without({x})
                        /\ skeleton' = IF x \in {"bond", "leg"} THEN NoSkeleton ELSE skeleton
    BY <2>1
  <2>3. \/ skeleton' = NoSkeleton
        \/ skeleton' = skeleton /\ "bond" \notin {x} /\ "leg" \notin {x}
    BY <2>2
  <2> QED
    BY <2>1, <2>2, <2>3, SettleWithout
<1>6. CASE Moved
  <2>1. docs' = docs /\ skeleton' = NoSkeleton /\ (tx' = Without({"settle"}) \/ tx' = tx)
    BY <1>6 DEF Moved
  <2>2. CASE tx' = Without({"settle"})
    BY <2>1, <2>2, SettleWithout
  <2>3. CASE tx' = tx
    <3>1. \A x \in Tx : Survives(x) \/ Gone(x) \/ tx'[x] = tx[x]
      BY <2>3
    <3>2. /\ Seen("settle")' => tx'["bond"].conf >= 0 /\ tx'["leg"].conf >= 0
          /\ Seen("forfeit")' => tx'["bond"].conf >= 0
          /\ skeleton'.signed = {}
      BY <2>1, <2>3, NamesAre DEF SettleInv, Seen
    <3> QED
      BY <2>1, <3>1, <3>2, SettleSame
  <2> QED
    BY <2>1, <2>2, <2>3
<1>7. CASE Fund
  <2>1. /\ docs' = docs /\ skeleton' = skeleton /\ ~Seen("bond")
        /\ \E outs : Send("bond", {}, outs)
    BY <1>7 DEF Fund
  <2>2. \A y \in Tx : y # "bond" => tx'[y] = tx[y]
    BY <2>1 DEF Send, TxInv, Tx
  <2>3. ~Seen("settle") /\ ~Seen("forfeit") /\ skeleton.signed = {} /\ DocumentInv
    BY <2>1 DEF SettleInv, DocumentInv
  <2>4. ~Seen("settle")' /\ ~Seen("forfeit")'
    BY <2>2, <2>3, NamesAre DEF Seen
  <2>5. DocumentInv'
    BY <2>1, <2>3 DEF DocumentInv, Parties
  <2> QED
    BY <2>4, <2>5 DEF SettleInv
<1>8. CASE Sell
  <2>1. /\ docs' = docs /\ skeleton' = skeleton /\ ~Seen("leg")
        /\ \E outs : Send("leg", {}, outs)
    BY <1>8 DEF Sell
  <2>2. \A y \in Tx : y # "leg" => tx'[y] = tx[y]
    BY <2>1 DEF Send, TxInv, Tx
  <2>3. ~Seen("settle") /\ skeleton.signed = {} /\ DocumentInv
    BY <2>1 DEF SettleInv, DocumentInv
  <2>4. ~Seen("settle")' /\ (Seen("forfeit")' <=> Seen("forfeit"))
    BY <2>2, <2>3, NamesAre DEF Seen
  <2>5. DocumentInv'
    BY <2>1, <2>3 DEF DocumentInv, Parties
  <2>6. /\ Seen("bond")' <=> Seen("bond")
        /\ \A n : Sweeps(n)' <=> Sweeps(n)
    BY <2>1, <2>2, NamesAre, BondSame
  <2> QED
    BY <2>4, <2>5, <2>6 DEF SettleInv
<1>9. CASE PayPrincipal
  BY <1>2, <1>9 DEF PayPrincipal
<1>10. CASE \E p \in Parties : RepoVerify(p)
  BY <1>2, <1>10 DEF RepoVerify
<1>11. CASE ComposeSettlement
  BY <1>11, SettleCompose
<1>12. CASE CoSign
  BY <1>12, SettleCoSign
<1>13. CASE Attach
  BY <1>13, SettleAttach
<1>14. CASE Forfeit
  BY <1>14, SettleForfeit
<1>15. CASE UNCHANGED vars
  BY <1>2, <1>15 DEF vars
<1> QED
  BY <1>3, <1>4, <1>5, <1>6, <1>7, <1>8, <1>9, <1>10, <1>11, <1>12, <1>13, <1>14, <1>15 DEF Next

-----------------------------------------------------------------------------
(* What was told live, what the principal was paid on and what the         *)
(* borrower waited for is still there, and as deep as the chain's next     *)
(* reorganisation, if there is one, cannot put it back in the mempool      *)
(* while transactions may be replaced there.                               *)

Floor ==
    IF MaxDrops = 0 THEN 0
    ELSE IF reorgs < MaxReorgs THEN Depth ELSE 1

BondStands(t, n) ==
    /\ Seen("bond") /\ tx["bond"].conf >= Floor
    /\ n \in DOMAIN BondOuts /\ IsBond(t, BondOuts[n])

LegStands(t) ==
    /\ Seen("leg") /\ tx["leg"].conf >= Floor
    /\ tx["leg"].outs[1].amt = t.q

StandInv ==
    /\ reorgs \in Nat /\ drops \in Nat
    /\ told = [p \in Parties |-> told[p]]
    /\ \A p \in Parties : Acted(p) => BondStands(docs[p], told[p].coin) /\ LegStands(docs[p])
    /\ told.borrower.state = "bond-only" => BondStands(B, told.borrower.coin)
    /\ paid # 0 => BondStands(L, paid) /\ LegStands(L)
    /\ careful => \E n : BondStands(B, n)

LEMMA FloorIs ==
  ASSUME reorgs \in Nat
  PROVE  /\ Floor \in Nat /\ Floor <= Depth
         /\ MaxDrops # 0 => Floor >= 1
<1>1. Depth \in Nat /\ Depth >= 1 /\ MaxReorgs \in Nat
  BY Numbers
<1> QED
  BY <1>1 DEF Floor

LEMMA StandKept ==
  ASSUME StandInv, docs' = docs, reorgs' \in Nat, drops' \in Nat,
         told' = told, paid' = paid, careful' = careful,
         \A t, n : BondStands(t, n) => BondStands(t, n)',
         \A t : LegStands(t) => LegStands(t)'
  PROVE  StandInv'
<1>1. B' = B /\ L' = L /\ \A p \in Parties : Acted(p)' <=> Acted(p)
  BY DEF B, L, Acted
<1>2. ASSUME NEW p \in Parties, Acted(p)
      PROVE  BondStands(docs[p], told[p].coin)' /\ LegStands(docs[p])'
  <2>1. PICK t, n : t = docs[p] /\ n = told[p].coin
    OBVIOUS
  <2>2. BondStands(t, n) /\ LegStands(t)
    BY <1>2, <2>1 DEF StandInv
  <2>3. BondStands(t, n)' /\ LegStands(t)'
    BY <2>2
  <2> QED
    BY <2>1, <2>3
<1>3. told.borrower.state = "bond-only" => BondStands(B, told.borrower.coin)'
  <2>1. PICK t, n : t = B /\ n = told.borrower.coin
    OBVIOUS
  <2>2. told.borrower.state = "bond-only" => BondStands(t, n)'
    BY <2>1 DEF StandInv
  <2> QED
    BY <1>1, <2>1, <2>2
<1>4. paid # 0 => BondStands(L, paid)' /\ LegStands(L)'
  <2>1. PICK t, n : t = L /\ n = paid
    OBVIOUS
  <2>2. paid # 0 => BondStands(t, n)' /\ LegStands(t)'
    BY <2>1 DEF StandInv
  <2> QED
    BY <1>1, <2>1, <2>2
<1>5. careful => \E n : BondStands(B, n)'
  <2>1. PICK t : t = B
    OBVIOUS
  <2>2. careful => \E n : BondStands(t, n)'
    BY <2>1 DEF StandInv
  <2> QED
    BY <1>1, <2>1, <2>2
<1>6. /\ told = [p \in Parties |-> told[p]]
      /\ \A p \in Parties : Acted(p)' =>
           BondStands(docs[p], told[p].coin)' /\ LegStands(docs[p])'
  BY <1>1, <1>2 DEF StandInv
<1> QED
  BY <1>1, <1>3, <1>4, <1>5, <1>6 DEF StandInv

LEMMA StandInit ==
  ASSUME Init
  PROVE  StandInv
BY DEF Init, StandInv, Untold, Acted, Parties

(* A step that leaves the counts, the bond and the leg as they were, or    *)
(* deeper.                                                                 *)
LEMMA StandDeeper ==
  ASSUME TxInv, StandInv, docs' = docs, reorgs' = reorgs, drops' \in Nat,
         told' = told, paid' = paid, careful' = careful,
         \A x \in {"bond", "leg"} : Seen(x) /\ tx[x].conf >= Floor =>
             /\ tx'[x].conf >= 0 /\ tx'[x].conf >= Floor
             /\ tx'[x].outs = tx[x].outs
  PROVE  StandInv'
<1>1. reorgs' \in Nat /\ Floor' = Floor
  BY DEF StandInv, Floor
<1>2. ASSUME NEW t, NEW n, BondStands(t, n) PROVE BondStands(t, n)'
  <2>1. /\ tx'["bond"].conf >= 0 /\ tx'["bond"].conf >= Floor
        /\ tx'["bond"].outs = tx["bond"].outs
    BY <1>2 DEF BondStands
  <2> QED
    BY <1>1, <1>2, <2>1 DEF BondStands, BondOuts, Seen, IsBond, Address, Bond
<1>3. ASSUME NEW t, LegStands(t) PROVE LegStands(t)'
  <2>1. /\ tx'["leg"].conf >= 0 /\ tx'["leg"].conf >= Floor
        /\ tx'["leg"].outs = tx["leg"].outs
    BY <1>3 DEF LegStands
  <2> QED
    BY <1>1, <1>3, <2>1 DEF LegStands, Seen
<1> QED
  BY <1>1, <1>2, <1>3, StandKept

LEMMA StandMine ==
  ASSUME TxInv, StandInv, Mine
  PROVE  StandInv'
<1>1. /\ docs' = docs /\ reorgs' = reorgs /\ drops' = drops /\ told' = told
      /\ paid' = paid /\ careful' = careful
  BY DEF Mine, bounds
<1>2. ASSUME NEW x \in {"bond", "leg"}, Seen(x) /\ tx[x].conf >= Floor
      PROVE  /\ tx'[x].conf >= 0 /\ tx'[x].conf >= Floor
             /\ tx'[x].outs = tx[x].outs
  <2>1. x \in Tx
    BY NamesAre
  <2>2. Survives(x) /\ (tx'[x].conf > tx[x].conf \/ tx'[x].conf >= Depth)
    BY <1>2, <2>1, MineTx
  <2>3. tx'[x].conf \in Int /\ tx'[x].conf >= 0 /\ tx'[x].outs = tx[x].outs
    BY <2>2 DEF Survives
  <2>4. Floor \in Nat /\ Floor <= Depth /\ Depth \in Nat /\ tx[x].conf \in Int
    BY <2>1, FloorIs, Numbers DEF StandInv, TxInv
  <2> QED
    BY <1>2, <2>2, <2>3, <2>4
<1>3. drops' \in Nat
  BY <1>1 DEF StandInv
<1> QED
  BY <1>1, <1>2, <1>3, StandDeeper

LEMMA StandReorg ==
  ASSUME Shallow, TxInv, StandInv, Reorg
  PROVE  StandInv'
<1>1. /\ docs' = docs /\ drops' = drops /\ told' = told
      /\ paid' = paid /\ careful' = careful /\ reorgs < MaxReorgs /\ reorgs' = reorgs + 1
  BY DEF Reorg
<1>2. reorgs \in Nat /\ drops \in Nat /\ MaxReorgs \in Nat /\ MaxDrops \in Nat /\ Depth \in Nat
      /\ Depth >= 1
  BY Numbers DEF StandInv
<1>3. ASSUME NEW x \in {"bond", "leg"}, Seen(x), tx[x].conf >= Floor
      PROVE  /\ tx'[x].conf >= 0 /\ tx'[x].conf >= Floor'
             /\ tx'[x].outs = tx[x].outs
  <2>1. x \in Tx /\ x # "forfeit"
    BY NamesAre
  <2>2. Survives(x) /\ tx'[x].conf > tx[x].conf - Depth
    BY <1>3, <2>1, ReorgTx
  <2>3. tx'[x].conf \in Int /\ tx'[x].conf >= 0 /\ tx'[x].outs = tx[x].outs
    BY <2>2 DEF Survives
  <2>4. tx[x].conf \in Int
    BY <2>1 DEF TxInv
  <2>5. CASE MaxDrops = 0
    <3>1. Floor' = 0
      BY <2>5 DEF Floor
    <3> QED
      BY <2>3, <3>1
  <2>6. CASE MaxDrops # 0
    <3>1. MaxReorgs = 1 /\ reorgs = 0
      BY <1>1, <1>2, <2>6 DEF Shallow
    <3>2. Floor = Depth
      BY <1>1, <2>6 DEF Floor
    <3>3. Floor' = 1
      BY <1>1, <2>6, <3>1 DEF Floor
    <3>4. tx'[x].conf > 0
      BY <1>2, <1>3, <2>2, <2>3, <2>4, <3>2
    <3> QED
      BY <2>3, <3>3, <3>4
  <2> QED
    BY <2>5, <2>6
<1>4. ASSUME NEW t, NEW n, BondStands(t, n) PROVE BondStands(t, n)'
  <2>1. /\ tx'["bond"].conf >= 0 /\ tx'["bond"].conf >= Floor'
        /\ tx'["bond"].outs = tx["bond"].outs
    BY <1>3, <1>4 DEF BondStands
  <2> QED
    BY <1>1, <1>4, <2>1 DEF BondStands, BondOuts, Seen, IsBond, Address, Bond
<1>5. ASSUME NEW t, LegStands(t) PROVE LegStands(t)'
  <2>1. /\ tx'["leg"].conf >= 0 /\ tx'["leg"].conf >= Floor'
        /\ tx'["leg"].outs = tx["leg"].outs
    BY <1>3, <1>5 DEF LegStands
  <2> QED
    BY <1>1, <1>5, <2>1 DEF LegStands, Seen
<1>6. reorgs' \in Nat /\ drops' \in Nat
  BY <1>1, <1>2
<1> QED
  BY <1>1, <1>4, <1>5, <1>6, StandKept

(* What spends an output that stands above the mempool cannot be dropped   *)
(* with it: only what is in the mempool is dropped.                        *)
LEMMA StandWithout ==
  ASSUME TxInv, StandInv, NEW z \in Tx, tx[z].conf = 0, tx' = Without({z}),
         drops < MaxDrops, drops' = drops + 1, docs' = docs, reorgs' = reorgs,
         told' = told, paid' = paid, careful' = careful
  PROVE  StandInv'
<1>1. drops \in Nat /\ MaxDrops \in Nat /\ reorgs \in Nat
  BY Numbers DEF StandInv
<1>2. MaxDrops # 0 /\ drops' \in Nat
  BY <1>1
<1>3. Floor \in Nat /\ Floor >= 1
  BY <1>1, <1>2, FloorIs
<1>4. ASSUME NEW x \in {"bond", "leg"}, Seen(x) /\ tx[x].conf >= Floor
      PROVE  /\ tx'[x].conf >= 0 /\ tx'[x].conf >= Floor
             /\ tx'[x].outs = tx[x].outs
  <2>1. x \in Tx /\ tx[x].ins = {}
    BY NamesAre DEF TxInv
  <2>2. x # z
    <3>1. tx[x].conf \in Int
      BY <2>1 DEF TxInv
    <3> QED
      BY <1>3, <1>4, <3>1
  <2>3. tx'[x] = tx[x]
    <3>1. x \notin {z} /\ ~\E c \in tx[x].ins : c[1] \in {z}
      BY <2>1, <2>2
    <3> QED
      BY <2>1, <3>1 DEF Without
  <2> QED
    BY <1>4, <2>3 DEF Seen
<1> QED
  BY <1>2, <1>4, StandDeeper

(* An answer a party acts on is of what the chain holds then.              *)
LEMMA VerifySays ==
  ASSUME TxInv, StandInv, NEW p \in Parties, RepoVerify(p)
  PROVE  \E state, coin :
           /\ told' = [told EXCEPT ![p] = [state |-> state, coin |-> coin]]
           /\ state \in {"live", "forfeitable"} =>
                BondStands(docs[p], coin) /\ LegStands(docs[p])
           /\ state = "bond-only" => p = "borrower" /\ BondStands(docs[p], coin)
<1>1. PICK vout \in 0..2, withLeg \in BOOLEAN,
           clock \in {TRUE, docs[p].after < Threshold} :
        LET t == docs[p]
            spent == vout # 0 /\ vout \notin Coins("bond")
            found == VerifyFunding(t, IF spent THEN 0 ELSE vout)
            leg == withLeg /\ VerifyLegOne(t)
            refused == \/ found = Refused \/ (spent /\ found # NotFunded)
                       \/ withLeg /\ ~leg
            state == RepurchaseState(t, found, leg, spent, clock)
        IN  /\ told' = [told EXCEPT ![p] =
                          IF ~refused /\ Heeds(p, state)
                          THEN [state |-> state, coin |-> found] ELSE Untold]
            /\ UNCHANGED <<docs, height, tx, paid, careful, skeleton, bounds>>
  BY Zenon DEF RepoVerify
<1> DEFINE t == docs[p]
           spent == vout # 0 /\ vout \notin Coins("bond")
           found == VerifyFunding(t, IF spent THEN 0 ELSE vout)
           leg == withLeg /\ VerifyLegOne(t)
           no == \/ found = Refused \/ (spent /\ found # NotFunded)
                 \/ withLeg /\ ~leg
           state == RepurchaseState(t, found, leg, spent, clock)
<1>2. told' = [told EXCEPT ![p] = IF ~no /\ Heeds(p, state)
                                  THEN [state |-> state, coin |-> found] ELSE Untold]
  BY <1>1, Zenon
<1>3. CASE ~(~no /\ Heeds(p, state))
  <2>1. told' = [told EXCEPT ![p] = [state |-> "nothing", coin |-> 0]]
    BY <1>2, <1>3 DEF Untold
  <2>2. PICK s, c : s = "nothing" /\ c = 0
    OBVIOUS
  <2>3. /\ told' = [told EXCEPT ![p] = [state |-> s, coin |-> c]]
        /\ s \notin {"live", "forfeitable"} /\ s # "bond-only"
    BY <2>1, <2>2
  <2> QED
    BY <2>3
<1>4. CASE ~no /\ Heeds(p, state)
  <2>1. told' = [told EXCEPT ![p] = [state |-> state, coin |-> found]]
    BY <1>2, <1>4
  <2>2. \/ found = NotFunded \/ found = Refused
        \/ /\ found \in Coins("bond") /\ found \in DOMAIN BondOuts /\ found > 0
           /\ IsBond(t, BondOuts[found])
    <3>1. (IF spent THEN 0 ELSE vout) \in Nat
      OBVIOUS
    <3> DEFINE v == IF spent THEN 0 ELSE vout
    <3>2. found = VerifyFunding(t, v) /\ v \in Nat
      BY <3>1
    <3> HIDE DEF v, t, found
    <3> QED
      BY <3>2, FundingFound
  <2>3. found # Refused
    BY <1>4
  <2>4. state = RepurchaseState(t, found, leg, spent, clock)
    OBVIOUS
  <2>5. leg => VerifyLegOne(t)
    OBVIOUS
  <2> HIDE DEF t, spent, found, leg, no, state
  <2>6. ASSUME tx["bond"].conf >= Depth, found # NotFunded
        PROVE  BondStands(t, found)
    <3>1. found \in DOMAIN BondOuts /\ IsBond(t, BondOuts[found])
      BY <2>2, <2>3, <2>6
    <3>2. Seen("bond")
      BY <3>1, BondOutsAre
    <3>3. tx["bond"].conf >= Floor
      <4>1. Floor \in Nat /\ Floor <= Depth /\ Depth \in Nat /\ tx["bond"].conf \in Int
        BY FloorIs, Numbers, NamesAre DEF StandInv, TxInv
      <4> QED
        BY <2>6, <4>1
    <3> QED
      BY <3>1, <3>2, <3>3 DEF BondStands
  <2>7. ASSUME VerifyLegOne(t) PROVE LegStands(t)
    <3>1. tx["leg"].outs[1].amt = t.q /\ tx["leg"].conf >= Depth
      <4>1. tx["leg"].outs[1] = Out(Spk("lender_cu"), t.asset, t.q) /\ tx["leg"].conf >= Depth
        BY <2>7 DEF VerifyLegOne
      <4>2. Out(Spk("lender_cu"), t.asset, t.q).amt = t.q
        BY DEF Out
      <4> QED
        BY <4>1, <4>2
    <3>2. Floor \in Nat /\ Floor <= Depth /\ Depth \in Nat /\ tx["leg"].conf \in Int /\ Depth >= 1
      BY FloorIs, Numbers, NamesAre DEF StandInv, TxInv
    <3> QED
      BY <3>1, <3>2 DEF LegStands, Seen
  <2>8. ASSUME state \in {"live", "forfeitable"} PROVE BondStands(t, found) /\ LegStands(t)
    <3>1. ~spent /\ found # 0 /\ leg
      BY <2>4, <2>8 DEF RepurchaseState
    <3>2. ~(Min({tx["bond"].conf, tx["leg"].conf}) < Depth)
      <4>1. state = IF Min({tx["bond"].conf, tx["leg"].conf}) < Depth
                    THEN "funded-unburied"
                    ELSE IF clock /\ LocktimeOpen(t.after, height) THEN "forfeitable" ELSE "live"
        BY <2>4, <3>1 DEF RepurchaseState
      <4> QED
        BY <2>8, <4>1
    <3>3. /\ tx["bond"].conf \in Int /\ tx["leg"].conf \in Int /\ Depth \in Nat
      BY Numbers, NamesAre DEF TxInv
    <3>4. tx["bond"].conf >= Depth
      <4> DEFINE c == Min({tx["bond"].conf, tx["leg"].conf})
      <4>1. c \in {tx["bond"].conf, tx["leg"].conf} /\ c <= tx["bond"].conf
        BY <3>3, MinOfTwo
      <4>2. ~(c < Depth)
        BY <3>2
      <4> HIDE DEF c
      <4> QED
        BY <3>3, <4>1, <4>2
    <3> QED
      BY <2>5, <2>6, <2>7, <3>1, <3>4 DEF NotFunded
  <2>9. ASSUME state = "bond-only" PROVE p = "borrower" /\ BondStands(t, found)
    <3>1. found # 0
      <4>1. CASE spent
        BY <2>4, <2>9, <4>1 DEF RepurchaseState
      <4>2. CASE ~spent /\ found = 0
        BY <2>4, <2>9, <4>2 DEF RepurchaseState
      <4> QED
        BY <4>1, <4>2
    <3>2. p = "borrower" /\ tx["bond"].conf >= Depth
      BY <1>4, <2>9 DEF Heeds
    <3> QED
      BY <2>6, <3>1, <3>2 DEF NotFunded
  <2>10. PICK s, c : s = state /\ c = found
    OBVIOUS
  <2> QED
    BY <2>1, <2>8, <2>9, <2>10 DEF t
<1> QED
  BY <1>3, <1>4

LEMMA StandVerify ==
  ASSUME TxInv, StandInv, NEW p \in Parties, RepoVerify(p)
  PROVE  StandInv'
<1>1. /\ docs' = docs /\ tx' = tx /\ reorgs' = reorgs /\ drops' = drops
      /\ paid' = paid /\ careful' = careful
  BY DEF RepoVerify, bounds
<1>2. PICK state, coin :
           /\ told' = [told EXCEPT ![p] = [state |-> state, coin |-> coin]]
           /\ state \in {"live", "forfeitable"} =>
                BondStands(docs[p], coin) /\ LegStands(docs[p])
           /\ state = "bond-only" => p = "borrower" /\ BondStands(docs[p], coin)
  BY VerifySays
<1>3. /\ B' = B /\ L' = L
      /\ \A t, n : BondStands(t, n)' <=> BondStands(t, n)
      /\ \A t : LegStands(t)' <=> LegStands(t)
  BY <1>1 DEF B, L, BondStands, LegStands, Seen, Floor, BondOuts, IsBond, Address, Bond
<1>4. told = [r \in Parties |-> told[r]] /\ "borrower" \in Parties
  BY DEF StandInv, Parties
<1>5. /\ told' = [r \in Parties |-> told'[r]]
      /\ \A r \in Parties : r # p => told'[r] = told[r]
      /\ told'[p] = [state |-> state, coin |-> coin]
      /\ told'[p].state = state /\ told'[p].coin = coin
  BY <1>2, <1>4
<1>6. ASSUME NEW r \in Parties, Acted(r)'
      PROVE  BondStands(docs[r], told[r].coin)' /\ LegStands(docs[r])'
  <2>0. PICK t, n : t = docs[r] /\ n = told'[r].coin
    OBVIOUS
  <2>1. BondStands(t, n) /\ LegStands(t)
    <3>1. CASE r = p
      BY <1>2, <1>5, <1>6, <2>0, <3>1 DEF Acted
    <3>2. CASE r # p
      <4>1. told'[r] = told[r]
        BY <1>5, <3>2
      <4>2. Acted(r)
        BY <1>6, <4>1 DEF Acted
      <4> QED
        BY <2>0, <4>1, <4>2 DEF StandInv
    <3> QED
      BY <3>1, <3>2
  <2>2. BondStands(t, n)' /\ LegStands(t)'
    BY <1>3, <2>1
  <2> QED
    BY <1>1, <2>0, <2>2
<1>7. told'["borrower"].state = "bond-only" => BondStands(B, told.borrower.coin)'
  <2>0. PICK t, n : t = B /\ n = told'["borrower"].coin
    OBVIOUS
  <2>1. ASSUME told'["borrower"].state = "bond-only" PROVE BondStands(t, n)
    <3>1. CASE p = "borrower"
      BY <1>2, <1>5, <2>0, <2>1, <3>1 DEF B
    <3>2. CASE p # "borrower"
      <4>1. told'["borrower"] = told["borrower"]
        BY <1>4, <1>5, <3>2
      <4> QED
        BY <2>0, <2>1, <4>1 DEF StandInv
    <3> QED
      BY <3>1, <3>2
  <2>2. told'["borrower"].state = "bond-only" => BondStands(t, n)'
    BY <1>3, <2>1
  <2> QED
    BY <1>3, <2>0, <2>2
<1>8. paid # 0 => BondStands(L, paid)' /\ LegStands(L)'
  <2>1. PICK t, n : t = L /\ n = paid
    OBVIOUS
  <2>2. paid # 0 => BondStands(t, n)' /\ LegStands(t)'
    BY <1>3, <2>1 DEF StandInv
  <2> QED
    BY <1>1, <1>3, <2>1, <2>2
<1>9. careful => \E n : BondStands(B, n)'
  <2>1. PICK t : t = B
    OBVIOUS
  <2>2. careful => \E n : BondStands(t, n)'
    BY <1>3, <2>1 DEF StandInv
  <2> QED
    BY <1>3, <2>1, <2>2
<1>10. reorgs' \in Nat /\ drops' \in Nat
  BY <1>1 DEF StandInv
<1> QED
  BY <1>1, <1>5, <1>6, <1>7, <1>8, <1>9, <1>10 DEF StandInv

LEMMA StandFund ==
  ASSUME TxInv, StandInv, Fund
  PROVE  StandInv'
<1>1. /\ ~Seen("bond") /\ docs' = docs /\ reorgs' = reorgs /\ drops' = drops
      /\ told' = told /\ paid' = paid /\ careful' = careful
  BY DEF Fund, bounds
<1>2. /\ \A p \in Parties : ~Acted(p)
      /\ told.borrower.state # "bond-only" /\ paid = 0 /\ ~careful
  BY <1>1 DEF StandInv, BondStands
<1>3. \A p \in Parties : ~Acted(p)'
  BY <1>1, <1>2 DEF Acted
<1> QED
  BY <1>1, <1>2, <1>3 DEF StandInv

LEMMA StandSell ==
  ASSUME TxInv, StandInv, Sell
  PROVE  StandInv'
<1>1. /\ ~Seen("leg") /\ docs' = docs /\ reorgs' = reorgs /\ drops' = drops
      /\ told' = told /\ paid' = paid
      /\ careful' => told.borrower.state = "bond-only"
      /\ \E outs : Send("leg", {}, outs)
  BY DEF Sell, bounds
<1>2. (\A p \in Parties : ~Acted(p)) /\ paid = 0
  BY <1>1 DEF StandInv, LegStands
<1>3. \A p \in Parties : ~Acted(p)'
  BY <1>1, <1>2 DEF Acted
<1>4. tx'["bond"] = tx["bond"]
  BY <1>1 DEF Send, TxInv, Tx
<1>5. B' = B /\ \A t, n : BondStands(t, n)' <=> BondStands(t, n)
  BY <1>1, <1>4 DEF B, BondStands, Seen, Floor, BondOuts, IsBond, Address, Bond
<1>6. told.borrower.state = "bond-only" => BondStands(B, told.borrower.coin)'
  <2>1. PICK t, n : t = B /\ n = told.borrower.coin
    OBVIOUS
  <2>2. told.borrower.state = "bond-only" => BondStands(t, n)'
    BY <1>5, <2>1 DEF StandInv
  <2> QED
    BY <1>1, <1>5, <2>1, <2>2
<1>7. careful' => \E n : BondStands(B, n)'
  <2> SUFFICES ASSUME careful' PROVE \E n : BondStands(B, n)'
    OBVIOUS
  <2>1. PICK n : n = told.borrower.coin
    OBVIOUS
  <2>2. BondStands(B, n)'
    <3>1. told.borrower.state = "bond-only"
      BY <1>1
    <3>2. BondStands(B, told.borrower.coin)'
      BY <1>6, <3>1
    <3> QED
      BY <1>1, <2>1, <3>2
  <2> QED
    BY <2>2
<1> QED
  BY <1>1, <1>2, <1>3, <1>6, <1>7 DEF StandInv

LEMMA StandPay ==
  ASSUME TxInv, StandInv, PayPrincipal
  PROVE  StandInv'
<1>1. /\ docs' = docs /\ reorgs' = reorgs /\ drops' = drops /\ tx' = tx
      /\ told' = told /\ paid' = told.lender.coin /\ careful' = careful
      /\ told.lender.state = "live"
  BY DEF PayPrincipal, bounds
<1>2. /\ B' = B /\ L' = L /\ \A t, n : BondStands(t, n)' <=> BondStands(t, n)
      /\ \A t : LegStands(t)' <=> LegStands(t)
      /\ \A p \in Parties : Acted(p)' <=> Acted(p)
  BY <1>1 DEF B, L, BondStands, LegStands, Seen, Floor, BondOuts, IsBond, Address, Bond, Acted
<1>3. BondStands(L, paid)' /\ LegStands(L)'
  <2>1. Acted("lender") /\ "lender" \in Parties
    BY <1>1 DEF Acted, Parties
  <2>2. BondStands(L, told.lender.coin) /\ LegStands(L)
    BY <2>1 DEF StandInv, L
  <2>3. PICK t, n : t = L /\ n = told.lender.coin
    OBVIOUS
  <2>4. BondStands(t, n)' /\ LegStands(t)'
    BY <1>2, <2>2, <2>3
  <2> QED
    BY <1>1, <1>2, <2>3, <2>4
<1>4. ASSUME NEW p \in Parties, Acted(p)'
      PROVE  BondStands(docs[p], told[p].coin)' /\ LegStands(docs[p])'
  <2>1. PICK t, n : t = docs[p] /\ n = told[p].coin
    OBVIOUS
  <2>2. BondStands(t, n) /\ LegStands(t)
    BY <1>2, <1>4, <2>1 DEF StandInv
  <2>3. BondStands(t, n)' /\ LegStands(t)'
    BY <1>2, <2>2
  <2> QED
    BY <1>1, <2>1, <2>3
<1>5. told'["borrower"].state = "bond-only" => BondStands(B, told.borrower.coin)'
  <2>1. PICK t, n : t = B /\ n = told.borrower.coin
    OBVIOUS
  <2>2. told.borrower.state = "bond-only" => BondStands(t, n)'
    BY <1>2, <2>1 DEF StandInv
  <2> QED
    BY <1>1, <1>2, <2>1, <2>2
<1>6. careful => \E n : BondStands(B, n)'
  <2>1. PICK t : t = B
    OBVIOUS
  <2>2. careful => \E n : BondStands(t, n)'
    BY <1>2, <2>1 DEF StandInv
  <2> QED
    BY <1>2, <2>1, <2>2
<1> QED
  BY <1>1, <1>3, <1>4, <1>5, <1>6 DEF StandInv

LEMMA StandStep ==
  ASSUME Shallow, TxInv, StandInv, [Next]_vars
  PROVE  StandInv'
<1>1. ASSUME docs' = docs, reorgs' = reorgs, drops' \in Nat, told' = told, paid' = paid,
             careful' = careful,
             \A x \in {"bond", "leg"} : Seen(x) => tx'[x] = tx[x]
      PROVE  StandInv'
  <2>1. \A x \in {"bond", "leg"} : Seen(x) /\ tx[x].conf >= Floor =>
             /\ tx'[x].conf >= 0 /\ tx'[x].conf >= Floor
             /\ tx'[x].outs = tx[x].outs
    BY <1>1 DEF Seen
  <2> QED
    BY <1>1, <2>1, StandDeeper
<1>2. CASE Mine
  BY <1>2, StandMine
<1>3. CASE Reorg
  BY <1>3, StandReorg
<1>4. CASE Drop
  <2>1. /\ drops < MaxDrops /\ drops' = drops + 1 /\ docs' = docs /\ reorgs' = reorgs
        /\ told' = told /\ paid' = paid /\ careful' = careful
        /\ \E z \in Tx : tx[z].conf = 0 /\ tx' = Without({z})
    BY <1>4 DEF Drop
  <2>2. PICK z \in Tx : tx[z].conf = 0 /\ tx' = Without({z})
    BY <2>1
  <2> QED
    BY <2>1, <2>2, StandWithout
<1>5. CASE Moved
  <2>1. /\ drops < MaxDrops /\ drops' = drops + 1 /\ docs' = docs /\ reorgs' = reorgs
        /\ told' = told /\ paid' = paid /\ careful' = careful
        /\ tx' = IF tx["settle"].conf = 0 THEN Without({"settle"}) ELSE tx
    BY <1>5 DEF Moved
  <2>2. CASE tx["settle"].conf = 0
    <3>1. tx' = Without({"settle"})
      BY <2>1, <2>2
    <3> QED
      BY <2>1, <2>2, <3>1, NamesAre, StandWithout
  <2>3. CASE tx["settle"].conf # 0
    <3>1. drops' \in Nat
      BY <2>1 DEF StandInv
    <3> QED
      BY <1>1, <2>1, <2>3, <3>1
  <2> QED
    BY <2>2, <2>3
<1>6. CASE Fund
  BY <1>6, StandFund
<1>7. CASE Sell
  BY <1>7, StandSell
<1>8. CASE PayPrincipal
  BY <1>8, StandPay
<1>9. CASE \E p \in Parties : RepoVerify(p)
  BY <1>9, StandVerify
<1>10. CASE ComposeSettlement
  <2>1. drops' = drops
    BY <1>10 DEF ComposeSettlement, bounds
  <2> QED
    BY <1>1, <1>10, <2>1 DEF ComposeSettlement, bounds, StandInv
<1>11. CASE CoSign
  <2>1. drops' = drops
    BY <1>11 DEF CoSign, bounds
  <2> QED
    BY <1>1, <1>11, <2>1 DEF CoSign, bounds, StandInv
<1>12. CASE Attach
  <2>1. /\ docs' = docs /\ reorgs' = reorgs /\ drops' = drops
        /\ told' = told /\ paid' = paid /\ careful' = careful
        /\ \E ins, outs : Send("settle", ins, outs)
    BY <1>12 DEF Attach, bounds
  <2>2. \A x \in {"bond", "leg"} : tx'[x] = tx[x]
    BY <2>1 DEF Send, TxInv, Tx
  <2> QED
    BY <1>1, <2>1, <2>2 DEF StandInv
<1>13. CASE Forfeit
  <2>1. /\ docs' = docs /\ reorgs' = reorgs /\ drops' = drops
        /\ told' = told /\ paid' = paid /\ careful' = careful
        /\ \E ins, outs : Send("forfeit", ins, outs)
    BY <1>13 DEF Forfeit, bounds
  <2>2. \A x \in {"bond", "leg"} : tx'[x] = tx[x]
    BY <2>1 DEF Send, TxInv, Tx
  <2> QED
    BY <1>1, <2>1, <2>2 DEF StandInv
<1>14. CASE UNCHANGED vars
  BY <1>1, <1>14 DEF vars, bounds, StandInv
<1> QED
  BY <1>2, <1>3, <1>4, <1>5, <1>6, <1>7, <1>8, <1>9, <1>10, <1>11, <1>12, <1>13, <1>14 DEF Next

(* "Calling that ok is the failure this exists to prevent" (repo-verify):  *)
(* on a chain of at most one reorganisation, less deep than the burial, or *)
(* of as many as there may be when nothing that is back in the mempool is  *)
(* lost there, what a party was told is live or forfeitable stays so, with *)
(* the amounts of the party's own terms.                                   *)
THEOREM ToldIsTrue ==
  ASSUME Shallow
  PROVE  Spec => []LiveStands
<1>1. Init => TxInv /\ StandInv
  BY TxInit, StandInit
<1>2. TxInv /\ StandInv /\ [Next]_vars => TxInv' /\ StandInv'
  BY TxStep, StandStep
<1>3. TxInv /\ StandInv => LiveStands
  <2> SUFFICES ASSUME TxInv, StandInv, NEW p \in Parties, Acted(p)
               PROVE  /\ Seen("leg") /\ tx["leg"].outs[1].amt = docs[p].q
                      /\ Seen("bond")
                      /\ tx["bond"].outs[told[p].coin]
                           = Out(Address(docs[p]), Money, Bond(docs[p]))
    BY DEF LiveStands
  <2>1. BondStands(docs[p], told[p].coin) /\ LegStands(docs[p])
    BY DEF StandInv
  <2>2. DOMAIN BondOuts # {} /\ Seen("bond")
    BY <2>1 DEF BondStands
  <2>3. PICK o : o = BondOuts[told[p].coin]
    OBVIOUS
  <2>4. o.to = Address(docs[p]) /\ o.asset = Money /\ o.amt = Bond(docs[p])
    BY <2>1, <2>3 DEF BondStands, IsBond
  <2>5. o = Out(o.to, o.asset, o.amt)
    BY <2>1, <2>3, BondOutsAre DEF BondStands, IsOut
  <2>6. tx["bond"].outs[told[p].coin] = Out(Address(docs[p]), Money, Bond(docs[p]))
    BY <2>3, <2>4, <2>5 DEF BondOuts
  <2> QED
    BY <2>1, <2>2, <2>6 DEF LegStands
<1> QED
  BY <1>1, <1>2, <1>3, PTL DEF Spec

-----------------------------------------------------------------------------
(* What the parties are paid: sums over one or two outputs.                *)

Total(outs, S) == MapThenSumSet(LAMBDA n : outs[n].amt, S)

LEMMA TotalIs ==
  ASSUME NEW outs, NEW S, IsFiniteSet(S), \A n \in S : outs[n].amt \in Int
  PROVE  /\ S = {} => Total(outs, S) = 0
         /\ \A a \in S : S = {a} => Total(outs, S) = outs[a].amt
         /\ \A a, b \in S : a # b /\ S = {a, b} => Total(outs, S) = outs[a].amt + outs[b].amt
<1> DEFINE f == [n \in S |-> outs[n].amt]
           Sums(it) == it = [s \in SUBSET S |->
                               IF s = {} THEN 0
                               ELSE outs[CHOOSE e \in s : TRUE].amt
                                      + it[s \ {CHOOSE e \in s : TRUE}]]
<1>1. \A it : Sums(it) <=> IsSum(it, f, S)
  <2>1. ASSUME NEW it
        PROVE  [s \in SUBSET S |-> IF s = {} THEN 0
                                   ELSE outs[CHOOSE e \in s : TRUE].amt
                                          + it[s \ {CHOOSE e \in s : TRUE}]]
                 = [s \in SUBSET S |-> IF s = {} THEN 0
                                       ELSE f[CHOOSE e \in s : TRUE]
                                              + it[s \ {CHOOSE e \in s : TRUE}]]
    <3>1. \A s \in SUBSET S : s # {} => f[CHOOSE e \in s : TRUE] = outs[CHOOSE e \in s : TRUE].amt
      OBVIOUS
    <3> HIDE DEF f
    <3> QED
      BY <3>1
  <2> QED
    BY <2>1 DEF IsSum
<1>2. \E it : Sums(it)
  <2>1. \E it : IsSum(it, f, S)
    <3> HIDE DEF f
    <3> QED
      BY SumExists
  <2> HIDE DEF Sums
  <2> QED
    BY <1>1, <2>1
<1> DEFINE it == CHOOSE it_ : Sums(it_)
<1>3. Total(outs, S) = it[S]
  BY DEF Total, MapThenSumSet, MapThenFoldSet
<1>4. IsSum(it, f, S)
  <2> HIDE DEF Sums
  <2>1. Sums(it)
    BY <1>2
  <2> QED
    BY <1>1, <2>1
<1>5. \A e \in S : f[e] \in Int /\ f[e] = outs[e].amt
  OBVIOUS
<1> HIDE DEF it, f, Sums
<1>6. /\ it[{}] = 0
      /\ \A a \in S : it[{a}] = f[a]
      /\ \A a, b \in S : a # b => it[{a, b}] = f[a] + f[b]
  BY <1>4, <1>5, SumIs
<1> QED
  BY <1>3, <1>5, <1>6

(* What a transaction's inputs from a funding hold: of one such input.     *)
LEMMA HeldIs ==
  ASSUME NEW outs, NEW n, outs[n].amt \in Int
  PROVE  MapThenSumSet(LAMBDA c : outs[c[2]].amt, {<<"bond", n>>}) = outs[n].amt
<1> DEFINE S == {<<"bond", n>>}
           f == [c \in S |-> outs[c[2]].amt]
           Sums(it) == it = [s \in SUBSET S |->
                               IF s = {} THEN 0
                               ELSE outs[(CHOOSE e \in s : TRUE)[2]].amt
                                      + it[s \ {CHOOSE e \in s : TRUE}]]
<1>1. \A it : Sums(it) <=> IsSum(it, f, S)
  <2>1. ASSUME NEW it
        PROVE  [s \in SUBSET S |-> IF s = {} THEN 0
                                   ELSE outs[(CHOOSE e \in s : TRUE)[2]].amt
                                          + it[s \ {CHOOSE e \in s : TRUE}]]
                 = [s \in SUBSET S |-> IF s = {} THEN 0
                                       ELSE f[CHOOSE e \in s : TRUE]
                                              + it[s \ {CHOOSE e \in s : TRUE}]]
    <3>1. \A s \in SUBSET S : s # {} =>
            f[CHOOSE e \in s : TRUE] = outs[(CHOOSE e \in s : TRUE)[2]].amt
      <4> HIDE DEF S
      <4> QED
        OBVIOUS
    <3> HIDE DEF f, S
    <3> QED
      BY <3>1
  <2> QED
    BY <2>1 DEF IsSum
<1>2. \E it : Sums(it)
  <2>1. IsFiniteSet(S)
    BY FS_Singleton
  <2>2. \E it : IsSum(it, f, S)
    <3> HIDE DEF f, S
    <3> QED
      BY <2>1, SumExists
  <2> HIDE DEF Sums
  <2> QED
    BY <1>1, <2>2
<1> DEFINE it == CHOOSE it_ : Sums(it_)
<1>3. MapThenSumSet(LAMBDA c : outs[c[2]].amt, S) = it[S]
  BY DEF MapThenSumSet, MapThenFoldSet
<1>4. IsSum(it, f, S)
  <2> HIDE DEF Sums
  <2>1. Sums(it)
    BY <1>2
  <2> QED
    BY <1>1, <2>1
<1>5. \A e \in S : f[e] \in Int /\ f[e] = outs[n].amt
  OBVIOUS
<1> HIDE DEF it, f, Sums, S
<1>6. \A a \in S : it[{a}] = f[a]
  <2>1. \A e \in S : f[e] \in Int
    BY <1>5
  <2>2. /\ it[{}] = 0
        /\ \A a \in S : it[{a}] = f[a]
        /\ \A a, b \in S : a # b => it[{a, b}] = f[a] + f[b]
    BY <1>4, <2>1, SumIs
  <2> QED
    BY <2>2
<1>7. it[{<<"bond", n>>}] = f[<<"bond", n>>]
  BY <1>6 DEF S
<1>8. it[S] = outs[n].amt
  BY <1>5, <1>7 DEF S
<1> QED
  BY <1>3, <1>8 DEF S

LEMMA SpkIs ==
  ASSUME NEW p, NEW q
  PROVE  p # q => Spk(p) # Spk(q)
<1>1. Spk(p).borrower = p /\ Spk(q).borrower = q
  BY DEF Spk
<1> QED
  BY <1>1

LEMMA ChangeIs ==
  ASSUME NEW payment \in Int, B.debt \in Int, payment - B.debt - Fee >= 0
  PROVE  /\ Change(payment) \in Int /\ Change(payment) >= 0
         /\ payment - B.debt - Change(payment) \in Int
         /\ payment - B.debt - Change(payment) <= Fee + DustFold
<1>1. Fee \in Nat /\ DustFold \in Nat
  BY Numbers
<1> DEFINE c == payment - B.debt - Fee
<1>2. c \in Int /\ c >= 0 /\ payment - B.debt = c + Fee
  BY <1>1
<1>3. Change(payment) = IF c \in 1..(DustFold - 1) THEN 0 ELSE c
  BY DEF Change, Folded
<1> HIDE DEF c
<1>4. CASE c \in 1..(DustFold - 1)
  BY <1>1, <1>2, <1>3, <1>4
<1>5. CASE c \notin 1..(DustFold - 1)
  BY <1>1, <1>2, <1>3, <1>5
<1> QED
  BY <1>4, <1>5

LEMMA PartsAre ==
  ASSUME NEW o, NEW debt, NEW asset, NEW q, NEW held,
         o[1] = Out(Spk("verifier"), "verifier", 1),
         o[2] = Out(Spk("lender"), Money, debt),
         o[3] = Out(Spk("borrower_cu"), asset, q),
         o[4] = Out(Spk("lender"), Money, held)
  PROVE  /\ o[1].to = Spk("verifier") /\ o[1].asset = "verifier"
         /\ o[2].to = Spk("lender") /\ o[2].asset = Money /\ o[2].amt = debt
         /\ o[3].to = Spk("borrower_cu") /\ o[3].asset = asset /\ o[3].amt = q
         /\ o[4].to = Spk("lender") /\ o[4].asset = Money /\ o[4].amt = held
BY DEF Out

LEMMA SettleSums ==
  ASSUME TxInv, SettleInv, NEW n, NEW payment, Settles(n, payment)
  PROVE  /\ Paid("settle", B.cu, B.asset) = B.q
         /\ Paid("settle", "lender", Money) = B.debt + BondOuts[n].amt
         /\ Paid("settle", "fee", Money) <= Fee + DustFold
         /\ MapThenSumSet(LAMBDA c : tx["bond"].outs[c[2]].amt,
                          {c \in tx["settle"].ins : c[1] = "bond"}) = BondOuts[n].amt
         /\ BondOuts[n].amt = Bond(B)
<1> DEFINE outs == tx["settle"].outs
           To(p, asset) == {m \in DOMAIN outs : outs[m].to = Spk(p) /\ outs[m].asset = asset}
           change == Out(Spk("borrower"), Money, Change(payment))
           fee == Out(Spk("fee"), Money, payment - B.debt - Change(payment))
<1>1. /\ n \in DOMAIN BondOuts /\ IsBond(B, BondOuts[n]) /\ payment \in Payments
      /\ payment - B.debt - Fee >= 0
      /\ B.lender = L.lender
      /\ tx["settle"].ins = {<<"bond", n>>, <<"leg", 1>>}
      /\ outs = Outputs(B, BondOuts[n].amt, payment)
  BY DEF Settles, Owed, Known
<1>2. /\ B.cu = "borrower_cu" /\ B.lender = "lender" /\ B.asset # Money
      /\ B.q \in Int /\ B.debt \in Int
      /\ BondOuts[n].amt = Bond(B) /\ Bond(B) \in Int
  BY <1>1, TermsAre DEF IsBond
<1>3. payment \in Int
  <2>1. Payments \subseteq Nat
    BY RepurchaseAssumption, Zenon
  <2> QED
    BY <1>1, <2>1
<1>4. /\ Change(payment) \in Int
      /\ payment - B.debt - Change(payment) \in Int
      /\ payment - B.debt - Change(payment) <= Fee + DustFold
  BY <1>1, <1>2, <1>3, ChangeIs
<1>5. /\ outs[1] = Out(Spk("verifier"), "verifier", 1)
      /\ outs[2] = Out(Spk("lender"), Money, B.debt)
      /\ outs[3] = Out(Spk("borrower_cu"), B.asset, B.q)
      /\ outs[4] = Out(Spk("lender"), Money, BondOuts[n].amt)
      /\ \/ DOMAIN outs = 1..6 /\ outs[5] = change /\ outs[6] = fee
         \/ DOMAIN outs = 1..5 /\ outs[5] = fee
  <2>1. PICK held : held = BondOuts[n].amt
    OBVIOUS
  <2> HIDE DEF outs
  <2>2. outs = Outputs(B, held, payment)
    BY <1>1, <2>1
  <2>3. /\ outs[1] = Out(Spk("verifier"), "verifier", 1)
        /\ outs[2] = Out(Spk(B.lender), Money, B.debt)
        /\ outs[3] = Out(Spk(B.cu), B.asset, B.q)
        /\ outs[4] = Out(Spk(B.lender), Money, held)
        /\ \/ DOMAIN outs = 1..6 /\ outs[5] = change /\ outs[6] = fee
           \/ DOMAIN outs = 1..5 /\ outs[5] = fee
    BY <2>2, OutputsAre
  <2> HIDE DEF change, fee
  <2> QED
    BY <1>2, <2>1, <2>3
<1>6. /\ outs[1].to = Spk("verifier") /\ outs[1].asset = "verifier"
      /\ outs[2].to = Spk("lender") /\ outs[2].asset = Money /\ outs[2].amt = B.debt
      /\ outs[3].to = Spk("borrower_cu") /\ outs[3].asset = B.asset /\ outs[3].amt = B.q
      /\ outs[4].to = Spk("lender") /\ outs[4].asset = Money
      /\ outs[4].amt = BondOuts[n].amt
      /\ change.to = Spk("borrower") /\ change.asset = Money
      /\ fee.to = Spk("fee") /\ fee.asset = Money
      /\ fee.amt = payment - B.debt - Change(payment)
  <2>1. /\ change.to = Spk("borrower") /\ change.asset = Money
        /\ fee.to = Spk("fee") /\ fee.asset = Money
        /\ fee.amt = payment - B.debt - Change(payment)
    BY DEF Out
  <2>2. PICK o : o = outs
    OBVIOUS
  <2>3. /\ o[1] = Out(Spk("verifier"), "verifier", 1)
        /\ o[2] = Out(Spk("lender"), Money, B.debt)
        /\ o[3] = Out(Spk("borrower_cu"), B.asset, B.q)
        /\ o[4] = Out(Spk("lender"), Money, BondOuts[n].amt)
    BY <1>5, <2>2
  <2>4. /\ o[1].to = Spk("verifier") /\ o[1].asset = "verifier"
        /\ o[2].to = Spk("lender") /\ o[2].asset = Money /\ o[2].amt = B.debt
        /\ o[3].to = Spk("borrower_cu") /\ o[3].asset = B.asset /\ o[3].amt = B.q
        /\ o[4].to = Spk("lender") /\ o[4].asset = Money /\ o[4].amt = BondOuts[n].amt
    BY <2>3, PartsAre
  <2> QED
    BY <2>1, <2>2, <2>4
<1> DEFINE last == IF DOMAIN outs = 1..6 THEN 6 ELSE 5
<1>7. /\ DOMAIN outs \in {1..5, 1..6} /\ last \in DOMAIN outs /\ last \in {5, 6}
      /\ outs[last] = fee
      /\ \A m \in DOMAIN outs : \/ m \in {1, 2, 3, 4} \/ m = last
                                \/ m = 5 /\ outs[5] = change
  <2>1. 1..6 # 1..5
    <3>1. 6 \in 1..6 /\ 6 \notin 1..5
      OBVIOUS
    <3> QED
      BY <3>1
  <2> HIDE DEF outs, change, fee
  <2>2. CASE DOMAIN outs = 1..6
    <3>1. last = 6 /\ outs[5] = change /\ outs[6] = fee
      BY <1>5, <2>1, <2>2
    <3> QED
      BY <2>2, <3>1
  <2>3. CASE DOMAIN outs = 1..5
    <3>1. last = 5 /\ outs[5] = fee
      BY <1>5, <2>1, <2>3
    <3> QED
      BY <2>3, <3>1
  <2> QED
    BY <1>5, <2>2, <2>3
<1>8. Total(outs, To("borrower_cu", B.asset)) = B.q
  <2>1. To("borrower_cu", B.asset) = {3}
    <3>1. 3 \in DOMAIN outs
      BY <1>7
    <3>2. \A m \in DOMAIN outs : m # 3 => outs[m].to # Spk("borrower_cu")
      <4>1. /\ Spk("verifier") # Spk("borrower_cu")
            /\ Spk("lender") # Spk("borrower_cu")
            /\ Spk("borrower") # Spk("borrower_cu")
            /\ Spk("fee") # Spk("borrower_cu")
        BY SpkIs
      <4> HIDE DEF outs, change, fee, last
      <4> QED
        BY <1>6, <1>7, <4>1
    <3> QED
      BY <1>6, <3>1, <3>2
  <2>2. IsFiniteSet(To("borrower_cu", B.asset))
    BY <2>1, FS_Singleton
  <2> DEFINE S == To("borrower_cu", B.asset)
             o == outs
  <2>3. S = {3} /\ o[3].amt = B.q /\ IsFiniteSet(S) /\ \A m \in S : o[m].amt \in Int
    BY <1>2, <1>6, <2>1, <2>2
  <2> HIDE DEF S, o
  <2>4. Total(o, S) = B.q
    BY <2>3, TotalIs
  <2> QED
    BY <2>4 DEF S, o
<1>9. Total(outs, To("lender", Money)) = B.debt + BondOuts[n].amt
  <2>1. To("lender", Money) = {2, 4}
    <3>1. 2 \in DOMAIN outs /\ 4 \in DOMAIN outs
      BY <1>7
    <3>2. \A m \in DOMAIN outs : m \notin {2, 4} => outs[m].to # Spk("lender")
      <4>1. /\ Spk("verifier") # Spk("lender")
            /\ Spk("borrower_cu") # Spk("lender")
            /\ Spk("borrower") # Spk("lender")
            /\ Spk("fee") # Spk("lender")
        BY SpkIs
      <4> HIDE DEF outs, change, fee, last
      <4> QED
        BY <1>6, <1>7, <4>1
    <3> QED
      BY <1>6, <3>1, <3>2
  <2>2. IsFiniteSet({2, 4})
    <3>1. {2, 4} = {2} \cup {4}
      OBVIOUS
    <3>2. IsFiniteSet({2}) /\ IsFiniteSet({4})
      BY FS_Singleton
    <3> QED
      BY <3>1, <3>2, FS_Union
  <2> DEFINE S == To("lender", Money)
             o == outs
  <2>3. /\ S = {2, 4} /\ o[2].amt = B.debt /\ o[4].amt = BondOuts[n].amt
        /\ IsFiniteSet(S) /\ \A m \in S : o[m].amt \in Int
    BY <1>2, <1>6, <2>1, <2>2
  <2> HIDE DEF S, o
  <2>4. \A a, b \in S : a # b /\ S = {a, b} => Total(o, S) = o[a].amt + o[b].amt
    BY <2>3, TotalIs
  <2>5. Total(o, S) = B.debt + BondOuts[n].amt
    BY <2>3, <2>4
  <2> QED
    BY <2>5 DEF S, o
<1>10. Total(outs, To("fee", Money)) = payment - B.debt - Change(payment)
  <2>1. To("fee", Money) = {last}
    <3>1. \A m \in DOMAIN outs : m # last => outs[m].to # Spk("fee")
      <4>1. /\ Spk("verifier") # Spk("fee")
            /\ Spk("borrower_cu") # Spk("fee")
            /\ Spk("borrower") # Spk("fee")
            /\ Spk("lender") # Spk("fee")
        BY SpkIs
      <4> HIDE DEF outs, change, fee, last
      <4> QED
        BY <1>6, <1>7, <4>1
    <3> HIDE DEF last, fee, change
    <3> QED
      BY <1>6, <1>7, <3>1
  <2> DEFINE S == To("fee", Money)
             o == outs
  <2>2. /\ S = {last} /\ o[last].amt = payment - B.debt - Change(payment)
        /\ IsFiniteSet(S) /\ \A m \in S : o[m].amt \in Int
    <3>1. IsFiniteSet({last})
      BY FS_Singleton
    <3>2. o[last].amt = payment - B.debt - Change(payment)
      BY <1>6, <1>7
    <3> HIDE DEF last
    <3> QED
      BY <1>4, <2>1, <3>1, <3>2
  <2> HIDE DEF S, o, last
  <2>3. Total(o, S) = o[last].amt
    BY <2>2, TotalIs
  <2> QED
    BY <2>2, <2>3 DEF S, o
<1>11. {c \in tx["settle"].ins : c[1] = "bond"} = {<<"bond", n>>}
  BY <1>1
<1>12. MapThenSumSet(LAMBDA c : tx["bond"].outs[c[2]].amt, {<<"bond", n>>}) = BondOuts[n].amt
  <2>1. BondOuts[n].amt \in Int
    BY <1>2
  <2> QED
    BY <2>1, HeldIs DEF BondOuts
<1>13. /\ Paid("settle", B.cu, B.asset) = Total(outs, To("borrower_cu", B.asset))
       /\ Paid("settle", "lender", Money) = Total(outs, To("lender", Money))
       /\ Paid("settle", "fee", Money) = Total(outs, To("fee", Money))
  BY <1>2 DEF Paid, Total
<1> QED
  BY <1>2, <1>4, <1>8, <1>9, <1>10, <1>11, <1>12, <1>13

(* What is left of the bond when it was neither returned nor swept.        *)
LEMMA AtLeast ==
  ASSUME NEW outs, NEW S, NEW n \in S, S \subseteq {1, 2},
         \A m \in S : outs[m].amt \in Int /\ outs[m].amt >= 0
  PROVE  Total(outs, S) >= outs[n].amt
<1>1. IsFiniteSet(S)
  <2>1. {1, 2} = {1} \cup {2} /\ IsFiniteSet({1}) /\ IsFiniteSet({2})
    BY FS_Singleton
  <2>2. IsFiniteSet({1, 2})
    BY <2>1, FS_Union
  <2> QED
    BY <2>2, FS_Subset
<1>2. /\ \A a \in S : S = {a} => Total(outs, S) = outs[a].amt
      /\ \A a, b \in S : a # b /\ S = {a, b} => Total(outs, S) = outs[a].amt + outs[b].amt
  BY <1>1, TotalIs
<1>3. CASE S = {n}
  BY <1>2, <1>3
<1>4. CASE S # {n}
  <2>1. PICK m \in S : m # n
    BY <1>4
  <2>2. S = {n, m}
    BY <2>1
  <2>3. Total(outs, S) = outs[n].amt + outs[m].amt
    BY <1>2, <2>1, <2>2
  <2>4. outs[n].amt \in Int /\ outs[m].amt \in Int /\ outs[m].amt >= 0
    BY <2>1
  <2> QED
    BY <2>3, <2>4
<1> QED
  BY <1>3, <1>4

LEMMA ClaimIs ==
  ASSUME TxInv, SettleInv, NEW n, BondStands(B, n), ~Seen("settle")
  PROVE  Claim >= Bond(B)
<1>1. n \in DOMAIN BondOuts /\ BondOuts[n].to = Address(B) /\ BondOuts[n].asset = Money
      /\ BondOuts[n].amt = Bond(B) /\ Bond(B) \in Int /\ B.borrower = "borrower"
  BY TermsAre DEF BondStands, IsBond
<1>2. CASE Seen("forfeit")
  <2>1. PICK k : Sweeps(k)
    BY <1>2 DEF SettleInv
  <2> DEFINE outs == tx["forfeit"].outs
             S == {m \in DOMAIN outs : outs[m].to = Spk("borrower") /\ outs[m].asset = Money}
  <2>2. outs = <<Out(Spk("borrower"), Money, Bond(B))>>
    BY <2>1 DEF Sweeps
  <2>3. DOMAIN outs = {1} /\ outs[1].to = Spk("borrower") /\ outs[1].asset = Money
        /\ outs[1].amt = Bond(B)
    BY <2>2 DEF Out
  <2>4. S = {1}
    BY <2>3
  <2>5. IsFiniteSet(S)
    BY <2>4, FS_Singleton
  <2>6. Paid("forfeit", "borrower", Money) = Total(outs, S)
    BY DEF Paid, Total
  <2>7. Claim = Total(outs, S)
    BY <1>2, <2>6 DEF Claim
  <2>8. outs[1].amt = Bond(B) /\ \A m \in S : outs[m].amt \in Int
    BY <1>1, <2>3, <2>4
  <2> HIDE DEF outs, S
  <2>9. Total(outs, S) = outs[1].amt
    BY <2>4, <2>5, <2>8, TotalIs
  <2> QED
    BY <1>1, <2>7, <2>8, <2>9
<1>3. CASE ~Seen("forfeit")
  <2> DEFINE S == {m \in Coins("bond") :
                     /\ BondOuts[m].to.borrower = "borrower"
                     /\ BondOuts[m].to.after = B.after
                     /\ BondOuts[m].asset = Money}
  <2>1. Claim = Total(BondOuts, S)
    BY <1>3 DEF Claim, Total, BondOuts, B
  <2>2. \A y \in Tx : tx[y].ins = {}
    <3> SUFFICES ASSUME NEW y \in Tx PROVE tx[y].ins = {}
      OBVIOUS
    <3>1. tx["bond"].ins = {} /\ tx["leg"].ins = {}
      BY DEF TxInv
    <3>2. tx[y].conf = -1 => tx[y].ins = {}
      BY AbsentIs DEF TxInv
    <3>3. tx["settle"].conf = -1 /\ tx["forfeit"].conf = -1
      BY <1>3, NamesAre DEF TxInv, Seen
    <3> QED
      BY <3>1, <3>2, <3>3 DEF Tx
  <2>3. n \in Coins("bond")
    BY <1>1, <2>2 DEF Coins, BondOuts
  <2>4. n \in S
    <3>1. Address(B).borrower = "borrower" /\ Address(B).after = B.after
      BY <1>1 DEF Address
    <3> QED
      BY <1>1, <2>3, <3>1
  <2>5. /\ S \subseteq {1, 2}
        /\ \A m \in S : BondOuts[m].amt \in Int /\ BondOuts[m].amt >= 0
    <3>1. S \subseteq DOMAIN BondOuts
      BY DEF Coins, BondOuts
    <3>2. /\ DOMAIN BondOuts \subseteq {1, 2}
          /\ \A m \in DOMAIN BondOuts : BondOuts[m].amt \in Int /\ BondOuts[m].amt >= 0
      BY BondOutsAre DEF IsOut
    <3> HIDE DEF S
    <3> QED
      BY <3>1, <3>2
  <2> HIDE DEF S
  <2>6. PICK outs : outs = BondOuts
    OBVIOUS
  <2>7. \A m \in S : outs[m].amt \in Int /\ outs[m].amt >= 0
    BY <2>5, <2>6
  <2>8. Total(outs, S) >= outs[n].amt
    BY <2>4, <2>5, <2>7, AtLeast
  <2>9. Total(BondOuts, S) >= BondOuts[n].amt
    BY <2>6, <2>8
  <2> QED
    BY <1>1, <2>1, <2>9
<1> QED
  BY <1>2, <1>3

(* "Fund the bond first": a borrower who sold after repo-verify showed     *)
(* them the bond buried is whole, however the repurchase ends and whoever  *)
(* walks away: their asset back for the debt and a fee, or a bond worth    *)
(* the rest of it, in their own hands or on the chain for them alone.      *)
THEOREM BorrowerIsWhole ==
  ASSUME Shallow
  PROVE  Spec => []BorrowerWhole
<1>1. Init => TxInv /\ SettleInv /\ StandInv
  BY TxInit, SettleInit, StandInit
<1>2. TxInv /\ SettleInv /\ StandInv /\ [Next]_vars => TxInv' /\ SettleInv' /\ StandInv'
  BY TxStep, SettleStep, StandStep
<1>3. TxInv /\ SettleInv /\ StandInv => BorrowerWhole
  <2> SUFFICES ASSUME TxInv, SettleInv, StandInv, Seen("leg"), careful
               PROVE  IF Seen("settle")
                      THEN /\ Paid("settle", B.cu, B.asset) = B.q
                           /\ Paid("settle", "lender", Money)
                                <= B.debt + MapThenSumSet(LAMBDA c : tx["bond"].outs[c[2]].amt,
                                              {c \in tx["settle"].ins : c[1] = "bond"})
                           /\ Paid("settle", "fee", Money) <= Fee + DustFold
                      ELSE Claim >= Bond(B)
    BY DEF BorrowerWhole, B
  <2>1. CASE Seen("settle")
    <3>1. PICK n, payment : Settles(n, payment)
      BY <2>1 DEF SettleInv
    <3>2. /\ Paid("settle", B.cu, B.asset) = B.q
          /\ Paid("settle", "lender", Money) = B.debt + BondOuts[n].amt
          /\ Paid("settle", "fee", Money) <= Fee + DustFold
          /\ MapThenSumSet(LAMBDA c : tx["bond"].outs[c[2]].amt,
                           {c \in tx["settle"].ins : c[1] = "bond"}) = BondOuts[n].amt
          /\ BondOuts[n].amt = Bond(B)
      BY <3>1, SettleSums
    <3>3. B.debt \in Int /\ Bond(B) \in Int
      BY TermsAre
    <3>4. B.debt + BondOuts[n].amt <= B.debt + BondOuts[n].amt
      BY <3>2, <3>3
    <3> QED
      BY <2>1, <3>2, <3>4
  <2>2. CASE ~Seen("settle")
    <3>1. PICK n : BondStands(B, n)
      BY DEF StandInv
    <3> QED
      BY <2>2, <3>1, ClaimIs
  <2> QED
    BY <2>1, <2>2
<1> QED
  BY <1>1, <1>2, <1>3, PTL DEF Spec

(* A copy of the terms that names the same bond, and owes no less, is the  *)
(* same: what the lender's own answers and refusals do not show them.      *)
CopiesMatch ==
    \A b \in BorrowerDocs, l \in LenderDocs :
      Address(b) = Address(l) /\ b.debt >= l.debt => b.debt = l.debt /\ b.value = l.value

(* The interest "is what the lender earns in every branch": a lender who   *)
(* paid the principal once they were told live has the debt and the bond   *)
(* back, or an asset worth the two, if the parties hold the same terms (a  *)
(* borrower's copy that promises less is refused; one that promises more   *)
(* pays more).                                                             *)
THEOREM LenderIsWhole ==
  ASSUME Shallow, CopiesMatch
  PROVE  Spec => []LenderWhole
<1>1. Init => TxInv /\ SettleInv /\ StandInv
  BY TxInit, SettleInit, StandInit
<1>2. TxInv /\ SettleInv /\ StandInv /\ [Next]_vars => TxInv' /\ SettleInv' /\ StandInv'
  BY TxStep, SettleStep, StandStep
<1>3. TxInv /\ SettleInv /\ StandInv => LenderWhole
  <2> DEFINE posted == tx["bond"].outs[paid].amt
  <2> SUFFICES ASSUME TxInv, SettleInv, StandInv, paid # 0
               PROVE  IF Seen("settle")
                      THEN Paid("settle", "lender", Money) - posted - L.principal
                             = L.debt - L.principal
                      ELSE /\ Seen("leg")
                           /\ L.value * tx["leg"].outs[1].amt = L.q * (posted + L.debt)
    BY DEF LenderWhole, L
  <2>1. BondStands(L, paid) /\ LegStands(L)
    BY DEF StandInv
  <2>2. posted = Bond(L)
    BY <2>1 DEF BondStands, IsBond, BondOuts
  <2>3. L.debt \in Int /\ L.value \in Int /\ L.q \in Int /\ L.principal \in Int
        /\ B.debt \in Int /\ B.value \in Int
    BY TermsAre
  <2> HIDE DEF posted
  <2>4. CASE Seen("settle")
    <3>1. PICK n, payment : Settles(n, payment)
      BY <2>4 DEF SettleInv
    <3>2. /\ Paid("settle", "lender", Money) = B.debt + BondOuts[n].amt
          /\ BondOuts[n].amt = Bond(B)
      BY <3>1, SettleSums
    <3>3. Address(B) = Address(L) /\ B.debt >= L.debt
      BY <3>1 DEF Settles, Known, Owed, IsBond
    <3>4. B.debt = L.debt /\ B.value = L.value
      BY <3>3 DEF CopiesMatch, TxInv, B, L
    <3>5. Paid("settle", "lender", Money) = L.debt + (L.value - L.debt)
          /\ posted = L.value - L.debt
      BY <2>2, <3>2, <3>4 DEF Bond
    <3> QED
      BY <2>3, <2>4, <3>5
  <2>5. CASE ~Seen("settle")
    <3>1. Seen("leg") /\ tx["leg"].outs[1].amt = L.q
      BY <2>1 DEF LegStands
    <3>2. posted + L.debt = L.value
      BY <2>2, <2>3 DEF Bond
    <3>3. L.value * L.q = L.q * L.value
      BY <2>3
    <3> QED
      BY <2>5, <3>1, <3>2, <3>3
  <2> QED
    BY <2>4, <2>5
<1> QED
  BY <1>1, <1>2, <1>3, PTL DEF Spec
=============================================================================
