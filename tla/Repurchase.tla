----------------------------- MODULE Repurchase -----------------------------
(***************************************************************************)
(* A repurchase (pignus/repurchase.py and the repo-* commands): the        *)
(* borrower sells an asset and may buy it back, and the lender's bond      *)
(* stands for the rest of its worth.  The bond's address commits to where  *)
(* everything goes and not to what it costs, and no covenant checks the    *)
(* debt.  Each party reads the chain with its own copy of the terms, acts  *)
(* on what it was told, and the chain moves on meanwhile.                  *)
(*                                                                         *)
(*   bond --settle--> asset to the borrower, bond and debt to the lender   *)
(*        --forfeit-> bond to the borrower, after the deadline             *)
(*   leg  --settle--> the asset the lender was sold                        *)
(*                                                                         *)
(* A command reads the chain in one step here; its user acts in another.   *)
(***************************************************************************)
EXTENDS Integers, Sequences, FiniteSets, FiniteSetsExt

CONSTANTS
    BorrowerDocs, LenderDocs, \* the terms each party may hold
    Depth,          \* BURIAL_DEPTH, --min-confirmations
    Threshold,      \* LOCKTIME_THRESHOLD
    Plausible,      \* _PLAUSIBLE_TIME
    Fee, DustFold,  \* in the money
    Payments,       \* what the borrower's debt coin may hold
    Misses,         \* by how much an amount may be wrong
    MaxHeight, MaxReorgs,
    MaxDrops        \* transactions lost to others that spend the same coins

VARIABLES
    docs,           \* each party's terms
    height,
    tx,             \* the transactions: how deep, what they spend and pay
    told,           \* what repo-verify last told each party to act on
    paid,           \* the bond the lender paid the principal on, or 0
    careful,        \* the borrower saw the bond buried before selling
    skeleton,       \* the settlement document
    reorgs, drops

bounds == <<reorgs, drops>>
vars == <<docs, height, tx, told, paid, careful, skeleton, bounds>>

Parties == {"borrower", "lender"}
Money == "money"
Tx == {"bond", "leg", "settle", "forfeit"}
Absent == [conf |-> -1, ins |-> {}, outs |-> <<>>]
NoSkeleton == [signed |-> {}, bond |-> 0, payment |-> 0, outs |-> <<>>]
Untold == [state |-> "nothing", coin |-> 0]

-----------------------------------------------------------------------------
(* The terms. *)

Bond(t) == t.value - t.debt

Sane(t) ==
    /\ t.q > 0 /\ t.principal > 0 /\ t.value > 0
    /\ t.principal < t.debt /\ t.debt < t.value
    /\ t.after > 0 /\ t.after \notin Threshold..(Plausible - 1)
    /\ t.asset # Money

(* What the two leaves commit to. *)
Address(t) ==
    [asset |-> t.asset, q |-> t.q, cu |-> t.cu, lender |-> t.lender,
     borrower |-> t.borrower, after |-> t.after]

(* Anybody's own script. *)
Spk(p) ==
    [asset |-> Money, q |-> 0, cu |-> "", lender |-> "", borrower |-> p,
     after |-> 0]

Out(to, asset, amt) == [to |-> to, asset |-> asset, amt |-> amt]

(* The chain's median time runs with its height. *)
MedianTime(h) == Plausible + h

(* Mutant: a deadline is always a height. *)
OpenByHeight(deadline, h) == h >= deadline

LocktimeOpen(deadline, h) ==
    (IF deadline < Threshold THEN h ELSE MedianTime(h)) >= deadline

ASSUME RepurchaseAssumption ==
    /\ Depth \in Nat \ {0}
    /\ Threshold \in Nat /\ Plausible \in Nat /\ Plausible > Threshold
    /\ MaxHeight \in Nat /\ MaxHeight < Threshold
    /\ MaxReorgs \in Nat /\ MaxDrops \in Nat
    /\ Fee \in Nat \ {0} /\ DustFold \in Nat
    /\ Payments \subseteq Nat /\ Misses \subseteq Int
    /\ \A t \in BorrowerDocs \cup LenderDocs :
         {t.q, t.principal, t.debt, t.value, t.after} \subseteq Int
    /\ \A t \in LenderDocs, m \in Misses : Sane(t) => Bond(t) + m >= 0
    /\ \A t \in BorrowerDocs : t.borrower = "borrower" /\ t.cu = "borrower_cu"
    /\ \A t \in LenderDocs : t.lender = "lender"

Init ==
    /\ docs \in [borrower : {t \in BorrowerDocs : Sane(t)},
                 lender : {t \in LenderDocs : Sane(t)}]
    /\ height = 1
    /\ tx = [x \in Tx |-> Absent]
    /\ told = [p \in Parties |-> Untold]
    /\ paid = 0 /\ careful = FALSE
    /\ skeleton = NoSkeleton
    /\ reorgs = 0 /\ drops = 0

-----------------------------------------------------------------------------
(* The chain: a transaction has its confirmations, 0 in the mempool,       *)
(* counted as far as any rule looks.                                       *)

Deep == Depth + (Depth - 1) * MaxReorgs
Seen(x) == tx[x].conf >= 0
(* gettxout, the mempool included *)
Coins(x) ==
    {n \in DOMAIN tx[x].outs : ~\E y \in Tx : <<x, n>> \in tx[y].ins}
Paid(x, p, asset) ==
    MapThenSumSet(LAMBDA n : tx[x].outs[n].amt,
                  {n \in DOMAIN tx[x].outs :
                     tx[x].outs[n].to = Spk(p) /\ tx[x].outs[n].asset = asset})

Send(x, ins, outs) ==
    tx' = [tx EXCEPT ![x] = [conf |-> 0, ins |-> ins, outs |-> outs]]
Without(S) ==
    [x \in Tx |-> IF x \in S \/ \E c \in tx[x].ins : c[1] \in S THEN Absent
                  ELSE tx[x]]

(* nLockTime, as a node reads it *)
Final(x, h) ==
    LET deadline == tx["bond"].outs[(CHOOSE c \in tx[x].ins : TRUE)[2]].to.after
    IN  x = "forfeit" =>
          h >= IF deadline < Threshold THEN deadline ELSE deadline - Plausible

Mine ==
    /\ height < MaxHeight
    /\ height' = height + 1
    /\ tx' = [x \in Tx |-> [tx[x] EXCEPT
                 !.conf = IF @ = -1 THEN @ ELSE Min({@ + 1, Deep})]]
    /\ UNCHANGED <<docs, told, paid, careful, skeleton, bounds>>

(* The last blocks are undone, never as many as Depth; what they held goes *)
(* back to the mempool, a sweep only if it is final there.                 *)
Reorg ==
    /\ reorgs < MaxReorgs
    /\ \E d \in 1..(Depth - 1) :
         /\ d < height
         /\ height' = height - d
         /\ tx' = [x \in Tx |->
                     IF tx[x].conf = -1 THEN tx[x]
                     ELSE IF tx[x].conf > d \/ Final(x, height - d)
                     THEN [tx[x] EXCEPT !.conf = IF @ > d THEN @ - d ELSE 0]
                     ELSE Absent]
    /\ reorgs' = reorgs + 1
    /\ UNCHANGED <<docs, told, paid, careful, skeleton, drops>>

(* The mempool drops a transaction: its sender spent its coins elsewhere.  *)
Drop ==
    /\ drops < MaxDrops
    /\ \E x \in Tx :
         /\ tx[x].conf = 0 /\ tx' = Without({x})
         /\ skeleton' = IF x \in {"bond", "leg"} THEN NoSkeleton ELSE skeleton
    /\ drops' = drops + 1
    /\ UNCHANGED <<docs, height, told, paid, careful, reorgs>>

(* Any holder's transfer spends the verifier, and a settlement with it.    *)
Moved ==
    /\ drops < MaxDrops
    /\ skeleton # NoSkeleton \/ tx["settle"].conf = 0
    /\ drops' = drops + 1
    /\ skeleton' = NoSkeleton
    /\ tx' = IF tx["settle"].conf = 0 THEN Without({"settle"}) ELSE tx
    /\ UNCHANGED <<docs, height, told, paid, careful, reorgs>>

-----------------------------------------------------------------------------
(* Origination: the bond, the first leg and the principal, each of them    *)
(* somebody's own transaction.                                             *)

(* repo-fund pays the bond exactly, its change before or after it; another *)
(* wallet may pay the address anything.                                    *)
Fundings(t) ==
    LET bond == Out(Address(t), Money, Bond(t))
        change == Out(Spk("lender"), Money, 1)
        wrong == {[bond EXCEPT !.amt = @ + m] : m \in Misses}
                   \cup {[bond EXCEPT !.asset = "another"]}
    IN  {<<bond>>, <<change, bond>>}
          \cup {<<w>> : w \in wrong} \cup {<<w, bond>> : w \in wrong}

Fund ==
    /\ ~Seen("bond")
    /\ \E outs \in Fundings(docs.lender) : Send("bond", {}, outs)
    /\ UNCHANGED <<docs, height, told, paid, careful, skeleton, bounds>>

(* "Fund the bond first": a careful borrower waits until it is buried.     *)
Sell ==
    /\ ~Seen("leg")
    /\ careful' = (told.borrower.state = "bond-only")
    /\ \E m \in {0} \cup Misses :
         Send("leg", {}, <<Out(Spk("lender_cu"), docs.borrower.asset,
                               docs.borrower.q + m)>>)
    /\ UNCHANGED <<docs, height, told, paid, skeleton, bounds>>

(* The lender acts on exit status 0 and a deadline still to come.  The     *)
(* principal is a payment like any other.                                  *)
PayPrincipal ==
    /\ paid = 0 /\ told.lender.state = "live"
    /\ paid' = told.lender.coin
    /\ UNCHANGED <<docs, height, tx, told, careful, skeleton, bounds>>

-----------------------------------------------------------------------------
(* repo-verify. *)

(* Mutant: the address says it all. *)
IsBondAddress(t, o) == o.to = Address(t) /\ o.asset = Money

IsBond(t, o) == o.to = Address(t) /\ o.asset = Money /\ o.amt = Bond(t)

NotFunded == 0
Refused == -1

(* The output that is the bond, the one named or the first; without one,   *)
(* an output that pays the address in another way is refused.              *)
VerifyFunding(t, vout) ==
    LET there == IF vout = 0 THEN Coins("bond") ELSE {vout} \cap Coins("bond")
        bonds == {n \in there : IsBond(t, tx["bond"].outs[n])}
    IN  CASE bonds # {} -> Min(bonds)
          [] bonds = {} /\ vout = 0
               /\ \A n \in there : tx["bond"].outs[n].to # Address(t) -> NotFunded
          [] OTHER -> Refused

(* Exactly q, at the lender's C_U, buried. *)
VerifyLegOne(t) ==
    /\ 1 \in Coins("leg")
    /\ tx["leg"].outs[1] = Out(Spk("lender_cu"), t.asset, t.q)
    /\ tx["leg"].conf >= Depth

(* Mutant: two halves are live. *)
StateUnburied(t, bond, leg, spent, clock) ==
    CASE spent                           -> "settled"
      [] ~spent /\ bond = 0              -> IF leg THEN "leg-one-only"
                                            ELSE "not-funded"
      [] ~spent /\ bond # 0 /\ ~leg      -> "bond-only"
      [] OTHER                           -> "live"

(* clock: the height, or the node's median time if that is asked for, is   *)
(* known.                                                                  *)
RepurchaseState(t, bond, leg, spent, clock) ==
    LET open == clock /\ LocktimeOpen(t.after, height)
    IN  CASE spent                       -> "settled"
          [] ~spent /\ bond = 0          -> IF leg THEN "leg-one-only"
                                            ELSE "not-funded"
          [] ~spent /\ bond # 0 /\ ~leg  -> "bond-only"
          [] ~spent /\ bond # 0 /\ leg   ->
               IF Min({tx["bond"].conf, tx["leg"].conf}) < Depth
               THEN "funded-unburied"
               ELSE IF open THEN "forfeitable" ELSE "live"

(* The answers a party acts on: the borrower sells once "bond-only" shows  *)
(* the bond buried.                                                        *)
Heeds(p, state) ==
    \/ state \in {"live", "forfeitable"}
    \/ p = "borrower" /\ state = "bond-only" /\ tx["bond"].conf >= Depth

(* A named output that is spent was the bond unless the bond is elsewhere. *)
RepoVerify(p) ==
    \E vout \in 0..2, withLeg \in BOOLEAN,
       clock \in {TRUE, docs[p].after < Threshold} :
      LET t == docs[p]
          spent == vout # 0 /\ vout \notin Coins("bond")
          found == VerifyFunding(t, IF spent THEN 0 ELSE vout)
          leg == withLeg /\ VerifyLegOne(t)
          refused == \/ found = Refused \/ (spent /\ found # NotFunded)
                     \/ withLeg /\ ~leg
          state == RepurchaseState(t, found, leg, spent, clock)
      IN  /\ told' = [told EXCEPT ![p] =
                        IF ~refused /\ Heeds(p, state)
                        THEN [state |-> state, coin |-> found] ELSE Untold]
          /\ UNCHANGED <<docs, height, tx, paid, careful, skeleton, bounds>>

-----------------------------------------------------------------------------
(* The settlement: four inputs (the verifier, the bond, the lender's C_U,  *)
(* the borrower's payment) and up to six outputs in one order.             *)

(* _repo_spender: the coin is the bond, or nothing is built. *)
Spendable(t) == {n \in {VerifyFunding(t, 0)} : n > 0}

(* Change below DustFold is given to the fee. *)
Folded(change) == IF change \in 1..(DustFold - 1) THEN 0 ELSE change

Outputs(t, held, payment) ==
    LET change == Folded(payment - t.debt - Fee)
    IN  <<Out(Spk("verifier"), "verifier", 1),
          Out(Spk(t.lender), Money, t.debt),
          Out(Spk(t.cu), t.asset, t.q),
          Out(Spk(t.lender), Money, held)>>
        \o (IF change > 0 THEN <<Out(Spk("borrower"), Money, change)>> ELSE <<>>)
        \o <<Out(Spk("fee"), Money, payment - t.debt - change)>>

ComposeSettlement ==
    LET t == docs.borrower
    IN  \E bond \in Spendable(t), payment \in Payments :
          /\ tx["settle"] = Absent
          /\ 1 \in Coins("leg")
          /\ tx["leg"].outs[1].asset = t.asset /\ tx["leg"].outs[1].amt = t.q
          /\ payment - t.debt - Fee >= 0
          /\ skeleton' =
               [signed |-> {"borrower"}, bond |-> bond, payment |-> payment,
                outs |-> Outputs(t, tx["bond"].outs[bond].amt, payment)]
          /\ UNCHANGED <<docs, height, tx, told, paid, careful, bounds>>

(* Mutant: the lender looks at what the covenant looks at. *)
InspectCovenantOnly(t, s) ==
    LET held == tx["bond"].outs[s.bond]
    IN  /\ held.to = Address(t) /\ held.asset = Money
        /\ s.outs[3] = Out(Spk(t.cu), t.asset, t.q)
        /\ s.outs[4] = Out(Spk(t.lender), Money, held.amt)

(* inspect_settlement finds no problem: the document against the lender's  *)
(* own terms, without a node.                                              *)
InspectSettlement(t, s) ==
    LET held == tx["bond"].outs[s.bond]
        last == Len(s.outs)
    IN  /\ last \in 5..6
        /\ s.outs[1] = Out(Spk("verifier"), "verifier", 1)
        /\ held.to = Address(t) /\ held.asset = Money
        /\ tx["leg"].outs[1] = Out(Spk("lender_cu"), t.asset, t.q)
        /\ s.outs[2].to = Spk(t.lender) /\ s.outs[2].asset = Money
        /\ s.outs[2].amt >= t.debt
        /\ s.outs[3] = Out(Spk(t.cu), t.asset, t.q)
        /\ s.outs[4] = Out(Spk(t.lender), Money, held.amt)
        /\ \A n \in 1..last : n # 3 => s.outs[n].asset # t.asset
        /\ s.outs[last].to = Spk("fee") /\ s.outs[last].asset = Money
        /\ last = 6 => s.outs[5].asset = Money

CoSign ==
    /\ skeleton.signed = {"borrower"}
    /\ skeleton.bond \in DOMAIN tx["bond"].outs /\ Seen("leg")
    /\ InspectSettlement(docs.lender, skeleton)
    /\ skeleton' = [skeleton EXCEPT !.signed = Parties]
    /\ UNCHANGED <<docs, height, tx, told, paid, careful, bounds>>

(* RETURN reads outputs 2k and 2k+1 of a vault at input k; the node wants  *)
(* every coin unspent and the money conserved.                             *)
Accepts(s) ==
    LET vault == tx["bond"].outs[s.bond]
        money == {n \in DOMAIN s.outs : s.outs[n].asset = Money}
    IN  /\ s.bond \in Coins("bond") /\ 1 \in Coins("leg")
        /\ s.outs[3].to = Spk(vault.to.cu) /\ s.outs[3].asset = vault.to.asset
        /\ s.outs[3].amt >= vault.to.q
        /\ s.outs[3].amt = tx["leg"].outs[1].amt
        /\ s.outs[4].to = Spk(vault.to.lender) /\ s.outs[4].amt >= vault.amt
        /\ MapThenSumSet(LAMBDA n : s.outs[n].amt, money)
             = vault.amt + s.payment

(* repo-settle --attach: every other signature is on, RETURN goes on last. *)
Attach ==
    /\ skeleton.signed = Parties
    /\ Accepts(skeleton)
    /\ Send("settle", {<<"bond", skeleton.bond>>, <<"leg", 1>>}, skeleton.outs)
    /\ skeleton' = NoSkeleton
    /\ UNCHANGED <<docs, height, told, paid, careful, bounds>>

(* repo-forfeit, by the borrower: "the borrower needs no key". *)
Forfeit ==
    LET t == docs.borrower
    IN  \E bond \in Spendable(t) :
          /\ LocktimeOpen(t.after, height)
          /\ Send("forfeit", {<<"bond", bond>>},
                  <<Out(Spk(t.borrower), Money, tx["bond"].outs[bond].amt)>>)
          /\ UNCHANGED <<docs, height, told, paid, careful, skeleton, bounds>>

Next ==
    \/ Mine \/ Reorg \/ Drop \/ Moved
    \/ Fund \/ Sell \/ PayPrincipal
    \/ \E p \in Parties : RepoVerify(p)
    \/ ComposeSettlement \/ CoSign \/ Attach \/ Forfeit

Spec == Init /\ [][Next]_vars

(* Blocks come, and a borrower whose date has come sweeps. *)
FairSpec == Spec /\ WF_vars(Mine) /\ WF_vars(Forfeit)

-----------------------------------------------------------------------------
(* Properties. *)

Acted(p) == told[p].state \in {"live", "forfeitable"}

(* "Calling that ok is the failure this exists to prevent": what was told  *)
(* live stays so, whatever blocks are undone.  Both halves are there, the  *)
(* bond is what these terms make, and only an exit of theirs spends it.    *)
LiveStands ==
    \A p \in Parties : Acted(p) =>
      /\ Seen("leg") /\ tx["leg"].outs[1].amt = docs[p].q
      /\ Seen("bond")
      /\ tx["bond"].outs[told[p].coin]
           = Out(Address(docs[p]), Money, Bond(docs[p]))

(* What the borrower can have of the bond. *)
Claim ==
    IF Seen("forfeit") THEN Paid("forfeit", "borrower", Money)
    ELSE MapThenSumSet(LAMBDA n : tx["bond"].outs[n].amt,
           {n \in Coins("bond") :
              /\ tx["bond"].outs[n].to.borrower = "borrower"
              /\ tx["bond"].outs[n].to.after = docs.borrower.after
              /\ tx["bond"].outs[n].asset = Money})

(* A borrower who sold after seeing the bond has, whoever stops whenever,  *)
(* the asset for the debt and a fee, or "what the asset was worth when the *)
(* deal was struck, minus what you would have paid".                       *)
BorrowerWhole ==
    LET t == docs.borrower
    IN  Seen("leg") /\ careful =>
          IF Seen("settle")
          THEN /\ Paid("settle", t.cu, t.asset) = t.q
               /\ Paid("settle", "lender", Money)
                    <= t.debt + MapThenSumSet(LAMBDA c : tx["bond"].outs[c[2]].amt,
                                  {c \in tx["settle"].ins : c[1] = "bond"})
               /\ Paid("settle", "fee", Money) <= Fee + DustFold
          ELSE Claim >= Bond(t)

(* The interest "is what the lender earns in every branch": returned or    *)
(* swept, a lender who paid once told live has no less and no more.        *)
LenderWhole ==
    LET t == docs.lender
        posted == tx["bond"].outs[paid].amt
    IN  paid # 0 =>
          IF Seen("settle")
          THEN Paid("settle", "lender", Money) - posted - t.principal
                 = t.debt - t.principal
          ELSE /\ Seen("leg")
               /\ t.value * tx["leg"].outs[1].amt = t.q * (posted + t.debt)

(* "A terms document that lied" about the debt is caught by the amount.    *)
(* Not so of one that lies about the worth as well (README).               *)
DebtAgreed ==
    Acted("borrower") => docs.borrower.debt = docs.lender.debt

(* "Their only remedy" is there: a bond a borrower was told is live ends   *)
(* in a settlement or in their hands.                                      *)
BondIsReleased ==
    Acted("borrower") ~> (Seen("settle") \/ Seen("forfeit"))
=============================================================================
