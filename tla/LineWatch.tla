----------------------------- MODULE LineWatch -----------------------------
(***************************************************************************)
(* How format-2 offers and loans are followed (pignus/watcher2.py, with    *)
(* book.py's v2 methods, service_v2.py's POSTs and vault2.follow).         *)
(*                                                                         *)
(* A loan is a line of coins: the coin that opened it, and the successor   *)
(* each spend made.  A poll goes back along every line past what a reorg   *)
(* undid, then forward along what the chain shows.  One offer and the      *)
(* loans its takes open are modelled.  A coin's script stands for the      *)
(* debt and the time it commits to; what the programs let a spend make is  *)
(* external.                                                               *)
(***************************************************************************)
EXTENDS Ledger, SequencesExt

CONSTANTS
    OfferCoins, VaultCoins,
    Kinds,          \* what the transactions may be, each a [Txs -> kind];
                    \* None for one that is never made
    Lock,           \* each transaction's lock time
    Debt,           \* what a take borrows
    Below,          \* how far under a step's height it is looked for; 10
    MaxUnseen,      \* blocks mined between two polls
    MaxFaults,      \* restarts, and questions the node does not answer
    PoolMayFail,    \* getmempoolentry is one of them
    MidPoll,        \* what may happen inside a poll: "mine", "reorg", "pool",
                    \* "post"
    AnyCoin         \* a borrower may register at a coin no line has

VARIABLES
    kind,           \* what each transaction is
    offer,          \* the book's record, or None
    loans,          \* coin -> the loan opened there, or None
    disk,           \* the book as it was last written
    poll,
    fresh,          \* a whole poll saw this chain and nothing else
    faults

book == <<offer, loans>>
vars == <<ledger, kind, book, disk, poll, fresh, faults>>

ASSUME LineAssumption ==
    /\ OfferCoins \cup VaultCoins = Coins
    /\ OfferCoins \cap VaultCoins = {}
    /\ Lock \in [Txs -> Nat]
    /\ \A k \in Kinds : DOMAIN k = Txs
    /\ Debt \in Nat \ {0}
    /\ Below \in Nat /\ MaxUnseen \in Nat \ {0}
    /\ MaxFaults \in Nat
    /\ PoolMayFail \in BOOLEAN /\ AnyCoin \in BOOLEAN
    /\ MidPoll \subseteq {"mine", "reorg", "pool", "post"}

Steps == Cardinality(Txs)
SmallerOf(a, b) == IF a <= b THEN a ELSE b
LargerOf(a, b) == IF a >= b THEN a ELSE b
Lowest(S) == CHOOSE h \in S : \A k \in S : h <= k
Highest(S) == CHOOSE h \in S : \A k \in S : k <= h
TheOne(S) == IF S = {} THEN None ELSE CHOOSE c \in S : TRUE

-----------------------------------------------------------------------------
(* The programs. *)

(* What a spend of a vault that owes <<debt, last>> pays: the script of    *)
(* its output 2k, what 2k+1 pays the lender, and whether it spends a       *)
(* beacon.                                                                 *)
Borrower == <<"borrower">>
Lender == <<"lender">>
Outputs(k, x, owes) ==
    LET to(script, paid, beacon) ==
            [main |-> script, paid |-> paid, beacon |-> beacon]
    IN  CASE k[x] = "top_up"     -> to(owes, 0, FALSE)
          [] k[x] = "repay"      -> to(<<owes[1] - 1, owes[2]>>, 1, FALSE)
          [] k[x] = "liquidate"  -> to(<<owes[1] - 1, Lock[x]>>, 1, TRUE)
          [] k[x] = "repaid"     -> to(Borrower, owes[1], FALSE)
          [] k[x] = "liquidated" -> to(Borrower, owes[1], TRUE)
          [] k[x] = "recovered"  -> to(Lender, 0, FALSE)

VaultOf(x) == TheOne(Makes[x] \cap VaultCoins)
RestOf(x) == TheOne(Makes[x] \cap OfferCoins)

(* What each vault coin really owes. *)
Owing(k) ==
    LET owes[c \in VaultCoins] ==
            LET x == TheOne(Makers(c))
            IN  IF Spends[x] \notin VaultCoins THEN <<Debt, Lock[x]>>
                ELSE Outputs(k, x, owes[Spends[x]]).main
    IN  owes
Owes == Owing(kind)

Moved == {"top_up", "repay", "liquidate"}
Closed == {"repaid", "liquidated", "recovered"}

(* What the programs let a transaction be.  A part of a debt that is paid  *)
(* leaves some of it, and a liquidation is later than what it seizes.      *)
Allowed(k, x) ==
    \/ k[x] = None
    \/ k[x] = "fund" /\ Spends[x] = None /\ Makes[x] \subseteq OfferCoins
    \/ k[x] = "take" /\ Spends[x] \in OfferCoins /\ Makes[x] \cap VaultCoins # {}
    \/ k[x] = "refund" /\ Spends[x] \in OfferCoins /\ Makes[x] = {}
    \/ /\ k[x] \in Moved
       /\ Spends[x] \in VaultCoins /\ Makes[x] # {} /\ Makes[x] \subseteq VaultCoins
       /\ k[x] # "top_up" => Owing(k)[Spends[x]][1] > 1
       /\ k[x] = "liquidate" => Lock[x] # Owing(k)[Spends[x]][2]
    \/ k[x] \in Closed /\ Spends[x] \in VaultCoins /\ Makes[x] = {}

(* Whether a chain of spends is as short as Family takes it to be.         *)
InOrder(age) ==
    \A x, y \in Txs : Spends[x] \in Makes[y] => age[y] < age[x]

ASSUME ProgramAssumption ==
    /\ IsFiniteSet(Txs)
    /\ \A c \in Coins : \E x \in Txs : Makers(c) = {x}
    /\ \A x \in Txs : \A c, d \in Makes[x] \cap VaultCoins : c = d
    /\ \A x \in Txs : \A c, d \in Makes[x] \cap OfferCoins : c = d
    /\ \E age \in [Txs -> {n \in 0..3 : n < Steps}] : InOrder(age)
    /\ \A k \in Kinds : \A x \in Txs :
         /\ Allowed(k, x)
         /\ k[x] # None => \A y \in Txs : Spends[x] \in Makes[y] => k[y] # None

-----------------------------------------------------------------------------
(* Reading the chain. *)

InPool == [h |-> 0, fork |-> 0]
Gone == [h |-> -1, fork |-> 0]
At(h) == [h |-> h, fork |-> HashAt(h)]
Places == [h : -1..MaxHeight, fork : 0..MaxForks]

(* Mutant: a step that left its block is not looked for in another. *)
WhereNowElse(s, tip, pool) ==
    IF s.tx \in pool THEN InPool
    ELSE IF s.at.h \in 1..Height /\ HashAt(s.at.h) = s.at.fork THEN s.at
    ELSE IF s.at.h = 0 /\ s.tx \in chain[SmallerOf(tip, Height)].txs
         THEN At(SmallerOf(tip, Height)) ELSE Gone

(* Chain.where: the mempool, the block the step was last in, the blocks    *)
(* from a little under it.                                                 *)
Where(s, tip, pool) ==
    LET under == LargerOf(1, (IF s.at.h = 0 THEN tip ELSE s.at.h) - Below)
        seen == {h \in under .. SmallerOf(tip, Height) :
                   s.tx \in chain[h].txs}
    IN  IF s.tx \in pool THEN InPool
        ELSE IF s.at.h \in 1..Height /\ HashAt(s.at.h) = s.at.fork THEN s.at
        ELSE IF seen = {} THEN Gone
        ELSE At(Lowest(seen))

(* Chain.place_of_coin *)
PlaceOf(coin) ==
    IF Confirmations(coin) = 0 THEN InPool
    ELSE At(Height - Confirmations(coin) + 1)

(* Chain.spender, from the coin's own block up; at most one. *)
FoundIn(coin, txs, at) == {[tx |-> x, at |-> at] : x \in Spenders(coin) \cap txs}
SpentBy(step, tip) ==
    LET from == IF step.at.h = 0 THEN tip ELSE step.at.h
    IN  FoundIn(step.coin, mempool, InPool)
        \cup UNION {FoundIn(step.coin, chain[h].txs, At(h)) :
                      h \in from .. SmallerOf(tip, Height)}

-----------------------------------------------------------------------------
(* Lines. *)

Step(x, coin, at, owes, event) ==
    [tx |-> x, coin |-> coin, at |-> at, owes |-> owes, event |-> event]
NoDebt == <<0, 0>>

Events == {"fund", "take", "refund", "open", "top_up", "repay", "liquidate",
           "repaid", "liquidated", "recovered"}
LineSteps == [tx : Txs, coin : Coins \cup {None}, at : Places,
              owes : Nat \X Nat, event : Events]
OfferRecords == [line : Seq(LineSteps), taken : Nat,
                 status : {"open", "taken", "refunded", "ghost"}]
LoanRecords == [opening : LineSteps, line : Seq(LineSteps), named : BOOLEAN,
                state : {"GHOST", "UNCONFIRMED", "LIVE"} \cup Closed]

ASSUME RecordAssumption == None \notin OfferRecords \cup LoanRecords

(* The undoing: the newest step first, until one is still there.           *)
KeptOf(line, tip, pool) ==
    LET there == {n \in 1..Len(line) : Where(line[n], tip, pool) # Gone}
        n == Highest(there)
    IN  IF there = {} THEN <<>>
        ELSE [SubSeq(line, 1, n) EXCEPT ![n].at = Where(line[n], tip, pool)]

(* Mutant: a liquidation's time is the lock time whatever was spent. *)
FollowByLock(owes, x) ==
    LET out == Outputs(kind, x, Owes[Spends[x]])
        left == <<owes[1] - out.paid, Lock[x]>>
    IN  IF VaultOf(x) = None
        THEN [event |-> kind[x], owes |-> NoDebt]
        ELSE [event |-> IF out.paid = 0 THEN "top_up" ELSE "repay", owes |-> left]

(* vault2.follow: what the spend x did to a vault said to owe `owes`, read *)
(* off its outputs.                                                        *)
Follow(owes, x) ==
    LET out == Outputs(kind, x, Owes[Spends[x]])
        did(event, left) == [event |-> event, owes |-> left]
        paid == <<owes[1] - out.paid, owes[2]>>
        seized == <<owes[1] - out.paid, Lock[x]>>
    IN  IF out.main = Owes[Spends[x]] THEN did("top_up", owes)
        ELSE IF out.paid > 0 /\ out.paid < owes[1]
             THEN IF out.main = paid THEN did("repay", paid)
                  ELSE IF out.main = seized THEN did("liquidate", seized)
                  ELSE did("spent_unknown", NoDebt)
        ELSE IF out.paid > 0
             THEN did(IF out.beacon THEN "liquidated" ELSE "repaid", NoDebt)
        ELSE did(IF out.main = Lender THEN "recovered" ELSE "spent_unknown",
                 NoDebt)

VaultStep(cur, found) ==
    LET f == Follow(cur.owes, found.tx)
    IN  Step(found.tx, IF f.event \in Moved THEN VaultOf(found.tx) ELSE None,
             found.at, f.owes, f.event)

(* A spend of the offer is a take when the vault its witness derives is    *)
(* its output 2k (borrower_from_take), and a refund otherwise.             *)
OfferStep(cur, found) ==
    IF VaultOf(found.tx) # None
    THEN Step(found.tx, RestOf(found.tx), found.at, NoDebt, "take")
    ELSE Step(found.tx, None, found.at, NoDebt, "refund")

(* One step along. *)
Along(line, tip) ==
    LET cur == Last(line)
    IN  IF cur.coin = None \/ Unspent(cur.coin) THEN line
        ELSE IF SpentBy(cur, tip) = {} THEN line
        ELSE LET found == TheOne(SpentBy(cur, tip))
             IN  Append(line, IF cur.coin \in VaultCoins
                              THEN VaultStep(cur, found) ELSE OfferStep(cur, found))
Forward(line, tip) ==
    LET after[n \in 0..Steps] == IF n = 0 THEN line ELSE Along(after[n - 1], tip)
    IN  after[Steps]

-----------------------------------------------------------------------------
(* The book's records. *)

(* A line that is left at all is followed to its end. *)
Followed(line, tip) == IF line = <<>> THEN <<>> ELSE Forward(line, tip)

(* What a loan's record says with this line. *)
LoanWith(rec, line) ==
    IF line = <<>> THEN [rec EXCEPT !.line = <<>>, !.state = "GHOST"]
    ELSE [rec EXCEPT !.line = line,
                     !.state = IF Last(line).coin = None THEN Last(line).event
                               ELSE IF Last(line).at.h = 0 THEN "UNCONFIRMED"
                               ELSE "LIVE"]

(* Mutant: a ghost whose opening is back is still called one. *)
ReconcileAsGhost(rec, tip, pool) ==
    LET kept == KeptOf(rec.line, tip, pool)
        again == Where(rec.opening, tip, pool)
        from == IF kept # <<>> THEN kept
                ELSE IF again = Gone THEN <<>>
                ELSE <<[rec.opening EXCEPT !.at = again]>>
        now == LoanWith(rec, Followed(from, tip))
    IN  IF kept = <<>> THEN [now EXCEPT !.state = "GHOST"] ELSE now

(* reconcile_loan *)
ReconcileLoan(rec, tip, pool) ==
    LET kept == KeptOf(rec.line, tip, pool)
        again == Where(rec.opening, tip, pool)
        from == IF kept # <<>> THEN kept
                ELSE IF again = Gone THEN <<>>
                ELSE <<[rec.opening EXCEPT !.at = again]>>
    IN  LoanWith(rec, Followed(from, tip))

(* The takes on a line behind the steps that were known. *)
NewTakes(line, known) ==
    {n \in known + 1 .. Len(line) : line[n].event = "take"}

(* What an offer's record says with this line. *)
OfferWith(rec, line, known) ==
    IF line = <<>> THEN [rec EXCEPT !.line = <<>>, !.status = "ghost"]
    ELSE [line |-> line,
          taken |-> rec.taken + Cardinality(NewTakes(line, known)),
          status |-> IF Last(line).coin # None THEN "open"
                     ELSE IF Last(line).event = "take" THEN "taken"
                     ELSE "refunded"]

(* reconcile_offer *)
ReconcileOffer(rec, tip, pool) ==
    LET kept == KeptOf(rec.line, tip, pool)
    IN  OfferWith(rec, Followed(kept, tip), Len(kept))

(* The loans the new takes opened, each as the step that opens it. *)
Openings(line, known) ==
    {Step(s.tx, VaultOf(s.tx), s.at, <<Debt, Lock[s.tx]>>, "open") :
       s \in {line[n] : n \in NewTakes(line, known)}}
OpenedBy(rec, tip, pool) ==
    LET kept == KeptOf(rec.line, tip, pool)
    IN  Openings(Followed(kept, tip), Len(kept))

HasCoin(rec, coin) == \E n \in 1..Len(rec.line) : rec.line[n].coin = coin
NewLoan(step, named) ==
    [opening |-> step, line |-> <<step>>, state |-> "UNCONFIRMED", named |-> named]

(* Mutant: a coin of a followed line is not recognised. *)
OpenByKey(all, step, named) ==
    IF all[step.coin] = None
    THEN [all EXCEPT ![step.coin] = NewLoan(step, named)]
    ELSE [all EXCEPT ![step.coin].named = @ \/ named]

(* Mutant: the terms read off the chain replace the borrower's own. *)
OpenAnew(all, step, named) ==
    IF \E c \in VaultCoins : all[c] # None /\ (c = step.coin \/ HasCoin(all[c], step.coin))
    THEN [c \in VaultCoins |->
            IF all[c] # None /\ (c = step.coin \/ HasCoin(all[c], step.coin))
            THEN [all[c] EXCEPT !.named = named] ELSE all[c]]
    ELSE [all EXCEPT ![step.coin] = NewLoan(step, named)]

(* open_v2_loan: by its opening coin, or by a coin of its line; `named` is *)
(* that the terms have the borrower's payout script.                       *)
Open(all, step, named) ==
    LET same == IF all[step.coin] # None THEN {step.coin}
                ELSE {c \in VaultCoins : all[c] # None /\ HasCoin(all[c], step.coin)}
    IN  IF same = {} THEN [all EXCEPT ![step.coin] = NewLoan(step, named)]
        ELSE [all EXCEPT ![TheOne(same)].named = @ \/ named]

-----------------------------------------------------------------------------
(* The poll. *)

NoPoll(tip) == [phase |-> "idle", tip |-> tip, offer |-> None,
                opened |-> {}, loans |-> [c \in VaultCoins |-> None],
                calm |-> FALSE]

May(what) == poll.phase = "idle" \/ what \in MidPoll

(* What getmempoolentry answers from. *)
Pools == {mempool} \cup IF PoolMayFail /\ faults < MaxFaults THEN {{}} ELSE {}
Asked(pool) == faults' = IF pool = mempool THEN faults ELSE faults + 1

(* Mutant: what is put inside a batch is written at once. *)
Written(put) == put

(* Book.batch, _save: what is put inside a batch is not yet written. *)
InBatch(put) == disk

(* Chain(node) and v2_items("offers") *)
PollBegins ==
    /\ poll.phase = "idle"
    /\ poll' = [NoPoll(Height) EXCEPT !.phase = "offers", !.offer = offer,
                                      !.calm = TRUE]
    /\ UNCHANGED <<ledger, kind, book, disk, fresh, faults>>

(* The offer is reconciled and put back if that changed it. *)
PollOffers ==
    /\ poll.phase = "offers"
    /\ poll.tip <= Height
    /\ \E pool \in Pools :
         /\ Asked(pool)
         /\ LET was == poll.offer
                now == IF was = None THEN None
                       ELSE ReconcileOffer(was, poll.tip, pool)
            IN  /\ offer' = IF now = was THEN offer ELSE now
                /\ poll' = [poll EXCEPT !.phase = "open", !.offer = None,
                              !.opened = IF was = None THEN {}
                                         ELSE OpenedBy(was, poll.tip, pool),
                              !.calm = @ /\ pool = mempool]
    /\ UNCHANGED <<ledger, kind, loans, fresh>>
    /\ disk' = InBatch(<<offer', loans>>)

(* open_v2_loan for each take, each under the lock by itself. *)
PollOpens ==
    /\ poll.phase = "open"
    /\ \E s \in poll.opened :
         /\ loans' = Open(loans, s, FALSE)
         /\ poll' = [poll EXCEPT !.opened = @ \ {s}]
    /\ UNCHANGED <<ledger, kind, offer, disk, fresh, faults>>

(* v2_items("loans") *)
PollCopies ==
    /\ poll.phase = "open" /\ poll.opened = {}
    /\ poll' = [poll EXCEPT !.phase = "loans", !.loans = loans]
    /\ UNCHANGED <<ledger, kind, book, disk, fresh, faults>>

(* Every loan's copy is reconciled and put back if that changed it; the    *)
(* batch ends, and the book is written.                                    *)
PollLoans ==
    /\ poll.phase = "loans"
    /\ poll.tip <= Height
    /\ \E pool \in Pools :
         /\ Asked(pool)
         /\ loans' = [c \in VaultCoins |->
              LET was == poll.loans[c]
                  now == IF was = None THEN None
                         ELSE ReconcileLoan(was, poll.tip, pool)
              IN  IF now = was THEN loans[c] ELSE now]
         /\ fresh' = (poll.calm /\ pool = mempool)
    /\ poll' = NoPoll(poll.tip)
    /\ UNCHANGED <<ledger, kind, offer>>
    /\ disk' = <<offer, loans'>>

(* The node does not answer, or has no block at a height it had: the poll  *)
(* ends there, and the batch writes what was put.                          *)
PollFails ==
    /\ poll.phase \in {"offers", "loans"}
    /\ \/ poll.tip > Height /\ UNCHANGED faults
       \/ faults < MaxFaults /\ faults' = faults + 1
    /\ poll' = NoPoll(poll.tip)
    /\ disk' = book
    /\ UNCHANGED <<ledger, kind, book, fresh>>

-----------------------------------------------------------------------------
(* Requests, each on a thread of its own. *)

(* POST /v2/offers; put_offer_v2: a listed coin is answered as it is, an   *)
(* open offer is not moved to another coin, and anything else starts anew. *)
Publish(coin) ==
    /\ May("post")
    /\ coin \in OfferCoins /\ Unspent(coin)
    /\ offer # None => ~HasCoin(offer, coin) /\ offer.status # "open"
    /\ offer' = [status |-> "open", taken |-> 0,
                 line |-> <<Step(TheOne(Makers(coin)), coin, PlaceOf(coin),
                                 NoDebt, "fund")>>]
    /\ disk' = <<offer', loans>>
    /\ fresh' = FALSE
    /\ poll' = [poll EXCEPT !.calm = FALSE]
    /\ UNCHANGED <<ledger, kind, loans, faults>>

(* POST /v2/loans: a borrower registers the payout script, at a coin whose *)
(* script is the one of the state that was named.                          *)
Register(coin) ==
    /\ May("post")
    /\ coin \in VaultCoins /\ Unspent(coin)
    /\ \/ AnyCoin
       \/ kind[TheOne(Makers(coin))] = "take"
       \/ \E c \in VaultCoins : loans[c] # None /\ HasCoin(loans[c], coin)
    /\ loans' = Open(loans, Step(TheOne(Makers(coin)), coin, PlaceOf(coin),
                                 Owes[coin], "open"), TRUE)
    /\ loans' # loans
    /\ disk' = <<offer, loans'>>
    /\ fresh' = FALSE
    /\ poll' = [poll EXCEPT !.calm = FALSE]
    /\ UNCHANGED <<ledger, kind, offer, faults>>

(* The process ends, and another loads the book from its file. *)
Restart ==
    /\ faults < MaxFaults
    /\ faults' = faults + 1
    /\ offer' = disk[1] /\ loans' = disk[2]
    /\ poll' = NoPoll(poll.tip)
    /\ fresh' = FALSE
    /\ UNCHANGED <<ledger, kind, disk>>

(* The chain moves; polls come often enough to see most of it. *)
ChainMoves ==
    /\ \/ May("mine") /\ Height < poll.tip + MaxUnseen /\ Mine
       \/ May("reorg") /\ Reorg
       \/ May("pool") /\ \E x \in Txs : (kind[x] # None /\ Broadcast(x)) \/ Evict(x)
    /\ fresh' = FALSE
    /\ poll' = [poll EXCEPT !.calm = FALSE]
    /\ UNCHANGED <<kind, book, disk, faults>>

Init ==
    /\ chain = <<[fork |-> 0, txs |-> {}]>>
    /\ mempool = {} /\ forks = 0 /\ evictions = 0
    /\ kind \in Kinds
    /\ offer = None
    /\ loans = [c \in VaultCoins |-> None]
    /\ disk = book
    /\ poll = NoPoll(1)
    /\ fresh = FALSE
    /\ faults = 0

Next ==
    \/ ChainMoves
    \/ PollBegins \/ PollOffers \/ PollOpens \/ PollCopies \/ PollLoans \/ PollFails
    \/ \E c \in Coins : Publish(c) \/ Register(c)
    \/ Restart

Spec == Init /\ [][Next]_vars
-----------------------------------------------------------------------------
(* What following promises. *)

IsLine(line, coins) ==
    \A n \in 1..Len(line) :
      /\ line[n].at # Gone
      /\ line[n].coin # None => line[n].coin \in coins
      /\ n < Len(line) => line[n].coin # None
IsLoan(rec) ==
    /\ rec \in LoanRecords
    /\ IsLine(rec.line, VaultCoins)
    /\ rec.state = "GHOST" <=> rec.line = <<>>
IsOffer(rec) ==
    /\ rec \in OfferRecords
    /\ IsLine(rec.line, OfferCoins)
    /\ rec.status = "ghost" <=> rec.line = <<>>

(* What is kept is lines: every step names where it was seen, only the     *)
(* last may have closed, and a record without a line is a ghost            *)
(* (reconcile_loan, reconcile_offer).                                      *)
TypeOK ==
    /\ LedgerTypeOK
    /\ offer # None => IsOffer(offer)
    /\ \A c \in VaultCoins : loans[c] # None => IsLoan(loans[c])
    /\ poll.phase \in {"idle", "offers", "open", "loans"}
    /\ poll.tip \in 1..MaxHeight
    /\ \A s \in poll.opened : s \in LineSteps /\ s.coin \in VaultCoins
    /\ faults \in 0..MaxFaults

(* The line is the chain's: each step spends the coin before it, all are   *)
(* there, nothing has spent the last, and the last is where it is said to  *)
(* be.                                                                     *)
IsTrue(line) ==
    /\ \A n \in 1..Len(line) : Known(line[n].tx)
    /\ \A n \in 2..Len(line) : Spends[line[n].tx] = line[n - 1].coin
    /\ Last(line).coin # None => Unspent(Last(line).coin)
    /\ IF Last(line).tx \in mempool THEN Last(line).at = InPool
       ELSE /\ Last(line).at.h \in 1..Height
            /\ Last(line).tx \in chain[Last(line).at.h].txs

(* After a whole poll of a chain that stood still, every line is the       *)
(* chain's.  A loan's, from its opening to the coin that holds it or the   *)
(* spend that closed it, with the debt and the time that coin commits to;  *)
(* and a loan whose opening is there is no ghost (reconcile_loan and       *)
(* vault2.follow, "the state can be read off the transaction").  An        *)
(* offer's, unless it is called a ghost, to where it rests or to how it    *)
(* ended (reconcile_offer).                                                *)
LinesAreTrue ==
    fresh =>
      /\ \A c \in VaultCoins : loans[c] # None =>
           LET r == loans[c] IN
           IF ~Known(r.opening.tx) THEN r.state = "GHOST"
           ELSE /\ r.line # <<>> /\ r.line[1].coin = c /\ IsTrue(r.line)
                /\ \A n \in 2..Len(r.line) : r.line[n].event = kind[r.line[n].tx]
                /\ \A n \in 1..Len(r.line) :
                     r.line[n].coin # None => r.line[n].owes = Owes[r.line[n].coin]
      /\ offer # None /\ offer.status # "ghost" =>
           /\ IsTrue(offer.line)
           /\ offer.status = "open" <=> Last(offer.line).coin # None

(* A poll judges the copy it took; another offer may have been published   *)
(* since, and what it says of the copy it writes over that (v2_items).     *)
Judged == IF poll.phase = "offers" /\ poll.offer # None THEN {offer, poll.offer}
          ELSE {offer}

(* A loan or an offer is called a ghost only when the coin that opened or  *)
(* funded it has left the chain and the mempool ("A loan whose opening     *)
(* coin has gone is GHOST: its funding was undone"); or, of an offer       *)
(* published inside a poll, the coin of the one the poll had copied.       *)
GhostsAreGone ==
    [][/\ \A c \in VaultCoins :
            loans[c] # None /\ loans[c].state # "GHOST"
            /\ loans'[c] # None /\ loans'[c].state = "GHOST"
            => ~Known(loans[c].opening.tx)
       /\ offer # None /\ offer.status # "ghost"
          /\ offer' # None /\ offer'.status = "ghost"
          => \E o \in Judged : ~Known(o.line[1].tx)]_vars

(* Every take on the offer's line opened a loan the book has ("A loan      *)
(* opened from any wallet therefore shows up here without anyone           *)
(* registering it"), through crashes and unanswered questions as well.  Of *)
(* two takes that one poll found, a request that writes the book between   *)
(* them and a crash after it lose the second: the offer's line is on disk  *)
(* and its loan is not, and no poll reads the take again.                  *)
TakesAreLoans ==
    poll.phase = "idle" /\ offer # None =>
        \A n \in 2..Len(offer.line) :
            offer.line[n].event = "take" => loans[VaultOf(offer.line[n].tx)] # None

(* No two loans follow one vault ("A loan registered at a later coin of a  *)
(* line the watcher already follows is that loan, not another").           *)
OneLoanPerVault ==
    \A c, d \in VaultCoins :
        c # d /\ loans[c] # None /\ loans[d] # None =>
            \A n \in 1..Len(loans[c].line) :
                loans[c].line[n].coin # None
                => ~HasCoin(loans[d], loans[c].line[n].coin)

(* The poll holds a copy of the record taken before the script came; what  *)
(* put_v2 puts back is that copy, reconciled.                              *)
Overwritten(c) ==
    poll.phase = "loans" /\ poll.loans[c] # None /\ ~poll.loans[c].named

(* A payout script a borrower registered stays with the loan, which cannot *)
(* be closed without it (open_v2_loan), whatever the polls, requests and   *)
(* restarts: only a poll that copied the record before the script came can *)
(* take it away again (v2_items, put_v2).                                  *)
RegisteredIsKept ==
    [][\A c \in VaultCoins :
         loans[c] # None /\ loans[c].named
         => loans'[c] # None /\ (loans'[c].named \/ Overwritten(c))]_vars

(* How often an offer's line was taken is what the book counts.  Not so    *)
(* after a reorg: nothing takes back what was counted.                     *)
TakenIsCounted ==
    fresh /\ offer # None /\ offer.status # "ghost" =>
        offer.taken = Cardinality({n \in 1..Len(offer.line) : offer.line[n].event = "take"})
=============================================================================
