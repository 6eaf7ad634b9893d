----------------------------- MODULE OfferWatch -----------------------------
(***************************************************************************)
(* One funded offer under VaultWatcher (pignus/watcher.py), the events it  *)
(* queues, and the record pignusd keeps of the offer and of the loans it   *)
(* opened (pignus/book.py).  The offer is a coin: a take leaves a          *)
(* remainder or nothing, a refund withdraws it.                            *)
(*                                                                         *)
(* A move read from the mempool is believed at once and unwound if its     *)
(* transaction goes; a move read from a block is undone with the block.    *)
(***************************************************************************)
EXTENDS Scanner

CONSTANTS
    Refunds,        \* the transactions that withdraw; the others take
    FirstCoin,      \* the coin "fund" makes
    MaxRestarts,
    MaxPublished,   \* how often the publisher lists the coin again
    MayDelist,
    FromBoard,      \* who spends the offer found it on the board, buried
    LateRemainders  \* ... even a remainder, after a reorg or a new listing

VARIABLES
    o,              \* the watcher's Offer
    events,         \* its queue
    book,           \* the offer's record
    loans,          \* the takes whose loans are in the book
    disk,           \* the book as last written
    restarts,
    published,
    asking,         \* a publisher's request is about to refresh the record
    takes           \* every take that was ever seen

watch == <<o, events>>
record == <<book, loans, disk>>
rest == <<restarts, published, asking, takes>>
vars == <<ledger, scan, fails, poll, quiet, watch, record, rest>>

ASSUME OfferAssumption ==
    /\ Refunds \subseteq Txs \ {"fund"}
    /\ FirstCoin \in Coins /\ FirstCoin \in Makes["fund"]
    /\ MaxRestarts \in Nat /\ MaxPublished \in Nat
    /\ MayDelist \in BOOLEAN
    /\ FromBoard \in BOOLEAN /\ LateRemainders \in BOOLEAN

Takes == Txs \ ({"fund"} \cup Refunds)
(* The coin a take in part leaves the offer. *)
Remainder(x) == IF Makes[x] = {} THEN None ELSE CHOOSE c \in Makes[x] : TRUE
Gone == {"taken", "withdrawn", "gone"}
Watched == {"open", "ghost", "delisted"}

Move == [coin : Coins, status : Watched, height : 0..MaxHeight,
         conf : 0..MaxHeight, by : Txs]
Offer == [coin : Coins, status : Watched \cup Gone, conf : 0..MaxHeight,
          seen : BOOLEAN, back : 0..MaxHeight + 1, history : Seq(Move)]
Event == [kind : Watched \cup Gone, tx : Txs \cup {None},
          rem : Coins \cup {None}]
(* taken: how many takes; by: taken_txids. *)
Listing == [status : Watched \cup Gone, coin : Coins, conf : 0..MaxHeight,
            taken : Nat, by : SUBSET Txs]

TypeOK ==
    /\ LedgerTypeOK /\ ScannerTypeOK
    /\ o \in Offer /\ events \in Seq(Event)
    /\ book \in Listing /\ loans \subseteq Takes
    /\ disk \in [book : Listing, loans : SUBSET Takes]
    /\ restarts \in 0..MaxRestarts /\ published \in 0..MaxPublished
    /\ asking \in BOOLEAN
    /\ takes \subseteq Takes

NewOffer(b) ==
    [coin |-> b.coin, status |-> b.status, conf |-> b.conf, seen |-> FALSE,
     back |-> 0, history |-> <<>>]
NewListing ==
    [status |-> "open", coin |-> FirstCoin, conf |-> 0, taken |-> 0, by |-> {}]

(* The offer was just funded and listed; its funding may not be mined yet. *)
Init ==
    /\ \/ /\ chain = <<[fork |-> 0, txs |-> {}]>>
          /\ mempool = {"fund"}
       \/ /\ chain = <<[fork |-> 0, txs |-> {}], [fork |-> 0, txs |-> {"fund"}]>>
          /\ mempool = {}
    /\ forks = 0 /\ evictions = 0
    /\ ScannerInit(Height)
    /\ book = NewListing /\ loans = {}
    /\ disk = [book |-> book, loans |-> loans]
    /\ o = NewOffer(book) /\ events = <<>>
    /\ restarts = 0 /\ published = 0 /\ asking = FALSE /\ takes = {}

-----------------------------------------------------------------------------
(* Moves: a state of these is the offer q and the events e it queues.      *)

Is(q) == [q |-> q, e |-> <<>>]
Reopened(q) == [kind |-> q.status, tx |-> None, rem |-> q.coin]

(* Mutant: the coin's status is all that matters, not where it rests. *)
SpentTwice(s, x, h) ==
    LET q == s.q
        rem == Remainder(x)
    IN  [q |-> [q EXCEPT !.status = IF x \in Refunds THEN "withdrawn"
                                    ELSE IF rem = None THEN "taken" ELSE "open",
                         !.coin = IF rem = None THEN @ ELSE rem],
         e |-> Append(s.e, [kind |-> IF x \in Refunds THEN "withdrawn"
                                     ELSE "taken", tx |-> x, rem |-> rem])]

(* _offer_spent: x, at height h or in the mempool (0), spends the coin. *)
Spent(s, x, h) ==
    LET q == s.q
        rem == Remainder(x)
        moved == [q EXCEPT !.history =
                    Append(@, [coin |-> q.coin, status |-> q.status,
                               height |-> h, conf |-> q.conf, by |-> x])]
    IN  IF q.status # "open" THEN s
        ELSE IF x \in Refunds
        THEN [q |-> [moved EXCEPT !.status = "withdrawn"],
              e |-> Append(s.e, [kind |-> "withdrawn", tx |-> x, rem |-> None])]
        ELSE [q |-> IF rem = None THEN [moved EXCEPT !.status = "taken"]
                    ELSE [moved EXCEPT !.coin = rem, !.conf = 0],
              e |-> Append(s.e, [kind |-> "taken", tx |-> x, rem |-> rem])]

(* _inspect_tx for a block's transactions, each after what it spends; the  *)
(* offer's coin moves as often as it has coins.                            *)
SpentIn(s, txs, h) ==
    LET by == Spenders(s.q.coin) \cap txs
    IN  IF by = {} THEN s ELSE Spent(s, CHOOSE x \in by : TRUE, h)
Inspect(s, txs, h) == SpentIn(SpentIn(s, txs, h), txs, h)

(* What is put back with a move that is undone. *)
Back(q, n, conf) ==
    [q EXCEPT !.coin = q.history[n].coin, !.status = q.history[n].status,
              !.conf = conf, !.back = 0, !.history = SubSeq(@, 1, n - 1)]

(* _undo_above, the offers: the moves above the ancestor, last ones first. *)
UndoneAbove(ancestor) ==
    LET n == Len(o.history)
        kept == {k \in 0..n : /\ \A i \in k + 1 .. n :
                                   o.history[i].height > ancestor}
        back == Back(o, Lowest(kept) + 1, 0)
    IN  IF Lowest(kept) = n THEN Is(o)
        ELSE [q |-> back, e |-> <<Reopened(back)>>]

(* _unwind_provisional: the last move was never mined, as far as the       *)
(* watcher knows, and is no longer in the mempool.                         *)
MayUnwind(q) ==
    LET n == Len(q.history)
    IN  /\ n > 0
        /\ q.history[n].height = 0
        /\ q.history[n].by \notin Pool
Unwound(s) ==
    LET n == Len(s.q.history)
        back == Back(s.q, n, s.q.history[n].conf)
    IN  [q |-> back,
         e |-> Append(s.e, [Reopened(back) EXCEPT !.kind = "open"])]

(* gettxout's answer: the coin is there. *)
Resting(s, conf) ==
    LET q == [s.q EXCEPT !.conf = conf, !.seen = TRUE, !.back = 0]
    IN  IF q.status = "ghost"
        THEN [q |-> [q EXCEPT !.status = "open"],
              e |-> Append(s.e, [Reopened(q) EXCEPT !.kind = "open"])]
        ELSE [s EXCEPT !.q = q]

(* No coin and no spender: undone, out of reach, or still looking. *)
Lost(s, to) ==
    LET unburied == s.q.seen /\ s.q.conf < MinDepth
        kind == IF s.q.conf < MinDepth THEN "ghost" ELSE "gone"
        q == [s.q EXCEPT !.back = to]
    IN  IF (~unburied /\ ~Exhausted(to, poll.tip)) \/ Behind
        THEN [s EXCEPT !.q = q]
        ELSE [q |-> [q EXCEPT !.status = kind],
              e |-> Append(s.e, [kind |-> kind, tx |-> None, rem |-> None])]

(* gettxout's answer: it is not; look for who spent it. *)
Missing(s, to) ==
    LET q == s.q
        unburied == q.seen /\ q.conf < MinDepth
        pooled == {[tx |-> x, height |-> 0] : x \in PoolSpenders(q.coin)}
        found == IF unburied THEN pooled ELSE Found(q.coin, q.back, poll.tip, to)
        walks == ~unburied /\ pooled = {} /\ ~Exhausted(q.back, poll.tip)
    IN  IF found # {}
        THEN LET f == CHOOSE g \in found : TRUE
             IN  Spent(IF walks THEN [s EXCEPT !.q.back = f.height] ELSE s,
                       f.tx, f.height)
        ELSE Lost(s, IF walks THEN to ELSE q.back)

(* The coin is not where the offer is: a move that was never mined is      *)
(* undone first, and its coin asked about.                                 *)
Sought(s, to) ==
    LET u == Unwound(s)
    IN  IF s.q.status = "ghost" THEN s
        ELSE IF ~MayUnwind(s.q) THEN Missing(s, to)
        ELSE IF Unspent(u.q.coin) THEN Resting(u, Confirmations(u.q.coin))
        ELSE Missing(u, to)

(* _refresh_offer, once the question it starts with is answered. *)
Refreshed(to) ==
    LET u == Unwound(Is(o))
    IN  IF o.status \in Gone
        THEN IF ~MayUnwind(o) THEN Is(o)
             ELSE IF Unspent(u.q.coin) THEN Resting(u, Confirmations(u.q.coin))
             ELSE Sought(u, to)
        ELSE IF ~poll.answered THEN Is(o)
        ELSE IF poll.out THEN Resting(Is(o), poll.conf)
        ELSE Sought(Is(o), to)

(* Mutant: the queue is what was found last. *)
BecomesLast(s) == o' = s.q /\ events' = s.e

(* The offer is q now, and its events are queued. *)
Becomes(s) == o' = s.q /\ events' = events \o s.e

-----------------------------------------------------------------------------
(* poll *)

Begin == [NoPoll EXCEPT !.tip = Height, !.calm = TRUE]

PollFirst ==
    /\ poll.phase = "idle" /\ scanned = -1
    /\ scanned' = Height
    /\ hashes' = [hashes EXCEPT ![Height] = HashAt(Height)]
    /\ poll' = [Begin EXCEPT !.phase = "batch"]
    /\ UNCHANGED <<ledger, quiet, fails, watch, record, rest>>

PollStart ==
    /\ poll.phase = "idle" /\ scanned # -1
    /\ IF NotReorged(Height)
       THEN UNCHANGED <<scan, watch>>
       ELSE LET ancestor == Ancestor(Height)
            IN  /\ Becomes(UndoneAbove(ancestor))
                /\ scanned' = ancestor
                /\ hashes' = Forget(hashes, ancestor + 1 .. MaxHeight)
    /\ poll' = [Begin EXCEPT !.phase = "scan"]
    /\ UNCHANGED <<ledger, quiet, fails, record, rest>>

(* refresh_one: the publisher's request looks at its record, without the   *)
(* scan, or leaves it to the poll that holds the lock.                     *)
RefreshOne ==
    /\ asking /\ asking' = FALSE
    /\ poll' = IF poll.phase # "idle" THEN poll
               ELSE [Begin EXCEPT !.phase = "alone", !.one = TRUE, !.calm = FALSE]
    /\ UNCHANGED <<ledger, quiet, scan, fails, watch, record, restarts,
                   published, takes>>

ScanBlock ==
    LET h == scanned + 1
    IN  /\ poll.phase = "scan" /\ scanned < poll.tip /\ h <= Height
        /\ Becomes(Inspect(Is(o), chain[h].txs, h))
        /\ scanned' = h
        /\ hashes' = [hashes EXCEPT ![h] = HashAt(h)]
        /\ UNCHANGED <<ledger, fails, poll, quiet, record, rest>>

(* A block that cannot be read ends the scan for this poll. *)
ScanBroken ==
    /\ poll.phase = "scan" /\ scanned < poll.tip
    /\ Unanswered \/ (scanned + 1 > Height /\ UNCHANGED fails)
    /\ poll' = [poll EXCEPT !.phase = "batch", !.calm = FALSE]
    /\ UNCHANGED <<ledger, scan, quiet, watch, record, rest>>

ScanDone ==
    /\ poll.phase = "scan" /\ scanned >= poll.tip
    /\ poll' = [poll EXCEPT !.phase = "batch"]
    /\ UNCHANGED <<ledger, scan, fails, quiet, watch, record, rest>>

AskTxout ==
    /\ poll.phase \in {"batch", "alone"}
    /\ \/ /\ poll' = [poll EXCEPT !.phase = "refresh", !.answered = TRUE,
                                  !.out = Unspent(o.coin),
                                  !.conf = IF Unspent(o.coin)
                                           THEN Confirmations(o.coin) ELSE 0]
          /\ UNCHANGED fails
       \/ /\ Unanswered
          /\ poll' = [poll EXCEPT !.calm = FALSE,
                       !.phase = IF @ = "batch" THEN "alone" ELSE "refresh"]
    /\ UNCHANGED <<ledger, scan, quiet, watch, record, rest>>

ReadPool ==
    /\ ReadMempool
    /\ UNCHANGED <<ledger, scan, quiet, watch, record, rest>>

(* _forget_below: moves that no rewind can reach; unmined ones are kept. *)
Forgotten(q) ==
    IF poll.one THEN q
    ELSE [q EXCEPT !.history = SelectSeq(@, LAMBDA m :
            m.height = 0 \/ m.height >= poll.tip - RescanDepth)]

(* Where a move is unwound, the coin it is unwound to may be asked about   *)
(* in vain.                                                                *)
MayLoseUnwound ==
    MayUnwind(o) /\ (o.status \in Gone \/ (poll.answered /\ ~poll.out
                                           /\ o.status # "ghost"))

Refresh ==
    /\ poll.phase = "refresh"
    /\ \E to \in WalkEnds(o.back, poll.tip), lost \in {FALSE, MayLoseUnwound} :
         LET s == IF lost THEN Unwound(Is(o)) ELSE Refreshed(to)
         IN  /\ Becomes([s EXCEPT !.q = Forgotten(s.q)])
             /\ IF lost THEN Unanswered ELSE UNCHANGED fails
             /\ poll' = [poll EXCEPT !.phase = "apply", !.calm = @ /\ ~lost]
    /\ hashes' = IF poll.one THEN hashes
                 ELSE Forget(hashes,
                             {h \in Heights : h < poll.tip - RescanDepth})
    /\ UNCHANGED <<ledger, scanned, quiet, record, rest>>

-----------------------------------------------------------------------------
(* pignusd: the events in order, then the record itself, then the file.    *)

(* Counted once per transaction. *)
Taken(b, ev) ==
    LET c == IF ev.tx \in b.by THEN b
             ELSE [b EXCEPT !.taken = @ + 1, !.by = @ \cup {ev.tx}]
    IN  IF ev.rem = None THEN [c EXCEPT !.status = "taken"]
        ELSE [c EXCEPT !.coin = ev.rem, !.conf = 0]

(* _apply_offer_event; a refresh_one leaves the queue to the next poll. *)
ApplyEvent ==
    /\ poll.phase = "apply" /\ ~poll.one /\ events # <<>>
    /\ LET ev == Head(events)
       IN  IF ev.kind = "taken"
           THEN /\ book' = Taken(book, ev)
                /\ loans' = loans \cup {ev.tx}
           ELSE /\ book' = [book EXCEPT !.status = ev.kind]
                /\ UNCHANGED loans
    /\ events' = Tail(events)
    /\ UNCHANGED <<ledger, scan, fails, poll, quiet, o, disk, rest>>

(* _reconcile_offer *)
Reconciled(b) ==
    IF o.status = "open" THEN [b EXCEPT !.coin = o.coin, !.conf = o.conf]
    ELSE IF b.status = "open" THEN [b EXCEPT !.status = o.status]
    ELSE b

(* The write that ends the batch. *)
Reconcile ==
    /\ poll.phase = "apply" /\ (poll.one \/ events = <<>>)
    /\ book' = Reconciled(book)
    /\ disk' = [book |-> book', loans |-> loans]
    /\ poll' = NoPoll
    /\ Quieter(poll.calm)
    /\ UNCHANGED <<ledger, scan, fails, watch, loans, rest>>

(* delist_offer writes the whole book, a batch's half-made part of it too. *)
Delist ==
    /\ MayDelist
    /\ book.status = "open"
    /\ book' = [book EXCEPT !.status = "delisted"]
    /\ disk' = [book |-> book', loans |-> loans]
    /\ UNCHANGED <<ledger, scan, fails, poll, quiet, watch, loans, rest>>

(* put_offer: the coin is checked and listed again by its publisher, or by *)
(* anybody once it was delisted.  Its count survives with its publisher.   *)
Publish ==
    /\ published < MaxPublished
    /\ published' = published + 1
    /\ Unspent(FirstCoin)
    /\ book' = [NewListing EXCEPT
                  !.conf = Confirmations(FirstCoin),
                  !.taken = IF book.status = "delisted" THEN 0 ELSE book.taken]
    /\ disk' = [book |-> book', loans |-> loans]
    /\ quiet' = 0 /\ asking' = TRUE
    /\ UNCHANGED <<ledger, scan, fails, poll, watch, loans, restarts, takes>>

(* pignusd dies or is restarted; _track_new hands the watcher what the     *)
(* book has of an offer that is not finished.                              *)
Restart ==
    /\ restarts < MaxRestarts
    /\ restarts' = restarts + 1
    /\ book' = disk.book /\ loans' = disk.loans
    /\ o' = NewOffer(disk.book) /\ events' = <<>>
    /\ scanned' = -1
    /\ hashes' = [h \in Heights |-> -1]
    /\ poll' = NoPoll
    /\ quiet' = 0 /\ asking' = FALSE
    /\ UNCHANGED <<ledger, fails, disk, published, takes>>

-----------------------------------------------------------------------------
OnBoard(x) ==
    /\ book.status = "open" /\ book.coin = Spends[x]
    /\ book.conf >= MinDepth

ChainStep ==
    /\ LedgerStep
    /\ chain' = chain =>
         \A x \in (mempool' \ mempool) \ {"fund"} :
           /\ FromBoard => OnBoard(x)
           /\ LateRemainders \/ Spends[x] = FirstCoin \/ forks + published = 0
    /\ takes' = takes \cup {x \in Takes : x \in mempool'}
    /\ UNCHANGED <<scan, fails, watch, record, restarts, published, asking>>

Watcher ==
    \/ PollFirst \/ PollStart \/ RefreshOne
    \/ ScanBlock \/ ScanBroken \/ ScanDone
    \/ AskTxout \/ ReadPool \/ Refresh

Next ==
    \/ Watcher \/ ApplyEvent \/ Reconcile
    \/ Delist \/ Publish \/ Restart \/ ChainStep

Spec == Init /\ [][Next]_vars

-----------------------------------------------------------------------------
(* Properties. *)

OnShelf == {c \in Coins : Unspent(c)}

(* After an undisturbed poll the board is the shelf: a coin that can be    *)
(* taken is listed, where it rests, unless its lister took it off ("hiding *)
(* a coin that is still on the shelf"), and "an offer nobody can take must *)
(* not stay on the page as one anybody can".                               *)
BoardIsShelf ==
    Fresh =>
      /\ \A c \in OnShelf : book.coin = c /\ book.status \in {"open", "delisted"}
      /\ Known("fund") /\ OnShelf = {} => book.status # "open"

(* The event "is what registers the loan an offer opened": after an        *)
(* undisturbed poll every take of the offer has its loan in the book, and  *)
(* none is counted more than "once per TRANSACTION".  A restart forgets    *)
(* the queue.                                                              *)
TakesAreBooked ==
    /\ Fresh /\ restarts = 0 => {x \in Takes : Known(x)} \subseteq loans
    /\ book.taken <= Cardinality(takes)

(* "Hidden from every listing": nothing but its being listed again brings  *)
(* a delisted offer back to the board.                                     *)
DelistedStaysOff ==
    [][book.status = "delisted" /\ book'.status = "open"
         => published' > published]_vars
=============================================================================
