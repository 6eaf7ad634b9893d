----------------------------- MODULE VaultWatch -----------------------------
(***************************************************************************)
(* One vault under VaultWatcher (pignus/watcher.py) and the record of it   *)
(* pignusd keeps in its book.  The vault is funded by "fund" and left by   *)
(* one of its exits.  The watcher has only what the node answers: blocks,  *)
(* gettxout and the mempool; its verdict is v.state.  A restart of pignusd *)
(* keeps the book and loses everything else.                               *)
(***************************************************************************)
EXTENDS Scanner

CONSTANTS
    MaxRestarts,
    MayRequest      \* requests refresh the record between polls

VARIABLES
    v,              \* the watcher's Vault
    book,           \* what the book has of it
    restarts,
    buried,         \* the blocks that ever held the funding
    undone          \* the funding was once out of the chain and the mempool,
                    \* or its block replaced

watch == <<v, book, restarts>>
vars == <<ledger, scan, fails, poll, quiet, watch, buried, undone>>

Exits == Txs \ {"fund"}
VaultCoin == "vault"

ASSUME VaultAssumption ==
    /\ MaxRestarts \in Nat
    /\ MayRequest \in BOOLEAN
    /\ "fund" \in Txs /\ VaultCoin \in Coins
    /\ Spends["fund"] = None /\ Makes["fund"] = {VaultCoin}
    /\ \A x \in Exits : Spends[x] = VaultCoin /\ Makes[x] = {}

(* _name_exit: the leaf, or its selector, names the exit. *)
ExitState(x) == CASE x = "repay"     -> "REPAID"
                  [] x = "liquidate" -> "LIQUIDATED"
                  [] x = "default"   -> "DEFAULTED"
                  [] x = "recover"   -> "RECOVERED"
                  [] OTHER           -> "SPENT_UNKNOWN"

Closed == {"REPAID", "LIQUIDATED", "DEFAULTED", "RECOVERED",
           "SPENT_UNKNOWN", "GHOST"}
States == Closed \cup {"UNCONFIRMED", "LIVE"}

(* seen: last_seen_height is not 0; back: scanned_back_to; fundHeight and  *)
(* fundBlock: the block that buried the funding, or 0 and -1.              *)
Vault == [state : States, conf : 0..MaxHeight, by : Exits \cup {None},
          height : 0..MaxHeight, fundHeight : 0..MaxHeight,
          fundBlock : -1..MaxForks, seen : BOOLEAN, back : 0..MaxHeight + 1]
NewVault == [state |-> "UNCONFIRMED", conf |-> 0, by |-> None, height |-> 0,
             fundHeight |-> 0, fundBlock |-> -1, seen |-> FALSE, back |-> 0]

TypeOK ==
    /\ LedgerTypeOK /\ ScannerTypeOK
    /\ v \in Vault /\ book \in Vault
    /\ restarts \in 0..MaxRestarts
    /\ buried \subseteq [height : Heights, block : 0..MaxForks]
    /\ undone \in BOOLEAN

(* Mutant: a close seen in the mempool is as good as one in a block. *)
SettledUnmined == v.state \in Closed \ {"GHOST"}
Settled == v.state \in Closed \ {"GHOST"} /\ v.height > 0
Final(tip) == Settled /\ tip - v.height + 1 >= RescanDepth

(* A watcher that has been up since block 1 and has just been handed a     *)
(* vault whose funding is in the mempool.                                  *)
Init ==
    /\ chain = <<[fork |-> 0, txs |-> {}]>>
    /\ mempool = {"fund"}
    /\ forks = 0 /\ evictions = 0
    /\ ScannerInit(1)
    /\ v = NewVault /\ book = NewVault
    /\ restarts = 0
    /\ buried = {} /\ undone = FALSE

-----------------------------------------------------------------------------
(* poll: the tip, the rewind, then one step a block. *)

(* _undo_above: what was read out of the blocks above the ancestor. *)
UndoneAbove(ancestor) ==
    LET u == IF v.height <= ancestor THEN v
             ELSE [v EXCEPT !.by = None, !.height = 0,
                            !.state = "UNCONFIRMED", !.back = 0]
        replaced == \/ v.fundBlock = -1
                    \/ v.fundHeight <= Height
                         /\ HashAt(v.fundHeight) # v.fundBlock
    IN  IF v.fundHeight > ancestor /\ replaced
        THEN [u EXCEPT !.fundHeight = 0, !.fundBlock = -1, !.state = "GHOST",
                       !.conf = 0, !.back = 0]
        ELSE u

Begin == [NoPoll EXCEPT !.tip = Height, !.calm = TRUE]

PollFirst ==
    /\ poll.phase = "idle" /\ scanned = -1
    /\ scanned' = Height
    /\ hashes' = [hashes EXCEPT ![Height] = HashAt(Height)]
    /\ poll' = [Begin EXCEPT !.phase = "batch"]
    /\ UNCHANGED <<ledger, quiet, fails, watch, buried, undone>>

PollStart ==
    /\ poll.phase = "idle" /\ scanned # -1
    /\ IF NotReorged(Height)
       THEN UNCHANGED <<scan, v>>
       ELSE LET ancestor == Ancestor(Height)
            IN  /\ v' = UndoneAbove(ancestor)
                /\ scanned' = ancestor
                /\ hashes' = Forget(hashes, ancestor + 1 .. MaxHeight)
    /\ poll' = [Begin EXCEPT !.phase = "scan"]
    /\ UNCHANGED <<ledger, quiet, fails, book, restarts, buried, undone>>

(* The node did not give a hash: nothing is undone this poll. *)
PollStartUnanswered ==
    /\ poll.phase = "idle" /\ scanned # -1
    /\ ~NotReorged(Height)
    /\ Unanswered
    /\ poll' = [Begin EXCEPT !.phase = "scan", !.calm = FALSE]
    /\ UNCHANGED <<ledger, quiet, scan, watch, buried, undone>>

(* refresh_one: one record outside a poll, without the scan. *)
RefreshOne ==
    /\ MayRequest
    /\ poll.phase = "idle"
    /\ poll' = [Begin EXCEPT !.phase = "alone", !.one = TRUE, !.calm = FALSE]
    /\ UNCHANGED <<ledger, quiet, scan, fails, watch, buried, undone>>

(* _inspect_tx: an exit in a block closes the vault, unless it is settled. *)
ScanBlock ==
    LET h == scanned + 1
        exits == SpendersAt(VaultCoin, h)
    IN  /\ poll.phase = "scan" /\ scanned < poll.tip /\ h <= Height
        /\ v' = IF exits = {} \/ Settled THEN v
                ELSE LET x == CHOOSE y \in exits : TRUE
                     IN  [v EXCEPT !.state = ExitState(x), !.by = x,
                                   !.height = h]
        /\ scanned' = h
        /\ hashes' = [hashes EXCEPT ![h] = HashAt(h)]
        /\ UNCHANGED <<ledger, fails, poll, quiet, book, restarts, buried,
                       undone>>

(* A block that cannot be read ends the scan for this poll. *)
ScanBroken ==
    /\ poll.phase = "scan" /\ scanned < poll.tip
    /\ Unanswered \/ (scanned + 1 > Height /\ UNCHANGED fails)
    /\ poll' = [poll EXCEPT !.phase = "batch", !.calm = FALSE]
    /\ UNCHANGED <<ledger, scan, quiet, watch, buried, undone>>

ScanDone ==
    /\ poll.phase = "scan" /\ scanned >= poll.tip
    /\ poll' = [poll EXCEPT !.phase = "batch"]
    /\ UNCHANGED <<ledger, scan, fails, quiet, watch, buried, undone>>

-----------------------------------------------------------------------------
(* _refresh *)

(* _prefetch_txouts: gettxout for all records at once, before any of them  *)
(* is judged; if that fails, each is asked alone when its turn comes.      *)
AskTxout ==
    /\ poll.phase \in {"batch", "alone"}
    /\ \/ /\ poll' = [poll EXCEPT !.phase = "refresh", !.answered = TRUE,
                                  !.out = Unspent(VaultCoin),
                                  !.conf = IF Unspent(VaultCoin)
                                           THEN Confirmations(VaultCoin)
                                           ELSE 0]
          /\ UNCHANGED fails
       \/ /\ Unanswered
          /\ poll' = [poll EXCEPT !.calm = FALSE,
                       !.phase = IF @ = "batch" THEN "alone" ELSE "refresh"]
    /\ UNCHANGED <<ledger, scan, quiet, watch, buried, undone>>

(* Mutant: the pair is never checked against the block. *)
FundingPairsUnchecked(conf) ==
    LET h == poll.tip - conf + 1
    IN  IF v.fundBlock # -1 \/ conf < 1 \/ h < 1 \/ h > Height THEN {}
        ELSE {[height |-> h, block |-> HashAt(h)]}

(* Mutant: ... and the block taken for it is the best one. *)
FundingPairsBest(conf) ==
    IF v.fundBlock # -1 \/ conf < 1 THEN {}
    ELSE {[height |-> poll.tip - conf + 1, block |-> HashAt(Height)]}

(* _record_funding: the pair, once, from the tip of the poll if that is    *)
(* still the tip, else from the neighbour that holds the funding.          *)
FundingPairs(conf) ==
    LET h == poll.tip - conf + 1
        near == {k \in {h - 1, h, h + 1} \cap 1..Height : "fund" \in chain[k].txs}
    IN  IF v.fundBlock # -1 \/ conf < 1 \/ h < 1 THEN {}
        ELSE IF Height = poll.tip
        THEN {[height |-> h, block |-> HashAt(h)]}
        ELSE {[height |-> k, block |-> HashAt(k)] : k \in near}

SeenUnspent(conf, pairs) ==
    LET reopened == v.state \in Closed \ {"GHOST"}
    IN  [state |-> IF conf >= MinDepth THEN "LIVE" ELSE "UNCONFIRMED",
         conf |-> conf,
         by |-> IF reopened THEN None ELSE v.by,
         height |-> IF reopened THEN 0 ELSE v.height,
         fundHeight |-> IF pairs = {} THEN v.fundHeight
                        ELSE (CHOOSE p \in pairs : TRUE).height,
         fundBlock |-> IF pairs = {} THEN v.fundBlock
                       ELSE (CHOOSE p \in pairs : TRUE).block,
         seen |-> TRUE, back |-> 0]

ClosedBy(x, h) == [v EXCEPT !.state = ExitState(x), !.by = x, !.height = h]

Unburied == v.seen /\ v.conf < MinDepth

(* _funding_reorged: yes, no, or no telling. *)
FundingReorged ==
    IF v.fundBlock = -1 \/ v.fundHeight = 0 THEN "unknown"
    ELSE IF poll.tip < v.fundHeight THEN "yes"
    ELSE IF v.fundHeight > Height THEN "unknown"
    ELSE IF HashAt(v.fundHeight) # v.fundBlock THEN "yes" ELSE "no"

(* No coin and no spender: undone, out of reach, or still looking. *)
Unexplained(back, reorged) ==
    LET never == reorged = "unknown" /\ v.conf < MinDepth
        decided == reorged = "yes" \/ (never /\ v.seen)
        u == [v EXCEPT !.back = back]
    IN  IF \/ never /\ Behind
           \/ ~decided /\ ~Exhausted(back, poll.tip)
        THEN u
        ELSE IF reorged = "yes" \/ never
        THEN [u EXCEPT !.state = "GHOST", !.conf = 0]
        ELSE [u EXCEPT !.state = "SPENT_UNKNOWN"]

(* The output is not there. *)
SeenGone(to, reorged) ==
    LET found == IF Unburied
                 THEN {[tx |-> x, height |-> 0] : x \in PoolSpenders(VaultCoin)}
                 ELSE Found(VaultCoin, v.back, poll.tip, to)
        walks == ~Unburied /\ PoolSpenders(VaultCoin) = {}
                   /\ ~Exhausted(v.back, poll.tip)
        back == IF ~walks THEN v.back
                ELSE IF found = {} THEN to
                ELSE (CHOOSE f \in found : TRUE).height
    IN  IF v.state = "GHOST" THEN v
        ELSE IF v.state \in Closed
        THEN LET other == PoolSpenders(VaultCoin) \ {v.by}
             IN  IF other = {} THEN v ELSE ClosedBy(CHOOSE x \in other : TRUE, 0)
        ELSE IF found # {}
        THEN LET f == CHOOSE g \in found : TRUE
             IN  [ClosedBy(f.tx, f.height) EXCEPT !.back = back]
        ELSE Unexplained(back, reorged)

(* Mutant: the book remembers that the vault was seen, too. *)
WriteSeen(u) == book' = [u EXCEPT !.back = 0]

(* _reconcile_loan writes what is persistent of it when the poll is over. *)
Write(u) == book' = [u EXCEPT !.seen = FALSE, !.back = 0]

EndPoll(calm) ==
    /\ poll' = NoPoll
    /\ hashes' = IF poll.one THEN hashes
                  ELSE Forget(hashes,
                              {h \in Heights : h < poll.tip - RescanDepth})
    /\ Quieter(calm /\ poll.calm)
    /\ UNCHANGED <<ledger, scanned, restarts, buried, undone>>

Refresh ==
    /\ poll.phase = "refresh"
    /\ \E to \in WalkEnds(v.back, poll.tip) :
         v' = IF Final(poll.tip) \/ ~poll.answered THEN v
              ELSE IF poll.out THEN SeenUnspent(poll.conf, FundingPairs(poll.conf))
              ELSE SeenGone(to, FundingReorged)
    /\ Write(v')
    /\ EndPoll(TRUE)
    /\ UNCHANGED fails

(* A question on the way goes unanswered: the pair waits for the next      *)
(* poll, the walk breaks off, or nothing is known of the funding's block.  *)
RefreshUnanswered ==
    /\ poll.phase = "refresh"
    /\ poll.answered /\ ~Final(poll.tip)
    /\ Unanswered
    /\ \/ poll.out /\ v' = SeenUnspent(poll.conf, {})
       \/ /\ ~poll.out
          /\ \/ \E to \in WalkBreaks(v.back, poll.tip) :
                  v' = SeenGone(to, FundingReorged)
             \/ \E to \in WalkEnds(v.back, poll.tip) :
                  v' = SeenGone(to, "unknown")
    /\ Write(v')
    /\ EndPoll(FALSE)

ReadPool ==
    /\ ReadMempool
    /\ UNCHANGED <<ledger, scan, quiet, watch, buried, undone>>

-----------------------------------------------------------------------------
(* pignusd is restarted, with --rescan-from or without: _track_new hands   *)
(* the watcher what the book has.                                          *)
Restart ==
    /\ restarts < MaxRestarts
    /\ restarts' = restarts + 1
    /\ v' = book
    /\ \/ scanned' = -1
       \/ \E h \in 0..Height : scanned' = h
    /\ hashes' = [h \in Heights |-> -1]
    /\ poll' = NoPoll
    /\ quiet' = 0
    /\ UNCHANGED <<ledger, fails, book, buried, undone>>

(* The chain moves; buried and undone remember what properties ask about.  *)
ChainStep ==
    /\ LedgerStep
    /\ buried' = buried \cup {[height |-> h, block |-> chain'[h].fork] :
                                h \in {k \in 1..Len(chain') :
                                         "fund" \in chain'[k].txs}}
    /\ undone' = \/ undone
                 \/ \E b \in buried : \/ b.height > Len(chain')
                                       \/ chain'[b.height].fork # b.block
                 \/ Known("fund") /\ ~(Known("fund"))'
    /\ UNCHANGED <<scan, fails, watch>>

Watcher ==
    \/ PollFirst \/ PollStart \/ PollStartUnanswered \/ RefreshOne
    \/ ScanBlock \/ ScanBroken \/ ScanDone
    \/ AskTxout \/ ReadPool \/ Refresh \/ RefreshUnanswered

Next == Watcher \/ Restart \/ ChainStep

Spec == Init /\ [][Next]_vars

-----------------------------------------------------------------------------
(* Properties. *)

(* What the chain says of the vault. *)
TrueStates ==
    LET mined == {x \in Exits : InChain(x)}
        pooled == Exits \cap mempool
    IN  IF mined # {} THEN {ExitState(x) : x \in mined}
        ELSE IF pooled # {} THEN {ExitState(x) : x \in pooled}
        ELSE IF ~Known("fund") THEN {"GHOST"}
        ELSE IF Confirmations(VaultCoin) >= MinDepth THEN {"LIVE"}
        ELSE {"UNCONFIRMED"}

(* A poll in which the chain stood still and the node answered ends with   *)
(* the truth about a vault whose funding exists, whatever the polls before *)
(* it were disturbed by.  A ghost whose coin came back spent by a          *)
(* transaction not yet mined stays one.                                    *)
PollTellsTruth ==
    Fresh /\ Known("fund") =>
      \/ v.state \in TrueStates
      \/ v.state = "GHOST" /\ Exits \cap mempool # {}

(* ... and about one whose funding does not: it is a ghost.  A vault never *)
(* seen is not called one; without the pair a reorg is not told from an    *)
(* exit out of reach; and a close read from the mempool is believed (see   *)
(* ProvisionalCloseEnds).                                                  *)
UndoneIsNoticed ==
    Fresh /\ ~Known("fund") =>
      \/ v.state = "GHOST"
      \/ v.state = "UNCONFIRMED" /\ ~v.seen
      \/ v.state = "SPENT_UNKNOWN" /\ v.fundBlock = -1
      \/ v.by # None /\ v.height = 0

(* "Until an exit is buried it stays provisional": a vault is not called   *)
(* closed by a transaction that was never mined and is nowhere to be found.*)
ProvisionalCloseEnds ==
    Fresh => ~(/\ v.state \in Closed \ {"GHOST"}
               /\ v.by # None /\ v.height = 0
               /\ ~Known(v.by))

(* GHOST "means the funding was undone", and a node that does not answer   *)
(* never makes one.                                                        *)
GhostIsUndone == v.state = "GHOST" => undone

(* The pair of a vault names a block that held its funding, although the   *)
(* tip and the depth it is computed from are read at different moments.    *)
PairNamesFunding ==
    v.fundBlock # -1 =>
      [height |-> v.fundHeight, block |-> v.fundBlock] \in buried
=============================================================================
