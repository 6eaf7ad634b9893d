------------------------------ MODULE Scanner ------------------------------
(***************************************************************************)
(* What the vault half and the offer half of VaultWatcher share            *)
(* (pignus/watcher.py, poll): the forward scan and its rewind, one item's  *)
(* gettxout, and the walk back for a spender the scan never saw.           *)
(*                                                                         *)
(* A poll asks the node many questions and the chain moves between them,   *)
(* so a poll is many steps here: poll.phase says which question is next.   *)
(* None of what a poll knows outlives it but the scan's own record.        *)
(***************************************************************************)
EXTENDS Ledger

CONSTANTS
    MinDepth,       \* min_depth
    RescanDepth,    \* rescan_depth
    MaxFails,       \* questions the node does not answer
    PoolMayFail,    \* the mempool is one of them
    MidPoll,        \* what may happen inside a poll: "mine", "reorg", "pool"
    QuietPolls      \* how many undisturbed polls are enough to ask about

VARIABLES
    scanned,        \* scanned_height; -1 before the first poll
    hashes,         \* _seen_hashes: height -> hash, or -1
    fails,
    poll,           \* the poll in progress
    quiet           \* undisturbed polls in a row, and nothing since

scan == <<scanned, hashes>>

ASSUME ScannerAssumption ==
    /\ MinDepth \in Nat \ {0}
    /\ RescanDepth \in Nat \ {0}
    /\ MaxFails \in Nat
    /\ PoolMayFail \in BOOLEAN
    /\ MidPoll \subseteq {"mine", "reorg", "pool"}
    /\ QuietPolls \in Nat \ {0}

Heights == 1..MaxHeight

(* one: it is refresh_one's, for one record, without a scan.               *)
(* calm: the chain has stood still and the node has answered since the     *)
(* poll began.  read: the mempool has been read, and was `pool`.           *)
NoPoll == [phase |-> "idle", one |-> FALSE, tip |-> 0,
           answered |-> FALSE, out |-> FALSE, conf |-> 0,
           read |-> FALSE, pool |-> {}, calm |-> FALSE]
Phases == {"idle", "scan", "batch", "alone", "refresh", "apply"}
Polls == [phase : Phases, one : BOOLEAN, tip : 0..MaxHeight,
          answered : BOOLEAN, out : BOOLEAN, conf : 0..MaxHeight,
          read : BOOLEAN, pool : SUBSET Txs, calm : BOOLEAN]

ScannerTypeOK ==
    /\ scanned \in -1..MaxHeight
    /\ hashes \in [Heights -> -1..MaxForks]
    /\ fails \in 0..MaxFails
    /\ poll \in Polls
    /\ quiet \in 0..QuietPolls

(* The forward scan stopped short of the tip. *)
Behind == scanned # -1 /\ scanned < poll.tip

(* The chain has stood still, and the node answered, for so many polls. *)
Fresh == poll.phase = "idle" /\ quiet = QuietPolls
Quieter(calm) == quiet' = IF ~calm THEN 0
                          ELSE IF quiet < QuietPolls THEN quiet + 1 ELSE quiet

(* One question goes unanswered. *)
Unanswered == fails < MaxFails /\ fails' = fails + 1

SmallerOf(a, b) == IF a <= b THEN a ELSE b
LargerOf(a, b) == IF a >= b THEN a ELSE b
Highest(S) == CHOOSE h \in S : \A k \in S : k <= h
Lowest(S) == CHOOSE h \in S : \A k \in S : h <= k

-----------------------------------------------------------------------------
(* _rewind_if_reorged *)

(* Nothing to compare, or the block is still there. *)
NotReorged(tip) ==
    \/ scanned < 1 \/ hashes[scanned] = -1
    \/ tip >= scanned /\ HashAt(scanned) = hashes[scanned]

(* The height the scan is put back to: down from the lower of the tip and  *)
(* the scan to a block that still is what it was, or to just below the     *)
(* lowest height on record.                                                *)
Ancestor(tip) ==
    LET start == SmallerOf(scanned, tip)
        onRecord == {h \in Heights : hashes[h] # -1}
        known == IF onRecord = {} THEN start ELSE Lowest(onRecord)
        floor == LargerOf(0, LargerOf(start - RescanDepth, known - 1))
        same == {h \in 1..start : hashes[h] # -1 /\ hashes[h] = HashAt(h)}
    IN  IF start <= floor THEN start
        ELSE Highest({floor} \cup {h \in same : h > floor})

(* _forget_below and the rewind's own forgetting *)
Forget(H, S) == [h \in Heights |-> IF h \in S THEN -1 ELSE H[h]]

-----------------------------------------------------------------------------
(* Reading the node. *)

(* _mempool: decoded once per poll, for the first record that asks, which  *)
(* may be another one than ours.  If the node does not answer, it is taken *)
(* to be empty.                                                            *)
Pool == IF poll.read THEN poll.pool ELSE mempool

ReadMempool ==
    /\ poll.phase \in {"alone", "refresh"} /\ ~poll.read
    /\ \/ /\ poll' = [poll EXCEPT !.read = TRUE, !.pool = mempool]
          /\ UNCHANGED fails
       \/ /\ PoolMayFail /\ Unanswered
          /\ poll' = [poll EXCEPT !.read = TRUE, !.pool = {}, !.calm = FALSE]

PoolSpenders(coin) == Spenders(coin) \cap Pool

(* _search_exhausted; back is scanned_back_to. *)
Floor(tip) == LargerOf(1, tip - RescanDepth + 1)
Exhausted(back, tip) == back # 0 /\ back <= Floor(tip)

(* _walk_back reads the blocks from WalkTop down to Floor; a block that    *)
(* cannot be read, or is past the poll's share of blocks, ends it there    *)
(* until the next poll.                                                    *)
WalkTop(back, tip) == SmallerOf(tip, (IF back = 0 THEN tip + 1 ELSE back) - 1)
WalkEnds(back, tip) ==
    IF WalkTop(back, tip) > Height THEN {WalkTop(back, tip) + 1}
    ELSE {Floor(tip)}
WalkBreaks(back, tip) ==
    IF WalkTop(back, tip) > Height THEN {WalkTop(back, tip) + 1}
    ELSE Floor(tip) + 1 .. WalkTop(back, tip) + 1

SpendersAt(coin, h) == Spenders(coin) \cap chain[h].txs

(* What _spender finds: a set of at most one spend [tx, height].  `to` is  *)
(* how far down the walk got.                                              *)
Found(coin, back, tip, to) ==
    LET walked == {h \in to .. WalkTop(back, tip) :
                     SpendersAt(coin, h) # {}}
    IN  IF PoolSpenders(coin) # {}
        THEN {[tx |-> x, height |-> 0] : x \in PoolSpenders(coin)}
        ELSE IF walked = {} THEN {}
        ELSE {[tx |-> x, height |-> Highest(walked)] :
                x \in SpendersAt(coin, Highest(walked))}

-----------------------------------------------------------------------------
(* The chain moves, inside a poll only as MidPoll allows. *)

May(what) == poll.phase = "idle" \/ what \in MidPoll

LedgerStep ==
    /\ \/ May("mine") /\ Mine
       \/ May("reorg") /\ Reorg
       \/ May("pool") /\ \E x \in Txs : Broadcast(x) \/ Evict(x)
    /\ poll' = [poll EXCEPT !.calm = FALSE]
    /\ quiet' = 0

ScannerInit(h) ==
    /\ scanned = h
    /\ hashes = [k \in Heights |-> IF k = h THEN HashAt(h) ELSE -1]
    /\ fails = 0
    /\ poll = NoPoll
    /\ quiet = 0
=============================================================================
