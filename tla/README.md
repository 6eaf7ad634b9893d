# pignus in TLA+

A verification project for pignus: what its unattended processes promise about
other people's money, checked on small instances by TLC and, for the most
important promises, proved for every instance by TLAPS.

Paths are relative to `src/`. A name in `code type` is the code's own; the
modules keep it wherever TLA+ allows.

## The system

Pignus lends against collateral on two chains: Bitcoin, and Sequentia, a
sidechain whose blocks are anchored to Bitcoin blocks and are undone when those
are.

* A **covenant loan** lives on Sequentia alone. A vault coin is locked by a
  covenant with four exits (repay, liquidate, default, recover), the middle two
  opened by an oracle's signed price. A **format-2** loan is the same with a
  state the coin carries from spend to spend.
* A **cross-chain loan** has Bitcoin collateral and a Sequentia principal. Four
  scripts on two chains, two secrets (`w` shown by the borrower who takes the
  principal, `t` shown by the lender who takes the repayment) and four deadlines
  hold it together, and somebody must be awake at the right time.
* A **repurchase** sells an asset no covenant may lock and bonds the lender for
  the rest of its worth.

### Inventory

| Part | State it keeps | Operations | Interacts with | What makes it correct |
|---|---|---|---|---|
| **Responder** (`bin/pignus-cli`, `cmd_btc_respond`) | a state file, one record a take, fsynced on every write | eight passes in a loop: hash, sign, disburse, upgrade, claim, publish, refund, resend; an operator's `btc-responder-clear` | both chains, the relay | no principal paid twice or forgotten; no more lots paid than offered; the lender is never out of the debt and the collateral at once; every principal ends claimed or refunded; every secret reaches its borrower |
| **Loan deadlines** (`pignus/btc_collateral.py`) | none | `timelocks_sane`, `effective_repay_deadline` | responder, relay, borrower page | whoever acts within the margins loses nothing |
| **Settlement tests** (`pignus/btc_collateral.py`) | none | `tx_depth`, `anchor_safe`, `collateral_committed` | both nodes | a fact a secret is bought with cannot be undone afterwards |
| **Borrower** (`web/btcborrow.js`, `btc-*` commands) | secrets in browser storage | prevault, claim principal, repay, reclaim, abort | relay, both chains | the collateral comes back to whoever repays |
| **Vault watcher** (`pignus/watcher.py`) | a `Vault` each, the hashes of the blocks it read, `scanned_height` | `poll`, the rewind, `_refresh`, the walk back, `refresh_one` | one Sequentia node, `pignusd`, the liquidator | its verdict on a vault is the chain's, through reorgs and a node that does not answer; GHOST only of a funding that was undone |
| **Offer watcher** (same file) | an `Offer` each with its history and an event queue | follow the coin through takes, unwind a provisional move | `pignusd` | a takeable coin is on the shelf and a taken one is not; each take is one loan |
| **Book** (`pignus/book.py`) | one JSON file: offers, loans, takes, commitments | put, update forwards only, prune, batch | `pignusd`'s threads | a lot is given once, a commitment used once, no report moves a take back |
| **Daemon** (`bin/pignusd`) | the book, the watcher, a chain lock | reconcile, apply offer events in order, the relay's POST handlers, prune, expire | everything | the book follows the chain and every report it accepted |
| **Oracle** (`bin/pignus-oracle`, `pignus/oracle.py`) | an append-only log with a running digest, flat and jump counters, a seizure log | sign a round, rotate, follow, co-sign a seizure | liquidators, lenders, auditors | what was signed stays on record, is found and is pinned by the digests |
| **Vault spends** (`pignus/vault.py`, `terms.py`, `fees.py`) | none | choose a fee asset, select and prepare coins, compose each exit | node wallet, covenants | what is composed opens its leaf and is relayed; integer rounding never leaves the lender short |
| **Liquidator** (`bin/pignus-liquidator`) | nothing durable | a round: poll, decide, compose, send | watcher, oracles, node wallet | a seizure only of a vault under its strike and never at a loss |
| **Format 2** (`pignus/vault2.py`, `watcher2.py`, `service_v2.py`) | a line of steps a record | undo and redo each line on every poll, register a loan | node, book | the line is the chain's; one loan a vault |
| **Repurchase** (`pignus/repurchase.py`, `repo-*` commands) | none | fund, verify, settle, forfeit | two parties and a deadline | no party loses by the other's stopping |
| **Standing offers, beacon, rate limits, node access, pages, deployment** | small or none | | | see PROJECT.json |

The hard behaviours, in the order they matter: a send whose answer is lost or
whose sender dies before it is recorded; a reorg that undoes what was acted on,
while the secret that was shown stays shown; two clocks; a chain that moves
between two questions of the same poll; a node that does not answer; a restart
that keeps the book and loses the rest; reports that may be lost or repeated; a
write cut in the middle; a request whose decision is stale when it writes.
PROJECT.json lists them line by line under "hazards", with the properties that
would catch each going wrong.

## The modules

| Module | What it is | Code |
|---|---|---|
| `Timelocks` | the deadlines and the judgement of them, as operators | `btc_collateral.py` |
| `Chains` | two anchored chains and the eleven transactions of a loan | `btc_collateral.py`, external |
| `CrossLoan` | responder, operator and borrower on `Chains` | `bin/pignus-cli` |
| `Ledger` | one chain with blocks that can be replaced and a mempool | external |
| `Scanner` | what every item of the watcher shares: scan, rewind, walk back | `watcher.py` |
| `VaultWatch` | one vault under the watcher, and its record in the book | `watcher.py`, `bin/pignusd` |
| `OfferWatch` | one offer under the watcher, its events, its record and the loans it opened | `watcher.py`, `bin/pignusd`, `book.py` |
| `TakeLadder` | the abstract promise of a cross-chain take | `book.py` |
| `TakeBook` | the takes in the relay's book, the requests that write them, the file | `book.py`, `bin/pignusd` |
| `AuditTrail` | the abstract promise of the oracle's log | `oracle.py` |
| `PriceLog` | the log on disk: writer, rotation, follower, readers | `oracle.py` |
| `LoanTerms` | a covenant loan's arithmetic and the choice of evidence | `terms.py`, `oracle.py` |
| `Wallet` | fee assets, coin selection and preparation | `fees.py`, `vault.py` |
| `VaultSpend` | the transactions of a covenant loan, composed and sent | `vault.py`, `bin/pignus-cli` |
| `LineWatch` | how format-2 offers and loans are followed, on `Ledger` | `watcher2.py`, `vault2.py`, `book.py`, `service_v2.py` |
| `Repurchase` | two parties, their bond and their settlement | `repurchase.py`, `bin/pignus-cli` |
| `MC...` | values for TLC | |
| `CrossLoanProofs` | types and payments of `CrossLoan`, what backs the responder's records, and what each party ends up with | |
| `TakeBookProofs` | the refinement of `TakeLadder` and the other properties of `TakeBook` | |
| `PriceLogProofs` | the refinement of `AuditTrail` and the other properties of `PriceLog` | |
| `VaultWatchProofs` | types, pairs, verdicts and ghosts of `VaultWatch` | |
| `LineWatchProofs` | every property of `LineWatch` | |
| `RepurchaseProofs` | the safety properties of `Repurchase` | |
| `VaultSpendProofs` | every property of `VaultSpend` | |
| `NumberTheorems` | least and greatest elements, sums over sets and over the places of a sequence, which those proofs share | |

`CrossLoan` EXTENDS `Chains` EXTENDS `Timelocks`. `VaultWatch` and `OfferWatch`
EXTEND `Scanner` EXTENDS `Ledger`, which `LineWatch` EXTENDS too. `VaultSpend`
EXTENDS `LoanTerms` and `Wallet`. `TakeBook` instantiates `TakeLadder` and
`PriceLog` instantiates `AuditTrail`, each with a refinement mapping, and
checks the abstract specification as a property. PROJECT.json maps every
definition to its lines.

### CrossLoan

A transaction of a take is known by what `tx_confirmations` says of it: absent,
in the mempool, or so many blocks deep, and on Sequentia also by the depth of
the Bitcoin block its own block is anchored to. Those two depths are all that
any rule of the responder reads.

The state file is `have`, one Boolean for each field the passes test. Each
`state.set` is one durable write and one action. A send is three actions,
because the process can die between any two: `...Mark` writes the intent,
`...Send` hands the transaction to the node, `...Record` writes the result.
`pc` is what is lost by dying; `Crash` clears it. An answer can be lost with
the transaction taken or not (`...Lost`). Where a pass treats a failed send in
its own way the model does too: the disbursement and the claim keep the intent
and look for the transaction on the next pass; the refund drops it.

The passes run in a fixed order; in the model any may run next, which is more
than the code does. The relay has no state: what it serves, repeats or
withholds decides which pass acts on which take and when, and that is free
already. In one place a pass takes its word for what the state file lacks:
`claim_pass` goes on when either names an `upgrade_txid` (`pignus-cli:5890`), and
nothing checks the relay's. `RelayTells` lets the relay name one at any time; all
three runs have it. Then a repayment may be claimed, and the secret shown, before
the loan is on record as started, or even before it was paid. A report to it can be lost on the way there or back
(`PublishLost`). The borrower may make any spend the scripts allow whenever the
scripts allow it, may replace what they signalled replaceable, and is under no
fairness. A reorg of one Bitcoin block undoes what that block held and all
Sequentia blocks anchored to it; `MayVanish` says what may not come back.

### VaultWatch and OfferWatch

A poll asks the node many questions, and the chain may move between any two, so
a poll is many actions: the start with its rewind (`PollStart`), one action a
block (`ScanBlock`), the batched `gettxout` (`AskTxout`), the mempool
(`ReadPool`) and the judgement (`Refresh`). `MidPoll` says what may move inside
a poll and each run chooses. Every question may go unanswered, at most
`MaxFails` times, and then does what the code does: nothing is undone, the scan
stops where it is, the walk breaks off, the pair waits. A block's hash is its
height and the fork it was mined on. `Restart` keeps what the book was told and
loses the hashes, the scan and what was seen, with `--rescan-from` or without.
A block takes any part of the
mempool that leaves nothing in it without what it is built on (`Blocks`).
`undone`, `buried`, `fresh` and `takes` are observers: they record what
properties ask about and no action of the watcher reads them.

An offer's coin moves: a take in part leaves a remainder, and the watcher's
`history` remembers where the coin was, at which height and by which
transaction. A move read from the mempool is believed at once (`Spent` with
height 0) and unwound when its transaction is gone (`Unwound`); one read from a
block is undone with the block (`UndoneAbove`). Each of them queues an event;
`ApplyEvent` and `Reconcile` are `_apply_offer_event` and `_reconcile`, which
write the record, the loans and `taken_txids`. A publisher may list the coin
again (`Publish`) or take it off (`Delist`), and their request refreshes the
record outside the poll (`RefreshOne`).

### TakeBook

The book of one offer with its takes: the record of a take is its status and
the facts reports have put in it. A report is a signature and may be sent any
number of times (`signed`). It is read and written at once (`Report`), or held
up between `forward_only` and `update_btc_take` (`Receive`, then `WriteReport`)
with any other request in between. `Save` is the file: inside the poll thread's
batch nothing is written until `BatchEnd`; a write may fail, and a crash returns
to what was written. `answered` is an observer: what the relay has told anyone
it wrote. Expiry is `Lapse` of a take and `Expire` of the offer, pruning `Prune`.

`TakeLadder` is the promise: steps are climbed, facts are kept, a take is
forgotten only when nothing can happen to it. The mapping takes its `status` and
`facts` from the file and not from memory, so a crash is a stutter.

### PriceLog

A line of the log is two pieces, so that a write can be cut in the middle and a
reader or a bisection can land there. A digest is what it is the digest of. One
process writes and rotates (`mode = "self"`: `Sign`, then `RotateRename`,
`RotateSha`, `RotateChain`, with a crash between any two) or another does
(`"signer"`) and this one follows. The readers are operators with the code's
own steps: `Bisect`, `ScanPath`, `At`, `LatestOnDisk`, `Digest`. `AuditTrail` is
the promise that the readable lines of all files, in order, only grow at the
end; a rotation and a restart are stutters of it.

### VaultSpend, LoanTerms, Wallet

A spend is `ChooseFee`, `Select`, `Prepare` and `Reselect` when explicit coins
are short, `Compose`, `Broadcast`: between any two, others may spend the offer
or the vault and blocks may come. Outputs are in the order the code gives them,
because the covenants read by index; `left` is what is left of each asset, and
`PaidBack` the change it makes. What the covenants demand of output 0 and
1, and the node of dust and of balance, is external and written from what the
code composes for them.

### LineWatch

A record is a line of steps, each a transaction, the coin it made, where it was
seen and what that coin owes. `ReconcileLoan` and `ReconcileOffer` undo the
line from its end (`KeptOf`) and follow the chain from what is left (`Forward`),
reading the debt of each next coin off the spend's outputs (`Follow`). A poll is
five actions: `PollBegins` asks for the tip and the mempool, `PollOffers` follows
the offer, `PollOpens` opens a record for one take at a time, `PollCopies` takes
the copy of the loans that `book2.loans` returns, `PollLoans` follows them and
writes them back. The chain and the mempool may move between any two, and a
question without an answer ends the poll (`PollFails`). A borrower may register
at a coin (`Register`). Which kind of spend each transaction is, is chosen at the
start (`Kinds`); `ProgramAssumption` says what the contract's programs let follow
what, and `RecordAssumption` that an empty record is no record.

### Repurchase

Each party has its own copy of the terms (`docs`). A command reads the chain in
one action and its user acts on the answer in another (`told`), with blocks, a
reorg, or a transaction lost to another spend of its coins in between.
`RepoVerify` is the whole of `repo-verify` with its options chosen freely. The
skeleton of a settlement is composed by the borrower, looked at and signed by
the lender (`CoSign` is `--inspect`), and attached; what the covenant accepts is
external.

## What is checked

Twelve runs: ten pass, and two fail to show that the code does what its own text
says it does not.

| Run | Instance | Properties |
|---|---|---|
| `CrossLoan_takes` | one loan over its whole life, and two takes of one lot for as long as two can be paid; one crash, one lost answer, one reorg that may lose a claim, an operator, nobody prompt | `PaidOnce`, `PaymentRemembered`, `WithinLots`, `RecordsBacked`, `TypeOK` |
| `CrossLoan_prompt` | a responder at most one block late, fair and dying once, a borrower who reclaims when they can | `LenderWhole`, `BorrowerWhole`; `PrincipalSettled`, `ClaimIsPublished` (liveness) |
| `CrossLoan_clear` | as `takes`, one take, and `btc-responder-clear` left to its own check | `PaidOnce` is violated (Findings) |
| `VaultWatch_restarted` | a restart, two unanswered questions, an eviction, no reorg | `GhostIsUndone` |
| `VaultWatch_moving` | blocks and transactions inside a poll, requests, and a two-block reorg, seen as a shorter chain first or not, or an unanswered question | `PollTellsTruth`, `UndoneIsNoticed`, `PairNamesFunding`, `TypeOK` |
| `OfferWatch_shelf` | an offer taken in part, in full or withdrawn; either a reorg, a replacement and an eviction, or a restart, an unanswered question and a second listing | `BoardIsShelf`, `TakesAreBooked` |
| `TakeBook_relay` | two takes of one lot, one held-up request, one crash or failed write, one more publication, every report repeated | `LadderKept` (refinement), `AnsweredIsKept`, `ReportsAreTaken`, `PaidIsNotOffered`, `SecretsAreApart` |
| `PriceLog_signed` | two markets, a writer or a follower, one cut write, one crash, rotations of four pieces | `AppendOnly` (refinement), `Auditable`, `Pinned`, `NewestKnown` |
| `VaultSpend_exits` | six terms, four wallets, six attestations, three assets, any exit | `OpensItsLeaf`, `NodeAccepts`, `SeizedIsGross`, `EvidenceAtItsBest`, `OnlyFeeCoinsRunShort` |
| `LineWatch_lines` | a take, the rest taken back, a vault topped up, repaid or seized in part or whole; a reorg or a fault; a mempool that moves, a borrower who registers and a lender who publishes between any two steps of a poll | `LinesAreTrue`, `TakesAreLoans`, `OneLoanPerVault`, `GhostsAreGone`, `RegisteredIsKept`, `TypeOK` |
| `LineWatch_stale` | one take and the mempool dropping it once, thirteen blocks, a search ten deep as the code's is; no reorg, no fault | `GhostsAreGone` is violated (Findings) |
| `Repurchase_parties` | eight pairs of terms documents, one reorg, one lost transaction, deadlines in blocks and in time | `LiveStands`, `BorrowerWhole`, `LenderWhole`, `BondIsReleased` (liveness) |

Each property of a passing run has a mutant in PROJECT.json: a plausible slip
in one definition (a dropped guard, a missing write, a stale test) under which
TLC finds the property violated in the same run.

Deadlock is not checked where the instance ends: when the heights reach their
bounds (`CrossLoan`, `LineWatch`, `Repurchase`), when every report has been made
(`TakeBook`), the feed has stopped (`PriceLog`) or the tries are used up
(`VaultSpend`). The watcher's own runs never end and do check it.

### Bounds, and why they are enough

* **CrossLoan, time.** One unit is a Sequentia block. A Bitcoin block is two of
  them rather than ten, and the margins shrink with it: an upgrade margin of 14,
  a repay margin of 8, a claim margin of 5, a minimum term of 2. `MCLoan` is the
  tightest loan `timelocks_sane` accepts under these that can still be paid a few
  blocks after the offer, so each deadline is reached with nothing to spare. The
  heights of `prompt` run past `recover_after` (13 of 14 on Bitcoin) and past every
  burial that follows `repay_deadline` (16 of 28 on Sequentia); those of `takes`
  end at 20 and 10, when everything its properties speak of has been sent, and
  claimed or taken back. Depths are capped where
  no rule looks further; `SentCap` counts one principal too many. The clocks may
  drift one second apart.
* **CrossLoan, failures and takes.** One crash, one lost answer and one reorg,
  together. Every intent is cleared or resolved by the recovery that follows it,
  so a second failure meets a state the first could have met; what is claimed
  for any number of failures is what is proved. Two takes and one lot are the
  smallest case of one take too many; the takes are symmetric, and the
  constraint `SecondIsEarly` follows the second one while a principal may be
  paid and no repayment is made, after which two loans share nothing.
* **VaultWatch.** One vault, a funding and two rival exits: the code treats
  vaults one at a time and the other exits only by name. Heights of 4 or 5 with a
  rescan depth of 4 or 5 put the funding, its burial at depth 2, both exits and
  a reorg two deep around each other in every order. The constraint `Apart` of
  `moving` keeps out three behaviours that are listed below: a reorg together with
  an unanswered question, a request that finds what the scan has not come to, and
  a ghost that comes back with the spender it had.
* **OfferWatch.** One offer of two coins, five transactions. `QuietPolls = 3`:
  the board is judged after three undisturbed polls, which is how long an
  offer that was called a ghost may need to come back. The constraint `OneKind`
  keeps the chain's own trouble and the service's apart; both together break
  `BoardIsShelf` and are listed below. `FromBoard` lets whoever takes an offer
  find it there, buried.
* **TakeBook.** One lot and two takes are the smallest case of one too many,
  three hashes let two takes draw the same one, the same as another's `w`, or
  apart. One held-up request is enough to come between any two others.
* **PriceLog.** Files of four pieces hold two lines, so three seconds of two
  markets rotate more than once; the tail read of two pieces is shorter than
  a file.
* **VaultSpend.** Prices 1, 2, 4 and 12 lie on both sides of each strike and
  divide neither the gross debt nor the scale evenly; a limit of 32 stands for
  2^63 and a default maximum of 4 for 2^40. Two tries, so that one spend's
  change is the next one's coin.
* **LineWatch.** Three heights and a reorg two deep undo every step there is;
  `Below = 3` reaches the start. One fault of any kind, or a reorg: the constraint
  `OneTrouble` keeps them apart, and the theorems have any number of both. One
  offer and its takes. No chain of spends is longer than four transactions in
  any run or theorem (`ProgramAssumption`: an `age` of 0 to 3).
  `lines` has requests between any two steps of a poll: one inside a poll can be
  overwritten, and what is then told of the record is told of an older one,
  which `GhostsAreGone` (`Judged`) and `RegisteredIsKept` (`Overwritten`) name
  and allow (see the table below). With one take, as here, `TakesAreLoans` does
  not meet the request that comes between two takes of one poll; with two it
  does, and fails (same table).
  `stale` has the code's own depth of search and the first height at which a step
  can be buried under it; it follows one take.
* **Repurchase.** Depth 2 with one-block reorgs is "never as many as the depth";
  the deadlines are the last height there is, in blocks and in seconds.

### Fairness

`CrossLoan`'s `FairSpec` is weak fairness of the responder's passes, of
finishing a send that was begun and of both chains' blocks. The loop justifies
it: it runs every pass each time round and no failure of one stops the next
(`one_pass`). A claim is only assumed to be made of a loan that is on record as
started; of one that the relay alone named, only that what was begun goes on,
which is to say that the relay does not take back what it named. Nothing is
assumed of the borrower or the operator, nor of
`SignPass` and `DisburseMark`: nothing need ever be lent. `LenderPrompt` with
`MaxLate` is not fairness but an assumption about the world, that the responder
has never been behind on something due for more than so many blocks, which is
what the margins of `timelocks_sane` pay for. `BorrowerPrompt` is the same of a
borrower whose secret is out.

`Repurchase`'s `FairSpec` is weak fairness of blocks and of `Forfeit`: a
borrower whose date has come sweeps, which needs no key. Nothing is assumed of
the lender.

The other modules state safety only. "After an undisturbed poll" is written as
an invariant of the states in which one has just ended (`Fresh`, `fresh`), which
says more than that such a state comes.

## What is proved

Thirty-nine theorems in seven modules, checked by TLAPS for every value of the
constants that the modules' assumptions and the theorem's own hypotheses allow:
any number of takes, blocks, forks, restarts, faults, any terms and any wallet.
Thirty-five of them state a property of a run; two are the types of `TakeBook`
and `PriceLog`, which no run spends an invariant on, and two are the invariant of
`VaultSpend` and the balance of its transactions. With them every safety property
that the passing runs check is proved, except those of `OfferWatch_shelf`.

Each follows the same argument. The property is seldom inductive, so an
invariant is stated that is; the proof that a step preserves it has one step for
each action of the module; and the property follows from it. Every invariant was
checked by TLC on the module's run before it was proved.

A theorem holds under the hypotheses in brackets. They are of three kinds: what a
user of the code is told to do, what the code counts on in so many words, and
behaviours that break the property and are listed below, each with the setting
that shows it.

### CrossLoan (`CrossLoanProofs`)

* `TypeCorrect`.
* `NeverPaidTwice`, `NeverForgotten`, `NeverOverLots` [`OperatorLooks`: who
  clears an in-flight flag has first made sure that nothing was sent, which the
  command asks of them and `CrossLoan_clear` shows is needed]. `PaymentInv`: a
  principal that was sent is in flight or on record; while the responder is about
  to send one it is in flight and has not been sent; after the send and before
  the record it is in flight and has been. The steps that matter are
  `DisburseMark`, which needs both fields clear and hence nothing sent, and
  `DisburseLost`, which leaves the flag. `LotsInv`: the takes in flight or on
  record are no more than the lots, because only `DisburseMark` adds one and its
  `LotsCommitted` counts the others first.
* `RecordsAreBacked`, with no hypothesis, and with a relay that names any upgrade.
  `BackedInv` relates each field of the state file to what was sent, shown or
  mined before it, and to what the responder is in the middle of; `IntentEnds`
  says that the intent of a claim ends only with the claim's record or with a
  look-up, and that one which ends while the claim is out there records it.
* `BorrowerIsWhole` [`BorrowerTerms`: responder and borrower are no later than
  `MaxLate` allows, no reclaim is lost in a reorg, and the lateness and twice the
  drift of the clocks are less than the repay margin and the claim margin
  together; and if the relay names upgrades, `LenderTerms` as well, because the
  secret may then be out before the vault is there and the upgrade itself has to
  come before the sweep, `UpgradeBeforeSweep`]. `ClockInv` bounds how far the clocks run apart, `SaneInv` says that
  a take with a `t` has deadlines `timelocks_sane` accepts, `BusyInv` that a
  claim under way is inside its deadline by no more than the lateness, and
  `SweepInv` that a shown `t` and an open sweep meet only of a vault that was
  reclaimed or never upgraded.
* `LenderIsWhole` [`LenderTerms`: as above, and the borrower reports the claim of
  the principal; a reorg puts back what it undid of the lender's and the
  borrower's payments, and the borrower does not replace their take or repayment;
  the claim margin covers the lateness, the upgrade margin covers the lateness,
  the depths waited for and the reorgs]. `FreshInv` says until when a transaction
  may still be unburied, reorgs included; `PrincipalInv` that a principal nobody
  took is refunded in time; `PaidInv` that a repayment whose claim has shown `t`
  stays claimed, as the borrower's own refund of it opens too late; `UpgradeInv`
  that a take which is deep enough finds its upgrade mined before the abort
  opens.

The margins of the code are two hours to claim and a day to upgrade or to repay:
with blocks of one and of ten minutes and the default depths of six and two, the
two terms hold of a responder an hour late, three reorgs and clocks nine minutes
apart. What the terms exclude is listed under "What else the models show": a
repayment lost after its claim, a claim that is not reported.

### TakeBook (`TakeBookProofs`)

* `TypeCorrect`.
* `FileClimbs`: the book implements `TakeLadder`. `LadderInv`: status and facts
  of a take agree, in memory and in the file; the file is never ahead of memory;
  a held-up call decided on a step its report allows. A step is then a step of
  the ladder for the takes a save changes, and a stutter for the others; so is a
  crash, which puts memory back to the file.
* `AnswersAreKept`: what was answered is in the file (`AnsweredInv`), because
  the request saves before it answers.
* `SecretsStayApart`: `SecretInv` says that the ledger of commitments names the
  take of each hash, in memory and in the file, and outside a crash a taken hash
  stays with its take; so a check made before the lock was given back still
  holds when the write comes.
* `NoReportIsRefused`: from the types and `LadderInv`.
* `PaidIsNeverOffered` [`~Relisted`: an offer that was pruned is not published
  anew]. `LotsInv`: what is owed is within the lots, a paid take has its rank,
  and what pruning took from the records is credited to the offer.

### VaultWatch (`VaultWatchProofs`)

* `TypeCorrect`, with any interleaving.
* `PairsNameTheirFunding` [no reorg inside a poll; one does record a wrong
  block]. `PairInv`: the tip a poll began with is no higher than the chain; if it
  is still the tip, the depth that was read leads to the funding's block; and
  what is recorded names a block that held the funding.
* `GhostMeansUndone` [`GhostTerms`: the chain stands still during a poll, the
  mempool is given, no requests, the rescan depth covers the chain; and either no
  reorgs, with any restarts and unanswered questions, or any reorgs and neither
  of these]. `LinkInv` makes the scanned hashes a chain with the real one as a
  beginning; `RivalInv` says that no two exits are on the chain; `PollInv` that a
  poll which reached its judgement has scanned to the tip; `VerdictInv` that
  while the funding stands, a block that was scanned and is still there holds no
  exit the verdict does not say.
* `QuietPollsTellTruth` [`TruthTerms`: no restart, no reorg inside a poll; and
  either no reorgs, or every question answered, no requests and a rescan depth
  that covers the chain]: of a funding that is not undone, or of any on a chain
  that is never reorganised (`Standing`). `LookInv` says what a poll that is
  under way has read, `CalmInv` that one nothing disturbed has read what is
  there now, `StandInv` and `Honest` that a close on the verdict is the chain's.
* `UndoneIsSeen` [`TruthTerms`; and no reorg, or any number of them of which none
  is first seen as a shorter chain]. Without reorgs `FundInv` adds where a
  funding that left the mempool can still be remembered. With them `ReorgInv`
  says that exits stand above the funding (`FundFirst`), that a block which held
  the funding holds it as long as it is there (`BuriedInv`), that an exit named
  at a height is in that block (`NamedAt`), and that a vault given up on with its
  pair known was given up on while that block was among the scanned (`GivenUp`),
  so that the rewind meets its going.

### PriceLog (`PriceLogProofs`)

* `TypeCorrect`. A file the process writes itself is bounded, though writes that
  are cut short lengthen it (`Bounded`).
* `RecordOnlyGrows`: the log implements `AuditTrail`. A line is two pieces, so
  each step adds nothing, or one entry behind all others; a rotation changes the
  file a line is in and not its place (`WriterInv`).
* `DigestPins`, with no hypothesis beyond what the property says. `PinInv` is
  what a rotation leaves between any two of its steps.
* `NewestIsKnown` [the feed does not go back]. `OrderInv`: the files are sorted
  by time and none is later than the next; `NewestInv`: in memory, nothing is
  newer than what is held.
* `SignedIsFound` [the feed neither goes back nor restates a price: of two lines
  of one time `at` finds the first]. The bisection is a recursive function over
  pairs of places. That it has a solution is proved by induction on the gap
  between the two (`Look`), and that a step keeps the answer between them;
  `KeptInv` says that a signed attestation is written somewhere, `PriceInv` that
  equal times have equal prices.

### LineWatch (`LineWatchProofs`)

* `TypeCorrect`, with any interleaving: more than types, as `TypeOK` says what a
  line is. `ChainInv` is what a chain of blocks and a mempool are, `ForkInv` and
  `Placed` say that a place which is still in the chain is where its step is, and
  `BookInv` that every line in memory, in the file and in a poll's copy is a line
  of coins that were made (`GoodLine`): `KeptOf` leaves a beginning of one and
  `Forward` appends what spends its end, by induction on the steps.
* `VaultsAreFollowedOnce` [`AnyCoin = FALSE`: a borrower registers at a coin a
  take made], with any interleaving. `RootInv`: loans begin at coins of takes.
* `NamesAreKept`, with any interleaving. `NameInv`: what is named in the book is
  named in the file a restart reads. The property's exception, the poll that
  copied the record before the script came, is the one way it is lost.
* `TakesHaveLoans` [no request inside a poll: with one and a crash it is false,
  see the table]. `CopyInv` relates the book, its file and the poll's copies in
  each phase.
* `GhostsHaveGone` [no new block inside a poll, every question answered; requests
  between any two steps] and `FollowedIsTrue` [every question answered], both while
  `WithinReach` holds: what a poll looks for is no more than `Below` blocks under
  where it was last seen, or under the tip if that was the mempool. The code
  takes ten blocks to be enough; `LineWatch_stale` shows that it is not always,
  and a corollary of each that on a chain no higher than `Below` no such
  condition is needed. `DiskInv`: what a restart finds is no ghost the book does
  not have, and the copy a poll judges is the offer unless another was published
  since. `TipInv`: no block comes inside a poll that one did not begin with.
  `CalmInv`, `FreshInv`: what a poll that nothing disturbed has settled.

### Repurchase (`RepurchaseProofs`)

* `ToldIsTrue`, `BorrowerIsWhole` [`Shallow`: one reorg, less deep than the
  burial; or any number if what is back in the mempool is not replaced there].
  `TxInv`: who funded what, and on whose terms; `SettleInv`: what a settlement or
  a sweep that is on the chain paid, and what the skeleton that is under
  signature would pay; `StandInv`: what a party was told is still there, and
  deeper than the next reorg can reach.
* `LenderIsWhole` [`Shallow`, and `CopiesMatch`: a borrower's copy of the terms
  that names the same bond and owes no less is the same]. A copy that owes less
  is refused; one that owes more and names the same bond would pay the lender
  more than their own copy says, and then what they earn is not what it says.

### VaultSpend (`VaultSpendProofs`)

All terms, prices, rates, thresholds, numbers of lots and oracles, and every
wallet of finitely many coins, with any interleaving.

* `SpendInvariant`: `SpendInv`, with what is said of the transaction made last.
  `TermsInv`: the terms are some that can be built. `CoinsInv`: an offer's coin is
  whole lots, or a take would leave a remainder its leaf does not expect; a
  vault's is at least the collateral of the terms (others may lock more). `JobInv`
  follows the spender: the need is what the exit spends and its fee; while coins
  are prepared, what is neither being prepared nor the asset the sends pay in is
  covered by explicit coins (`PrepareFits`), because those are locked; coins to
  compose with cover the need (`ChosenFits`); and a transaction to send makes of
  the offer and the vault what `Broadcast` reads off it.
* `LeafIsOpened`: for each exit, its outputs sit where its leaf reads them
  (`TakeIs`, `SeizureLays`, `RepayIs`, ...); `Filler` puts at output 1 nothing
  the leaf could take for a return, in every combination of fee asset and change.
* `SeizureIsGross`: a ceiling is less than one over (`CeilDivIs`), and lifting the
  borrower's return takes from the seizure (`KeptIsGross`).
* `EvidenceIsBest`: `select_threshold` takes the lowest, and of any choice of as
  many one slot is at least as high as all of those (`LowestSlots`, by counting).
* `OnlyFeeIsShort`: coins picked in order cover what the explicit coins cover
  (`PickCovers`), and a preparing send leaves them there (`PreparingKeeps`).
* `NothingIsLost`: what goes in of each asset goes out (`Balances`): the need, the
  coin and the change, dust included, are tallied over the outputs.
* `NodeTakes` [`Worth`: of terms that can be built, principal and collateral are
  not 0, and in an asset with a rate neither they nor the debt are dust].
  `LoanTerms` does not check that; what follows is listed below.

The sums of the model are folds over sets. That they are sums at all, that they
split, and that a changed place changes them by the difference, is proved once in
`NumberTheorems`, by induction over the subsets of a finite set.

### What stays with TLC

* Liveness (`PrincipalSettled`, `ClaimIsPublished`, `BondIsReleased`): fairness
  is outside the prover.
* `OfferWatch_shelf`, which needs the invariants of `VaultWatch` for a coin that
  moves, with its restarts, unanswered questions and reorgs.
* The verdict on a vault whose funding was undone by a reorg and came back: with
  more than one reorg it can be wrong (below). `UndoneIsNoticed` of a chain that
  is first seen shorter than it was: of one reorg the run shows it, and with
  another disturbance it fails (below).
* What a recursive definition computes for every input, in general. Recursive
  functions and folds are within reach where the induction can be written as one
  over a set, as for the bisection, the lines and the sums.

The assumptions on the constants are named in the modules that declare them
(`MarginAssumption`, `ChainAssumption`, `LoanAssumption`, `LedgerAssumption`,
`ScannerAssumption`, `VaultAssumption`, `OfferAssumption`, `TakeBookAssumption`,
`PriceLogAssumption`, `SpendAssumption`, `LineAssumption`, `ProgramAssumption`,
`RecordAssumption`, ...) and TLC evaluates them on every run.

## Findings

`CrossLoan_clear`: `btc-responder-clear` looks for a payment with
`scantxoutset` only. A payment in the mempool, or one already claimed, is not
found, the flag goes and the next pass pays again; its docstring says it looks
at the chain first and records a payment that is there.

`LineWatch_stale`: a poll refreshes only the newest step that is still there
(`watcher2.py:194-201`, `:262-266`), so a funding first seen in the mempool keeps
no height once a take follows it, and `Chain.where` looks for it from ten blocks
under the tip (`:113`). A take that leaves the mempool more than ten blocks after
its funding was mined takes the funding off the line with it, and the offer
becomes a ghost with its coin in the chain. The module says that a step is undone
when its transaction has gone (`:22-26`).

### What else the models show

Each row is reproduced by a change of constants in a listed configuration and
the property named, which its module states; no run is spent on them. Where
`OfferWatch` is said to be unconstrained, `OneKind` is taken out; `moving` is
here without `Apart`, with `MaxFails = 0`, `MayRequest = FALSE` and
`ShorterChains = FALSE` unless a row says otherwise.

| Behaviour | Property | Setting |
|---|---|---|
| `claim_pass` takes a repayment at `claim_depth` Sequentia blocks without asking how deep its Bitcoin anchor is, so a one-block Bitcoin reorg can take it back after `t` is out (`pignus-cli:5982`; its `_find_repayment` says "Depth is what makes that stop being their choice") | `LenderWhole` | `prompt` with `MayVanish = {"repay"}` |
| The recovery of a refund takes whatever spent the principal for the refund, the borrower's claim included (`pignus-cli:5836`) | `RecoveredRefundIsRefund` | `clear` with `OperatorLooks = TRUE` |
| A principal paid, its record lost, claimed by a borrower who does not report it: the loan is never started (`pignus-cli:5468`) | `LenderWhole` | `prompt` with `BorrowerReports = FALSE`, `MaxReorgs = 0` |
| A refund whose answer was lost is never on record (`pignus-cli:5866`) | `RefundAccounted` | `prompt` with `MaxReorgs = 0`, `MaxCrashes = 0` |
| A refund undone by a reorg is not made again (`pignus-cli:5823`) | `UnclaimedIsRefunded` | `prompt` with `MaxCrashes = 0`, `MayVanish = {"refund"}` |
| A claim undone by a reorg past the effective deadline is not made again although its secret is out (`pignus-cli:5992`) | `LooseClaimRetaken` | `prompt` with `MaxCrashes = 0`, `MaxLate = 0`, `MayVanish = {"claim"}` |
| A close a request found above `scanned_height` survives the reorg of that block: the rewind compares the scanned height alone and a settled close is not looked at again (`watcher.py:512`, `:885`) | `PollTellsTruth` | `moving` with `MidPoll = {}`, `MayRequest = TRUE` |
| A close seen in the mempool changes only if another spender turns up; funding and exit both dropped, it stays (`watcher.py:1010`) | `ProvisionalCloseEnds` | `moving` with `MidPoll = {}`, `MaxForks = 0`, `MaxEvictions = 1` |
| A rewind whose question went unanswered makes a ghost of a spent, unburied vault until the next poll (`watcher.py:517`) | `GhostIsUndone` | `moving` with `MidPoll = {}`, `MaxFails = 1` |
| An exit seen in the mempool keeps its name when another is mined during a restart (`watcher.py:477`) | `PollTellsTruth` | `moving` with `MidPoll = {}`, `MaxForks = 0`, `MaxRestarts = 1` |
| A reorg inside the forward scan leaves a replaced block unread (`watcher.py:494`); between `gettxout` and the pair it records the wrong block (`:934`) | `PollTellsTruth`, `PairNamesFunding` | `moving` with `MidPoll = {"reorg"}` |
| A ghost whose coin comes back keeps its `spent_by`, which the other way back clears (`watcher.py:989`); when the coin is spent again, that exit is not read from the mempool (`:1016`) | `PollTellsTruth` | `moving` with `MaxForks = 2` |
| A funding undone by a reorg that is first seen as a shorter chain, of a vault that is SPENT_UNKNOWN, keeps its pair: `_replaced` is given no hash there | `UndoneIsNoticed` | `moving` with `ShorterChains = TRUE`, `MaxEvictions = 1` |
| A search that does not reach down to the funding, after a restart or two reorgs, and a reorg together with a restart, make a ghost of a vault whose funding stands | `GhostIsUndone` | `restarted` with `RescanDepth = 3`; with `MaxForks = 1`, `MaxFails = 0` |
| A `getrawmempool` that failed is read as an empty mempool, and a vault or an offer with its coin there becomes a ghost (`watcher.py:442`) | `GhostIsUndone`, `BoardIsShelf` | `restarted` with `PoolMayFail = TRUE`, `MaxRestarts = 0`; `shelf` with `PoolMayFail = TRUE`, no restart, listing or fork |
| A request between a restart and the first poll, or one with a transaction mined between its two questions, makes a passing ghost (`watcher.py:393`) | `GhostIsUndone` | `restarted` with `MayRequest = TRUE`; with `MaxRestarts = 0`, `MidPoll = {"mine"}` as well |
| A take mined between `gettxout` and the mempool read leaves the offer "gone" for good and its loan unregistered (`watcher.py:798`) | `BoardIsShelf`, `TakesAreBooked` | `shelf` with `MidPoll = {"mine"}`, nothing else failing |
| A remainder taken after a reorg moved it: the take's loan is not registered (`watcher.py:594`) | `TakesAreBooked` | `shelf` with `LateRemainders = TRUE`, no restart, listing, failure or eviction |
| An offer its lister took off is opened again by an unwound move (`watcher.py:734`, `pignusd:1465`) | `DelistedStaysOff` | `shelf` with no restart, listing or failure |
| A listing again drops `taken_txids`, and a take mined a second time is counted twice (`book.py:296`) | `TakesAreBooked` | `shelf` unconstrained, no restart, eviction or failure |
| A move found above the scanned height, or provisional at a restart, is not undone when its transaction goes | `BoardIsShelf` | `shelf` unconstrained, with a failure and a fork, or a restart and an eviction |
| A restart between `refresh_one`, which moves the record past a take, and the next poll loses the take's event (`pignusd:1335`) | `TakesAreBooked` without `restarts = 0` | `shelf` |
| An offer that was pruned is published again as open, with no lot taken (`book.py:996`) | `PaidIsNotOffered` | `relay` with `Relisted = TRUE` |
| A write cut by a full disk is in the running hash and not in the file (`oracle.py:768`) | `Pinned` | `signed` with `CutBy = {"full"}` |
| `at` bisects by timestamp, and a feed that dates its observations back, or restates one, hides a line | `Auditable` | `signed` with `FeedMay = {"goBack"}`, or `{"restate"}` and two prices |
| The change of a preparing send is blinded, so a wallet with plenty is refused as short (`vault.py:676`: "The re-pick below is what recovers from a send that swallowed one") | `PlentyIsFunded` | `exits` |
| `LoanTerms` does not look at the principal, nor for dust in the debt or the collateral (`terms.py:89-137`), and the exits compose outputs of nothing or of dust, which the node refuses | `NodeAccepts` | `exits` with a candidate whose principal is 0, or whose debt is 1 |
| Takes counted on a format-2 offer are not taken back with a reorg (`watcher2.py:283`) | `TakenIsCounted` | `lines` with `MaxFaults = 0` |
| A borrower who registers at a coin no line has yet begins a second record of one vault | `OneLoanPerVault` | `lines` with `AnyCoin = TRUE`, `MaxFaults = 0` |
| A step mined between the mempool question and the search, buried deeper than ten blocks under its last height, or asked of a mempool that did not answer, is called gone (`watcher2.py:91`; the module says a step is searched for "from a little below") | `GhostsAreGone` | `lines` with `MidPoll = {"mine"}`; with `MaxForks = 0`, `MaxEvictions = 1`, `Below = 1`, `MaxHeight = 5`, `MidPoll = {}`, `MaxFaults = 0`; with `PoolMayFail = TRUE` |
| Two takes found by one poll, a request that writes the book before the second's loan is opened, and a crash: the offer's line is on disk with both takes and no poll opens the loan again (`watcher2.py:324`, `book.py:238`) | `TakesAreLoans` | `lines` with the two-take instance (`MCTwoTxs`, `MCTwoCoins`, `MCTwoVaults`, `MCTwoSpends`, `MCTwoMakes`, `MCTwoLock`, `MCTwoTakes`) |
| A payout script registered while a poll holds the record is overwritten (`book.py:509`) | `RegisteredIsKept` without `Overwritten` | `lines` |
| An offer published anew while a poll holds its older record is overwritten too, and called a ghost if the older one's coins have gone (`watcher2.py:262`) | `GhostsAreGone` with `{offer}` for `Judged` | `lines` |
| A reorg deeper than the search mines a funding lower, and its offer is called a ghost | `GhostsAreGone` | `lines` with `MaxHeight = 4`, `MaxDepth = 3`, `Below = 1`, `MaxFaults = 0` |
| Two reorgs are together as deep as the burial, and a sender replaces the bond | `LiveStands` | `parties` with `MaxReorgs = 2` |
| Two copies of the terms that lie about the worth and the debt by the same amount pass `verify_funding` (`repurchase.py:338-347` says the amount catches a lie about the debt) | `DebtAgreed` | `parties` |

Behaviours seen in reading and kept in the models as they are:

* `repo-verify --vout` on an output that was never seen, or on spent change when
  nothing else pays the address, answers "settled" with status 0.
* An unburied first leg is refused rather than called "funded-unburied".
* `repo-forfeit` refuses a bond whose amount is not exact, though the covenant
  would pay it out.
* One unusable attestation refuses a whole seizure that the others would open.
* A DEFAULT whose price is over `max_price`, or over 2^40 without one,
  overflows the covenant's 64-bit multiplication and waits for RECOVER.
* A rotation that dies before the `.chain` file leaves a digest that skips the
  closed file; one line behind a cut write cannot be parsed.
* A "claimed" report sent again without its secret replaces the authorisation
  that came with the secret (not modelled: the facts are kept either way).
* One node question that fails ends a whole format-2 poll; a format-2 offer
  that became a ghost is not looked at again.

## What is not modelled, and why

* Scripts, signatures, adaptor points: a spend is possible when its deadline and
  its secret allow it; a signature is a fact of the call that carries it.
  `timelocks_sane`'s checks of the fee floor, of time-valued locktimes and of
  equal hashes are about data the model lacks.
* In `CrossLoan`: `resend_pass`, `--write-off`, the seizure path, the state
  file's lock (one writer is taken as given), the older shapes of a loan. A
  transaction in the mempool is in the next block; a reorg keeps the height. A
  send of the lender's is not replaced by the borrower once it is in the mempool
  unless a later one of theirs outbids it.
* In `VaultWatch` and `OfferWatch`: several items and the block budget they share
  (a walk may break off at any block). The runs have one reorg; the theorems any.
* In `TakeBook`: management tokens, several offers, the scan that follows a
  take's funding. In `PriceLog`: the freeze and jump guards of a round, the HTTP
  sources' own checks, format 2's record.
* In `VaultSpend`: the node wallet's own fee for a preparing send, blinding
  beyond which coins are explicit. In `LineWatch`: composing a format-2
  transaction, the arithmetic of its interest, its Simplicity programs.
* In `Repurchase`: `settle()` for an asset without OpenDAMP, a settlement that the
  lender composes, the principal's own confirmations; what a settlement says of
  the coins it spends is true. A time-valued sweep is let in when the median time
  equals its deadline, a second before a node takes it.
* The parts listed as `not_modelled` in PROJECT.json, each with its reason.

## Plan

1. More proofs: `BoardIsShelf` and `TakesAreBooked` of `OfferWatch`, for which the
   lemmas of `VaultWatchProofs` about `Ledger` and `Scanner` should become a
   module of their own; the reclaim that a reorg loses and the claim that is not
   reported, as weaker terms for `BorrowerIsWhole` and `LenderIsWhole`.
2. `OracleRound`: the freeze and jump guards and the seizure's checks against the
   daemon, the book and the log, on `PriceLog`.
3. `Liquidator`: a round over stale verdicts and racing rivals, on `VaultSpend`
   and `LineWatch`; then the beacon.
4. `LoanPromise`, the abstract loan (unpaid, paid, started, repaid, released)
   with `CrossLoan` shown to implement it under prompt parties.
