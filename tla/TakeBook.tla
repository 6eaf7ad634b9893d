------------------------------ MODULE TakeBook ------------------------------
(***************************************************************************)
(* One cross-chain offer and its takes in the relay's book                 *)
(* (pignus/book.py), the requests that write them (pignusd, do_POST) and   *)
(* the file.  A request reads the book, decides, and writes it under the   *)
(* lock later: what it decided on may have moved.  A report is a signature *)
(* that is valid for ever, and anybody may send it again.                  *)
(***************************************************************************)
EXTENDS Integers, FiniteSets

CONSTANTS
    Takes,
    Hashes,
    None,
    Lots,           \* the offer's lots
    MaxCalls,       \* requests between their reading and their writing
    MaxFaults,      \* crashes, and writes of the file that fail
    MaxPublished,   \* how often the offer is published again
    Relisted        \* it is, after the book has forgotten it

VARIABLES
    offer,          \* btc_offers
    take,           \* btc_takes
    ledger,         \* btc_commitments
    disk,           \* the file
    batch,          \* the poll thread's batch has unwritten changes
    calls,
    signed,         \* the reports that exist, with the lender's signature
    drawn,          \* the payment hash the lender drew for a take
    answered,       \* what the relay has said it wrote
    faults, published

book == <<offer, take, ledger>>
bounds == <<faults, published>>
vars == <<book, disk, batch, calls, signed, drawn, answered, bounds>>

ASSUME TakeBookAssumption ==
    /\ IsFiniteSet(Takes)
    /\ None \notin Takes \cup Hashes
    /\ Lots \in Nat \ {0} /\ MaxCalls \in Nat \ {0}
    /\ MaxFaults \in Nat /\ MaxPublished \in Nat
    /\ Relisted \in BOOLEAN

(* The steps a report claims, in the order a lender and a borrower make    *)
(* them; "claimed" is reported when the claim is made and again, with the  *)
(* secret, when it is buried.                                              *)
Kinds == {"hash", "presig", "release", "disbursed", "upgraded", "claimed",
          "secret", "refunded"}
Handshake == {"hash", "presig", "release"}
Reports == Kinds \ Handshake
StatusOf(k) == CASE k = "hash"      -> "reserved"
                 [] k = "presig"    -> "pending"
                 [] k = "release"   -> "signed"
                 [] k = "disbursed" -> "disbursed"
                 [] k = "upgraded"  -> "live"
                 [] k = "refunded"  -> "refunded"
                 [] OTHER           -> "claimed"
FactsOf(k) == IF k = "secret" THEN {"claimed", "secret"} ELSE {k}
(* What comes before it, in the record or in the signer's own. *)
After(k) == CASE k = "presig"    -> {"hash"}
              [] k = "release"   -> {"presig"}
              [] k = "disbursed" -> {"release"}
              [] k = "upgraded"  -> {"disbursed"}
              [] k = "claimed"   -> {"upgraded"}
              [] k = "secret"    -> {"claimed"}
              [] k = "refunded"  -> {"disbursed"}
              [] OTHER           -> {}

Kept == INSTANCE TakeLadder WITH
            Facts  <- Kinds,
            status <- [t \in Takes |-> disk.take[t].status],
            facts  <- [t \in Takes |-> disk.take[t].facts]
Rank == Kept!Rank
Terminal == Kept!Terminal

(* old: past the time a take that is unsigned, or only signed, holds its   *)
(* lot.  w: h_w; facts of a take that is pruned are the model's memory,    *)
(* not the book's.                                                         *)
Take == [status : Kept!Statuses, old : BOOLEAN, w : Hashes \cup {None},
         facts : SUBSET Kinds]
NoTake == [status |-> "none", old |-> FALSE, w |-> None, facts |-> {}]
Offer == [status : {"open", "withdrawn", "expired", "pruned"}, taken : Nat]
Call == [take : Takes, kind : Reports, status : Kept!Statuses]

TypeOK ==
    /\ offer \in Offer /\ take \in [Takes -> Take]
    /\ ledger \in [Hashes -> Takes \cup {None}]
    /\ disk \in [offer : Offer, take : [Takes -> Take],
                 ledger : [Hashes -> Takes \cup {None}]]
    /\ batch \in BOOLEAN
    /\ calls \subseteq Call
    /\ IsFiniteSet(calls) /\ Cardinality(calls) <= MaxCalls
    /\ signed \in [Takes -> SUBSET Kinds]
    /\ drawn \in [Takes -> Hashes \cup {None}]
    /\ answered \in [Takes -> SUBSET Kinds]
    /\ faults \in 0..MaxFaults /\ published \in 0..MaxPublished

InBook(t) == take[t].status \notin {"none", "pruned"}

-----------------------------------------------------------------------------
(* _save and _write: the whole book, at once and for good, or not at all.  *)

Fault == faults < MaxFaults /\ faults' = faults + 1

Wrote == disk' = [offer |-> offer', take |-> take', ledger |-> ledger']

(* Mutant: one batch for all threads. *)
SaveShared(ok) ==
    IF batch
    THEN UNCHANGED <<batch, disk, faults>>
    ELSE /\ UNCHANGED batch
         /\ IF ok THEN Wrote /\ UNCHANGED faults
            ELSE Fault /\ UNCHANGED disk

(* A request's own write, before it is answered; a batch is its thread's.  *)
Save(ok) ==
    /\ UNCHANGED batch
    /\ IF ok THEN Wrote /\ UNCHANGED faults
       ELSE Fault /\ UNCHANGED disk

-----------------------------------------------------------------------------
(* Lots. *)

Unsigned == {"requested", "reserved", "pending"}
LotFree == {"none", "pruned", "refunded"}

(* _holds_lot *)
Holds(t) ==
    /\ take[t].status \notin LotFree
    /\ take[t].status \in Unsigned \cup {"signed"} => ~take[t].old

(* _lots_left *)
LotsLeft ==
    LET left == Lots - offer.taken - Cardinality({t \in Takes : Holds(t)})
    IN  IF offer.status = "pruned" \/ left < 0 THEN 0 ELSE left

(* put_btc_take, from /v1/btc/take: the last lot and the commitment are    *)
(* claimed with the insert.                                                *)
Request(t, w) ==
    /\ take[t] = NoTake /\ signed[t] = {}
    /\ offer.status = "open" /\ LotsLeft >= 1
    /\ ledger[w] = None
    /\ take' = [take EXCEPT ![t] = [NoTake EXCEPT !.status = "requested",
                                                  !.w = w]]
    /\ ledger' = [ledger EXCEPT ![w] = t]
    /\ UNCHANGED <<offer, calls, signed, drawn, answered, published>>
    /\ \E ok \in BOOLEAN : Save(ok)

-----------------------------------------------------------------------------
(* The lender and the borrower of a take make a step and sign a report of  *)
(* it; the handshake is read from the book.  No more takes are paid than   *)
(* the offer has lots.                                                     *)

Owed == {t \in Takes : "disbursed" \in signed[t] /\ "refunded" \notin signed[t]}

Sign(t, k) ==
    /\ InBook(t) /\ k \notin signed[t]
    /\ IF k \in Handshake \cup {"disbursed"}
       THEN After(k) \subseteq take[t].facts
       ELSE After(k) \subseteq signed[t]
    /\ k = "disbursed" => Cardinality(Owed) < Lots
    /\ k = "refunded" => "upgraded" \notin signed[t]
    /\ k = "upgraded" => "refunded" \notin signed[t]
    /\ signed' = [signed EXCEPT ![t] = @ \cup {k}]
    /\ IF k = "hash" THEN \E h \in Hashes : drawn' = [drawn EXCEPT ![t] = h]
                     ELSE UNCHANGED drawn
    /\ UNCHANGED <<book, disk, batch, calls, answered, bounds>>

-----------------------------------------------------------------------------
(* A report arrives, or is sent again. *)

(* Mutant: a take that has ended refuses the report with its step. *)
ForwardUnlessEnded(t, k) ==
    LET now == take[t].status
    IN  IF now \notin Terminal /\ StatusOf(k) \notin Terminal
             /\ Rank[StatusOf(k)] < Rank[now]
        THEN "none" ELSE StatusOf(k)

(* forward_only: the step a report still takes, or "none". *)
Forward(t, k) ==
    LET now == take[t].status
        want == StatusOf(k)
    IN  IF now \in Terminal THEN IF want = now THEN want ELSE "none"
        ELSE IF want \notin Terminal /\ Rank[want] < Rank[now] THEN "none"
        ELSE want

(* Mutant: the secret's hash is not looked up. *)
ClaimUnchecked(t) == ledger' = [ledger EXCEPT ![drawn[t]] = t]

(* claim_btc_hash, unless it is the hash the principal is locked to. *)
Claim(t) ==
    /\ drawn[t] # take[t].w
    /\ ledger[drawn[t]] \in {None, t}
    /\ ledger' = [ledger EXCEPT ![drawn[t]] = t]

(* Mutant: the write trusts what forward_only decided. *)
NeverMoved(now, want) == FALSE

(* TakeMoved: the step would go back. *)
Moved(now, want) ==
    \/ now \in Terminal /\ want \notin {now, "none"}
    \/ /\ now \notin Terminal /\ want \notin Terminal \cup {"none"}
       /\ Rank[want] < Rank[now]

(* update_btc_take, with the step `want`, and the answer. *)
Update(t, k, want) ==
    /\ UNCHANGED <<offer, signed, drawn, published>>
    /\ IF ~InBook(t) \/ Moved(take[t].status, want)
       THEN UNCHANGED <<take, ledger, disk, batch, faults, answered>>
       ELSE /\ take' = [take EXCEPT
                  ![t].status = IF want = "none" THEN @ ELSE want,
                  ![t].facts = @ \cup FactsOf(k)]
            /\ UNCHANGED ledger
            /\ \E ok \in BOOLEAN :
                 /\ Save(ok)
                 /\ answered' = IF ok
                      THEN [answered EXCEPT ![t] = @ \cup FactsOf(k)]
                      ELSE answered

(* The hash of a take is written twice: in the ledger, ... *)
ClaimHash(t) ==
    /\ "hash" \in signed[t] /\ InBook(t)
    /\ ledger[drawn[t]] # t
    /\ Claim(t)
    /\ UNCHANGED <<offer, take, calls, signed, drawn, answered, published>>
    /\ \E ok \in BOOLEAN : Save(ok)

(* ... and in its take, like every step of the handshake.  What is checked *)
(* first never changes again.                                              *)
Shake(t, k) ==
    /\ k \in Handshake \cap signed[t] /\ InBook(t)
    /\ k = "hash" => drawn[t] # take[t].w /\ ledger[drawn[t]] = t
    /\ After(k) \subseteq take[t].facts
    /\ Update(t, k, StatusOf(k))
    /\ UNCHANGED calls

(* A report, read and written at once, ... *)
Report(t, k) ==
    /\ k \in Reports \cap signed[t] /\ InBook(t)
    /\ Update(t, k, Forward(t, k))
    /\ UNCHANGED calls

(* ... or held up between forward_only and update_btc_take. *)
Receive(t, k) ==
    /\ k \in Reports \cap signed[t] /\ InBook(t)
    /\ Cardinality(calls) < MaxCalls
    /\ calls' = calls \cup {[take |-> t, kind |-> k, status |-> Forward(t, k)]}
    /\ UNCHANGED <<book, disk, batch, signed, drawn, answered, bounds>>

WriteReport(c) ==
    /\ calls' = calls \ {c}
    /\ Update(c.take, c.kind, c.status)

-----------------------------------------------------------------------------
(* The offer. *)

(* /withdraw, by its lender. *)
Withdraw ==
    /\ offer.status \in {"open", "expired"}
    /\ offer' = [offer EXCEPT !.status = "withdrawn"]
    /\ UNCHANGED <<take, ledger, calls, signed, drawn, answered, published>>
    /\ \E ok \in BOOLEAN : Save(ok)

(* put_btc_offer of an offer the book may hold. *)
Listed(old) ==
    [status |-> IF old.status = "withdrawn" THEN "withdrawn" ELSE "open",
     taken  |-> IF old.status = "pruned" THEN 0 ELSE old.taken]

(* The offer's signature is public: anybody publishes it again. *)
Publish ==
    /\ published < MaxPublished /\ published' = published + 1
    /\ offer.status = "pruned" => Relisted
    /\ offer' = Listed(offer)
    /\ UNCHANGED <<take, ledger, calls, signed, drawn, answered>>
    /\ \E ok \in BOOLEAN : Save(ok)

(* expire_btc_offers, in the poll thread's batch: written when it ends. *)
Expire ==
    /\ ~batch /\ batch' = TRUE
    /\ offer.status = "open"
    /\ offer' = [offer EXCEPT !.status = "expired"]
    /\ UNCHANGED <<take, ledger, disk, calls, signed, drawn, answered, bounds>>

BatchEnd ==
    /\ batch /\ batch' = FALSE
    /\ UNCHANGED <<book, calls, signed, drawn, answered, published>>
    /\ \/ Wrote /\ UNCHANGED faults
       \/ Fault /\ UNCHANGED disk

Finished == {"claimed", "refunded", "requested", "reserved"}

(* Mutant: a take takes its lot with it. *)
CreditNothing(S) == 0
Credit(S) == Cardinality({t \in S : Holds(t)})

(* prune: takes finished for long, their lots credited to the offer; then  *)
(* the offer, if it is dead and no take is left.                           *)
Prune ==
    /\ ~batch
    /\ \E S \in SUBSET {t \in Takes : /\ take[t].status \in Finished
                                      /\ take[t].old},
          forget \in BOOLEAN :
         /\ S # {} \/ forget
         /\ forget => /\ offer.status \in {"withdrawn", "expired"}
                      /\ \A t \in Takes \ S : ~InBook(t)
         /\ take' = [t \in Takes |-> IF t \in S
                       THEN [take[t] EXCEPT !.status = "pruned"] ELSE take[t]]
         /\ offer' = IF forget THEN [status |-> "pruned", taken |-> 0]
                     ELSE IF offer.status = "pruned" THEN offer
                     ELSE [offer EXCEPT !.taken = @ + Credit(S)]
    /\ UNCHANGED <<ledger, calls, signed, drawn, answered, published>>
    /\ \E ok \in BOOLEAN : Save(ok)

(* Time passes. *)
Lapse(t) ==
    /\ InBook(t) /\ ~take[t].old
    /\ take' = [take EXCEPT ![t].old = TRUE]
    /\ disk' = [disk EXCEPT !.take[t].old = @ \/ disk.take[t].status # "none"]
    /\ UNCHANGED <<offer, ledger, batch, calls, signed, drawn, answered, bounds>>

(* pignusd dies; the book is what the file says. *)
Crash ==
    /\ Fault
    /\ offer' = disk.offer /\ take' = disk.take /\ ledger' = disk.ledger
    /\ batch' = FALSE /\ calls' = {}
    /\ UNCHANGED <<disk, signed, drawn, answered, published>>

-----------------------------------------------------------------------------
Init ==
    /\ offer = [status |-> "open", taken |-> 0]
    /\ take = [t \in Takes |-> NoTake]
    /\ ledger = [h \in Hashes |-> None]
    /\ disk = [offer |-> offer, take |-> take, ledger |-> ledger]
    /\ batch = FALSE /\ calls = {}
    /\ signed = [t \in Takes |-> {}] /\ answered = [t \in Takes |-> {}]
    /\ drawn = [t \in Takes |-> None]
    /\ faults = 0 /\ published = 0

Next ==
    \/ \E t \in Takes : \/ \E w \in Hashes : Request(t, w)
                        \/ \E k \in Kinds : Sign(t, k) \/ Shake(t, k)
                                           \/ Report(t, k) \/ Receive(t, k)
                        \/ ClaimHash(t) \/ Lapse(t)
    \/ \E c \in calls : WriteReport(c)
    \/ Withdraw \/ Publish \/ Expire \/ BatchEnd \/ Prune \/ Crash

Spec == Init /\ [][Next]_vars

-----------------------------------------------------------------------------
(* Properties. *)

(* What the file says of the takes climbs the ladder, whatever is sent     *)
(* twice, late, or between another request's reading and its writing, and  *)
(* whatever the daemon dies in.                                            *)
LadderKept == Kept!Spec

(* No report is refused for ever: one that is sent again, and is not       *)
(* overtaken, is written whatever became of its take.                      *)
ReportsAreTaken ==
    \A t \in Takes : InBook(t) =>
      \A k \in Reports \cap signed[t] : ~Moved(take[t].status, Forward(t, k))

(* What was answered is in the file, or was finished and is forgotten.     *)
AnsweredIsKept ==
    \A t \in Takes : disk.take[t].status = "pruned"
                       \/ answered[t] \subseteq disk.take[t].facts

(* "Forgetting an old record must not hand a lender's principal back out a *)
(* second time": what is on the table and what the relay knows to be paid  *)
(* never exceed the offer.                                                 *)
PaidIsNotOffered ==
    LET paid == {t \in Owed : "disbursed" \in answered[t]}
    IN  LotsLeft + Cardinality(paid) <= Lots

(* "Two loans sharing a secret are one loan either party can settle        *)
(* twice": no hash is committed to by two takes, or twice by one, and none *)
(* becomes free again when its take is forgotten.                          *)
SecretsAreApart ==
    LET own(t) == {take[t].w} \cup IF "hash" \in take[t].facts THEN {drawn[t]} ELSE {}
    IN  \A t \in Takes :
          /\ "hash" \in take[t].facts => take[t].w # drawn[t]
          /\ \A u \in Takes \ {t} : (own(t) \cap own(u)) \subseteq {None}
=============================================================================
