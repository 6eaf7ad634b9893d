--------------------------- MODULE TakeBookProofs ---------------------------
(***************************************************************************)
(* The relay's record of cross-chain takes, for every set of takes and     *)
(* payment hashes, every number of lots, of requests under way, of crashes *)
(* and of writes that fail.                                                *)
(***************************************************************************)
EXTENDS TakeBook, FiniteSetTheorems, TLAPS

-----------------------------------------------------------------------------
(* The ladder and the reports. *)

LEMMA Ladder ==
  /\ Kept!Statuses = {"none", "requested", "reserved", "pending", "signed",
                      "disbursed", "live", "claimed", "refunded", "pruned"}
  /\ Rank["none"] = 0 /\ Rank["requested"] = 1 /\ Rank["reserved"] = 2
  /\ Rank["pending"] = 3 /\ Rank["signed"] = 4 /\ Rank["disbursed"] = 5
  /\ Rank["live"] = 6 /\ Rank["claimed"] = 7 /\ Rank["refunded"] = 8
  /\ Rank["pruned"] = 9
  /\ Terminal = {"refunded"}
BY DEF Rank, Kept!Rank, Kept!Statuses, Terminal, Kept!Terminal

(* What a report may write. *)
LEMMA ReportWrites ==
  ASSUME NEW k \in Kinds
  PROVE  /\ StatusOf(k) \in Kept!Statuses \ {"none", "requested", "pruned"}
         /\ FactsOf(k) \subseteq Kinds
         /\ k \in FactsOf(k)
         /\ k # "secret" => FactsOf(k) = {k}
BY Ladder DEF Kinds, StatusOf, FactsOf

LEMMA ForwardStatus ==
  ASSUME NEW t \in Takes, NEW k \in Kinds
  PROVE  Forward(t, k) \in {StatusOf(k), "none"}
BY DEF Forward

-----------------------------------------------------------------------------
(* Types. *)

LEMMA InitType == Init => TypeOK
<1> SUFFICES ASSUME Init PROVE TypeOK
  OBVIOUS
<1>1. NoTake \in Take
  BY Ladder DEF NoTake, Take
<1>2. /\ offer \in Offer /\ take \in [Takes -> Take]
      /\ ledger \in [Hashes -> Takes \cup {None}]
  BY <1>1 DEF Init, Offer
<1>3. /\ calls \subseteq Call
      /\ IsFiniteSet(calls) /\ Cardinality(calls) <= MaxCalls
  BY FS_EmptySet, TakeBookAssumption DEF Init
<1>4. disk \in [offer : Offer, take : [Takes -> Take],
                ledger : [Hashes -> Takes \cup {None}]]
  BY <1>2 DEF Init
<1>5. /\ signed \in [Takes -> SUBSET Kinds]
      /\ answered \in [Takes -> SUBSET Kinds]
      /\ drawn \in [Takes -> Hashes \cup {None}]
  BY DEF Init
<1>6. faults \in 0..MaxFaults /\ published \in 0..MaxPublished
  BY TakeBookAssumption DEF Init
<1>7. batch \in BOOLEAN
  BY DEF Init
<1>8. QED
  BY <1>2, <1>3, <1>4, <1>5, <1>6, <1>7 DEF TypeOK

(* A write of the book, done or failed, keeps the types. *)
LEMMA SaveType ==
  ASSUME TypeOK, NEW ok \in BOOLEAN, Save(ok),
         offer' \in Offer, take' \in [Takes -> Take],
         ledger' \in [Hashes -> Takes \cup {None}]
  PROVE  /\ disk' \in [offer : Offer, take : [Takes -> Take],
                       ledger : [Hashes -> Takes \cup {None}]]
         /\ batch' \in BOOLEAN /\ faults' \in 0..MaxFaults
BY TakeBookAssumption DEF TypeOK, Save, Wrote, Fault

(* Finitely many takes may hold a lot. *)
LEMMA HoldersFinite ==
  ASSUME NEW S \in SUBSET Takes
  PROVE  IsFiniteSet(S) /\ Cardinality(S) \in Nat
BY FS_Subset, FS_CardinalityType, TakeBookAssumption

LEMMA CreditType ==
  ASSUME NEW S \in SUBSET Takes
  PROVE  Credit(S) \in Nat
<1>1. {t \in S : Holds(t)} \in SUBSET Takes
  OBVIOUS
<1>2. QED
  BY <1>1, HoldersFinite DEF Credit

(* The write of a report or of a step of the handshake. *)
LEMMA UpdateType ==
  ASSUME TypeOK, NEW t \in Takes, NEW k \in Kinds,
         NEW want \in Kept!Statuses, Update(t, k, want),
         calls' \subseteq Call,
         IsFiniteSet(calls') /\ Cardinality(calls') <= MaxCalls
  PROVE  TypeOK'
<1>1. CASE ~InBook(t) \/ Moved(take[t].status, want)
  BY <1>1 DEF Update, TypeOK
<1>2. CASE ~(~InBook(t) \/ Moved(take[t].status, want))
  <2> DEFINE r == [take[t] EXCEPT
                     !.status = IF want = "none" THEN @ ELSE want,
                     !.facts = @ \cup FactsOf(k)]
  <2>1. PICK ok \in BOOLEAN :
          /\ Save(ok)
          /\ answered' = IF ok
               THEN [answered EXCEPT ![t] = @ \cup FactsOf(k)]
               ELSE answered
    BY <1>2 DEF Update
  <2>2. r \in Take
    <3>1. take[t] \in Take
      BY DEF TypeOK
    <3>2. FactsOf(k) \subseteq Kinds
      BY ReportWrites
    <3>3. QED
      BY <3>1, <3>2 DEF Take
  <2>3. take' = [take EXCEPT ![t] = r]
    BY <1>2 DEF Update, TypeOK, Take
  <2>4. take' \in [Takes -> Take]
    BY <2>2, <2>3 DEF TypeOK
  <2>5. offer' \in Offer /\ ledger' \in [Hashes -> Takes \cup {None}]
    BY <1>2 DEF Update, TypeOK
  <2>6. answered' \in [Takes -> SUBSET Kinds]
    BY <2>1, ReportWrites DEF TypeOK
  <2>7. QED
    BY <2>1, <2>4, <2>5, <2>6, SaveType DEF Update, TypeOK
<1>3. QED
  BY <1>1, <1>2

(* The requests that write something else. *)
LEMMA WriteType ==
  ASSUME TypeOK, NEW ok \in BOOLEAN, Save(ok),
         offer' \in Offer, take' \in [Takes -> Take],
         ledger' \in [Hashes -> Takes \cup {None}],
         UNCHANGED <<calls, signed, drawn, answered>>,
         published' \in 0..MaxPublished
  PROVE  TypeOK'
BY SaveType DEF TypeOK

LEMMA TakeType ==
  ASSUME TypeOK, NEW t \in Takes,
         \/ \E w \in Hashes : Request(t, w)
         \/ \E k \in Kinds : Sign(t, k) \/ Shake(t, k) \/ Report(t, k)
                             \/ Receive(t, k)
         \/ ClaimHash(t) \/ Lapse(t)
  PROVE  TypeOK'
<1>1. ASSUME NEW w \in Hashes, Request(t, w) PROVE TypeOK'
  <2>1. [NoTake EXCEPT !.status = "requested", !.w = w] \in Take
    BY Ladder DEF NoTake, Take
  <2>2. /\ take' \in [Takes -> Take]
        /\ ledger' \in [Hashes -> Takes \cup {None}]
    BY <1>1, <2>1 DEF Request, TypeOK
  <2>3. QED
    BY <1>1, <2>2, WriteType DEF Request, TypeOK
<1>2. ASSUME NEW k \in Kinds, Sign(t, k) PROVE TypeOK'
  <2>1. signed' \in [Takes -> SUBSET Kinds]
    BY <1>2 DEF Sign, TypeOK
  <2>2. drawn' \in [Takes -> Hashes \cup {None}]
    BY <1>2 DEF Sign, TypeOK
  <2>3. QED
    BY <1>2, <2>1, <2>2 DEF Sign, TypeOK, book, bounds
<1>3. ASSUME NEW k \in Kinds, Shake(t, k) PROVE TypeOK'
  BY <1>3, UpdateType, ReportWrites DEF Shake, TypeOK
<1>4. ASSUME NEW k \in Kinds, Report(t, k) PROVE TypeOK'
  BY <1>4, UpdateType, ReportWrites, ForwardStatus, Ladder DEF Report, TypeOK
<1>5. ASSUME NEW k \in Kinds, Receive(t, k) PROVE TypeOK'
  <2> DEFINE c == [take |-> t, kind |-> k, status |-> Forward(t, k)]
  <2>1. c \in Call
    BY <1>5, ReportWrites, ForwardStatus, Ladder DEF Receive, Call
  <2>2. calls' = calls \cup {c} /\ Cardinality(calls) < MaxCalls
    BY <1>5 DEF Receive
  <2>3. /\ IsFiniteSet(calls \cup {c})
        /\ Cardinality(calls \cup {c}) <= Cardinality(calls) + 1
        /\ Cardinality(calls) \in Nat
    <3> HIDE DEF c
    <3>1. IsFiniteSet(calls)
      BY DEF TypeOK
    <3>2. Cardinality(calls) \in Nat
      BY <3>1, FS_CardinalityType
    <3>3. /\ IsFiniteSet(calls \cup {c})
          /\ Cardinality(calls \cup {c}) =
               IF c \in calls THEN Cardinality(calls) ELSE Cardinality(calls) + 1
      BY <3>1, FS_AddElement
    <3>4. QED
      BY <3>2, <3>3
  <2>4. IsFiniteSet(calls') /\ Cardinality(calls') <= MaxCalls
    <3> HIDE DEF c
    <3>1. Cardinality(calls \cup {c}) \in Nat
      BY <2>3, FS_CardinalityType
    <3>2. QED
      BY <2>2, <2>3, <3>1, TakeBookAssumption
  <2>5. QED
    BY <1>5, <2>1, <2>2, <2>4 DEF Receive, TypeOK, book, bounds
<1>6. CASE ClaimHash(t)
  <2>1. ledger' \in [Hashes -> Takes \cup {None}]
    BY <1>6 DEF ClaimHash, Claim, TypeOK
  <2>2. QED
    BY <1>6, <2>1, WriteType DEF ClaimHash, TypeOK
<1>7. CASE Lapse(t)
  <2>1. /\ take[t] \in Take /\ disk.take[t] \in Take
        /\ take' = [take EXCEPT ![t] = [take[t] EXCEPT !.old = TRUE]]
    BY <1>7 DEF Lapse, TypeOK
  <2>2. take' \in [Takes -> Take]
    BY <2>1 DEF TypeOK, Take
  <2>3. [disk.take[t] EXCEPT !.old =
           disk.take[t].old \/ disk.take[t].status # "none"] \in Take
    <3>1. (disk.take[t].old \/ disk.take[t].status # "none") \in BOOLEAN
      OBVIOUS
    <3>2. QED
      BY <2>1, <3>1 DEF Take
  <2>4. disk' = [disk EXCEPT !.take = [disk.take EXCEPT ![t] =
          [disk.take[t] EXCEPT !.old =
             disk.take[t].old \/ disk.take[t].status # "none"]]]
    BY <1>7 DEF Lapse
  <2>5. disk' \in [offer : Offer, take : [Takes -> Take],
                   ledger : [Hashes -> Takes \cup {None}]]
    BY <2>3, <2>4 DEF TypeOK
  <2>6. QED
    BY <1>7, <2>2, <2>5 DEF Lapse, TypeOK, bounds
<1>8. QED
  BY <1>1, <1>2, <1>3, <1>4, <1>5, <1>6, <1>7

LEMMA OfferType ==
  ASSUME TypeOK, Withdraw \/ Publish \/ Expire \/ BatchEnd \/ Prune \/ Crash
  PROVE  TypeOK'
<1>1. CASE Withdraw
  <2>1. offer' \in Offer
    BY <1>1 DEF Withdraw, TypeOK, Offer
  <2>2. QED
    BY <1>1, <2>1, WriteType DEF Withdraw, TypeOK
<1>2. CASE Publish
  <2>1. offer' \in Offer
    BY <1>2 DEF Publish, Listed, TypeOK, Offer
  <2>2. published' \in 0..MaxPublished
    BY <1>2, TakeBookAssumption DEF Publish, TypeOK
  <2>3. QED
    BY <1>2, <2>1, <2>2, WriteType DEF Publish, TypeOK
<1>3. CASE Expire
  <2>1. offer' \in Offer
    BY <1>3 DEF Expire, TypeOK, Offer
  <2>2. QED
    BY <1>3, <2>1 DEF Expire, TypeOK, bounds
<1>4. CASE BatchEnd
  <2>1. /\ disk' \in [offer : Offer, take : [Takes -> Take],
                       ledger : [Hashes -> Takes \cup {None}]]
        /\ faults' \in 0..MaxFaults
    BY <1>4, TakeBookAssumption DEF BatchEnd, Wrote, Fault, book, TypeOK
  <2>2. QED
    BY <1>4, <2>1 DEF BatchEnd, book, TypeOK
<1>5. CASE Prune
  <2>1. PICK S \in SUBSET Takes, forget \in BOOLEAN :
          /\ take' = [t \in Takes |-> IF t \in S
                        THEN [take[t] EXCEPT !.status = "pruned"] ELSE take[t]]
          /\ offer' = IF forget THEN [status |-> "pruned", taken |-> 0]
                      ELSE IF offer.status = "pruned" THEN offer
                      ELSE [offer EXCEPT !.taken = @ + Credit(S)]
    BY <1>5 DEF Prune
  <2>2. take' \in [Takes -> Take]
    <3>1. ASSUME NEW u \in Takes
          PROVE  [take[u] EXCEPT !.status = "pruned"] \in Take
      <4>1. take[u] \in Take
        BY DEF TypeOK
      <4>2. QED
        BY <4>1, Ladder DEF Take
    <3>2. QED
      BY <2>1, <3>1 DEF TypeOK
  <2>3. offer' \in Offer
    BY <2>1, CreditType DEF TypeOK, Offer
  <2>4. QED
    BY <1>5, <2>2, <2>3, WriteType DEF Prune, TypeOK
<1>6. CASE Crash
  <2>1. calls' = {} /\ IsFiniteSet(calls') /\ Cardinality(calls') = 0
    BY <1>6, FS_EmptySet DEF Crash
  <2>2. faults' \in 0..MaxFaults
    BY <1>6, TakeBookAssumption DEF Crash, Fault, TypeOK
  <2>3. /\ offer' \in Offer /\ take' \in [Takes -> Take]
        /\ ledger' \in [Hashes -> Takes \cup {None}]
    BY <1>6 DEF Crash, TypeOK
  <2>4. /\ calls' \subseteq Call
        /\ IsFiniteSet(calls') /\ Cardinality(calls') <= MaxCalls
    BY <2>1, TakeBookAssumption
  <2>5. QED
    BY <1>6, <2>2, <2>3, <2>4 DEF Crash, TypeOK
<1>7. QED
  BY <1>1, <1>2, <1>3, <1>4, <1>5, <1>6

LEMMA TypeStep == TypeOK /\ [Next]_vars => TypeOK'
<1> SUFFICES ASSUME TypeOK, [Next]_vars PROVE TypeOK'
  OBVIOUS
<1>1. ASSUME NEW c \in calls, WriteReport(c) PROVE TypeOK'
  <2>1. c \in Call
    BY DEF TypeOK
  <2>2. c.take \in Takes /\ c.kind \in Kinds /\ c.status \in Kept!Statuses
    BY <2>1 DEF Call, Reports
  <2>3. /\ calls' \subseteq Call
        /\ IsFiniteSet(calls') /\ Cardinality(calls') <= MaxCalls
    <3>1. calls' = calls \ {c}
      BY <1>1 DEF WriteReport
    <3>2. /\ IsFiniteSet(calls') /\ Cardinality(calls') <= Cardinality(calls)
          /\ Cardinality(calls') \in Nat /\ Cardinality(calls) \in Nat
      BY <3>1, FS_Subset, FS_CardinalityType DEF TypeOK
    <3>3. QED
      BY <3>1, <3>2, TakeBookAssumption DEF TypeOK
  <2>4. QED
    BY <1>1, <2>2, <2>3, UpdateType DEF WriteReport
<1>2. CASE UNCHANGED vars
  BY <1>2 DEF vars, book, bounds, TypeOK
<1>3. QED
  BY <1>1, <1>2, TakeType, OfferType DEF Next

(* Every state of the book, the file and the requests has its type: no     *)
(* request ever writes a status that is not on the ladder (TakeBook,       *)
(* TypeOK).                                                                *)
THEOREM TypeCorrect == Spec => []TypeOK
BY InitType, TypeStep, PTL DEF Spec

-----------------------------------------------------------------------------
(* The ladder.  That a record climbs is not inductive by itself: what is   *)
(* forgotten must have ended, which its status tells only because each     *)
(* status comes with its fact; the file may be behind the memory, and a    *)
(* crash falls back to it; and a request writes what it decided earlier.   *)

(* A record whose status and facts agree. *)
Sound(r) ==
    /\ r.status = "claimed" => "claimed" \in r.facts
    /\ r.status = "refunded" => "refunded" \in r.facts
    /\ "presig" \in r.facts => Rank[r.status] >= Rank["pending"]
    /\ r.status = "pruned" => Kept!RunOut(r.facts)

Climbs(r, s) ==
    /\ r.facts \subseteq s.facts
    /\ Rank[r.status] <= Rank[s.status]

(* What a request decided is the step of its report, or none. *)
CallsInv ==
    \A c \in calls : /\ c.status \in {StatusOf(c.kind), "none"}
                     /\ c.kind \in signed[c.take]

LadderInv ==
    /\ \A t \in Takes : /\ Sound(take[t]) /\ Sound(disk.take[t])
                        /\ Climbs(disk.take[t], take[t])
    /\ CallsInv

LEMMA ClimbsOn ==
  ASSUME NEW r \in Take, NEW s \in Take, NEW u \in Take,
         Climbs(r, s), Climbs(s, u)
  PROVE  Climbs(r, u)
BY Ladder DEF Climbs, Take

LEMMA ClimbsSelf ==
  ASSUME NEW r \in Take
  PROVE  Climbs(r, r)
BY Ladder DEF Climbs, Take

(* The write of a report or of a step of the handshake never goes back. *)
LEMMA UpdateClimbs ==
  ASSUME TypeOK, NEW t \in Takes, NEW k \in Kinds,
         NEW want \in {StatusOf(k), "none"}, k \in Handshake => want = StatusOf(k),
         Update(t, k, want), Sound(take[t])
  PROVE  /\ Climbs(take[t], take'[t]) /\ Sound(take'[t])
         /\ \A u \in Takes \ {t} : take'[u] = take[u]
<1>1. CASE ~InBook(t) \/ Moved(take[t].status, want)
  <2>1. take' = take
    BY <1>1 DEF Update
  <2>2. QED
    BY <2>1, ClimbsSelf DEF TypeOK
<1>2. CASE ~(~InBook(t) \/ Moved(take[t].status, want))
  <2> DEFINE r == take[t]
             s == take'[t]
  <2>1. r \in Take
    BY DEF TypeOK
  <2>2. /\ s.status = IF want = "none" THEN r.status ELSE want
        /\ s.facts = r.facts \cup FactsOf(k)
        /\ \A u \in Takes \ {t} : take'[u] = take[u]
    BY <1>2 DEF Update, TypeOK, Take
  <2>3. /\ r.status \in Kept!Statuses \ {"none", "pruned"}
        /\ ~Moved(r.status, want)
    BY <1>2, <2>1 DEF InBook, Take
  <2>4. Rank[r.status] <= Rank[s.status]
    BY <2>1, <2>2, <2>3, Ladder, ReportWrites DEF Moved
  <2>5. s.status \in Kept!Statuses \ {"none", "pruned"}
    BY <2>2, <2>3, ReportWrites
  <2>6. "claimed" = s.status => "claimed" \in s.facts
    BY <2>2 DEF Sound, StatusOf, FactsOf, Kinds
  <2>7. "refunded" = s.status => "refunded" \in s.facts
    BY <2>2 DEF Sound, StatusOf, FactsOf, Kinds
  <2>8. "presig" \in s.facts => Rank[s.status] >= Rank["pending"]
    <3>1. CASE k = "presig"
      <4>1. want = "pending"
        BY <3>1 DEF Handshake, StatusOf
      <4>2. QED
        BY <2>2, <4>1, Ladder
    <3>2. CASE k # "presig"
      <4>1. "presig" \notin FactsOf(k)
        BY <3>2 DEF FactsOf
      <4>2. QED
        BY <2>1, <2>2, <2>4, <2>5, <4>1, Ladder DEF Sound, Take
    <3>3. QED
      BY <3>1, <3>2
  <2>9. QED
    BY <2>2, <2>4, <2>5, <2>6, <2>7, <2>8 DEF Climbs, Sound
<1>3. QED
  BY <1>1, <1>2

(* The file is written as it is in memory, or keeps what it says. *)
DiskKept ==
    /\ disk'.offer = disk.offer /\ disk'.ledger = disk.ledger
    /\ \A t \in Takes : /\ disk'.take[t].status = disk.take[t].status
                        /\ disk'.take[t].facts = disk.take[t].facts
                        /\ disk'.take[t].w = disk.take[t].w

LEMMA DiskStep == TypeOK /\ [Next]_vars => Wrote \/ DiskKept
<1> SUFFICES ASSUME TypeOK, [Next]_vars PROVE Wrote \/ DiskKept
  OBVIOUS
<1>1. ASSUME NEW ok \in BOOLEAN, Save(ok) PROVE Wrote \/ DiskKept
  BY <1>1 DEF Save, DiskKept
<1>2. ASSUME UNCHANGED disk PROVE DiskKept
  BY <1>2 DEF DiskKept
<1>3. ASSUME NEW t \in Takes, NEW k \in Kinds, NEW want, Update(t, k, want)
      PROVE  Wrote \/ DiskKept
  BY <1>1, <1>2, <1>3 DEF Update
<1>4. ASSUME NEW t \in Takes, Lapse(t) PROVE DiskKept
  <2>1. disk' = [disk EXCEPT !.take = [disk.take EXCEPT ![t] =
          [disk.take[t] EXCEPT !.old =
             disk.take[t].old \/ disk.take[t].status # "none"]]]
    BY <1>4 DEF Lapse
  <2>2. /\ disk.take \in [Takes -> Take]
        /\ disk \in [offer : Offer, take : [Takes -> Take],
                     ledger : [Hashes -> Takes \cup {None}]]
    BY DEF TypeOK
  <2>3. QED
    BY <2>1, <2>2 DEF DiskKept, Take
<1>5. ASSUME NEW c \in calls, WriteReport(c) PROVE Wrote \/ DiskKept
  BY <1>3, <1>5 DEF WriteReport, TypeOK, Call, Reports
<1>6. QED
  BY ZenonT(40), <1>1, <1>2, <1>3, <1>4, <1>5
  DEF Next, vars, Request, Sign, Shake, Report, Receive, ClaimHash, Withdraw,
      Publish, Expire, BatchEnd, Prune, Crash

(* Outside a crash, records in memory only climb, and stay sound. *)
LEMMA MemoryClimbs ==
  ASSUME TypeOK, LadderInv, [Next]_vars, ~Crash, NEW t \in Takes
  PROVE  Climbs(take[t], take'[t]) /\ Sound(take'[t])
<1>0. /\ take[t] \in Take /\ Climbs(take[t], take[t]) /\ Sound(take[t])
      /\ \A u \in Takes : Sound(take[u])
  BY ClimbsSelf DEF TypeOK, LadderInv
<1>1. ASSUME take'[t] = take[t] PROVE Climbs(take[t], take'[t]) /\ Sound(take'[t])
  BY <1>0, <1>1
<1>2. ASSUME NEW u \in Takes, NEW w \in Hashes, Request(u, w)
      PROVE  Climbs(take[t], take'[t]) /\ Sound(take'[t])
  <2>1. CASE t = u
    <3>1. take[t] = NoTake
      BY <1>2, <2>1 DEF Request
    <3>2. take'[t] = [NoTake EXCEPT !.status = "requested", !.w = w]
      BY <1>2, <2>1 DEF Request, TypeOK
    <3>3. QED
      BY <3>1, <3>2, Ladder DEF NoTake, Climbs, Sound
  <2>2. CASE t # u
    BY <1>1, <1>2, <2>2 DEF Request, TypeOK
  <2>3. QED
    BY <2>1, <2>2
<1>3. ASSUME NEW u \in Takes, NEW k \in Kinds, Shake(u, k)
      PROVE  Climbs(take[t], take'[t]) /\ Sound(take'[t])
  BY <1>0, <1>3, UpdateClimbs DEF Shake
<1>4. ASSUME NEW u \in Takes, NEW k \in Kinds, Report(u, k)
      PROVE  Climbs(take[t], take'[t]) /\ Sound(take'[t])
  <2>1. k \notin Handshake
    BY <1>4 DEF Report, Reports
  <2>2. QED
    BY <1>0, <1>4, <2>1, ForwardStatus, UpdateClimbs DEF Report
<1>5. ASSUME NEW c \in calls, WriteReport(c)
      PROVE  Climbs(take[t], take'[t]) /\ Sound(take'[t])
  <2>1. /\ c.take \in Takes /\ c.kind \in Kinds \ Handshake
        /\ c.status \in {StatusOf(c.kind), "none"}
    BY DEF TypeOK, Call, Reports, LadderInv, CallsInv
  <2>2. QED
    BY <1>0, <1>5, <2>1, UpdateClimbs DEF WriteReport
<1>6. ASSUME NEW u \in Takes, Lapse(u)
      PROVE  Climbs(take[t], take'[t]) /\ Sound(take'[t])
  <2>1. take' = [take EXCEPT ![u] = [take[u] EXCEPT !.old = TRUE]]
    BY <1>6 DEF Lapse
  <2>2. take'[t].status = take[t].status /\ take'[t].facts = take[t].facts
    BY <2>1 DEF TypeOK, Take
  <2>3. QED
    BY <1>0, <2>2 DEF Climbs, Sound
<1>7. ASSUME Prune
      PROVE  Climbs(take[t], take'[t]) /\ Sound(take'[t])
  <2>1. PICK S \in SUBSET {u \in Takes : take[u].status \in Finished} :
          take' = [u \in Takes |-> IF u \in S
                     THEN [take[u] EXCEPT !.status = "pruned"] ELSE take[u]]
    BY <1>7 DEF Prune
  <2>2. CASE t \in S
    <3>1. /\ take'[t].status = "pruned" /\ take'[t].facts = take[t].facts
          /\ take[t].status \in Finished
      BY <1>0, <2>1, <2>2 DEF Take
    <3>2. Kept!RunOut(take[t].facts)
      BY <1>0, <3>1, Ladder DEF Sound, Finished, Kept!RunOut
    <3>3. QED
      BY <1>0, <3>1, <3>2, Ladder DEF Climbs, Sound, Take
  <2>3. CASE t \notin S
    BY <1>1, <2>1, <2>3
  <2>4. QED
    BY <2>2, <2>3
<1>8. QED
  BY <1>1, <1>2, <1>3, <1>4, <1>5, <1>6, <1>7
  DEF Next, vars, book, Sign, Receive, ClaimHash, Withdraw, Publish, Expire,
      BatchEnd

(* What is signed stays signed; only Sign adds to it. *)
LEMMA SignedGrows ==
  ASSUME TypeOK, [Next]_vars
  PROVE  /\ \A t \in Takes : signed[t] \subseteq signed'[t]
         /\ \/ UNCHANGED <<signed, drawn>>
            \/ \E t \in Takes, k \in Kinds : Sign(t, k)
<1>1. ASSUME NEW t \in Takes, NEW k \in Kinds, Shake(t, k) \/ Report(t, k)
      PROVE  UNCHANGED <<signed, drawn>>
  BY <1>1 DEF Shake, Report, Update
<1>2. ASSUME NEW c \in calls, WriteReport(c)
      PROVE  UNCHANGED <<signed, drawn>>
  BY <1>2 DEF WriteReport, Update
<1>3. \/ UNCHANGED <<signed, drawn>>
      \/ \E t \in Takes, k \in Kinds : Sign(t, k)
  BY <1>1, <1>2
  DEF Next, vars, Request, Receive, ClaimHash, Lapse, Withdraw, Publish,
      Expire, BatchEnd, Prune, Crash
<1>4. ASSUME NEW t \in Takes, NEW k \in Kinds, Sign(t, k), NEW u \in Takes
      PROVE  signed[u] \subseteq signed'[u]
  BY <1>4 DEF Sign, TypeOK
<1>5. QED
  BY <1>3, <1>4

LEMMA CallsStep ==
  ASSUME TypeOK, CallsInv, [Next]_vars
  PROVE  CallsInv'
<1>1. \A t \in Takes : signed[t] \subseteq signed'[t]
  BY SignedGrows
<1>2. \/ calls' \subseteq calls
      \/ \E t \in Takes, k \in Kinds : Receive(t, k)
  BY DEF Next, vars, Request, Sign, Shake, Report, ClaimHash, Lapse,
         WriteReport, Withdraw, Publish, Expire, BatchEnd, Prune, Crash
<1>3. CASE calls' \subseteq calls
  BY <1>1, <1>3 DEF CallsInv, TypeOK, Call
<1>4. ASSUME NEW t \in Takes, NEW k \in Kinds, Receive(t, k)
      PROVE  CallsInv'
  <2>1. /\ calls' = calls \cup
                    {[take |-> t, kind |-> k, status |-> Forward(t, k)]}
        /\ k \in signed[t]
    BY <1>4 DEF Receive
  <2>2. Forward(t, k) \in {StatusOf(k), "none"}
    BY ForwardStatus
  <2>3. QED
    BY <1>1, <2>1, <2>2 DEF CallsInv, TypeOK, Call
<1>5. QED
  BY <1>2, <1>3, <1>4

LEMMA LadderStep ==
  ASSUME TypeOK, TypeOK', LadderInv, [Next]_vars
  PROVE  /\ LadderInv'
         /\ \A t \in Takes : Climbs(disk.take[t], disk'.take[t])
<1>1. CallsInv'
  BY CallsStep DEF LadderInv
<1>2. ASSUME NEW t \in Takes
      PROVE  /\ Sound(take'[t]) /\ Sound(disk'.take[t])
             /\ Climbs(disk'.take[t], take'[t])
             /\ Climbs(disk.take[t], disk'.take[t])
  <2>1. /\ take[t] \in Take /\ take'[t] \in Take
        /\ disk.take[t] \in Take /\ disk'.take[t] \in Take
    BY DEF TypeOK
  <2>2. /\ Sound(take[t]) /\ Sound(disk.take[t])
        /\ Climbs(disk.take[t], take[t])
    BY DEF LadderInv
  <2>3. CASE Crash
    <3>1. take' = disk.take /\ disk' = disk
      BY <2>3 DEF Crash
    <3>2. QED
      BY <2>1, <2>2, <3>1, ClimbsSelf
  <2>4. CASE ~Crash
    <3>1. Climbs(take[t], take'[t]) /\ Sound(take'[t])
      BY <2>4, MemoryClimbs
    <3>2. Climbs(disk.take[t], take'[t])
      BY <2>1, <2>2, <3>1, ClimbsOn
    <3>3. CASE Wrote
      <4>1. disk'.take[t] = take'[t]
        BY <3>3 DEF Wrote
      <4>2. QED
        BY <2>1, <3>1, <3>2, <4>1, ClimbsSelf
    <3>4. CASE DiskKept
      <4>1. /\ disk'.take[t].status = disk.take[t].status
            /\ disk'.take[t].facts = disk.take[t].facts
        BY <3>4 DEF DiskKept
      <4>2. QED
        BY <2>1, <2>2, <3>1, <3>2, <4>1, ClimbsSelf DEF Climbs, Sound
    <3>5. QED
      BY <3>3, <3>4, DiskStep
  <2>5. QED
    BY <2>3, <2>4
<1>3. QED
  BY <1>1, <1>2 DEF LadderInv

LEMMA LadderInit == Init => LadderInv
<1> SUFFICES ASSUME Init PROVE LadderInv
  OBVIOUS
<1>1. Sound(NoTake) /\ Climbs(NoTake, NoTake)
  BY Ladder DEF NoTake, Sound, Climbs
<1>2. \A t \in Takes : take[t] = NoTake /\ disk.take[t] = NoTake
  BY DEF Init
<1>3. QED
  BY <1>1, <1>2 DEF Init, LadderInv, CallsInv

LEMMA LadderInvariant == Spec => [](TypeOK /\ LadderInv)
<1>1. TypeOK /\ LadderInv /\ [Next]_vars => LadderInv'
  BY TypeStep, LadderStep
<1>2. QED
  BY LadderInit, TypeCorrect, <1>1, PTL DEF Spec

(* What the file says of the takes climbs the ladder of TakeLadder,        *)
(* whatever is sent twice, late or between another request's reading and   *)
(* its writing, and whatever the daemon dies in (TakeBook, LadderKept).    *)
THEOREM FileClimbs == Spec => LadderKept
<1>1. Init => Kept!Init
  BY DEF Init, Kept!Init, NoTake
<1>2. TypeOK /\ LadderInv /\ [Next]_vars /\ TypeOK' /\ LadderInv' => Kept!Next
  <2> SUFFICES ASSUME TypeOK, LadderInv, [Next]_vars, TypeOK', LadderInv'
               PROVE  Kept!Next
    OBVIOUS
  <2>1. ASSUME NEW t \in Takes
        PROVE  /\ disk'.take[t].status \in Kept!Statuses
               /\ disk'.take[t].facts \in SUBSET Kinds
               /\ disk.take[t].facts \subseteq disk'.take[t].facts
               /\ Kept!Rank[disk.take[t].status]
                    <= Kept!Rank[disk'.take[t].status]
               /\ disk'.take[t].status = "pruned"
                    => Kept!RunOut(disk'.take[t].facts)
    <3>1. disk'.take[t] \in Take
      BY DEF TypeOK
    <3>2. Climbs(disk.take[t], disk'.take[t]) /\ Sound(disk'.take[t])
      BY LadderStep DEF LadderInv
    <3>3. QED
      BY <3>1, <3>2 DEF Take, Climbs, Sound, Rank
  <2>2. QED
    BY <2>1 DEF Kept!Next, Kept!Moves
<1>3. QED
  BY <1>1, <1>2, LadderInvariant, PTL DEF Spec, LadderKept, Kept!Spec

-----------------------------------------------------------------------------
(* What was answered.  A take that is forgotten keeps its facts in the     *)
(* model, so the property holds without its exception.                     *)

AnsweredInv == \A t \in Takes : answered[t] \subseteq disk.take[t].facts

LEMMA AnsweredStep ==
  ASSUME TypeOK, TypeOK', LadderInv, AnsweredInv, [Next]_vars
  PROVE  AnsweredInv'
<1>1. \A t \in Takes : disk.take[t].facts \subseteq disk'.take[t].facts
  BY LadderStep DEF Climbs
<1>2. ASSUME UNCHANGED answered PROVE AnsweredInv'
  BY <1>1, <1>2 DEF AnsweredInv
<1>3. ASSUME NEW t \in Takes, NEW k \in Kinds, NEW want, Update(t, k, want)
      PROVE  AnsweredInv'
  <2>1. CASE ~InBook(t) \/ Moved(take[t].status, want)
    BY <1>2, <1>3, <2>1 DEF Update
  <2>2. CASE ~(~InBook(t) \/ Moved(take[t].status, want))
    <3>1. PICK ok \in BOOLEAN :
            /\ Save(ok)
            /\ answered' = IF ok
                 THEN [answered EXCEPT ![t] = @ \cup FactsOf(k)]
                 ELSE answered
      BY <1>3, <2>2 DEF Update
    <3>2. CASE ok
      <4>1. disk'.take = take'
        BY <3>1, <3>2 DEF Save, Wrote
      <4>2. FactsOf(k) \subseteq take'[t].facts
        BY <1>3, <2>2 DEF Update, TypeOK, Take
      <4>3. \A u \in Takes : answered'[u] =
              IF u = t THEN answered[u] \cup FactsOf(k) ELSE answered[u]
        BY <3>1, <3>2 DEF TypeOK
      <4>4. QED
        BY <1>1, <4>1, <4>2, <4>3 DEF AnsweredInv
    <3>3. CASE ~ok
      BY <1>2, <3>1, <3>3
    <3>4. QED
      BY <3>2, <3>3
  <2>3. QED
    BY <2>1, <2>2
<1>4. ASSUME NEW c \in calls, WriteReport(c) PROVE AnsweredInv'
  BY <1>3, <1>4 DEF WriteReport, TypeOK, Call, Reports
<1>5. QED
  BY ZenonT(40), <1>2, <1>3, <1>4
  DEF Next, vars, Request, Sign, Shake, Report, Receive, ClaimHash, Lapse,
      Withdraw, Publish, Expire, BatchEnd, Prune, Crash

LEMMA AnsweredInvariant == Spec => []AnsweredInv
<1>1. Init => AnsweredInv
  BY DEF Init, AnsweredInv
<1>2. TypeOK /\ TypeOK' /\ LadderInv /\ AnsweredInv /\ [Next]_vars => AnsweredInv'
  BY AnsweredStep
<1>3. QED
  BY <1>1, <1>2, LadderInvariant, PTL DEF Spec

(* What the relay has said it wrote is in the file: a request is answered  *)
(* after its write, and nothing that is written later, or that a crash     *)
(* falls back to, says less (TakeBook, AnsweredIsKept).                    *)
THEOREM AnswersAreKept == Spec => []AnsweredIsKept
<1>1. AnsweredInv => AnsweredIsKept
  BY DEF AnsweredInv, AnsweredIsKept
<1>2. QED
  BY <1>1, AnsweredInvariant, PTL

-----------------------------------------------------------------------------
(* The hashes.  The ledger holds every hash the book says a take commits   *)
(* to, in memory and in the file, and it never lets go of one.             *)

Committed(tk, lg) ==
    \A t \in Takes :
      /\ tk[t].w # None => lg[tk[t].w] = t
      /\ "hash" \in tk[t].facts => /\ "hash" \in signed[t]
                                   /\ lg[drawn[t]] = t
                                   /\ tk[t].w # drawn[t]

SecretInv ==
    /\ \A t \in Takes : "hash" \in signed[t] => drawn[t] \in Hashes
    /\ Committed(take, ledger)
    /\ Committed(disk.take, disk.ledger)

(* Outside a crash, a hash that is taken stays with its take. *)
LEMMA LedgerKeeps ==
  ASSUME TypeOK, [Next]_vars, ~Crash, NEW h \in Hashes, ledger[h] # None
  PROVE  ledger'[h] = ledger[h]
<1>1. ASSUME UNCHANGED ledger PROVE ledger'[h] = ledger[h]
  BY <1>1
<1>2. ASSUME NEW t \in Takes, NEW w \in Hashes, Request(t, w)
      PROVE  ledger'[h] = ledger[h]
  BY <1>2 DEF Request, TypeOK
<1>3. ASSUME NEW t \in Takes, ClaimHash(t) PROVE ledger'[h] = ledger[h]
  BY <1>3 DEF ClaimHash, Claim, TypeOK
<1>4. ASSUME NEW t \in Takes, NEW k \in Kinds, Shake(t, k) \/ Report(t, k)
      PROVE  ledger'[h] = ledger[h]
  BY <1>4 DEF Shake, Report, Update
<1>5. ASSUME NEW c \in calls, WriteReport(c) PROVE ledger'[h] = ledger[h]
  BY <1>5 DEF WriteReport, Update
<1>6. QED
  BY <1>1, <1>2, <1>3, <1>4, <1>5
  DEF Next, vars, book, Sign, Receive, Lapse, Withdraw, Publish, Expire,
      BatchEnd, Prune

(* What a step, other than a crash, makes a take commit to. *)
CommitsTo(t) ==
    \/ /\ take'[t].w = take[t].w
       /\ "hash" \in take'[t].facts => "hash" \in take[t].facts
    \/ /\ take'[t].w \in Hashes /\ ledger'[take'[t].w] = t
       /\ take'[t].facts = {}
    \/ /\ take'[t].w = take[t].w /\ "hash" \in signed[t]
       /\ drawn[t] # take[t].w /\ ledger[drawn[t]] = t

LEMMA UpdateCommits ==
  ASSUME TypeOK, NEW t \in Takes, NEW u \in Takes, NEW k \in Kinds, NEW want,
         Update(u, k, want)
  PROVE  /\ take'[t].w = take[t].w
         /\ "hash" \in take'[t].facts => "hash" \in take[t].facts \/ (t = u /\ k = "hash")
<1>1. CASE ~InBook(u) \/ Moved(take[u].status, want)
  <2>1. take' = take
    BY <1>1 DEF Update
  <2>2. QED
    BY <2>1
<1>2. CASE ~(~InBook(u) \/ Moved(take[u].status, want))
  <2>1. /\ take'[u].w = take[u].w
        /\ take'[u].facts = take[u].facts \cup FactsOf(k)
        /\ t # u => take'[t] = take[t]
    BY <1>2 DEF Update, TypeOK, Take
  <2>2. "hash" \in FactsOf(k) => k = "hash"
    BY DEF FactsOf
  <2>3. QED
    BY <2>1, <2>2
<1>3. QED
  BY <1>1, <1>2

LEMMA StepCommits ==
  ASSUME TypeOK, [Next]_vars, ~Crash, NEW t \in Takes
  PROVE  CommitsTo(t)
<1>1. ASSUME take'[t] = take[t] PROVE CommitsTo(t)
  BY <1>1 DEF CommitsTo
<1>2. ASSUME NEW u \in Takes, NEW w \in Hashes, Request(u, w)
      PROVE  CommitsTo(t)
  <2>1. CASE t = u
    <3>1. take'[t] = [NoTake EXCEPT !.status = "requested", !.w = w]
      BY <1>2, <2>1 DEF Request, TypeOK
    <3>2. ledger'[w] = t
      BY <1>2, <2>1 DEF Request, TypeOK
    <3>3. QED
      BY <3>1, <3>2 DEF CommitsTo, NoTake
  <2>2. CASE t # u
    BY <1>1, <1>2, <2>2 DEF Request, TypeOK
  <2>3. QED
    BY <2>1, <2>2
<1>3. ASSUME NEW u \in Takes, NEW k \in Kinds, Shake(u, k)
      PROVE  CommitsTo(t)
  <2>1. /\ take'[t].w = take[t].w
        /\ "hash" \in take'[t].facts => "hash" \in take[t].facts \/ (t = u /\ k = "hash")
    BY <1>3, UpdateCommits DEF Shake
  <2>2. k = "hash" => /\ "hash" \in signed[u] /\ drawn[u] # take[u].w
                      /\ ledger[drawn[u]] = u
    BY <1>3 DEF Shake
  <2>3. QED
    BY <2>1, <2>2 DEF CommitsTo
<1>4. ASSUME NEW u \in Takes, NEW k \in Kinds, Report(u, k)
      PROVE  CommitsTo(t)
  <2>1. k # "hash"
    BY <1>4 DEF Report, Reports, Handshake
  <2>2. QED
    BY <1>4, <2>1, UpdateCommits DEF Report, CommitsTo
<1>5. ASSUME NEW c \in calls, WriteReport(c) PROVE CommitsTo(t)
  <2>1. c.take \in Takes /\ c.kind \in Kinds /\ c.kind # "hash"
    BY DEF TypeOK, Call, Reports, Handshake
  <2>2. QED
    BY <1>5, <2>1, UpdateCommits DEF WriteReport, CommitsTo
<1>6. ASSUME NEW u \in Takes, Lapse(u) PROVE CommitsTo(t)
  <2>1. take' = [take EXCEPT ![u] = [take[u] EXCEPT !.old = TRUE]]
    BY <1>6 DEF Lapse
  <2>2. QED
    BY <2>1 DEF CommitsTo, TypeOK, Take
<1>7. ASSUME Prune PROVE CommitsTo(t)
  <2>1. PICK S \in SUBSET Takes :
          take' = [u \in Takes |-> IF u \in S
                     THEN [take[u] EXCEPT !.status = "pruned"] ELSE take[u]]
    BY <1>7 DEF Prune
  <2>2. QED
    BY <2>1 DEF CommitsTo, TypeOK, Take
<1>8. QED
  BY <1>1, <1>2, <1>3, <1>4, <1>5, <1>6, <1>7
  DEF Next, vars, book, Sign, Receive, ClaimHash, Withdraw, Publish, Expire,
      BatchEnd

(* A hash that is drawn and signed is not drawn again. *)
LEMMA DrawnStays ==
  ASSUME TypeOK, [Next]_vars, NEW t \in Takes
  PROVE  /\ "hash" \in signed[t] => /\ "hash" \in signed'[t]
                                    /\ drawn'[t] = drawn[t]
         /\ "hash" \in signed'[t] /\ "hash" \notin signed[t]
              => drawn'[t] \in Hashes
<1>1. CASE UNCHANGED <<signed, drawn>>
  BY <1>1
<1>2. ASSUME NEW u \in Takes, NEW k \in Kinds, Sign(u, k)
      PROVE  /\ "hash" \in signed[t] => /\ "hash" \in signed'[t]
                                        /\ drawn'[t] = drawn[t]
             /\ "hash" \in signed'[t] /\ "hash" \notin signed[t]
                  => drawn'[t] \in Hashes
  BY <1>2 DEF Sign, TypeOK
<1>3. QED
  BY <1>1, <1>2, SignedGrows

LEMMA SecretStep ==
  ASSUME TypeOK, TypeOK', SecretInv, [Next]_vars
  PROVE  SecretInv'
<1>1. \A t \in Takes : "hash" \in signed'[t] => drawn'[t] \in Hashes
  BY DrawnStays DEF SecretInv
<1>2. ASSUME NEW tk \in [Takes -> Take], NEW lg, Committed(tk, lg)
      PROVE  \A t \in Takes :
               /\ tk[t].w # None => lg[tk[t].w] = t
               /\ "hash" \in tk[t].facts => /\ "hash" \in signed'[t]
                                            /\ lg[drawn'[t]] = t
                                            /\ tk[t].w # drawn'[t]
  BY <1>2, DrawnStays DEF Committed
<1>3. CASE Crash
  <2>1. take' = disk.take /\ ledger' = disk.ledger /\ disk' = disk
    BY <1>3 DEF Crash
  <2>2. disk.take \in [Takes -> Take] /\ Committed(disk.take, disk.ledger)
    BY DEF TypeOK, SecretInv
  <2>3. Committed(take, ledger)'
    BY <1>2, <2>1, <2>2 DEF Committed
  <2>4. Committed(disk.take, disk.ledger)'
    BY <1>2, <2>1, <2>2 DEF Committed
  <2>5. QED
    BY <1>1, <2>3, <2>4 DEF SecretInv
<1>4. CASE ~Crash
  <2>1. ASSUME NEW t \in Takes
        PROVE  /\ take'[t].w # None => ledger'[take'[t].w] = t
               /\ "hash" \in take'[t].facts => /\ "hash" \in signed'[t]
                                               /\ ledger'[drawn'[t]] = t
                                               /\ take'[t].w # drawn'[t]
    <3>1. /\ take[t] \in Take /\ t # None
          /\ take[t].w # None => ledger[take[t].w] = t
          /\ "hash" \in take[t].facts => /\ "hash" \in signed[t]
                                         /\ ledger[drawn[t]] = t
                                         /\ take[t].w # drawn[t]
          /\ "hash" \in signed[t] => drawn[t] \in Hashes
      BY TakeBookAssumption DEF TypeOK, SecretInv, Committed
    <3>2. take[t].w # None => take[t].w \in Hashes
      BY <3>1 DEF Take
    <3>3. \A h \in Hashes : ledger[h] = t => ledger'[h] = t
      BY <1>4, <3>1, LedgerKeeps
    <3>4. "hash" \in signed[t] => "hash" \in signed'[t] /\ drawn'[t] = drawn[t]
      BY DrawnStays
    <3>5. CommitsTo(t)
      BY <1>4, StepCommits
    <3>6. QED
      BY <3>1, <3>2, <3>3, <3>4, <3>5 DEF CommitsTo
  <2>2. Committed(take, ledger)'
    BY <2>1 DEF Committed
  <2>3. CASE Wrote
    <3>1. disk'.take = take' /\ disk'.ledger = ledger'
      BY <2>3 DEF Wrote
    <3>2. Committed(disk.take, disk.ledger)'
      BY <2>1, <3>1 DEF Committed
    <3>3. QED
      BY <1>1, <2>2, <3>2 DEF SecretInv
  <2>4. CASE DiskKept
    <3>1. \A t \in Takes : /\ disk'.take[t].w = disk.take[t].w
                           /\ disk'.take[t].facts = disk.take[t].facts
      BY <2>4 DEF DiskKept
    <3>2. disk'.ledger = disk.ledger
      BY <2>4 DEF DiskKept
    <3>3. disk.take \in [Takes -> Take] /\ Committed(disk.take, disk.ledger)
      BY DEF TypeOK, SecretInv
    <3>4. \A t \in Takes :
            /\ disk.take[t].w # None => disk.ledger[disk.take[t].w] = t
            /\ "hash" \in disk.take[t].facts =>
                 /\ "hash" \in signed'[t]
                 /\ disk.ledger[drawn'[t]] = t
                 /\ disk.take[t].w # drawn'[t]
      BY <1>2, <3>3
    <3>5. Committed(disk.take, disk.ledger)'
      BY <3>1, <3>2, <3>4 DEF Committed
    <3>6. QED
      BY <1>1, <2>2, <3>5 DEF SecretInv
  <2>5. QED
    BY <2>3, <2>4, DiskStep
<1>5. QED
  BY <1>3, <1>4

LEMMA SecretsApart == TypeOK /\ SecretInv => SecretsAreApart
<1> SUFFICES ASSUME TypeOK, SecretInv PROVE SecretsAreApart
  OBVIOUS
<1> DEFINE own(t) == {take[t].w} \cup
                     IF "hash" \in take[t].facts THEN {drawn[t]} ELSE {}
<1>1. ASSUME NEW t \in Takes, NEW h \in own(t), h # None
      PROVE  ledger[h] = t
  BY <1>1 DEF SecretInv, Committed
<1>2. ASSUME NEW t \in Takes, NEW u \in Takes \ {t}
      PROVE  (own(t) \cap own(u)) \subseteq {None}
  <2> HIDE DEF own
  <2>1. QED
    BY <1>1
<1>3. \A t \in Takes : "hash" \in take[t].facts => take[t].w # drawn[t]
  BY DEF SecretInv, Committed
<1>4. QED
  BY <1>2, <1>3 DEF SecretsAreApart

(* No payment hash and no collateral secret is committed to by two takes,  *)
(* or twice by one: the ledger is written in the same write as the take,   *)
(* or before it, and never lets go of a hash, not when its take is         *)
(* forgotten and not in a crash (TakeBook, SecretsAreApart).               *)
THEOREM SecretsStayApart == Spec => []SecretsAreApart
<1>1. Init => SecretInv
  BY DEF Init, NoTake, SecretInv, Committed
<1>2. TypeOK /\ TypeOK' /\ SecretInv /\ [Next]_vars => SecretInv'
  BY SecretStep
<1>3. QED
  BY <1>1, <1>2, TypeCorrect, SecretsApart, PTL DEF Spec

-----------------------------------------------------------------------------
(* The reports. *)

(* No report that exists is refused for ever: whatever step its take has   *)
(* reached, forward_only gives it a step the write accepts (TakeBook,      *)
(* ReportsAreTaken).                                                       *)
THEOREM NoReportIsRefused == Spec => []ReportsAreTaken
<1>1. ReportsAreTaken
  BY DEF ReportsAreTaken, Moved, Forward
<1>2. QED
  BY <1>1, PTL

-----------------------------------------------------------------------------
(* The lots.  A take that is forgotten no longer counts as one that holds  *)
(* a lot, and its lot is credited to the offer: a take that was paid, and  *)
(* not refunded, is counted one way or the other, whenever the book is     *)
(* pruned, saved or read back.                                             *)

PrunedPaid(tk) == {t \in Takes : /\ tk[t].status = "pruned"
                                 /\ "disbursed" \in tk[t].facts
                                 /\ "refunded" \notin signed[t]}

Credited(of, tk) ==
    of.status # "pruned" => Cardinality(PrunedPaid(tk)) <= of.taken

Counted(tk) ==
    \A t \in Takes : /\ "disbursed" \in tk[t].facts => Rank[tk[t].status] >= 5
                     /\ "refunded" \in tk[t].facts => "refunded" \in signed[t]

(* A held report that takes no step found its take at that step or above. *)
HeldInv ==
    \A c \in calls : c.kind = "disbursed" /\ c.status = "none"
                        => Rank[take[c.take].status] >= 5

LotsInv ==
    /\ Cardinality(Owed) <= Lots
    /\ Counted(take) /\ Counted(disk.take)
    /\ Credited(offer, take) /\ Credited(disk.offer, disk.take)
    /\ HeldInv

LEMMA OwedStep ==
  ASSUME TypeOK, Cardinality(Owed) <= Lots, [Next]_vars
  PROVE  Cardinality(Owed)' <= Lots
<1>1. CASE UNCHANGED <<signed, drawn>>
  BY <1>1 DEF Owed
<1>2. ASSUME NEW t \in Takes, NEW k \in Kinds, Sign(t, k)
      PROVE  Cardinality(Owed)' <= Lots
  <2>1. /\ signed' = [signed EXCEPT ![t] = signed[t] \cup {k}]
        /\ k = "disbursed" => Cardinality(Owed) < Lots
    BY <1>2 DEF Sign
  <2>2. CASE k = "disbursed"
    <3>1. Owed' \subseteq Owed \cup {t}
      BY <2>1, <2>2 DEF Owed, TypeOK
    <3>2. IsFiniteSet(Owed) /\ Cardinality(Owed) \in Nat
      BY HoldersFinite DEF Owed
    <3>3. /\ IsFiniteSet(Owed \cup {t})
          /\ Cardinality(Owed \cup {t}) =
               IF t \in Owed THEN Cardinality(Owed) ELSE Cardinality(Owed) + 1
      BY <3>2, FS_AddElement
    <3>4. Cardinality(Owed') <= Cardinality(Owed \cup {t})
      BY <3>1, <3>3, FS_Subset
    <3>5. Cardinality(Owed') \in Nat /\ Cardinality(Owed \cup {t}) \in Nat
      BY <3>1, <3>3, FS_Subset, FS_CardinalityType
    <3>6. QED
      BY <2>1, <2>2, <3>2, <3>3, <3>4, <3>5, TakeBookAssumption
  <2>3. CASE k # "disbursed"
    <3>1. Owed' \subseteq Owed
      BY <2>1, <2>3 DEF Owed, TypeOK
    <3>2. IsFiniteSet(Owed) /\ Cardinality(Owed) \in Nat
      BY HoldersFinite DEF Owed
    <3>3. Cardinality(Owed') <= Cardinality(Owed) /\ Cardinality(Owed') \in Nat
      BY <3>1, <3>2, FS_Subset, FS_CardinalityType
    <3>4. QED
      BY <3>2, <3>3, TakeBookAssumption
  <2>4. QED
    BY <2>2, <2>3
<1>3. QED
  BY <1>1, <1>2, SignedGrows

(* A report that says a take was paid, or refunded. *)
LEMMA UpdateCounts ==
  ASSUME TypeOK, Counted(take), NEW t \in Takes, NEW u \in Takes,
         NEW k \in signed[u], NEW want \in {StatusOf(k), "none"},
         Update(u, k, want),
         k = "disbursed" /\ want = "none" => Rank[take[u].status] >= 5,
         Climbs(take[t], take'[t])
  PROVE  /\ "disbursed" \in take'[t].facts => Rank[take'[t].status] >= 5
         /\ "refunded" \in take'[t].facts => "refunded" \in signed[t]
         /\ take'[t].status = "pruned" => take'[t] = take[t]
<1>0. /\ "disbursed" \in take[t].facts => Rank[take[t].status] >= 5
      /\ "refunded" \in take[t].facts => "refunded" \in signed[t]
      /\ take[t] \in Take /\ k \in Kinds
  BY DEF Counted, TypeOK
<1>1. CASE ~InBook(u) \/ Moved(take[u].status, want)
  <2>1. take' = take
    BY <1>1 DEF Update
  <2>2. QED
    BY <1>0, <2>1
<1>2. CASE ~(~InBook(u) \/ Moved(take[u].status, want))
  <2>1. /\ take'[u].status = IF want = "none" THEN take[u].status ELSE want
        /\ take'[u].facts = take[u].facts \cup FactsOf(k)
        /\ t # u => take'[t] = take[t]
    BY <1>2 DEF Update, TypeOK, Take
  <2>2. CASE t # u
    BY <1>0, <2>1, <2>2
  <2>3. CASE t = u
    <3>1. take'[t].status # "pruned"
      BY <1>0, <1>2, <2>1, <2>3, ReportWrites DEF InBook
    <3>2. "refunded" \in take'[t].facts => "refunded" \in signed[t]
      <4>1. "refunded" \in FactsOf(k) => k = "refunded"
        BY DEF FactsOf
      <4>2. QED
        BY <1>0, <2>1, <2>3, <4>1
    <3>3. "disbursed" \in take'[t].facts => Rank[take'[t].status] >= 5
      <4>1. "disbursed" \in FactsOf(k) => k = "disbursed"
        BY DEF FactsOf
      <4>2. CASE k = "disbursed"
        <5>1. want \in {"disbursed", "none"}
          BY <4>2 DEF StatusOf
        <5>2. QED
          BY <2>1, <2>3, <4>2, <5>1, Ladder
      <4>3. CASE "disbursed" \in take[t].facts
        <5>1. take[t].status \in Kept!Statuses /\ take'[t].status \in Kept!Statuses
          BY <1>0, <2>1, <2>3, ReportWrites DEF Take
        <5>2. Rank[take[t].status] \in Int /\ Rank[take'[t].status] \in Int
          BY <5>1, Ladder
        <5>3. QED
          BY <1>0, <4>3, <5>2 DEF Climbs
      <4>4. QED
        BY <2>1, <2>3, <4>1, <4>2, <4>3
    <3>4. QED
      BY <3>1, <3>2, <3>3
  <2>4. QED
    BY <2>2, <2>3
<1>3. QED
  BY <1>1, <1>2

(* What forward_only decides of a payment that is reported again. *)
LEMMA HeldForward ==
  ASSUME TypeOK, NEW t \in Takes, Forward(t, "disbursed") = "none"
  PROVE  Rank[take[t].status] >= 5
<1>1. take[t].status \in Kept!Statuses
  BY DEF TypeOK, Take
<1>2. StatusOf("disbursed") = "disbursed"
  BY DEF StatusOf
<1>3. QED
  BY <1>1, <1>2, Ladder DEF Forward

(* Outside a crash, what the book counts as paid was reported, and only    *)
(* prune forgets it.                                                       *)
LEMMA CountedStep ==
  ASSUME TypeOK, LadderInv, LotsInv, [Next]_vars, ~Crash, NEW t \in Takes
  PROVE  /\ "disbursed" \in take'[t].facts => Rank[take'[t].status] >= 5
         /\ "refunded" \in take'[t].facts => "refunded" \in signed'[t]
         /\ ~Prune /\ take'[t].status = "pruned"
              => /\ take[t].status = "pruned"
                 /\ take'[t].facts = take[t].facts
<1> DEFINE Goal ==
         /\ "disbursed" \in take'[t].facts => Rank[take'[t].status] >= 5
         /\ "refunded" \in take'[t].facts => "refunded" \in signed'[t]
         /\ ~Prune /\ take'[t].status = "pruned"
              => /\ take[t].status = "pruned"
                 /\ take'[t].facts = take[t].facts
<1>0. /\ take[t] \in Take
      /\ "disbursed" \in take[t].facts => Rank[take[t].status] >= 5
      /\ "refunded" \in take[t].facts => "refunded" \in signed[t]
      /\ signed[t] \subseteq signed'[t]
      /\ Climbs(take[t], take'[t])
      /\ Counted(take)
  BY SignedGrows, MemoryClimbs DEF LotsInv, Counted, TypeOK
<1>1. ASSUME take'[t] = take[t] PROVE Goal
  BY <1>0, <1>1
<1>2. ASSUME NEW u \in Takes, NEW w \in Hashes, Request(u, w) PROVE Goal
  <2>1. CASE t = u
    <3>1. take'[t] = [NoTake EXCEPT !.status = "requested", !.w = w]
      BY <1>2, <2>1 DEF Request, TypeOK
    <3>2. QED
      BY <3>1 DEF NoTake
  <2>2. CASE t # u
    BY <1>1, <1>2, <2>2 DEF Request, TypeOK
  <2>3. QED
    BY <2>1, <2>2
<1>3. ASSUME NEW u \in Takes, NEW k \in Kinds, Shake(u, k) PROVE Goal
  <2>1. /\ k \in signed[u] /\ Update(u, k, StatusOf(k)) /\ k # "disbursed"
    BY <1>3 DEF Shake, Handshake
  <2>2. QED
    BY <1>0, <2>1, UpdateCounts
<1>4. ASSUME NEW u \in Takes, NEW k \in Kinds, Report(u, k) PROVE Goal
  <2>1. /\ k \in signed[u] /\ Update(u, k, Forward(u, k))
    BY <1>4 DEF Report
  <2>2. k = "disbursed" /\ Forward(u, k) = "none" => Rank[take[u].status] >= 5
    BY HeldForward
  <2>3. Forward(u, k) \in {StatusOf(k), "none"}
    BY ForwardStatus
  <2>4. QED
    BY <1>0, <2>1, <2>2, <2>3, UpdateCounts
<1>5. ASSUME NEW c \in calls, WriteReport(c) PROVE Goal
  <2>1. /\ c.take \in Takes /\ c.kind \in signed[c.take]
        /\ c.status \in {StatusOf(c.kind), "none"}
    BY DEF TypeOK, Call, Reports, LadderInv, CallsInv
  <2>2. c.kind = "disbursed" /\ c.status = "none"
          => Rank[take[c.take].status] >= 5
    BY DEF LotsInv, HeldInv
  <2>3. Update(c.take, c.kind, c.status)
    BY <1>5 DEF WriteReport
  <2>4. QED
    BY <1>0, <2>1, <2>2, <2>3, UpdateCounts
<1>6. ASSUME NEW u \in Takes, Lapse(u) PROVE Goal
  <2>1. take' = [take EXCEPT ![u] = [take[u] EXCEPT !.old = TRUE]]
    BY <1>6 DEF Lapse
  <2>2. take'[t].status = take[t].status /\ take'[t].facts = take[t].facts
    BY <2>1 DEF TypeOK, Take
  <2>3. QED
    BY <1>0, <2>2
<1>7. ASSUME Prune PROVE Goal
  <2>1. PICK S \in SUBSET Takes :
          take' = [u \in Takes |-> IF u \in S
                     THEN [take[u] EXCEPT !.status = "pruned"] ELSE take[u]]
    BY <1>7 DEF Prune
  <2>2. CASE t \in S
    <3>1. take'[t].status = "pruned" /\ take'[t].facts = take[t].facts
      BY <1>0, <2>1, <2>2 DEF Take
    <3>2. QED
      BY <1>0, <1>7, <3>1, Ladder
  <2>3. CASE t \notin S
    BY <1>1, <2>1, <2>3
  <2>4. QED
    BY <2>2, <2>3
<1>8. QED
  BY <1>1, <1>2, <1>3, <1>4, <1>5, <1>6, <1>7
  DEF Next, vars, book, Sign, Receive, ClaimHash, Withdraw, Publish, Expire,
      BatchEnd

LEMMA HeldStep ==
  ASSUME TypeOK, TypeOK', LadderInv, LotsInv, [Next]_vars
  PROVE  HeldInv'
<1>1. CASE Crash
  BY <1>1 DEF Crash, HeldInv
<1>2. CASE ~Crash
  <2>1. ASSUME NEW t \in Takes, Rank[take[t].status] >= 5
        PROVE  Rank[take'[t].status] >= 5
    <3>1. Climbs(take[t], take'[t])
      BY <1>2, MemoryClimbs
    <3>2. take[t].status \in Kept!Statuses /\ take'[t].status \in Kept!Statuses
      BY DEF TypeOK, Take
    <3>3. Rank[take[t].status] \in Int /\ Rank[take'[t].status] \in Int
      BY <3>2, Ladder
    <3>4. QED
      BY <2>1, <3>1, <3>3 DEF Climbs
  <2>2. \/ calls' \subseteq calls
        \/ \E t \in Takes, k \in Kinds : Receive(t, k)
    BY DEF Next, vars, Request, Sign, Shake, Report, ClaimHash, Lapse,
           WriteReport, Withdraw, Publish, Expire, BatchEnd, Prune, Crash
  <2>3. CASE calls' \subseteq calls
    BY <2>1, <2>3 DEF LotsInv, HeldInv, TypeOK, Call
  <2>4. ASSUME NEW t \in Takes, NEW k \in Kinds, Receive(t, k) PROVE HeldInv'
    <3>1. /\ calls' = calls \cup
                      {[take |-> t, kind |-> k, status |-> Forward(t, k)]}
          /\ take' = take
      BY <2>4 DEF Receive, book
    <3>2. k = "disbursed" /\ Forward(t, k) = "none" => Rank[take[t].status] >= 5
      BY HeldForward
    <3>3. QED
      BY <3>1, <3>2 DEF LotsInv, HeldInv
  <2>5. QED
    BY <2>2, <2>3, <2>4
<1>3. QED
  BY <1>1, <1>2

LEMMA FewerTakes ==
  ASSUME NEW B \in SUBSET Takes, NEW A \in SUBSET B
  PROVE  /\ Cardinality(A) <= Cardinality(B)
         /\ Cardinality(A) \in Nat /\ Cardinality(B) \in Nat
<1>1. IsFiniteSet(B)
  BY HoldersFinite
<1>2. QED
  BY <1>1, FS_Subset, FS_CardinalityType

(* Counting more takes as refunded, and no more as paid and forgotten. *)
LEMMA CreditedOn ==
  ASSUME NEW of \in Offer, NEW tk \in [Takes -> Take], Credited(of, tk),
         NEW A \in SUBSET PrunedPaid(tk)
  PROVE  of.status # "pruned" => Cardinality(A) <= of.taken
<1>1. PrunedPaid(tk) \in SUBSET Takes
  BY DEF PrunedPaid
<1>2. /\ Cardinality(A) <= Cardinality(PrunedPaid(tk))
      /\ Cardinality(A) \in Nat /\ Cardinality(PrunedPaid(tk)) \in Nat
  BY <1>1, FewerTakes
<1>3. of.taken \in Nat
  BY DEF Offer
<1>4. QED
  BY <1>2, <1>3 DEF Credited

(* What prune forgets of what was paid held a lot. *)
LEMMA PruneCredits ==
  ASSUME TypeOK, TypeOK', LadderInv, LotsInv, Prune
  PROVE  Credited(offer, take)'
<1>1. PICK S \in SUBSET {t \in Takes : take[t].status \in Finished},
           forget \in BOOLEAN :
        /\ take' = [t \in Takes |-> IF t \in S
                      THEN [take[t] EXCEPT !.status = "pruned"] ELSE take[t]]
        /\ offer' = IF forget THEN [status |-> "pruned", taken |-> 0]
                    ELSE IF offer.status = "pruned" THEN offer
                    ELSE [offer EXCEPT !.taken = @ + Credit(S)]
  BY DEF Prune
<1>2. signed' = signed
  BY DEF Prune
<1> DEFINE H == {t \in S : Holds(t)}
           P == PrunedPaid(take)
<1>3. CASE offer'.status = "pruned"
  BY <1>3 DEF Credited
<1>4. CASE offer'.status # "pruned"
  <2>1. /\ offer.status # "pruned"
        /\ offer'.taken = offer.taken + Cardinality(H)
    BY <1>1, <1>4 DEF Credit, TypeOK, Offer
  <2>2. PrunedPaid(take)' \subseteq P \cup H
    <3> SUFFICES ASSUME NEW t \in Takes, take'[t].status = "pruned",
                        "disbursed" \in take'[t].facts, "refunded" \notin signed[t],
                        t \in S
                 PROVE  Holds(t)
      BY <1>1, <1>2 DEF PrunedPaid
    <3>1. take[t] \in Take /\ take'[t].facts = take[t].facts
      BY <1>1 DEF TypeOK, Take
    <3>2. Rank[take[t].status] >= 5 /\ take[t].status \in Finished
      BY <3>1 DEF LotsInv, Counted
    <3>3. take[t].status \in {"claimed", "refunded"}
      BY <3>2, Ladder DEF Finished
    <3>4. take[t].status # "refunded"
      BY <3>1 DEF LadderInv, Sound, LotsInv, Counted
    <3>5. QED
      BY <3>3, <3>4 DEF Holds, LotFree, Unsigned
  <2>3. H \in SUBSET Takes /\ P \in SUBSET Takes /\ P \cup H \in SUBSET Takes
    BY DEF PrunedPaid
  <2>4. /\ Cardinality(PrunedPaid(take)') <= Cardinality(P \cup H)
        /\ Cardinality(PrunedPaid(take)') \in Nat
        /\ Cardinality(P \cup H) \in Nat
    BY <2>2, <2>3, FewerTakes
  <2>5. /\ Cardinality(P \cup H) =
              Cardinality(P) + Cardinality(H) - Cardinality(P \cap H)
        /\ Cardinality(P \cap H) \in Nat
        /\ Cardinality(P) \in Nat /\ Cardinality(H) \in Nat
    <3> HIDE DEF H, P
    <3>1. IsFiniteSet(P) /\ IsFiniteSet(H)
      BY <2>3, HoldersFinite
    <3>2. IsFiniteSet(P \cap H)
      BY <3>1, FS_Subset
    <3>3. QED
      BY <3>1, <3>2, FS_Union, FS_CardinalityType
  <2>6. Cardinality(P) <= offer.taken /\ offer.taken \in Nat
    BY <2>1 DEF LotsInv, Credited, TypeOK, Offer
  <2>7. Cardinality(PrunedPaid(take)') <= offer'.taken
    <3> HIDE DEF H, P
    <3>1. QED
      BY <2>1, <2>4, <2>5, <2>6
  <2>8. QED
    BY <2>7 DEF Credited, PrunedPaid
<1>5. QED
  BY <1>3, <1>4

LEMMA CreditedStep ==
  ASSUME ~Relisted, TypeOK, TypeOK', LadderInv, LotsInv, [Next]_vars, ~Crash
  PROVE  Credited(offer, take)'
<1>1. CASE Prune
  BY <1>1, PruneCredits
<1>2. CASE ~Prune
  <2>1. PrunedPaid(take)' \in SUBSET PrunedPaid(take)
    <3>1. ASSUME NEW t \in Takes, take'[t].status = "pruned"
          PROVE  take[t].status = "pruned" /\ take'[t].facts = take[t].facts
      BY <1>2, <3>1, CountedStep
    <3>2. \A t \in Takes : signed[t] \subseteq signed'[t]
      BY SignedGrows
    <3>3. QED
      BY <3>1, <3>2 DEF PrunedPaid
  <2>2. offer'.status # "pruned" => /\ offer.status # "pruned"
                                    /\ offer'.taken = offer.taken
    <3>1. CASE UNCHANGED offer
      BY <3>1
    <3>2. CASE Withdraw
      BY <3>2 DEF Withdraw, TypeOK, Offer
    <3>3. CASE Publish
      BY <3>3 DEF Publish, Listed
    <3>4. CASE Expire
      BY <3>4 DEF Expire, TypeOK, Offer
    <3>5. ASSUME NEW t \in Takes, NEW k \in Kinds, Shake(t, k) \/ Report(t, k)
          PROVE  UNCHANGED offer
      BY <3>5 DEF Shake, Report, Update
    <3>6. ASSUME NEW c \in calls, WriteReport(c) PROVE UNCHANGED offer
      BY <3>6 DEF WriteReport, Update
    <3>7. QED
      BY <1>2, <3>1, <3>2, <3>3, <3>4, <3>5, <3>6
      DEF Next, vars, book, Request, Sign, Receive, ClaimHash, Lapse, BatchEnd
  <2>3. offer.status # "pruned" => Cardinality(PrunedPaid(take)') <= offer.taken
    BY <2>1, CreditedOn DEF TypeOK, LotsInv
  <2>4. QED
    BY <2>2, <2>3 DEF Credited, PrunedPaid
<1>3. QED
  BY <1>1, <1>2

LEMMA LotsStep ==
  ASSUME ~Relisted, TypeOK, TypeOK', LadderInv, LotsInv, [Next]_vars
  PROVE  LotsInv'
<1>1. Cardinality(Owed)' <= Lots
  BY OwedStep DEF LotsInv
<1>2. HeldInv'
  BY HeldStep
<1>3. \A t \in Takes : signed[t] \subseteq signed'[t]
  BY SignedGrows
<1>4. ASSUME \A t \in Takes :
               /\ disk'.take[t].status = disk.take[t].status
               /\ disk'.take[t].facts = disk.take[t].facts,
             disk'.offer = disk.offer
      PROVE  Counted(disk.take)' /\ Credited(disk.offer, disk.take)'
  <2>1. Counted(disk.take)'
    BY <1>3, <1>4 DEF LotsInv, Counted
  <2>2. PrunedPaid(disk.take)' \in SUBSET PrunedPaid(disk.take)
    BY <1>3, <1>4 DEF PrunedPaid
  <2>3. disk.offer.status # "pruned"
          => Cardinality(PrunedPaid(disk.take)') <= disk.offer.taken
    BY <2>2, CreditedOn DEF TypeOK, LotsInv
  <2>4. QED
    BY <1>4, <2>1, <2>3 DEF Credited, PrunedPaid
<1>5. CASE Crash
  <2>1. /\ take' = disk.take /\ offer' = disk.offer /\ disk' = disk
        /\ signed' = signed
    BY <1>5 DEF Crash
  <2>2. Counted(disk.take)' /\ Credited(disk.offer, disk.take)'
    BY <1>4, <2>1
  <2>3. Counted(take)' /\ Credited(offer, take)'
    BY <2>1, <2>2 DEF Counted, Credited, PrunedPaid
  <2>4. QED
    BY <1>1, <1>2, <2>2, <2>3 DEF LotsInv
<1>6. CASE ~Crash
  <2>1. Counted(take)'
    BY <1>6, CountedStep DEF Counted
  <2>2. Credited(offer, take)'
    BY <1>6, CreditedStep
  <2>3. CASE Wrote
    <3>1. disk'.take = take' /\ disk'.offer = offer'
      BY <2>3 DEF Wrote
    <3>2. Counted(disk.take)' /\ Credited(disk.offer, disk.take)'
      BY <2>1, <2>2, <3>1 DEF Counted, Credited, PrunedPaid
    <3>3. QED
      BY <1>1, <1>2, <2>1, <2>2, <3>2 DEF LotsInv
  <2>4. CASE DiskKept
    <3>1. Counted(disk.take)' /\ Credited(disk.offer, disk.take)'
      BY <1>4, <2>4 DEF DiskKept
    <3>2. QED
      BY <1>1, <1>2, <2>1, <2>2, <3>1 DEF LotsInv
  <2>5. QED
    BY <2>3, <2>4, DiskStep
<1>7. QED
  BY <1>5, <1>6

LEMMA LotsInit == Init => LotsInv
<1> SUFFICES ASSUME Init PROVE LotsInv
  OBVIOUS
<1>1. Owed = {} /\ PrunedPaid(take) = {} /\ PrunedPaid(disk.take) = {}
  BY DEF Init, Owed, PrunedPaid, NoTake
<1>2. Cardinality({}) = 0
  BY FS_EmptySet
<1>3. Cardinality(Owed) <= Lots
  BY <1>1, <1>2, TakeBookAssumption
<1>4. Credited(offer, take) /\ Credited(disk.offer, disk.take)
  BY <1>1, <1>2 DEF Init, Credited
<1>5. QED
  BY <1>3, <1>4 DEF Init, LotsInv, Counted, HeldInv, NoTake

LEMMA LotsAreCounted ==
  ASSUME TypeOK, LadderInv, AnsweredInv, LotsInv
  PROVE  PaidIsNotOffered
<1> DEFINE paid == {t \in Owed : "disbursed" \in answered[t]}
           H == {t \in Takes : Holds(t)}
           P == PrunedPaid(take)
<1>1. /\ paid \in SUBSET Owed /\ Owed \in SUBSET Takes
      /\ H \in SUBSET Takes /\ P \in SUBSET Takes /\ P \cup H \in SUBSET Takes
  BY DEF Owed, PrunedPaid
<1>2. /\ Cardinality(paid) <= Cardinality(Owed)
      /\ Cardinality(paid) \in Nat /\ Cardinality(Owed) \in Nat
  <2> HIDE DEF paid
  <2>1. QED
    BY <1>1, FewerTakes
<1>3. Cardinality(paid) <= Lots
  BY <1>2, TakeBookAssumption DEF LotsInv
<1>4. paid \subseteq P \cup H
  <2> SUFFICES ASSUME NEW t \in Owed, "disbursed" \in answered[t]
               PROVE  t \in P \/ Holds(t)
    BY DEF Owed
  <2>1. t \in Takes /\ take[t] \in Take /\ "refunded" \notin signed[t]
    BY DEF Owed, TypeOK
  <2>2. "disbursed" \in take[t].facts
    BY <2>1 DEF AnsweredInv, LadderInv, Climbs
  <2>3. Rank[take[t].status] >= 5 /\ take[t].status # "refunded"
    BY <2>1, <2>2 DEF LotsInv, Counted, LadderInv, Sound
  <2>4. take[t].status \in {"disbursed", "live", "claimed", "pruned"}
    BY <2>1, <2>3, Ladder DEF Take
  <2>5. CASE take[t].status = "pruned"
    BY <2>1, <2>2, <2>5 DEF PrunedPaid
  <2>6. CASE take[t].status # "pruned"
    BY <2>4, <2>6 DEF Holds, LotFree, Unsigned
  <2>7. QED
    BY <2>5, <2>6
<1>5. Cardinality(paid) <= Cardinality(P \cup H) /\ Cardinality(P \cup H) \in Nat
  <2> HIDE DEF paid, P, H
  <2>1. QED
    BY <1>1, <1>4, FewerTakes
<1>6. /\ Cardinality(P \cup H) <= Cardinality(P) + Cardinality(H)
      /\ Cardinality(P) \in Nat /\ Cardinality(H) \in Nat
  <2> HIDE DEF P, H
  <2>1. IsFiniteSet(P) /\ IsFiniteSet(H)
    BY <1>1, HoldersFinite
  <2>2. IsFiniteSet(P \cap H)
    BY <2>1, FS_Subset
  <2>3. /\ Cardinality(P \cup H) =
              Cardinality(P) + Cardinality(H) - Cardinality(P \cap H)
        /\ Cardinality(P \cap H) \in Nat
        /\ Cardinality(P) \in Nat /\ Cardinality(H) \in Nat
    BY <2>1, <2>2, FS_Union, FS_CardinalityType
  <2>4. QED
    BY <2>3
<1>7. offer.taken \in Nat
  BY DEF TypeOK, Offer
<1>8. CASE offer.status = "pruned" \/ Lots - offer.taken - Cardinality(H) < 0
  <2>1. LotsLeft = 0
    BY <1>8 DEF LotsLeft
  <2>2. QED
    BY <1>2, <1>3, <2>1 DEF PaidIsNotOffered
<1>9. CASE ~(offer.status = "pruned" \/ Lots - offer.taken - Cardinality(H) < 0)
  <2>1. LotsLeft = Lots - offer.taken - Cardinality(H)
    BY <1>9 DEF LotsLeft
  <2>2. Cardinality(P) <= offer.taken
    BY <1>9 DEF LotsInv, Credited
  <2>3. LotsLeft + Cardinality(paid) <= Lots
    <3> HIDE DEF paid, P, H
    <3>1. QED
      BY <1>2, <1>5, <1>6, <1>7, <2>1, <2>2, TakeBookAssumption
  <2>4. QED
    BY <2>3 DEF PaidIsNotOffered
<1>10. QED
  BY <1>8, <1>9

(* The lots on the table and the takes that the relay has confirmed to be  *)
(* paid never exceed the offer, however its records are pruned, saved,     *)
(* read back and reported again; unless an offer that was forgotten is     *)
(* listed again, when its count starts anew (TakeBook, PaidIsNotOffered).  *)
THEOREM PaidIsNeverOffered ==
  ASSUME ~Relisted
  PROVE  Spec => []PaidIsNotOffered
<1>1. TypeOK /\ TypeOK' /\ LadderInv /\ LotsInv /\ [Next]_vars => LotsInv'
  BY LotsStep
<1>2. TypeOK /\ LadderInv /\ AnsweredInv /\ LotsInv => PaidIsNotOffered
  BY LotsAreCounted
<1>3. QED
  BY LotsInit, <1>1, <1>2, LadderInvariant, AnsweredInvariant, PTL DEF Spec
=============================================================================
