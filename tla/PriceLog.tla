------------------------------ MODULE PriceLog ------------------------------
(***************************************************************************)
(* The oracle's attestations on disk (pignus/oracle.py, AttestationLog):   *)
(* written and rotated by the process that signs, or written by a separate *)
(* signer and followed by this one; and what an auditor finds of them.     *)
(*                                                                         *)
(* A line is two pieces, the second of which ends it, so that a write can  *)
(* be cut in the middle, a reader can look in the middle, and a bisection  *)
(* can land there.  A digest is what it is the digest of: the contents of  *)
(* the files before and of this one.                                       *)
(***************************************************************************)
EXTENDS Integers, Sequences

CONSTANTS
    Markets,
    Prices,
    MaxTime,        \* seconds the feed is observed for
    MaxPieces,      \* max_bytes
    TailPieces,     \* TAIL_BYTES
    MaxCrashes,
    MaxCut,         \* writes that are cut in the middle
    CutBy,          \* by "crash", or by a "full" disk
    FeedMay,        \* "goBack" to earlier dates, "restate" a date's price
    None

VARIABLES
    mode,           \* who writes: this process ("self") or a "signer"
    feed,           \* the feed's answer, and when it was observed
    held,           \* the snapshot a round signs from
    file,           \* the current log file
    closed,         \* the rotated ones, oldest first
    chain,          \* the .chain file
    log,            \* AttestationLog, in memory
    latest,         \* what is served, per market
    step,           \* a rotation under way, of the line of this attestation
    signed,         \* what append has put on record
    crashes, cuts,
    unchained       \* a rotation was cut before its digest was chained

disk == <<file, closed, chain>>
vars == <<mode, feed, held, disk, log, latest, step, signed, crashes, cuts,
          unchained>>

ASSUME PriceLogAssumption ==
    /\ None \notin Markets
    /\ {MaxTime, MaxPieces, TailPieces} \subseteq Nat \ {0}
    /\ MaxCrashes \in Nat /\ MaxCut \in Nat
    /\ CutBy \subseteq {"crash", "full"}
    /\ FeedMay \subseteq {"goBack", "restate"}

Attestations == [market : Markets, ts : 1..MaxTime, price : Prices]
Piece == [att : Attestations, half : {1, 2}]
Nothing == [market |-> None, ts |-> 0, price |-> 0]
Observation == [ts : 1..MaxTime, price : Prices]
NotRead == [ts |-> 0, price |-> 0]

(* sealed: the contents the seed of the running hash commits to.           *)
(* hashed: what was hashed of this file since.  from: where start-up read  *)
(* it to.  last: the newest of each market in memory.                      *)
Log == [up : BOOLEAN, sealed : Seq(Seq(Piece)), hashed : Seq(Piece),
        from : Nat, last : [Markets -> Attestations \cup {Nothing}]]
Down == [up |-> FALSE, sealed |-> <<>>, hashed |-> <<>>, from |-> 0,
         last |-> [m \in Markets |-> Nothing]]
Steps == {"none", "rename", "sha", "chain"}

TypeOK ==
    /\ mode \in {"self", "signer"}
    /\ feed \in Observation /\ held \in Observation \cup {NotRead}
    /\ file \in Seq(Piece) /\ (mode = "self" => Len(file) < MaxPieces + 2 * (1 + cuts + crashes))
    /\ closed \in Seq([data : Seq(Piece), stamp : 1..MaxTime,
                       sha : Seq(Seq(Piece))])
    /\ chain \in Seq(Seq(Piece))
    /\ log \in Log
    /\ latest \in [Markets -> Attestations \cup {Nothing}]
    /\ step \in [at : Steps, att : Attestations \cup {Nothing}]
    /\ signed \subseteq Attestations
    /\ crashes \in 0..MaxCrashes /\ cuts \in 0..MaxCut
    /\ unchained \in BOOLEAN

Idle == [at |-> "none", att |-> Nothing]
Line(a) == <<[att |-> a, half |-> 1], [att |-> a, half |-> 2]>>
HalfLine(a) == <<[att |-> a, half |-> 1]>>

-----------------------------------------------------------------------------
(* Reading a file. *)

(* _parse_line: where the lines that are an attestation end. *)
Ends(data) ==
    {i \in 2..Len(data) :
        /\ data[i].half = 2 /\ data[i - 1] = [data[i] EXCEPT !.half = 1]
        /\ i > 2 => data[i - 2].half = 2}

(* Where the line that position p is in ends. *)
LineEnd(data, p) ==
    LET ends == {i \in p + 1 .. Len(data) : data[i].half = 2}
    IN  IF ends = {} THEN Len(data)
        ELSE CHOOSE i \in ends : \A j \in ends : i <= j

Lowest(S) == CHOOSE i \in S : \A j \in S : i <= j
Highest(S) == CHOOSE i \in S : \A j \in S : j <= i

(* Mutant: the line sought may be the one that is skipped. *)
BisectPast(data, ts) ==
    LET ends == Ends(data)
        n == Len(data)
        b[p \in (0..n) \X (0..n)] ==
          LET lo == p[1]
              hi == p[2]
              mid == (lo + hi) \div 2
              start == IF mid = 0 THEN 0 ELSE LineEnd(data, mid)
              end == LineEnd(data, start)
          IN  IF lo >= hi THEN lo
              ELSE IF end \in ends /\ start = end - 2 /\ data[end].att.ts <= ts
              THEN IF end <= mid THEN lo ELSE b[<<end, hi>>]
              ELSE b[<<lo, mid>>]
    IN  b[<<0, n>>]

(* _bisect: the beginning of a line at or before the first one of time ts. *)
Bisect(data, ts) ==
    LET ends == Ends(data)
        n == Len(data)
        b[p \in (0..n) \X (0..n)] ==
          LET lo == p[1]
              hi == p[2]
              mid == (lo + hi) \div 2
              start == IF mid = 0 THEN 0 ELSE LineEnd(data, mid)
              end == LineEnd(data, start)
          IN  IF lo >= hi THEN lo
              ELSE IF end \in ends /\ start = end - 2 /\ data[end].att.ts < ts
              THEN IF end <= mid THEN lo ELSE b[<<end, hi>>]
              ELSE b[<<lo, mid>>]
    IN  b[<<0, n>>]

(* _scan_path, for one time: the first hit, before anything later. *)
ScanPath(data, m, ts) ==
    LET from == Bisect(data, ts)
        read == {i \in Ends(data) : i - 2 >= from}
        later == {i \in read : data[i].att.ts > ts}
        hits == {i \in read : /\ data[i].att.market = m /\ data[i].att.ts = ts
                              /\ \A j \in later : i < j}
    IN  IF hits = {} THEN Nothing ELSE data[Lowest(hits)].att

(* at: the current file, then the others by name. *)
At(m, ts) ==
    LET found == {k \in 1..Len(closed) : ScanPath(closed[k].data, m, ts) # Nothing}
    IN  IF ScanPath(file, m, ts) # Nothing THEN ScanPath(file, m, ts)
        ELSE IF found = {} THEN Nothing
        ELSE ScanPath(closed[Lowest(found)].data, m, ts)

Contents == [k \in DOMAIN closed |-> closed[k].data]
Whole(data) == {data[i].att : i \in Ends(data)}
OnDisk(m) == {a \in Whole(file) \cup UNION {Whole(closed[k].data) : k \in DOMAIN closed} :
                a.market = m}

(* _latest_on_disk: the largest timestamp of all files. *)
LatestOnDisk(m) ==
    IF OnDisk(m) = {} THEN Nothing
    ELSE CHOOSE a \in OnDisk(m) : \A b \in OnDisk(m) : b.ts <= a.ts

(* latest *)
Latest(m) == IF log.last[m] # Nothing THEN log.last[m] ELSE LatestOnDisk(m)

(* _push, for the lines of data that begin after position from. *)
Pushed(last, data, from) ==
    [m \in Markets |->
        LET mine == {i \in Ends(data) : i - 2 >= from /\ data[i].att.market = m}
        IN  IF mine = {} THEN last[m] ELSE data[Highest(mine)].att]

-----------------------------------------------------------------------------
(* The price feed; its time is the clock that names closed files, too.    *)

FeedMoves ==
    /\ \E p \in Prices, t \in 1..MaxTime :
         /\ \/ t = feed.ts + 1
            \/ t < feed.ts /\ "goBack" \in FeedMay
            \/ t = feed.ts /\ "restate" \in FeedMay
         /\ feed' = [ts |-> t, price |-> p]
    /\ UNCHANGED <<mode, held, disk, log, latest, step, signed, crashes, cuts,
                   unchained>>

(* BulkHttpPriceSource.refresh: one snapshot for the round. *)
Refresh ==
    /\ mode = "self" /\ log.up /\ step = Idle /\ held # feed
    /\ held' = feed
    /\ UNCHANGED <<mode, feed, disk, log, latest, step, signed, crashes, cuts,
                   unchained>>

-----------------------------------------------------------------------------
(* The process that signs writes the log. *)

(* A market is signed unless nothing new was observed of it. *)
Signs(m) ==
    /\ mode = "self" /\ log.up /\ step = Idle /\ held # NotRead
    /\ latest[m] = Nothing
         \/ latest[m].ts # held.ts \/ latest[m].price # held.price

Signature(m) == [market |-> m, ts |-> held.ts, price |-> held.price]

Full(n) == n >= MaxPieces

(* append, and what it does when the file is full. *)
Sign(m) ==
    /\ Signs(m)
    /\ LET a == Signature(m)
       IN  /\ file' = file \o Line(a)
           /\ log' = [log EXCEPT !.hashed = @ \o Line(a), !.last[m] = a]
           /\ signed' = signed \cup {a}
           /\ IF Full(Len(file'))
              THEN step' = [at |-> "rename", att |-> a] /\ UNCHANGED latest
              ELSE latest' = [latest EXCEPT ![m] = a] /\ UNCHANGED step
    /\ UNCHANGED <<mode, feed, held, closed, chain, crashes, cuts, unchained>>

(* The write is cut: nothing was appended, as far as the process knows. *)
SignCut(m) ==
    /\ Signs(m) /\ cuts < MaxCut /\ cuts' = cuts + 1
    /\ file' = file \o HalfLine(Signature(m))
    /\ \E by \in CutBy :
         IF by = "full" THEN UNCHANGED <<log, latest, held>>
         ELSE log' = Down /\ held' = NotRead /\ latest' = [k \in Markets |-> Nothing]
    /\ UNCHANGED <<mode, feed, closed, chain, step, signed, crashes, unchained>>

Digest == Append(log.sealed, log.hashed)

(* Mutant: a file closed in the same second is replaced. *)
ClosedOver(new) ==
    Append(SelectSeq(closed, LAMBDA f : f.stamp # new.stamp), new)
(* The closed file's name is one that is not taken. *)
Closed(new) == Append(closed, new)

(* _rotate: the file is renamed, ... *)
RotateRename ==
    /\ step.at = "rename" /\ step' = [step EXCEPT !.at = "sha"]
    /\ closed' = Closed([data |-> file, stamp |-> feed.ts, sha |-> <<>>])
    /\ file' = <<>>
    /\ UNCHANGED <<mode, feed, held, chain, log, latest, signed, crashes, cuts,
                   unchained>>

(* ... its digest written beside it, ... *)
RotateSha ==
    /\ step.at = "sha" /\ step' = [step EXCEPT !.at = "chain"]
    /\ closed' = [closed EXCEPT ![Len(closed)].sha = Digest]
    /\ UNCHANGED <<mode, feed, held, file, chain, log, latest, signed, crashes,
                   cuts, unchained>>

(* ... and the next one's hash seeded with it; append returns. *)
RotateChain ==
    /\ step.at = "chain" /\ step' = Idle
    /\ chain' = Digest
    /\ log' = [log EXCEPT !.sealed = Digest, !.hashed = <<>>, !.from = 0]
    /\ latest' = [latest EXCEPT ![step.att.market] = step.att]
    /\ UNCHANGED <<mode, feed, held, file, closed, signed, crashes, cuts,
                   unchained>>

-----------------------------------------------------------------------------
(* A separate signer writes the log, and may die in a line. *)

HalfWritten == IF file = <<>> THEN FALSE ELSE file[Len(file)].half = 1

Signer ==
    /\ mode = "signer"
    /\ UNCHANGED <<mode, feed, held, closed, chain, log, latest, step, crashes,
                   unchained>>

SignerBegins(m) ==
    /\ Signer
    /\ LET a == [market |-> m, ts |-> feed.ts, price |-> feed.price]
       IN  /\ a \notin Whole(file)
           /\ \/ /\ ~HalfWritten
                 /\ file' = file \o HalfLine(a)
                 /\ UNCHANGED cuts
              \/ /\ HalfWritten /\ cuts < MaxCut /\ cuts' = cuts + 1
                 /\ file' = file \o Line(a)
    /\ UNCHANGED signed

SignerEnds ==
    /\ Signer /\ HalfWritten
    /\ LET a == file[Len(file)].att
       IN  /\ file' = Append(file, [att |-> a, half |-> 2])
           /\ signed' = signed \cup {a}
    /\ UNCHANGED cuts

(* Mutant: what is there is taken. *)
TakenAll == Len(file)

(* Only whole lines are taken. *)
TakenTo ==
    LET ends == {i \in Len(log.hashed) + 1 .. Len(file) : file[i].half = 2}
    IN  IF ends = {} THEN Len(log.hashed) ELSE Highest(ends)

(* follow *)
Follow ==
    /\ mode = "signer" /\ log.up
    /\ TakenTo > Len(log.hashed)
    /\ LET taken == SubSeq(file, 1, TakenTo)
       IN  /\ log' = [log EXCEPT !.hashed = taken,
                        !.last = Pushed(@, taken, Len(log.hashed))]
           /\ latest' = [m \in Markets |->
                IF log'.last[m] # Nothing THEN log'.last[m] ELSE LatestOnDisk(m)]
    /\ UNCHANGED <<mode, feed, held, disk, step, signed, crashes, cuts, unchained>>

-----------------------------------------------------------------------------
(* The process dies and starts again. *)

Crash ==
    /\ log.up /\ crashes < MaxCrashes /\ crashes' = crashes + 1
    /\ log' = Down /\ held' = NotRead /\ step' = Idle
    /\ latest' = [m \in Markets |-> Nothing]
    /\ unchained' = (unchained \/ step.at \in {"sha", "chain"})
    /\ UNCHANGED <<mode, feed, disk, signed, cuts>>

(* Mutant: a new hash for the file. *)
SeedNone == <<>>
Seed == chain

(* _load: the hash of the file, and the lines at its end. *)
Load ==
    /\ ~log.up
    /\ LET n == Len(file)
           tail == IF n > TailPieces THEN LineEnd(file, n - TailPieces) ELSE 0
       IN  log' = [up |-> TRUE, sealed |-> Seed, hashed |-> file, from |-> n,
                   last |-> Pushed(Down.last, file, tail)]
    /\ UNCHANGED <<mode, feed, held, disk, latest, step, signed, crashes, cuts,
                   unchained>>

-----------------------------------------------------------------------------
Init ==
    /\ mode \in {"self", "signer"}
    /\ feed \in [ts : {1}, price : Prices] /\ held = NotRead
    /\ file = <<>> /\ closed = <<>> /\ chain = <<>>
    /\ log = [Down EXCEPT !.up = TRUE]
    /\ latest = [m \in Markets |-> Nothing]
    /\ step = Idle /\ signed = {} /\ crashes = 0 /\ cuts = 0
    /\ unchained = FALSE

Next ==
    \/ FeedMoves \/ Refresh
    \/ \E m \in Markets : Sign(m) \/ SignCut(m) \/ SignerBegins(m)
    \/ RotateRename \/ RotateSha \/ RotateChain
    \/ SignerEnds \/ Follow \/ Crash \/ Load

Spec == Init /\ [][Next]_vars

-----------------------------------------------------------------------------
(* Properties. *)

(* What can be read, and where: in which file, and where in it.            *)
Entries(k, data) == {[at |-> <<k, i>>, att |-> data[i].att] : i \in Ends(data)}
Record == Entries(Len(closed) + 1, file)
            \cup UNION {Entries(k, closed[k].data) : k \in DOMAIN closed}

Trail == INSTANCE AuditTrail WITH record <- Record

(* "An append-only record": whatever is cut, dies, rotates or starts       *)
(* again, what can be read of the log only gets longer, at its end.        *)
AppendOnly == Trail!Spec

(* The lines that were written behind a piece of one. *)
Spoilt(data) ==
    {data[i].att : i \in {j \in 3..Len(data) :
        /\ data[j].half = 2 /\ data[j - 1] = [data[j] EXCEPT !.half = 1]
        /\ data[j - 2].half = 1}}

(* "The auditor's question ... returns the signed bytes behind it": what   *)
(* was signed is found by its time at any moment, in the middle of a       *)
(* rotation too, but for one line behind each write that was cut.          *)
Auditable ==
    LET spoilt == Spoilt(file) \cup UNION {Spoilt(closed[k].data) : k \in DOMAIN closed}
    IN  \A a \in signed \ spoilt : At(a.market, a.ts) = a

(* "The chain of .sha256 files still pins every attestation ever signed":  *)
(* the digest is of every file, and each closed file's is of those up to   *)
(* it, unless a rotation was cut short, or a full disk cut a write and the *)
(* process went on.  The follower's is of a beginning.                     *)
Pinned ==
    log.up /\ step = Idle =>
      IF mode = "signer" THEN log.hashed = SubSeq(file, 1, Len(log.hashed))
      ELSE ~unchained /\ (cuts = 0 \/ "full" \notin CutBy) =>
             /\ Digest = Append(Contents, file)
             /\ \A k \in DOMAIN closed : closed[k].sha = SubSeq(Contents, 1, k)

(* Nothing that was read whole is missing from what is newest, "from       *)
(* anywhere": memory, the end of the file or the files before it.  A line  *)
(* that was half there at start-up was not read whole.                     *)
NewestKnown ==
    log.up /\ step = Idle =>
      \A m \in Markets :
        LET ends == {i \in Ends(file) : /\ mode = "self" \/ i <= Len(log.hashed)
                                        /\ i - 2 >= log.from \/ i <= log.from}
            read == {file[i].att : i \in ends}
                      \cup UNION {Whole(closed[k].data) : k \in DOMAIN closed}
        IN  \A a \in read : a.market = m => a.ts <= Latest(m).ts
=============================================================================
