--------------------------- MODULE PriceLogProofs ---------------------------
(***************************************************************************)
(* The oracle's log, for every set of markets and prices, every length of  *)
(* the feed and of the files, and every number of crashes and cut writes.  *)
(***************************************************************************)
EXTENDS PriceLog, NumberTheorems, FiniteSetTheorems, SequenceTheorems, TLAPS

-----------------------------------------------------------------------------
(* Highest and Lowest, of sets that have such an element.                  *)

LEMMA Greatest ==
  ASSUME NEW S \in SUBSET Nat, S # {}, NEW n \in Nat, \A h \in S : h <= n
  PROVE  /\ Highest(S) \in S
         /\ \A k \in S : k <= Highest(S)
BY GreatestExists DEF Highest

LEMMA Least ==
  ASSUME NEW S \in SUBSET Nat, S # {}
  PROVE  /\ Lowest(S) \in S
         /\ \A k \in S : Lowest(S) <= k
BY LeastExists DEF Lowest

-----------------------------------------------------------------------------
(* The pieces of a file. *)

LEMMA Joined ==
  ASSUME NEW S, NEW s \in Seq(S), NEW t \in Seq(S)
  PROVE  /\ s \o t \in Seq(S) /\ Len(s \o t) = Len(s) + Len(t)
         /\ Len(s) \in Nat /\ Len(t) \in Nat
         /\ \A i \in 1..Len(s) : (s \o t)[i] = s[i]
         /\ \A i \in 1..Len(t) : (s \o t)[Len(s) + i] = t[i]
         /\ \A i \in 1..Len(s \o t) : i \in 1..Len(s) \/ i - Len(s) \in 1..Len(t)
OBVIOUS

LEMMA Lines ==
  ASSUME NEW a \in Attestations
  PROVE  /\ Line(a) \in Seq(Piece) /\ HalfLine(a) \in Seq(Piece)
         /\ Len(Line(a)) = 2 /\ Len(HalfLine(a)) = 1
         /\ Line(a)[1] = [att |-> a, half |-> 1] /\ HalfLine(a)[1] = Line(a)[1]
         /\ Line(a)[2] = [att |-> a, half |-> 2]
         /\ Line(a)[1].half = 1 /\ Line(a)[2].att = a /\ Line(a)[2].half = 2
         /\ HalfLine(a)[1].half = 1
BY DEF Line, HalfLine, Piece

LEMMA Apart ==
  /\ Nothing \notin Attestations /\ NotRead \notin Observation
  /\ Nothing.market = None /\ Nothing.ts = 0 /\ NotRead.ts = 0
  /\ \A m \in Markets : m # None
BY PriceLogAssumption DEF Nothing, Attestations, NotRead, Observation

(* What was there stays, and stays a line or not one. *)
LEMMA EndsKept ==
  ASSUME NEW s \in Seq(Piece), NEW t \in Seq(Piece)
  PROVE  /\ \A i \in 1..Len(s) : i \in Ends(s \o t) <=> i \in Ends(s)
         /\ Ends(s) \subseteq 2..Len(s)
<1>1. /\ Len(s \o t) = Len(s) + Len(t) /\ Len(s) \in Nat /\ Len(t) \in Nat
      /\ \A i \in 1..Len(s) : (s \o t)[i] = s[i]
  BY Joined
<1> DEFINE u == s \o t
<1>2. \A i \in 1..Len(s) : i \in 2..Len(s) <=> i \in 2..Len(u)
  BY <1>1
<1>3. \A i \in 2..Len(s) : /\ u[i] = s[i] /\ u[i - 1] = s[i - 1]
                           /\ i > 2 => u[i - 2] = s[i - 2]
  BY <1>1
<1> QED
  BY <1>2, <1>3 DEF Ends

LEMMA LineEnds ==
  ASSUME NEW s \in Seq(Piece), NEW a \in Attestations
  PROVE  /\ Ends(s \o HalfLine(a)) = Ends(s)
         /\ Ends(s \o Line(a)) \subseteq Ends(s) \cup {Len(s) + 2}
         /\ (s \o Line(a))[Len(s) + 2].att = a
         /\ Len(s \o HalfLine(a)) = Len(s) + 1 /\ Len(s \o Line(a)) = Len(s) + 2
         /\ Len(s) \in Nat
<1> DEFINE h == HalfLine(a)
           l == Line(a)
<1>0. h \in Seq(Piece) /\ l \in Seq(Piece)
  BY Lines
<1>1. /\ Len(s \o h) = Len(s) + 1 /\ Len(s) \in Nat
      /\ (s \o h)[Len(s) + 1].half = 1
  <2>1. Len(h) = 1 /\ h[1].half = 1
    BY Lines
  <2> HIDE DEF h
  <2>2. /\ Len(s \o h) = Len(s) + Len(h) /\ Len(s) \in Nat
        /\ \A i \in 1..Len(h) : (s \o h)[Len(s) + i] = h[i]
    BY <1>0, Joined
  <2>3. (s \o h)[Len(s) + 1] = h[1]
    <3>1. 1 \in 1..Len(h)
      BY <2>1
    <3> QED
      BY <2>2, <3>1
  <2> QED
    BY <2>1, <2>2, <2>3
<1>2. /\ Len(s \o l) = Len(s) + 2
      /\ (s \o l)[Len(s) + 1].half = 1
      /\ (s \o l)[Len(s) + 2].att = a
  <2>1. Len(l) = 2 /\ l[1].half = 1 /\ l[2].att = a
    BY Lines
  <2> HIDE DEF l
  <2>2. /\ Len(s \o l) = Len(s) + Len(l) /\ Len(s) \in Nat
        /\ \A i \in 1..Len(l) : (s \o l)[Len(s) + i] = l[i]
    BY <1>0, Joined
  <2>3. (s \o l)[Len(s) + 1] = l[1] /\ (s \o l)[Len(s) + 2] = l[2]
    <3>1. 1 \in 1..Len(l) /\ 2 \in 1..Len(l)
      BY <2>1
    <3> QED
      BY <2>2, <3>1
  <2> QED
    BY <2>1, <2>2, <2>3
<1>3. Ends(s \o h) \subseteq Ends(s)
  <2> SUFFICES ASSUME NEW i \in Ends(s \o h) PROVE i \in Ends(s)
    OBVIOUS
  <2>1. i \in 2..Len(s) + 1 /\ (s \o h)[i].half = 2
    BY <1>1 DEF Ends
  <2>2. i \in 1..Len(s)
    BY <1>1, <2>1
  <2> QED
    BY <1>0, <2>2, EndsKept
<1>4. Ends(s) \subseteq Ends(s \o h)
  <2> SUFFICES ASSUME NEW i \in Ends(s) PROVE i \in Ends(s \o h)
    OBVIOUS
  <2>1. i \in 2..Len(s)
    BY DEF Ends
  <2>2. i \in 1..Len(s)
    BY <1>1, <2>1
  <2> QED
    BY <1>0, <2>2, EndsKept
<1>5. Ends(s \o l) \subseteq Ends(s) \cup {Len(s) + 2}
  <2> SUFFICES ASSUME NEW i \in Ends(s \o l)
               PROVE  i \in Ends(s) \cup {Len(s) + 2}
    OBVIOUS
  <2>1. i \in 2..Len(s) + 2 /\ (s \o l)[i].half = 2
    BY <1>2 DEF Ends
  <2>2. i \in 1..Len(s) \/ i = Len(s) + 2
    BY <1>1, <1>2, <2>1
  <2> QED
    BY <1>0, <2>2, EndsKept
<1> QED
  BY <1>1, <1>2, <1>3, <1>4, <1>5

(* What a line is. *)
LEMMA EndsAre ==
  ASSUME NEW s \in Seq(Piece), NEW i \in Ends(s)
  PROVE  /\ i \in 2..Len(s) /\ i \in Nat /\ Len(s) \in Nat
         /\ s[i] \in Piece /\ s[i - 1] \in Piece
         /\ s[i].half = 2 /\ s[i - 1].half = 1 /\ s[i - 1].att = s[i].att
         /\ i > 2 => s[i - 2].half = 2
         /\ s[i].att \in Attestations /\ s[i].att.ts \in Nat /\ s[i].att.ts >= 1
<1>1. i \in 2..Len(s) /\ Len(s) \in Nat
  BY DEF Ends
<1>2. s[i] \in Piece /\ s[i - 1] \in Piece
  BY <1>1
<1>3. s[i].half = 2 /\ s[i - 1] = [s[i] EXCEPT !.half = 1]
      /\ (i > 2 => s[i - 2].half = 2)
  BY DEF Ends
<1>4. s[i].att \in Attestations
  BY <1>2 DEF Piece
<1>5. s[i].att.ts \in 1..MaxTime
  BY <1>4 DEF Attestations
<1> QED
  BY <1>1, <1>2, <1>3, <1>4, <1>5, PriceLogAssumption DEF Piece

-----------------------------------------------------------------------------
(* Types. *)

LEMMA Numbers ==
  /\ MaxTime \in Nat /\ MaxTime >= 1 /\ MaxPieces \in Nat /\ MaxPieces >= 1
  /\ TailPieces \in Nat /\ TailPieces >= 1 /\ MaxCrashes \in Nat /\ MaxCut \in Nat
BY PriceLogAssumption

LEMMA NumberTypes ==
  ASSUME TypeOK
  PROVE  /\ crashes \in Nat /\ cuts \in Nat /\ Len(file) \in Nat /\ Len(closed) \in Nat
         /\ feed.ts \in 1..MaxTime /\ feed.ts \in Nat /\ feed.ts >= 1
         /\ held # NotRead => held.ts \in 1..MaxTime /\ held \in Observation
         /\ held.ts \in Nat
<1>1. feed.ts \in 1..MaxTime
  BY DEF TypeOK, Observation
<1>2. held # NotRead => held.ts \in 1..MaxTime /\ held \in Observation
  BY DEF TypeOK, Observation
<1>3. held.ts \in Nat
  BY <1>2, Numbers DEF NotRead
<1> QED
  BY <1>1, <1>2, <1>3, Numbers DEF TypeOK

(* A file the process writes itself is rotated when it is full, unless it  *)
(* dies first; then with its next line.                                    *)
Bounded ==
    mode = "self" =>
      Len(file) < MaxPieces + 2 * (cuts + crashes) + IF step.at = "rename" THEN 2 ELSE 0

LEMMA InitType == Init => TypeOK /\ Bounded
<1> SUFFICES ASSUME Init PROVE TypeOK /\ Bounded
  OBVIOUS
<1>1. Down.last \in [Markets -> Attestations \cup {Nothing}]
      /\ log = [up |-> TRUE, sealed |-> <<>>, hashed |-> <<>>, from |-> 0,
                last |-> [m \in Markets |-> Nothing]]
  BY DEF Init, Down
<1>2. log \in Log
  BY <1>1 DEF Log
<1>3. feed \in Observation
  BY Numbers DEF Init, Observation
<1>4. step \in [at : Steps, att : Attestations \cup {Nothing}]
  BY DEF Init, Idle, Steps
<1>5. Len(file) = 0
  BY DEF Init
<1>6. Bounded /\ (mode = "self" => Len(file) < MaxPieces + 2 * (1 + cuts + crashes))
  <2>1. cuts = 0 /\ crashes = 0 /\ step.at = "none"
    BY DEF Init, Idle
  <2>2. Len(file) < MaxPieces + 2 * (cuts + crashes)
        /\ Len(file) < MaxPieces + 2 * (1 + cuts + crashes)
    BY <1>5, <2>1, Numbers
  <2> QED
    BY <2>1, <2>2, Numbers DEF Bounded
<1>7. /\ closed \in Seq([data : Seq(Piece), stamp : 1..MaxTime, sha : Seq(Seq(Piece))])
      /\ chain \in Seq(Seq(Piece)) /\ file \in Seq(Piece)
  BY DEF Init
<1>8. /\ mode \in {"self", "signer"} /\ held \in Observation \cup {NotRead}
      /\ latest \in [Markets -> Attestations \cup {Nothing}]
      /\ signed \subseteq Attestations /\ unchained \in BOOLEAN
  BY DEF Init
<1>9. crashes \in 0..MaxCrashes /\ cuts \in 0..MaxCut
  BY Numbers DEF Init
<1> QED
  BY <1>2, <1>3, <1>4, <1>6, <1>7, <1>8, <1>9 DEF TypeOK

LEMMA ClosedType ==
  ASSUME TypeOK
  PROVE  /\ DOMAIN closed = 1..Len(closed)
         /\ \A k \in 1..Len(closed) :
              /\ closed[k] \in [data : Seq(Piece), stamp : 1..MaxTime,
                                sha : Seq(Seq(Piece))]
              /\ closed[k].data \in Seq(Piece) /\ closed[k].sha \in Seq(Seq(Piece))
<1> DEFINE R == [data : Seq(Piece), stamp : 1..MaxTime, sha : Seq(Seq(Piece))]
<1>1. closed \in Seq(R)
  BY DEF TypeOK
<1>2. DOMAIN closed = 1..Len(closed) /\ \A k \in 1..Len(closed) : closed[k] \in R
  <2> HIDE DEF R
  <2> QED
    BY <1>1
<1> QED
  BY <1>2

LEMMA SignatureType ==
  ASSUME TypeOK, NEW m \in Markets, held # NotRead
  PROVE  Signature(m) \in Attestations
BY NumberTypes DEF Signature, Attestations, Observation

LEMMA PushedType ==
  ASSUME NEW last \in [Markets -> Attestations \cup {Nothing}],
         NEW data \in Seq(Piece), NEW from \in Nat
  PROVE  Pushed(last, data, from) \in [Markets -> Attestations \cup {Nothing}]
<1> SUFFICES ASSUME NEW m \in Markets
             PROVE  Pushed(last, data, from)[m] \in Attestations \cup {Nothing}
  BY DEF Pushed
<1> DEFINE mine == {i \in Ends(data) : i - 2 >= from /\ data[i].att.market = m}
<1>1. CASE mine = {}
  BY <1>1 DEF Pushed
<1>2. CASE mine # {}
  <2>1. mine \subseteq Nat /\ Len(data) \in Nat /\ \A i \in mine : i <= Len(data)
    BY EndsAre
  <2>2. mine \subseteq Ends(data)
    OBVIOUS
  <2>3. Pushed(last, data, from)[m] = data[Highest(mine)].att
    BY <1>2 DEF Pushed
  <2> HIDE DEF mine
  <2>4. Highest(mine) \in Ends(data)
    BY <1>2, <2>1, <2>2, Greatest
  <2> QED
    BY <2>3, <2>4, EndsAre
<1> QED
  BY <1>1, <1>2

LEMMA LatestOnDiskType ==
  ASSUME TypeOK, NEW m \in Markets
  PROVE  /\ OnDisk(m) \subseteq Attestations
         /\ LatestOnDisk(m) \in OnDisk(m) \cup {Nothing}
         /\ \A a \in OnDisk(m) : LatestOnDisk(m) # Nothing /\ a.ts <= LatestOnDisk(m).ts
<1>1. OnDisk(m) \subseteq Attestations
  <2>1. Whole(file) \subseteq Attestations
    BY EndsAre DEF Whole, TypeOK
  <2>2. ASSUME NEW k \in DOMAIN closed PROVE Whole(closed[k].data) \subseteq Attestations
    <3>1. closed[k].data \in Seq(Piece)
      BY ClosedType
    <3> QED
      BY <3>1, EndsAre DEF Whole
  <2> QED
    BY <2>1, <2>2 DEF OnDisk
<1>2. CASE OnDisk(m) = {}
  BY <1>2 DEF LatestOnDisk
<1>3. CASE OnDisk(m) # {}
  <2> DEFINE T == {a.ts : a \in OnDisk(m)}
  <2>1. \A a \in OnDisk(m) : a.ts \in 1..MaxTime
    BY <1>1 DEF Attestations
  <2>2. T \subseteq Nat /\ T # {} /\ \A t \in T : t <= MaxTime
    BY <1>3, <2>1, Numbers
  <2>3. PICK t \in T : \A u \in T : u <= t
    <3> HIDE DEF T
    <3> QED
      BY <2>2, Greatest, Numbers
  <2>4. \E a \in OnDisk(m) : \A b \in OnDisk(m) : b.ts <= a.ts
    BY <2>3
  <2>5. /\ LatestOnDisk(m) \in OnDisk(m)
        /\ \A b \in OnDisk(m) : b.ts <= LatestOnDisk(m).ts
    BY <1>3, <2>4 DEF LatestOnDisk
  <2> QED
    BY <1>1, <2>5, Apart
<1> QED
  BY <1>1, <1>2, <1>3

LEMMA TakenToIs ==
  ASSUME TypeOK, log.hashed \in Seq(Piece)
  PROVE  LET n == Len(log.hashed) IN
         /\ TakenTo = n \/ (TakenTo \in n + 1 .. Len(file) /\ file[TakenTo].half = 2)
         /\ TakenTo \in Nat
<1> DEFINE ends == {i \in Len(log.hashed) + 1 .. Len(file) : file[i].half = 2}
<1>1. Len(log.hashed) \in Nat /\ Len(file) \in Nat
  BY NumberTypes
<1>2. CASE ends = {}
  BY <1>1, <1>2 DEF TakenTo
<1>3. CASE ends # {}
  <2>1. ends \subseteq Nat /\ \A i \in ends : i <= Len(file)
    BY <1>1
  <2>2. TakenTo = Highest(ends)
    BY <1>3 DEF TakenTo
  <2> HIDE DEF ends
  <2>3. TakenTo \in ends
    BY <1>1, <1>3, <2>1, <2>2, Greatest
  <2> USE DEF ends
  <2> QED
    BY <1>1, <2>3
<1> QED
  BY <1>2, <1>3

(* Where a line ends: behind its beginning, and at the end of a line or of *)
(* the file.                                                               *)
LEMMA LineEndIs ==
  ASSUME NEW data, Len(data) \in Nat, NEW p \in Nat
  PROVE  /\ LineEnd(data, p) \in Nat
         /\ \/ LineEnd(data, p) = Len(data)
            \/ LineEnd(data, p) \in p + 1 .. Len(data)
<1> DEFINE ends == {i \in p + 1 .. Len(data) : data[i].half = 2}
<1>1. CASE ends = {}
  BY <1>1 DEF LineEnd
<1>2. CASE ends # {}
  <2>1. ends \subseteq Nat
    OBVIOUS
  <2>2. LineEnd(data, p) = Lowest(ends)
    BY <1>2 DEF LineEnd, Lowest
  <2>3. ends \subseteq p + 1 .. Len(data)
    OBVIOUS
  <2> HIDE DEF ends
  <2> QED
    BY <1>2, <2>1, <2>2, <2>3, Least
<1> QED
  BY <1>1, <1>2

LEMMA ModeIsKept == [Next]_vars => mode' = mode
<1>1. ASSUME NEW m \in Markets, Sign(m) \/ SignCut(m) \/ SignerBegins(m) PROVE mode' = mode
  <2>1. CASE Sign(m)
    BY <2>1 DEF Sign
  <2>2. CASE SignCut(m)
    BY <2>2 DEF SignCut
  <2>3. CASE SignerBegins(m)
    BY <2>3 DEF SignerBegins, Signer
  <2> QED
    BY <1>1, <2>1, <2>2, <2>3
<1>2. CASE FeedMoves \/ Refresh
  BY <1>2 DEF FeedMoves, Refresh
<1>3. CASE RotateRename
  BY <1>3 DEF RotateRename
<1>4. CASE RotateSha
  BY <1>4 DEF RotateSha
<1>5. CASE RotateChain
  BY <1>5 DEF RotateChain
<1>6. CASE SignerEnds
  BY <1>6 DEF SignerEnds, Signer
<1>7. CASE Follow
  BY <1>7 DEF Follow
<1>8. CASE Crash
  BY <1>8 DEF Crash
<1>9. CASE Load
  BY <1>9 DEF Load
<1>10. CASE UNCHANGED vars
  BY <1>10 DEF vars
<1> QED
  BY <1>1, <1>2, <1>3, <1>4, <1>5, <1>6, <1>7, <1>8, <1>9, <1>10, Zenon DEF Next

LEMMA TypeStep == ASSUME TypeOK, Bounded, [Next]_vars PROVE TypeOK' /\ Bounded'
<1> DEFINE R == [data : Seq(Piece), stamp : 1..MaxTime, sha : Seq(Seq(Piece))]
           A0 == Attestations \cup {Nothing}
<1>0. /\ log \in Log /\ file \in Seq(Piece) /\ closed \in Seq(R) /\ Nothing \in A0
      /\ chain \in Seq(Seq(Piece)) /\ latest \in [Markets -> A0]
      /\ log.sealed \in Seq(Seq(Piece)) /\ log.hashed \in Seq(Piece)
      /\ log.last \in [Markets -> A0] /\ log.from \in Nat
      /\ step \in [at : Steps, att : A0]
  BY DEF TypeOK, Log
<1>1. ASSUME NEW u \in BOOLEAN, NEW s \in Seq(Seq(Piece)), NEW h \in Seq(Piece),
             NEW f \in Nat, NEW l \in [Markets -> A0]
      PROVE  [up |-> u, sealed |-> s, hashed |-> h, from |-> f, last |-> l] \in Log
  BY DEF Log
<1>2. Down \in Log /\ Down.last \in [Markets -> A0]
  BY <1>0 DEF Log, Down
<1>3. [m \in Markets |-> Nothing] \in [Markets -> A0]
  BY <1>0
<1>4. CASE FeedMoves
  <2>1. feed' \in Observation
    BY <1>4 DEF FeedMoves, Observation
  <2> QED
    BY <1>4, <2>1 DEF FeedMoves, disk, TypeOK, Bounded
<1>5. CASE Refresh
  BY <1>5 DEF Refresh, disk, TypeOK, Bounded
<1>6. CASE \E m \in Markets : Sign(m)
  <2>1. PICK m \in Markets : Sign(m)
    BY <1>6
  <2> DEFINE a == Signature(m)
  <2>2. a \in Attestations /\ mode = "self" /\ step = Idle /\ log.up
    BY <2>1, SignatureType DEF Sign, Signs
  <2>3. /\ file' = file \o Line(a) /\ file' \in Seq(Piece)
        /\ Len(file') = Len(file) + 2 /\ Len(file) \in Nat
    <3>1. Line(a) \in Seq(Piece) /\ Len(Line(a)) = 2
      BY <2>2, Lines
    <3>2. file' = file \o Line(a)
      BY <2>1 DEF Sign
    <3>3. Len(file \o Line(a)) = Len(file) + 2 /\ Len(file) \in Nat
      BY <1>0, <2>2, LineEnds
    <3> HIDE DEF a
    <3>4. file \o Line(a) \in Seq(Piece)
      BY <1>0, <3>1
    <3> QED
      BY <3>2, <3>3, <3>4
  <2>4. log' \in Log
    <3>1. log.hashed \o Line(a) \in Seq(Piece)
      <4>1. Line(a) \in Seq(Piece)
        BY <2>2, Lines
      <4> HIDE DEF a
      <4> QED
        BY <1>0, <4>1
    <3>2. log' = [log EXCEPT !.hashed = @ \o Line(a), !.last[m] = a]
      BY <2>1 DEF Sign
    <3>3. a \in A0
      BY <2>2
    <3> HIDE DEF a, A0
    <3> QED
      BY <1>0, <3>1, <3>2, <3>3 DEF Log, A0
  <2>5. /\ latest' \in [Markets -> A0] /\ step' \in [at : Steps, att : A0]
        /\ IF Full(Len(file')) THEN step'.at = "rename" ELSE step'.at = "none"
    <3>1. IF Full(Len(file'))
          THEN step' = [at |-> "rename", att |-> a] /\ latest' = latest
          ELSE latest' = [latest EXCEPT ![m] = a] /\ step' = step
      BY <2>1 DEF Sign
    <3>2. a \in A0 /\ step = [at |-> "none", att |-> Nothing]
      BY <2>2 DEF Idle
    <3> HIDE DEF a, A0
    <3>3. [at |-> "rename", att |-> a] \in [at : Steps, att : A0]
      BY <3>2 DEF Steps
    <3>4. [latest EXCEPT ![m] = a] \in [Markets -> A0]
      BY <1>0, <3>2
    <3>5. [at |-> "rename", att |-> a].at = "rename" /\ step.at = "none"
      BY <3>2
    <3>6. CASE Full(Len(file'))
      BY <1>0, <3>1, <3>3, <3>5, <3>6
    <3>7. CASE ~Full(Len(file'))
      BY <1>0, <3>1, <3>4, <3>5, <3>7
    <3> QED
      BY <3>6, <3>7
  <2>6. /\ UNCHANGED <<mode, feed, held, closed, chain, crashes, cuts, unchained>>
        /\ signed' \subseteq Attestations
    BY <2>1, <2>2 DEF Sign, TypeOK
  <2>7. Bounded' /\ Len(file') < MaxPieces + 2 * (1 + cuts + crashes)
    <3>1. Len(file) < MaxPieces + 2 * (cuts + crashes)
      BY <2>2, NumberTypes, Numbers DEF Bounded, Idle
    <3>2. /\ Len(file') = Len(file) + 2 /\ Len(file) \in Nat
          /\ cuts \in Nat /\ crashes \in Nat /\ MaxPieces \in Nat
          /\ cuts' = cuts /\ crashes' = crashes /\ mode' = mode
      BY <2>3, <2>6, NumberTypes, Numbers
    <3>3. Len(file') < MaxPieces + 2 * (1 + cuts + crashes)
      BY <3>1, <3>2
    <3>4. IF Len(file') >= MaxPieces THEN step'.at = "rename" ELSE step'.at = "none"
      BY <2>5 DEF Full
    <3>5. Len(file') < MaxPieces + 2 * (cuts + crashes) + (IF step'.at = "rename" THEN 2 ELSE 0)
      <4>1. CASE Len(file') >= MaxPieces
        BY <3>1, <3>2, <3>4, <4>1
      <4>2. CASE ~(Len(file') >= MaxPieces)
        BY <3>2, <3>4, <4>2
      <4> QED
        BY <4>1, <4>2
    <3>6. Bounded'
      BY <3>2, <3>5 DEF Bounded
    <3> QED
      BY <3>3, <3>6
  <2> QED
    BY <2>3, <2>4, <2>5, <2>6, <2>7 DEF TypeOK
<1>7. CASE \E m \in Markets : SignCut(m)
  <2>1. PICK m \in Markets : SignCut(m)
    BY <1>7
  <2> DEFINE a == Signature(m)
  <2>2. a \in Attestations /\ mode = "self" /\ step = Idle /\ held # NotRead
    BY <2>1, SignatureType DEF SignCut, Signs
  <2>3. /\ file' = file \o HalfLine(a) /\ file' \in Seq(Piece)
        /\ Len(file') = Len(file) + 1 /\ Len(file) \in Nat
    <3>1. HalfLine(a) \in Seq(Piece) /\ Len(HalfLine(a)) = 1
      BY <2>2, Lines
    <3>2. file' = file \o HalfLine(a)
      BY <2>1 DEF SignCut
    <3>3. Len(file \o HalfLine(a)) = Len(file) + 1 /\ Len(file) \in Nat
      BY <1>0, <2>2, LineEnds
    <3> HIDE DEF a
    <3>4. file \o HalfLine(a) \in Seq(Piece)
      BY <1>0, <3>1
    <3> QED
      BY <3>2, <3>3, <3>4
  <2>4. /\ log' \in Log /\ latest' \in [Markets -> A0]
        /\ held' \in Observation \cup {NotRead}
    BY <1>0, <1>2, <1>3, <2>1 DEF SignCut, TypeOK
  <2>5. /\ UNCHANGED <<mode, feed, closed, chain, step, signed, crashes, unchained>>
        /\ cuts < MaxCut /\ cuts' = cuts + 1
    BY <2>1 DEF SignCut
  <2>6. Bounded' /\ Len(file') < MaxPieces + 2 * (1 + cuts' + crashes)
    <3>1. Len(file) < MaxPieces + 2 * (cuts + crashes)
      BY <2>2, NumberTypes, Numbers DEF Bounded, Idle
    <3>2. step'.at = "none"
      BY <2>2, <2>5 DEF Idle
    <3>3. cuts \in Int /\ crashes \in Int /\ Len(file) \in Int /\ MaxPieces \in Int
      BY NumberTypes, Numbers
    <3>4. Len(file') < MaxPieces + 2 * (cuts' + crashes)
      BY <2>3, <2>5, <3>1, <3>3
    <3>5. crashes' = crashes /\ cuts' \in Int /\ Len(file') \in Int
      BY <2>3, <2>5, <3>3
    <3>6. Bounded'
      BY <3>2, <3>3, <3>4, <3>5 DEF Bounded
    <3>7. Len(file') < MaxPieces + 2 * (1 + cuts' + crashes)
      BY SMTT(30), <3>3, <3>4, <3>5
    <3> QED
      BY <3>6, <3>7
  <2>7. cuts' \in 0..MaxCut
    BY <2>5, Numbers DEF TypeOK
  <2> QED
    BY <2>3, <2>4, <2>5, <2>6, <2>7 DEF TypeOK
<1>8. CASE \E m \in Markets : SignerBegins(m)
  <2>1. PICK m \in Markets : SignerBegins(m)
    BY <1>8
  <2> DEFINE a == [market |-> m, ts |-> feed.ts, price |-> feed.price]
  <2>2. a \in Attestations
    BY DEF TypeOK, Observation, Attestations
  <2>3. file' \in Seq(Piece) /\ (cuts' = cuts \/ (cuts' = cuts + 1 /\ cuts < MaxCut))
    <3>1. Line(a) \in Seq(Piece) /\ HalfLine(a) \in Seq(Piece)
      BY <2>2, Lines
    <3>2. \/ file' = file \o HalfLine(a) /\ cuts' = cuts
          \/ file' = file \o Line(a) /\ cuts' = cuts + 1 /\ cuts < MaxCut
      BY <2>1 DEF SignerBegins
    <3>3. file \o HalfLine(a) \in Seq(Piece) /\ file \o Line(a) \in Seq(Piece)
      <4> HIDE DEF a
      <4> QED
        BY <1>0, <3>1
    <3> QED
      BY <3>2, <3>3
  <2>4. /\ mode = "signer" /\ signed' = signed
        /\ UNCHANGED <<mode, feed, held, closed, chain, log, latest, step, crashes,
                       unchained>>
    BY <2>1 DEF SignerBegins, Signer
  <2>5. cuts' \in 0..MaxCut
    BY <2>3, Numbers DEF TypeOK
  <2> QED
    BY <2>3, <2>4, <2>5 DEF TypeOK, Bounded
<1>9. CASE RotateRename
  <2>1. /\ closed' = Append(closed, [data |-> file, stamp |-> feed.ts, sha |-> <<>>])
        /\ file' = <<>> /\ step' = [step EXCEPT !.at = "sha"]
        /\ UNCHANGED <<mode, feed, held, chain, log, latest, signed, crashes, cuts,
                       unchained>>
    BY <1>9 DEF RotateRename, Closed
  <2>2. closed' \in Seq(R)
    <3>1. [data |-> file, stamp |-> feed.ts, sha |-> <<>>] \in R
      BY <1>0, NumberTypes
    <3> HIDE DEF R
    <3> QED
      BY <1>0, <2>1, <3>1
  <2>3. step' \in [at : Steps, att : A0] /\ step'.at = "sha"
    BY <1>0, <2>1 DEF Steps
  <2>4. file' \in Seq(Piece) /\ Len(file') = 0
    BY <2>1
  <2>5. Bounded' /\ Len(file') < MaxPieces + 2 * (1 + cuts' + crashes')
    <3>1. ASSUME NEW p \in Nat, p >= 1, NEW c \in Nat, NEW k \in Nat
          PROVE  0 < p + 2 * (c + k) + 0 /\ 0 < p + 2 * (1 + c + k)
      BY <3>1
    <3>2. cuts' \in Nat /\ crashes' \in Nat /\ MaxPieces >= 1 /\ MaxPieces \in Nat
      BY <2>1, NumberTypes, Numbers
    <3>3. 0 < MaxPieces + 2 * (cuts' + crashes') + 0
          /\ 0 < MaxPieces + 2 * (1 + cuts' + crashes')
      BY <3>1, <3>2
    <3>4. Bounded'
      BY <2>3, <2>4, <3>3 DEF Bounded
    <3> QED
      BY <2>4, <3>3, <3>4
  <2> QED
    BY <2>1, <2>2, <2>3, <2>4, <2>5 DEF TypeOK
<1>10. CASE RotateSha
  <2>1. /\ closed' = [closed EXCEPT ![Len(closed)].sha = Digest]
        /\ step' = [step EXCEPT !.at = "chain"] /\ step.at = "sha"
        /\ UNCHANGED <<mode, feed, held, file, chain, log, latest, signed, crashes, cuts,
                       unchained>>
    BY <1>10 DEF RotateSha
  <2>2. closed' \in Seq(R)
    <3>1. Digest \in Seq(Seq(Piece))
      BY <1>0 DEF Digest
    <3>2. DOMAIN closed = 1..Len(closed) /\ \A k \in 1..Len(closed) : closed[k] \in R
      BY ClosedType
    <3>3. [DOMAIN closed -> R] \subseteq Seq(R)
      <4>1. Len(closed) \in Nat
        BY NumberTypes
      <4> HIDE DEF R
      <4> QED
        BY <3>2, <4>1, SeqDef
    <3>4. closed' \in [DOMAIN closed -> R]
      <4>1. \A k \in 1..Len(closed) : [closed[k] EXCEPT !.sha = Digest] \in R
        BY <3>1, <3>2
      <4>2. closed' = [closed EXCEPT ![Len(closed)] = [closed[Len(closed)] EXCEPT !.sha = Digest]]
        BY <2>1
      <4> HIDE DEF R
      <4> QED
        BY <3>2, <4>1, <4>2, <1>0
    <3> QED
      BY <3>3, <3>4
  <2>3. step' \in [at : Steps, att : A0] /\ step'.at = "chain"
    BY <1>0, <2>1 DEF Steps
  <2> QED
    BY <2>1, <2>2, <2>3 DEF TypeOK, Bounded
<1>11. CASE RotateChain
  <2>1. /\ step' = Idle /\ chain' = Digest /\ step.at = "chain"
        /\ log' = [log EXCEPT !.sealed = Digest, !.hashed = <<>>, !.from = 0]
        /\ latest' = [latest EXCEPT ![step.att.market] = step.att]
        /\ UNCHANGED <<mode, feed, held, file, closed, signed, crashes, cuts, unchained>>
    BY <1>11 DEF RotateChain
  <2>2. Digest \in Seq(Seq(Piece))
    BY <1>0 DEF Digest
  <2>3. log' \in Log
    <3>1. <<>> \in Seq(Piece) /\ 0 \in Nat
      OBVIOUS
    <3> HIDE DEF A0
    <3> QED
      BY <1>0, <2>1, <2>2, <3>1 DEF Log, A0
  <2>4. step.att \in A0
    BY <1>0
  <2>5. latest' \in [Markets -> A0]
    <3> HIDE DEF A0
    <3> QED
      BY <1>0, <2>1, <2>4
  <2>6. step' \in [at : Steps, att : A0] /\ step'.at = "none"
    BY <1>0, <2>1 DEF Idle, Steps
  <2> QED
    BY <2>1, <2>2, <2>3, <2>5, <2>6 DEF TypeOK, Bounded
<1>12. CASE SignerEnds
  <2>1. /\ file' = Append(file, [att |-> file[Len(file)].att, half |-> 2])
        /\ signed' = signed \cup {file[Len(file)].att} /\ file # <<>> /\ mode = "signer"
        /\ UNCHANGED <<mode, feed, held, closed, chain, log, latest, step, crashes,
                       unchained, cuts>>
    BY <1>12 DEF SignerEnds, Signer, HalfWritten
  <2>2. file[Len(file)] \in Piece
    BY <1>0, <2>1
  <2>3. file[Len(file)].att \in Attestations
    BY <2>2 DEF Piece
  <2>4. file' \in Seq(Piece)
    <3>1. [att |-> file[Len(file)].att, half |-> 2] \in Piece
      BY <2>3 DEF Piece
    <3> QED
      BY <1>0, <2>1, <3>1
  <2> QED
    BY <2>1, <2>3, <2>4 DEF TypeOK, Bounded
<1>13. CASE Follow
  <2> DEFINE taken == SubSeq(file, 1, TakenTo)
  <2>1. /\ log' = [log EXCEPT !.hashed = taken,
                              !.last = Pushed(@, taken, Len(log.hashed))]
        /\ latest' = [m \in Markets |->
              IF log'.last[m] # Nothing THEN log'.last[m] ELSE LatestOnDisk(m)]
        /\ UNCHANGED <<mode, feed, held, file, closed, chain, step, signed, crashes,
                       cuts, unchained>>
    BY <1>13 DEF Follow, disk
  <2>2. taken \in Seq(Piece) /\ Len(log.hashed) \in Nat
    BY <1>0, <1>13, TakenToIs DEF Follow
  <2>3. Pushed(log.last, taken, Len(log.hashed)) \in [Markets -> A0]
    BY <1>0, <2>2, PushedType
  <2>4. log' \in Log /\ log'.last \in [Markets -> A0]
    <3> HIDE DEF taken
    <3> QED
      BY <1>0, <2>1, <2>2, <2>3 DEF Log
  <2>5. \A m \in Markets : LatestOnDisk(m) \in A0
    BY LatestOnDiskType
  <2>6. latest' \in [Markets -> A0]
    BY <2>1, <2>4, <2>5
  <2> QED
    BY <2>1, <2>4, <2>6 DEF TypeOK, Bounded
<1>14. CASE Crash
  <2>1. /\ crashes < MaxCrashes /\ crashes' = crashes + 1 /\ log' = Down
        /\ held' = NotRead /\ step' = Idle /\ latest' = [m \in Markets |-> Nothing]
        /\ unchained' = (unchained \/ step.at \in {"sha", "chain"})
        /\ UNCHANGED <<mode, feed, file, closed, chain, signed, cuts>>
    BY <1>14 DEF Crash, disk
  <2>2. step' \in [at : Steps, att : A0] /\ step'.at = "none"
    BY <1>0, <2>1 DEF Idle, Steps
  <2>3. crashes' \in 0..MaxCrashes
    BY <2>1, Numbers DEF TypeOK
  <2>4. unchained' \in BOOLEAN
    BY <2>1
  <2>5. (mode = "self" => Len(file) < MaxPieces + 2 * (1 + cuts + crashes')) /\ Bounded'
    <3>1. /\ cuts \in Int /\ crashes \in Int /\ Len(file) \in Int
          /\ MaxPieces \in Int
      BY NumberTypes, Numbers
    <3>2. mode = "self" => Len(file) < MaxPieces + 2 * (cuts + crashes) + 2
      BY <3>1 DEF Bounded
    <3>3. mode = "self" => Len(file) < MaxPieces + 2 * (cuts + crashes')
      BY <2>1, <3>1, <3>2
    <3>4. Bounded'
      BY <2>1, <2>2, <3>1, <3>3 DEF Bounded
    <3> QED
      BY <2>1, <3>1, <3>3, <3>4
  <2> QED
    BY <1>2, <1>3, <2>1, <2>2, <2>3, <2>4, <2>5 DEF TypeOK
<1>15. CASE Load
  <2> DEFINE n == Len(file)
             tail == IF n > TailPieces THEN LineEnd(file, n - TailPieces) ELSE 0
  <2>1. /\ log' = [up |-> TRUE, sealed |-> chain, hashed |-> file, from |-> n,
                   last |-> Pushed(Down.last, file, tail)]
        /\ UNCHANGED <<mode, feed, held, file, closed, chain, latest, step, signed,
                       crashes, cuts, unchained>>
    BY <1>15 DEF Load, disk, Seed
  <2>2. n \in Nat
    BY NumberTypes
  <2>3. tail \in Nat
    BY <2>2, Numbers, LineEndIs
  <2>4. log' \in Log
    <3> HIDE DEF tail
    <3>1. Pushed(Down.last, file, tail) \in [Markets -> A0]
      BY <1>0, <1>2, <2>3, PushedType
    <3> QED
      BY <1>0, <1>1, <2>1, <2>2, <3>1
  <2> QED
    BY <2>1, <2>4 DEF TypeOK, Bounded
<1>16. CASE UNCHANGED vars
  BY <1>16 DEF vars, disk, TypeOK, Bounded
<1> QED
  BY <1>4, <1>5, <1>6, <1>7, <1>8, <1>9, <1>10, <1>11, <1>12, <1>13, <1>14, <1>15, <1>16
     DEF Next

(* Every state of the log, its memory and its files has its type, and a    *)
(* file the process writes is bounded by max_bytes and one line for each   *)
(* crash and cut write it survived.                                        *)
THEOREM TypeCorrect == Spec => []TypeOK
<1>1. Init => TypeOK /\ Bounded
  BY InitType
<1>2. TypeOK /\ Bounded /\ [Next]_vars => TypeOK' /\ Bounded'
  BY TypeStep
<1> QED
  BY <1>1, <1>2, PTL DEF Spec

-----------------------------------------------------------------------------
(* What pins the files. *)

LEMMA Prefix ==
  ASSUME NEW S, NEW s \in Seq(S), NEW k \in 0..Len(s)
  PROVE  /\ SubSeq(s, 1, k) \in Seq(S) /\ Len(SubSeq(s, 1, k)) = k
         /\ \A i \in 1..k : SubSeq(s, 1, k)[i] = s[i]
         /\ \A t \in Seq(S) : SubSeq(s \o t, 1, k) = SubSeq(s, 1, k)
         /\ \A e \in S : SubSeq(Append(s, e), 1, k) = SubSeq(s, 1, k)
<1>1. Len(s) \in Nat /\ k \in Nat
  OBVIOUS
<1>2. /\ SubSeq(s, 1, k) \in Seq(S) /\ Len(SubSeq(s, 1, k)) = k
      /\ \A i \in 1..k : SubSeq(s, 1, k)[i] = s[i]
  <2>1. \A i \in 1..k : s[i] \in S
    BY <1>1
  <2>2. /\ Len(SubSeq(s, 1, k)) = IF 1 <= k THEN k - 1 + 1 ELSE 0
        /\ SubSeq(s, 1, k) \in Seq(S)
        /\ \A i \in 1..k - 1 + 1 : SubSeq(s, 1, k)[i] = s[1 + i - 1]
    BY <1>1, <2>1, SubSeqProperties
  <2> QED
    BY <1>1, <2>2
<1>3. ASSUME NEW t \in Seq(S) PROVE SubSeq(s \o t, 1, k) = SubSeq(s, 1, k)
  <2>1. CASE k = 0
    BY <2>1, SubSeqEmpty
  <2>2. CASE k # 0
    <3>1. 1 \in 1..Len(s) /\ k \in 1..Len(s)
      BY <1>1, <2>2
    <3> QED
      BY <3>1, SubSeqOfConcat1
  <2> QED
    BY <2>1, <2>2
<1>4. ASSUME NEW e \in S PROVE SubSeq(Append(s, e), 1, k) = SubSeq(s, 1, k)
  <2>1. Append(s, e) = s \o <<e>> /\ <<e>> \in Seq(S)
    BY AppendIsConcat
  <2> QED
    BY <1>3, <2>1
<1> QED
  BY <1>2, <1>3, <1>4

(* Who writes, and how far a rotation is. *)
WriterInv ==
    /\ mode = "signer" => step = Idle /\ closed = <<>>
    /\ step.at # "none" => log.up /\ mode = "self"
    /\ step.at = "none" => step = Idle
    /\ step.at \in {"sha", "chain"} => file = <<>> /\ closed # <<>>

LEMMA InitWriter == Init => WriterInv
BY DEF Init, WriterInv, Idle

LEMMA WriterStep == ASSUME TypeOK, WriterInv, [Next]_vars PROVE WriterInv'
<1>0. /\ step \in [at : Steps, att : Attestations \cup {Nothing}] /\ log \in Log
      /\ Idle.at = "none" /\ mode \in {"self", "signer"}
  BY DEF TypeOK, Idle
<1>1. CASE \E m \in Markets : Sign(m)
  <2>1. PICK m \in Markets : Sign(m)
    BY <1>1
  <2>2. mode' = "self" /\ mode = "self" /\ step = Idle /\ log.up /\ closed' = closed
    BY <2>1 DEF Sign, Signs
  <2>3. step' = step \/ step' = [at |-> "rename", att |-> Signature(m)]
    BY <2>1 DEF Sign
  <2>4. step' = Idle \/ step'.at = "rename"
    BY <2>2, <2>3
  <2>5. log'.up
    <3>1. log' = [log EXCEPT !.hashed = @ \o Line(Signature(m)), !.last[m] = Signature(m)]
      BY <2>1 DEF Sign
    <3> QED
      BY <1>0, <2>2, <3>1 DEF Log
  <2> QED
    BY <1>0, <2>2, <2>4, <2>5 DEF WriterInv
<1>2. CASE \E m \in Markets : SignCut(m)
  BY <1>0, <1>2 DEF SignCut, Signs, WriterInv
<1>3. CASE \E m \in Markets : SignerBegins(m)
  BY <1>0, <1>3 DEF SignerBegins, Signer, WriterInv
<1>4. CASE RotateRename
  <2>1. /\ step.at = "rename" /\ step' = [step EXCEPT !.at = "sha"] /\ file' = <<>>
        /\ closed' = Append(closed, [data |-> file, stamp |-> feed.ts, sha |-> <<>>])
        /\ UNCHANGED <<mode, log>>
    BY <1>4 DEF RotateRename, Closed
  <2>2. step'.at = "sha" /\ mode = "self" /\ log.up
    BY <1>0, <2>1 DEF WriterInv
  <2>3. closed' # <<>>
    <3>1. Len(closed) \in Nat
      BY NumberTypes
    <3>2. Len(closed') = Len(closed) + 1
      BY <2>1 DEF TypeOK
    <3> QED
      BY <3>1, <3>2
  <2> QED
    BY <2>1, <2>2, <2>3 DEF WriterInv
<1>5. CASE RotateSha
  <2>1. /\ step.at = "sha" /\ step' = [step EXCEPT !.at = "chain"]
        /\ closed' = [closed EXCEPT ![Len(closed)].sha = Digest]
        /\ UNCHANGED <<mode, file, log>>
    BY <1>5 DEF RotateSha
  <2>2. step'.at = "chain" /\ mode = "self" /\ log.up /\ file = <<>> /\ closed # <<>>
    BY <1>0, <2>1 DEF WriterInv
  <2>3. closed' # <<>>
    <3>1. DOMAIN closed' = DOMAIN closed
      BY <2>1
    <3>2. DOMAIN closed # {}
      <4>1. Len(closed) \in Nat \ {0}
        BY <2>2, EmptySeq DEF TypeOK
      <4>2. 1 \in 1..Len(closed)
        BY <4>1
      <4> QED
        BY <4>2, ClosedType
    <3> QED
      BY <3>1, <3>2
  <2> QED
    BY <2>1, <2>2, <2>3 DEF WriterInv
<1>6. CASE RotateChain
  <2>1. step.at = "chain" /\ step' = Idle /\ UNCHANGED <<mode, file, closed>>
    BY <1>6 DEF RotateChain
  <2> QED
    BY <1>0, <2>1 DEF WriterInv
<1>7. CASE SignerEnds
  BY <1>0, <1>7 DEF SignerEnds, Signer, WriterInv
<1>8. CASE Follow
  BY <1>0, <1>8 DEF Follow, disk, WriterInv
<1>9. CASE Crash
  BY <1>0, <1>9 DEF Crash, disk, WriterInv
<1>10. CASE Load
  BY <1>0, <1>10 DEF Load, disk, WriterInv
<1>11. CASE FeedMoves \/ Refresh \/ UNCHANGED vars
  BY <1>11 DEF FeedMoves, Refresh, disk, vars, WriterInv
<1> QED
  BY <1>1, <1>2, <1>3, <1>4, <1>5, <1>6, <1>7, <1>8, <1>9, <1>10, <1>11 DEF Next

(* No rotation and no write was cut that the process went on after.        *)
Sound == ~unchained /\ (cuts = 0 \/ "full" \notin CutBy)

(* The .chain file is of all closed files, but the last while a rotation   *)
(* is under way; memory is of these and of the current one; and what the   *)
(* follower has read is a beginning of the file.                           *)
PinInv ==
    /\ mode = "self" /\ Sound =>
         /\ \A k \in 1..Len(closed) :
              k < Len(closed) \/ step.at # "sha" => closed[k].sha = SubSeq(Contents, 1, k)
         /\ log.up => log.sealed = chain
         /\ IF step.at \in {"sha", "chain"} THEN Append(chain, log.hashed) = Contents
            ELSE chain = Contents /\ (log.up => log.hashed = file)
    /\ mode = "signer" /\ log.up =>
         /\ Len(log.hashed) <= Len(file)
         /\ log.hashed = SubSeq(file, 1, Len(log.hashed))

LEMMA DataOf ==
  ASSUME NEW c \in Seq([data : Seq(Piece), stamp : 1..MaxTime, sha : Seq(Seq(Piece))])
  PROVE  LET d == [k \in DOMAIN c |-> c[k].data] IN
         /\ d \in Seq(Seq(Piece)) /\ Len(d) = Len(c) /\ Len(c) \in Nat
         /\ \A k \in 1..Len(c) : d[k] = c[k].data
<1> DEFINE R == [data : Seq(Piece), stamp : 1..MaxTime, sha : Seq(Seq(Piece))]
<1>1. DOMAIN c = 1..Len(c) /\ Len(c) \in Nat /\ \A k \in 1..Len(c) : c[k] \in R
  <2> HIDE DEF R
  <2>1. c \in Seq(R)
    BY DEF R
  <2> QED
    BY <2>1
<1>2. \A k \in 1..Len(c) : c[k].data \in Seq(Piece)
  BY <1>1
<1> QED
  BY <1>1, <1>2

LEMMA SameLength ==
  ASSUME NEW a \in Nat, NEW b \in Nat, 1..a = 1..b
  PROVE  a = b
<1>1. a > 0 => a \in 1..b
  OBVIOUS
<1>2. b > 0 => b \in 1..a
  OBVIOUS
<1> QED
  BY <1>1, <1>2

LEMMA ContentsType ==
  ASSUME TypeOK
  PROVE  /\ Contents \in Seq(Seq(Piece)) /\ Len(Contents) = Len(closed)
         /\ \A k \in 1..Len(closed) : Contents[k] = closed[k].data
         /\ Len(closed) \in Nat
<1>1. DOMAIN closed = 1..Len(closed) /\ Len(closed) \in Nat
      /\ \A k \in 1..Len(closed) : closed[k].data \in Seq(Piece)
  BY ClosedType, NumberTypes
<1>2. Contents = [k \in 1..Len(closed) |-> closed[k].data]
  BY <1>1 DEF Contents
<1> QED
  BY <1>1, <1>2

LEMMA InitPin == Init => PinInv
<1> SUFFICES ASSUME Init PROVE PinInv
  OBVIOUS
<1>1. /\ closed = <<>> /\ chain = <<>> /\ file = <<>> /\ step.at = "none"
      /\ log.sealed = <<>> /\ log.hashed = <<>>
  BY DEF Init, Idle, Down
<1>2. Contents = <<>>
  BY <1>1 DEF Contents
<1>3. Len(log.hashed) = 0 /\ Len(file) = 0 /\ log.hashed = SubSeq(file, 1, 0)
  BY <1>1, SubSeqEmpty
<1> QED
  BY <1>1, <1>2, <1>3 DEF PinInv

LEMMA PinStep ==
  ASSUME TypeOK, TypeOK', WriterInv, PinInv, [Next]_vars
  PROVE  PinInv'
<1>0. /\ log \in Log /\ file \in Seq(Piece) /\ mode \in {"self", "signer"}
      /\ step \in [at : Steps, att : Attestations \cup {Nothing}]
      /\ log.hashed \in Seq(Piece) /\ log.sealed \in Seq(Seq(Piece))
      /\ chain \in Seq(Seq(Piece)) /\ Len(file) \in Nat /\ Len(log.hashed) \in Nat
      /\ Idle.at = "none" /\ mode' = mode
  <2>1. mode' = mode
    BY ModeIsKept
  <2> QED
    BY SMTT(30), <2>1, NumberTypes DEF TypeOK, Log, Idle
<1>1. CASE \E m \in Markets : Sign(m)
  <2>1. PICK m \in Markets : Sign(m)
    BY <1>1
  <2> DEFINE l == Line(Signature(m))
  <2>2. /\ mode = "self" /\ step = Idle /\ log.up /\ file' = file \o l
        /\ log' = [log EXCEPT !.hashed = @ \o l, !.last[m] = Signature(m)]
        /\ UNCHANGED <<closed, chain, cuts, unchained>>
        /\ step'.at \in {"none", "rename"}
    <3>1. step' = step \/ step' = [at |-> "rename", att |-> Signature(m)]
      BY <2>1 DEF Sign
    <3>2. step = Idle
      BY <2>1 DEF Sign, Signs
    <3>3. step'.at \in {"none", "rename"}
      BY <1>0, <3>1, <3>2
    <3> QED
      BY <2>1, <3>2, <3>3 DEF Sign, Signs
  <2>3. log'.hashed = log.hashed \o l /\ log'.sealed = log.sealed /\ log'.up = log.up
    <3> HIDE DEF l
    <3> QED
      BY <1>0, <2>2 DEF Log
  <2>4. Contents' = Contents
    BY <2>2 DEF Contents
  <2>5. Sound' => Sound
    BY <2>2 DEF Sound
  <2> HIDE DEF l
  <2> QED
    BY <1>0, <2>2, <2>3, <2>4, <2>5 DEF PinInv
<1>2. CASE \E m \in Markets : SignCut(m)
  <2>1. PICK m \in Markets : SignCut(m)
    BY <1>2
  <2>2. /\ mode = "self" /\ step = Idle /\ log.up /\ step' = step
        /\ cuts < MaxCut /\ cuts' = cuts + 1 /\ cuts \in Nat
        /\ UNCHANGED <<closed, chain, unchained>>
    BY <2>1, NumberTypes DEF SignCut, Signs
  <2>3. Contents' = Contents
    BY <2>2 DEF Contents
  <2>4. Sound' => Sound /\ ~log'.up
    <3>1. Sound' => "full" \notin CutBy
      BY <2>2 DEF Sound
    <3>2. \E by \in CutBy : by # "full" => log' = Down
      BY <2>1 DEF SignCut
    <3>3. ~Down.up
      BY DEF Down
    <3> QED
      BY <2>2, <3>1, <3>2, <3>3 DEF Sound
  <2> QED
    BY <1>0, <2>2, <2>3, <2>4 DEF PinInv
<1>3. CASE \E m \in Markets : SignerBegins(m)
  <2>1. PICK m \in Markets : SignerBegins(m)
    BY <1>3
  <2> DEFINE a == [market |-> m, ts |-> feed.ts, price |-> feed.price]
  <2>2. a \in Attestations /\ mode = "signer" /\ log' = log
        /\ (file' = file \o HalfLine(a) \/ file' = file \o Line(a))
    BY <2>1 DEF SignerBegins, Signer, TypeOK, Observation, Attestations
  <2>3. PICK t \in Seq(Piece) : file' = file \o t
    BY <2>2, Lines
  <2>4. log.up => Len(log.hashed) <= Len(file')
                  /\ log.hashed = SubSeq(file', 1, Len(log.hashed))
    <3> SUFFICES ASSUME log.up PROVE Len(log.hashed) <= Len(file')
                  /\ log.hashed = SubSeq(file', 1, Len(log.hashed))
      OBVIOUS
    <3>1. Len(log.hashed) \in 0..Len(file)
      BY <1>0, <2>2 DEF PinInv
    <3>2. Len(file') = Len(file) + Len(t) /\ Len(t) \in Nat
      BY <1>0, <2>3
    <3> QED
      BY <1>0, <2>2, <2>3, <3>1, <3>2, Prefix DEF PinInv
  <2> QED
    BY <1>0, <2>2, <2>4 DEF PinInv
<1>4. CASE RotateRename
  <2>1. /\ step.at = "rename" /\ step' = [step EXCEPT !.at = "sha"] /\ file' = <<>>
        /\ closed' = Append(closed, [data |-> file, stamp |-> feed.ts, sha |-> <<>>])
        /\ UNCHANGED <<mode, chain, log, cuts, unchained>>
    BY <1>4 DEF RotateRename, Closed
  <2>2. step'.at = "sha" /\ mode = "self" /\ log.up
    BY <1>0, <2>1 DEF WriterInv
  <2>3. /\ Len(closed') = Len(closed) + 1 /\ Len(closed) \in Nat
        /\ \A k \in 1..Len(closed) : closed'[k] = closed[k]
        /\ closed'[Len(closed) + 1].data = file
    <3> DEFINE r == [data |-> file, stamp |-> feed.ts, sha |-> <<>>]
               R == [data : Seq(Piece), stamp : 1..MaxTime, sha : Seq(Seq(Piece))]
    <3>1. r \in R /\ r.data = file
      BY <1>0, NumberTypes
    <3>2. closed \in Seq(R)
      BY DEF TypeOK
    <3> HIDE DEF r, R
    <3>3. closed' = Append(closed, r)
      BY <2>1 DEF r
    <3> QED
      BY <3>1, <3>2, <3>3, AppendProperties, LenProperties
  <2>4. Contents' = Append(Contents, file)
    <3>1. /\ Contents' \in Seq(Seq(Piece)) /\ Len(Contents') = Len(closed')
          /\ \A k \in 1..Len(closed') : Contents'[k] = closed'[k].data
      BY DataOf DEF Contents, TypeOK
    <3>2. /\ Append(Contents, file) \in Seq(Seq(Piece))
          /\ Len(Append(Contents, file)) = Len(closed) + 1
          /\ \A k \in 1..Len(closed) : Append(Contents, file)[k] = closed[k].data
          /\ Append(Contents, file)[Len(closed) + 1] = file
      BY <1>0, ContentsType, AppendProperties
    <3>3. \A k \in 1..Len(closed') : k \in 1..Len(closed) \/ k = Len(closed) + 1
      BY <2>3
    <3>4. \A k \in 1..Len(Contents') : Contents'[k] = Append(Contents, file)[k]
      BY <2>3, <3>1, <3>2, <3>3
    <3> QED
      BY <2>3, <3>1, <3>2, <3>4, SeqEqual
  <2>5. ASSUME Sound'
        PROVE  /\ \A k \in 1..Len(closed') : k < Len(closed') =>
                    closed'[k].sha = SubSeq(Contents', 1, k)
               /\ log.sealed = chain
               /\ Append(chain, log.hashed) = Contents'
    <3>1. /\ \A k \in 1..Len(closed) : closed[k].sha = SubSeq(Contents, 1, k)
          /\ log.sealed = chain /\ chain = Contents /\ log.hashed = file
      BY <2>1, <2>2, <2>5 DEF PinInv, Sound
    <3>2. ASSUME NEW k \in 1..Len(closed'), k < Len(closed')
          PROVE  closed'[k].sha = SubSeq(Contents', 1, k)
      <4>1. k \in 1..Len(closed) /\ k \in 0..Len(Contents)
        BY <2>3, <3>2, ContentsType
      <4>2. SubSeq(Contents', 1, k) = SubSeq(Contents, 1, k)
        BY <1>0, <2>4, <4>1, ContentsType, Prefix
      <4> QED
        BY <2>3, <3>1, <4>1, <4>2
    <3> QED
      BY <2>4, <3>1, <3>2
  <2> QED
    BY <1>0, <2>1, <2>2, <2>5 DEF PinInv
<1>5. CASE RotateSha
  <2>1. /\ step.at = "sha" /\ step' = [step EXCEPT !.at = "chain"]
        /\ closed' = [closed EXCEPT ![Len(closed)].sha = Digest]
        /\ UNCHANGED <<mode, file, log, chain, cuts, unchained>>
    BY <1>5 DEF RotateSha
  <2>2. step'.at = "chain" /\ mode = "self" /\ log.up
    BY <1>0, <2>1 DEF WriterInv
  <2>3. /\ Len(closed') = Len(closed) /\ Len(closed) \in Nat
        /\ \A k \in 1..Len(closed) : /\ closed'[k].data = closed[k].data
                                     /\ k < Len(closed) => closed'[k].sha = closed[k].sha
        /\ closed # <<>> => closed'[Len(closed)].sha = Digest
    <3>1. DOMAIN closed = 1..Len(closed) /\ Len(closed) \in Nat
          /\ DOMAIN closed' = 1..Len(closed')
          /\ closed \in Seq([data : Seq(Piece), stamp : 1..MaxTime, sha : Seq(Seq(Piece))])
      BY ClosedType, NumberTypes DEF TypeOK
    <3>2. DOMAIN closed' = DOMAIN closed /\ Len(closed') \in Nat
      BY <2>1 DEF TypeOK
    <3>3. Len(closed') = Len(closed)
      BY <3>1, <3>2, SameLength
    <3>4. closed # <<>> => Len(closed) \in 1..Len(closed)
      BY <3>1, EmptySeq
    <3>5. \A k \in 1..Len(closed) :
            /\ closed'[k] = IF k = Len(closed) THEN [closed[k] EXCEPT !.sha = Digest]
                            ELSE closed[k]
            /\ closed[k] \in [data : Seq(Piece), stamp : 1..MaxTime, sha : Seq(Seq(Piece))]
      BY <2>1, <3>1, ClosedType
    <3>6. \A k \in 1..Len(closed) : k < Len(closed) => closed'[k] = closed[k]
      <4>1. \A k \in 1..Len(closed) : k < Len(closed) => k # Len(closed)
        BY ContentsType
      <4> QED
        BY <2>1, <3>1, <4>1
    <3>7. closed # <<>> => closed'[Len(closed)].sha = Digest
                           /\ closed'[Len(closed)].data = closed[Len(closed)].data
      BY <3>4, <3>5
    <3>8. \A k \in 1..Len(closed) : closed'[k].data = closed[k].data
      BY <3>5
    <3> QED
      BY <3>1, <3>3, <3>6, <3>7, <3>8
  <2>4. Contents' = Contents
    <3>1. Contents' = [k \in 1..Len(closed') |-> closed'[k].data]
      BY ContentsType, ClosedType DEF Contents, TypeOK
    <3>2. Contents = [k \in 1..Len(closed) |-> closed[k].data]
      BY ClosedType DEF Contents
    <3> QED
      BY <2>3, <3>1, <3>2
  <2>5. ASSUME Sound'
        PROVE  /\ \A k \in 1..Len(closed') : closed'[k].sha = SubSeq(Contents', 1, k)
               /\ log.sealed = chain
               /\ Append(chain, log.hashed) = Contents'
    <3>1. /\ \A k \in 1..Len(closed) : k < Len(closed) => closed[k].sha = SubSeq(Contents, 1, k)
          /\ log.sealed = chain /\ Append(chain, log.hashed) = Contents
      BY <2>1, <2>2, <2>5 DEF PinInv, Sound
    <3>2. Digest = SubSeq(Contents, 1, Len(closed))
      BY <3>1, ContentsType, SubSeqFull DEF Digest
    <3>3. closed # <<>>
      BY <2>1 DEF WriterInv
    <3>4. \A k \in 1..Len(closed) : k < Len(closed) \/ k = Len(closed)
      BY <2>3
    <3> QED
      BY <2>3, <2>4, <3>1, <3>2, <3>3, <3>4
  <2> QED
    BY <1>0, <2>1, <2>2, <2>5 DEF PinInv
<1>6. CASE RotateChain
  <2>1. /\ step.at = "chain" /\ step' = Idle /\ chain' = Digest
        /\ log' = [log EXCEPT !.sealed = Digest, !.hashed = <<>>, !.from = 0]
        /\ UNCHANGED <<mode, file, closed, cuts, unchained>>
    BY <1>6 DEF RotateChain
  <2>2. mode = "self" /\ log.up /\ file = <<>>
    BY <2>1 DEF WriterInv
  <2>3. log'.sealed = Digest /\ log'.hashed = <<>> /\ Contents' = Contents
    BY <1>0, <2>1 DEF Log, Contents
  <2>4. ASSUME Sound'
        PROVE  /\ \A k \in 1..Len(closed) : closed[k].sha = SubSeq(Contents, 1, k)
               /\ Digest = Contents
    BY <2>1, <2>2, <2>4 DEF PinInv, Sound, Digest
  <2> QED
    BY <1>0, <2>1, <2>2, <2>3, <2>4 DEF PinInv
<1>7. CASE SignerEnds
  <2>1. /\ file' = Append(file, [att |-> file[Len(file)].att, half |-> 2])
        /\ file # <<>> /\ mode = "signer" /\ log' = log
    BY <1>7 DEF SignerEnds, Signer, HalfWritten
  <2>2. [att |-> file[Len(file)].att, half |-> 2] \in Piece
    <3>1. file[Len(file)] \in Piece
      BY <1>0, <2>1
    <3> QED
      BY <3>1 DEF Piece
  <2>3. Len(file') = Len(file) + 1
    BY <1>0, <2>1
  <2> QED
    BY <1>0, <2>1, <2>2, <2>3, Prefix DEF PinInv
<1>8. CASE Follow
  <2>1. /\ log' = [log EXCEPT !.hashed = SubSeq(file, 1, TakenTo),
                     !.last = Pushed(@, SubSeq(file, 1, TakenTo), Len(log.hashed))]
        /\ mode = "signer" /\ UNCHANGED file /\ log.up
    BY <1>8 DEF Follow, disk
  <2>2. log'.hashed = SubSeq(file, 1, TakenTo)
    BY <1>0, <2>1 DEF Log
  <2>3. TakenTo \in 0..Len(file)
    BY <1>0, <2>1, TakenToIs DEF PinInv
  <2>4. Len(log'.hashed) = TakenTo
    BY <1>0, <2>2, <2>3, Prefix
  <2> QED
    BY <1>0, <2>1, <2>2, <2>3, <2>4 DEF PinInv
<1>9. CASE Crash
  <2>1. /\ log' = Down /\ step' = Idle /\ UNCHANGED <<mode, file, closed, chain, cuts>>
        /\ unchained' = (unchained \/ step.at \in {"sha", "chain"})
    BY <1>9 DEF Crash, disk
  <2>2. Contents' = Contents /\ ~log'.up
    BY <2>1 DEF Contents, Down
  <2>3. Sound' => Sound /\ step.at \notin {"sha", "chain"}
    BY <2>1 DEF Sound
  <2> QED
    BY <1>0, <2>1, <2>2, <2>3 DEF PinInv
<1>10. CASE Load
  <2>1. /\ log'.sealed = chain /\ log'.hashed = file /\ ~log.up
        /\ UNCHANGED <<mode, file, closed, chain, step, cuts, unchained>>
    BY <1>10 DEF Load, disk, Seed
  <2>2. Contents' = Contents
    BY <2>1 DEF Contents
  <2>3. step.at = "none"
    BY <2>1 DEF WriterInv
  <2>4. file = SubSeq(file, 1, Len(file))
    BY <1>0, SubSeqFull
  <2> QED
    BY <1>0, <2>1, <2>2, <2>3, <2>4 DEF PinInv, Sound
<1>11. CASE FeedMoves \/ Refresh \/ UNCHANGED vars
  <2>1. UNCHANGED <<mode, file, closed, chain, log, step, cuts, unchained>>
    BY <1>11 DEF FeedMoves, Refresh, disk, vars
  <2> QED
    BY <2>1 DEF PinInv, Sound, Contents
<1> QED
  BY <1>1, <1>2, <1>3, <1>4, <1>5, <1>6, <1>7, <1>8, <1>9, <1>10, <1>11 DEF Next

(* "The chain of .sha256 files still pins every attestation ever signed",  *)
(* whatever died between the steps of a rotation and started again: the    *)
(* digest AttestationLog signs with is of every file, each closed file's   *)
(* of those up to it, and the follower's of a beginning of the file.       *)
THEOREM DigestPins == Spec => []Pinned
<1> DEFINE I == TypeOK /\ Bounded /\ WriterInv /\ PinInv
<1>1. Init => I
  BY InitType, InitWriter, InitPin
<1>2. I /\ [Next]_vars => I'
  BY TypeStep, WriterStep, PinStep
<1>3. I => Pinned
  <2> SUFFICES ASSUME I, log.up, step = Idle
               PROVE  IF mode = "signer" THEN log.hashed = SubSeq(file, 1, Len(log.hashed))
                      ELSE Sound => /\ Digest = Append(Contents, file)
                                    /\ \A k \in DOMAIN closed :
                                         closed[k].sha = SubSeq(Contents, 1, k)
    BY DEF Pinned, Sound
  <2>1. step.at = "none" /\ mode \in {"self", "signer"} /\ DOMAIN closed = 1..Len(closed)
    BY ClosedType DEF Idle, TypeOK
  <2> QED
    BY <2>1 DEF PinInv, Digest
<1> QED
  BY <1>1, <1>2, <1>3, PTL DEF Spec

-----------------------------------------------------------------------------
(* The record only grows. *)

LEMMA RecordIs ==
  ASSUME TypeOK
  PROVE  \A f : f \in Record <=>
                 \/ f \in Entries(Len(closed) + 1, file)
                 \/ \E k \in 1..Len(closed) : f \in Entries(k, closed[k].data)
<1>1. DOMAIN closed = 1..Len(closed)
  BY ClosedType
<1> QED
  BY <1>1, Zenon DEF Record

(* The file grows at its end, by at most one line. *)
LEMMA FileGrows ==
  ASSUME TypeOK, NEW t \in Seq(Piece), NEW n \in Nat, file' = file \o t,
         n > Len(file), Ends(file') \subseteq Ends(file) \cup {n}, closed' = closed
  PROVE  Record' = Record \/ Trail!Next
<1>0. /\ file \in Seq(Piece) /\ file' \in Seq(Piece) /\ Len(file) \in Nat
      /\ Len(closed) \in Nat
  BY Joined, NumberTypes DEF TypeOK
<1> DEFINE k == Len(closed) + 1
           e == [at |-> <<k, n>>, att |-> file'[n].att]
<1>1. Ends(file) \subseteq Ends(file') /\ \A i \in Ends(file) : file'[i] = file[i]
  <2>1. \A i \in Ends(file) : i \in 1..Len(file)
    BY <1>0 DEF Ends
  <2> QED
    BY <1>0, <2>1, EndsKept, Joined
<1>2. Entries(k, file) \subseteq Entries(k, file')
  BY <1>1 DEF Entries
<1> DEFINE old == UNION {Entries(j, closed[j].data) : j \in DOMAIN closed}
<1>3. Record' = Entries(k, file') \cup old
  BY Zenon DEF Record
<1>4. Record = Entries(k, file) \cup old
  BY Zenon DEF Record
<1> HIDE DEF old
<1>5. CASE n \notin Ends(file')
  <2>1. Ends(file') = Ends(file)
    BY <1>1, <1>5
  <2>2. Entries(k, file') = Entries(k, file)
    BY <1>1, <2>1 DEF Entries
  <2> QED
    BY <1>3, <1>4, <2>2
<1>6. CASE n \in Ends(file')
  <2>1. Entries(k, file') = Entries(k, file) \cup {e}
    BY <1>1, <1>6 DEF Entries
  <2>2. Record' = Record \cup {e}
    BY <1>3, <1>4, <2>1
  <2>3. e.att \in Attestations
    BY <1>0, <1>6, EndsAre
  <2>4. \A f \in Record : Trail!Before(f.at, e.at)
    <3> SUFFICES ASSUME NEW f \in Record PROVE Trail!Before(f.at, e.at)
      OBVIOUS
    <3>1. e.at = <<k, n>>
      OBVIOUS
    <3>2. CASE f \in Entries(k, file)
      <4>1. PICK i \in Ends(file) : f = [at |-> <<k, i>>, att |-> file[i].att]
        BY <3>2 DEF Entries
      <4>2. i < n
        BY <1>0, <4>1 DEF Ends
      <4> QED
        BY <3>1, <4>1, <4>2 DEF Trail!Before
    <3>3. CASE f \notin Entries(k, file)
      <4>1. PICK j \in 1..Len(closed) : f \in Entries(j, closed[j].data)
        BY <3>3, RecordIs
      <4>2. PICK i \in Ends(closed[j].data) :
              f = [at |-> <<j, i>>, att |-> closed[j].data[i].att]
        BY <4>1 DEF Entries
      <4>3. j < k
        BY <1>0
      <4> QED
        BY <3>1, <4>2, <4>3 DEF Trail!Before
    <3> QED
      BY <3>2, <3>3
  <2> HIDE DEF e
  <2>5. e \in Record'
    BY <2>2
  <2> QED
    BY <2>2, <2>3, <2>4, <2>5 DEF Trail!Next
<1> QED
  BY <1>5, <1>6

LEMMA RecordStep ==
  ASSUME TypeOK, TypeOK', WriterInv, [Next]_vars
  PROVE  Record' = Record \/ Trail!Next
<1>0. /\ file \in Seq(Piece) /\ Len(file) \in Nat /\ Len(closed) \in Nat
  BY NumberTypes DEF TypeOK
<1>1. ASSUME NEW a \in Attestations, closed' = closed,
             file' = file \o Line(a) \/ file' = file \o HalfLine(a)
      PROVE  Record' = Record \/ Trail!Next
  <2> DEFINE n == Len(file) + 2
  <2>1. PICK t \in Seq(Piece) : file' = file \o t
    BY <1>1, Lines
  <2>2. n \in Nat /\ n > Len(file)
    BY <1>0
  <2>3. Ends(file') \subseteq Ends(file) \cup {n}
    <3>1. /\ Ends(file \o HalfLine(a)) = Ends(file)
          /\ Ends(file \o Line(a)) \subseteq Ends(file) \cup {n}
      BY <1>0, LineEnds
    <3> HIDE DEF n
    <3> QED
      BY <1>1, <3>1
  <2> HIDE DEF n
  <2> QED
    BY <1>1, <2>1, <2>2, <2>3, FileGrows
<1>3. CASE \E m \in Markets : Sign(m) \/ SignCut(m)
  <2>1. PICK m \in Markets : Sign(m) \/ SignCut(m)
    BY <1>3
  <2>2. Signature(m) \in Attestations
    BY <2>1, SignatureType DEF Sign, SignCut, Signs
  <2>3. /\ closed' = closed
        /\ file' = file \o Line(Signature(m)) \/ file' = file \o HalfLine(Signature(m))
    BY <2>1 DEF Sign, SignCut
  <2> QED
    BY <1>1, <2>2, <2>3
<1>4. CASE \E m \in Markets : SignerBegins(m)
  <2>1. PICK m \in Markets : SignerBegins(m)
    BY <1>4
  <2> DEFINE a == [market |-> m, ts |-> feed.ts, price |-> feed.price]
  <2>2. a \in Attestations
    BY DEF TypeOK, Observation, Attestations
  <2>3. /\ closed' = closed
        /\ file' = file \o Line(a) \/ file' = file \o HalfLine(a)
    BY <2>1 DEF SignerBegins, Signer
  <2> HIDE DEF a
  <2> QED
    BY <1>1, <2>2, <2>3
<1>5. CASE SignerEnds
  <2> DEFINE p == [att |-> file[Len(file)].att, half |-> 2]
  <2>1. file' = Append(file, p) /\ file # <<>> /\ closed' = closed
    BY <1>5 DEF SignerEnds, Signer, HalfWritten
  <2>2. p \in Piece
    <3>1. file[Len(file)] \in Piece
      BY <1>0, <2>1
    <3> QED
      BY <3>1 DEF Piece
  <2> HIDE DEF p
  <2>3. file' = file \o <<p>> /\ <<p>> \in Seq(Piece) /\ Len(file') = Len(file) + 1
    BY <1>0, <2>1, <2>2, AppendIsConcat
  <2>4. Ends(file') \subseteq Ends(file) \cup {Len(file) + 1}
    <3> SUFFICES ASSUME NEW i \in Ends(file')
                 PROVE  i \in Ends(file) \/ i = Len(file) + 1
      OBVIOUS
    <3>1. i \in 1..Len(file) \/ i = Len(file) + 1
      BY <1>0, <2>3 DEF Ends
    <3> QED
      BY <1>0, <2>3, <3>1, EndsKept
  <2> DEFINE n == Len(file) + 1
  <2>5. n \in Nat /\ n > Len(file) /\ Ends(file') \subseteq Ends(file) \cup {n}
    BY <1>0, <2>4
  <2> HIDE DEF n
  <2> QED
    BY <2>1, <2>3, <2>5, FileGrows
<1>6. CASE RotateRename
  <2> DEFINE r == [data |-> file, stamp |-> feed.ts, sha |-> <<>>]
             R == [data : Seq(Piece), stamp : 1..MaxTime, sha : Seq(Seq(Piece))]
             n == Len(closed) + 1
  <2>1. closed' = Append(closed, r) /\ file' = <<>> /\ r.data = file
    BY <1>6 DEF RotateRename, Closed
  <2>2. r \in R /\ closed \in Seq(R)
    BY <1>0, NumberTypes DEF TypeOK
  <2> HIDE DEF r, R
  <2>3. /\ DOMAIN closed' = 1..n /\ DOMAIN closed = 1..Len(closed)
        /\ closed'[n] = r /\ \A k \in 1..Len(closed) : closed'[k] = closed[k]
    BY <2>1, <2>2, AppendProperties, LenProperties
  <2>4. Entries(Len(closed') + 1, file') = {}
    BY <2>1 DEF Entries, Ends
  <2>5. \A f : f \in Record' <=> \E k \in 1..n : f \in Entries(k, closed'[k].data)
    <3>1. Record' = Entries(Len(closed') + 1, file')
                      \cup UNION {Entries(k, closed'[k].data) : k \in DOMAIN closed'}
      BY Zenon DEF Record
    <3> QED
      BY <2>3, <2>4, <3>1, Zenon
  <2>6. \A k \in 1..n : k \in 1..Len(closed) \/ k = n
    BY <1>0
  <2>7. 1..Len(closed) \subseteq 1..n /\ n \in 1..n
    BY <1>0
  <2>8. Entries(n, closed'[n].data) = Entries(n, file)
    BY <2>1, <2>3
  <2>9. \A k \in 1..Len(closed) : Entries(k, closed'[k].data) = Entries(k, closed[k].data)
    BY <2>3
  <2>10. \A f : f \in Record <=>
                 \/ f \in Entries(n, file)
                 \/ \E k \in 1..Len(closed) : f \in Entries(k, closed[k].data)
    BY RecordIs
  <2> HIDE DEF n
  <2>11. \A f : f \in Record' <=> f \in Record
    BY <2>5, <2>6, <2>7, <2>8, <2>9, <2>10, Zenon
  <2> QED
    BY <2>11
<1>7. CASE RotateSha
  <2>1. closed' = [closed EXCEPT ![Len(closed)].sha = Digest] /\ file' = file
    BY <1>7 DEF RotateSha
  <2>2. DOMAIN closed' = DOMAIN closed /\ Len(closed') = Len(closed)
    <3>1. DOMAIN closed' = DOMAIN closed
      BY <2>1
    <3>2. DOMAIN closed' = 1..Len(closed') /\ Len(closed') \in Nat
      BY LenProperties DEF TypeOK
    <3> QED
      BY <1>0, <3>1, <3>2, ClosedType, SameLength
  <2>3. \A k \in DOMAIN closed : closed'[k].data = closed[k].data
    BY <2>1, ClosedType
  <2> QED
    BY <2>1, <2>2, <2>3 DEF Record
<1>8. CASE \/ FeedMoves \/ Refresh \/ RotateChain \/ Follow \/ Crash \/ Load
           \/ UNCHANGED vars
  <2>1. UNCHANGED <<file, closed>>
    BY <1>8 DEF FeedMoves, Refresh, RotateChain, Follow, Crash, Load, disk, vars
  <2> QED
    BY <2>1 DEF Record
<1> QED
  BY <1>3, <1>4, <1>5, <1>6, <1>7, <1>8 DEF Next

(* "An append-only record": AttestationLog implements AuditTrail, whatever *)
(* is cut, dies, rotates or starts again.                                  *)
THEOREM RecordOnlyGrows == Spec => AppendOnly
<1> DEFINE I == TypeOK /\ Bounded /\ WriterInv
<1>1. Init => I /\ Trail!Init
  <2> SUFFICES ASSUME Init PROVE I /\ Trail!Init
    OBVIOUS
  <2>1. Record = {}
    BY DEF Init, Record, Entries, Ends
  <2> QED
    BY <2>1, InitType, InitWriter DEF Trail!Init
<1>2. I /\ [Next]_vars => I'
  BY TypeStep, WriterStep
<1>3. I /\ I' /\ [Next]_vars => [Trail!Next]_Record
  BY RecordStep
<1> QED
  BY <1>1, <1>2, <1>3, PTL DEF Spec, AppendOnly, Trail!Spec

-----------------------------------------------------------------------------
(* What is newest.  The feed's time must not run back: with FeedMay =      *)
(* {"goBack"} a line of an earlier time is signed and served.              *)

Sorted(data) ==
    \A i, j \in 1..Len(data) : i <= j => data[i].att.ts <= data[j].att.ts
NoLater(data, t) == \A i \in 1..Len(data) : data[i].att.ts <= t
Past(data) == NoLater(data, feed.ts) /\ (held # NotRead => NoLater(data, held.ts))

OrderInv ==
    /\ held # NotRead => held.ts <= feed.ts /\ mode = "self"
    /\ Sorted(file) /\ Past(file)
    /\ \A k \in 1..Len(closed) :
         /\ Sorted(closed[k].data) /\ Past(closed[k].data)
         /\ \A j \in 1..Len(file) : NoLater(closed[k].data, file[j].att.ts)

LEMMA PieceTimes ==
  ASSUME NEW data \in Seq(Piece)
  PROVE  /\ Len(data) \in Nat
         /\ \A i \in 1..Len(data) : /\ data[i] \in Piece /\ data[i].att \in Attestations
                                    /\ data[i].att.ts \in 1..MaxTime
                                    /\ data[i].att.ts \in Nat
<1>1. Len(data) \in Nat /\ \A i \in 1..Len(data) : data[i] \in Piece
  OBVIOUS
<1>2. \A i \in 1..Len(data) : data[i].att \in Attestations
  BY <1>1 DEF Piece
<1>3. \A i \in 1..Len(data) : data[i].att.ts \in 1..MaxTime
  BY <1>2 DEF Attestations
<1> QED
  BY <1>1, <1>2, <1>3, Numbers

LEMMA InitOrder == Init => OrderInv
<1> SUFFICES ASSUME Init PROVE OrderInv
  OBVIOUS
<1>1. held = NotRead /\ Len(file) = 0 /\ Len(closed) = 0
  BY DEF Init
<1> QED
  BY <1>1 DEF OrderInv, Sorted, Past, NoLater

(* A file grows by what is as late as all there is. *)
LEMMA OrderGrows ==
  ASSUME TypeOK, OrderInv, NEW t \in Seq(Piece), NEW x \in Nat,
         file' = file \o t, closed' = closed, feed' = feed, mode' = mode,
         held' \in {held, NotRead},
         \A i \in 1..Len(t) : t[i].att.ts = x,
         x <= feed.ts, held # NotRead => x <= held.ts,
         NoLater(file, x), \A k \in 1..Len(closed) : NoLater(closed[k].data, x)
  PROVE  OrderInv'
<1>0. /\ file \in Seq(Piece) /\ Len(file) \in Nat /\ Len(t) \in Nat
      /\ Len(file') = Len(file) + Len(t)
      /\ \A i \in 1..Len(file) : file'[i] = file[i]
      /\ \A i \in 1..Len(file') : i \in 1..Len(file) \/ i - Len(file) \in 1..Len(t)
  BY Joined DEF TypeOK
<1>1. \A i \in 1..Len(file') : i \notin 1..Len(file) => file'[i].att.ts = x
  <2> SUFFICES ASSUME NEW i \in 1..Len(file'), i \notin 1..Len(file)
               PROVE  file'[i].att.ts = x
    OBVIOUS
  <2>1. PICK j \in 1..Len(t) : j = i - Len(file)
    BY <1>0
  <2>2. file'[Len(file) + j] = t[j]
    BY <1>0, <2>1, Joined
  <2>3. i = Len(file) + j
    BY <1>0, <2>1
  <2> QED
    BY <2>2, <2>3
<1>2. \A i \in 1..Len(file) : file[i].att.ts \in Nat
  BY <1>0, PieceTimes
<1>3. Sorted(file')
  <2> SUFFICES ASSUME NEW i \in 1..Len(file'), NEW j \in 1..Len(file'), i <= j
               PROVE  file'[i].att.ts <= file'[j].att.ts
    BY DEF Sorted
  <2>1. CASE j \in 1..Len(file)
    <3>1. i \in 1..Len(file)
      BY <1>0, <2>1
    <3>2. file[i].att.ts <= file[j].att.ts
      BY <2>1, <3>1 DEF OrderInv, Sorted
    <3> QED
      BY <1>0, <2>1, <3>1, <3>2
  <2>2. CASE j \notin 1..Len(file) /\ i \in 1..Len(file)
    BY <1>0, <1>1, <2>2 DEF NoLater
  <2>3. CASE j \notin 1..Len(file) /\ i \notin 1..Len(file)
    BY <1>1, <2>3
  <2> QED
    BY <2>1, <2>2, <2>3
<1>4. NoLater(file', feed.ts) /\ (held # NotRead => NoLater(file', held.ts))
  <2>1. NoLater(file, feed.ts) /\ (held # NotRead => NoLater(file, held.ts))
    BY DEF OrderInv, Past
  <2> QED
    BY <1>0, <1>1, <2>1 DEF NoLater
<1>5. ASSUME NEW k \in 1..Len(closed), NEW j \in 1..Len(file')
      PROVE  NoLater(closed[k].data, file'[j].att.ts)
  <2>1. CASE j \in 1..Len(file)
    BY <1>0, <2>1 DEF OrderInv
  <2>2. CASE j \notin 1..Len(file)
    BY <1>1, <2>2
  <2> QED
    BY <2>1, <2>2
<1>6. held' # NotRead => held # NotRead /\ held' = held
  OBVIOUS
<1>7. ASSUME NEW data, Past(data) PROVE NoLater(data, feed'.ts)
                                   /\ (held' # NotRead => NoLater(data, held'.ts))
  BY <1>6, <1>7 DEF Past
<1>8. Past(file) /\ \A k \in 1..Len(closed) : Sorted(closed[k].data) /\ Past(closed[k].data)
  BY DEF OrderInv
<1>9. held # NotRead => held.ts <= feed.ts /\ mode = "self"
  BY DEF OrderInv
<1>10. \A k \in 1..Len(closed) : /\ NoLater(closed[k].data, feed'.ts)
                                 /\ held' # NotRead => NoLater(closed[k].data, held'.ts)
  BY <1>7, <1>8
<1>11. Past(file)' /\ \A k \in 1..Len(closed) : Past(closed[k].data)'
  BY <1>4, <1>6, <1>10 DEF Past, NoLater
<1>12. Sorted(file)' /\ \A k \in 1..Len(closed) : Sorted(closed[k].data)'
  BY <1>3, <1>8 DEF Sorted
<1>13. \A k \in 1..Len(closed) : \A j \in 1..Len(file') : NoLater(closed[k].data, file[j].att.ts)'
  BY <1>5 DEF NoLater
<1> QED
  BY <1>6, <1>9, <1>11, <1>12, <1>13 DEF OrderInv

LEMMA OrderStep ==
  ASSUME TypeOK, TypeOK', WriterInv, OrderInv, [Next]_vars, "goBack" \notin FeedMay
  PROVE  OrderInv'
<1>0. /\ file \in Seq(Piece) /\ Len(file) \in Nat /\ Len(closed) \in Nat
      /\ feed.ts \in Nat /\ held.ts \in Nat
      /\ held # NotRead => held.ts <= feed.ts /\ mode = "self"
      /\ Past(file) /\ \A k \in 1..Len(closed) : Past(closed[k].data)
  BY NumberTypes DEF TypeOK, OrderInv
<1>1. ASSUME NEW a \in Attestations, closed' = closed, feed' = feed, mode' = mode,
             held' \in {held, NotRead},
             file' = file \o Line(a) \/ file' = file \o HalfLine(a),
             a.ts = IF held = NotRead THEN feed.ts ELSE held.ts
      PROVE  OrderInv'
  <2>1. PICK t \in Seq(Piece) : file' = file \o t /\ \A i \in 1..Len(t) : t[i].att = a
    <3>1. \A i \in 1..Len(Line(a)) : Line(a)[i].att = a
      BY Lines DEF Line
    <3>2. \A i \in 1..Len(HalfLine(a)) : HalfLine(a)[i].att = a
      BY Lines DEF HalfLine
    <3> QED
      BY <1>1, <3>1, <3>2, Lines
  <2> DEFINE x == a.ts
  <2>2. x \in Nat /\ \A i \in 1..Len(t) : t[i].att.ts = x
    BY <1>0, <1>1, <2>1
  <2>3. x <= feed.ts /\ (held # NotRead => x <= held.ts)
    BY <1>0, <1>1
  <2>4. NoLater(file, x) /\ \A k \in 1..Len(closed) : NoLater(closed[k].data, x)
    BY <1>0, <1>1 DEF Past
  <2> HIDE DEF x
  <2> QED
    BY <1>1, <2>1, <2>2, <2>3, <2>4, OrderGrows
<1>2. CASE \E m \in Markets : Sign(m) \/ SignCut(m)
  <2>1. PICK m \in Markets : Sign(m) \/ SignCut(m)
    BY <1>2
  <2>2. held # NotRead /\ Signature(m) \in Attestations /\ Signature(m).ts = held.ts
    BY <2>1, SignatureType DEF Sign, SignCut, Signs, Signature
  <2>3. /\ closed' = closed /\ feed' = feed /\ mode' = mode /\ held' \in {held, NotRead}
        /\ file' = file \o Line(Signature(m)) \/ file' = file \o HalfLine(Signature(m))
    BY <2>1 DEF Sign, SignCut
  <2> QED
    BY <1>1, <2>2, <2>3
<1>3. CASE \E m \in Markets : SignerBegins(m)
  <2>1. PICK m \in Markets : SignerBegins(m)
    BY <1>3
  <2> DEFINE a == [market |-> m, ts |-> feed.ts, price |-> feed.price]
  <2>2. a \in Attestations /\ a.ts = feed.ts
    BY DEF TypeOK, Observation, Attestations
  <2>3. /\ closed' = closed /\ feed' = feed /\ mode' = mode /\ held' = held
        /\ file' = file \o Line(a) \/ file' = file \o HalfLine(a)
    BY <2>1 DEF SignerBegins, Signer
  <2>4. held = NotRead /\ held' \in {held, NotRead}
    BY <1>0, <2>1, <2>3 DEF SignerBegins, Signer
  <2> HIDE DEF a
  <2> QED
    BY <1>1, <2>2, <2>3, <2>4
<1>4. CASE SignerEnds
  <2> DEFINE p == [att |-> file[Len(file)].att, half |-> 2]
             x == file[Len(file)].att.ts
  <2>1. /\ file' = Append(file, p) /\ file # <<>> /\ closed' = closed /\ held' = held
        /\ feed' = feed /\ mode' = mode /\ mode = "signer"
    BY <1>4 DEF SignerEnds, Signer, HalfWritten
  <2>2. Len(file) \in 1..Len(file)
    BY <1>0, <2>1, EmptySeq
  <2>3. p \in Piece /\ x \in Nat /\ p.att.ts = x
    BY <1>0, <2>2, PieceTimes DEF Piece
  <2>4. NoLater(file, x) /\ x <= feed.ts /\ Len(closed) = 0 /\ held = NotRead
    BY <1>0, <2>1, <2>2 DEF OrderInv, Sorted, NoLater, Past, WriterInv
  <2> HIDE DEF p, x
  <2>5. file' = file \o <<p>> /\ <<p>> \in Seq(Piece)
    BY <1>0, <2>1, <2>3, AppendIsConcat
  <2>6. \A i \in 1..Len(<<p>>) : <<p>>[i].att.ts = x
    BY <2>3
  <2>7. /\ \A k \in 1..Len(closed) : NoLater(closed[k].data, x)
        /\ held' \in {held, NotRead} /\ (held # NotRead => x <= held.ts)
    BY <2>1, <2>4
  <2> QED
    BY <2>1, <2>3, <2>4, <2>5, <2>6, <2>7, OrderGrows
<1>5. CASE FeedMoves
  <2>1. /\ feed'.ts \in Nat /\ feed.ts <= feed'.ts
        /\ UNCHANGED <<mode, held, file, closed>>
    BY <1>0, <1>5, Numbers DEF FeedMoves, disk
  <2>2. ASSUME NEW data \in Seq(Piece), Past(data)
        PROVE  NoLater(data, feed'.ts) /\ (held # NotRead => NoLater(data, held.ts))
    BY <1>0, <2>1, <2>2, PieceTimes DEF Past, NoLater
  <2>3. Past(file)' /\ \A k \in 1..Len(closed) : Past(closed[k].data)'
    BY <1>0, <2>1, <2>2, ClosedType DEF Past, NoLater
  <2> QED
    BY <1>0, <2>1, <2>3 DEF OrderInv, Sorted, NoLater
<1>6. CASE Refresh
  <2>1. held' = feed /\ feed' = feed /\ UNCHANGED <<mode, file, closed>> /\ mode = "self"
    BY <1>6 DEF Refresh, disk
  <2>2. Past(file)' /\ \A k \in 1..Len(closed) : Past(closed[k].data)'
    BY <1>0, <2>1 DEF Past, NoLater
  <2> QED
    BY <1>0, <2>1, <2>2 DEF OrderInv, Sorted, NoLater
<1>7. CASE RotateRename
  <2> DEFINE r == [data |-> file, stamp |-> feed.ts, sha |-> <<>>]
             R == [data : Seq(Piece), stamp : 1..MaxTime, sha : Seq(Seq(Piece))]
             n == Len(closed) + 1
  <2>1. /\ closed' = Append(closed, r) /\ file' = <<>> /\ r.data = file
        /\ UNCHANGED <<mode, feed, held>>
    BY <1>7 DEF RotateRename, Closed
  <2>2. r \in R /\ closed \in Seq(R)
    BY <1>0, NumberTypes DEF TypeOK
  <2> HIDE DEF r, R
  <2>3. /\ Len(closed') = n /\ closed'[n].data = file
        /\ \A k \in 1..Len(closed) : closed'[k] = closed[k]
    BY <2>1, <2>2, AppendProperties
  <2>4. \A k \in 1..n : k \in 1..Len(closed) \/ k = n
    BY <1>0
  <2>5. Sorted(file) /\ \A k \in 1..Len(closed) : Sorted(closed[k].data)
    BY DEF OrderInv
  <2> HIDE DEF n
  <2>6. \A k \in 1..n : Sorted(closed'[k].data) /\ Past(closed'[k].data)
    BY <1>0, <2>3, <2>4, <2>5
  <2>7. \A k \in 1..n : Sorted(closed[k].data)' /\ Past(closed[k].data)'
    BY <2>1, <2>6 DEF Sorted, Past, NoLater
  <2>8. Len(file') = 0
    BY <2>1
  <2>9. Sorted(file)' /\ Past(file)'
    BY <2>8 DEF Sorted, Past, NoLater
  <2> QED
    BY <1>0, <2>1, <2>3, <2>7, <2>8, <2>9 DEF OrderInv
<1>8. CASE RotateSha
  <2>1. /\ closed' = [closed EXCEPT ![Len(closed)].sha = Digest]
        /\ UNCHANGED <<file, mode, feed, held>>
    BY <1>8 DEF RotateSha
  <2>2. Len(closed') = Len(closed)
    <3>1. DOMAIN closed' = DOMAIN closed
      BY <2>1
    <3>2. DOMAIN closed' = 1..Len(closed') /\ Len(closed') \in Nat
      BY LenProperties DEF TypeOK
    <3> QED
      BY <1>0, <3>1, <3>2, ClosedType, SameLength
  <2>3. \A k \in 1..Len(closed) : closed'[k].data = closed[k].data
    BY <2>1, ClosedType
  <2>4. \A k \in 1..Len(closed) :
          /\ Sorted(closed'[k].data) /\ Past(closed'[k].data)
          /\ \A j \in 1..Len(file) : NoLater(closed'[k].data, file[j].att.ts)
    BY <2>3 DEF OrderInv
  <2>5. \A k \in 1..Len(closed) :
          /\ Sorted(closed[k].data)' /\ Past(closed[k].data)'
          /\ \A j \in 1..Len(file) : NoLater(closed[k].data, file[j].att.ts)'
    BY <2>1, <2>4 DEF Sorted, Past, NoLater
  <2>6. Sorted(file)' /\ Past(file)'
    BY <2>1 DEF OrderInv, Sorted, Past, NoLater
  <2> QED
    BY <1>0, <2>1, <2>2, <2>5, <2>6 DEF OrderInv
<1>9. CASE Crash
  <2>1. held' = NotRead /\ UNCHANGED <<mode, feed, file, closed>>
    BY <1>9 DEF Crash, disk
  <2> QED
    BY <2>1 DEF OrderInv, Sorted, Past, NoLater
<1>10. CASE RotateChain \/ Follow \/ Load \/ UNCHANGED vars
  <2>1. UNCHANGED <<mode, feed, held, file, closed>>
    BY <1>10 DEF RotateChain, Follow, Load, disk, vars
  <2> QED
    BY <2>1 DEF OrderInv, Sorted, Past, NoLater
<1> QED
  BY <1>2, <1>3, <1>4, <1>5, <1>6, <1>7, <1>8, <1>9, <1>10 DEF Next

(* In memory, too, nothing is newer than what is held of a market.  What   *)
(* the follower has taken since start-up ends with the end of a line.      *)
ReadEnds ==
    {i \in Ends(file) : mode = "signer" =>
        /\ i <= Len(log.hashed)
        /\ i - 2 >= log.from \/ i <= log.from}

NewestInv ==
    log.up =>
      /\ mode = "signer" =>
           /\ log.from <= Len(log.hashed)
           /\ \/ Len(log.hashed) = log.from
              \/ /\ Len(log.hashed) \in 1..Len(file)
                 /\ file[Len(log.hashed)].half = 2
      /\ \A m \in Markets : log.last[m] # Nothing =>
           /\ \A i \in ReadEnds :
                file[i].att.market = m => file[i].att.ts <= log.last[m].ts
           /\ \A k \in 1..Len(closed) : \A i \in Ends(closed[k].data) :
                closed[k].data[i].att.market = m
                  => closed[k].data[i].att.ts <= log.last[m].ts

LEMMA InitNewest == Init => NewestInv
<1> SUFFICES ASSUME Init PROVE NewestInv
  OBVIOUS
<1>1. /\ log = [up |-> TRUE, sealed |-> <<>>, hashed |-> <<>>, from |-> 0,
                last |-> [m \in Markets |-> Nothing]]
      /\ \A m \in Markets : log.last[m] = Nothing
  BY DEF Init, Down
<1> QED
  BY <1>1 DEF NewestInv

(* What was pushed is the latest of the whole file, where it is of it.     *)
LEMMA PushedIs ==
  ASSUME NEW last, NEW data \in Seq(Piece), Sorted(data), NEW from \in Nat,
         NEW m \in Markets
  PROVE  \/ /\ Pushed(last, data, from)[m] = last[m]
            /\ \A i \in Ends(data) : i - 2 >= from => data[i].att.market # m
         \/ \A i \in Ends(data) :
              data[i].att.market = m => data[i].att.ts <= Pushed(last, data, from)[m].ts
<1> DEFINE mine == {i \in Ends(data) : i - 2 >= from /\ data[i].att.market = m}
<1>1. CASE mine = {}
  BY <1>1 DEF Pushed
<1>2. CASE mine # {}
  <2>1. mine \subseteq Nat /\ Len(data) \in Nat /\ \A i \in mine : i <= Len(data)
    BY EndsAre
  <2>2. mine \subseteq Ends(data) /\ \A i \in mine : i - 2 >= from
    OBVIOUS
  <2>3. \A i \in Ends(data) : data[i].att.market = m /\ i - 2 >= from => i \in mine
    OBVIOUS
  <2>4. Pushed(last, data, from)[m] = data[Highest(mine)].att
    BY <1>2 DEF Pushed
  <2> DEFINE h == Highest(mine)
  <2> HIDE DEF mine
  <2>5. h \in mine /\ \A i \in mine : i <= h
    BY <1>2, <2>1, Greatest
  <2> HIDE DEF h
  <2>6. ASSUME NEW i \in Ends(data), data[i].att.market = m
        PROVE  data[i].att.ts <= data[h].att.ts
    <3>1. i \in 2..Len(data) /\ h \in 2..Len(data) /\ h - 2 >= from
      BY <2>2, <2>5, EndsAre
    <3>2. i <= h
      BY <2>1, <2>3, <2>5, <2>6, <3>1
    <3> QED
      BY <2>1, <3>1, <3>2 DEF Sorted
  <2> QED
    BY <2>4, <2>6 DEF h
<1> QED
  BY <1>1, <1>2

LEMMA Beginning ==
  ASSUME NEW s \in Seq(Piece), NEW n \in 0..Len(s)
  PROVE  LET t == SubSeq(s, 1, n) IN
         /\ t \in Seq(Piece) /\ Len(t) = n /\ n \in Nat
         /\ \A i \in 1..n : t[i] = s[i]
         /\ Ends(t) = {i \in Ends(s) : i <= n}
         /\ Sorted(s) => Sorted(t)
<1> DEFINE t == SubSeq(s, 1, n)
<1>1. /\ t \in Seq(Piece) /\ Len(t) = n /\ n \in Nat /\ Len(s) \in Nat
      /\ \A i \in 1..n : t[i] = s[i]
  OBVIOUS
<1>2. /\ \A i : i \in 2..Len(t) <=> i \in 2..Len(s) /\ i <= n
      /\ \A i \in 2..Len(t) : /\ t[i] = s[i] /\ t[i - 1] = s[i - 1]
                              /\ i > 2 => t[i - 2] = s[i - 2]
  <2> HIDE DEF t
  <2> QED
    BY <1>1
<1> HIDE DEF t
<1>3. Ends(t) = {i \in Ends(s) : i <= n}
  BY <1>2 DEF Ends
<1>4. Sorted(s) => Sorted(t)
  BY <1>1 DEF Sorted
<1> QED
  BY <1>1, <1>3, <1>4 DEF t

LEMMA NewestStep ==
  ASSUME TypeOK, TypeOK', WriterInv, PinInv, OrderInv, NewestInv, [Next]_vars
  PROVE  NewestInv'
<1>0. /\ log \in Log /\ file \in Seq(Piece) /\ mode \in {"self", "signer"}
      /\ log.hashed \in Seq(Piece) /\ Len(file) \in Nat /\ Len(log.hashed) \in Nat
      /\ log.from \in Nat /\ Len(closed) \in Nat
      /\ log.last \in [Markets -> Attestations \cup {Nothing}]
      /\ mode' = mode
  <2>0. log.from \in Nat /\ log.last \in [Markets -> Attestations \cup {Nothing}]
    BY DEF TypeOK, Log
  <2>1. mode' = mode
    BY ModeIsKept
  <2>2. /\ log \in Log /\ file \in Seq(Piece) /\ mode \in {"self", "signer"}
        /\ Len(file) \in Nat /\ Len(closed) \in Nat
    BY NumberTypes DEF TypeOK
  <2>3. log.hashed \in Seq(Piece)
    BY <2>2 DEF Log
  <2>4. Len(log.hashed) \in Nat
    BY <2>3
  <2> QED
    BY <2>0, <2>1, <2>2, <2>3, <2>4
<1>1. CASE \E m \in Markets : Sign(m)
  <2>1. PICK m \in Markets : Sign(m)
    BY <1>1
  <2> DEFINE a == Signature(m)
  <2>2. /\ mode = "self" /\ held # NotRead /\ file' = file \o Line(a) /\ closed' = closed
        /\ log' = [log EXCEPT !.hashed = @ \o Line(a), !.last[m] = a]
    BY <2>1 DEF Sign, Signs
  <2>3. a \in Attestations /\ a.ts = held.ts /\ a.market = m /\ held.ts \in Nat
    BY <2>2, SignatureType, NumberTypes DEF Signature
  <2> HIDE DEF a
  <2>4. log'.last = [log.last EXCEPT ![m] = a] /\ log'.up = log.up
    BY <1>0, <2>2 DEF Log
  <2>5. /\ ReadEnds = Ends(file) /\ ReadEnds' = Ends(file')
    BY <1>0, <2>2 DEF ReadEnds
  <2>6. ASSUME NEW i \in Ends(file')
        PROVE  (i \in Ends(file) /\ file'[i] = file[i]) \/ file'[i].att = a
    <3>1. Ends(file') \subseteq Ends(file) \cup {Len(file) + 2}
          /\ file'[Len(file) + 2].att = a
      BY <1>0, <2>2, <2>3, LineEnds
    <3>2. CASE i \in Ends(file)
      <4>1. i \in 1..Len(file)
        BY <1>0, <3>2, EndsAre
      <4> QED
        BY <1>0, <2>2, <2>3, <3>2, <4>1, Lines, Joined
    <3> QED
      BY <3>1, <3>2
  <2>7. /\ NoLater(file, held.ts)
        /\ \A k \in 1..Len(closed) : NoLater(closed[k].data, held.ts)
    BY <2>2 DEF OrderInv, Past
  <2>8. ASSUME NEW n \in Markets, log'.last[n] # Nothing, NEW i \in Ends(file'),
               file'[i].att.market = n
        PROVE  file'[i].att.ts <= log'.last[n].ts
    <3>1. CASE n = m
      <4>1. log'.last[n] = a
        BY <1>0, <2>4, <3>1
      <4>2. CASE i \in Ends(file) /\ file'[i] = file[i]
        <5>1. i \in 1..Len(file)
          BY <1>0, <4>2, EndsAre
        <5> QED
          BY <2>3, <2>7, <4>1, <4>2, <5>1 DEF NoLater
      <4>3. CASE file'[i].att = a
        BY <2>3, <4>1, <4>3
      <4> QED
        BY <2>6, <4>2, <4>3
    <3>2. CASE n # m
      <4>1. log'.last[n] = log.last[n]
        BY <1>0, <2>4, <3>2
      <4>2. i \in Ends(file) /\ file'[i] = file[i]
        BY <2>3, <2>6, <2>8, <3>2
      <4>3. log.up
        BY <2>1 DEF Sign, Signs
      <4> QED
        BY <2>5, <2>8, <4>1, <4>2, <4>3 DEF NewestInv
    <3> QED
      BY <3>1, <3>2
  <2>9. ASSUME NEW n \in Markets, log'.last[n] # Nothing, NEW k \in 1..Len(closed),
               NEW i \in Ends(closed[k].data), closed[k].data[i].att.market = n
        PROVE  closed[k].data[i].att.ts <= log'.last[n].ts
    <3>1. i \in 1..Len(closed[k].data)
      BY ClosedType, EndsAre
    <3>2. CASE n = m
      BY <1>0, <2>3, <2>4, <2>7, <3>1, <3>2 DEF NoLater
    <3>3. CASE n # m
      <4>1. log'.last[n] = log.last[n] /\ log.up
        BY <1>0, <2>1, <2>4, <3>3 DEF Sign, Signs
      <4> QED
        BY <2>9, <4>1 DEF NewestInv
    <3> QED
      BY <3>2, <3>3
  <2> QED
    BY <1>0, <2>2, <2>5, <2>8, <2>9 DEF NewestInv
<1>2. ASSUME UNCHANGED <<log, closed>>, Len(file) <= Len(file'),
             \A i \in 1..Len(file) : file'[i] = file[i],
             \A i \in 1..Len(file) : i \in Ends(file') <=> i \in Ends(file),
             mode = "self" => Ends(file') = Ends(file)
      PROVE  NewestInv'
  <2> SUFFICES ASSUME log.up PROVE NewestInv'
    BY <1>2 DEF NewestInv
  <2>1. mode = "signer" => Len(log.hashed) <= Len(file)
    BY DEF PinInv
  <2>2. ReadEnds' = ReadEnds /\ \A i \in ReadEnds : i \in 1..Len(file)
    <3>1. \A i : i \in Ends(file) => i \in 1..Len(file)
      BY <1>0, EndsAre
    <3>2. \A i : i \in Ends(file') => i \in Nat /\ i >= 1
      BY EndsAre DEF TypeOK
    <3> QED
      BY <1>0, <1>2, <2>1, <3>1, <3>2 DEF ReadEnds
  <2>3. Len(file') \in Nat
    BY NumberTypes DEF TypeOK
  <2>4. mode = "signer" =>
          \/ Len(log.hashed) = log.from
          \/ /\ Len(log.hashed) \in 1..Len(file')
             /\ file'[Len(log.hashed)].half = 2
    BY <1>0, <1>2, <2>3 DEF NewestInv
  <2>5. \A i \in ReadEnds : file'[i] = file[i]
    BY <1>2, <2>2
  <2> QED
    BY <1>0, <1>2, <2>2, <2>4, <2>5 DEF NewestInv
<1>3. CASE \E m \in Markets : SignCut(m)
  <2>1. PICK m \in Markets : SignCut(m)
    BY <1>3
  <2>2. CASE log' = Down
    BY <2>2 DEF NewestInv, Down
  <2>3. CASE log' = log
    <3> DEFINE a == Signature(m)
    <3>1. /\ file' = file \o HalfLine(a) /\ closed' = closed /\ held # NotRead
      BY <2>1 DEF SignCut, Signs
    <3>2. a \in Attestations
      BY <3>1, SignatureType
    <3> HIDE DEF a
    <3>3. /\ Ends(file') = Ends(file) /\ Len(file') = Len(file) + 1
          /\ \A i \in 1..Len(file) : file'[i] = file[i]
      BY <1>0, <3>1, <3>2, LineEnds, Lines, Joined
    <3>4. UNCHANGED <<log, closed>> /\ Len(file) <= Len(file')
      BY <1>0, <2>3, <3>1, <3>3
    <3> QED
      BY <1>2, <3>3, <3>4
  <2> QED
    BY <2>1, <2>2, <2>3 DEF SignCut
<1>4. ASSUME NEW t \in Seq(Piece), file' = file \o t, UNCHANGED <<log, closed>>,
             mode = "signer"
      PROVE  NewestInv'
  <2>1. /\ Len(file) <= Len(file') /\ \A i \in 1..Len(file) : file'[i] = file[i]
    BY <1>0, <1>4, Joined
  <2>2. \A i \in 1..Len(file) : i \in Ends(file') <=> i \in Ends(file)
    BY <1>0, <1>4, EndsKept
  <2> QED
    BY <1>2, <1>4, <2>1, <2>2
<1>5. CASE \E m \in Markets : SignerBegins(m)
  <2>1. PICK m \in Markets : SignerBegins(m)
    BY <1>5
  <2> DEFINE a == [market |-> m, ts |-> feed.ts, price |-> feed.price]
  <2>2. a \in Attestations
    BY DEF TypeOK, Observation, Attestations
  <2>3. /\ closed' = closed /\ log' = log /\ mode = "signer"
        /\ file' = file \o Line(a) \/ file' = file \o HalfLine(a)
    BY <2>1 DEF SignerBegins, Signer
  <2> HIDE DEF a
  <2> QED
    BY <1>4, <2>2, <2>3, Lines
<1>6. CASE SignerEnds
  <2> DEFINE p == [att |-> file[Len(file)].att, half |-> 2]
  <2>1. /\ file' = Append(file, p) /\ file # <<>> /\ closed' = closed /\ log' = log
        /\ mode = "signer"
    BY <1>6 DEF SignerEnds, Signer, HalfWritten
  <2>2. p \in Piece
    <3>1. Len(file) \in 1..Len(file)
      BY <1>0, <2>1, EmptySeq
    <3> QED
      BY <1>0, <3>1, PieceTimes DEF Piece
  <2> HIDE DEF p
  <2>3. file' = file \o <<p>> /\ <<p>> \in Seq(Piece)
    BY <1>0, <2>1, <2>2, AppendIsConcat
  <2> QED
    BY <1>4, <2>1, <2>3
<1>7. CASE RotateRename
  <2> DEFINE r == [data |-> file, stamp |-> feed.ts, sha |-> <<>>]
             R == [data : Seq(Piece), stamp : 1..MaxTime, sha : Seq(Seq(Piece))]
             n == Len(closed) + 1
  <2>1. /\ closed' = Append(closed, r) /\ file' = <<>> /\ r.data = file
        /\ log' = log /\ mode = "self"
    BY <1>0, <1>7 DEF RotateRename, Closed, WriterInv
  <2>2. r \in R /\ closed \in Seq(R)
    BY <1>0, NumberTypes DEF TypeOK
  <2> HIDE DEF r, R
  <2>3. /\ Len(closed') = n /\ closed'[n].data = file
        /\ \A k \in 1..Len(closed) : closed'[k] = closed[k]
    BY <2>1, <2>2, AppendProperties
  <2>4. \A k \in 1..n : k \in 1..Len(closed) \/ k = n
    BY <1>0
  <2>5. ReadEnds = Ends(file) /\ ReadEnds' = {}
    BY <2>1, <1>0 DEF ReadEnds, Ends
  <2> HIDE DEF n
  <2> SUFFICES ASSUME log.up, NEW m \in Markets, log.last[m] # Nothing,
                      NEW k \in 1..n, NEW i \in Ends(closed'[k].data),
                      closed'[k].data[i].att.market = m
               PROVE  closed'[k].data[i].att.ts <= log.last[m].ts
    BY <1>0, <2>1, <2>3, <2>5 DEF NewestInv
  <2>6. CASE k = n
    BY <2>3, <2>5, <2>6 DEF NewestInv
  <2>7. CASE k \in 1..Len(closed)
    BY <2>3, <2>7 DEF NewestInv
  <2> QED
    BY <2>4, <2>6, <2>7
<1>8. CASE RotateSha
  <2>1. /\ closed' = [closed EXCEPT ![Len(closed)].sha = Digest]
        /\ file' = file /\ log' = log
    BY <1>8 DEF RotateSha
  <2>2. Len(closed') = Len(closed)
    <3>1. DOMAIN closed' = DOMAIN closed
      BY <2>1
    <3>2. DOMAIN closed' = 1..Len(closed') /\ Len(closed') \in Nat
      BY LenProperties DEF TypeOK
    <3> QED
      BY <1>0, <3>1, <3>2, ClosedType, SameLength
  <2>3. \A k \in 1..Len(closed) : closed'[k].data = closed[k].data
    BY <2>1, ClosedType
  <2>4. ReadEnds' = ReadEnds
    BY <1>0, <2>1 DEF ReadEnds
  <2> QED
    BY <1>0, <2>1, <2>2, <2>3, <2>4 DEF NewestInv
<1>9. CASE RotateChain
  <2>1. /\ log' = [log EXCEPT !.sealed = Digest, !.hashed = <<>>, !.from = 0]
        /\ UNCHANGED <<file, closed>> /\ mode = "self"
    BY <1>0, <1>9 DEF RotateChain, WriterInv
  <2>2. log'.last = log.last /\ log'.up = log.up
    BY <1>0, <2>1 DEF Log
  <2>3. ReadEnds' = ReadEnds
    BY <1>0, <2>1 DEF ReadEnds
  <2> QED
    BY <1>0, <2>1, <2>2, <2>3 DEF NewestInv
<1>10. CASE Follow
  <2> DEFINE n == Len(log.hashed)
             t == TakenTo
             taken == SubSeq(file, 1, t)
  <2>1. /\ mode = "signer" /\ log.up /\ t > n /\ UNCHANGED <<file, closed>>
        /\ log' = [log EXCEPT !.hashed = taken, !.last = Pushed(@, taken, n)]
    BY <1>10 DEF Follow, disk
  <2>2. closed = <<>> /\ Len(closed) = 0
    BY <2>1 DEF WriterInv
  <2>3. t \in n + 1 .. Len(file) /\ file[t].half = 2 /\ t \in Nat
    BY <1>0, <2>1, TakenToIs
  <2> HIDE DEF t
  <2>4. t \in 0..Len(file) /\ t \in 1..Len(file)
    BY <1>0, <2>3
  <2>5. /\ taken \in Seq(Piece) /\ Len(taken) = t
        /\ \A i \in 1..t : taken[i] = file[i]
        /\ Ends(taken) = {i \in Ends(file) : i <= t}
        /\ Sorted(taken)
    BY <1>0, <2>4, Beginning DEF OrderInv
  <2> HIDE DEF taken
  <2>6. /\ log'.up /\ log'.hashed = taken /\ log'.from = log.from
        /\ log'.last = Pushed(log.last, taken, n)
    BY <1>0, <2>1 DEF Log
  <2>7. log.from <= n /\ (n = log.from \/ (n \in 1..Len(file) /\ file[n].half = 2))
    BY <2>1 DEF NewestInv
  <2>8. ASSUME NEW m \in Markets, log'.last[m] # Nothing, NEW i \in ReadEnds',
               file[i].att.market = m
        PROVE  file[i].att.ts <= log'.last[m].ts
    <3>1. /\ i \in Ends(file) /\ i <= t
          /\ i - 2 >= log.from \/ i <= log.from
      BY <1>0, <2>1, <2>5, <2>6 DEF ReadEnds
    <3>2. i \in Ends(taken) /\ taken[i] = file[i] /\ i \in Nat /\ i >= 2
          /\ file[i - 1].half = 1
      BY <1>0, <2>3, <2>5, <3>1, EndsAre
    <3>3. CASE \A j \in Ends(taken) :
                 taken[j].att.market = m => taken[j].att.ts <= log'.last[m].ts
      BY <2>8, <3>2, <3>3
    <3>4. CASE /\ log'.last[m] = log.last[m]
               /\ \A j \in Ends(taken) : j - 2 >= n => taken[j].att.market # m
      <4>1. ~(i - 2 >= n)
        BY <2>8, <3>2, <3>4
      <4>2. i # n + 1
        <5> SUFFICES ASSUME i = n + 1 PROVE FALSE
          OBVIOUS
        <5>1. i - 1 = n
          BY <1>0
        <5>2. n = log.from
          BY <2>7, <3>2, <5>1
        <5> QED
          BY <1>0, <3>1, <5>2
      <4>3. i <= n
        BY <1>0, <3>2, <4>1, <4>2
      <4>4. i \in ReadEnds
        BY <3>1, <4>3 DEF ReadEnds
      <4> QED
        BY <2>1, <2>8, <3>4, <4>4 DEF NewestInv
    <3>5. n \in Nat
      BY <1>0
    <3> HIDE DEF n
    <3> QED
      BY <2>5, <2>6, <3>3, <3>4, <3>5, PushedIs
  <2>9. log.from <= t /\ t \in 1..Len(file)
    BY <1>0, <2>3, <2>4, <2>7
  <2> QED
    BY <1>0, <2>1, <2>2, <2>3, <2>5, <2>6, <2>8, <2>9 DEF NewestInv
<1>11. CASE Crash
  BY <1>11 DEF Crash, NewestInv, Down
<1>12. CASE Load
  <2> DEFINE n == Len(file)
             tail == IF n > TailPieces THEN LineEnd(file, n - TailPieces) ELSE 0
             last0 == Down.last
  <2>1. /\ log' = [up |-> TRUE, sealed |-> Seed, hashed |-> file, from |-> n,
                   last |-> Pushed(last0, file, tail)]
        /\ UNCHANGED <<file, closed>>
    BY <1>12 DEF Load, disk
  <2>2. tail \in Nat
    <3>1. CASE n > TailPieces
      <4>1. n - TailPieces \in Nat
        BY <1>0, <3>1, Numbers
      <4> QED
        BY <1>0, <3>1, <4>1, LineEndIs
    <3> QED
      BY <3>1
  <2> HIDE DEF tail
  <2>3. \A m \in Markets : last0[m] = Nothing
    BY DEF Down
  <2> HIDE DEF last0
  <2>4. ASSUME NEW m \in Markets, log'.last[m] # Nothing
        PROVE  \A i \in Ends(file) :
                 file[i].att.market = m => file[i].att.ts <= log'.last[m].ts
    <3>1. Sorted(file)
      BY DEF OrderInv
    <3>2. log'.last[m] = Pushed(last0, file, tail)[m]
      BY <2>1
    <3> QED
      BY <1>0, <2>2, <2>3, <2>4, <3>1, <3>2, PushedIs
  <2>5. ASSUME NEW m \in Markets, log'.last[m] # Nothing, NEW k \in 1..Len(closed),
               NEW i \in Ends(closed[k].data), closed[k].data[i].att.market = m
        PROVE  closed[k].data[i].att.ts <= log'.last[m].ts
    <3> DEFINE mine == {j \in Ends(file) : j - 2 >= tail /\ file[j].att.market = m}
               h == Highest(mine)
    <3>1. log'.last[m] = IF mine = {} THEN last0[m] ELSE file[h].att
      BY <2>1 DEF Pushed
    <3>2. mine # {} /\ log'.last[m] = file[h].att
      BY <2>3, <2>5, <3>1
    <3>3. mine \subseteq Nat /\ \A j \in mine : j <= n
      BY <1>0, EndsAre
    <3>4. mine \subseteq Ends(file)
      OBVIOUS
    <3> HIDE DEF mine
    <3>5. h \in Ends(file)
      BY <1>0, <3>2, <3>3, <3>4, Greatest
    <3> HIDE DEF h
    <3>6. h \in 1..Len(file) /\ i \in 1..Len(closed[k].data)
      BY <1>0, <3>5, ClosedType, EndsAre
    <3>7. NoLater(closed[k].data, file[h].att.ts)
      BY <3>6 DEF OrderInv
    <3> QED
      BY <3>2, <3>6, <3>7 DEF NoLater
  <2>6. \A i \in ReadEnds' : i \in Ends(file)
    BY <2>1 DEF ReadEnds
  <2> QED
    BY <1>0, <2>1, <2>4, <2>5, <2>6 DEF NewestInv
<1>13. CASE FeedMoves \/ Refresh \/ UNCHANGED vars
  <2>1. UNCHANGED <<log, file, closed>>
    BY <1>13 DEF FeedMoves, Refresh, disk, vars
  <2>2. ReadEnds' = ReadEnds
    BY <1>0, <2>1 DEF ReadEnds
  <2> QED
    BY <1>0, <2>1, <2>2 DEF NewestInv
<1> QED
  BY <1>1, <1>3, <1>5, <1>6, <1>7, <1>8, <1>9, <1>10, <1>11, <1>12, <1>13 DEF Next

LEMMA NewestShows == ASSUME TypeOK, NewestInv PROVE NewestKnown
<1> SUFFICES ASSUME log.up, NEW m \in Markets,
                    NEW a, a.market = m,
                    \/ \E i \in ReadEnds : a = file[i].att
                    \/ \E k \in DOMAIN closed : a \in Whole(closed[k].data)
             PROVE  a.ts <= Latest(m).ts
  <2>1. ASSUME NEW i \in Ends(file), mode = "self" \/ i <= Len(log.hashed),
               i - 2 >= log.from \/ i <= log.from
        PROVE  i \in ReadEnds
    BY <2>1, TypeOK DEF ReadEnds, TypeOK
  <2> QED
    BY <2>1 DEF NewestKnown
<1>1. DOMAIN closed = 1..Len(closed)
  BY ClosedType
<1>2. CASE log.last[m] # Nothing
  <2>1. Latest(m) = log.last[m]
    BY <1>2 DEF Latest
  <2>2. CASE \E i \in ReadEnds : a = file[i].att
    BY <1>2, <2>1, <2>2 DEF NewestInv
  <2>3. CASE \E k \in DOMAIN closed : a \in Whole(closed[k].data)
    <3>1. PICK k \in 1..Len(closed) : \E i \in Ends(closed[k].data) :
                 a = closed[k].data[i].att
      BY <1>1, <2>3 DEF Whole
    <3> QED
      BY <1>2, <2>1, <3>1 DEF NewestInv
  <2> QED
    BY <2>2, <2>3
<1>3. CASE log.last[m] = Nothing
  <2>1. Latest(m) = LatestOnDisk(m)
    BY <1>3 DEF Latest
  <2>2. a \in OnDisk(m)
    <3>1. CASE \E i \in ReadEnds : a = file[i].att
      <4>1. a \in Whole(file)
        BY <3>1 DEF ReadEnds, Whole
      <4> QED
        BY <4>1 DEF OnDisk
    <3>2. CASE \E k \in DOMAIN closed : a \in Whole(closed[k].data)
      BY <3>2 DEF OnDisk
    <3> QED
      BY <3>1, <3>2
  <2> QED
    BY <2>1, <2>2, LatestOnDiskType
<1> QED
  BY <1>2, <1>3

(* What is newest of a market is known from anywhere, and served after a   *)
(* start: nothing that was read whole, from memory, the tail or the closed *)
(* files, is later.                                                        *)
THEOREM NewestIsKnown == ASSUME "goBack" \notin FeedMay PROVE Spec => []NewestKnown
<1> DEFINE I == TypeOK /\ Bounded /\ WriterInv /\ PinInv /\ OrderInv /\ NewestInv
<1>1. Init => I
  BY InitType, InitWriter, InitPin, InitOrder, InitNewest
<1>2. I /\ [Next]_vars => I'
  <2> SUFFICES ASSUME I, [Next]_vars PROVE I'
    OBVIOUS
  <2>1. TypeOK' /\ Bounded' /\ WriterInv'
    BY TypeStep, WriterStep
  <2>2. PinInv'
    BY <2>1, PinStep
  <2>3. OrderInv'
    BY <2>1, OrderStep
  <2>4. NewestInv'
    BY <2>1, NewestStep
  <2> QED
    BY <2>1, <2>2, <2>3, <2>4
<1>3. I => NewestKnown
  BY NewestShows
<1> QED
  BY <1>1, <1>2, <1>3, PTL DEF Spec

-----------------------------------------------------------------------------
(* The bisection.  A step of it looks at smaller gaps only, so the         *)
(* recursion has a solution: that of all gaps to the greatest length that  *)
(* has one is one of the next length, too.                                 *)

Pairs(n) == (0..n) \X (0..n)
Gap(p) == IF p[1] < p[2] THEN p[2] - p[1] ELSE 0

Look(data, ts, b, p) ==
    LET lo == p[1]
        hi == p[2]
        mid == (lo + hi) \div 2
        start == IF mid = 0 THEN 0 ELSE LineEnd(data, mid)
        end == LineEnd(data, start)
    IN  IF lo >= hi THEN lo
        ELSE IF end \in Ends(data) /\ start = end - 2 /\ data[end].att.ts < ts
        THEN IF end <= mid THEN lo ELSE b[<<end, hi>>]
        ELSE b[<<lo, mid>>]

LEMMA BisectLooks ==
  ASSUME NEW data, NEW ts
  PROVE  Bisect(data, ts) =
           (CHOOSE b : b = [p \in Pairs(Len(data)) |-> Look(data, ts, b, p)])[<<0, Len(data)>>]
BY DEF Bisect, Look, Pairs

(* What a step answers: the beginning of its gap, or what it finds in a    *)
(* smaller one, behind a line of an earlier time or with the same          *)
(* beginning.                                                              *)
LEMMA LookIs ==
  ASSUME NEW data \in Seq(Piece), NEW ts, NEW p \in Pairs(Len(data)), NEW b, NEW c,
         \A q \in Pairs(Len(data)) : Gap(q) < Gap(p) => b[q] = c[q]
  PROVE  /\ Look(data, ts, b, p) = Look(data, ts, c, p)
         /\ \/ Look(data, ts, b, p) = p[1]
            \/ \E q \in Pairs(Len(data)) :
                 /\ Gap(q) < Gap(p) /\ Look(data, ts, b, p) = b[q]
                 /\ \/ q[1] = p[1]
                    \/ q[1] \in Ends(data) /\ data[q[1]].att.ts < ts
<1> DEFINE n == Len(data)
           lo == p[1]
           hi == p[2]
           mid == (lo + hi) \div 2
           start == IF mid = 0 THEN 0 ELSE LineEnd(data, mid)
           end == LineEnd(data, start)
<1>1. n \in Nat /\ lo \in 0..n /\ hi \in 0..n /\ Gap(p) = IF lo < hi THEN hi - lo ELSE 0
  BY DEF Pairs, Gap
<1>2. CASE lo >= hi
  BY <1>2 DEF Look
<1>3. CASE lo < hi
  <2>1. mid \in 0..n /\ lo <= mid /\ mid < hi /\ mid \in Nat
    <3> HIDE DEF n, lo, hi
    <3> QED
      BY <1>1, <1>3
  <2>2. end \in 0..n
    <3> HIDE DEF n, mid
    <3>1. start \in Nat
      BY <1>1, <2>1, LineEndIs DEF n
    <3> HIDE DEF start
    <3> QED
      BY <1>1, <3>1, LineEndIs DEF n
  <2>3. <<lo, mid>> \in Pairs(n) /\ Gap(<<lo, mid>>) < Gap(p)
    <3> HIDE DEF n, lo, hi, mid
    <3> QED
      BY <1>1, <1>3, <2>1 DEF Pairs, Gap
  <2>4. end > mid => <<end, hi>> \in Pairs(n) /\ Gap(<<end, hi>>) < Gap(p)
    <3> HIDE DEF n, lo, hi, mid, end
    <3> QED
      BY <1>1, <1>3, <2>1, <2>2 DEF Pairs, Gap
  <2>5. CASE ~(end \in Ends(data) /\ start = end - 2 /\ data[end].att.ts < ts)
    <3>1. Look(data, ts, b, p) = b[<<lo, mid>>] /\ Look(data, ts, c, p) = c[<<lo, mid>>]
      BY <1>1, <1>3, <2>5 DEF Look
    <3> HIDE DEF mid
    <3>2. <<lo, mid>>[1] = lo
      OBVIOUS
    <3> QED
      BY <2>3, <3>1, <3>2
  <2>6. CASE end \in Ends(data) /\ start = end - 2 /\ data[end].att.ts < ts /\ end <= mid
    BY <1>1, <1>3, <2>6 DEF Look
  <2>7. CASE end \in Ends(data) /\ start = end - 2 /\ data[end].att.ts < ts /\ ~(end <= mid)
    <3>0. ~(lo >= hi)
      BY <1>1, <1>3
    <3>1. Look(data, ts, b, p) = b[<<end, hi>>] /\ Look(data, ts, c, p) = c[<<end, hi>>]
      BY <2>7, <3>0, Zenon DEF Look
    <3>2. end > mid
      BY <2>1, <2>2, <2>7
    <3>3. end \in Ends(data) /\ data[end].att.ts < ts
      BY <2>7
    <3> HIDE DEF end, mid
    <3>4. <<end, hi>>[1] = end
      OBVIOUS
    <3> QED
      BY <2>4, <3>1, <3>2, <3>3, <3>4
  <2> QED
    BY <2>5, <2>6, <2>7
<1> QED
  BY <1>1, <1>2, <1>3

LEMMA Bisects ==
  ASSUME NEW data \in Seq(Piece), NEW ts
  PROVE  \E b : /\ b = [p \in Pairs(Len(data)) |-> Look(data, ts, b, p)]
                /\ Bisect(data, ts) = b[<<0, Len(data)>>]
<1> DEFINE n == Len(data)
           Near(j) == {p \in Pairs(n) : Gap(p) <= j}
           Solves(b, j) == b = [p \in Near(j) |-> Look(data, ts, b, p)]
           K == {j \in 0..n : \E b : Solves(b, j)}
<1>1. n \in Nat /\ \A p \in Pairs(n) : Gap(p) \in 0..n
  BY DEF Pairs, Gap
<1>2. 0 \in K
  <2> DEFINE b == [p \in Near(0) |-> p[1]]
  <2>1. \A p \in Near(0) : Look(data, ts, b, p) = p[1]
    <3> SUFFICES ASSUME NEW p \in Near(0) PROVE Look(data, ts, b, p) = p[1]
      OBVIOUS
    <3>1. p[1] \in 0..n /\ p[2] \in 0..n /\ Gap(p) <= 0
      BY DEF Pairs
    <3>2. p[1] >= p[2]
      BY <1>1, <3>1 DEF Gap
    <3> QED
      BY <3>2 DEF Look
  <2>2. Solves(b, 0)
    BY <2>1
  <2> HIDE DEF b, Solves
  <2> QED
    BY <1>1, <2>2
<1>3. ASSUME NEW j \in K, j < n PROVE j + 1 \in K
  <2>1. PICK b : Solves(b, j)
    OBVIOUS
  <2> DEFINE c == [p \in Near(j + 1) |-> Look(data, ts, b, p)]
  <2>2. j \in Nat /\ j + 1 \in 0..n
    BY <1>1, <1>3
  <2>3. \A p \in Near(j) : p \in Near(j + 1) /\ c[p] = b[p]
    <3> SUFFICES ASSUME NEW p \in Near(j) PROVE p \in Near(j + 1) /\ c[p] = b[p]
      OBVIOUS
    <3>1. p \in Near(j + 1)
      BY <1>1, <2>2
    <3>2. b[p] = Look(data, ts, b, p)
      BY <2>1, Zenon
    <3> QED
      BY <3>1, <3>2
  <2>4. \A p \in Near(j + 1) : Look(data, ts, b, p) = Look(data, ts, c, p)
    <3> SUFFICES ASSUME NEW p \in Near(j + 1)
                 PROVE  Look(data, ts, b, p) = Look(data, ts, c, p)
      OBVIOUS
    <3>1. \A q \in Pairs(n) : Gap(q) < Gap(p) => b[q] = c[q]
      <4> SUFFICES ASSUME NEW q \in Pairs(n), Gap(q) < Gap(p) PROVE b[q] = c[q]
        OBVIOUS
      <4>1. q \in Near(j)
        BY <1>1, <2>2
      <4> QED
        BY <2>3, <4>1
    <3> HIDE DEF c
    <3> QED
      BY <3>1, LookIs
  <2>5. Solves(c, j + 1)
    BY <2>4
  <2> HIDE DEF c, Solves
  <2> QED
    BY <2>2, <2>5
<1>4. n \in K
  <2>1. K \subseteq Nat /\ K # {} /\ \A j \in K : j <= n
    <3> HIDE DEF Solves
    <3> QED
      BY <1>1, <1>2
  <2> HIDE DEF K
  <2>2. PICK j \in K : \A k \in K : k <= j
    BY <1>1, <2>1, Greatest
  <2>3. j \in Nat /\ j <= n
    BY <2>1, <2>2
  <2>4. ~(j < n)
    BY <1>3, <2>2, <2>3
  <2> QED
    BY <1>1, <2>3, <2>4
<1>5. \E b : b = [p \in Pairs(n) |-> Look(data, ts, b, p)]
  <2>1. Near(n) = Pairs(n)
    BY <1>1
  <2>2. PICK b : Solves(b, n)
    BY <1>4
  <2> QED
    BY <2>1, <2>2
<1> DEFINE d == CHOOSE b : b = [p \in Pairs(n) |-> Look(data, ts, b, p)]
<1>6. d = [p \in Pairs(n) |-> Look(data, ts, d, p)]
  BY <1>5, Zenon
<1>7. Bisect(data, ts) = d[<<0, n>>]
  BY BisectLooks
<1> QED
  BY <1>6, <1>7

(* Whatever the pieces are, the bisection does not pass a line of the time *)
(* that is sought.                                                         *)
LEMMA BisectBefore ==
  ASSUME NEW data \in Seq(Piece), Sorted(data), NEW e \in Ends(data)
  PROVE  Bisect(data, data[e].att.ts) <= e - 2
<1> DEFINE n == Len(data)
           ts == data[e].att.ts
<1>1. PICK b : /\ b = [p \in Pairs(n) |-> Look(data, ts, b, p)]
               /\ Bisect(data, ts) = b[<<0, n>>]
  BY Bisects
<1> DEFINE Missed == {Gap(p) : p \in {q \in Pairs(n) : q[1] <= e - 2 /\ ~(b[q] <= e - 2)}}
<1>2. n \in Nat /\ e \in 2..n /\ \A p \in Pairs(n) : Gap(p) \in Nat
  BY EndsAre DEF Pairs, Gap
<1>3. Missed = {}
  <2> SUFFICES ASSUME Missed # {} PROVE FALSE
    OBVIOUS
  <2>1. Missed \subseteq Nat
    BY <1>2
  <2>2. PICK k \in Missed : \A h \in Missed : k <= h
    <3> HIDE DEF Missed
    <3> QED
      BY <2>1, Least
  <2>3. PICK p \in Pairs(n) : p[1] <= e - 2 /\ ~(b[p] <= e - 2) /\ Gap(p) = k
    BY <2>2
  <2>4. b[p] = Look(data, ts, b, p)
    BY <1>1, Zenon
  <2>5. b[p] # p[1]
    BY <2>3
  <2> HIDE DEF ts
  <2>6. PICK q \in Pairs(n) : /\ Gap(q) < Gap(p) /\ b[p] = b[q]
                              /\ \/ q[1] = p[1]
                                 \/ q[1] \in Ends(data) /\ data[q[1]].att.ts < ts
    BY <2>4, <2>5, LookIs
  <2>7. q[1] <= e - 2
    <3>1. CASE q[1] \in Ends(data) /\ data[q[1]].att.ts < ts
      <4> DEFINE i == q[1]
      <4>1. i \in 2..n /\ data[i].half = 2 /\ data[e - 1].half = 1
        BY <3>1, EndsAre
      <4>2. ts \in Nat /\ data[i].att.ts \in Nat /\ data[i].att.ts < ts
        BY <3>1, EndsAre DEF ts
      <4> HIDE DEF i
      <4>3. ~(e <= i)
        <5>1. e <= i => data[e].att.ts <= data[i].att.ts
          BY <1>2, <4>1 DEF Sorted
        <5>2. data[e].att.ts = ts
          BY DEF ts
        <5> QED
          BY <4>2, <5>1, <5>2
      <4>4. i # e - 1
        BY <4>1
      <4> QED
        BY <1>2, <4>1, <4>3, <4>4 DEF i
    <3> QED
      BY <2>3, <2>6, <3>1
  <2>8. Gap(q) \in Missed
    BY <2>3, <2>6, <2>7
  <2> HIDE DEF Missed
  <2> QED
    BY <1>2, <2>2, <2>3, <2>6, <2>8
<1>4. <<0, n>> \in Pairs(n) /\ <<0, n>>[1] <= e - 2
  BY <1>2 DEF Pairs
<1>5. b[<<0, n>>] <= e - 2
  BY <1>3, <1>4
<1> QED
  BY <1>1, <1>5

-----------------------------------------------------------------------------
(* What was signed can be audited.  The feed must neither run back nor     *)
(* restate a price: with FeedMay = {"restate"} two lines of one market     *)
(* have the same time, and the first of them is the one that is found.     *)

(* The lines, whatever is before them. *)
Written(data) ==
    {data[i].att : i \in {j \in 2..Len(data) :
        data[j].half = 2 /\ data[j - 1] = [data[j] EXCEPT !.half = 1]}}

KeptInv ==
    \A a \in signed : \/ a \in Written(file)
                      \/ \E k \in 1..Len(closed) : a \in Written(closed[k].data)

(* What a piece is of. *)
Known(x) ==
    \/ \E i \in 1..Len(file) : x = file[i].att
    \/ \E k \in 1..Len(closed) : \E i \in 1..Len(closed[k].data) :
         x = closed[k].data[i].att

PriceInv ==
    /\ \A x, y : Known(x) /\ Known(y) /\ x.ts = y.ts => x.price = y.price
    /\ \A x : Known(x) =>
         /\ x.ts = feed.ts => x.price = feed.price
         /\ held # NotRead /\ x.ts = held.ts => x.price = held.price
    /\ held # NotRead /\ held.ts = feed.ts => held.price = feed.price

LEMMA InitAudit == Init => KeptInv /\ PriceInv
<1> SUFFICES ASSUME Init PROVE KeptInv /\ PriceInv
  OBVIOUS
<1>1. signed = {} /\ held = NotRead /\ Len(file) = 0 /\ Len(closed) = 0
  BY DEF Init
<1> QED
  BY <1>1 DEF KeptInv, PriceInv, Known

LEMMA WrittenGrows ==
  ASSUME NEW s \in Seq(Piece), NEW t \in Seq(Piece)
  PROVE  Written(s) \subseteq Written(s \o t)
<1> DEFINE u == s \o t
<1>1. /\ Len(u) = Len(s) + Len(t) /\ Len(s) \in Nat /\ Len(t) \in Nat
      /\ \A i \in 1..Len(s) : u[i] = s[i]
  BY Joined
<1> HIDE DEF u
<1>2. \A i \in 2..Len(s) : i \in 2..Len(u) /\ u[i] = s[i] /\ u[i - 1] = s[i - 1]
  BY <1>1
<1>3. Written(s) \subseteq Written(u)
  BY <1>2 DEF Written
<1> QED
  BY <1>3 DEF u

LEMMA WrittenLast ==
  ASSUME NEW s \in Seq(Piece), NEW a \in Attestations
  PROVE  /\ a \in Written(s \o Line(a))
         /\ Len(s) >= 1 /\ s[Len(s)] = [att |-> a, half |-> 1]
              => a \in Written(s \o <<[att |-> a, half |-> 2]>>)
<1>1. ASSUME NEW u, NEW n \in 2..Len(u), u[n] = [att |-> a, half |-> 2],
             u[n - 1] = [att |-> a, half |-> 1]
      PROVE  a \in Written(u)
  <2>1. u[n].half = 2 /\ u[n].att = a /\ u[n - 1] = [u[n] EXCEPT !.half = 1]
    BY <1>1
  <2> QED
    BY <2>1 DEF Written
<1>2. a \in Written(s \o Line(a))
  <2> DEFINE l == Line(a)
             u == s \o l
             n == Len(s) + 2
  <2>1. /\ l \in Seq(Piece) /\ Len(l) = 2
        /\ l[1] = [att |-> a, half |-> 1] /\ l[2] = [att |-> a, half |-> 2]
    BY Lines
  <2> HIDE DEF l
  <2>2. /\ Len(u) = Len(s) + Len(l) /\ Len(s) \in Nat
        /\ \A i \in 1..Len(l) : u[Len(s) + i] = l[i]
    <3>1. l \in Seq(Piece)
      BY <2>1
    <3> QED
      BY <3>1, Joined
  <2>3. 1 \in 1..Len(l) /\ 2 \in 1..Len(l)
    BY <2>1
  <2>4. u[Len(s) + 1] = l[1] /\ u[Len(s) + 2] = l[2]
    BY <2>2, <2>3
  <2>5. n \in 2..Len(u) /\ n - 1 = Len(s) + 1
    BY <2>1, <2>2
  <2> HIDE DEF u
  <2>6. u[n] = l[2] /\ u[n - 1] = l[1]
    BY <2>4, <2>5
  <2> HIDE DEF n
  <2>7. a \in Written(u)
    BY <1>1, <2>1, <2>5, <2>6
  <2> QED
    BY <2>7 DEF u, l
<1>3. ASSUME Len(s) >= 1, s[Len(s)] = [att |-> a, half |-> 1]
      PROVE  a \in Written(s \o <<[att |-> a, half |-> 2]>>)
  <2> DEFINE p == [att |-> a, half |-> 2]
             l == <<p>>
             u == s \o l
             n == Len(s) + 1
  <2>1. l \in Seq(Piece) /\ Len(l) = 1 /\ l[1] = p
    BY DEF Piece
  <2> HIDE DEF l
  <2>2. /\ Len(u) = Len(s) + Len(l) /\ Len(s) \in Nat
        /\ \A i \in 1..Len(s) : u[i] = s[i]
        /\ \A i \in 1..Len(l) : u[Len(s) + i] = l[i]
    <3>1. l \in Seq(Piece)
      BY <2>1
    <3> QED
      BY <3>1, Joined
  <2>3. 1 \in 1..Len(l) /\ Len(s) \in 1..Len(s)
    BY <1>3, <2>1, <2>2
  <2>4. u[Len(s)] = s[Len(s)] /\ u[Len(s) + 1] = p
    BY <2>1, <2>2, <2>3
  <2>5. n \in 2..Len(u) /\ n - 1 = Len(s)
    BY <1>3, <2>1, <2>2
  <2> HIDE DEF u
  <2>6. u[n] = p /\ u[n - 1] = [att |-> a, half |-> 1]
    BY <1>3, <2>4, <2>5
  <2> HIDE DEF n
  <2>7. a \in Written(u)
    BY <1>1, <2>5, <2>6
  <2> QED
    BY <2>7 DEF u, l, p
<1> QED
  BY <1>2, <1>3

(* A file grows by pieces of one line, which is signed or is not yet.      *)
LEMMA AuditGrows ==
  ASSUME TypeOK, KeptInv, PriceInv, NEW t \in Seq(Piece), NEW a \in Attestations,
         file' = file \o t, UNCHANGED <<closed, feed>>, held' \in {held, NotRead},
         \A i \in 1..Len(t) : t[i].att = a,
         signed' = signed \/ (signed' = signed \cup {a} /\ a \in Written(file')),
         \/ Known(a)
         \/ held = NotRead /\ a.ts = feed.ts /\ a.price = feed.price
         \/ held # NotRead /\ a.ts = held.ts /\ a.price = held.price
  PROVE  KeptInv' /\ PriceInv'
<1>0. /\ file \in Seq(Piece) /\ Len(file) \in Nat /\ Len(t) \in Nat
      /\ \A i \in 1..Len(file) : file'[i] = file[i]
      /\ \A i \in 1..Len(t) : file'[Len(file) + i] = t[i]
      /\ \A i \in 1..Len(file') : i \in 1..Len(file) \/ i - Len(file) \in 1..Len(t)
  BY Joined DEF TypeOK
<1>1. KeptInv'
  <2>1. Written(file) \subseteq Written(file')
    BY <1>0, WrittenGrows
  <2> SUFFICES ASSUME NEW x \in signed'
               PROVE  \/ x \in Written(file')
                      \/ \E k \in 1..Len(closed') : x \in Written(closed'[k].data)
    BY DEF KeptInv, Written
  <2>2. CASE x \in signed
    BY <2>1, <2>2 DEF KeptInv
  <2> QED
    BY <2>2
<1>2. \A x : Known(x)' => Known(x) \/ x = a
  <2> SUFFICES ASSUME NEW x, Known(x)' PROVE Known(x) \/ x = a
    OBVIOUS
  <2>1. CASE \E i \in 1..Len(file') : x = file'[i].att
    <3>1. PICK i \in 1..Len(file') : x = file'[i].att
      BY <2>1
    <3>2. CASE i \in 1..Len(file)
      BY <1>0, <3>1, <3>2 DEF Known
    <3>3. CASE i - Len(file) \in 1..Len(t)
      <4> DEFINE j == i - Len(file)
      <4>1. file'[Len(file) + j] = t[j] /\ t[j].att = a /\ Len(file) + j = i
        BY <1>0, <3>1, <3>3
      <4> QED
        BY <3>1, <4>1
    <3> QED
      BY <1>0, <3>2, <3>3
  <2>2. CASE \E k \in 1..Len(closed) : \E i \in 1..Len(closed[k].data) :
               x = closed[k].data[i].att
    BY <2>2 DEF Known
  <2> QED
    BY <2>1, <2>2 DEF Known
<1>3. /\ a.ts = feed.ts => a.price = feed.price
      /\ held # NotRead /\ a.ts = held.ts => a.price = held.price
      /\ \A x : Known(x) /\ x.ts = a.ts => x.price = a.price
  BY DEF PriceInv
<1>4. held' # NotRead => held' = held /\ held # NotRead
  OBVIOUS
<1>5. \A x, y : Known(x)' /\ Known(y)' /\ x.ts = y.ts => x.price = y.price
  BY <1>2, <1>3 DEF PriceInv
<1>6. \A x : Known(x)' =>
        /\ x.ts = feed.ts => x.price = feed.price
        /\ held' # NotRead /\ x.ts = held'.ts => x.price = held'.price
  BY <1>2, <1>3, <1>4 DEF PriceInv
<1>7. held' # NotRead /\ held'.ts = feed.ts => held'.price = feed.price
  BY <1>4 DEF PriceInv
<1>8. PriceInv'
  BY <1>5, <1>6, <1>7 DEF PriceInv
<1> QED
  BY <1>1, <1>8

LEMMA AuditStep ==
  ASSUME TypeOK, TypeOK', OrderInv, KeptInv, PriceInv, [Next]_vars, FeedMay = {}
  PROVE  KeptInv' /\ PriceInv'
<1>0. /\ file \in Seq(Piece) /\ Len(file) \in Nat /\ Len(closed) \in Nat
      /\ feed.ts \in Nat /\ held.ts \in Nat
      /\ held # NotRead => held.ts <= feed.ts
      /\ Past(file) /\ \A k \in 1..Len(closed) : Past(closed[k].data)
  BY NumberTypes DEF TypeOK, OrderInv
<1>1. CASE \E m \in Markets : Sign(m)
  <2>1. PICK m \in Markets : Sign(m)
    BY <1>1
  <2> DEFINE a == Signature(m)
             t == Line(a)
  <2>2. /\ held # NotRead /\ file' = file \o t /\ UNCHANGED <<closed, feed, held>>
        /\ signed' = signed \cup {a} /\ a.ts = held.ts /\ a.price = held.price
    BY <2>1 DEF Sign, Signs, Signature
  <2>3. a \in Attestations
    BY <2>2, SignatureType
  <2> HIDE DEF a
  <2>4. t \in Seq(Piece) /\ (\A i \in 1..Len(t) : t[i].att = a) /\ a \in Written(file')
    <3>1. \A i \in 1..Len(Line(a)) : Line(a)[i].att = a
      BY <2>3, Lines DEF Line
    <3> QED
      BY <1>0, <2>2, <2>3, <3>1, Lines, WrittenLast
  <2> HIDE DEF t
  <2> QED
    BY <2>2, <2>3, <2>4, AuditGrows
<1>2. CASE \E m \in Markets : SignCut(m)
  <2>1. PICK m \in Markets : SignCut(m)
    BY <1>2
  <2> DEFINE a == Signature(m)
             t == HalfLine(a)
  <2>2. /\ held # NotRead /\ file' = file \o t /\ UNCHANGED <<closed, feed, signed>>
        /\ held' \in {held, NotRead} /\ a.ts = held.ts /\ a.price = held.price
    BY <2>1 DEF SignCut, Signs, Signature
  <2>3. a \in Attestations
    BY <2>2, SignatureType
  <2> HIDE DEF a
  <2>4. t \in Seq(Piece) /\ (\A i \in 1..Len(t) : t[i].att = a)
    <3>1. \A i \in 1..Len(HalfLine(a)) : HalfLine(a)[i].att = a
      BY <2>3, Lines DEF HalfLine
    <3> QED
      BY <2>3, <3>1, Lines
  <2> HIDE DEF t
  <2> QED
    BY <2>2, <2>3, <2>4, AuditGrows
<1>3. CASE \E m \in Markets : SignerBegins(m)
  <2>1. PICK m \in Markets : SignerBegins(m)
    BY <1>3
  <2> DEFINE a == [market |-> m, ts |-> feed.ts, price |-> feed.price]
  <2>2. a \in Attestations /\ a.ts = feed.ts /\ a.price = feed.price
    BY DEF TypeOK, Observation, Attestations
  <2>3. /\ UNCHANGED <<closed, feed, held, signed>> /\ mode = "signer"
        /\ file' = file \o Line(a) \/ file' = file \o HalfLine(a)
    BY <2>1 DEF SignerBegins, Signer
  <2>4. held = NotRead
    BY <2>3 DEF OrderInv
  <2> HIDE DEF a
  <2>5. PICK t \in Seq(Piece) : file' = file \o t /\ \A i \in 1..Len(t) : t[i].att = a
    <3>1. \A i \in 1..Len(Line(a)) : Line(a)[i].att = a
      BY <2>2, Lines DEF Line
    <3>2. \A i \in 1..Len(HalfLine(a)) : HalfLine(a)[i].att = a
      BY <2>2, Lines DEF HalfLine
    <3> QED
      BY <2>2, <2>3, <3>1, <3>2, Lines
  <2> QED
    BY <2>2, <2>3, <2>4, <2>5, AuditGrows
<1>4. CASE SignerEnds
  <2> DEFINE a == file[Len(file)].att
             p == [att |-> a, half |-> 2]
             t == <<p>>
  <2>1. /\ file' = Append(file, p) /\ file # <<>> /\ file[Len(file)].half = 1
        /\ UNCHANGED <<closed, feed, held>> /\ signed' = signed \cup {a}
    BY <1>4 DEF SignerEnds, Signer, HalfWritten
  <2>2. Len(file) \in 1..Len(file) /\ Len(file) >= 1
    BY <1>0, <2>1, EmptySeq
  <2>3. a \in Attestations /\ p \in Piece /\ file[Len(file)] \in Piece
    BY <1>0, <2>2, PieceTimes DEF Piece
  <2>4. file[Len(file)] = [att |-> a, half |-> 1]
    BY <2>1, <2>3 DEF Piece
  <2>5. Known(a)
    BY <2>2 DEF Known
  <2>6. a \in Written(file \o t)
    <3> HIDE DEF a
    <3> QED
      BY <1>0, <2>2, <2>3, <2>4, WrittenLast
  <2>7. file' = file \o t /\ t \in Seq(Piece)
    <3> HIDE DEF p
    <3> QED
      BY <1>0, <2>1, <2>3, AppendIsConcat
  <2>8. \A i \in 1..Len(t) : t[i].att = a
    <3> HIDE DEF a
    <3> QED
      OBVIOUS
  <2> HIDE DEF a, t
  <2> QED
    BY <2>1, <2>3, <2>5, <2>6, <2>7, <2>8, AuditGrows
<1>5. ASSUME \A x : Known(x)' => Known(x), UNCHANGED feed, held' \in {held, NotRead, feed}
      PROVE  PriceInv'
  <2>1. /\ held' # NotRead /\ held' = held => held # NotRead
        /\ \A x : Known(x)' => Known(x)
    BY <1>5
  <2>2. \A x, y : Known(x)' /\ Known(y)' /\ x.ts = y.ts => x.price = y.price
    BY <2>1 DEF PriceInv
  <2>3. \A x : Known(x)' =>
          /\ x.ts = feed.ts => x.price = feed.price
          /\ held' # NotRead /\ x.ts = held'.ts => x.price = held'.price
    BY <1>5, <2>1 DEF PriceInv
  <2>4. held' # NotRead /\ held'.ts = feed.ts => held'.price = feed.price
    BY <1>5 DEF PriceInv
  <2> QED
    BY <1>5, <2>2, <2>3, <2>4 DEF PriceInv
<1>6. CASE RotateRename
  <2> DEFINE r == [data |-> file, stamp |-> feed.ts, sha |-> <<>>]
             R == [data : Seq(Piece), stamp : 1..MaxTime, sha : Seq(Seq(Piece))]
             n == Len(closed) + 1
  <2>1. /\ closed' = Append(closed, r) /\ file' = <<>> /\ r.data = file
        /\ UNCHANGED <<feed, held, signed>>
    BY <1>6 DEF RotateRename, Closed
  <2>2. r \in R /\ closed \in Seq(R)
    BY <1>0, NumberTypes DEF TypeOK
  <2> HIDE DEF r, R
  <2>3. /\ Len(closed') = n /\ closed'[n].data = file /\ n \in 1..n
        /\ \A k \in 1..Len(closed) : closed'[k] = closed[k] /\ k \in 1..n
    BY <1>0, <2>1, <2>2, AppendProperties
  <2>4. \A k \in 1..n : k \in 1..Len(closed) \/ k = n
    BY <1>0
  <2>5. Len(file') = 0
    BY <2>1
  <2> HIDE DEF n
  <2>6. KeptInv'
    <3> SUFFICES ASSUME NEW a \in signed
                 PROVE  \E k \in 1..n : a \in Written(closed'[k].data)
      BY <2>1, <2>3 DEF KeptInv, Written
    <3> QED
      BY <2>3 DEF KeptInv
  <2>7. \A x : Known(x)' => Known(x)
    <3> SUFFICES ASSUME NEW x, Known(x)' PROVE Known(x)
      OBVIOUS
    <3>1. \E k \in 1..n : \E i \in 1..Len(closed'[k].data) : x = closed'[k].data[i].att
      BY <2>3, <2>5 DEF Known
    <3>2. PICK k \in 1..n : \E i \in 1..Len(closed'[k].data) : x = closed'[k].data[i].att
      BY <3>1
    <3>3. CASE k = n
      BY <2>3, <3>2, <3>3 DEF Known
    <3>4. CASE k \in 1..Len(closed)
      BY <2>3, <3>2, <3>4 DEF Known
    <3> QED
      BY <2>4, <3>3, <3>4
  <2> QED
    BY <1>5, <2>1, <2>6, <2>7
<1>7. CASE RotateSha
  <2>1. /\ closed' = [closed EXCEPT ![Len(closed)].sha = Digest]
        /\ UNCHANGED <<file, feed, held, signed>>
    BY <1>7 DEF RotateSha
  <2>2. Len(closed') = Len(closed)
    <3>1. DOMAIN closed' = DOMAIN closed
      BY <2>1
    <3>2. DOMAIN closed' = 1..Len(closed') /\ Len(closed') \in Nat
      BY LenProperties DEF TypeOK
    <3> QED
      BY <1>0, <3>1, <3>2, ClosedType, SameLength
  <2>3. \A k \in 1..Len(closed) : closed'[k].data = closed[k].data
    BY <2>1, ClosedType
  <2>4. KeptInv'
    BY <2>1, <2>2, <2>3 DEF KeptInv, Written
  <2>5. \A x : Known(x)' => Known(x)
    BY <2>1, <2>2, <2>3 DEF Known
  <2> QED
    BY <1>5, <2>1, <2>4, <2>5
<1>8. CASE FeedMoves
  <2>1. /\ feed'.ts = feed.ts + 1 /\ UNCHANGED <<held, file, closed, signed>>
    BY <1>0, <1>8 DEF FeedMoves, disk
  <2>2. KeptInv'
    BY <2>1 DEF KeptInv, Written
  <2>3. \A x : Known(x)' => Known(x)
    BY <2>1 DEF Known
  <2>4. \A x : Known(x) => x.ts \in Nat /\ x.ts <= feed.ts
    <3> SUFFICES ASSUME NEW x, Known(x) PROVE x.ts \in Nat /\ x.ts <= feed.ts
      OBVIOUS
    <3>1. CASE \E i \in 1..Len(file) : x = file[i].att
      BY <1>0, <3>1, PieceTimes DEF Past, NoLater
    <3>2. CASE \E k \in 1..Len(closed) : \E i \in 1..Len(closed[k].data) :
                 x = closed[k].data[i].att
      <4>1. PICK k \in 1..Len(closed) : \E i \in 1..Len(closed[k].data) :
                   x = closed[k].data[i].att
        BY <3>2
      <4>2. closed[k].data \in Seq(Piece)
        BY ClosedType
      <4> QED
        BY <1>0, <4>1, <4>2, PieceTimes DEF Past, NoLater
    <3> QED
      BY <3>1, <3>2 DEF Known
  <2>5. \A x : Known(x) => x.ts # feed'.ts
    BY <1>0, <2>1, <2>4
  <2>6. held # NotRead => held.ts # feed'.ts
    BY <1>0, <2>1
  <2>7. /\ \A x, y : Known(x)' /\ Known(y)' /\ x.ts = y.ts => x.price = y.price
        /\ \A x : Known(x)' => (held # NotRead /\ x.ts = held.ts => x.price = held.price)
    BY <2>3 DEF PriceInv
  <2> QED
    BY <2>1, <2>2, <2>3, <2>5, <2>6, <2>7 DEF PriceInv
<1>9. CASE Refresh \/ RotateChain \/ Follow \/ Crash \/ Load \/ UNCHANGED vars
  <2>1. /\ UNCHANGED <<file, closed, feed, signed>> /\ held' \in {held, NotRead, feed}
    BY <1>9 DEF Refresh, RotateChain, Follow, Crash, Load, disk, vars
  <2>2. KeptInv'
    BY <2>1 DEF KeptInv, Written
  <2>3. \A x : Known(x)' => Known(x)
    BY <2>1 DEF Known
  <2> QED
    BY <1>5, <2>1, <2>2, <2>3
<1> QED
  BY <1>1, <1>2, <1>3, <1>4, <1>6, <1>7, <1>8, <1>9 DEF Next

(* A line is read, or it was written behind a piece of one.                *)
LEMMA ReadOrSpoilt ==
  ASSUME NEW data \in Seq(Piece)
  PROVE  Written(data) \subseteq Whole(data) \cup Spoilt(data)
<1> SUFFICES ASSUME NEW i \in 2..Len(data), data[i].half = 2,
                    data[i - 1] = [data[i] EXCEPT !.half = 1]
             PROVE  data[i].att \in Whole(data) \cup Spoilt(data)
  BY DEF Written
<1>1. CASE i > 2 /\ data[i - 2].half = 1
  <2>1. i \in 3..Len(data)
    BY <1>1
  <2> QED
    BY <1>1, <2>1 DEF Spoilt
<1>2. CASE ~(i > 2 /\ data[i - 2].half = 1)
  <2>1. i > 2 => i - 2 \in 1..Len(data)
    OBVIOUS
  <2>2. i > 2 => data[i - 2].half = 2
    BY <1>2, <2>1, PieceTimes DEF Piece
  <2>3. i \in Ends(data)
    BY <2>2 DEF Ends
  <2> QED
    BY <2>3 DEF Whole
<1> QED
  BY <1>1, <1>2

(* The scan finds a line of the market and the time, if there is one.      *)
LEMMA ScanIs ==
  ASSUME NEW data \in Seq(Piece), Sorted(data), NEW m, NEW ts
  PROVE  /\ \/ ScanPath(data, m, ts) = Nothing
            \/ \E i \in Ends(data) : /\ ScanPath(data, m, ts) = data[i].att
                                     /\ data[i].att.market = m /\ data[i].att.ts = ts
         /\ \A i \in Ends(data) : data[i].att.market = m /\ data[i].att.ts = ts
              => ScanPath(data, m, ts) # Nothing
<1> DEFINE from == Bisect(data, ts)
           read == {i \in Ends(data) : i - 2 >= from}
           later == {i \in read : data[i].att.ts > ts}
           hits == {i \in read : /\ data[i].att.market = m /\ data[i].att.ts = ts
                                 /\ \A j \in later : i < j}
<1>1. ScanPath(data, m, ts) = IF hits = {} THEN Nothing ELSE data[Lowest(hits)].att
  BY DEF ScanPath
<1>2. hits \subseteq Ends(data) /\ hits \subseteq Nat
      /\ \A i \in hits : data[i].att.market = m /\ data[i].att.ts = ts
  BY EndsAre
<1>3. ASSUME NEW i \in Ends(data), data[i].att.market = m, data[i].att.ts = ts
      PROVE  hits # {}
  <2>1. from <= i - 2
    BY <1>3, BisectBefore
  <2>2. i \in read
    <3>1. i \in Nat
      BY EndsAre
    <3>2. i - 2 >= from
      BY <2>1
    <3> HIDE DEF from
    <3> QED
      BY <3>2
  <2>3. \A j \in later : i < j
    <3> SUFFICES ASSUME NEW j \in Ends(data), data[j].att.ts > ts PROVE i < j
      OBVIOUS
    <3>1. /\ i \in 1..Len(data) /\ j \in 1..Len(data) /\ i \in Nat /\ j \in Nat
          /\ data[i].att.ts \in Nat /\ data[j].att.ts \in Nat
      BY EndsAre
    <3>2. ~(j <= i)
      BY <1>3, <3>1 DEF Sorted
    <3> QED
      BY <3>1, <3>2
  <2>4. i \in hits
    BY <1>3, <2>2, <2>3
  <2> QED
    BY <2>4
<1> HIDE DEF hits
<1>4. hits # {} => Lowest(hits) \in hits
  BY <1>2, Least
<1>5. hits # {} => /\ Lowest(hits) \in Ends(data)
                   /\ data[Lowest(hits)].att.market = m /\ data[Lowest(hits)].att.ts = ts
  BY <1>2, <1>4
<1>6. \A i \in Ends(data) : data[i].att # Nothing
  BY EndsAre, Apart
<1> QED
  BY <1>1, <1>3, <1>5, <1>6

LEMMA AuditShows ==
  ASSUME TypeOK, OrderInv, KeptInv, PriceInv
  PROVE  Auditable
<1> DEFINE spoilt == Spoilt(file) \cup UNION {Spoilt(closed[k].data) : k \in DOMAIN closed}
<1> SUFFICES ASSUME NEW a \in signed, a \notin spoilt PROVE At(a.market, a.ts) = a
  BY DEF Auditable
<1> DEFINE m == a.market
           ts == a.ts
           n == Len(closed)
<1>0. /\ file \in Seq(Piece) /\ Sorted(file) /\ n \in Nat /\ DOMAIN closed = 1..n
      /\ \A k \in 1..n : closed[k].data \in Seq(Piece) /\ Sorted(closed[k].data)
      /\ a \in Attestations
  BY ClosedType, NumberTypes DEF TypeOK, OrderInv
<1>1. \/ a \in Whole(file)
      \/ \E k \in 1..n : a \in Whole(closed[k].data)
  <2>1. CASE a \in Written(file)
    BY <1>0, <2>1, ReadOrSpoilt
  <2>2. CASE \E k \in 1..n : a \in Written(closed[k].data)
    <3>1. PICK k \in 1..n : a \in Written(closed[k].data)
      BY <2>2
    <3>2. a \notin Spoilt(closed[k].data)
      BY <1>0
    <3> QED
      BY <1>0, <3>1, <3>2, ReadOrSpoilt
  <2> QED
    BY <2>1, <2>2 DEF KeptInv
<1>2. \A x : /\ x \in Whole(file) => Known(x) /\ x \in Attestations
             /\ \A k \in 1..n : x \in Whole(closed[k].data) => Known(x) /\ x \in Attestations
  <2>1. ASSUME NEW data \in Seq(Piece), NEW x \in Whole(data)
        PROVE  x \in Attestations /\ \E i \in 1..Len(data) : x = data[i].att
    <3>1. PICK i \in Ends(data) : x = data[i].att
      BY DEF Whole
    <3> QED
      BY <3>1, EndsAre
  <2>2. \A x \in Whole(file) : Known(x) /\ x \in Attestations
    BY <1>0, <2>1 DEF Known
  <2>3. \A k \in 1..n : \A x \in Whole(closed[k].data) : Known(x) /\ x \in Attestations
    BY <1>0, <2>1 DEF Known
  <2> QED
    BY <2>2, <2>3
<1>3. ASSUME NEW x, x \in Whole(file) \/ \E k \in 1..n : x \in Whole(closed[k].data),
             x.market = m, x.ts = ts
      PROVE  x = a
  <2>1. Known(a) /\ Known(x) /\ x \in Attestations
    BY <1>1, <1>2, <1>3
  <2>2. x.price = a.price
    BY <1>3, <2>1 DEF PriceInv
  <2> QED
    BY <1>0, <1>3, <2>1, <2>2 DEF Attestations
<1>4. ScanPath(file, m, ts) = Nothing \/ ScanPath(file, m, ts) = a
  <2>1. CASE \E i \in Ends(file) : /\ ScanPath(file, m, ts) = file[i].att
                                   /\ file[i].att.market = m /\ file[i].att.ts = ts
    BY <1>3, <2>1 DEF Whole
  <2> HIDE DEF m, ts
  <2> QED
    BY <1>0, <2>1, ScanIs
<1>5. a \in Whole(file) => ScanPath(file, m, ts) # Nothing
  <2> SUFFICES ASSUME a \in Whole(file) PROVE ScanPath(file, m, ts) # Nothing
    OBVIOUS
  <2>1. PICK i \in Ends(file) : a = file[i].att
    BY DEF Whole
  <2> QED
    BY <1>0, <2>1, ScanIs
<1>6. \A k \in 1..n : /\ ScanPath(closed[k].data, m, ts) \in {Nothing, a}
                      /\ a \in Whole(closed[k].data) => ScanPath(closed[k].data, m, ts) # Nothing
  <2> SUFFICES ASSUME NEW k \in 1..n
               PROVE  /\ ScanPath(closed[k].data, m, ts) \in {Nothing, a}
                      /\ a \in Whole(closed[k].data)
                           => ScanPath(closed[k].data, m, ts) # Nothing
    OBVIOUS
  <2> DEFINE data == closed[k].data
  <2>0. data \in Seq(Piece) /\ Sorted(data)
    BY <1>0
  <2>1. ASSUME NEW i \in Ends(data), ScanPath(data, m, ts) = data[i].att,
               data[i].att.market = m, data[i].att.ts = ts
        PROVE  ScanPath(data, m, ts) = a
    <3>1. data[i].att \in Whole(closed[k].data)
      BY DEF Whole
    <3> QED
      BY <1>3, <2>1, <3>1
  <2>2. a \in Whole(data) => \E i \in Ends(data) : a = data[i].att
    BY DEF Whole
  <2>3. a \in Whole(data) => \E i \in Ends(data) : data[i].att.market = m /\ data[i].att.ts = ts
    BY <2>2
  <2> HIDE DEF data, m, ts
  <2>4. ScanPath(data, m, ts) \in {Nothing, a}
    BY <2>0, <2>1, ScanIs
  <2>5. a \in Whole(data) => ScanPath(data, m, ts) # Nothing
    BY <2>0, <2>3, ScanIs
  <2> QED
    BY <2>4, <2>5 DEF data
<1> DEFINE found == {k \in 1..n : ScanPath(closed[k].data, m, ts) # Nothing}
<1>7. At(m, ts) = IF ScanPath(file, m, ts) # Nothing THEN ScanPath(file, m, ts)
                  ELSE IF found = {} THEN Nothing
                  ELSE ScanPath(closed[Lowest(found)].data, m, ts)
  BY DEF At
<1>8. CASE ScanPath(file, m, ts) # Nothing
  BY <1>4, <1>7, <1>8
<1>9. CASE ScanPath(file, m, ts) = Nothing
  <2>1. a \notin Whole(file)
    BY <1>5, <1>9
  <2>2. found # {} /\ found \subseteq Nat
    BY <1>0, <1>1, <1>6, <2>1
  <2>3. \A k \in found : ScanPath(closed[k].data, m, ts) = a
    BY <1>6
  <2>4. At(m, ts) = ScanPath(closed[Lowest(found)].data, m, ts)
    BY <1>7, <1>9, <2>2
  <2> HIDE DEF found
  <2>5. Lowest(found) \in found
    BY <2>2, Least
  <2> QED
    BY <2>3, <2>4, <2>5
<1> QED
  BY <1>8, <1>9

(* "The auditor's question" is answered at any moment with what was        *)
(* signed, by bisection of the current file or of a closed one, in the     *)
(* middle of a rotation and after any crashes and cut writes, but for the  *)
(* line behind each piece of one: if the feed does not run back and        *)
(* restates no price.                                                      *)
THEOREM SignedIsFound == ASSUME FeedMay = {} PROVE Spec => []Auditable
<1> DEFINE I == TypeOK /\ Bounded /\ WriterInv /\ OrderInv /\ KeptInv /\ PriceInv
<1>1. Init => I
  BY InitType, InitWriter, InitOrder, InitAudit
<1>2. I /\ [Next]_vars => I'
  <2> SUFFICES ASSUME I, [Next]_vars PROVE I'
    OBVIOUS
  <2>1. TypeOK' /\ Bounded' /\ WriterInv'
    BY TypeStep, WriterStep
  <2>2. OrderInv'
    BY <2>1, OrderStep
  <2>3. KeptInv' /\ PriceInv'
    BY <2>1, AuditStep
  <2> QED
    BY <2>1, <2>2, <2>3
<1>3. I => Auditable
  BY AuditShows
<1> QED
  BY <1>1, <1>2, <1>3, PTL DEF Spec
=============================================================================
