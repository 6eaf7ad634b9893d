-------------------------- MODULE VaultWatchProofs --------------------------
(***************************************************************************)
(* The watcher's verdict on a vault, for every length of the chain, every  *)
(* set of exits, every depth of burial and of search, and every number of  *)
(* failures, reorganisations, evictions and restarts the theorems allow.   *)
(***************************************************************************)
EXTENDS VaultWatch, NumberTheorems, FiniteSetTheorems, TLAPS

-----------------------------------------------------------------------------
(* Highest and Lowest, of sets that have such an element.                  *)

LEMMA Greatest ==
  ASSUME NEW S \in SUBSET Nat, S # {}, NEW n \in Nat, \A h \in S : h <= n
  PROVE  /\ Highest(S) \in S
         /\ \A k \in S : k <= Highest(S)
BY GreatestExists DEF Highest

LEMMA Least ==
  ASSUME NEW S \in SUBSET Nat, S # {}
  PROVE  /\ Lowest(S) \in S
         /\ \A k \in S : Lowest(S) <= k
BY LeastExists DEF Lowest

-----------------------------------------------------------------------------
(* The transactions. *)

LEMMA VaultFamily ==
  /\ "fund" \in Txs /\ "fund" \notin Exits /\ Exits \subseteq Txs
  /\ Txs = Exits \cup {"fund"}
  /\ VaultCoin # None
  /\ Makers(VaultCoin) = {"fund"} /\ Spenders(VaultCoin) = Exits
<1>1. VaultCoin # None
  BY LedgerAssumption, VaultAssumption
<1>2. Spends["fund"] # VaultCoin
  BY <1>1, VaultAssumption
<1>3. Makers(VaultCoin) = {"fund"}
  BY VaultAssumption DEF Makers, Exits
<1>4. Spenders(VaultCoin) = Exits
  BY <1>2, VaultAssumption DEF Spenders, Exits
<1> QED
  BY <1>1, <1>3, <1>4, VaultAssumption DEF Exits

(* What is built on a set of transactions are exits, and on exits nothing. *)
LEMMA FamilyIs ==
  /\ \A S \in SUBSET Txs : /\ S \subseteq Family(S)
                           /\ Family(S) \subseteq S \cup Exits
  /\ Family(Exits) = Exits
<1>1. \A S \in SUBSET Txs : Children(S) \subseteq Exits
  <2> SUFFICES ASSUME NEW S \in SUBSET Txs, NEW x \in Children(S)
               PROVE  x \in Exits
    OBVIOUS
  <2>1. x \in Txs /\ \E y \in S : Spends[x] \in Makes[y]
    BY DEF Children
  <2>2. Spends[x] # None
    BY <2>1, LedgerAssumption
  <2> QED
    BY <2>1, <2>2, VaultAssumption DEF Exits
<1>2. \A S \in SUBSET Exits : Children(S) = {}
  BY VaultAssumption DEF Children
<1>3. Exits \in SUBSET Txs
  BY DEF Exits
<1>4. Children({}) = {}
  BY DEF Children
<1>5. Family(Exits) = Exits
  BY <1>2, <1>4 DEF Family
<1>6. ASSUME NEW S \in SUBSET Txs
      PROVE  S \subseteq Family(S) /\ Family(S) \subseteq S \cup Exits
  <2>1. Children(S) \subseteq Exits /\ Children(S) \in SUBSET Txs
    BY <1>1, <1>3
  <2>2. Children(Children(S)) = {}
    BY <1>2, <2>1
  <2> QED
    BY <2>1, <2>2, <1>4 DEF Family
<1> QED
  BY <1>5, <1>6

-----------------------------------------------------------------------------
(* The chain. *)

LEMMA BlockAt ==
  ASSUME LedgerTypeOK, NEW h \in 1..Height
  PROVE  chain[h] \in Block /\ chain[h].fork \in 0..MaxForks
         /\ chain[h].txs \subseteq Txs /\ h \in Heights
<1>1. chain \in Seq(Block) /\ Len(chain) \in 0..MaxHeight /\ h \in 1..Len(chain)
  BY DEF LedgerTypeOK, Height
<1>2. chain[h] \in Block
  BY <1>1
<1>3. h \in Heights
  BY <1>1, LedgerAssumption DEF Heights
<1> QED
  BY <1>2, <1>3 DEF Block

LEMMA HeightType == LedgerTypeOK => Height \in 0..MaxHeight /\ Height \in Int
BY LedgerAssumption DEF LedgerTypeOK, Height

LEMMA MineDoes ==
  ASSUME LedgerTypeOK, Mine
  PROVE  /\ LedgerTypeOK'
         /\ Height' = Height + 1 /\ forks' = forks
         /\ \A h \in 1..Height : chain'[h] = chain[h]
         /\ chain'[Height + 1].fork = forks
         /\ chain'[Height + 1].txs \subseteq mempool
         /\ mempool' = mempool \ chain'[Height + 1].txs
         /\ \A x \in chain'[Height + 1].txs : \A y \in mempool :
               Spends[x] \in Makes[y] => y \in chain'[Height + 1].txs
<1>1. PICK txs \in Blocks :
         /\ chain' = Append(chain, [fork |-> forks, txs |-> txs])
         /\ mempool' = mempool \ txs
  BY DEF Mine
<1>7. /\ txs \subseteq mempool
      /\ \A x \in txs : \A y \in mempool : Spends[x] \in Makes[y] => y \in txs
  BY DEF Blocks
<1>2. chain \in Seq(Block) /\ Len(chain) \in Nat /\ Len(chain) < MaxHeight
  BY DEF Mine, LedgerTypeOK, Height
<1>3. [fork |-> forks, txs |-> txs] \in Block
  BY <1>7 DEF LedgerTypeOK, Block
<1>4. /\ chain' \in Seq(Block) /\ Len(chain') = Len(chain) + 1
      /\ \A h \in 1..Len(chain) : chain'[h] = chain[h]
      /\ chain'[Len(chain) + 1] = [fork |-> forks, txs |-> txs]
  BY <1>1, <1>2, <1>3
<1>5. forks' = forks /\ evictions' = evictions
  BY DEF Mine
<1>6. LedgerTypeOK'
  BY <1>1, <1>2, <1>4, <1>5, LedgerAssumption DEF LedgerTypeOK
<1> QED
  BY <1>1, <1>4, <1>5, <1>6, <1>7 DEF Height

LEMMA ReorgDoes ==
  ASSUME LedgerTypeOK, Reorg
  PROVE  /\ LedgerTypeOK'
         /\ forks' = forks + 1 /\ forks < MaxForks
         /\ \E n \in 1..(Height - 1) :
              /\ Height' \in {n, Height}
              /\ \A h \in 1..n : chain'[h] = chain[h]
              /\ \A h \in n + 1..Height' : chain'[h].fork = forks + 1
              /\ LET gone == mempool
                               \cup UNION {chain[h].txs : h \in n + 1..Height}
                 IN  /\ mempool' \subseteq gone
                     /\ \A h \in n + 1..Height' :
                          /\ chain'[h].txs \subseteq gone \ mempool'
                          /\ h # n + 1 => chain'[h].txs = {}
              /\ ~ShorterChains =>
                   LET gone == UNION {chain[h].txs : h \in n + 1..Height}
                   IN  /\ Height' = Height
                       /\ \E lost \in SUBSET gone :
                            LET pool == (mempool \cup gone) \ Family(lost)
                            IN  /\ chain'[n + 1].txs \in {pool, {}}
                                /\ mempool' = pool \ chain'[n + 1].txs
<1>1. PICK depth \in 1..MaxDepth :
         /\ depth < Height
         /\ LET kept == SubSeq(chain, 1, Height - depth)
                gone == UNION {chain[h].txs : h \in Height - depth + 1 .. Height}
            IN  \E lost \in SUBSET gone :
                  LET pool == (mempool \cup gone) \ Family(lost)
                  IN  IF ShorterChains
                      THEN chain' = kept /\ mempool' = pool
                      ELSE \E txs \in {pool, {}} :
                             /\ mempool' = pool \ txs
                             /\ chain' = kept \o
                                  [k \in 1..depth |->
                                     [fork |-> forks + 1,
                                      txs |-> IF k = 1 THEN txs ELSE {}]]
  BY DEF Reorg
<1> DEFINE n == Height - depth
           gone == UNION {chain[h].txs : h \in n + 1..Height}
           kept == SubSeq(chain, 1, n)
<1>2. PICK lost \in SUBSET gone :
        LET pool == (mempool \cup gone) \ Family(lost)
        IN  IF ShorterChains
            THEN chain' = kept /\ mempool' = pool
            ELSE \E txs \in {pool, {}} :
                   /\ mempool' = pool \ txs
                   /\ chain' = kept \o
                        [k \in 1..depth |->
                           [fork |-> forks + 1,
                            txs |-> IF k = 1 THEN txs ELSE {}]]
  BY <1>1
<1> DEFINE pool == (mempool \cup gone) \ Family(lost)
<1>3. /\ n \in 1..(Height - 1) /\ Height \in 0..MaxHeight
      /\ depth \in Nat \ {0} /\ depth + n = Height
  <2>1. MaxDepth \in Nat /\ MaxHeight \in Nat
    BY LedgerAssumption
  <2>2. Height \in 0..MaxHeight /\ Height \in Int
    BY HeightType
  <2>3. depth \in 1..MaxDepth /\ depth < Height
    BY <1>1
  <2> HIDE DEF Height
  <2> QED
    BY <2>1, <2>2, <2>3
<1>4. kept \in Seq(Block) /\ Len(kept) = n /\ \A h \in 1..n : kept[h] = chain[h]
  <2>1. chain \in Seq(Block) /\ Len(chain) = Height
    BY DEF LedgerTypeOK, Height
  <2> HIDE DEF n
  <2> QED
    BY <2>1, <1>3
<1>5. gone \subseteq Txs /\ mempool \subseteq Txs /\ pool \subseteq mempool \cup gone
  <2>1. \A h \in n + 1..Height : chain[h].txs \subseteq Txs
    BY <1>3, BlockAt
  <2> QED
    BY <2>1 DEF LedgerTypeOK
<1>6. /\ forks' = forks + 1 /\ forks < MaxForks /\ forks \in 0..MaxForks
      /\ evictions' = evictions
  BY DEF Reorg, LedgerTypeOK
<1> HIDE DEF n, gone, kept, pool
<1>7. CASE ShorterChains
  <2>1. chain' = kept /\ mempool' = pool
    BY <1>2, <1>7 DEF pool
  <2>2. LedgerTypeOK'
    BY <2>1, <1>3, <1>4, <1>5, <1>6, LedgerAssumption DEF LedgerTypeOK
  <2>3. Height' = n
    BY <2>1, <1>4 DEF Height
  <2>4. /\ \A h \in 1..n : chain'[h] = chain[h]
        /\ n + 1..Height' = {} /\ mempool' \subseteq mempool \cup gone
    BY <2>1, <2>3, <1>3, <1>4, <1>5
  <2> QED
    BY <2>2, <2>3, <2>4, <1>3, <1>6, <1>7 DEF gone
<1>8. CASE ~ShorterChains
  <2>1. PICK txs \in {pool, {}} :
           /\ mempool' = pool \ txs
           /\ chain' = kept \o
                [k \in 1..depth |->
                   [fork |-> forks + 1, txs |-> IF k = 1 THEN txs ELSE {}]]
    BY <1>2, <1>8 DEF pool
  <2> DEFINE new == [k \in 1..depth |->
                      [fork |-> forks + 1, txs |-> IF k = 1 THEN txs ELSE {}]]
  <2>2. new \in Seq(Block) /\ Len(new) = depth
    <3>1. \A k \in 1..depth :
            [fork |-> forks + 1, txs |-> IF k = 1 THEN txs ELSE {}] \in Block
      BY <2>1, <1>5, <1>6, LedgerAssumption DEF Block
    <3> QED
      BY <3>1, <1>3
  <2>3. /\ chain' \in Seq(Block) /\ Len(chain') = Height
        /\ \A h \in 1..n : chain'[h] = chain[h]
        /\ \A h \in n + 1..Height : chain'[h] = new[h - n]
    <3> HIDE DEF new
    <3>1. chain' = kept \o new
      BY <2>1 DEF new
    <3>2. /\ kept \o new \in Seq(Block)
          /\ Len(kept \o new) = n + depth
          /\ \A h \in 1..(n + depth) :
               (kept \o new)[h] = IF h <= n THEN kept[h] ELSE new[h - n]
      BY <2>2, <1>3, <1>4
    <3>3. n + depth = Height /\ 1..n \subseteq 1..Height
          /\ n + 1..Height \subseteq 1..Height
          /\ \A h \in n + 1..Height : ~(h <= n)
      BY <1>3
    <3>4. chain' \in Seq(Block) /\ Len(chain') = Height
      BY <3>1, <3>2, <3>3
    <3>5. ASSUME NEW h \in 1..n PROVE chain'[h] = chain[h]
      <4>1. h \in 1..(n + depth) /\ h <= n
        BY <1>3
      <4> QED
        BY <4>1, <3>1, <3>2, <1>4
    <3>6. ASSUME NEW h \in n + 1..Height PROVE chain'[h] = new[h - n]
      <4>1. h \in 1..(n + depth) /\ ~(h <= n)
        BY <3>3, <1>3
      <4> QED
        BY <4>1, <3>1, <3>2
    <3> QED
      BY <3>4, <3>5, <3>6
  <2>4. LedgerTypeOK'
    <3>1. mempool' \subseteq Txs
      BY <2>1, <1>5
    <3>2. Len(chain') \in 0..MaxHeight
      BY <2>3, <1>3
    <3> QED
      BY <3>1, <3>2, <2>3, <1>6, LedgerAssumption DEF LedgerTypeOK
  <2>5. Height' = Height
    BY <2>3 DEF Height
  <2>6. ASSUME NEW h \in n + 1..Height
        PROVE  /\ chain'[h].fork = forks + 1
               /\ chain'[h].txs \subseteq (mempool \cup gone) \ mempool'
               /\ h # n + 1 => chain'[h].txs = {}
    <3>1. h - n \in 1..depth /\ (h # n + 1 => h - n # 1)
      BY <1>3
    <3>2. chain'[h] = [fork |-> forks + 1,
                       txs |-> IF h - n = 1 THEN txs ELSE {}]
      BY <2>3, <3>1
    <3> QED
      BY <3>1, <3>2, <2>1, <1>5
  <2>7. mempool' \subseteq mempool \cup gone
    BY <2>1, <1>5
  <2>8. chain'[n + 1].txs = txs
    <3>1. n + 1 \in n + 1..Height /\ (n + 1) - n = 1 /\ 1 \in 1..depth
      BY <1>3
    <3>2. new[1].txs = txs
      BY <3>1
    <3> HIDE DEF new
    <3>3. chain'[n + 1] = new[1]
      BY <2>3, <3>1
    <3> QED
      BY <3>2, <3>3
  <2>9. \E l \in SUBSET gone :
          LET p == (mempool \cup gone) \ Family(l)
          IN  chain'[n + 1].txs \in {p, {}} /\ mempool' = p \ chain'[n + 1].txs
    <3>1. chain'[n + 1].txs \in {pool, {}} /\ mempool' = pool \ chain'[n + 1].txs
      BY <2>1, <2>8
    <3> QED
      BY <1>2, <3>1 DEF pool
  <2> HIDE DEF new
  <2> QED
    BY <2>3, <2>4, <2>5, <2>6, <2>7, <2>9, <1>3, <1>6 DEF gone
<1> QED
  BY <1>7, <1>8

-----------------------------------------------------------------------------
(* Types. *)

LEMMA NumberTypes ==
  ASSUME TypeOK
  PROVE  /\ scanned \in Int /\ poll.tip \in 0..MaxHeight /\ poll.tip \in Int
         /\ poll.conf \in 0..MaxHeight /\ Height \in 0..MaxHeight
         /\ RescanDepth \in Nat \ {0} /\ MinDepth \in Nat \ {0}
         /\ MaxHeight \in Nat \ {0} /\ MaxForks \in Nat
         /\ v.back \in 0..MaxHeight + 1 /\ v.conf \in 0..MaxHeight
         /\ v.height \in 0..MaxHeight /\ v.fundHeight \in 0..MaxHeight
         /\ v.fundBlock \in -1..MaxForks
<1>1. poll.tip \in 0..MaxHeight /\ poll.conf \in 0..MaxHeight
  BY DEF TypeOK, ScannerTypeOK, Polls
<1>2. /\ v.back \in 0..MaxHeight + 1 /\ v.conf \in 0..MaxHeight
      /\ v.height \in 0..MaxHeight /\ v.fundHeight \in 0..MaxHeight
      /\ v.fundBlock \in -1..MaxForks
  BY DEF TypeOK, Vault
<1>3. scanned \in Int /\ Height \in 0..MaxHeight
  BY HeightType DEF TypeOK, ScannerTypeOK
<1> QED
  BY <1>1, <1>2, <1>3, LedgerAssumption, ScannerAssumption

LEMMA InitType == Init => TypeOK
<1> SUFFICES ASSUME Init PROVE TypeOK
  OBVIOUS
<1>1. LedgerTypeOK
  <2>1. [fork |-> 0, txs |-> {}] \in Block
    BY LedgerAssumption DEF Block
  <2>2. chain \in Seq(Block) /\ Len(chain) = 1
    BY <2>1 DEF Init
  <2>3. mempool \subseteq Txs
    BY VaultFamily DEF Init
  <2> QED
    BY <2>2, <2>3, LedgerAssumption DEF Init, LedgerTypeOK
<1>2. HashAt(1) = 0
  BY DEF Init, HashAt
<1>3. NoPoll \in Polls
  BY LedgerAssumption DEF NoPoll, Polls, Phases
<1>4. ScannerTypeOK
  <2>1. scanned = 1 /\ fails = 0 /\ poll = NoPoll /\ quiet = 0
        /\ hashes = [k \in Heights |-> IF k = 1 THEN 0 ELSE -1]
    BY <1>2 DEF Init, ScannerInit
  <2>2. hashes \in [Heights -> -1..MaxForks]
    BY <2>1, LedgerAssumption
  <2>3. scanned \in -1..MaxHeight
    BY <2>1, LedgerAssumption
  <2> QED
    BY <2>1, <2>2, <2>3, <1>3, ScannerAssumption DEF ScannerTypeOK
<1>5. NewVault \in Vault
  BY LedgerAssumption DEF NewVault, Vault, States
<1>6. /\ v = NewVault /\ book = NewVault /\ restarts = 0
      /\ buried = {} /\ undone = FALSE
  BY DEF Init
<1>7. restarts \in 0..MaxRestarts
  BY <1>6, VaultAssumption
<1> QED
  BY <1>1, <1>4, <1>5, <1>6, <1>7 DEF TypeOK

LEMMA LedgerStepType ==
  ASSUME LedgerTypeOK, LedgerStep
  PROVE  LedgerTypeOK'
<1>1. CASE Mine
  BY <1>1, MineDoes
<1>2. CASE Reorg
  BY <1>2, ReorgDoes
<1>3. CASE \E x \in Txs : Broadcast(x) \/ Evict(x)
  <2>1. /\ mempool' \subseteq Txs
        /\ UNCHANGED <<chain, forks>> /\ evictions' \in 0..MaxEvictions
    BY <1>3, LedgerAssumption DEF Broadcast, Evict, LedgerTypeOK
  <2> QED
    BY <2>1 DEF LedgerTypeOK
<1> QED
  BY <1>1, <1>2, <1>3 DEF LedgerStep

LEMMA ChainStepType ==
  ASSUME TypeOK, ChainStep
  PROVE  TypeOK'
<1>1. LedgerTypeOK'
  BY LedgerStepType DEF TypeOK, ChainStep
<1>2. poll' \in Polls /\ quiet' \in 0..QuietPolls
  <2>1. poll' = [poll EXCEPT !.calm = FALSE] /\ quiet' = 0
    BY DEF ChainStep, LedgerStep
  <2>2. poll \in Polls
    BY DEF TypeOK, ScannerTypeOK
  <2>3. poll' \in Polls
    BY <2>1, <2>2 DEF Polls
  <2> QED
    BY <2>1, <2>3, ScannerAssumption
<1>3. ScannerTypeOK'
  BY <1>2 DEF TypeOK, ScannerTypeOK, ChainStep, scan
<1>4. buried' \subseteq [height : Heights, block : 0..MaxForks]
  <2>1. \A h \in 1..Len(chain') : h \in Heights /\ chain'[h].fork \in 0..MaxForks
    <3>1. chain' \in Seq(Block) /\ Len(chain') \in 0..MaxHeight
      BY <1>1 DEF LedgerTypeOK
    <3>2. \A h \in 1..Len(chain') : chain'[h] \in Block
      BY <3>1
    <3> QED
      BY <3>1, <3>2, LedgerAssumption DEF Block, Heights
  <2>2. \A h \in {k \in 1..Len(chain') : "fund" \in chain'[k].txs} :
          [height |-> h, block |-> chain'[h].fork]
            \in [height : Heights, block : 0..MaxForks]
    BY <2>1
  <2>3. buried \subseteq [height : Heights, block : 0..MaxForks]
    BY DEF TypeOK
  <2> QED
    BY <2>2, <2>3 DEF ChainStep
<1>5. undone' \in BOOLEAN
  BY DEF ChainStep, TypeOK
<1> QED
  BY <1>1, <1>3, <1>4, <1>5 DEF TypeOK, ChainStep, watch

(* What the walk finds, and how far it gets. *)
LEMMA WalkTypes ==
  ASSUME TypeOK
  PROVE  /\ Floor(poll.tip) \in 1..MaxHeight
         /\ WalkTop(v.back, poll.tip) \in 0..poll.tip
         /\ WalkEnds(v.back, poll.tip) \subseteq 1..MaxHeight + 1
         /\ WalkBreaks(v.back, poll.tip) \subseteq 1..MaxHeight + 1
<1>1. Floor(poll.tip) \in 1..MaxHeight
  BY NumberTypes DEF Floor, LargerOf
<1>2. WalkTop(v.back, poll.tip) \in 0..poll.tip
  BY NumberTypes DEF WalkTop, SmallerOf
<1> QED
  BY <1>1, <1>2, NumberTypes DEF WalkEnds, WalkBreaks

LEMMA ExitsAt == \A h : SpendersAt(VaultCoin, h) \subseteq Exits
BY VaultFamily DEF SpendersAt

LEMMA PoolExits == PoolSpenders(VaultCoin) = Exits \cap Pool
BY VaultFamily DEF PoolSpenders

LEMMA FoundType ==
  ASSUME TypeOK, NEW to \in 1..MaxHeight + 1
  PROVE  Found(VaultCoin, v.back, poll.tip, to)
           \subseteq [tx : Exits, height : 0..MaxHeight]
<1> DEFINE walked == {h \in to .. WalkTop(v.back, poll.tip) :
                        SpendersAt(VaultCoin, h) # {}}
<1>1. walked \subseteq 1..MaxHeight
  BY WalkTypes, NumberTypes
<1>2. walked # {} => Highest(walked) \in 1..MaxHeight
  <2>1. walked \subseteq Nat /\ MaxHeight \in Nat /\ \A h \in walked : h <= MaxHeight
    BY <1>1, NumberTypes
  <2> HIDE DEF walked
  <2> QED
    BY <1>1, <2>1, Greatest
<1> HIDE DEF walked
<1>3. \A x \in SpendersAt(VaultCoin, Highest(walked)) : x \in Exits
  BY ExitsAt
<1>4. \A x \in PoolSpenders(VaultCoin) : x \in Exits
  BY PoolExits
<1>5. 0 \in 0..MaxHeight /\ 1..MaxHeight \subseteq 0..MaxHeight
  BY NumberTypes
<1> QED
  BY <1>2, <1>3, <1>4, <1>5 DEF Found, walked

LEMMA ExitStates ==
  \A x : ExitState(x) \in Closed \ {"GHOST"}
BY DEF ExitState, Closed

LEMMA FundingPairsType ==
  ASSUME TypeOK, NEW conf \in 0..MaxHeight
  PROVE  FundingPairs(conf) \subseteq [height : Heights, block : 0..MaxForks]
<1> DEFINE h == poll.tip - conf + 1
           near == {k \in {h - 1, h, h + 1} \cap 1..Height : "fund" \in chain[k].txs}
<1>1. \A k \in 1..Height : k \in Heights /\ HashAt(k) \in 0..MaxForks
  BY BlockAt DEF TypeOK, HashAt
<1>2. conf >= 1 /\ h >= 1 /\ Height = poll.tip => h \in 1..Height
  BY NumberTypes
<1>3. \A k \in near : k \in 1..Height
  OBVIOUS
<1>4. FundingPairs(conf)
        = IF v.fundBlock # -1 \/ conf < 1 \/ h < 1 THEN {}
          ELSE IF Height = poll.tip
          THEN {[height |-> h, block |-> HashAt(h)]}
          ELSE {[height |-> k, block |-> HashAt(k)] : k \in near}
  BY DEF FundingPairs
<1>5. conf < 1 \/ conf >= 1
  OBVIOUS
<1>6. h < 1 \/ h >= 1
  BY NumberTypes
<1> HIDE DEF h, near
<1> QED
  BY <1>1, <1>2, <1>3, <1>4, <1>5, <1>6

LEMMA SeenUnspentType ==
  ASSUME TypeOK, NEW conf \in 0..MaxHeight,
         NEW pairs \in SUBSET [height : Heights, block : 0..MaxForks]
  PROVE  SeenUnspent(conf, pairs) \in Vault
<1>1. pairs # {} =>
        /\ (CHOOSE p \in pairs : TRUE).height \in 0..MaxHeight
        /\ (CHOOSE p \in pairs : TRUE).block \in -1..MaxForks
  <2>1. pairs # {} =>
          (CHOOSE p \in pairs : TRUE) \in [height : Heights, block : 0..MaxForks]
    OBVIOUS
  <2> QED
    BY <2>1, NumberTypes DEF Heights
<1>2. v \in Vault
  BY DEF TypeOK
<1>3. 0 \in 0..MaxHeight /\ 0 \in 0..MaxHeight + 1
  BY NumberTypes
<1> QED
  BY <1>1, <1>2, <1>3 DEF SeenUnspent, Vault, States

LEMMA ClosedByType ==
  ASSUME TypeOK, NEW x \in Exits, NEW h \in 0..MaxHeight
  PROVE  ClosedBy(x, h) \in Vault
BY ExitStates DEF ClosedBy, TypeOK, Vault, States

LEMMA SeenGoneType ==
  ASSUME TypeOK, NEW to \in 1..MaxHeight + 1, NEW reorged
  PROVE  SeenGone(to, reorged) \in Vault
<1> DEFINE found == IF Unburied
                    THEN {[tx |-> x, height |-> 0] : x \in PoolSpenders(VaultCoin)}
                    ELSE Found(VaultCoin, v.back, poll.tip, to)
           walks == ~Unburied /\ PoolSpenders(VaultCoin) = {}
                      /\ ~Exhausted(v.back, poll.tip)
           back == IF ~walks THEN v.back
                   ELSE IF found = {} THEN to
                   ELSE (CHOOSE f \in found : TRUE).height
           other == PoolSpenders(VaultCoin) \ {v.by}
           f == CHOOSE g \in found : TRUE
<1>1. found \subseteq [tx : Exits, height : 0..MaxHeight]
  <2>1. \A x \in PoolSpenders(VaultCoin) :
          [tx |-> x, height |-> 0] \in [tx : Exits, height : 0..MaxHeight]
    BY PoolExits, NumberTypes
  <2> QED
    BY <2>1, FoundType
<1>2. found # {} => f \in [tx : Exits, height : 0..MaxHeight]
  <2> HIDE DEF found
  <2> QED
    BY <1>1
<1> HIDE DEF found
<1>3. back \in 0..MaxHeight + 1
  <2>1. to \in 0..MaxHeight + 1 /\ 0..MaxHeight \subseteq 0..MaxHeight + 1
    BY NumberTypes
  <2> QED
    BY <1>2, <2>1, NumberTypes
<1>4. v \in Vault /\ 0 \in 0..MaxHeight
  BY NumberTypes DEF TypeOK
<1>5. other # {} => ClosedBy(CHOOSE x \in other : TRUE, 0) \in Vault
  BY PoolExits, <1>4, ClosedByType
<1>6. found # {} => [ClosedBy(f.tx, f.height) EXCEPT !.back = back] \in Vault
  <2> SUFFICES ASSUME found # {}
               PROVE  [ClosedBy(f.tx, f.height) EXCEPT !.back = back] \in Vault
    OBVIOUS
  <2>1. ClosedBy(f.tx, f.height) \in Vault
    BY <1>2, ClosedByType
  <2> HIDE DEF back
  <2> QED
    BY <2>1, <1>3 DEF Vault
<1>7. Unexplained(back, reorged) \in Vault
  <2> HIDE DEF back
  <2> QED
    BY <1>3, <1>4 DEF Unexplained, Vault, States, Closed
<1>8. SeenGone(to, reorged)
        = IF v.state = "GHOST" THEN v
          ELSE IF v.state \in Closed
          THEN IF other = {} THEN v ELSE ClosedBy(CHOOSE x \in other : TRUE, 0)
          ELSE IF found # {}
          THEN [ClosedBy(f.tx, f.height) EXCEPT !.back = back]
          ELSE Unexplained(back, reorged)
  BY DEF SeenGone, found
<1> HIDE DEF other, back, f
<1> QED
  BY <1>4, <1>5, <1>6, <1>7, <1>8

(* The scan is put back to no higher than it was and the tip is: to where  *)
(* it started, to just under what it may look at, or to a block that still *)
(* is what it was.                                                         *)
LEMMA AncestorIs ==
  ASSUME TypeOK, scanned >= 1
  PROVE  LET start == SmallerOf(scanned, Height)
             onRecord == {h \in Heights : hashes[h] # -1}
             known == IF onRecord = {} THEN start ELSE Lowest(onRecord)
             floor == LargerOf(0, LargerOf(start - RescanDepth, known - 1))
         IN  /\ start \in 0..MaxHeight /\ floor \in 0..MaxHeight
             /\ Ancestor(Height) \in 0..start
             /\ \/ start <= floor /\ Ancestor(Height) = start
                \/ /\ start > floor
                   /\ \A h \in 1..start :
                        hashes[h] # -1 /\ hashes[h] = HashAt(h)
                          => h <= Ancestor(Height) \/ h <= floor
                   /\ \/ Ancestor(Height) = floor
                      \/ /\ Ancestor(Height) > floor
                         /\ hashes[Ancestor(Height)] # -1
                         /\ hashes[Ancestor(Height)] = HashAt(Ancestor(Height))
<1> DEFINE start == SmallerOf(scanned, Height)
           onRecord == {h \in Heights : hashes[h] # -1}
           known == IF onRecord = {} THEN start ELSE Lowest(onRecord)
           floor == LargerOf(0, LargerOf(start - RescanDepth, known - 1))
           same == {h \in 1..start : hashes[h] # -1 /\ hashes[h] = HashAt(h)}
           S == {floor} \cup {h \in same : h > floor}
<1>1. start \in 0..MaxHeight /\ start <= scanned /\ start <= Height
  BY NumberTypes DEF SmallerOf, TypeOK, ScannerTypeOK
<1>2. onRecord # {} => Lowest(onRecord) \in 1..MaxHeight
  <2>1. onRecord \subseteq Nat /\ onRecord \subseteq 1..MaxHeight
    BY NumberTypes DEF Heights
  <2> HIDE DEF onRecord
  <2> QED
    BY <2>1, Least
<1>3. known \in 0..MaxHeight
  <2> HIDE DEF start, onRecord
  <2> QED
    BY <1>1, <1>2, NumberTypes
<1>4. floor \in 0..MaxHeight
  <2> HIDE DEF start, known
  <2> QED
    BY <1>1, <1>3, NumberTypes DEF LargerOf
<1> HIDE DEF known, floor, start, onRecord
<1>5. Ancestor(Height) = IF start <= floor THEN start ELSE Highest(S)
  BY DEF Ancestor, start, onRecord, known, floor
<1>6. start > floor => Highest(S) \in S /\ \A k \in S : k <= Highest(S)
  <2> SUFFICES ASSUME start > floor
               PROVE  Highest(S) \in S /\ \A k \in S : k <= Highest(S)
    OBVIOUS
  <2>1. S \subseteq Nat /\ S # {} /\ \A h \in S : h <= MaxHeight
    BY <1>1, <1>4, NumberTypes
  <2>2. MaxHeight \in Nat
    BY NumberTypes
  <2> HIDE DEF S
  <2> QED
    BY <2>1, <2>2, Greatest
<1>7. CASE start <= floor
  <2>1. Ancestor(Height) = start /\ Ancestor(Height) \in 0..start
    BY <1>1, <1>5, <1>7
  <2> QED
    BY <2>1, <1>1, <1>4, <1>7 DEF start, onRecord, known, floor
<1>8. CASE start > floor
  <2>1. ~(start <= floor)
    BY <1>8, <1>1, <1>4
  <2>2. Ancestor(Height) = Highest(S) /\ Highest(S) \in S
    BY <1>5, <1>6, <1>8, <2>1
  <2>3. Ancestor(Height) \in 0..start
    BY <2>2, <1>1, <1>4, <1>8
  <2>4. \/ Ancestor(Height) = floor
        \/ /\ Ancestor(Height) > floor
           /\ hashes[Ancestor(Height)] # -1
           /\ hashes[Ancestor(Height)] = HashAt(Ancestor(Height))
    BY <2>2
  <2>5. \A h \in 1..start : hashes[h] # -1 /\ hashes[h] = HashAt(h)
                              => h <= Ancestor(Height) \/ h <= floor
    <3> TAKE h \in 1..start
    <3> HAVE hashes[h] # -1 /\ hashes[h] = HashAt(h)
    <3>1. h > floor => h \in S
      OBVIOUS
    <3>2. h > floor \/ h <= floor
      BY <1>4, <1>1
    <3> HIDE DEF S
    <3> QED
      BY <3>1, <3>2, <2>2, <1>6, <1>8
  <2> QED
    BY <2>3, <2>4, <2>5, <1>1, <1>4, <1>8 DEF start, onRecord, known, floor
<1>9. start <= floor \/ start > floor
  BY <1>1, <1>4
<1> QED
  BY <1>7, <1>8, <1>9

LEMMA AncestorType ==
  ASSUME TypeOK, scanned >= 1
  PROVE  Ancestor(Height) \in 0..MaxHeight /\ Ancestor(Height) <= Height
         /\ Ancestor(Height) <= scanned
<1> DEFINE start == SmallerOf(scanned, Height)
<1>1. start \in 0..MaxHeight /\ Ancestor(Height) \in 0..start
  BY AncestorIs
<1>2. start <= scanned /\ start <= Height
  BY NumberTypes DEF SmallerOf
<1> HIDE DEF start
<1> QED
  BY <1>1, <1>2, NumberTypes

LEMMA UndoneAboveType ==
  ASSUME TypeOK, NEW ancestor
  PROVE  UndoneAbove(ancestor) \in Vault
<1>1. v \in Vault /\ 0 \in 0..MaxHeight /\ 0 \in 0..MaxHeight + 1
      /\ -1 \in -1..MaxForks
  BY NumberTypes DEF TypeOK
<1> DEFINE u == IF v.height <= ancestor THEN v
                ELSE [v EXCEPT !.by = None, !.height = 0,
                               !.state = "UNCONFIRMED", !.back = 0]
<1>2. u \in Vault
  BY <1>1 DEF Vault, States
<1>3. [u EXCEPT !.fundHeight = 0, !.fundBlock = -1, !.state = "GHOST",
                !.conf = 0, !.back = 0] \in Vault
  <2> HIDE DEF u
  <2> QED
    BY <1>1, <1>2 DEF Vault, States, Closed
<1> QED
  BY <1>2, <1>3 DEF UndoneAbove

LEMMA ForgetType ==
  ASSUME TypeOK, NEW S PROVE Forget(hashes, S) \in [Heights -> -1..MaxForks]
BY NumberTypes DEF Forget, TypeOK, ScannerTypeOK

LEMMA BeginType ==
  ASSUME TypeOK
  PROVE  /\ Begin \in Polls /\ Begin.tip = Height /\ Begin.one = FALSE
         /\ Begin.calm = TRUE /\ Begin.answered = FALSE /\ Begin.read = FALSE
         /\ Begin.phase = "idle"
<1>1. NoPoll \in Polls /\ NoPoll.one = FALSE /\ NoPoll.answered = FALSE
      /\ NoPoll.read = FALSE /\ NoPoll.phase = "idle"
  BY NumberTypes DEF NoPoll, Polls, Phases
<1> QED
  BY <1>1, NumberTypes DEF Begin, Polls

LEMMA UnansweredType ==
  ASSUME TypeOK PROVE Unanswered => fails' \in 0..MaxFails
BY ScannerAssumption DEF Unanswered, TypeOK, ScannerTypeOK

LEMMA HashType ==
  ASSUME TypeOK, NEW h \in Nat, h <= Height
  PROVE  [hashes EXCEPT ![h] = HashAt(h)] \in [Heights -> -1..MaxForks]
<1>1. h \in Heights => HashAt(h) \in 0..MaxForks
  <2> SUFFICES ASSUME h \in Heights PROVE HashAt(h) \in 0..MaxForks
    OBVIOUS
  <2>1. h \in 1..Height
    BY NumberTypes DEF Heights
  <2> QED
    BY <2>1, BlockAt DEF HashAt, TypeOK
<1>2. hashes \in [Heights -> -1..MaxForks] /\ 0..MaxForks \subseteq -1..MaxForks
  BY NumberTypes DEF TypeOK, ScannerTypeOK
<1> QED
  BY <1>1, <1>2

LEMMA EndPollType ==
  ASSUME TypeOK, NEW calm, EndPoll(calm)
  PROVE  /\ poll' \in Polls /\ hashes' \in [Heights -> -1..MaxForks]
         /\ quiet' \in 0..QuietPolls
<1>1. NoPoll \in Polls
  BY NumberTypes DEF NoPoll, Polls, Phases
<1>2. hashes' \in [Heights -> -1..MaxForks]
  BY ForgetType DEF EndPoll, TypeOK, ScannerTypeOK
<1>3. quiet' \in 0..QuietPolls
  BY ScannerAssumption DEF EndPoll, Quieter, TypeOK, ScannerTypeOK
<1> QED
  BY <1>1, <1>2, <1>3 DEF EndPoll

(* What a refresh may make of the vault. *)
LEMMA RefreshType ==
  ASSUME TypeOK, Refresh \/ RefreshUnanswered
  PROVE  v' \in Vault
<1>1. v \in Vault
  BY DEF TypeOK
<1>2. \A to \in 1..MaxHeight + 1, r \in {"yes", "no", "unknown"} :
         SeenGone(to, r) \in Vault
  BY SeenGoneType
<1>3. /\ SeenUnspent(poll.conf, {}) \in Vault
      /\ SeenUnspent(poll.conf, FundingPairs(poll.conf)) \in Vault
  BY NumberTypes, FundingPairsType, SeenUnspentType
<1>4. FundingReorged \in {"yes", "no", "unknown"}
  BY DEF FundingReorged
<1>5. CASE Refresh
  <2>1. PICK to \in WalkEnds(v.back, poll.tip) :
          v' = IF Final(poll.tip) \/ ~poll.answered THEN v
               ELSE IF poll.out THEN SeenUnspent(poll.conf, FundingPairs(poll.conf))
               ELSE SeenGone(to, FundingReorged)
    BY <1>5 DEF Refresh
  <2>2. to \in 1..MaxHeight + 1
    BY WalkTypes
  <2> QED
    BY <2>1, <2>2, <1>1, <1>2, <1>3, <1>4
<1>6. CASE RefreshUnanswered
  <2>1. \/ v' = SeenUnspent(poll.conf, {})
        \/ \E to \in WalkBreaks(v.back, poll.tip) :
                  v' = SeenGone(to, FundingReorged)
        \/ \E to \in WalkEnds(v.back, poll.tip) :
                  v' = SeenGone(to, "unknown")
    BY <1>6 DEF RefreshUnanswered
  <2>2. \A to \in WalkBreaks(v.back, poll.tip) \cup WalkEnds(v.back, poll.tip) :
          to \in 1..MaxHeight + 1
    BY WalkTypes
  <2> QED
    BY <2>1, <2>2, <1>2, <1>3, <1>4
<1> QED
  BY <1>5, <1>6

LEMMA TypeStep == TypeOK /\ [Next]_vars => TypeOK'
<1> SUFFICES ASSUME TypeOK, [Next]_vars PROVE TypeOK'
  OBVIOUS
<1> USE DEF ledger, scan, watch
<1>0. /\ LedgerTypeOK /\ ScannerTypeOK /\ v \in Vault /\ book \in Vault
      /\ restarts \in 0..MaxRestarts /\ poll \in Polls
      /\ scanned \in -1..MaxHeight /\ Height \in 0..MaxHeight
  BY NumberTypes DEF TypeOK, ScannerTypeOK
<1>a. UNCHANGED <<chain, mempool, forks, evictions>> => LedgerTypeOK'
  BY <1>0 DEF LedgerTypeOK
<1>1. CASE PollFirst
  <2>1. hashes' \in [Heights -> -1..MaxForks]
    BY <1>1, NumberTypes, HashType DEF PollFirst
  <2>2. poll' \in Polls
    BY <1>1, BeginType DEF PollFirst, Polls, Phases
  <2>3. ScannerTypeOK'
    BY <1>0, <1>1, <2>1, <2>2, NumberTypes DEF PollFirst, ScannerTypeOK
  <2> QED
    BY <1>a, <1>1, <2>3 DEF PollFirst, TypeOK
<1>2. CASE PollStart
  <2>1. poll' \in Polls
    BY <1>2, BeginType DEF PollStart, Polls, Phases
  <2>2. /\ v' \in Vault /\ scanned' \in -1..MaxHeight
        /\ hashes' \in [Heights -> -1..MaxForks]
    <3>1. CASE NotReorged(Height)
      BY <1>0, <1>2, <3>1 DEF PollStart, ScannerTypeOK
    <3>2. CASE ~NotReorged(Height)
      <4>1. scanned >= 1
        BY <3>2, <1>0 DEF NotReorged
      <4> QED
        BY SMTT(30), <1>2, <3>2, <4>1, AncestorType, UndoneAboveType, ForgetType, NumberTypes
        DEF PollStart
    <3> QED
      BY <3>1, <3>2
  <2>3. ScannerTypeOK'
    BY <1>0, <1>2, <2>1, <2>2 DEF PollStart, ScannerTypeOK
  <2> QED
    BY <1>a, <1>2, <2>2, <2>3 DEF PollStart, TypeOK
<1>3. CASE PollStartUnanswered
  <2>1. poll' \in Polls
    BY <1>3, BeginType DEF PollStartUnanswered, Polls, Phases
  <2>2. ScannerTypeOK'
    BY <1>0, <1>3, <2>1, UnansweredType DEF PollStartUnanswered, ScannerTypeOK
  <2> QED
    BY <1>a, <1>3, <2>2 DEF PollStartUnanswered, TypeOK
<1>4. CASE RefreshOne
  <2>1. poll' \in Polls
    BY <1>4, BeginType DEF RefreshOne, Polls, Phases
  <2>2. ScannerTypeOK'
    BY <1>0, <1>4, <2>1 DEF RefreshOne, ScannerTypeOK
  <2> QED
    BY <1>a, <1>4, <2>2 DEF RefreshOne, TypeOK
<1>5. CASE ScanBlock
  <2> DEFINE h == scanned + 1
             exits == SpendersAt(VaultCoin, h)
             x == CHOOSE y \in exits : TRUE
  <2>1. h \in 0..MaxHeight /\ h <= Height
    <3>1. scanned + 1 <= Height
      BY <1>5 DEF ScanBlock
    <3>2. scanned \in -1..MaxHeight /\ Height \in 0..MaxHeight /\ MaxHeight \in Nat
      BY NumberTypes DEF TypeOK, ScannerTypeOK
    <3> QED
      BY <3>1, <3>2
  <2>2. hashes' \in [Heights -> -1..MaxForks]
    BY <1>5, <2>1, HashType DEF ScanBlock
  <2>3. exits # {} => [v EXCEPT !.state = ExitState(x), !.by = x,
                                !.height = h] \in Vault
    <3> SUFFICES ASSUME exits # {}
                 PROVE  [v EXCEPT !.state = ExitState(x), !.by = x,
                                  !.height = h] \in Vault
      OBVIOUS
    <3>1. x \in Exits
      BY ExitsAt
    <3> HIDE DEF x, h
    <3> QED
      BY <1>0, <2>1, <3>1, ExitStates DEF Vault, States
  <2>4. v' \in Vault
    BY <1>0, <1>5, <2>3 DEF ScanBlock
  <2>5. ScannerTypeOK'
    BY <1>0, <1>5, <2>1, <2>2 DEF ScanBlock, ScannerTypeOK
  <2> QED
    BY <1>a, <1>5, <2>4, <2>5 DEF ScanBlock, TypeOK
<1>6. CASE ScanBroken
  <2>1. poll' \in Polls
    BY <1>0, <1>6 DEF ScanBroken, Polls, Phases
  <2>2. fails' \in 0..MaxFails
    BY <1>0, <1>6, UnansweredType DEF ScanBroken, ScannerTypeOK
  <2>3. ScannerTypeOK'
    BY <1>0, <1>6, <2>1, <2>2 DEF ScanBroken, ScannerTypeOK
  <2> QED
    BY <1>a, <1>6, <2>3 DEF ScanBroken, TypeOK
<1>7. CASE ScanDone
  <2>1. poll' \in Polls
    BY <1>0, <1>7 DEF ScanDone, Polls, Phases
  <2>2. ScannerTypeOK'
    BY <1>0, <1>7, <2>1 DEF ScanDone, ScannerTypeOK
  <2> QED
    BY <1>a, <1>7, <2>2 DEF ScanDone, TypeOK
<1>8. CASE AskTxout
  <2>1. Unspent(VaultCoin) => Confirmations(VaultCoin) \in 0..MaxHeight
    <3> DEFINE at == {h \in 1..Height : chain[h].txs \cap Makers(VaultCoin) # {}}
    <3>1. at # {} => (CHOOSE h \in at : TRUE) \in 1..Height
      OBVIOUS
    <3> HIDE DEF at
    <3>2. (IF at = {} THEN 0 ELSE Height - (CHOOSE h \in at : TRUE) + 1)
            \in 0..MaxHeight
      BY <3>1, <1>0, NumberTypes
    <3> QED
      BY <3>2 DEF Confirmations, at
  <2>2. Unspent(VaultCoin) \in BOOLEAN /\ 0 \in 0..MaxHeight
    BY NumberTypes DEF Unspent
  <2>3. poll' \in Polls
    BY ZenonT(40), <1>0, <1>8, <2>1, <2>2 DEF AskTxout, Polls, Phases
  <2>4. fails' \in 0..MaxFails
    BY <1>0, <1>8, UnansweredType DEF AskTxout, ScannerTypeOK
  <2>5. ScannerTypeOK'
    BY <1>0, <1>8, <2>3, <2>4 DEF AskTxout, ScannerTypeOK
  <2> QED
    BY <1>a, <1>8, <2>5 DEF AskTxout, TypeOK
<1>9. CASE ReadPool
  <2>1. mempool \in SUBSET Txs /\ {} \in SUBSET Txs
    BY <1>0 DEF LedgerTypeOK
  <2>2. poll' \in Polls
    BY <1>0, <1>9, <2>1 DEF ReadPool, ReadMempool, Polls
  <2>3. fails' \in 0..MaxFails
    BY <1>0, <1>9, UnansweredType DEF ReadPool, ReadMempool, ScannerTypeOK
  <2>4. ScannerTypeOK'
    BY <1>0, <1>9, <2>2, <2>3 DEF ReadPool, ScannerTypeOK
  <2> QED
    BY <1>a, <1>9, <2>4 DEF ReadPool, TypeOK
<1>10. CASE Refresh \/ RefreshUnanswered
  <2>1. \E calm : EndPoll(calm)
    BY <1>10 DEF Refresh, RefreshUnanswered
  <2>2. /\ poll' \in Polls /\ hashes' \in [Heights -> -1..MaxForks]
        /\ quiet' \in 0..QuietPolls
    BY <2>1, EndPollType
  <2>3. v' \in Vault
    BY <1>10, RefreshType
  <2>4. book' \in Vault
    <3>1. book' = [v' EXCEPT !.seen = FALSE, !.back = 0]
      BY <1>10 DEF Refresh, RefreshUnanswered, Write
    <3>2. 0 \in 0..MaxHeight + 1
      BY NumberTypes
    <3> QED
      BY <2>3, <3>1, <3>2 DEF Vault
  <2>5. fails' \in 0..MaxFails
    BY <1>0, <1>10, UnansweredType DEF Refresh, RefreshUnanswered, ScannerTypeOK
  <2>6. UNCHANGED <<chain, mempool, forks, evictions, scanned, restarts, buried, undone>>
    BY <2>1 DEF EndPoll
  <2>7. ScannerTypeOK'
    BY <1>0, <2>2, <2>5, <2>6 DEF ScannerTypeOK
  <2> QED
    BY <1>a, <2>3, <2>4, <2>6, <2>7 DEF TypeOK
<1>11. CASE Restart
  <2>1. scanned' \in -1..MaxHeight
    BY <1>0, <1>11, NumberTypes DEF Restart
  <2>2. hashes' \in [Heights -> -1..MaxForks] /\ poll' \in Polls
    BY <1>11, NumberTypes DEF Restart, NoPoll, Polls, Phases
  <2>3. quiet' \in 0..QuietPolls
    BY <1>11, ScannerAssumption DEF Restart
  <2>4. restarts' \in 0..MaxRestarts
    BY <1>0, <1>11, VaultAssumption DEF Restart
  <2>5. ScannerTypeOK'
    BY <1>0, <1>11, <2>1, <2>2, <2>3 DEF Restart, ScannerTypeOK
  <2> QED
    BY <1>0, <1>a, <1>11, <2>4, <2>5 DEF Restart, TypeOK
<1>12. CASE ChainStep
  BY <1>12, ChainStepType
<1>13. CASE UNCHANGED vars
  BY <1>a, <1>13 DEF vars, TypeOK, ScannerTypeOK
<1> QED
  BY <1>1, <1>2, <1>3, <1>4, <1>5, <1>6, <1>7, <1>8, <1>9, <1>10, <1>11, <1>12,
     <1>13 DEF Next, Watcher

(* Every variable keeps its type: the pair, the search and the record of   *)
(* the scan never leave the chain's heights, whatever the chain does       *)
(* between the questions of a poll (poll, _refresh, _walk_back).           *)
THEOREM TypeCorrect == Spec => []TypeOK
BY InitType, TypeStep, PTL DEF Spec

-----------------------------------------------------------------------------
(* The pair.  The tip of a poll is no higher than the chain, because only  *)
(* a reorg lowers it; so if the chain still is as high as the tip, no      *)
(* block came since the poll began, and the depth gettxout gave is counted *)
(* from that tip.                                                          *)

Named(u) ==
    u.fundBlock # -1 => [height |-> u.fundHeight, block |-> u.fundBlock] \in buried

PairInv ==
    /\ poll.tip <= Height
    /\ poll.phase = "idle" => poll.tip = 0
    /\ poll.answered /\ poll.out /\ poll.conf >= 1 /\ poll.tip = Height =>
         /\ poll.tip - poll.conf + 1 \in 1..Height
         /\ "fund" \in chain[poll.tip - poll.conf + 1].txs
    /\ \A k \in 1..Height :
         "fund" \in chain[k].txs => [height |-> k, block |-> HashAt(k)] \in buried
    /\ Named(v) /\ Named(book)

LEMMA InitPair == Init => PairInv
<1> SUFFICES ASSUME Init PROVE PairInv
  OBVIOUS
<1>1. poll.tip = 0 /\ ~poll.answered
  BY DEF Init, ScannerInit, NoPoll
<1>2. Height = 1 /\ chain[1].txs = {}
  BY DEF Init, Height
<1>3. v.fundBlock = -1 /\ book.fundBlock = -1
  BY DEF Init, NewVault
<1> QED
  BY <1>1, <1>2, <1>3 DEF PairInv, Named

LEMMA ChainStepPair ==
  ASSUME TypeOK, PairInv, ChainStep, "reorg" \notin MidPoll
  PROVE  PairInv'
<1>1. buried \subseteq buried'
  BY DEF ChainStep
<1>2. \A k \in 1..Height' : "fund" \in chain'[k].txs =>
        [height |-> k, block |-> HashAt(k)'] \in buried'
  BY DEF ChainStep, HashAt, Height
<1>3. Named(v)' /\ Named(book)'
  BY <1>1 DEF PairInv, Named, ChainStep, watch
<1>4. /\ poll' = [poll EXCEPT !.calm = FALSE] /\ LedgerTypeOK
      /\ poll \in Polls
  BY DEF ChainStep, LedgerStep, TypeOK, ScannerTypeOK
<1>5. /\ poll'.tip = poll.tip /\ poll'.phase = poll.phase
      /\ poll'.answered = poll.answered /\ poll'.out = poll.out
      /\ poll'.conf = poll.conf
  BY <1>4 DEF Polls
<1>6. /\ poll.tip \in 0..MaxHeight /\ Height \in 0..MaxHeight /\ MaxHeight \in Nat
      /\ poll.conf \in 0..MaxHeight
  BY NumberTypes
<1> DEFINE n == poll.tip - poll.conf + 1
<1>7. CASE Mine
  <2>1. Height' = Height + 1 /\ \A h \in 1..Height : chain'[h] = chain[h]
    BY <1>4, <1>7, MineDoes
  <2>2. poll.tip <= Height' /\ poll.tip # Height'
    BY <2>1, <1>6 DEF PairInv
  <2> QED
    BY <1>2, <1>3, <1>5, <2>2 DEF PairInv
<1>8. CASE May("reorg") /\ Reorg
  <2>1. poll.phase = "idle"
    BY <1>8 DEF May
  <2>2. poll'.tip = 0
    BY <2>1, <1>5 DEF PairInv
  <2>3. LedgerTypeOK' /\ 0 <= Height' /\ 0 # Height'
    BY <1>4, <1>8, ReorgDoes, HeightType, <1>6
  <2> QED
    BY <1>2, <1>3, <1>5, <2>1, <2>2, <2>3 DEF PairInv
<1>9. CASE \E x \in Txs : Broadcast(x) \/ Evict(x)
  <2>1. chain' = chain /\ Height' = Height
    BY <1>9 DEF Broadcast, Evict, Height
  <2> QED
    BY <1>2, <1>3, <1>5, <2>1 DEF PairInv
<1> QED
  BY <1>7, <1>8, <1>9 DEF ChainStep, LedgerStep

(* The pair recorded is one of the blocks that hold the funding now. *)
LEMMA FundingPairsNamed ==
  ASSUME TypeOK, PairInv, poll.answered, poll.out
  PROVE  FundingPairs(poll.conf) \subseteq buried
<1> DEFINE conf == poll.conf
           h == poll.tip - conf + 1
           near == {k \in {h - 1, h, h + 1} \cap 1..Height : "fund" \in chain[k].txs}
<1>1. FundingPairs(conf)
        = IF v.fundBlock # -1 \/ conf < 1 \/ h < 1 THEN {}
          ELSE IF Height = poll.tip
          THEN {[height |-> h, block |-> HashAt(h)]}
          ELSE {[height |-> k, block |-> HashAt(k)] : k \in near}
  BY DEF FundingPairs
<1>2. \A k \in near : [height |-> k, block |-> HashAt(k)] \in buried
  BY DEF PairInv
<1>3. conf >= 1 /\ Height = poll.tip =>
        [height |-> h, block |-> HashAt(h)] \in buried
  BY DEF PairInv
<1>4. conf < 1 \/ conf >= 1
  BY NumberTypes
<1> HIDE DEF conf, h, near
<1> QED
  BY <1>1, <1>2, <1>3, <1>4 DEF conf

LEMMA SeenUnspentNamed ==
  ASSUME TypeOK, PairInv, NEW conf, NEW pairs \in SUBSET buried
  PROVE  Named(SeenUnspent(conf, pairs))
<1> DEFINE p == CHOOSE q \in pairs : TRUE
<1>1. pairs # {} => p \in buried /\ p = [height |-> p.height, block |-> p.block]
  <2>1. buried \subseteq [height : Heights, block : 0..MaxForks]
    BY DEF TypeOK
  <2>2. pairs # {} => p \in buried
    OBVIOUS
  <2> HIDE DEF p
  <2> QED
    BY <2>1, <2>2
<1>2. /\ SeenUnspent(conf, pairs).fundHeight
           = IF pairs = {} THEN v.fundHeight ELSE p.height
      /\ SeenUnspent(conf, pairs).fundBlock
           = IF pairs = {} THEN v.fundBlock ELSE p.block
  BY DEF SeenUnspent
<1> HIDE DEF p
<1> QED
  BY <1>1, <1>2 DEF PairInv, Named

(* What is not there leaves the pair alone. *)
LEMMA SeenGoneKeepsPair ==
  ASSUME TypeOK, NEW to, NEW reorged
  PROVE  /\ SeenGone(to, reorged).fundHeight = v.fundHeight
         /\ SeenGone(to, reorged).fundBlock = v.fundBlock
<1>1. v \in Vault
  BY DEF TypeOK
<1>2. \A x, h : /\ ClosedBy(x, h).fundHeight = v.fundHeight
                /\ ClosedBy(x, h).fundBlock = v.fundBlock
  BY <1>1 DEF ClosedBy, Vault
<1>3. \A x, h, b :
        /\ [ClosedBy(x, h) EXCEPT !.back = b].fundHeight = v.fundHeight
        /\ [ClosedBy(x, h) EXCEPT !.back = b].fundBlock = v.fundBlock
  BY <1>1 DEF ClosedBy, Vault
<1>4. \A b : /\ Unexplained(b, reorged).fundHeight = v.fundHeight
             /\ Unexplained(b, reorged).fundBlock = v.fundBlock
  BY <1>1 DEF Unexplained, Vault
<1> QED
  BY <1>2, <1>3, <1>4 DEF SeenGone

LEMMA RefreshPair ==
  ASSUME TypeOK, PairInv, Refresh \/ RefreshUnanswered
  PROVE  Named(v') /\ Named(book')
<1>1. Named(v)
  BY DEF PairInv
<1>2. \A to, r : Named(SeenGone(to, r))
  BY <1>1, SeenGoneKeepsPair DEF Named
<1>3. Named(SeenUnspent(poll.conf, {}))
  BY SeenUnspentNamed
<1>4. poll.answered /\ poll.out =>
        Named(SeenUnspent(poll.conf, FundingPairs(poll.conf)))
  BY SeenUnspentNamed, FundingPairsNamed
<1>5. Named(v')
  <2>1. CASE Refresh
    <3>1. PICK to \in WalkEnds(v.back, poll.tip) :
            v' = IF Final(poll.tip) \/ ~poll.answered THEN v
                 ELSE IF poll.out
                 THEN SeenUnspent(poll.conf, FundingPairs(poll.conf))
                 ELSE SeenGone(to, FundingReorged)
      BY <2>1 DEF Refresh
    <3> QED
      BY <3>1, <1>1, <1>2, <1>4
  <2>2. CASE RefreshUnanswered
    <3>1. \/ v' = SeenUnspent(poll.conf, {})
          \/ \E to, r : v' = SeenGone(to, r)
      BY <2>2 DEF RefreshUnanswered
    <3> QED
      BY <3>1, <1>2, <1>3
  <2> QED
    BY <2>1, <2>2
<1>6. book' = [v' EXCEPT !.seen = FALSE, !.back = 0]
  BY DEF Refresh, RefreshUnanswered, Write
<1>7. v' \in Vault
  BY RefreshType
<1>8. book'.fundHeight = v'.fundHeight /\ book'.fundBlock = v'.fundBlock
  BY <1>6, <1>7 DEF Vault
<1> QED
  BY <1>5, <1>8 DEF Named

LEMMA UndoneAbovePair ==
  ASSUME TypeOK, NEW ancestor
  PROVE  /\ UndoneAbove(ancestor).fundBlock \in {v.fundBlock, -1}
         /\ UndoneAbove(ancestor).fundBlock # -1 =>
              UndoneAbove(ancestor).fundHeight = v.fundHeight
<1> DEFINE u == IF v.height <= ancestor THEN v
                ELSE [v EXCEPT !.by = None, !.height = 0,
                               !.state = "UNCONFIRMED", !.back = 0]
           w == [u EXCEPT !.fundHeight = 0, !.fundBlock = -1, !.state = "GHOST",
                          !.conf = 0, !.back = 0]
<1>1. v \in Vault
  BY DEF TypeOK
<1>2. u.fundBlock = v.fundBlock /\ u.fundHeight = v.fundHeight /\ u \in Vault
  <2>1. 0 \in 0..MaxHeight /\ 0 \in 0..MaxHeight + 1
    BY NumberTypes
  <2>2. u \in Vault
    BY <1>1, <2>1 DEF Vault, States
  <2>3. u.fundBlock = v.fundBlock /\ u.fundHeight = v.fundHeight
    BY <1>1 DEF Vault
  <2> QED
    BY <2>2, <2>3
<1>3. w.fundBlock = -1
  <2> HIDE DEF u
  <2> QED
    BY <1>2 DEF Vault
<1>4. UndoneAbove(ancestor) \in {u, w}
  BY DEF UndoneAbove
<1> HIDE DEF u, w
<1> QED
  BY <1>2, <1>3, <1>4

LEMMA PairStep ==
  ASSUME TypeOK, PairInv, [Next]_vars, "reorg" \notin MidPoll
  PROVE  PairInv'
<1> USE DEF ledger, scan, watch
<1>0. /\ poll \in Polls /\ poll.tip \in 0..MaxHeight /\ Height \in 0..MaxHeight
      /\ MaxHeight \in Nat
  BY NumberTypes DEF TypeOK, ScannerTypeOK
<1>a. UNCHANGED <<chain, buried>> =>
        \A k \in 1..Height' : "fund" \in chain'[k].txs =>
          [height |-> k, block |-> HashAt(k)'] \in buried'
  BY DEF PairInv, HashAt, Height
<1>b. UNCHANGED <<v, book, buried>> => Named(v)' /\ Named(book)'
  BY DEF PairInv, Named
<1>c. UNCHANGED chain => Height' = Height
  BY DEF Height
<1>1. CASE PollFirst \/ PollStartUnanswered \/ RefreshOne
  <2>1. UNCHANGED <<chain, buried, v, book>>
    BY <1>1 DEF PollFirst, PollStartUnanswered, RefreshOne
  <2>2. poll'.tip = Height /\ ~poll'.answered /\ poll'.phase # "idle"
    BY <1>1, BeginType DEF PollFirst, PollStartUnanswered, RefreshOne, Polls
  <2> QED
    BY <1>0, <1>a, <1>b, <1>c, <2>1, <2>2 DEF PairInv
<1>2. CASE PollStart
  <2>1. UNCHANGED <<chain, buried, book>>
    BY <1>2 DEF PollStart
  <2>2. poll'.tip = Height /\ ~poll'.answered /\ poll'.phase # "idle"
    BY <1>2, BeginType DEF PollStart, Polls
  <2>3. Named(v)'
    BY <1>2, <2>1, UndoneAbovePair DEF PollStart, PairInv, Named
  <2>4. Named(book)'
    BY <2>1 DEF PairInv, Named
  <2> QED
    BY <1>0, <1>a, <1>c, <2>1, <2>2, <2>3, <2>4 DEF PairInv
<1>3. CASE ScanBlock
  <2>1. UNCHANGED <<chain, buried, book, poll>>
    BY <1>3 DEF ScanBlock
  <2>2. v'.fundBlock = v.fundBlock /\ v'.fundHeight = v.fundHeight
    BY <1>3 DEF ScanBlock, TypeOK, Vault
  <2> QED
    BY <1>a, <1>c, <2>1, <2>2 DEF PairInv, Named
<1>4. CASE ScanBroken \/ ScanDone
  <2>1. UNCHANGED <<chain, buried, book, v>>
    BY <1>4 DEF ScanBroken, ScanDone
  <2>2. /\ poll'.tip = poll.tip /\ poll'.answered = poll.answered
        /\ poll'.out = poll.out /\ poll'.conf = poll.conf
        /\ poll'.phase # "idle"
    BY <1>0, <1>4 DEF ScanBroken, ScanDone, Polls
  <2> QED
    BY <1>a, <1>b, <1>c, <2>1, <2>2 DEF PairInv
<1>5. CASE ReadPool
  <2>1. UNCHANGED <<chain, buried, book, v>>
    BY <1>5 DEF ReadPool
  <2>2. /\ poll'.tip = poll.tip /\ poll'.answered = poll.answered
        /\ poll'.out = poll.out /\ poll'.conf = poll.conf
        /\ poll'.phase = poll.phase
    BY <1>0, <1>5 DEF ReadPool, ReadMempool, Polls
  <2> QED
    BY <1>a, <1>b, <1>c, <2>1, <2>2 DEF PairInv
<1>6. CASE AskTxout
  <2>1. UNCHANGED <<chain, buried, book, v>>
    BY <1>6 DEF AskTxout
  <2> DEFINE at == {h \in 1..Height : chain[h].txs \cap Makers(VaultCoin) # {}}
  <2>2. /\ poll'.tip = poll.tip /\ poll'.phase # "idle"
        /\ \/ /\ poll'.answered = poll.answered /\ poll'.out = poll.out
              /\ poll'.conf = poll.conf
           \/ poll'.out => poll'.conf = Confirmations(VaultCoin)
    BY <1>0, <1>6 DEF AskTxout, Polls
  <2>3. Confirmations(VaultCoin) >= 1 /\ poll.tip = Height =>
          /\ poll.tip - Confirmations(VaultCoin) + 1 \in 1..Height
          /\ "fund" \in chain[poll.tip - Confirmations(VaultCoin) + 1].txs
    <3>1. Confirmations(VaultCoin)
            = IF at = {} THEN 0 ELSE Height - (CHOOSE h \in at : TRUE) + 1
      BY DEF Confirmations
    <3>2. at # {} => /\ (CHOOSE h \in at : TRUE) \in 1..Height
                     /\ "fund" \in chain[CHOOSE h \in at : TRUE].txs
      BY VaultFamily
    <3> HIDE DEF at
    <3>3. \A a \in 1..Height : Height - (Height - a + 1) + 1 = a
      BY <1>0
    <3> QED
      BY <3>1, <3>2, <3>3
  <2> QED
    BY <1>a, <1>b, <1>c, <2>1, <2>2, <2>3 DEF PairInv
<1>7. CASE Refresh \/ RefreshUnanswered
  <2>1. UNCHANGED <<chain, buried>> /\ poll' = NoPoll
    BY <1>7 DEF Refresh, RefreshUnanswered, EndPoll
  <2>2. Named(v)' /\ Named(book)'
    BY <1>7, <2>1, RefreshPair DEF Named
  <2>3. poll'.tip = 0 /\ ~poll'.answered
    BY <2>1 DEF NoPoll
  <2> QED
    BY <1>0, <1>a, <1>c, <2>1, <2>2, <2>3 DEF PairInv
<1>8. CASE Restart
  <2>1. UNCHANGED <<chain, buried, book>> /\ poll' = NoPoll /\ v' = book
    BY <1>8 DEF Restart
  <2>2. Named(v)' /\ Named(book)'
    BY <2>1 DEF Named, PairInv
  <2>3. poll'.tip = 0 /\ ~poll'.answered
    BY <2>1 DEF NoPoll
  <2> QED
    BY <1>0, <1>a, <1>c, <2>1, <2>2, <2>3 DEF PairInv
<1>9. CASE ChainStep
  BY <1>9, ChainStepPair
<1>10. CASE UNCHANGED vars
  BY <1>10, <1>a, <1>b, <1>c DEF vars, PairInv
<1> QED
  BY <1>1, <1>2, <1>3, <1>4, <1>5, <1>6, <1>7, <1>8, <1>9, <1>10
  DEF Next, Watcher

(* However blocks arrive between the tip a poll began with, the depth      *)
(* gettxout gave and the hash that is recorded, requests and restarts in   *)
(* between: the pair names a block that held the funding (_record_funding).*)
(* A reorg inside the poll is left out; it does record a wrong block.      *)
THEOREM PairsNameTheirFunding ==
  ASSUME "reorg" \notin MidPoll
  PROVE  Spec => []PairNamesFunding
<1>1. Init => TypeOK /\ PairInv
  BY InitType, InitPair
<1>2. TypeOK /\ PairInv /\ [Next]_vars => (TypeOK /\ PairInv)'
  BY TypeStep, PairStep
<1>3. PairInv => PairNamesFunding
  BY DEF PairInv, Named, PairNamesFunding
<1> QED
  BY <1>1, <1>2, <1>3, PTL DEF Spec

-----------------------------------------------------------------------------
(* Rivals.  All exits spend one coin. *)

RivalInv ==
    /\ \A x, y \in Exits \cap mempool : x = y
    /\ \A h, k \in 1..Height : \A x \in Exits \cap chain[h].txs :
         \A y \in Exits \cap chain[k].txs : x = y /\ h = k
    /\ \A h \in 1..Height : Exits \cap chain[h].txs # {} => Exits \cap mempool = {}


LEMMA InitRival == Init => RivalInv
<1> SUFFICES ASSUME Init PROVE RivalInv
  OBVIOUS
<1>1. Exits \cap mempool = {}
  BY VaultFamily DEF Init
<1>2. Height = 1 /\ chain[1].txs = {}
  BY DEF Init, Height
<1> QED
  BY <1>1, <1>2 DEF RivalInv

LEMMA RivalStep ==
  ASSUME TypeOK, RivalInv, [Next]_vars
  PROVE  RivalInv'
<1>0. LedgerTypeOK /\ Height \in Nat
  BY NumberTypes DEF TypeOK
<1>1. CASE UNCHANGED <<chain, mempool>>
  BY <1>1 DEF RivalInv, Height
<1>2. CASE Mine
  <2> DEFINE t == chain'[Height + 1].txs
  <2>1. /\ Height' = Height + 1 /\ \A h \in 1..Height : chain'[h] = chain[h]
        /\ t \subseteq mempool /\ mempool' = mempool \ t
    BY <1>0, <1>2, MineDoes
  <2>2. \A h \in 1..Height' : h \in 1..Height \/ h = Height + 1
    BY <1>0, <2>1
  <2>3. \A h \in 1..Height' : \/ h \in 1..Height /\ chain'[h].txs = chain[h].txs
                              \/ h = Height + 1 /\ chain'[h].txs = t
    BY <2>1, <2>2
  <2> HIDE DEF t
  <2>4. \A x, y \in Exits \cap mempool' : x = y
    BY <2>1 DEF RivalInv
  <2>5. ASSUME NEW h \in 1..Height', NEW k \in 1..Height',
               NEW x \in Exits \cap chain'[h].txs, NEW y \in Exits \cap chain'[k].txs
        PROVE  x = y /\ h = k
    <3>1. CASE h \in 1..Height /\ k \in 1..Height
      BY <3>1, <2>1, <2>5 DEF RivalInv
    <3>2. CASE h = Height + 1 /\ k = Height + 1
      BY <3>2, <2>1, <2>3, <2>5, <1>0 DEF RivalInv
    <3>3. CASE h = Height + 1 /\ k \in 1..Height
      <4>1. x \in t /\ x \in Exits \cap mempool /\ y \in Exits \cap chain[k].txs
        BY <3>3, <2>1, <2>3, <2>5, <1>0
      <4> QED
        BY <4>1, <3>3 DEF RivalInv
    <3>4. CASE k = Height + 1 /\ h \in 1..Height
      <4>1. y \in t /\ y \in Exits \cap mempool /\ x \in Exits \cap chain[h].txs
        BY <3>4, <2>1, <2>3, <2>5, <1>0
      <4> QED
        BY <4>1, <3>4 DEF RivalInv
    <3> QED
      BY <2>2, <3>1, <3>2, <3>3, <3>4
  <2>6. ASSUME NEW h \in 1..Height', Exits \cap chain'[h].txs # {}
        PROVE  Exits \cap mempool' = {}
    <3>1. CASE h \in 1..Height
      BY <3>1, <2>1, <2>6 DEF RivalInv
    <3>2. CASE h = Height + 1
      <4>1. PICK x \in Exits : x \in t
        BY <3>2, <2>3, <2>6, <1>0
      <4> QED
        BY <4>1, <2>1 DEF RivalInv
    <3> QED
      BY <2>2, <3>1, <3>2
  <2> QED
    BY <2>4, <2>5, <2>6 DEF RivalInv
<1>3. CASE Reorg
  <2>1. PICK n \in 1..(Height - 1) :
          /\ Height' \in {n, Height}
          /\ \A h \in 1..n : chain'[h] = chain[h]
          /\ LET gone == mempool
                           \cup UNION {chain[h].txs : h \in n + 1..Height}
             IN  /\ mempool' \subseteq gone
                 /\ \A h \in n + 1..Height' :
                      /\ chain'[h].txs \subseteq gone \ mempool'
                      /\ h # n + 1 => chain'[h].txs = {}
    BY <1>0, <1>3, ReorgDoes
  <2> DEFINE gone == mempool \cup UNION {chain[h].txs : h \in n + 1..Height}
  <2>2. \A h \in n + 1..Height : h \in 1..Height /\ ~(h <= n)
    BY <1>0
  <2>3. \A x, y \in Exits \cap gone : x = y
    BY <2>2 DEF RivalInv
  <2>4. \A h \in 1..n : /\ h \in 1..Height /\ h # n + 1
                        /\ Exits \cap chain[h].txs # {} => Exits \cap gone = {}
    <3> SUFFICES ASSUME NEW h \in 1..n
                 PROVE  /\ h \in 1..Height /\ h # n + 1
                        /\ Exits \cap chain[h].txs # {} => Exits \cap gone = {}
      OBVIOUS
    <3>1. h \in 1..Height /\ h # n + 1 /\ \A k \in n + 1..Height : k # h
      BY <1>0
    <3> QED
      BY <3>1, <2>2 DEF RivalInv
  <2>5. /\ mempool' \subseteq gone
        /\ \A h \in n + 1..Height' : /\ chain'[h].txs \subseteq gone \ mempool'
                                     /\ h # n + 1 => chain'[h].txs = {}
    BY <2>1
  <2>6. \A h \in 1..Height' : h \in 1..n \/ h \in n + 1..Height'
    BY <1>0, <2>1
  <2> HIDE DEF gone
  <2>7. \A x, y \in Exits \cap mempool' : x = y
    BY <2>3, <2>5
  <2>8. ASSUME NEW h \in 1..Height', NEW k \in 1..Height',
               NEW x \in Exits \cap chain'[h].txs, NEW y \in Exits \cap chain'[k].txs
        PROVE  x = y /\ h = k
    <3>1. CASE h \in 1..n /\ k \in 1..n
      BY <3>1, <2>1, <2>4, <2>8 DEF RivalInv
    <3>2. CASE h \in n + 1..Height' /\ k \in n + 1..Height'
      BY <3>2, <2>3, <2>5, <2>8
    <3>3. CASE h \in 1..n /\ k \in n + 1..Height'
      BY <3>3, <2>1, <2>4, <2>5, <2>8
    <3>4. CASE k \in 1..n /\ h \in n + 1..Height'
      BY <3>4, <2>1, <2>4, <2>5, <2>8
    <3> QED
      BY <2>6, <3>1, <3>2, <3>3, <3>4
  <2>9. ASSUME NEW h \in 1..Height', Exits \cap chain'[h].txs # {}
        PROVE  Exits \cap mempool' = {}
    <3>1. CASE h \in 1..n
      BY <3>1, <2>1, <2>4, <2>5, <2>9
    <3>2. CASE h \in n + 1..Height'
      <4>1. PICK x \in Exits : x \in chain'[h].txs
        BY <2>9
      <4>2. x \in gone /\ x \notin mempool'
        BY <3>2, <4>1, <2>5
      <4> QED
        BY <4>2, <2>3, <2>5
    <3> QED
      BY <2>6, <3>1, <3>2
  <2> QED
    BY <2>7, <2>8, <2>9 DEF RivalInv
<1>4. ASSUME NEW x \in Txs, Broadcast(x)
      PROVE  RivalInv'
  <2>1. chain' = chain /\ Height' = Height
    BY <1>4 DEF Broadcast, Height
  <2>2. CASE x = "fund"
    <3>1. mempool' = mempool \cup {"fund"} /\ "fund" \notin Exits
      BY <1>4, <2>2, VaultAssumption, VaultFamily DEF Broadcast
    <3>2. Exits \cap mempool' = Exits \cap mempool
      BY <3>1
    <3> QED
      BY <2>1, <3>2 DEF RivalInv
  <2>3. CASE x \in Exits
    <3>1. Spends[x] = VaultCoin /\ VaultCoin # None
      BY <2>3, VaultAssumption, VaultFamily
    <3>2. /\ \A y \in Exits : ~InChain(y)
          /\ mempool' = (mempool \ Exits) \cup {x}
      BY <1>4, <3>1, VaultFamily, FamilyIs DEF Broadcast
    <3>3. \A h \in 1..Height : Exits \cap chain[h].txs = {}
      BY <3>2 DEF InChain
    <3>4. \A y, z \in Exits \cap mempool' : y = z
      BY <3>2
    <3> QED
      BY <2>1, <3>3, <3>4 DEF RivalInv
  <2> QED
    BY <2>2, <2>3, VaultFamily
<1>5. ASSUME NEW x \in Txs, Evict(x)
      PROVE  RivalInv'
  BY <1>5 DEF Evict, RivalInv, Height
<1>6. CASE ChainStep
  BY <1>2, <1>3, <1>4, <1>5, <1>6 DEF ChainStep, LedgerStep
<1> QED
  BY <1>1, <1>6 DEF Next, Watcher, PollFirst, PollStart, PollStartUnanswered,
     RefreshOne, ScanBlock, ScanBroken, ScanDone, AskTxout, ReadPool, Refresh,
     RefreshUnanswered, EndPoll, Restart, ledger, vars
-----------------------------------------------------------------------------
(* The record of the scan.  GHOST is claimed of a chain that stands still  *)
(* during a poll, a node that gives its mempool, and a search as deep as   *)
(* the chain is long; and either of a chain that is never reorganised, or  *)
(* of a watcher that is never restarted and always answered.  Each of      *)
(* these is needed: README, "What else the models show".                   *)
GhostTerms ==
    /\ MidPoll = {} /\ ~PoolMayFail /\ ~MayRequest
    /\ RescanDepth >= MaxHeight
    /\ MaxForks = 0 \/ (MaxFails = 0 /\ MaxRestarts = 0)

(* The block of this height is the one that was scanned. *)
Kept(h) == h \in 1..Height /\ (MaxForks = 0 \/ hashes[h] = HashAt(h))

LinkInv ==
    /\ Height >= 1
    /\ \A h \in 1..Height : HashAt(h) <= forks
    /\ \A h \in Heights : /\ hashes[h] <= forks
                          /\ Height < h /\ h <= scanned => hashes[h] < forks
    /\ \A h, k \in 1..Height : k < h /\ h <= scanned /\ Kept(h) => Kept(k)
    /\ MaxForks = 0 => scanned <= Height
    /\ MaxForks # 0 => /\ scanned >= 1 /\ Kept(1)
                       /\ \A h \in 1..scanned : hashes[h] # -1

PollInv ==
    /\ poll.phase # "idle" => /\ poll.tip = Height /\ scanned \in 0..Height
                              /\ \A h \in 1..scanned : Kept(h)
    /\ MaxForks # 0 /\ poll.phase \in {"batch", "alone", "refresh"} =>
         scanned = Height
    /\ poll.phase = "idle" => ~poll.answered /\ ~poll.read
    /\ poll.read => poll.pool = mempool
    /\ poll.answered => poll.out = Unspent(VaultCoin)

NoExits(a, b) == \A k \in a..b : Exits \cap chain[k].txs = {}

Unghosted(u) ==
    /\ u.state # "GHOST"
    /\ u.fundHeight = 0 <=> u.fundBlock = -1
    /\ u.state \notin Closed => u.height = 0

(* What the chain has up to a block that was scanned and still is there. *)
Clear(u, h) ==
    /\ u.state \notin Closed =>
         /\ u.seen \/ MaxForks # 0 => NoExits(1, h)
         /\ u.back # 0 => NoExits(u.back, h)
    /\ MaxForks # 0 /\ u.state \in Closed /\ h < u.height => NoExits(1, h)

Verdict(u) ==
    /\ Unghosted(u)
    /\ MaxForks # 0 => u.height <= scanned
    /\ \A h \in 1..Height : h <= scanned /\ Kept(h) => Clear(u, h)

VerdictInv ==
    ~undone =>
      /\ Known("fund")
      /\ \A b \in buried : b.height \in 1..Height /\ HashAt(b.height) = b.block
      /\ Verdict(v) /\ Unghosted(book)
      /\ ~book.seen /\ book.back = 0
      /\ scanned = -1 => ~v.seen /\ v.back = 0

LEMMA InitScan == Init => LinkInv /\ PollInv
<1> SUFFICES ASSUME Init PROVE LinkInv /\ PollInv
  OBVIOUS
<1>1. /\ Height = 1 /\ HashAt(1) = 0 /\ forks = 0 /\ scanned = 1
      /\ hashes = [k \in Heights |-> IF k = 1 THEN 0 ELSE -1]
      /\ poll = NoPoll
  BY DEF Init, ScannerInit, Height, HashAt
<1>2. 1 \in Heights
  BY LedgerAssumption DEF Heights
<1>3. LinkInv
  <2>1. \A h \in Heights : hashes[h] <= 0
    BY <1>1
  <2>2. Kept(1)
    BY <1>1, <1>2 DEF Kept
  <2>3. \A h \in 1..scanned : h = 1
    BY <1>1
  <2> QED
    BY <1>1, <1>2, <2>1, <2>2, <2>3 DEF LinkInv, Heights
<1>4. PollInv
  BY <1>1 DEF PollInv, NoPoll
<1> QED
  BY <1>3, <1>4

LEMMA HashTypes ==
  ASSUME TypeOK
  PROVE  /\ \A h \in 1..Height : h \in Heights /\ HashAt(h) \in 0..MaxForks
         /\ \A h \in Heights : hashes[h] \in -1..MaxForks
         /\ forks \in 0..MaxForks /\ Heights = 1..MaxHeight
BY BlockAt DEF TypeOK, ScannerTypeOK, LedgerTypeOK, HashAt, Heights

(* A block that was scanned and still is there, and all below it, are not  *)
(* touched by a step of the chain that leaves it there.                    *)
LEMMA ChainKeeps ==
  ASSUME TypeOK, LinkInv, ChainStep
  PROVE  /\ LinkInv'
         /\ \A h \in 1..Height' : h <= scanned /\ Kept(h)' =>
              /\ h \in 1..Height /\ Kept(h)
              /\ \A k \in 1..h : chain'[k] = chain[k]
<1>0. /\ LedgerTypeOK /\ Height \in Nat /\ scanned \in Int /\ MaxForks \in Nat
      /\ forks \in 0..MaxForks /\ hashes' = hashes /\ scanned' = scanned
      /\ Heights = 1..MaxHeight /\ Height \in 0..MaxHeight /\ MaxHeight \in Nat
  BY NumberTypes, HashTypes DEF TypeOK, ChainStep, scan
<1>1. CASE Mine
  <2>0. PICK top : top = Height + 1
    OBVIOUS
  <2>1. /\ Height' = top /\ forks' = forks /\ top = Height + 1
        /\ \A h \in 1..Height : chain'[h] = chain[h]
        /\ chain'[top].fork = forks
        /\ LedgerTypeOK'
    BY <1>0, <1>1, <2>0, MineDoes
  <2>2. Height' \in 0..MaxHeight
    BY <2>1 DEF LedgerTypeOK, Height
  <2>3. \A h \in 1..Height : HashAt(h)' = HashAt(h)
    BY <2>1 DEF HashAt
  <2>4. HashAt(top)' = forks
    BY <2>1 DEF HashAt
  <2>5. \A h \in 1..Height : Kept(h)' <=> Kept(h)
    BY <1>0, <2>1, <2>3 DEF Kept
  <2>6. top <= scanned => ~Kept(top)'
    <3> SUFFICES ASSUME top <= scanned PROVE ~Kept(top)'
      OBVIOUS
    <3>1. top \in Heights /\ Height < top
      BY <1>0, <2>1, <2>2
    <3>2. hashes[top] < forks
      BY <3>1 DEF LinkInv
    <3>3. MaxForks # 0
      BY <1>0, <2>1 DEF LinkInv
    <3>4. hashes[top] \in Int
      BY <3>1, HashTypes
    <3> QED
      BY <1>0, <2>4, <3>2, <3>3, <3>4 DEF Kept
  <2>7. \A h \in 1..Height' : h \in 1..Height \/ h = top
    BY <1>0, <2>1
  <2>8. \A h \in 1..Height' : h <= scanned /\ Kept(h)' => h \in 1..Height /\ Kept(h)
    BY <2>5, <2>6, <2>7
  <2>9. \A h \in 1..Height : \A k \in 1..h : k \in 1..Height
    BY <1>0
  <2>10. LinkInv'
    <3>1. Height' >= 1 /\ \A h \in 1..Height' : HashAt(h)' <= forks'
      BY <1>0, <2>1, <2>3, <2>4, <2>7 DEF LinkInv
    <3>2. \A h \in Heights : /\ hashes[h] <= forks
                             /\ Height' < h /\ h <= scanned => hashes[h] < forks
      BY <1>0, <2>1 DEF LinkInv
    <3>3. \A h, k \in 1..Height' : k < h /\ h <= scanned /\ Kept(h)' => Kept(k)'
      <4> TAKE h, k \in 1..Height'
      <4> HAVE k < h /\ h <= scanned /\ Kept(h)'
      <4>1. h \in 1..Height /\ Kept(h)
        BY <2>8
      <4>2. k \in 1..Height
        BY <4>1, <1>0
      <4> QED
        BY <4>1, <4>2, <2>5 DEF LinkInv
    <3>4. MaxForks = 0 => scanned <= Height'
      BY <1>0, <2>1 DEF LinkInv
    <3>5. MaxForks # 0 => /\ scanned >= 1 /\ Kept(1)'
                          /\ \A h \in 1..scanned : hashes[h] # -1
      <4>1. 1 \in 1..Height
        BY <1>0 DEF LinkInv
      <4> QED
        BY <4>1, <2>5 DEF LinkInv
    <3> QED
      BY <1>0, <2>1, <3>1, <3>2, <3>3, <3>4, <3>5 DEF LinkInv
  <2> QED
    BY <2>1, <2>8, <2>9, <2>10
<1>2. CASE Reorg
  <2>1. PICK n \in 1..(Height - 1) :
          /\ Height' \in {n, Height}
          /\ \A h \in 1..n : chain'[h] = chain[h]
          /\ \A h \in n + 1..Height' : chain'[h].fork = forks + 1
    BY <1>0, <1>2, ReorgDoes
  <2>2. forks' = forks + 1 /\ forks < MaxForks /\ MaxForks # 0
    BY <1>0, <1>2, ReorgDoes
  <2>3. Height' <= Height /\ n \in Nat /\ n >= 1 /\ n <= Height' /\ n < Height
    BY <1>0, <2>1
  <2>4. \A h \in 1..n : h \in 1..Height /\ h \in 1..Height' /\ HashAt(h)' = HashAt(h)
    BY <1>0, <2>1, <2>3 DEF HashAt
  <2>5. \A h \in n + 1..Height' : HashAt(h)' = forks + 1 /\ h \in Heights
                                  /\ h \in 1..Height
    BY <1>0, <2>1, <2>3 DEF HashAt
  <2>6. \A h \in 1..n : Kept(h)' <=> Kept(h)
    BY <1>0, <2>4 DEF Kept
  <2>7. \A h \in n + 1..Height' : ~Kept(h)'
    <3> TAKE h \in n + 1..Height'
    <3>1. hashes[h] <= forks /\ hashes[h] \in Int
      BY <2>5, HashTypes DEF LinkInv
    <3> QED
      BY <1>0, <2>2, <2>5, <3>1 DEF Kept
  <2>8. \A h \in 1..Height' : h \in 1..n \/ h \in n + 1..Height'
    BY <2>3, <1>0
  <2>9. \A h \in 1..Height' : Kept(h)' => h \in 1..n /\ h \in 1..Height /\ Kept(h)
    BY <2>4, <2>6, <2>7, <2>8
  <2>10. LinkInv'
    <3>1. Height' >= 1 /\ \A h \in 1..Height' : HashAt(h)' <= forks'
      <4>1. \A h \in 1..n : HashAt(h) \in Int /\ HashAt(h) <= forks
        BY <2>4, HashTypes DEF LinkInv
      <4> QED
        BY <1>0, <2>2, <2>3, <2>4, <2>5, <2>8, <4>1
    <3>2. \A h \in Heights : hashes[h] <= forks' /\ hashes[h] < forks'
      BY <1>0, <2>2, HashTypes DEF LinkInv
    <3>3. \A h, k \in 1..Height' : k < h /\ h <= scanned /\ Kept(h)' => Kept(k)'
      <4> TAKE h, k \in 1..Height'
      <4> HAVE k < h /\ h <= scanned /\ Kept(h)'
      <4>1. h \in 1..n /\ h \in 1..Height /\ Kept(h)
        BY <2>9
      <4>2. k \in 1..n /\ k \in 1..Height
        BY <4>1, <2>3, <2>4
      <4> QED
        BY <4>1, <4>2, <2>6 DEF LinkInv
    <3>4. scanned >= 1 /\ Kept(1)' /\ \A h \in 1..scanned : hashes[h] # -1
      <4>1. 1 \in 1..n
        BY <2>3
      <4> QED
        BY <4>1, <2>2, <2>6 DEF LinkInv
    <3> QED
      BY <1>0, <2>2, <3>1, <3>2, <3>3, <3>4 DEF LinkInv
  <2>11. \A h \in 1..n : \A k \in 1..h : k \in 1..n
    BY <2>3
  <2> QED
    BY <2>1, <2>9, <2>10, <2>11
<1>3. CASE \E x \in Txs : Broadcast(x) \/ Evict(x)
  <2>1. chain' = chain /\ forks' = forks /\ Height' = Height
    BY <1>3 DEF Broadcast, Evict, Height
  <2>2. \A h : (Kept(h)' <=> Kept(h)) /\ HashAt(h)' = HashAt(h)
    BY <1>0, <2>1 DEF Kept, HashAt
  <2> QED
    BY <1>0, <2>1, <2>2 DEF LinkInv
<1> QED
  BY <1>1, <1>2, <1>3 DEF ChainStep, LedgerStep

LEMMA NeverReorged ==
  ASSUME TypeOK, LinkInv, MaxForks = 0
  PROVE  NotReorged(Height)
<1>1. scanned <= Height /\ scanned \in Int /\ Height \in Int
  BY NumberTypes DEF LinkInv
<1>2. CASE scanned < 1
  BY <1>2 DEF NotReorged
<1>3. CASE scanned >= 1
  <2>1. scanned \in 1..Height
    BY <1>1, <1>3
  <2>2. scanned \in Heights /\ HashAt(scanned) \in 0..0 /\ hashes[scanned] \in -1..0
    BY <2>1, HashTypes
  <2> QED
    BY <1>1, <2>2 DEF NotReorged
<1> QED
  BY <1>1, <1>2, <1>3

(* The rewind stops at a block that still is there. *)
LEMMA RewindKept ==
  ASSUME TypeOK, LinkInv, RescanDepth >= MaxHeight, MaxForks # 0
  PROVE  LET a == Ancestor(Height)
         IN  /\ a \in 1..Height /\ a <= scanned /\ Kept(a)
             /\ \A h \in 1..a : Kept(h)
             /\ \A h \in 1..Height : h <= scanned /\ Kept(h) => h <= a
<1> DEFINE start == SmallerOf(scanned, Height)
           onRecord == {h \in Heights : hashes[h] # -1}
           known == IF onRecord = {} THEN start ELSE Lowest(onRecord)
           floor == LargerOf(0, LargerOf(start - RescanDepth, known - 1))
           a == Ancestor(Height)
<1>1. /\ scanned >= 1 /\ Height >= 1 /\ scanned \in Int /\ Height \in 0..MaxHeight
      /\ Height \in Int /\ MaxHeight \in Nat /\ RescanDepth \in Nat
      /\ RescanDepth >= MaxHeight /\ Heights = 1..MaxHeight
  BY NumberTypes, HashTypes DEF LinkInv
<1>2. Kept(1) /\ hashes[1] # -1 /\ hashes[1] = HashAt(1) /\ 1 \in Heights
  BY <1>1 DEF LinkInv, Kept
<1>3. start \in 1..MaxHeight /\ start <= scanned /\ start <= Height
      /\ \A h \in Int : h <= scanned /\ h <= Height => h <= start
  BY <1>1 DEF SmallerOf
<1>4. Lowest(onRecord) = 1 /\ onRecord # {}
  <2>1. 1 \in onRecord /\ onRecord \subseteq Nat /\ \A h \in onRecord : h >= 1
    BY <1>1, <1>2
  <2> HIDE DEF onRecord
  <2>2. Lowest(onRecord) \in onRecord /\ \A k \in onRecord : Lowest(onRecord) <= k
    BY <2>1, Least
  <2>3. Lowest(onRecord) \in Nat /\ Lowest(onRecord) >= 1 /\ Lowest(onRecord) <= 1
    BY <2>1, <2>2
  <2>4. \A m \in Nat : m >= 1 /\ m <= 1 => m = 1
    OBVIOUS
  <2>5. Lowest(onRecord) = 1
    BY <2>3, <2>4
  <2> QED
    BY <2>1, <2>5
<1>5. floor = 0
  <2>1. known = 1
    BY <1>4
  <2>2. start - RescanDepth <= 0 /\ start - RescanDepth \in Int
    BY <1>1, <1>3
  <2> HIDE DEF known, start
  <2> QED
    BY <2>1, <2>2 DEF LargerOf
<1>6. /\ a \in 0..start
      /\ \/ start <= floor /\ a = start
         \/ /\ start > floor
            /\ \A h \in 1..start :
                 hashes[h] # -1 /\ hashes[h] = HashAt(h) => h <= a \/ h <= floor
            /\ \/ a = floor
               \/ a > floor /\ hashes[a] # -1 /\ hashes[a] = HashAt(a)
  BY <1>1, AncestorIs
<1> HIDE DEF start, onRecord, known, floor, a
<1>7. /\ \A h \in 1..start : hashes[h] # -1 /\ hashes[h] = HashAt(h) => h <= a
      /\ a # 0 => hashes[a] = HashAt(a)
  BY <1>3, <1>5, <1>6
<1>8. 1 <= a
  BY <1>2, <1>3, <1>7
<1>9. a \in 1..Height /\ a <= scanned /\ Kept(a)
  BY <1>1, <1>3, <1>6, <1>7, <1>8 DEF Kept
<1>10. \A h \in 1..a : Kept(h)
  <2> TAKE h \in 1..a
  <2>1. h = a \/ (h < a /\ h \in 1..Height)
    BY <1>1, <1>9
  <2> QED
    BY <1>9, <2>1 DEF LinkInv
<1>11. \A h \in 1..Height : h <= scanned /\ Kept(h) => h <= a
  <2> TAKE h \in 1..Height
  <2> HAVE h <= scanned /\ Kept(h)
  <2>1. hashes[h] # -1 /\ hashes[h] = HashAt(h)
    BY <1>1 DEF LinkInv, Kept
  <2>2. h \in 1..start
    BY <1>1, <1>3
  <2> QED
    BY <2>1, <2>2, <1>7
<1> QED
  BY <1>9, <1>10, <1>11 DEF a

(* With the search as deep as the chain is long, no hash is forgotten but  *)
(* by the rewind.                                                          *)
LEMMA EndPollLink ==
  ASSUME TypeOK, LinkInv, MaxForks # 0 => RescanDepth >= MaxHeight,
         NEW calm, EndPoll(calm)
  PROVE  /\ LinkInv' /\ PollInv' /\ scanned' = scanned
         /\ \A h : Kept(h)' <=> Kept(h)
<1>1. /\ Height \in 0..MaxHeight /\ MaxHeight \in Nat /\ RescanDepth \in Nat
      /\ Heights = 1..MaxHeight /\ poll.tip \in 0..MaxHeight
      /\ scanned \in -1..MaxHeight /\ forks \in Nat
  BY NumberTypes, HashTypes DEF TypeOK, ScannerTypeOK
<1>2. /\ poll' = NoPoll /\ chain' = chain /\ forks' = forks /\ mempool' = mempool
      /\ scanned' = scanned /\ Height' = Height
  BY DEF EndPoll, ledger, Height
<1>3. MaxForks # 0 => {h \in Heights : h < poll.tip - RescanDepth} = {}
  BY <1>1
<1>4. \A h \in Heights : /\ hashes'[h] \in {hashes[h], -1}
                         /\ MaxForks # 0 => hashes'[h] = hashes[h]
  BY <1>3 DEF EndPoll, Forget
<1>5. \A h \in 1..Height : h \in Heights
  BY <1>1
<1>6. \A h : (Kept(h)' <=> Kept(h)) /\ HashAt(h)' = HashAt(h)
  BY <1>2, <1>4, <1>5 DEF Kept, HashAt
<1>7. \A h \in 1..scanned : h \in Heights
  BY <1>1
<1>8. LinkInv'
  <2>1. \A h \in 1..Height : HashAt(h)' <= forks'
    BY <1>2, <1>6 DEF LinkInv
  <2>2. \A h \in Heights : /\ hashes'[h] <= forks'
                           /\ Height' < h /\ h <= scanned' => hashes'[h] < forks'
    <3> TAKE h \in Heights
    <3>1. -1 < forks /\ -1 <= forks
      BY <1>1
    <3>2. /\ hashes[h] <= forks
          /\ Height < h /\ h <= scanned => hashes[h] < forks
      BY DEF LinkInv
    <3> QED
      BY <1>2, <1>4, <3>1, <3>2
  <2>3. \A h, k \in 1..Height' : k < h /\ h <= scanned' /\ Kept(h)' => Kept(k)'
    BY <1>2, <1>6 DEF LinkInv
  <2>4. MaxForks = 0 => scanned' <= Height'
    BY <1>2 DEF LinkInv
  <2>5. MaxForks # 0 => /\ scanned' >= 1 /\ Kept(1)'
                        /\ \A h \in 1..scanned' : hashes'[h] # -1
    BY <1>2, <1>4, <1>6, <1>7 DEF LinkInv
  <2>6. Height' >= 1
    BY <1>2 DEF LinkInv
  <2> QED
    BY <1>2, <2>1, <2>2, <2>3, <2>4, <2>5, <2>6 DEF LinkInv
<1>9. PollInv'
  BY <1>2 DEF PollInv, NoPoll
<1> QED
  BY <1>2, <1>6, <1>8, <1>9

(* A block scanned is a block kept. *)
LEMMA ScanKeeps ==
  ASSUME TypeOK, LinkInv, scanned \in 0..Height, \A h \in 1..scanned : Kept(h),
         ScanBlock
  PROVE  /\ scanned + 1 \in 1..Height /\ scanned \in Nat
         /\ scanned' = scanned + 1 /\ Height' = Height
         /\ \A h \in 1..scanned + 1 : Kept(h)'
         /\ LinkInv'
<1>0. PICK top : top = scanned + 1
  OBVIOUS
<1>1. /\ Height \in 0..MaxHeight /\ MaxHeight \in Nat /\ Heights = 1..MaxHeight
      /\ top <= Height
  BY <1>0, NumberTypes, HashTypes DEF ScanBlock
<1>2. /\ scanned' = top /\ hashes' = [hashes EXCEPT ![top] = HashAt(top)]
      /\ chain' = chain /\ forks' = forks /\ mempool' = mempool /\ Height' = Height
      /\ poll' = poll
  BY <1>0 DEF ScanBlock, ledger, Height
<1>3. top \in 1..Height /\ top \in Heights /\ scanned \in Nat /\ top = scanned + 1
  BY <1>0, <1>1
<1>4. hashes \in [Heights -> -1..MaxForks]
  BY DEF TypeOK, ScannerTypeOK
<1>5. /\ hashes'[top] = HashAt(top)
      /\ \A h \in Heights : h # top => hashes'[h] = hashes[h]
  BY <1>2, <1>3, <1>4
<1>6. \A h : HashAt(h)' = HashAt(h)
  BY <1>2 DEF HashAt
<1>7. \A h \in 1..Height : h \in Heights
  BY <1>1
<1>8. \A h \in 1..Height : h # top => (Kept(h)' <=> Kept(h))
  BY <1>2, <1>5, <1>6, <1>7 DEF Kept
<1>9. Kept(top)'
  BY <1>2, <1>3, <1>5, <1>6 DEF Kept
<1>10. \A h \in 1..top : h = top \/ (h \in 1..scanned /\ h \in 1..Height /\ h # top)
  BY <1>1, <1>3
<1>11. \A h \in 1..top : Kept(h)'
  BY <1>1, <1>8, <1>9, <1>10
<1>12. LinkInv'
  <2>1. \A h \in 1..Height : HashAt(h)' <= forks'
    BY <1>2, <1>6 DEF LinkInv
  <2>2. \A h \in Heights : hashes'[h] <= forks'
    BY <1>2, <1>3, <1>5 DEF LinkInv
  <2>3. \A h \in Heights : ~(Height' < h /\ h <= scanned')
    BY <1>1, <1>2, <1>3
  <2>4. \A h, k \in 1..Height' : k < h /\ h <= scanned' /\ Kept(h)' => Kept(k)'
    <3> TAKE h, k \in 1..Height'
    <3> HAVE k < h /\ h <= scanned' /\ Kept(h)'
    <3>1. k \in 1..top
      BY <1>1, <1>2, <1>3
    <3> QED
      BY <3>1, <1>11
  <2>5. MaxForks = 0 => scanned' <= Height'
    BY <1>2, <1>3
  <2>6. MaxForks # 0 => /\ scanned' >= 1 /\ Kept(1)'
                        /\ \A h \in 1..scanned' : hashes'[h] # -1
    <3>1. 1 \in 1..top
      BY <1>3
    <3>2. \A h \in 1..scanned : MaxForks # 0 => hashes[h] # -1
      BY DEF LinkInv
    <3>3. HashAt(top) # -1
      BY <1>3, HashTypes
    <3> QED
      BY <1>2, <1>3, <1>5, <1>7, <1>10, <1>11, <3>1, <3>2, <3>3
  <2>7. Height' >= 1
    BY <1>2 DEF LinkInv
  <2> QED
    BY <1>2, <2>1, <2>2, <2>3, <2>4, <2>5, <2>6, <2>7 DEF LinkInv
<1> QED
  BY <1>0, <1>1, <1>2, <1>3, <1>11, <1>12

LEMMA ScanPoll ==
  ASSUME TypeOK, LinkInv, PollInv, ScanBlock
  PROVE  /\ scanned \in 0..Height /\ \A h \in 1..scanned : Kept(h)
         /\ PollInv'
<1>1. /\ poll.phase = "scan" /\ scanned \in 0..Height /\ poll.tip = Height
      /\ \A h \in 1..scanned : Kept(h) /\ Height \in Nat
  BY NumberTypes DEF ScanBlock, PollInv
<1>2. PICK top : top = scanned + 1
  OBVIOUS
<1>3. /\ scanned' = top /\ Height' = Height /\ top \in 0..Height
      /\ \A h \in 1..top : Kept(h)'
  BY <1>1, <1>2, ScanKeeps
<1>4. poll' = poll /\ chain' = chain /\ mempool' = mempool
  BY DEF ScanBlock, ledger
<1>5. /\ poll'.read => poll'.pool = mempool'
      /\ poll'.answered => poll'.out = Unspent(VaultCoin)'
  <2>1. Unspent(VaultCoin)' = Unspent(VaultCoin)
    BY <1>4 DEF Unspent, Known, InChain, Height
  <2> QED
    BY <1>4, <2>1 DEF PollInv
<1>6. poll'.phase = "scan" /\ poll'.tip = Height' /\ scanned' \in 0..Height'
  BY <1>1, <1>3, <1>4
<1> QED
  BY <1>1, <1>3, <1>5, <1>6 DEF PollInv

LEMMA StartLink ==
  ASSUME TypeOK, LinkInv, MaxForks # 0 => RescanDepth >= MaxHeight, PollStart
  PROVE  /\ LinkInv' /\ PollInv'
         /\ \/ scan' = scan /\ v' = v
            \/ /\ MaxForks # 0 /\ scanned' = Ancestor(Height)
               /\ v' = UndoneAbove(Ancestor(Height))
               /\ \A h \in 1..Ancestor(Height) : Kept(h) /\ Kept(h)'
         /\ chain' = chain
<1>1. /\ scanned # -1 /\ scanned \in -1..MaxHeight /\ scanned \in Int
      /\ Height \in 0..MaxHeight /\ MaxHeight \in Nat /\ Heights = 1..MaxHeight
  BY NumberTypes, HashTypes DEF PollStart, TypeOK, ScannerTypeOK
<1>2. /\ chain' = chain /\ forks' = forks /\ mempool' = mempool /\ Height' = Height
      /\ \A h : HashAt(h)' = HashAt(h)
      /\ poll'.phase = "scan" /\ poll'.tip = Height
      /\ ~poll'.answered /\ ~poll'.read
  BY DEF PollStart, ledger, Height, HashAt, Begin, NoPoll
<1>3. CASE NotReorged(Height)
  <2>1. scanned' = scanned /\ hashes' = hashes /\ v' = v
    BY <1>3 DEF PollStart, scan
  <2>2. \A h : Kept(h)' <=> Kept(h)
    BY <1>2, <2>1 DEF Kept
  <2>3. LinkInv'
    BY <1>2, <2>1, <2>2 DEF LinkInv
  <2>4. scanned \in 0..Height /\ \A h \in 1..scanned : Kept(h)
    <3>1. CASE scanned < 1
      BY <1>1, <3>1
    <3>2. CASE scanned >= 1
      <4>1. MaxForks # 0 => hashes[scanned] # -1
        BY <1>1, <3>2 DEF LinkInv
      <4>2. scanned <= Height
        BY <1>1, <1>3, <3>2, <4>1 DEF NotReorged, LinkInv
      <4>3. scanned \in 1..Height /\ Kept(scanned)
        BY <1>1, <1>3, <3>2, <4>1, <4>2 DEF NotReorged, Kept
      <4>4. \A h \in 1..scanned : h = scanned \/ (h < scanned /\ h \in 1..Height)
        BY <1>1, <4>3
      <4> QED
        BY <1>1, <4>3, <4>4 DEF LinkInv
    <3> QED
      BY <1>1, <3>1, <3>2
  <2>5. PollInv'
    BY <1>2, <2>1, <2>2, <2>4 DEF PollInv
  <2> QED
    BY <1>2, <2>1, <2>3, <2>5 DEF scan
<1>4. CASE ~NotReorged(Height)
  <2>1. MaxForks # 0
    BY <1>4, NeverReorged
  <2>2. PICK a : a = Ancestor(Height)
    OBVIOUS
  <2>3. /\ a \in 1..Height /\ a <= scanned /\ \A h \in 1..a : Kept(h)
        /\ \A h \in 1..a : h \in 1..Height /\ h \in 1..scanned
    <3>1. /\ a \in 1..Height /\ a <= scanned /\ \A h \in 1..a : Kept(h)
      BY <2>1, <2>2, RewindKept
    <3> QED
      BY <3>1, <1>1
  <2>4. /\ v' = UndoneAbove(a) /\ scanned' = a
        /\ hashes' = Forget(hashes, a + 1 .. MaxHeight)
    BY <1>4, <2>2 DEF PollStart
  <2>5. \A h \in Heights : hashes'[h] = IF h \in a + 1 .. MaxHeight THEN -1 ELSE hashes[h]
    BY <2>4 DEF Forget
  <2>6. \A h \in 1..a : hashes'[h] = hashes[h] /\ (Kept(h)' <=> Kept(h))
    <3>1. \A h \in 1..a : h \in Heights /\ h \notin a + 1 .. MaxHeight
      BY <1>1, <2>3
    <3>2. \A h \in 1..a : hashes'[h] = hashes[h]
      BY <2>5, <3>1
    <3> QED
      BY <1>2, <3>2 DEF Kept
  <2>7. LinkInv'
    <3>1. \A h \in 1..Height : HashAt(h)' <= forks'
      BY <1>2 DEF LinkInv
    <3>2. \A h \in Heights : hashes'[h] <= forks'
      <4>1. forks \in Nat
        BY HashTypes
      <4> QED
        BY <1>2, <2>5, <4>1 DEF LinkInv
    <3>3. \A h \in Heights : ~(Height' < h /\ h <= scanned')
      BY <1>1, <1>2, <2>3, <2>4
    <3>4. \A h, k \in 1..Height' : k < h /\ h <= scanned' /\ Kept(h)' => Kept(k)'
      <4> TAKE h, k \in 1..Height'
      <4> HAVE k < h /\ h <= scanned' /\ Kept(h)'
      <4>1. k \in 1..a
        BY <1>1, <1>2, <2>3, <2>4
      <4> QED
        BY <4>1, <2>3, <2>6
    <3>5. scanned' >= 1 /\ Kept(1)' /\ \A h \in 1..scanned' : hashes'[h] # -1
      <4>1. 1 \in 1..a /\ a >= 1
        BY <1>1, <2>3
      <4>2. \A h \in 1..a : hashes[h] # -1
        BY <2>1, <2>3 DEF LinkInv
      <4> QED
        BY <4>1, <4>2, <2>3, <2>4, <2>6
    <3>6. Height' >= 1
      BY <1>2 DEF LinkInv
    <3> QED
      BY <1>2, <2>1, <3>1, <3>2, <3>3, <3>4, <3>5, <3>6 DEF LinkInv
  <2>8. PollInv'
    <3>1. scanned' \in 0..Height' /\ \A h \in 1..scanned' : Kept(h)'
      BY <1>1, <1>2, <2>3, <2>4, <2>6
    <3> QED
      BY <1>2, <3>1 DEF PollInv
  <2> QED
    BY <1>2, <2>1, <2>2, <2>3, <2>4, <2>6, <2>7, <2>8
<1> QED
  BY <1>3, <1>4

LEMMA LinkStep ==
  ASSUME TypeOK, LinkInv, PollInv, GhostTerms, [Next]_vars
  PROVE  LinkInv' /\ PollInv'
<1>0. /\ Height \in 0..MaxHeight /\ MaxHeight \in Nat /\ Heights = 1..MaxHeight
      /\ scanned \in Int /\ forks \in Nat /\ MaxForks \in Nat
      /\ MaxFails = 0 => ~Unanswered
      /\ poll \in Polls
  BY NumberTypes, HashTypes, ScannerAssumption
     DEF TypeOK, ScannerTypeOK, Unanswered
<1>1. CASE UNCHANGED vars
  <2>1. /\ UNCHANGED <<chain, mempool, forks, scanned, hashes, poll>>
    BY <1>1 DEF vars, ledger, scan
  <2> QED
    BY <2>1 DEF LinkInv, PollInv, Height, HashAt, Kept, Unspent, Known, InChain
<1>2. CASE PollFirst
  <2>1. MaxForks = 0
    BY <1>2, <1>0 DEF PollFirst, LinkInv
  <2>2. /\ scanned' = Height /\ chain' = chain /\ forks' = forks
        /\ mempool' = mempool /\ Height' = Height /\ \A h : HashAt(h)' = HashAt(h)
        /\ hashes' = [hashes EXCEPT ![Height] = HashAt(Height)]
        /\ poll' = [Begin EXCEPT !.phase = "batch"]
    BY <1>2 DEF PollFirst, ledger, Height, HashAt
  <2>3. poll'.phase = "batch" /\ poll'.tip = Height /\ ~poll'.read /\ ~poll'.answered
    BY <2>2 DEF Begin, NoPoll
  <2>4. \A h \in 1..Height : Kept(h)'
    BY <2>1, <2>2 DEF Kept
  <2>5. \A h \in Heights : hashes'[h] \in {hashes[h], HashAt(Height)}
    BY <2>2 DEF TypeOK, ScannerTypeOK
  <2>6. Height \in 1..Height
    BY <1>0 DEF LinkInv
  <2>7. \A h \in Heights : hashes'[h] <= forks
    BY <2>5, <2>6 DEF LinkInv
  <2>8. \A h \in Heights : ~(Height' < h /\ h <= scanned')
    BY <1>0, <2>2
  <2>9. LinkInv'
    BY <1>0, <2>1, <2>2, <2>4, <2>7, <2>8 DEF LinkInv
  <2>10. PollInv'
    BY <1>0, <2>1, <2>2, <2>3, <2>4 DEF PollInv
  <2> QED
    BY <2>9, <2>10
<1>3. CASE PollStart
  BY <1>3, StartLink DEF GhostTerms
<1>4. CASE PollStartUnanswered
  <2>1. MaxForks = 0
    BY <1>0, <1>4 DEF PollStartUnanswered, GhostTerms
  <2> QED
    BY <1>4, <2>1, NeverReorged DEF PollStartUnanswered
<1>5. CASE RefreshOne
  BY <1>5 DEF RefreshOne, GhostTerms
<1>6. CASE ScanBlock
  BY <1>6, ScanPoll, ScanKeeps
<1>7. CASE ScanBroken \/ ScanDone \/ AskTxout \/ ReadPool
  <2>1. UNCHANGED <<chain, mempool, forks, scanned, hashes>>
    BY <1>7 DEF ScanBroken, ScanDone, AskTxout, ReadPool, ledger, scan
  <2>2. LinkInv' /\ Height' = Height /\ Unspent(VaultCoin)' = Unspent(VaultCoin)
    BY <2>1 DEF LinkInv, Height, HashAt, Kept, Unspent, Known, InChain
  <2>3. \A h : Kept(h)' <=> Kept(h)
    BY <2>1 DEF Kept, Height, HashAt
  <2>4. poll.phase # "idle"
    BY <1>7 DEF ScanBroken, ScanDone, AskTxout, ReadPool, ReadMempool
  <2>5. /\ poll.tip = Height /\ scanned \in 0..Height /\ \A h \in 1..scanned : Kept(h)
        /\ poll.read => poll.pool = mempool
        /\ poll.answered => poll.out = Unspent(VaultCoin)
        /\ MaxForks # 0 /\ poll.phase \in {"batch", "alone", "refresh"} =>
             scanned = Height
    BY <2>4 DEF PollInv
  <2>6. /\ poll'.phase \in {"batch", "alone", "refresh"}
        /\ poll'.tip = poll.tip
        /\ poll'.read => poll'.pool = mempool
        /\ poll'.answered => poll'.out = Unspent(VaultCoin)
    <3>1. CASE ScanBroken \/ ScanDone
      BY <1>0, <2>5, <3>1 DEF ScanBroken, ScanDone, Polls
    <3>2. CASE AskTxout
      <4>1. CASE poll' = [poll EXCEPT !.phase = "refresh", !.answered = TRUE,
                                  !.out = Unspent(VaultCoin),
                                  !.conf = IF Unspent(VaultCoin)
                                           THEN Confirmations(VaultCoin)
                                           ELSE 0]
        BY <1>0, <2>5, <4>1 DEF Polls
      <4>2. CASE poll' = [poll EXCEPT !.calm = FALSE,
                       !.phase = IF @ = "batch" THEN "alone" ELSE "refresh"]
        BY <1>0, <2>5, <4>2 DEF Polls
      <4> QED
        BY <3>2, <4>1, <4>2 DEF AskTxout
    <3>3. CASE ReadPool
      <4>1. poll' = [poll EXCEPT !.read = TRUE, !.pool = mempool]
        BY <3>3 DEF ReadPool, ReadMempool, GhostTerms
      <4>2. poll.phase \in {"alone", "refresh"}
        BY <3>3 DEF ReadPool, ReadMempool
      <4> QED
        BY <1>0, <2>5, <4>1, <4>2 DEF Polls
    <3> QED
      BY <1>7, <3>1, <3>2, <3>3
  <2>7. MaxForks # 0 => scanned = Height
    <3> SUFFICES ASSUME MaxForks # 0 PROVE scanned = Height
      OBVIOUS
    <3>1. CASE poll.phase = "scan"
      <4>1. scanned >= poll.tip
        <5>1. ~Unanswered
          BY <1>0 DEF GhostTerms
        <5>2. ~ScanBroken
          BY <1>0, <2>5, <5>1 DEF ScanBroken
        <5> QED
          BY <1>7, <3>1, <5>2 DEF ScanDone, AskTxout, ReadPool, ReadMempool
      <4> QED
        BY <1>0, <2>5, <4>1
    <3>2. CASE poll.phase # "scan"
      BY <1>7, <2>5, <3>2 DEF ScanBroken, ScanDone, AskTxout, ReadPool, ReadMempool
    <3> QED
      BY <3>1, <3>2
  <2>8. PollInv'
    BY <2>1, <2>2, <2>3, <2>5, <2>6, <2>7 DEF PollInv
  <2> QED
    BY <2>2, <2>8
<1>8. CASE Refresh \/ RefreshUnanswered
  <2>1. \E calm : EndPoll(calm)
    BY <1>8 DEF Refresh, RefreshUnanswered
  <2> QED
    BY <2>1, EndPollLink DEF GhostTerms
<1>9. CASE Restart
  <2>1. MaxForks = 0
    <3>1. restarts \in 0..MaxRestarts /\ restarts < MaxRestarts
      BY <1>9 DEF Restart, TypeOK
    <3>2. MaxRestarts # 0
      BY <3>1
    <3> QED
      BY <3>2 DEF GhostTerms
  <2>2. /\ chain' = chain /\ forks' = forks /\ Height' = Height
        /\ \A h : HashAt(h)' = HashAt(h)
        /\ hashes' = [h \in Heights |-> -1] /\ poll' = NoPoll
        /\ scanned' <= Height
    BY <1>0, <1>9 DEF Restart, ledger, Height, HashAt
  <2>3. \A h \in 1..Height : Kept(h)'
    BY <2>1, <2>2 DEF Kept
  <2>4. \A h \in Heights : hashes'[h] <= forks /\ hashes'[h] < forks
    BY <1>0, <2>2
  <2>5. LinkInv'
    BY <2>1, <2>2, <2>3, <2>4 DEF LinkInv
  <2>6. PollInv'
    BY <2>2 DEF PollInv, NoPoll
  <2> QED
    BY <2>5, <2>6
<1>10. CASE ChainStep
  <2>1. poll.phase = "idle" /\ poll' = [poll EXCEPT !.calm = FALSE]
    BY <1>10 DEF ChainStep, LedgerStep, May, GhostTerms
  <2>2. /\ poll'.phase = "idle" /\ poll'.answered = poll.answered
        /\ poll'.read = poll.read
    BY <1>0, <2>1 DEF Polls
  <2>3. PollInv'
    BY <2>1, <2>2 DEF PollInv
  <2> QED
    BY <1>10, <2>3, ChainKeeps
<1> QED
  BY <1>1, <1>2, <1>3, <1>4, <1>5, <1>6, <1>7, <1>8, <1>9, <1>10 DEF Next, Watcher

LEMMA InitVerdict == Init => VerdictInv
<1> SUFFICES ASSUME Init PROVE VerdictInv
  OBVIOUS
<1>1. /\ Height = 1 /\ chain[1].txs = {} /\ "fund" \in mempool /\ buried = {}
      /\ v = NewVault /\ book = NewVault /\ scanned = 1
  BY DEF Init, ScannerInit, Height
<1>2. \A h \in 1..Height : h = 1 /\ NoExits(1, 1)
  BY <1>1 DEF NoExits
<1>3. /\ v.state = "UNCONFIRMED" /\ v.height = 0 /\ v.back = 0 /\ ~v.seen
      /\ v.fundHeight = 0 /\ v.fundBlock = -1
      /\ "UNCONFIRMED" \notin Closed
  BY <1>1 DEF NewVault, Closed
<1>4. Unghosted(v) /\ Unghosted(book)
  BY <1>1, <1>3 DEF Unghosted
<1>5. \A h \in 1..Height : Clear(v, h)
  BY <1>2, <1>3 DEF Clear
<1>6. Verdict(v)
  BY <1>1, <1>3, <1>4, <1>5 DEF Verdict
<1> QED
  BY <1>1, <1>3, <1>4, <1>6 DEF VerdictInv, Known

(* The coin is there: no exit is. *)
LEMMA UnspentVerdict ==
  ASSUME TypeOK, Verdict(v), Unspent(VaultCoin), scanned \in Nat,
         NEW conf \in 0..MaxHeight,
         NEW pairs \in SUBSET [height : Heights, block : 0..MaxForks]
  PROVE  Verdict(SeenUnspent(conf, pairs))
<1> DEFINE u == SeenUnspent(conf, pairs)
<1>1. /\ u.state = IF conf >= MinDepth THEN "LIVE" ELSE "UNCONFIRMED"
      /\ u.height = IF v.state \in Closed \ {"GHOST"} THEN 0 ELSE v.height
      /\ u.back = 0
      /\ pairs = {} => u.fundHeight = v.fundHeight /\ u.fundBlock = v.fundBlock
      /\ pairs # {} => /\ u.fundHeight = (CHOOSE p \in pairs : TRUE).height
                       /\ u.fundBlock = (CHOOSE p \in pairs : TRUE).block
  BY DEF SeenUnspent
<1>2. pairs # {} => u.fundHeight \in Heights /\ u.fundBlock \in 0..MaxForks
  <2> SUFFICES ASSUME pairs # {}
               PROVE  u.fundHeight \in Heights /\ u.fundBlock \in 0..MaxForks
    OBVIOUS
  <2>1. (CHOOSE p \in pairs : TRUE) \in pairs
    OBVIOUS
  <2>2. (CHOOSE p \in pairs : TRUE) \in [height : Heights, block : 0..MaxForks]
    BY <2>1
  <2> QED
    BY <1>1, <2>2
<1>3. Unghosted(v)
  BY DEF Verdict
<1> HIDE DEF u
<1>4. u.state \notin Closed /\ u.state # "GHOST" /\ u.height = 0
  BY <1>1, <1>3 DEF Closed, Unghosted
<1>5. u.fundHeight = 0 <=> u.fundBlock = -1
  <2>1. pairs # {} => u.fundHeight # 0 /\ u.fundBlock # -1
    BY <1>2, NumberTypes DEF Heights
  <2> QED
    BY <1>1, <1>3, <2>1 DEF Unghosted
<1>6. Unghosted(u)
  BY <1>4, <1>5 DEF Unghosted
<1>7. \A h \in 1..Height : NoExits(1, h)
  <2>1. \A x \in Exits : ~InChain(x)
    BY VaultFamily DEF Unspent, Known
  <2>2. Height \in Int
    BY HeightType DEF TypeOK
  <2> QED
    BY <2>1, <2>2 DEF NoExits, InChain
<1>8. \A h \in 1..Height : Clear(u, h)
  BY <1>1, <1>4, <1>7 DEF Clear
<1> QED
  BY <1>4, <1>6, <1>8 DEF Verdict, u

(* An exit at a height: there is none in any other block. *)
LEMMA OneExit ==
  ASSUME TypeOK, RivalInv, NEW h \in 1..Height, Exits \cap chain[h].txs # {}
  PROVE  \A k \in 1..Height : k < h => NoExits(1, k)
<1>1. PICK x \in Exits : x \in chain[h].txs
  OBVIOUS
<1>2. \A j \in 1..Height : j # h => Exits \cap chain[j].txs = {}
  BY <1>1 DEF RivalInv
<1>3. Height \in Int
  BY HeightType DEF TypeOK
<1>4. \A k \in 1..Height : k < h => \A j \in 1..k : j \in 1..Height /\ j # h
  BY <1>3
<1> QED
  BY <1>2, <1>4 DEF NoExits

(* What the walk went through and did not find is not there. *)
LEMMA WalkedClear ==
  ASSUME TypeOK, Verdict(v), v.state \notin Closed, poll.tip = Height,
         NEW to \in 1..MaxHeight + 1,
         {k \in to .. WalkTop(v.back, poll.tip) : SpendersAt(VaultCoin, k) # {}} = {}
  PROVE  \A h \in 1..Height : h <= scanned /\ Kept(h) => NoExits(to, h)
<1> SUFFICES ASSUME NEW h \in 1..Height, h <= scanned, Kept(h),
                    NEW k \in to..h
             PROVE  Exits \cap chain[k].txs = {}
  BY DEF NoExits
<1>1. /\ Height \in Int /\ MaxHeight \in Nat /\ v.back \in 0..MaxHeight + 1
      /\ k \in Int /\ h \in Int /\ to \in Int
  BY NumberTypes
<1>2. CASE k <= WalkTop(v.back, poll.tip)
  <2>1. WalkTop(v.back, poll.tip) \in Int
    BY WalkTypes, NumberTypes
  <2>2. SpendersAt(VaultCoin, k) = {}
    BY <1>1, <1>2, <2>1
  <2> QED
    BY <2>2, VaultFamily DEF SpendersAt
<1>3. CASE k > WalkTop(v.back, poll.tip)
  <2>1. v.back # 0 /\ k >= v.back
    BY <1>1, <1>3 DEF WalkTop, SmallerOf
  <2>2. NoExits(v.back, h)
    BY <2>1 DEF Verdict, Clear
  <2> QED
    BY <1>1, <2>1, <2>2 DEF NoExits
<1>4. WalkTop(v.back, poll.tip) \in Int
  BY WalkTypes, NumberTypes
<1> QED
  BY <1>1, <1>2, <1>3, <1>4

(* While the funding stands its block is never found replaced. *)
LEMMA NotReplaced ==
  ASSUME TypeOK, PairInv, VerdictInv, ~undone, poll.tip = Height
  PROVE  FundingReorged # "yes"
<1>1. CASE v.fundBlock = -1 \/ v.fundHeight = 0
  BY <1>1 DEF FundingReorged
<1>2. CASE ~(v.fundBlock = -1 \/ v.fundHeight = 0)
  <2>1. v.fundHeight \in 1..Height /\ HashAt(v.fundHeight) = v.fundBlock
    BY <1>2 DEF PairInv, Named, VerdictInv
  <2>2. ~(poll.tip < v.fundHeight)
    BY <2>1, NumberTypes
  <2> QED
    BY <1>2, <2>1, <2>2 DEF FundingReorged
<1> QED
  BY <1>1, <1>2

(* GHOST is not the answer: the exit that is there was seen, or the walk   *)
(* that found nothing went through every block.                            *)
LEMMA UnexplainedVerdict ==
  ASSUME TypeOK, LinkInv, PollInv, GhostTerms, Verdict(v), poll.phase # "idle",
         Known("fund"), ~Unspent(VaultCoin), v.state \notin Closed,
         NEW to \in 1..MaxHeight + 1, NEW reorged, reorged # "yes",
         PoolSpenders(VaultCoin) = {},
         ~Unburied =>
           {k \in to .. WalkTop(v.back, poll.tip) :
              SpendersAt(VaultCoin, k) # {}} = {},
         NEW back, back \in {v.back, to}, Unburied => back = v.back
  PROVE  Verdict(Unexplained(back, reorged))
<1>1. /\ poll.tip = Height /\ scanned \in 0..Height /\ \A h \in 1..scanned : Kept(h)
      /\ Height >= 1 /\ Height \in Int /\ scanned \in Int
      /\ v.back \in 0..MaxHeight + 1 /\ MaxHeight \in Nat /\ Height <= MaxHeight
      /\ RescanDepth \in Nat /\ RescanDepth >= MaxHeight /\ v \in Vault
  BY NumberTypes DEF PollInv, LinkInv, GhostTerms, TypeOK
<1>2. \A h \in 1..Height : h <= scanned /\ Kept(h) =>
         /\ v.seen \/ MaxForks # 0 => NoExits(1, h)
         /\ back # 0 => NoExits(back, h)
  <2>1. \A h \in 1..Height : h <= scanned /\ Kept(h) =>
           /\ v.seen \/ MaxForks # 0 => NoExits(1, h)
           /\ v.back # 0 => NoExits(v.back, h)
    BY DEF Verdict, Clear
  <2>2. ~Unburied =>
          \A h \in 1..Height : h <= scanned /\ Kept(h) => NoExits(to, h)
    BY <1>1, WalkedClear
  <2> QED
    BY <2>1, <2>2
<1>3. \E x \in Exits : InChain(x)
  <2>1. \E x \in Exits : Known(x)
    BY VaultFamily DEF Unspent
  <2>2. Pool = mempool
    BY DEF Pool, PollInv
  <2>3. Exits \cap mempool = {}
    BY <2>2, PoolExits
  <2> QED
    BY <2>1, <2>3 DEF Known
<1>4. ~NoExits(1, Height)
  BY <1>3 DEF NoExits, InChain
<1> DEFINE u == [v EXCEPT !.back = back]
<1>5. /\ u.state = v.state /\ u.seen = v.seen /\ u.back = back
      /\ u.height = v.height /\ u.fundHeight = v.fundHeight
      /\ u.fundBlock = v.fundBlock
  BY <1>1 DEF Vault
<1>6. Unghosted(v) /\ v.height = 0 /\ (MaxForks # 0 => v.height <= scanned)
  BY DEF Verdict, Unghosted
<1>7. Verdict(u)
  <2> HIDE DEF u
  <2>1. Unghosted(u)
    BY <1>5, <1>6 DEF Unghosted
  <2>2. \A h \in 1..Height : h <= scanned /\ Kept(h) => Clear(u, h)
    BY <1>2, <1>5 DEF Clear
  <2> QED
    BY <1>5, <1>6, <2>1, <2>2 DEF Verdict
<1>8. Verdict([u EXCEPT !.state = "SPENT_UNKNOWN"])
  <2> DEFINE w == [u EXCEPT !.state = "SPENT_UNKNOWN"]
  <2>1. /\ w.state = "SPENT_UNKNOWN" /\ w.height = 0
        /\ w.fundHeight = v.fundHeight /\ w.fundBlock = v.fundBlock
    BY <1>1, <1>6 DEF Vault
  <2>2. w.state \in Closed /\ w.state # "GHOST"
    BY <2>1 DEF Closed
  <2> HIDE DEF w, u
  <2>3. Unghosted(w)
    BY <1>6, <2>1, <2>2 DEF Unghosted
  <2>4. \A h \in 1..Height : ~(h < w.height)
    BY <1>1, <2>1
  <2>5. \A h \in 1..Height : Clear(w, h)
    BY <2>2, <2>4 DEF Clear
  <2> QED
    BY <1>1, <2>1, <2>3, <2>5 DEF Verdict, w
<1>9. ~(reorged = "unknown" /\ v.conf < MinDepth /\ ~Behind
          /\ (v.seen \/ Exhausted(back, poll.tip)))
  <2> SUFFICES ASSUME v.conf < MinDepth, ~Behind, v.seen \/ Exhausted(back, poll.tip)
               PROVE  FALSE
    OBVIOUS
  <2>1. scanned = Height
    BY <1>1 DEF Behind
  <2>2. Height \in 1..Height /\ Kept(Height) /\ Height <= scanned
    BY <1>1, <2>1
  <2>3. CASE v.seen
    BY <1>2, <1>4, <2>2, <2>3
  <2>4. CASE Exhausted(back, poll.tip)
    <3>1. Floor(poll.tip) = 1
      BY <1>1 DEF Floor, LargerOf
    <3>2. back = 1
      BY <1>1, <2>4, <3>1 DEF Exhausted
    <3> QED
      BY <1>2, <1>4, <2>2, <3>2
  <2> QED
    BY <2>3, <2>4
<1>10. Unexplained(back, reorged) \in {u, [u EXCEPT !.state = "SPENT_UNKNOWN"]}
  <2> DEFINE never == reorged = "unknown" /\ v.conf < MinDepth
             decided == reorged = "yes" \/ (never /\ v.seen)
  <2>1. (never /\ Behind) \/ (~decided /\ ~Exhausted(back, poll.tip)) \/ ~never
    BY <1>9
  <2> HIDE DEF u
  <2> QED
    BY <2>1 DEF Unexplained, u
<1> QED
  BY <1>7, <1>8, <1>10

(* A close: at height 0, or where the exit is. *)
LEMMA ClosedVerdict ==
  ASSUME TypeOK, RivalInv, Verdict(v), scanned \in Nat, NEW x \in Exits,
         NEW h \in 0..MaxHeight, MaxForks # 0 => h <= scanned,
         h # 0 => h \in 1..Height /\ Exits \cap chain[h].txs # {},
         NEW b, NEW w, w \in {ClosedBy(x, h), [ClosedBy(x, h) EXCEPT !.back = b]}
  PROVE  Verdict(w)
<1>1. v \in Vault
  BY DEF TypeOK
<1>2. /\ w.state = ExitState(x) /\ w.height = h
      /\ w.fundHeight = v.fundHeight /\ w.fundBlock = v.fundBlock
  BY <1>1 DEF ClosedBy, Vault
<1>3. w.state \in Closed /\ w.state # "GHOST"
  BY <1>2, ExitStates
<1>4. Unghosted(w)
  BY <1>2, <1>3 DEF Unghosted, Verdict
<1>5. \A k \in 1..Height : k < h => NoExits(1, k)
  <2>1. CASE h = 0
    BY <2>1, NumberTypes
  <2>2. CASE h # 0
    BY <2>2, OneExit
  <2> QED
    BY <2>1, <2>2
<1>6. \A k \in 1..Height : Clear(w, k)
  BY <1>2, <1>3, <1>5 DEF Clear
<1> QED
  BY <1>2, <1>4, <1>6 DEF Verdict

LEMMA GoneVerdict ==
  ASSUME TypeOK, PairInv, RivalInv, LinkInv, PollInv, GhostTerms, Verdict(v),
         Known("fund"), ~Unspent(VaultCoin), poll.phase = "refresh",
         NEW to \in 1..MaxHeight + 1, NEW reorged, reorged # "yes"
  PROVE  Verdict(SeenGone(to, reorged))
<1> DEFINE pooled == {[tx |-> x, height |-> 0] : x \in PoolSpenders(VaultCoin)}
           walked == {k \in to .. WalkTop(v.back, poll.tip) :
                        SpendersAt(VaultCoin, k) # {}}
           found == IF Unburied THEN pooled
                    ELSE Found(VaultCoin, v.back, poll.tip, to)
           walks == ~Unburied /\ PoolSpenders(VaultCoin) = {}
                      /\ ~Exhausted(v.back, poll.tip)
           back == IF ~walks THEN v.back
                   ELSE IF found = {} THEN to
                   ELSE (CHOOSE f \in found : TRUE).height
<1>1. /\ poll.tip = Height /\ scanned \in 0..Height /\ Height \in Int
      /\ Height \in 0..MaxHeight /\ (MaxForks # 0 => scanned = Height)
      /\ MaxHeight \in Nat /\ to \in Nat /\ to >= 1
  BY NumberTypes DEF PollInv
<1>2. /\ PoolSpenders(VaultCoin) \subseteq Exits
      /\ scanned \in Nat /\ 0 \in 0..MaxHeight
  BY <1>1, PoolExits
<1>3. v.state # "GHOST"
  BY DEF Verdict, Unghosted
<1>4. CASE v.state \in Closed
  <2> DEFINE other == PoolSpenders(VaultCoin) \ {v.by}
  <2>1. other # {} => (CHOOSE x \in other : TRUE) \in other
    OBVIOUS
  <2>2. other \subseteq Exits
    BY <1>2
  <2>3. SeenGone(to, reorged) = IF other = {} THEN v
                                ELSE ClosedBy(CHOOSE x \in other : TRUE, 0)
    BY <1>3, <1>4 DEF SeenGone
  <2> HIDE DEF other
  <2>4. CASE other = {}
    BY <2>3, <2>4
  <2>5. CASE other # {}
    <3>1. (CHOOSE x \in other : TRUE) \in Exits
      BY <2>1, <2>2, <2>5
    <3>2. Verdict(ClosedBy(CHOOSE x \in other : TRUE, 0))
      BY <1>1, <1>2, <3>1, ClosedVerdict
    <3> QED
      BY <2>3, <2>5, <3>2
  <2> QED
    BY <2>4, <2>5
<1>5. CASE v.state \notin Closed /\ found # {}
  <2> DEFINE f == CHOOSE g \in found : TRUE
  <2>1. f \in found
    BY <1>5
  <2>2. SeenGone(to, reorged) = [ClosedBy(f.tx, f.height) EXCEPT !.back = back]
    BY <1>3, <1>5 DEF SeenGone
  <2>3. f \in pooled \/ \E k \in walked : \E x \in SpendersAt(VaultCoin, k) :
                           f = [tx |-> x, height |-> k]
    <3>1. CASE f \in pooled
      BY <3>1
    <3>2. CASE f \notin pooled
      <4>1. /\ walked # {}
            /\ f \in {[tx |-> x, height |-> Highest(walked)] :
                         x \in SpendersAt(VaultCoin, Highest(walked))}
        BY <2>1, <3>2 DEF Found
      <4>2. /\ walked \subseteq Nat /\ \A k \in walked : k <= Height
        <5>1. WalkTop(v.back, poll.tip) \in 0..Height
          BY <1>1, WalkTypes
        <5> QED
          BY <1>1, <5>1
      <4>3. Height \in Nat
        BY <1>1
      <4> HIDE DEF walked, f
      <4>4. Highest(walked) \in walked
        BY <4>1, <4>2, <4>3, Greatest
      <4> QED
        BY <4>1, <4>4
    <3> QED
      BY <3>1, <3>2
  <2>4. /\ f.tx \in Exits /\ f.height \in 0..Height
        /\ f.height # 0 => /\ f.height \in 1..Height
                           /\ Exits \cap chain[f.height].txs # {}
    <3>1. CASE f \in pooled
      <4>1. PICK x \in PoolSpenders(VaultCoin) : f = [tx |-> x, height |-> 0]
        BY <3>1
      <4> HIDE DEF f
      <4> QED
        BY <1>1, <1>2, <4>1
    <3>2. CASE \E k \in walked : \E x \in SpendersAt(VaultCoin, k) :
                 f = [tx |-> x, height |-> k]
      <4>1. PICK k \in walked : \E x \in SpendersAt(VaultCoin, k) :
                   f = [tx |-> x, height |-> k]
        BY <3>2
      <4>2. k \in 1..Height
        <5>1. WalkTop(v.back, poll.tip) \in 0..Height
          BY <1>1, WalkTypes
        <5> QED
          BY <1>1, <5>1
      <4>3. PICK x \in SpendersAt(VaultCoin, k) : f = [tx |-> x, height |-> k]
        BY <4>1
      <4>4. x \in Exits /\ x \in chain[k].txs
        BY VaultFamily DEF SpendersAt
      <4> HIDE DEF f
      <4> QED
        BY <1>1, <4>2, <4>3, <4>4
    <3> QED
      BY <2>3, <3>1, <3>2
  <2> HIDE DEF f, found, back
  <2>5. f.height \in 0..MaxHeight /\ (MaxForks # 0 => f.height <= scanned)
    BY <1>1, <2>4
  <2>6. Verdict([ClosedBy(f.tx, f.height) EXCEPT !.back = back])
    BY <1>2, <2>4, <2>5, ClosedVerdict
  <2> QED
    BY <2>2, <2>6
<1>6. CASE v.state \notin Closed /\ found = {}
  <2>1. SeenGone(to, reorged) = Unexplained(back, reorged)
    BY <1>3, <1>6 DEF SeenGone
  <2>2. PoolSpenders(VaultCoin) = {}
    <3>1. CASE Unburied
      BY <1>6, <3>1
    <3>2. CASE ~Unburied
      BY <1>6, <3>2 DEF Found
    <3> QED
      BY <3>1, <3>2
  <2>3. ~Unburied => walked = {}
    <3> SUFFICES ASSUME ~Unburied PROVE walked = {}
      OBVIOUS
    <3>1. Found(VaultCoin, v.back, poll.tip, to) = {}
      BY <1>6
    <3>2. CASE walked # {}
      <4>1. {[tx |-> x, height |-> Highest(walked)] :
                x \in SpendersAt(VaultCoin, Highest(walked))} = {}
        BY <2>2, <3>1, <3>2 DEF Found
      <4>2. walked \subseteq Nat /\ \A k \in walked : k <= Height
        <5>1. WalkTop(v.back, poll.tip) \in 0..Height
          BY <1>1, WalkTypes
        <5> QED
          BY <1>1, <5>1
      <4>3. Height \in Nat
        BY <1>1
      <4>4. Highest(walked) \in walked
        <5> HIDE DEF walked
        <5> QED
          BY <3>2, <4>2, <4>3, Greatest
      <4>5. SpendersAt(VaultCoin, Highest(walked)) # {}
        BY <4>4
      <4> QED
        BY <4>1, <4>5
    <3> QED
      BY <3>2
  <2>4. back \in {v.back, to} /\ (Unburied => back = v.back)
    BY <1>6
  <2> HIDE DEF back, found
  <2>5. Verdict(Unexplained(back, reorged))
    BY <1>6, <2>2, <2>3, <2>4, UnexplainedVerdict
  <2> QED
    BY <2>1, <2>5
<1> QED
  BY <1>4, <1>5, <1>6

LEMMA RefreshVerdict ==
  ASSUME TypeOK, PairInv, RivalInv, LinkInv, PollInv, VerdictInv, GhostTerms,
         ~undone, Refresh \/ RefreshUnanswered
  PROVE  Verdict(v')
<1>1. /\ poll.phase = "refresh" /\ poll.tip = Height /\ scanned \in Nat
      /\ Known("fund") /\ Verdict(v)
      /\ poll.answered => poll.out = Unspent(VaultCoin)
      /\ poll.conf \in 0..MaxHeight
  <2>1. poll.phase = "refresh" /\ "refresh" # "idle"
    BY DEF Refresh, RefreshUnanswered
  <2>2. poll.tip = Height /\ scanned \in 0..Height /\ Height \in Nat
    BY <2>1, NumberTypes DEF PollInv
  <2>3. poll.answered => poll.out = Unspent(VaultCoin)
    BY DEF PollInv
  <2>4. Known("fund") /\ Verdict(v)
    BY DEF VerdictInv
  <2>5. poll.conf \in 0..MaxHeight
    BY NumberTypes
  <2> QED
    BY <2>1, <2>2, <2>3, <2>4, <2>5
<1>2. FundingReorged # "yes" /\ "unknown" # "yes"
  BY <1>1, NotReplaced
<1>3. poll.answered /\ poll.out =>
        /\ Verdict(SeenUnspent(poll.conf, FundingPairs(poll.conf)))
        /\ Verdict(SeenUnspent(poll.conf, {}))
  BY <1>1, UnspentVerdict, FundingPairsType
<1>4. poll.answered /\ ~poll.out =>
        \A to \in WalkEnds(v.back, poll.tip) \cup WalkBreaks(v.back, poll.tip) :
          /\ Verdict(SeenGone(to, FundingReorged))
          /\ Verdict(SeenGone(to, "unknown"))
  BY <1>1, <1>2, WalkTypes, GoneVerdict
<1>5. CASE Refresh
  <2>1. PICK to \in WalkEnds(v.back, poll.tip) :
          v' = IF Final(poll.tip) \/ ~poll.answered THEN v
               ELSE IF poll.out
               THEN SeenUnspent(poll.conf, FundingPairs(poll.conf))
               ELSE SeenGone(to, FundingReorged)
    BY <1>5 DEF Refresh
  <2> QED
    BY <1>1, <1>3, <1>4, <2>1
<1>6. CASE RefreshUnanswered
  <2>1. /\ poll.answered
        /\ \/ poll.out /\ v' = SeenUnspent(poll.conf, {})
           \/ /\ ~poll.out
              /\ \/ \E to \in WalkBreaks(v.back, poll.tip) :
                      v' = SeenGone(to, FundingReorged)
                 \/ \E to \in WalkEnds(v.back, poll.tip) :
                      v' = SeenGone(to, "unknown")
    BY <1>6 DEF RefreshUnanswered
  <2> QED
    BY <1>3, <1>4, <2>1
<1> QED
  BY <1>5, <1>6

LEMMA ScanVerdict ==
  ASSUME TypeOK, RivalInv, LinkInv, PollInv, Verdict(v), ScanBlock
  PROVE  Verdict(v)'
<1>0. PICK top : top = scanned + 1
  OBVIOUS
<1>1. /\ top \in 1..Height /\ scanned \in Nat /\ top = scanned + 1
      /\ scanned' = top /\ Height' = Height /\ chain' = chain
      /\ \A h \in 1..scanned : Kept(h)
      /\ Height \in Nat
  BY <1>0, ScanPoll, ScanKeeps, NumberTypes DEF ScanBlock, ledger
<1>2. /\ v \in Vault /\ v.height \in 0..MaxHeight /\ v.back \in 0..MaxHeight + 1
      /\ MaxHeight \in Nat
  BY NumberTypes DEF TypeOK
<1>3. \A a, b : NoExits(a, b)' = NoExits(a, b)
  BY <1>1 DEF NoExits
<1>4. \A h \in 1..scanned : Clear(v, h) /\ h \in 1..Height
  BY <1>1 DEF Verdict
<1>5. \A h \in 1..top : h = top \/ h \in 1..scanned
  BY <1>1
<1> DEFINE exits == SpendersAt(VaultCoin, top)
<1>6. exits = Exits \cap chain[top].txs
  BY VaultFamily DEF SpendersAt
<1>7. v' = IF exits = {} \/ Settled THEN v
           ELSE LET x == CHOOSE y \in exits : TRUE
                IN  [v EXCEPT !.state = ExitState(x), !.by = x, !.height = top]
  BY <1>0 DEF ScanBlock
<1> HIDE DEF exits
<1>8. CASE exits = {} \/ Settled
  <2>1. v' = v
    BY <1>7, <1>8
  <2>2. MaxForks # 0 => v.height <= scanned
    BY DEF Verdict
  <2>3. Clear(v, top)
    <3>1. MaxForks # 0 => ~(top < v.height)
      BY <1>1, <1>2, <2>2
    <3>2. v.state \notin Closed => exits = {}
      BY <1>8 DEF Settled
    <3>3. \A a \in Nat : a >= 1 /\ (scanned >= 1 => NoExits(a, scanned))
                            /\ exits = {} => NoExits(a, top)
      <4> TAKE a \in Nat
      <4> HAVE a >= 1 /\ (scanned >= 1 => NoExits(a, scanned)) /\ exits = {}
      <4>1. \A k \in a..top : k = top \/ (k \in a..scanned /\ scanned >= 1)
        BY <1>1
      <4> QED
        BY <1>6, <4>1 DEF NoExits
    <3>4. scanned >= 1 => Clear(v, scanned)
      BY <1>1, <1>4
    <3>5. v.state \notin Closed /\ (v.seen \/ MaxForks # 0) => NoExits(1, top)
      BY <3>2, <3>3, <3>4 DEF Clear
    <3>6. v.state \notin Closed /\ v.back # 0 => NoExits(v.back, top)
      <4>1. v.back # 0 => v.back >= 1 /\ v.back \in Nat
        BY <1>2
      <4> QED
        BY <3>2, <3>3, <3>4, <4>1 DEF Clear
    <3> QED
      BY <3>1, <3>5, <3>6 DEF Clear
  <2>4. \A h \in 1..top : Clear(v, h)
    BY <1>4, <1>5, <2>3
  <2>5. \A h \in 1..Height' : h <= scanned' => h \in 1..top
    BY <1>1
  <2>6. \A h : Clear(v, h)' <=> Clear(v, h)
    BY <1>3, <2>1 DEF Clear
  <2>7. Unghosted(v)'
    BY <2>1 DEF Unghosted, Verdict
  <2>8. MaxForks # 0 => v'.height <= scanned'
    BY <1>1, <1>2, <2>1, <2>2
  <2> QED
    BY <2>4, <2>5, <2>6, <2>7, <2>8 DEF Verdict
<1>9. CASE ~(exits = {} \/ Settled)
  <2> DEFINE x == CHOOSE y \in exits : TRUE
  <2>1. x \in exits /\ x \in Exits
    BY <1>6, <1>9
  <2>2. v' = [v EXCEPT !.state = ExitState(x), !.by = x, !.height = top]
    BY <1>7, <1>9
  <2>3. ExitState(x) \in Closed \ {"GHOST"}
    BY ExitStates
  <2> HIDE DEF x
  <2>4. /\ v'.state = ExitState(x) /\ v'.height = top
        /\ v'.fundHeight = v.fundHeight /\ v'.fundBlock = v.fundBlock
    BY <1>2, <2>2 DEF Vault
  <2>5. \A k \in 1..Height : k < top => NoExits(1, k)
    BY <1>1, <1>6, <2>1, OneExit
  <2>6. Unghosted(v)'
    BY <2>3, <2>4 DEF Unghosted, Verdict
  <2>7. \A h \in 1..Height' : Clear(v, h)'
    <3>1. v'.state \in Closed
      BY <2>3, <2>4
    <3> QED
      BY <1>1, <1>3, <2>4, <2>5, <3>1 DEF Clear
  <2>8. v'.height <= scanned'
    BY <1>1, <2>4
  <2> QED
    BY <2>6, <2>7, <2>8 DEF Verdict
<1> QED
  BY <1>8, <1>9

LEMMA RewindVerdict ==
  ASSUME TypeOK, PairInv, LinkInv, PollInv, VerdictInv, GhostTerms,
         MaxForks # 0, ~undone, NEW a, a = Ancestor(Height)
  PROVE  /\ Unghosted(UndoneAbove(a)) /\ UndoneAbove(a).height <= a
         /\ \A h \in 1..a : Clear(UndoneAbove(a), h)
<1>1. /\ a \in 1..Height /\ a <= scanned /\ \A h \in 1..a : Kept(h)
      /\ \A h \in 1..a : h \in 1..Height /\ h <= scanned
  <2>1. /\ a \in 1..Height /\ a <= scanned /\ \A h \in 1..a : Kept(h)
    BY RewindKept DEF GhostTerms
  <2> QED
    BY <2>1, NumberTypes
<1>2. /\ v \in Vault /\ Verdict(v) /\ Unghosted(v) /\ v.height \in 0..MaxHeight
      /\ MaxHeight \in Nat
  BY NumberTypes DEF TypeOK, VerdictInv, Verdict
<1>3. \A h \in 1..a : Clear(v, h)
  BY <1>1, <1>2 DEF Verdict
<1> DEFINE u == IF v.height <= a THEN v
                ELSE [v EXCEPT !.by = None, !.height = 0,
                               !.state = "UNCONFIRMED", !.back = 0]
<1>4. UndoneAbove(a) = u
  <2>1. v.fundHeight > a => /\ v.fundBlock # -1
                            /\ HashAt(v.fundHeight) = v.fundBlock
    <3> SUFFICES ASSUME v.fundHeight > a PROVE /\ v.fundBlock # -1
                            /\ HashAt(v.fundHeight) = v.fundBlock
      OBVIOUS
    <3>1. v.fundHeight # 0
      BY <1>1, NumberTypes
    <3>2. v.fundBlock # -1
      BY <1>2, <3>1 DEF Unghosted
    <3> QED
      BY <3>2 DEF PairInv, Named, VerdictInv
  <2> HIDE DEF u
  <2> QED
    BY <2>1 DEF UndoneAbove, u
<1>5. CASE v.height <= a
  BY <1>2, <1>3, <1>4, <1>5
<1>6. CASE ~(v.height <= a)
  <2>1. u = [v EXCEPT !.by = None, !.height = 0,
                      !.state = "UNCONFIRMED", !.back = 0]
    BY <1>6
  <2>2. /\ u.height = 0 /\ u.state = "UNCONFIRMED" /\ u.back = 0
        /\ u.fundHeight = v.fundHeight /\ u.fundBlock = v.fundBlock
    BY <1>2, <2>1 DEF Vault
  <2>3. u.state \notin Closed /\ u.state # "GHOST"
    BY <2>2 DEF Closed
  <2> HIDE DEF u
  <2>4. v.state \in Closed
    <3>1. v.height # 0
      BY <1>1, <1>6
    <3> QED
      BY <1>2, <3>1 DEF Unghosted
  <2>5. \A h \in 1..a : NoExits(1, h)
    <3>1. \A h \in 1..a : h < v.height
      BY <1>1, <1>2, <1>6
    <3> QED
      BY <1>3, <2>4, <3>1 DEF Clear
  <2>6. \A h \in 1..a : Clear(u, h)
    BY <2>2, <2>3, <2>5 DEF Clear
  <2>7. Unghosted(u)
    BY <1>2, <2>2, <2>3 DEF Unghosted
  <2> QED
    BY <1>1, <1>4, <2>2, <2>6, <2>7
<1> QED
  BY <1>5, <1>6

LEMMA ChainVerdict ==
  ASSUME TypeOK, LinkInv, VerdictInv, ChainStep
  PROVE  VerdictInv'
<1> SUFFICES ASSUME ~undone'
             PROVE  /\ Known("fund")'
                    /\ \A b \in buried' : b.height \in 1..Height'
                                            /\ HashAt(b.height)' = b.block
                    /\ Verdict(v)' /\ Unghosted(book)'
                    /\ ~book'.seen /\ book'.back = 0
                    /\ scanned' = -1 => ~v'.seen /\ v'.back = 0
  BY DEF VerdictInv
<1>1. /\ ~undone /\ Known("fund")'
      /\ \A b \in buried : b.height <= Height' /\ chain'[b.height].fork = b.block
  <2>1. /\ ~undone
        /\ \A b \in buried : ~(b.height > Len(chain')
                                 \/ chain'[b.height].fork # b.block)
        /\ ~(Known("fund") /\ ~(Known("fund"))')
    BY DEF ChainStep
  <2>2. Known("fund")
    BY <2>1 DEF VerdictInv
  <2>3. \A b \in buried : b.height \in Int
    BY NumberTypes DEF TypeOK, Heights
  <2>4. Height' \in Int /\ Height' = Len(chain')
    BY ChainStepType, HeightType DEF Height
  <2> QED
    BY <2>1, <2>2, <2>3, <2>4
<1>2. /\ v' = v /\ book' = book /\ scanned' = scanned /\ hashes' = hashes
  BY DEF ChainStep, watch, scan
<1>3. /\ Known("fund") /\ Verdict(v) /\ Unghosted(book) /\ ~book.seen /\ book.back = 0
      /\ scanned = -1 => ~v.seen /\ v.back = 0
      /\ \A b \in buried : b.height \in 1..Height
  BY <1>1 DEF VerdictInv
<1>4. \A b \in buried' : b.height \in 1..Height' /\ HashAt(b.height)' = b.block
  <2> TAKE b \in buried'
  <2>1. CASE b \in buried
    <3>1. b.height \in 1..Height /\ Height \in Int
      BY <1>3, <2>1, HeightType DEF TypeOK
    <3>2. Height' \in Int
      BY ChainStepType DEF TypeOK, LedgerTypeOK, Height
    <3> QED
      BY <1>1, <2>1, <3>1, <3>2 DEF HashAt
  <2>2. CASE b \notin buried
    <3>1. PICK h \in 1..Len(chain') : b = [height |-> h, block |-> chain'[h].fork]
      BY <2>2 DEF ChainStep
    <3> QED
      BY <3>1 DEF HashAt, Height
  <2> QED
    BY <2>1, <2>2
<1>5. Verdict(v)'
  <2>1. Unghosted(v)'
    BY <1>2, <1>3 DEF Verdict, Unghosted
  <2>2. MaxForks # 0 => v'.height <= scanned'
    BY <1>2, <1>3 DEF Verdict
  <2>3. \A h \in 1..Height' : h <= scanned' /\ Kept(h)' => Clear(v, h)'
    <3> TAKE h \in 1..Height'
    <3> HAVE h <= scanned' /\ Kept(h)'
    <3>1. /\ h \in 1..Height /\ Kept(h) /\ h <= scanned
          /\ \A k \in 1..h : chain'[k] = chain[k]
      BY <1>2, ChainKeeps
    <3>2. Clear(v, h)
      BY <1>3, <3>1 DEF Verdict
    <3>3. \A a \in Nat : a >= 1 /\ NoExits(a, h) => NoExits(a, h)'
      <4>1. Height \in Int /\ h \in Int
        BY <3>1, HeightType DEF TypeOK
      <4>2. \A a \in Nat : a >= 1 => \A k \in a..h : k \in 1..h
        BY <4>1
      <4>3. \A a \in Nat : a >= 1 => \A k \in a..h : chain'[k] = chain[k]
        BY <3>1, <4>2
      <4>4. h' = h
        OBVIOUS
      <4> QED
        BY <4>3, <4>4 DEF NoExits
    <3>4. v.back \in Nat /\ (v.back # 0 => v.back >= 1) /\ 1 \in Nat
      BY NumberTypes
    <3> QED
      BY <1>2, <3>2, <3>3, <3>4 DEF Clear
  <2> QED
    BY <2>1, <2>2, <2>3 DEF Verdict
<1> QED
  BY <1>1, <1>2, <1>3, <1>4, <1>5 DEF Unghosted

LEMMA VerdictStep ==
  ASSUME TypeOK, PairInv, RivalInv, LinkInv, PollInv, VerdictInv, GhostTerms,
         [Next]_vars
  PROVE  VerdictInv'
<1>0. MaxForks \in Nat /\ scanned \in Int /\ Height \in Nat
  BY NumberTypes
<1>1. CASE ChainStep
  BY <1>1, ChainVerdict
<1> SUFFICES ASSUME ~ChainStep, ~undone'
             PROVE  /\ Known("fund")'
                    /\ \A b \in buried' : b.height \in 1..Height'
                                            /\ HashAt(b.height)' = b.block
                    /\ Verdict(v)' /\ Unghosted(book)'
                    /\ ~book'.seen /\ book'.back = 0
                    /\ scanned' = -1 => ~v'.seen /\ v'.back = 0
  BY <1>1 DEF VerdictInv
<1>2. /\ chain' = chain /\ mempool' = mempool /\ buried' = buried /\ undone' = undone
      /\ Height' = Height
  <2>1. UNCHANGED <<chain, mempool, buried, undone>>
    BY DEF Next, Watcher, PollFirst, PollStart, PollStartUnanswered, RefreshOne,
       ScanBlock, ScanBroken, ScanDone, AskTxout, ReadPool, Refresh,
       RefreshUnanswered, EndPoll, Restart, ledger, vars
  <2> QED
    BY <2>1 DEF Height
<1>3. /\ Known("fund") /\ Verdict(v) /\ Unghosted(book) /\ ~book.seen /\ book.back = 0
      /\ scanned = -1 => ~v.seen /\ v.back = 0
      /\ \A b \in buried : b.height \in 1..Height /\ HashAt(b.height) = b.block
  BY <1>2 DEF VerdictInv
<1>4. /\ Known("fund")'
      /\ \A b \in buried' : b.height \in 1..Height' /\ HashAt(b.height)' = b.block
  BY <1>2, <1>3 DEF Known, InChain, HashAt
<1>5. \A a, b : NoExits(a, b)' <=> NoExits(a, b)
  BY <1>2 DEF NoExits
<1>6. v' = v => (\A h : Clear(v, h)' <=> Clear(v, h)) /\ (Unghosted(v)' <=> Unghosted(v))
  BY <1>5 DEF Clear, Unghosted
<1>7. book' = book => Unghosted(book)' /\ ~book'.seen /\ book'.back = 0
  BY <1>3 DEF Unghosted
<1>8. /\ v' = v /\ book' = book /\ scanned' = scanned /\ hashes' = hashes
         => Verdict(v)' /\ Unghosted(book)' /\ ~book'.seen /\ book'.back = 0
            /\ (scanned' = -1 => ~v'.seen /\ v'.back = 0)
  <2> SUFFICES ASSUME v' = v, book' = book, scanned' = scanned, hashes' = hashes
               PROVE  Verdict(v)'
    BY <1>3, <1>7
  <2>1. \A h : Kept(h)' <=> Kept(h)
    BY <1>2 DEF Kept, HashAt
  <2> QED
    BY <1>2, <1>3, <1>6, <2>1 DEF Verdict
<1>9. CASE UNCHANGED vars
  BY <1>8, <1>4, <1>9 DEF vars, watch, scan
<1>10. CASE PollFirst
  <2>1. /\ MaxForks = 0 /\ scanned = -1 /\ v' = v /\ book' = book
        /\ scanned' = Height
    BY <1>0, <1>10 DEF PollFirst, LinkInv, watch
  <2>2. ~v.seen /\ v.back = 0
    BY <1>3, <2>1
  <2>3. \A h : Clear(v, h)
    BY <2>1, <2>2 DEF Clear
  <2>4. Unghosted(v)
    BY <1>3 DEF Verdict
  <2>5. Verdict(v)'
    BY <1>6, <2>1, <2>3, <2>4 DEF Verdict
  <2>6. scanned' # -1
    BY <1>0, <2>1
  <2> QED
    BY <1>4, <1>7, <2>1, <2>5, <2>6
<1>11. CASE PollStart
  <2>1. book' = book /\ scanned # -1
    BY <1>11 DEF PollStart
  <2>2. CASE scan' = scan /\ v' = v
    BY <1>4, <1>8, <2>1, <2>2 DEF scan
  <2>3. CASE ~(scan' = scan /\ v' = v)
    <3>1. PICK a : a = Ancestor(Height)
      OBVIOUS
    <3>2. MaxForks # 0 /\ scanned' = a /\ v' = UndoneAbove(a)
      BY <1>11, <2>3, <3>1, StartLink DEF GhostTerms
    <3>3. a \in 1..Height
      BY <3>1, <3>2, RewindKept DEF GhostTerms
    <3>4. /\ Unghosted(v') /\ v'.height <= a
          /\ \A h \in 1..a : Clear(v', h)
      BY <1>2, <3>1, <3>2, RewindVerdict
    <3>5. Unghosted(v)' /\ \A h \in 1..a : Clear(v, h)'
      BY <1>5, <3>4 DEF Unghosted, Clear
    <3>6. \A h \in 1..Height' : h <= scanned' => h \in 1..a
      BY <1>2, <3>2, <3>3, <1>0
    <3>7. Verdict(v)'
      BY <3>2, <3>4, <3>5, <3>6 DEF Verdict
    <3>8. scanned' # -1
      BY <1>0, <3>2, <3>3
    <3> QED
      BY <1>4, <1>7, <2>1, <3>7, <3>8
  <2> QED
    BY <2>2, <2>3
<1>12. CASE ScanBlock
  <2>1. Verdict(v)'
    BY <1>3, <1>12, ScanVerdict
  <2>2. book' = book /\ scanned' # -1
    <3>1. scanned' = scanned + 1 /\ scanned \in Nat
      BY <1>12, ScanPoll, ScanKeeps
    <3> QED
      BY <1>12, <3>1 DEF ScanBlock
  <2> QED
    BY <1>4, <1>7, <2>1, <2>2
<1>13. CASE PollStartUnanswered \/ RefreshOne \/ ScanBroken \/ ScanDone
              \/ AskTxout \/ ReadPool
  BY <1>4, <1>8, <1>13 DEF PollStartUnanswered, RefreshOne, ScanBroken, ScanDone,
     AskTxout, ReadPool, watch, scan
<1>14. CASE Refresh \/ RefreshUnanswered
  <2>1. Verdict(v') /\ v' \in Vault
    BY <1>2, <1>14, RefreshVerdict, RefreshType
  <2>2. book' = [v' EXCEPT !.seen = FALSE, !.back = 0]
    BY <1>14 DEF Refresh, RefreshUnanswered, Write
  <2>3. /\ book'.state = v'.state /\ book'.fundHeight = v'.fundHeight
        /\ book'.fundBlock = v'.fundBlock /\ book'.height = v'.height
        /\ ~book'.seen /\ book'.back = 0
    BY <2>1, <2>2 DEF Vault
  <2>4. Unghosted(book)'
    BY <2>1, <2>3 DEF Unghosted, Verdict
  <2>5. poll.phase # "idle" /\ \E calm : EndPoll(calm)
    BY <1>14 DEF Refresh, RefreshUnanswered
  <2>6. scanned' = scanned /\ \A h : Kept(h)' <=> Kept(h)
    BY <2>5, EndPollLink DEF GhostTerms
  <2>7. scanned \in 0..Height
    BY <2>5 DEF PollInv
  <2>8. scanned' # -1
    BY <1>0, <2>6, <2>7
  <2>9. Verdict(v)'
    <3>1. Unghosted(v)' /\ \A h : Clear(v', h) <=> Clear(v, h)'
      BY <1>5, <2>1 DEF Unghosted, Clear, Verdict
    <3> QED
      BY <1>2, <2>1, <2>6, <3>1 DEF Verdict
  <2> QED
    BY <1>4, <2>3, <2>4, <2>8, <2>9
<1>15. CASE Restart
  <2>1. MaxForks = 0
    <3>1. restarts \in 0..MaxRestarts /\ restarts < MaxRestarts
      BY <1>15 DEF Restart, TypeOK
    <3>2. MaxRestarts # 0
      BY <3>1
    <3> QED
      BY <3>2 DEF GhostTerms
  <2>2. v' = book /\ book' = book
    BY <1>15 DEF Restart
  <2>3. ~v'.seen /\ v'.back = 0 /\ Unghosted(v)'
    BY <1>3, <2>2 DEF Unghosted
  <2>4. \A h : Clear(v, h)'
    BY <2>1, <2>3 DEF Clear
  <2>5. Verdict(v)'
    BY <2>1, <2>3, <2>4 DEF Verdict
  <2> QED
    BY <1>4, <1>7, <2>2, <2>3, <2>5
<1> QED
  BY <1>9, <1>10, <1>11, <1>12, <1>13, <1>14, <1>15 DEF Next, Watcher

(* "GHOST means the funding was undone", and no answer the node fails to   *)
(* give and no restart makes one: of a chain that is never reorganised,    *)
(* whatever the restarts and the questions that go unanswered, and of one  *)
(* that is reorganised as often as it may be, for a watcher that stays up  *)
(* and is answered.                                                        *)
THEOREM GhostMeansUndone ==
  ASSUME GhostTerms
  PROVE  Spec => []GhostIsUndone
<1> DEFINE GhostInv == /\ TypeOK /\ PairInv /\ RivalInv
                       /\ LinkInv /\ PollInv /\ VerdictInv
<1>0. "reorg" \notin MidPoll
  BY DEF GhostTerms
<1>1. Init => GhostInv
  BY InitType, InitPair, InitRival, InitScan, InitVerdict
<1>2. GhostInv /\ [Next]_vars => GhostInv'
  <2> SUFFICES ASSUME GhostInv, [Next]_vars PROVE GhostInv'
    OBVIOUS
  <2>1. TypeOK'
    BY TypeStep
  <2>2. PairInv'
    BY <1>0, PairStep
  <2>3. RivalInv'
    BY RivalStep
  <2>4. LinkInv' /\ PollInv'
    BY LinkStep
  <2>5. VerdictInv'
    BY VerdictStep
  <2> QED
    BY <2>1, <2>2, <2>3, <2>4, <2>5
<1>3. GhostInv => GhostIsUndone
  BY DEF VerdictInv, Verdict, Unghosted, GhostIsUndone
<1> HIDE DEF GhostInv
<1> QED
  BY <1>1, <1>2, <1>3, PTL DEF Spec

-----------------------------------------------------------------------------
(* The truth.  A poll that was not disturbed tells it, whatever was        *)
(* believed before: blocks and transactions may come inside every other    *)
(* poll, and either the chain is never reorganised, or every question is   *)
(* answered, no request comes between, and the search is as deep as the    *)
(* chain is long.  A watcher that was restarted, or a block replaced       *)
(* inside a poll, can leave it wrong: README, "What else the models show". *)
TruthTerms ==
    /\ MaxRestarts = 0 /\ "reorg" \notin MidPoll
    /\ \/ MaxForks = 0
       \/ MaxFails = 0 /\ ~MayRequest /\ RescanDepth >= MaxHeight

Standing == MaxForks = 0 \/ ~undone

StandInv ==
    /\ ~undone =>
         \A b \in buried : b.height \in 1..Height /\ HashAt(b.height) = b.block
    /\ v.fundHeight = 0 <=> v.fundBlock = -1

(* What a poll has, whatever moved since it began. *)
LookInv ==
    /\ scanned >= 1
    /\ poll.phase # "idle" => scanned <= Height /\ \A h \in 1..scanned : Kept(h)
    /\ MaxForks # 0 /\ poll.phase \in {"batch", "alone", "refresh"} =>
         poll.tip <= scanned
    /\ poll.answered => poll.phase = "refresh"
    /\ poll.read => poll.phase \in {"alone", "refresh"}
    /\ poll.answered /\ poll.out => NoExits(1, scanned)
    /\ poll.read => NoExits(1, scanned) \/ Exits \cap poll.pool = {}

(* What it has if nothing did. *)
CalmInv ==
    poll.phase # "idle" /\ poll.calm =>
      /\ poll.tip = Height
      /\ poll.phase \in {"batch", "alone", "refresh"} => scanned = Height
      /\ poll.phase = "refresh" => poll.answered
      /\ poll.answered => /\ poll.out = Unspent(VaultCoin)
                          /\ poll.out => poll.conf = Confirmations(VaultCoin)
      /\ poll.read => poll.pool = mempool

(* An exit in a block that was scanned and still is there is the one named;*)
(* an exit named at a height is in the block of that height; and a verdict *)
(* and a name go together.                                                 *)
Honest(u) ==
    /\ \A h \in 1..Height :
         h <= scanned /\ Kept(h) /\ Exits \cap chain[h].txs # {} => u.height = h
    /\ u.height > 0 =>
         /\ u.by \in Exits /\ u.state = ExitState(u.by)
         /\ IF MaxForks = 0 THEN u.height <= Height ELSE u.height <= scanned
         /\ Kept(u.height) => u.by \in chain[u.height].txs
    /\ IF u.state \in Closed \ {"GHOST"}
       THEN \/ u.by = None /\ u.state = "SPENT_UNKNOWN"
            \/ u.by \in Exits /\ u.state = ExitState(u.by)
       ELSE u.by = None /\ u.height = 0

LEMMA InitTruth == Init => LookInv /\ CalmInv /\ StandInv /\ Honest(v)
<1> SUFFICES ASSUME Init PROVE LookInv /\ CalmInv /\ StandInv /\ Honest(v)
  OBVIOUS
<1>1. /\ Height = 1 /\ chain[1].txs = {} /\ scanned = 1
      /\ poll.phase = "idle" /\ ~poll.answered /\ ~poll.read
  BY DEF Init, ScannerInit, NoPoll, Height
<1>2. /\ v.height = 0 /\ v.by = None /\ v.state = "UNCONFIRMED"
      /\ v.fundHeight = 0 /\ v.fundBlock = -1 /\ buried = {}
  BY DEF Init, NewVault
<1>3. \A h \in 1..Height : Exits \cap chain[h].txs = {}
  BY <1>1
<1>4. LookInv
  BY <1>1 DEF LookInv
<1>5. CalmInv /\ StandInv
  BY <1>1, <1>2 DEF CalmInv, StandInv
<1>6. Honest(v)
  BY <1>2, <1>3 DEF Honest, Closed
<1> QED
  BY <1>4, <1>5, <1>6

(* The chain only grows if it is never reorganised, and inside a poll.     *)
LEMMA Grows ==
  ASSUME TypeOK, ChainStep,
         MaxForks = 0 \/ (poll.phase # "idle" /\ "reorg" \notin MidPoll)
  PROVE  /\ Height <= Height'
         /\ \A h \in 1..Height : /\ chain'[h] = chain[h] /\ h \in 1..Height'
                                 /\ Kept(h)' <=> Kept(h)
<1>1. LedgerTypeOK /\ Height \in Nat /\ forks \in 0..MaxForks /\ MaxForks \in Nat
  BY NumberTypes, HashTypes DEF TypeOK
<1>2. ~(May("reorg") /\ Reorg)
  BY <1>1 DEF May, Reorg
<1>3. Mine \/ \E x \in Txs : Broadcast(x) \/ Evict(x)
  BY <1>2 DEF ChainStep, LedgerStep
<1>4. /\ Height' = Height + 1 \/ Height' = Height
      /\ \A h \in 1..Height : chain'[h] = chain[h]
  <2>1. CASE Mine
    BY <1>1, <2>1, MineDoes
  <2>2. CASE \E x \in Txs : Broadcast(x) \/ Evict(x)
    BY <2>2 DEF Broadcast, Evict, Height
  <2> QED
    BY <1>3, <2>1, <2>2
<1>5. \A h \in 1..Height : h \in 1..Height' /\ HashAt(h)' = HashAt(h)
  BY <1>1, <1>4 DEF HashAt
<1>6. \A h \in 1..Height : Kept(h)' <=> Kept(h)
  BY <1>5 DEF Kept, ChainStep, scan
<1> QED
  BY <1>1, <1>4, <1>5, <1>6

(* Coin and spender are not both there. *)
LEMMA SpentCoin ==
  ASSUME TypeOK, Unspent(VaultCoin)
  PROVE  Exits \cap mempool = {} /\ NoExits(1, Height)
<1>1. \A x \in Exits : ~Known(x)
  BY VaultFamily DEF Unspent
<1> QED
  BY <1>1 DEF Known, InChain, NoExits

LEMMA LookStep ==
  ASSUME TypeOK, PairInv, RivalInv, LinkInv, LookInv, TruthTerms, [Next]_vars
  PROVE  LinkInv' /\ LookInv'
<1>0. /\ Height \in 0..MaxHeight /\ MaxHeight \in Nat /\ scanned \in Nat
      /\ scanned >= 1 /\ MaxForks \in Nat /\ poll \in Polls
      /\ poll.tip <= Height /\ poll.tip \in Int
      /\ MaxForks # 0 => ~Unanswered /\ ~MayRequest /\ RescanDepth >= MaxHeight
  <2>1. MaxForks # 0 => ~Unanswered
    BY ScannerAssumption DEF TruthTerms, Unanswered, TypeOK, ScannerTypeOK
  <2> QED
    BY <2>1, NumberTypes DEF TruthTerms, PairInv, LookInv, TypeOK, ScannerTypeOK
<1>1. CASE UNCHANGED vars
  <2>1. UNCHANGED <<chain, mempool, forks, scanned, hashes, poll>>
    BY <1>1 DEF vars, ledger, scan
  <2> QED
    BY <2>1 DEF LinkInv, LookInv, Height, HashAt, Kept, NoExits
<1>2. CASE PollFirst
  BY <1>0, <1>2 DEF PollFirst
<1>3. CASE PollStart
  <2>1. /\ LinkInv' /\ PollInv'
        /\ scanned' = scanned \/ (MaxForks # 0 /\ scanned' = Ancestor(Height))
    BY <1>0, <1>3, StartLink DEF scan
  <2>2. MaxForks # 0 => Ancestor(Height) \in 1..Height
    BY <1>0, RewindKept
  <2>3. scanned' >= 1
    BY <1>0, <2>1, <2>2
  <2>4. poll'.phase = "scan" /\ ~poll'.answered /\ ~poll'.read
    BY <1>3 DEF PollStart, Begin, NoPoll
  <2>5. scanned' <= Height' /\ \A h \in 1..scanned' : Kept(h)'
    <3>1. scanned' \in 0..Height' /\ \A h \in 1..scanned' : Kept(h)'
      BY <2>1, <2>4 DEF PollInv
    <3> QED
      BY <3>1
  <2> QED
    BY <2>1, <2>3, <2>4, <2>5 DEF LookInv
<1>4. CASE PollStartUnanswered
  BY <1>0, <1>4, NeverReorged DEF PollStartUnanswered
<1>5. CASE RefreshOne
  <2>1. MaxForks = 0
    BY <1>0, <1>5 DEF RefreshOne
  <2>2. UNCHANGED <<chain, forks, scanned, hashes>>
    BY <1>5 DEF RefreshOne, ledger, scan
  <2>3. poll'.phase = "alone" /\ ~poll'.answered /\ ~poll'.read
    BY <1>5 DEF RefreshOne, Begin, NoPoll
  <2>4. LinkInv'
    BY <2>2 DEF LinkInv, Height, HashAt, Kept
  <2>5. scanned' <= Height' /\ \A h \in 1..scanned' : Kept(h)'
    <3>1. scanned <= Height
      BY <2>1 DEF LinkInv
    <3>2. Height' = Height
      BY <2>2 DEF Height
    <3> QED
      BY <1>0, <2>1, <2>2, <3>1, <3>2 DEF Kept
  <2> QED
    BY <1>0, <2>1, <2>2, <2>3, <2>4, <2>5 DEF LookInv
<1>6. CASE ScanBlock
  <2>1. poll.phase = "scan" /\ poll' = poll
    BY <1>6 DEF ScanBlock
  <2>2. scanned \in 0..Height /\ \A h \in 1..scanned : Kept(h)
    BY <1>0, <2>1 DEF LookInv
  <2>3. PICK top : top = scanned + 1
    OBVIOUS
  <2>4. /\ top \in 1..Height /\ scanned' = top /\ Height' = Height
        /\ \A h \in 1..top : Kept(h)' /\ LinkInv'
    <3>1. LinkInv'
      BY <1>6, <2>2, ScanKeeps
    <3>2. /\ top \in 1..Height /\ scanned' = top /\ Height' = Height
          /\ \A h \in 1..top : Kept(h)'
      BY <1>6, <2>2, <2>3, ScanKeeps
    <3> QED
      BY <3>1, <3>2
  <2>5. ~poll.answered /\ ~poll.read
    BY <2>1 DEF LookInv
  <2>6. scanned' >= 1 /\ scanned' <= Height' /\ \A h \in 1..scanned' : Kept(h)'
    BY <1>0, <2>4
  <2>7. LinkInv'
    BY <1>6, <2>2, ScanKeeps
  <2> QED
    BY <2>1, <2>5, <2>6, <2>7 DEF LookInv
<1>7. CASE ScanBroken \/ ScanDone \/ AskTxout \/ ReadPool
  <2>1. UNCHANGED <<chain, mempool, forks, scanned, hashes>>
    BY <1>7 DEF ScanBroken, ScanDone, AskTxout, ReadPool, ledger, scan
  <2>2. /\ LinkInv' /\ Height' = Height /\ (\A h : Kept(h)' <=> Kept(h))
        /\ NoExits(1, scanned)' = NoExits(1, scanned)
    BY <2>1 DEF LinkInv, Height, HashAt, Kept, NoExits
  <2>3. poll.phase # "idle"
    BY <1>7 DEF ScanBroken, ScanDone, AskTxout, ReadPool, ReadMempool
  <2>4. scanned <= Height /\ \A h \in 1..scanned : Kept(h)
    BY <2>3 DEF LookInv
  <2>5. /\ scanned' >= 1 /\ scanned' <= Height' /\ \A h \in 1..scanned' : Kept(h)'
    BY <1>0, <2>1, <2>2, <2>4
  <2>6. /\ poll'.tip = poll.tip
        /\ MaxForks # 0 /\ poll'.phase \in {"batch", "alone", "refresh"} =>
             poll.tip <= scanned
        /\ poll'.answered => poll'.phase = "refresh"
        /\ poll'.read => poll'.phase \in {"alone", "refresh"}
        /\ poll'.answered /\ poll'.out => NoExits(1, scanned)
        /\ poll'.read => NoExits(1, scanned) \/ Exits \cap poll'.pool = {}
    <3>1. CASE ScanBroken
      <4>1. /\ poll.phase = "scan" /\ scanned < poll.tip
            /\ poll' = [poll EXCEPT !.phase = "batch", !.calm = FALSE]
            /\ Unanswered \/ scanned + 1 > Height
        BY <3>1 DEF ScanBroken
      <4>2. MaxForks = 0
        BY <1>0, <4>1
      <4>3. ~poll.answered /\ ~poll.read
        BY <4>1 DEF LookInv
      <4> QED
        BY <1>0, <4>1, <4>2, <4>3 DEF Polls
    <3>2. CASE ScanDone
      <4>1. /\ poll.phase = "scan" /\ scanned >= poll.tip
            /\ poll' = [poll EXCEPT !.phase = "batch"]
        BY <3>2 DEF ScanDone
      <4>2. ~poll.answered /\ ~poll.read
        BY <4>1 DEF LookInv
      <4> QED
        BY <1>0, <4>1, <4>2 DEF Polls
    <3>3. CASE AskTxout
      <4>1. /\ poll.phase \in {"batch", "alone"} /\ ~poll.answered
            /\ MaxForks # 0 => poll.tip <= scanned
            /\ poll.read => NoExits(1, scanned) \/ Exits \cap poll.pool = {}
            /\ poll.read => poll.phase \in {"alone", "refresh"}
        BY <3>3 DEF AskTxout, LookInv
      <4>2. CASE poll' = [poll EXCEPT !.phase = "refresh", !.answered = TRUE,
                                  !.out = Unspent(VaultCoin),
                                  !.conf = IF Unspent(VaultCoin)
                                           THEN Confirmations(VaultCoin)
                                           ELSE 0]
        <5>1. /\ poll'.tip = poll.tip /\ poll'.phase = "refresh"
              /\ poll'.read = poll.read /\ poll'.pool = poll.pool
              /\ poll'.out = Unspent(VaultCoin)
          BY <1>0, <4>2 DEF Polls
        <5>2. Unspent(VaultCoin) => NoExits(1, scanned)
          BY <1>0, <2>4, SpentCoin DEF NoExits
        <5> QED
          BY <4>1, <5>1, <5>2
      <4>3. CASE poll' = [poll EXCEPT !.calm = FALSE,
                       !.phase = IF @ = "batch" THEN "alone" ELSE "refresh"]
        <5>1. /\ poll'.tip = poll.tip /\ poll'.phase \in {"alone", "refresh"}
              /\ poll'.read = poll.read /\ poll'.pool = poll.pool
              /\ poll'.answered = poll.answered
          BY <1>0, <4>3 DEF Polls
        <5> QED
          BY <4>1, <5>1
      <4> QED
        BY <3>3, <4>2, <4>3 DEF AskTxout
    <3>4. CASE ReadPool
      <4>1. /\ poll.phase \in {"alone", "refresh"}
            /\ \/ poll' = [poll EXCEPT !.read = TRUE, !.pool = mempool]
               \/ poll' = [poll EXCEPT !.read = TRUE, !.pool = {}, !.calm = FALSE]
        BY <3>4 DEF ReadPool, ReadMempool
      <4>2. /\ poll'.tip = poll.tip /\ poll'.phase = poll.phase
            /\ poll'.answered = poll.answered /\ poll'.out = poll.out
            /\ poll'.pool \in {mempool, {}}
        BY <1>0, <4>1 DEF Polls
      <4>3. NoExits(1, scanned) \/ Exits \cap mempool = {}
        <5>1. \A h \in 1..scanned : h \in 1..Height
          BY <1>0, <2>4
        <5> QED
          BY <5>1 DEF NoExits, RivalInv
      <4> QED
        BY <4>1, <4>2, <4>3 DEF LookInv
    <3> QED
      BY <1>7, <3>1, <3>2, <3>3, <3>4
  <2> QED
    BY <2>1, <2>2, <2>5, <2>6 DEF LookInv
<1>8. CASE Refresh \/ RefreshUnanswered
  <2>1. \E calm : EndPoll(calm)
    BY <1>8 DEF Refresh, RefreshUnanswered
  <2>2. LinkInv' /\ scanned' = scanned
    BY <1>0, <2>1, EndPollLink
  <2>3. poll'.phase = "idle" /\ ~poll'.answered /\ ~poll'.read
    BY <2>1 DEF EndPoll, NoPoll
  <2> QED
    BY <1>0, <2>2, <2>3 DEF LookInv
<1>9. CASE Restart
  <2>1. restarts \in 0..MaxRestarts /\ restarts < MaxRestarts /\ MaxRestarts = 0
    BY <1>9 DEF Restart, TypeOK, TruthTerms
  <2> QED
    BY <2>1
<1>10. CASE ChainStep
  <2>1. LinkInv' /\ scanned' = scanned
    BY <1>10, ChainKeeps DEF ChainStep, scan
  <2>2. poll' = [poll EXCEPT !.calm = FALSE]
    BY <1>10 DEF ChainStep, LedgerStep
  <2>3. /\ poll'.phase = poll.phase /\ poll'.tip = poll.tip
        /\ poll'.answered = poll.answered /\ poll'.out = poll.out
        /\ poll'.read = poll.read /\ poll'.pool = poll.pool
    BY <1>0, <2>2 DEF Polls
  <2>4. CASE poll.phase = "idle"
    BY <2>1, <2>3, <2>4 DEF LookInv
  <2>5. CASE poll.phase # "idle"
    <3>1. /\ Height <= Height'
          /\ \A h \in 1..Height : chain'[h] = chain[h] /\ (Kept(h)' <=> Kept(h))
      BY <1>10, <2>5, Grows DEF TruthTerms
    <3>2. scanned <= Height /\ \A h \in 1..scanned : Kept(h) /\ h \in 1..Height
      BY <1>0, <2>5 DEF LookInv
    <3>3. Height' \in Int
      BY <1>10, ChainStepType, HeightType DEF TypeOK, LedgerTypeOK, Height
    <3>4. scanned' <= Height' /\ \A h \in 1..scanned' : Kept(h)'
      BY <1>0, <2>1, <3>1, <3>2, <3>3
    <3>5. NoExits(1, scanned)' = NoExits(1, scanned)
      BY <2>1, <3>1, <3>2 DEF NoExits
    <3> QED
      BY <2>1, <2>3, <3>4, <3>5 DEF LookInv
  <2> QED
    BY <2>4, <2>5
<1> QED
  BY <1>1, <1>2, <1>3, <1>4, <1>5, <1>6, <1>7, <1>8, <1>9, <1>10 DEF Next, Watcher

LEMMA CalmStep ==
  ASSUME TypeOK, PairInv, LookInv, CalmInv, [Next]_vars
  PROVE  CalmInv'
<1>0. /\ Height \in Int /\ scanned \in Int /\ poll.tip \in Int
      /\ poll \in Polls /\ poll.tip <= Height
  BY NumberTypes DEF PairInv, TypeOK, ScannerTypeOK
<1>1. CASE UNCHANGED vars
  <2>1. UNCHANGED <<chain, mempool, scanned, poll>>
    BY <1>1 DEF vars, ledger, scan
  <2> QED
    BY <2>1 DEF CalmInv, Height, Unspent, Confirmations, Known, InChain
<1>2. CASE PollFirst
  <2>1. scanned = -1
    BY <1>2 DEF PollFirst
  <2> QED
    BY <2>1 DEF LookInv
<1>3. CASE PollStart
  <2>1. /\ poll'.phase = "scan" /\ poll'.tip = Height /\ Height' = Height
        /\ ~poll'.answered /\ ~poll'.read
    BY <1>3 DEF PollStart, Begin, NoPoll, ledger, Height
  <2> QED
    BY <2>1 DEF CalmInv
<1>4. CASE PollStartUnanswered \/ RefreshOne
  <2>1. ~poll'.calm
    BY <1>4 DEF PollStartUnanswered, RefreshOne, Begin, NoPoll
  <2> QED
    BY <2>1 DEF CalmInv
<1>5. CASE ScanBlock
  <2>1. poll.phase = "scan" /\ poll' = poll /\ chain' = chain
    BY <1>5 DEF ScanBlock, ledger
  <2>2. ~poll.answered /\ ~poll.read
    BY <2>1 DEF LookInv
  <2> QED
    BY <2>1, <2>2 DEF CalmInv, Height
<1>6. CASE ScanBroken \/ ScanDone \/ AskTxout \/ ReadPool
  <2>1. UNCHANGED <<chain, mempool, scanned>>
    BY <1>6 DEF ScanBroken, ScanDone, AskTxout, ReadPool, ledger, scan
  <2>2. /\ Height' = Height /\ Unspent(VaultCoin)' = Unspent(VaultCoin)
        /\ Confirmations(VaultCoin)' = Confirmations(VaultCoin)
    BY <2>1 DEF Height, Unspent, Confirmations, Known, InChain
  <2>3. poll.phase # "idle"
    BY <1>6 DEF ScanBroken, ScanDone, AskTxout, ReadPool, ReadMempool
  <2>4. poll.calm =>
          /\ poll.tip = Height
          /\ poll.phase \in {"batch", "alone", "refresh"} => scanned = Height
          /\ poll.phase = "refresh" => poll.answered
          /\ poll.answered => /\ poll.out = Unspent(VaultCoin)
                              /\ poll.out => poll.conf = Confirmations(VaultCoin)
          /\ poll.read => poll.pool = mempool
    BY <2>3 DEF CalmInv
  <2>5. CASE ScanBroken
    <3>1. ~poll'.calm
      BY <1>0, <2>5 DEF ScanBroken, Polls
    <3> QED
      BY <3>1 DEF CalmInv
  <2>6. CASE ScanDone
    <3>1. /\ poll.phase = "scan" /\ scanned >= poll.tip
          /\ poll' = [poll EXCEPT !.phase = "batch"]
      BY <2>6 DEF ScanDone
    <3>2. ~poll.answered /\ ~poll.read /\ scanned <= Height
      BY <3>1 DEF LookInv
    <3>3. /\ poll'.phase = "batch" /\ poll'.tip = poll.tip /\ poll'.calm = poll.calm
          /\ ~poll'.answered /\ ~poll'.read
      BY <1>0, <3>1, <3>2 DEF Polls
    <3>4. poll.calm => scanned = Height
      BY <1>0, <2>4, <3>1, <3>2
    <3> QED
      BY <2>1, <2>2, <2>4, <3>3, <3>4 DEF CalmInv
  <2>7. CASE AskTxout
    <3>1. CASE poll' = [poll EXCEPT !.phase = "refresh", !.answered = TRUE,
                                !.out = Unspent(VaultCoin),
                                !.conf = IF Unspent(VaultCoin)
                                         THEN Confirmations(VaultCoin)
                                         ELSE 0]
      <4>1. /\ poll'.phase = "refresh" /\ poll'.tip = poll.tip /\ poll'.answered
            /\ poll'.calm = poll.calm /\ poll'.out = Unspent(VaultCoin)
            /\ Unspent(VaultCoin) => poll'.conf = Confirmations(VaultCoin)
            /\ poll'.read = poll.read /\ poll'.pool = poll.pool
        BY <1>0, <3>1 DEF Polls
      <4>2. poll.phase \in {"batch", "alone"}
        BY <2>7 DEF AskTxout
      <4> QED
        BY <2>1, <2>2, <2>4, <4>1, <4>2 DEF CalmInv
    <3>2. CASE poll' = [poll EXCEPT !.calm = FALSE,
                     !.phase = IF @ = "batch" THEN "alone" ELSE "refresh"]
      <4>1. ~poll'.calm
        BY <1>0, <3>2 DEF Polls
      <4> QED
        BY <4>1 DEF CalmInv
    <3> QED
      BY <2>7, <3>1, <3>2 DEF AskTxout
  <2>8. CASE ReadPool
    <3>1. CASE poll' = [poll EXCEPT !.read = TRUE, !.pool = mempool]
      <4>1. /\ poll'.phase = poll.phase /\ poll'.tip = poll.tip
            /\ poll'.answered = poll.answered /\ poll'.calm = poll.calm
            /\ poll'.out = poll.out /\ poll'.conf = poll.conf
            /\ poll'.pool = mempool
        BY <1>0, <3>1 DEF Polls
      <4> QED
        BY <2>1, <2>2, <2>4, <4>1 DEF CalmInv
    <3>2. CASE poll' = [poll EXCEPT !.read = TRUE, !.pool = {}, !.calm = FALSE]
      <4>1. ~poll'.calm
        BY <1>0, <3>2 DEF Polls
      <4> QED
        BY <4>1 DEF CalmInv
    <3> QED
      BY <2>8, <3>1, <3>2 DEF ReadPool, ReadMempool
  <2> QED
    BY <1>6, <2>5, <2>6, <2>7, <2>8
<1>7. CASE Refresh \/ RefreshUnanswered \/ Restart
  <2>1. poll' = NoPoll
    BY <1>7 DEF Refresh, RefreshUnanswered, Restart, EndPoll
  <2> QED
    BY <2>1 DEF CalmInv, NoPoll
<1>8. CASE ChainStep
  <2>1. poll' = [poll EXCEPT !.calm = FALSE]
    BY <1>8 DEF ChainStep, LedgerStep
  <2>2. ~poll'.calm
    BY <1>0, <2>1 DEF Polls
  <2> QED
    BY <2>2 DEF CalmInv
<1> QED
  BY <1>1, <1>2, <1>3, <1>4, <1>5, <1>6, <1>7, <1>8 DEF Next, Watcher

(* While the funding stands, every block that ever held it is there.       *)
LEMMA BuriedStands ==
  ASSUME TypeOK, ChainStep, ~undone',
         \A b \in buried : b.height \in 1..Height /\ HashAt(b.height) = b.block
  PROVE  \A b \in buried' : b.height \in 1..Height' /\ HashAt(b.height)' = b.block
<1>1. Height' \in Int /\ Height' = Len(chain') /\ Height \in Int
  BY ChainStepType, HeightType DEF TypeOK, LedgerTypeOK, Height
<1>2. \A b \in buried : ~(b.height > Len(chain')
                            \/ chain'[b.height].fork # b.block)
  BY DEF ChainStep
<1> TAKE b \in buried'
<1>3. CASE b \in buried
  BY <1>1, <1>2, <1>3 DEF HashAt
<1>4. CASE b \notin buried
  <2>1. PICK h \in 1..Len(chain') : b = [height |-> h, block |-> chain'[h].fork]
    BY <1>4 DEF ChainStep
  <2> QED
    BY <2>1 DEF HashAt, Height
<1> QED
  BY <1>3, <1>4

LEMMA StandStep ==
  ASSUME TypeOK, StandInv, [Next]_vars, MaxRestarts = 0
  PROVE  StandInv'
<1>0. v \in Vault /\ MaxHeight \in Nat /\ poll.conf \in 0..MaxHeight
  BY NumberTypes DEF TypeOK
<1>1. CASE UNCHANGED <<chain, buried, undone>>
  <2>1. ~undone' =>
          \A b \in buried' : b.height \in 1..Height' /\ HashAt(b.height)' = b.block
    BY <1>1 DEF StandInv, Height, HashAt
  <2>2. ASSUME NEW a, v' = UndoneAbove(a)
        PROVE  v'.fundHeight = 0 <=> v'.fundBlock = -1
    <3> DEFINE u == IF v.height <= a THEN v
                    ELSE [v EXCEPT !.by = None, !.height = 0,
                                   !.state = "UNCONFIRMED", !.back = 0]
    <3>1. /\ u.fundHeight = v.fundHeight /\ u.fundBlock = v.fundBlock
          /\ u \in [DOMAIN u -> {u[k] : k \in DOMAIN u}]
          /\ DOMAIN u = DOMAIN v
      BY <1>0 DEF Vault
    <3>2. \/ v' = u
          \/ v' = [u EXCEPT !.fundHeight = 0, !.fundBlock = -1, !.state = "GHOST",
                            !.conf = 0, !.back = 0]
      BY <2>2 DEF UndoneAbove
    <3>3. DOMAIN v = DOMAIN NewVault
      BY <1>0 DEF Vault, NewVault
    <3>4. "fundHeight" \in DOMAIN u /\ "fundBlock" \in DOMAIN u
      BY <3>1, <3>3 DEF NewVault
    <3> HIDE DEF u
    <3> QED
      BY <3>1, <3>2, <3>4 DEF StandInv
  <2>3. ASSUME PollStart PROVE v'.fundHeight = 0 <=> v'.fundBlock = -1
    BY <2>2, <2>3 DEF PollStart, StandInv
  <2>4. ASSUME ScanBlock PROVE v'.fundHeight = 0 <=> v'.fundBlock = -1
    <3>1. v'.fundHeight = v.fundHeight /\ v'.fundBlock = v.fundBlock
      BY <1>0, <2>4 DEF ScanBlock, Vault
    <3> QED
      BY <3>1 DEF StandInv
  <2>5. ASSUME Refresh \/ RefreshUnanswered
        PROVE  v'.fundHeight = 0 <=> v'.fundBlock = -1
    <3>1. \/ v' = v
          \/ \E to, r : v' = SeenGone(to, r)
          \/ v' = SeenUnspent(poll.conf, FundingPairs(poll.conf))
          \/ v' = SeenUnspent(poll.conf, {})
      BY <2>5 DEF Refresh, RefreshUnanswered
    <3>2. ASSUME NEW to, NEW r, v' = SeenGone(to, r)
          PROVE  v'.fundHeight = 0 <=> v'.fundBlock = -1
      BY <3>2, SeenGoneKeepsPair DEF StandInv
    <3>3. ASSUME NEW pairs \in SUBSET [height : Heights, block : 0..MaxForks],
                 v' = SeenUnspent(poll.conf, pairs)
          PROVE  v'.fundHeight = 0 <=> v'.fundBlock = -1
      <4>1. CASE pairs = {}
        <5>1. v'.fundHeight = v.fundHeight /\ v'.fundBlock = v.fundBlock
          BY <3>3, <4>1 DEF SeenUnspent
        <5> QED
          BY <5>1 DEF StandInv
      <4>2. CASE pairs # {}
        <5>1. PICK p \in pairs : p = CHOOSE q \in pairs : TRUE
          BY <4>2
        <5>2. v'.fundHeight = p.height /\ v'.fundBlock = p.block
          BY <3>3, <4>2, <5>1 DEF SeenUnspent
        <5>3. p.height \in 1..MaxHeight /\ p.block \in 0..MaxForks
          BY <5>1 DEF Heights
        <5>4. MaxForks \in Nat
          BY NumberTypes
        <5> QED
          BY <1>0, <5>2, <5>3, <5>4
      <4> QED
        BY <4>1, <4>2
    <3>4. FundingPairs(poll.conf) \subseteq [height : Heights, block : 0..MaxForks]
      BY <1>0, FundingPairsType
    <3> QED
      BY <3>1, <3>2, <3>3, <3>4 DEF StandInv
  <2>6. ASSUME v' = v PROVE v'.fundHeight = 0 <=> v'.fundBlock = -1
    BY <2>6 DEF StandInv
  <2>7. ~Restart
    BY DEF Restart, TypeOK
  <2>8. ~(PollStart \/ ScanBlock \/ Refresh \/ RefreshUnanswered) => v' = v
    BY <2>7 DEF Next, Watcher, PollFirst, PollStartUnanswered, RefreshOne, ScanBroken,
       ScanDone, AskTxout, ReadPool, ChainStep, watch, vars
  <2> QED
    BY <2>1, <2>3, <2>4, <2>5, <2>6, <2>8 DEF StandInv
<1>2. CASE ChainStep
  <2>1. v' = v
    BY <1>2 DEF ChainStep, watch
  <2>2. ~undone' => ~undone
    BY <1>2 DEF ChainStep
  <2> QED
    BY <1>2, <2>1, <2>2, BuriedStands DEF StandInv
<1> QED
  BY <1>1, <1>2 DEF Next, Watcher, PollFirst, PollStart, PollStartUnanswered,
     RefreshOne, ScanBlock, ScanBroken, ScanDone, AskTxout, ReadPool, Refresh,
     RefreshUnanswered, EndPoll, Restart, ledger, vars

(* A rewind undoes no funding that stands. *)
LEMMA RewoundTo ==
  ASSUME TypeOK, PairInv, StandInv, ~undone, NEW a \in 1..Height
  PROVE  UndoneAbove(a) = IF v.height <= a THEN v
                          ELSE [v EXCEPT !.by = None, !.height = 0,
                                         !.state = "UNCONFIRMED", !.back = 0]
<1>1. v.fundHeight > a => /\ v.fundBlock # -1
                          /\ HashAt(v.fundHeight) = v.fundBlock
  <2> SUFFICES ASSUME v.fundHeight > a
               PROVE  v.fundBlock # -1 /\ HashAt(v.fundHeight) = v.fundBlock
    OBVIOUS
  <2>1. v.fundHeight # 0
    BY NumberTypes
  <2>2. v.fundBlock # -1
    BY <2>1 DEF StandInv
  <2> QED
    BY <2>2 DEF PairInv, Named, StandInv
<1> QED
  BY <1>1 DEF UndoneAbove

(* What _spender finds is an exit, in the block it says. *)
LEMMA FoundIs ==
  ASSUME TypeOK, poll.tip <= Height, NEW to \in 1..MaxHeight + 1,
         NEW f \in {[tx |-> x, height |-> 0] : x \in PoolSpenders(VaultCoin)}
                     \cup Found(VaultCoin, v.back, poll.tip, to)
  PROVE  /\ f.tx \in Exits /\ f.height \in 0..poll.tip
         /\ f.height # 0 => /\ f.height \in 1..Height
                            /\ f.tx \in chain[f.height].txs
<1> DEFINE walked == {k \in to .. WalkTop(v.back, poll.tip) :
                        SpendersAt(VaultCoin, k) # {}}
<1>1. /\ poll.tip \in Int /\ Height \in Int /\ poll.tip >= 0 /\ to >= 1 /\ to \in Int
      /\ WalkTop(v.back, poll.tip) \in 0..poll.tip
  BY WalkTypes, NumberTypes
<1>2. CASE f \in {[tx |-> x, height |-> 0] : x \in PoolSpenders(VaultCoin)}
  BY <1>1, <1>2, PoolExits
<1>3. CASE f \notin {[tx |-> x, height |-> 0] : x \in PoolSpenders(VaultCoin)}
  <2>1. /\ walked # {}
        /\ f \in {[tx |-> x, height |-> Highest(walked)] :
                     x \in SpendersAt(VaultCoin, Highest(walked))}
    BY <1>3 DEF Found
  <2>2. walked \subseteq 1..poll.tip /\ walked \subseteq Nat
        /\ poll.tip \in Nat /\ \A k \in walked : k <= poll.tip
    BY <1>1
  <2> HIDE DEF walked
  <2>3. Highest(walked) \in walked
    BY <2>1, <2>2, Greatest
  <2>4. PICK x \in SpendersAt(VaultCoin, Highest(walked)) :
          f = [tx |-> x, height |-> Highest(walked)]
    BY <2>1
  <2>5. x \in Exits /\ x \in chain[Highest(walked)].txs
    BY VaultFamily DEF SpendersAt
  <2>6. Highest(walked) \in 1..poll.tip
    BY <2>2, <2>3
  <2> QED
    BY <1>1, <2>4, <2>5, <2>6
<1> QED
  BY <1>2, <1>3

(* Nothing was read: then no name is owed to any block. *)
LEMMA HonestUnread ==
  ASSUME TypeOK, NoExits(1, scanned), NEW u,
         u.height = 0,
         IF u.state \in Closed \ {"GHOST"}
         THEN \/ u.by = None /\ u.state = "SPENT_UNKNOWN"
              \/ u.by \in Exits /\ u.state = ExitState(u.by)
         ELSE u.by = None
  PROVE  Honest(u)
<1>1. \A h \in 1..Height : h <= scanned => h \in 1..scanned
  BY NumberTypes
<1> QED
  BY <1>1 DEF Honest, NoExits

LEMMA HonestGone ==
  ASSUME TypeOK, PairInv, LookInv, Honest(v), poll.phase = "refresh",
         scanned <= Height, RivalInv,
         NEW to \in 1..MaxHeight + 1, NEW reorged
  PROVE  Honest(SeenGone(to, reorged))
<1> DEFINE pooled == {[tx |-> x, height |-> 0] : x \in PoolSpenders(VaultCoin)}
           found == IF Unburied THEN pooled
                    ELSE Found(VaultCoin, v.back, poll.tip, to)
           walks == ~Unburied /\ PoolSpenders(VaultCoin) = {}
                      /\ ~Exhausted(v.back, poll.tip)
           back == IF ~walks THEN v.back
                   ELSE IF found = {} THEN to
                   ELSE (CHOOSE f \in found : TRUE).height
<1>0. /\ Height \in Int /\ scanned \in Int /\ poll.tip \in Int /\ MaxHeight \in Nat
      /\ poll.tip <= Height /\ v \in Vault /\ v.height \in Nat
      /\ \A h \in 1..scanned : Kept(h) /\ h \in 1..Height
      /\ MaxForks # 0 => poll.tip <= scanned
  BY NumberTypes DEF PairInv, LookInv, TypeOK
<1>1. CASE v.state = "GHOST"
  BY <1>1 DEF SeenGone
<1>2. CASE v.state # "GHOST" /\ v.state \in Closed
  <2> DEFINE other == PoolSpenders(VaultCoin) \ {v.by}
  <2>1. SeenGone(to, reorged) = IF other = {} THEN v
                                ELSE ClosedBy(CHOOSE x \in other : TRUE, 0)
    BY <1>2 DEF SeenGone
  <2>2. CASE other = {}
    BY <2>1, <2>2
  <2>3. CASE other # {}
    <3>1. PICK x \in other : x = CHOOSE y \in other : TRUE
      BY <2>3
    <3>2. x \in Exits /\ x \in Pool
      BY PoolExits
    <3>3. NoExits(1, scanned)
      <4>1. CASE poll.read
        BY <3>2, <4>1 DEF LookInv, Pool
      <4>2. CASE ~poll.read
        <5>1. x \in Exits \cap mempool
          BY <3>2, <4>2 DEF Pool
        <5> QED
          BY <1>0, <5>1 DEF RivalInv, NoExits
      <4> QED
        BY <4>1, <4>2
    <3>4. SeenGone(to, reorged) = ClosedBy(x, 0)
      BY <2>1, <2>3, <3>1
    <3>5. /\ ClosedBy(x, 0).height = 0 /\ ClosedBy(x, 0).by = x
          /\ ClosedBy(x, 0).state = ExitState(x)
      BY <1>0 DEF ClosedBy, Vault
    <3>6. Honest(ClosedBy(x, 0))
      BY <3>2, <3>3, <3>5, ExitStates, HonestUnread
    <3> QED
      BY <3>4, <3>6
  <2> QED
    BY <2>2, <2>3
<1>3. CASE v.state \notin Closed
  <2>1. v.by = None /\ v.height = 0
    BY <1>3 DEF Honest
  <2>2. NoExits(1, scanned)
    BY <1>0, <2>1 DEF Honest, NoExits
  <2>3. CASE found # {}
    <3>1. PICK f \in found : f = CHOOSE g \in found : TRUE
      BY <2>3
    <3>2. SeenGone(to, reorged) = [ClosedBy(f.tx, f.height) EXCEPT !.back = back]
      BY <1>3, <2>3, <3>1 DEF SeenGone, Closed
    <3>3. /\ f.tx \in Exits /\ f.height \in 0..poll.tip
          /\ f.height # 0 => /\ f.height \in 1..Height
                             /\ f.tx \in chain[f.height].txs
      <4>1. f \in pooled \cup Found(VaultCoin, v.back, poll.tip, to)
        BY <3>1
      <4> HIDE DEF found
      <4> QED
        BY <1>0, <4>1, FoundIs
    <3> DEFINE u == [ClosedBy(f.tx, f.height) EXCEPT !.back = back]
    <3>4. u.by = f.tx /\ u.height = f.height /\ u.state = ExitState(f.tx)
      BY <1>0 DEF ClosedBy, Vault
    <3> HIDE DEF u, back, found
    <3>5. ASSUME f.height = 0 PROVE Honest(u)
      BY <2>2, <3>3, <3>4, <3>5, ExitStates, HonestUnread
    <3>6. ASSUME f.height # 0 PROVE Honest(u)
      <4>1. \A h \in 1..Height : h <= scanned => Exits \cap chain[h].txs = {}
        BY <1>0, <2>2 DEF NoExits
      <4>2. f.height <= Height /\ (MaxForks # 0 => f.height <= scanned)
        BY <1>0, <3>3
      <4> QED
        BY <3>3, <3>4, <3>6, <4>1, <4>2, ExitStates DEF Honest
    <3>7. Honest(u)
      BY <3>5, <3>6
    <3> QED
      BY <3>2, <3>7 DEF u
  <2>4. CASE found = {}
    <3>1. SeenGone(to, reorged) = Unexplained(back, reorged)
      BY <1>3, <2>4 DEF SeenGone, Closed
    <3> HIDE DEF back, found
    <3> DEFINE w == [v EXCEPT !.back = back]
    <3>2. /\ w.by = None /\ w.height = 0 /\ w.state = v.state
          /\ [w EXCEPT !.state = "GHOST", !.conf = 0].by = None
          /\ [w EXCEPT !.state = "GHOST", !.conf = 0].height = 0
          /\ [w EXCEPT !.state = "GHOST", !.conf = 0].state = "GHOST"
          /\ [w EXCEPT !.state = "SPENT_UNKNOWN"].by = None
          /\ [w EXCEPT !.state = "SPENT_UNKNOWN"].height = 0
          /\ [w EXCEPT !.state = "SPENT_UNKNOWN"].state = "SPENT_UNKNOWN"
      BY <1>0, <2>1 DEF Vault
    <3>3. Unexplained(back, reorged)
            \in {w, [w EXCEPT !.state = "GHOST", !.conf = 0],
                 [w EXCEPT !.state = "SPENT_UNKNOWN"]}
      BY DEF Unexplained
    <3> DEFINE z == Unexplained(back, reorged)
    <3>4. /\ z.height = 0 /\ z.by = None
          /\ z.state \in Closed \ {"GHOST"} => z.state = "SPENT_UNKNOWN"
      BY <1>3, <3>2, <3>3 DEF Closed
    <3> HIDE DEF w, z
    <3>5. Honest(z)
      BY <2>2, <3>4, HonestUnread
    <3> QED
      BY <3>1, <3>5 DEF z
  <2> QED
    BY <2>3, <2>4
<1> QED
  BY <1>1, <1>2, <1>3

LEMMA HonestUnspent ==
  ASSUME TypeOK, LookInv, Honest(v), poll.answered, poll.out,
         NEW conf, NEW pairs
  PROVE  Honest(SeenUnspent(conf, pairs))
<1> DEFINE u == SeenUnspent(conf, pairs)
<1>1. NoExits(1, scanned)
  BY DEF LookInv
<1>2. u.state \notin Closed
  BY DEF SeenUnspent, Closed
<1>3. /\ u.by = IF v.state \in Closed \ {"GHOST"} THEN None ELSE v.by
      /\ u.height = IF v.state \in Closed \ {"GHOST"} THEN 0 ELSE v.height
  BY DEF SeenUnspent
<1>4. u.by = None /\ u.height = 0
  BY <1>3 DEF Honest
<1> HIDE DEF u
<1>5. Honest(u)
  BY <1>1, <1>2, <1>4, HonestUnread
<1> QED
  BY <1>5 DEF u

LEMMA RefreshHonest ==
  ASSUME TypeOK, PairInv, RivalInv, LookInv, Honest(v),
         Refresh \/ RefreshUnanswered
  PROVE  Honest(v')
<1>1. poll.phase = "refresh" /\ scanned <= Height /\ poll.conf \in 0..MaxHeight
  BY NumberTypes DEF Refresh, RefreshUnanswered, LookInv
<1>2. poll.answered /\ poll.out =>
        /\ Honest(SeenUnspent(poll.conf, FundingPairs(poll.conf)))
        /\ Honest(SeenUnspent(poll.conf, {}))
  BY HonestUnspent
<1>3. \A to \in WalkEnds(v.back, poll.tip) \cup WalkBreaks(v.back, poll.tip) :
        /\ Honest(SeenGone(to, FundingReorged))
        /\ Honest(SeenGone(to, "unknown"))
  BY <1>1, WalkTypes, HonestGone
<1>4. CASE Refresh
  <2>1. PICK to \in WalkEnds(v.back, poll.tip) :
          v' = IF Final(poll.tip) \/ ~poll.answered THEN v
               ELSE IF poll.out
               THEN SeenUnspent(poll.conf, FundingPairs(poll.conf))
               ELSE SeenGone(to, FundingReorged)
    BY <1>4 DEF Refresh
  <2> QED
    BY <1>2, <1>3, <2>1
<1>5. CASE RefreshUnanswered
  <2>1. /\ poll.answered
        /\ \/ poll.out /\ v' = SeenUnspent(poll.conf, {})
           \/ /\ ~poll.out
              /\ \/ \E to \in WalkBreaks(v.back, poll.tip) :
                      v' = SeenGone(to, FundingReorged)
                 \/ \E to \in WalkEnds(v.back, poll.tip) :
                      v' = SeenGone(to, "unknown")
    BY <1>5 DEF RefreshUnanswered
  <2> QED
    BY <1>2, <1>3, <2>1
<1> QED
  BY <1>4, <1>5

LEMMA HonestStep ==
  ASSUME TypeOK, PairInv, RivalInv, LinkInv, LookInv, StandInv, TruthTerms,
         [Next]_vars, Standing' => Standing /\ Honest(v)
  PROVE  Standing' => Honest(v)'
<1> SUFFICES ASSUME Standing' PROVE Honest(v)'
  OBVIOUS
<1>0. /\ Height \in 0..MaxHeight /\ MaxHeight \in Nat /\ scanned \in Nat
      /\ scanned >= 1 /\ MaxForks \in Nat /\ v \in Vault /\ v.height \in Nat
      /\ Standing /\ Honest(v)
      /\ MaxForks # 0 => RescanDepth >= MaxHeight
  BY NumberTypes DEF TruthTerms, LookInv, TypeOK
<1>1. CASE UNCHANGED <<chain, scanned, v>> /\ \A h : Kept(h)' <=> Kept(h)
  <2>1. Height' = Height
    BY <1>1 DEF Height
  <2> QED
    BY <1>0, <1>1, <2>1 DEF Honest
<1>2. CASE PollStart
  <2>1. chain' = chain /\ Height' = Height
    BY <1>2 DEF PollStart, ledger, Height
  <2>2. CASE scan' = scan /\ v' = v
    <3>1. \A h : Kept(h)' <=> Kept(h)
      BY <2>1, <2>2 DEF Kept, HashAt, scan
    <3> QED
      BY <1>1, <2>1, <2>2, <3>1 DEF scan
  <2>3. CASE ~(scan' = scan /\ v' = v)
    <3>1. PICK a : a = Ancestor(Height)
      OBVIOUS
    <3>2. /\ MaxForks # 0 /\ scanned' = a /\ v' = UndoneAbove(a)
          /\ \A h \in 1..a : Kept(h) /\ Kept(h)'
      BY <1>0, <1>2, <2>3, <3>1, StartLink
    <3>3. a \in 1..Height /\ a <= scanned
      BY <1>0, <3>1, <3>2, RewindKept
    <3>4. ~undone
      BY <1>0, <3>2 DEF Standing
    <3>5. v' = IF v.height <= a THEN v
               ELSE [v EXCEPT !.by = None, !.height = 0,
                              !.state = "UNCONFIRMED", !.back = 0]
      BY <3>2, <3>3, <3>4, RewoundTo
    <3>6. \A h \in 1..Height : h <= a =>
            /\ h <= scanned /\ Kept(h) /\ h \in 1..a
            /\ Exits \cap chain[h].txs # {} => v.height = h
      BY <1>0, <3>2, <3>3 DEF Honest
    <3>7. CASE v.height <= a
      <4>1. v' = v
        BY <3>5, <3>7
      <4>2. v.height > 0 => v.by \in chain[v.height].txs
        <5>1. v.height > 0 => v.height \in 1..a
          BY <1>0, <3>3, <3>7
        <5> QED
          BY <1>0, <3>2, <5>1 DEF Honest
      <4>3. v.height > 0 => v.by \in Exits /\ v.state = ExitState(v.by)
        BY <1>0 DEF Honest
      <4> QED
        BY <1>0, <2>1, <3>2, <3>6, <3>7, <4>1, <4>2, <4>3 DEF Honest
    <3>8. CASE ~(v.height <= a)
      <4>1. v'.by = None /\ v'.height = 0 /\ v'.state = "UNCONFIRMED"
        BY <1>0, <3>5, <3>8 DEF Vault
      <4>2. \A h \in 1..Height : h <= a => Exits \cap chain[h].txs = {}
        BY <1>0, <3>3, <3>6, <3>8
      <4> QED
        BY <2>1, <3>2, <4>1, <4>2 DEF Honest, Closed
    <3> QED
      BY <3>7, <3>8
  <2> QED
    BY <2>2, <2>3
<1>3. CASE ScanBlock
  <2>0. PICK top : top = scanned + 1
    OBVIOUS
  <2>1. poll.phase = "scan"
    BY <1>3 DEF ScanBlock
  <2>2. scanned \in 0..Height /\ \A h \in 1..scanned : Kept(h) /\ h \in 1..Height
    BY <1>0, <2>1 DEF LookInv
  <2>3. /\ top \in 1..Height /\ scanned' = top /\ Height' = Height
        /\ \A h \in 1..top : Kept(h)'
    BY <1>3, <2>0, <2>2, ScanKeeps
  <2>4. chain' = chain
    BY <1>3 DEF ScanBlock, ledger
  <2> DEFINE exits == SpendersAt(VaultCoin, top)
  <2>5. exits = Exits \cap chain[top].txs
    BY VaultFamily DEF SpendersAt
  <2>6. v' = IF exits = {} \/ Settled THEN v
             ELSE LET x == CHOOSE y \in exits : TRUE
                  IN  [v EXCEPT !.state = ExitState(x), !.by = x, !.height = top]
    BY <1>3, <2>0 DEF ScanBlock
  <2>7. \A h \in 1..scanned : Exits \cap chain[h].txs # {} => v.height = h
    BY <1>0, <2>2 DEF Honest
  <2>8. \A h \in 1..top : h = top \/ h \in 1..scanned
    BY <1>0, <2>0
  <2>9. /\ v.height > 0 => /\ v.height \in 1..Height /\ Kept(v.height)
                           /\ v.by \in Exits /\ v.by \in chain[v.height].txs
                           /\ v.state = ExitState(v.by)
        /\ MaxForks # 0 => v.height <= scanned
    <3>1. v.height > 0 => v.height <= IF MaxForks = 0 THEN Height ELSE scanned
      BY <1>0 DEF Honest
    <3>2. v.height > 0 => v.height \in 1..Height /\ Kept(v.height)
      BY <1>0, <2>2, <3>1 DEF Kept
    <3> QED
      BY <1>0, <3>1, <3>2 DEF Honest
  <2> HIDE DEF exits
  <2>10. CASE exits = {} \/ Settled
    <3>1. v' = v
      BY <2>6, <2>10
    <3>2. exits # {} => v.height = top
      <4> SUFFICES ASSUME exits # {} PROVE v.height = top
        OBVIOUS
      <4>1. v.height > 0
        BY <2>10 DEF Settled
      <4> QED
        BY <2>3, <2>5, <2>9, <4>1 DEF RivalInv
    <3>3. \A h \in 1..Height : h <= top /\ Exits \cap chain[h].txs # {} => v.height = h
      BY <2>3, <2>5, <2>7, <2>8, <3>2
    <3>4. v.height <= Height /\ (MaxForks # 0 => v.height <= top)
      BY <1>0, <2>0, <2>9
    <3>5. IF v.state \in Closed \ {"GHOST"}
          THEN \/ v.by = None /\ v.state = "SPENT_UNKNOWN"
               \/ v.by \in Exits /\ v.state = ExitState(v.by)
          ELSE v.by = None /\ v.height = 0
      BY <1>0 DEF Honest
    <3> QED
      BY <2>3, <2>4, <2>9, <3>1, <3>3, <3>4, <3>5 DEF Honest
  <2>11. CASE ~(exits = {} \/ Settled)
    <3>1. PICK x \in exits : x = CHOOSE y \in exits : TRUE
      BY <2>11
    <3>2. v'.state = ExitState(x) /\ v'.by = x /\ v'.height = top
      BY <1>0, <2>6, <2>11, <3>1 DEF Vault
    <3>3. x \in Exits /\ x \in chain[top].txs
      BY <2>5, <3>1
    <3>4. \A h \in 1..Height : Exits \cap chain[h].txs # {} => h = top
      BY <2>3, <3>3 DEF RivalInv
    <3>5. top > 0 /\ top <= Height /\ top <= top
      BY <1>0, <2>3
    <3> QED
      BY <2>3, <2>4, <3>2, <3>3, <3>4, <3>5, ExitStates DEF Honest
  <2> QED
    BY <2>10, <2>11
<1>4. CASE Refresh \/ RefreshUnanswered
  <2>1. Honest(v')
    BY <1>0, <1>4, RefreshHonest
  <2>2. \E calm : EndPoll(calm)
    BY <1>4 DEF Refresh, RefreshUnanswered
  <2>3. scanned' = scanned /\ \A h : Kept(h)' <=> Kept(h)
    BY <1>0, <2>2, EndPollLink
  <2>4. chain' = chain /\ Height' = Height
    BY <2>2 DEF EndPoll, ledger, Height
  <2> QED
    BY <2>1, <2>3, <2>4 DEF Honest
<1>5. CASE ChainStep
  <2>1. v' = v /\ scanned' = scanned
    BY <1>5 DEF ChainStep, watch, scan
  <2>2. \A h \in 1..Height' : h <= scanned /\ Kept(h)' =>
          h \in 1..Height /\ Kept(h) /\ chain'[h] = chain[h]
    <3> TAKE h \in 1..Height'
    <3> HAVE h <= scanned /\ Kept(h)'
    <3>1. /\ h \in 1..Height /\ Kept(h)
          /\ \A k \in 1..h : chain'[k] = chain[k]
      BY <1>5, ChainKeeps
    <3>2. h \in 1..h
      BY <3>1
    <3> QED
      BY <3>1, <3>2
  <2>3. \A h \in 1..Height' :
          h <= scanned' /\ Kept(h)' /\ Exits \cap chain'[h].txs # {} => v'.height = h
    BY <1>0, <2>1, <2>2 DEF Honest
  <2>4. v.height > 0 =>
          /\ IF MaxForks = 0 THEN v.height <= Height' ELSE v.height <= scanned
          /\ Kept(v.height)' => v.by \in chain'[v.height].txs
    <3> SUFFICES ASSUME v.height > 0
                 PROVE  /\ IF MaxForks = 0 THEN v.height <= Height'
                           ELSE v.height <= scanned
                        /\ Kept(v.height)' => v.by \in chain'[v.height].txs
      OBVIOUS
    <3>0. PICK n : n = v.height
      OBVIOUS
    <3>1. /\ IF MaxForks = 0 THEN n <= Height ELSE n <= scanned
          /\ Kept(n) => v.by \in chain[n].txs
          /\ n \in Nat /\ n > 0 /\ (Kept(n)' <=> Kept(v.height)')
      BY <1>0, <2>1, <3>0 DEF Honest
    <3>2. CASE MaxForks = 0
      <4>1. Height <= Height' /\ n \in 1..Height /\ chain'[n] = chain[n]
        BY <1>0, <1>5, <3>1, <3>2, Grows
      <4>2. Kept(n)
        BY <3>2, <4>1 DEF Kept
      <4>3. Height' \in Int
        BY <1>5, ChainStepType DEF TypeOK, LedgerTypeOK, Height
      <4> QED
        BY <1>0, <3>0, <3>1, <3>2, <4>1, <4>2, <4>3
    <3>3. CASE MaxForks # 0
      <4>1. Kept(n)' => n \in 1..Height'
        BY DEF Kept
      <4>2. Kept(n)' => v.by \in chain'[n].txs
        BY <2>2, <3>1, <3>3, <4>1
      <4> QED
        BY <3>0, <3>1, <3>3, <4>2
    <3> QED
      BY <3>2, <3>3
  <2>5. /\ v.height > 0 => v.by \in Exits /\ v.state = ExitState(v.by)
        /\ IF v.state \in Closed \ {"GHOST"}
           THEN \/ v.by = None /\ v.state = "SPENT_UNKNOWN"
                \/ v.by \in Exits /\ v.state = ExitState(v.by)
           ELSE v.by = None /\ v.height = 0
    BY <1>0 DEF Honest
  <2> QED
    BY <2>1, <2>3, <2>4, <2>5 DEF Honest
<1>6. CASE Restart
  <2>1. restarts \in 0..MaxRestarts /\ restarts < MaxRestarts /\ MaxRestarts = 0
    BY <1>6 DEF Restart, TypeOK, TruthTerms
  <2> QED
    BY <2>1
<1>7. CASE PollFirst
  BY <1>0, <1>7 DEF PollFirst
<1>8. CASE \/ UNCHANGED vars \/ PollStartUnanswered \/ RefreshOne \/ ScanBroken
           \/ ScanDone \/ AskTxout \/ ReadPool
  <2>1. UNCHANGED <<chain, scanned, hashes, v>>
    BY <1>8 DEF PollStartUnanswered, RefreshOne, ScanBroken, ScanDone, AskTxout,
       ReadPool, ledger, scan, watch, vars
  <2>2. \A h : Kept(h)' <=> Kept(h)
    BY <2>1 DEF Kept, Height, HashAt
  <2> QED
    BY <1>1, <2>1, <2>2
<1> QED
  BY <1>2, <1>3, <1>4, <1>5, <1>6, <1>7, <1>8 DEF Next, Watcher

(* What a poll that was not disturbed knew when it came to its judgement.  *)
LEMMA CalmKnows ==
  ASSUME TypeOK, LookInv, CalmInv, poll.phase = "refresh", poll.calm
  PROVE  /\ poll.tip = Height /\ scanned = Height /\ poll.answered
         /\ \A h \in 1..Height : h <= scanned /\ Kept(h)
         /\ poll.out = Unspent(VaultCoin)
         /\ poll.out => poll.conf = Confirmations(VaultCoin)
         /\ PoolSpenders(VaultCoin) = Exits \cap mempool
<1>1. /\ poll.tip = Height /\ scanned = Height /\ poll.answered
      /\ poll.out = Unspent(VaultCoin)
      /\ poll.out => poll.conf = Confirmations(VaultCoin)
      /\ Pool = mempool
  BY DEF CalmInv, Pool
<1>2. \A h \in 1..scanned : Kept(h)
  BY DEF LookInv
<1> QED
  BY <1>1, <1>2, PoolExits, NumberTypes

LEMMA CalmTruth ==
  ASSUME TypeOK, RivalInv, LookInv, CalmInv, Honest(v), Refresh, poll.calm,
         Known("fund")
  PROVE  \/ v'.state \in TrueStates
         \/ v'.state = "GHOST" /\ Exits \cap mempool # {}
<1>1. /\ poll.phase = "refresh" /\ poll.tip = Height /\ scanned = Height
      /\ \A h \in 1..Height : h <= scanned /\ Kept(h)
      /\ poll.out = Unspent(VaultCoin)
      /\ poll.out => poll.conf = Confirmations(VaultCoin)
      /\ PoolSpenders(VaultCoin) = Exits \cap mempool
      /\ v \in Vault /\ v.height \in Nat /\ Height \in Nat
  BY CalmKnows, NumberTypes DEF Refresh, TypeOK
<1>2. PICK to \in WalkEnds(v.back, poll.tip) :
        v' = IF Final(poll.tip) THEN v
             ELSE IF poll.out
             THEN SeenUnspent(poll.conf, FundingPairs(poll.conf))
             ELSE SeenGone(to, FundingReorged)
  BY CalmKnows DEF Refresh
<1>3. CASE \E h \in 1..Height : Exits \cap chain[h].txs # {}
  <2>1. PICK h \in 1..Height : Exits \cap chain[h].txs # {}
    BY <1>3
  <2>2. v.height = h /\ h > 0
    BY <1>1, <2>1 DEF Honest
  <2>3. v.by \in Exits /\ v.state = ExitState(v.by) /\ v.by \in chain[h].txs
    BY <1>1, <2>2 DEF Honest
  <2>4. v.state \in Closed /\ v.state # "GHOST"
    BY <2>3, ExitStates
  <2>5. Exits \cap mempool = {}
    BY <2>1 DEF RivalInv
  <2>6. ~Unspent(VaultCoin)
    BY <2>1, SpentCoin DEF NoExits
  <2>7. SeenGone(to, FundingReorged) = v
    BY <1>1, <2>4, <2>5 DEF SeenGone
  <2>8. v' = v
    BY <1>1, <1>2, <2>6, <2>7
  <2>9. v.by \in {x \in Exits : InChain(x)}
    BY <2>1, <2>3 DEF InChain
  <2> QED
    BY <2>3, <2>8, <2>9 DEF TrueStates
<1>4. CASE \A h \in 1..Height : Exits \cap chain[h].txs = {}
  <2>1. {x \in Exits : InChain(x)} = {}
    BY <1>4 DEF InChain
  <2>2. ~Final(poll.tip)
    <3> SUFFICES ASSUME v.height > 0 PROVE FALSE
      BY DEF Final, Settled
    <3>1. v.height \in 1..Height
      <4>1. v.height <= Height
        BY <1>1 DEF Honest
      <4> QED
        BY <1>1, <4>1
    <3>2. v.by \in Exits \cap chain[v.height].txs
      BY <1>1, <3>1 DEF Honest
    <3> QED
      BY <1>4, <3>1, <3>2
  <2>3. CASE Exits \cap mempool = {}
    <3>1. Unspent(VaultCoin)
      <4>1. \A x \in Exits : ~Known(x)
        BY <1>4, <2>3 DEF Known, InChain
      <4> QED
        BY <4>1, VaultFamily DEF Unspent
    <3>2. v' = SeenUnspent(poll.conf, FundingPairs(poll.conf))
      BY <1>1, <1>2, <2>2, <3>1
    <3>3. v'.state = IF Confirmations(VaultCoin) >= MinDepth THEN "LIVE"
                     ELSE "UNCONFIRMED"
      BY <1>1, <3>1, <3>2 DEF SeenUnspent
    <3> QED
      BY <2>1, <2>3, <3>3 DEF TrueStates
  <2>4. CASE Exits \cap mempool # {}
    <3>1. PICK x \in Exits \cap mempool : TRUE
      BY <2>4
    <3>2. Exits \cap mempool = {x}
      BY <3>1 DEF RivalInv
    <3>3. ~Unspent(VaultCoin)
      BY <3>1, SpentCoin
    <3>4. v' = SeenGone(to, FundingReorged)
      BY <1>1, <1>2, <2>2, <3>3
    <3>5. TrueStates = {ExitState(x)}
      BY <2>1, <3>2 DEF TrueStates
    <3>6. CASE v.state = "GHOST"
      BY <2>4, <3>4, <3>6 DEF SeenGone
    <3>7. CASE v.state # "GHOST" /\ v.state \in Closed
      <4> DEFINE other == PoolSpenders(VaultCoin) \ {v.by}
      <4>1. v' = IF other = {} THEN v ELSE ClosedBy(CHOOSE y \in other : TRUE, 0)
        BY <3>4, <3>7 DEF SeenGone
      <4>2. CASE other = {}
        <5>1. v.by = x
          BY <1>1, <3>2, <4>2
        <5>2. x # None
          BY <3>1, LedgerAssumption DEF Exits
        <5>3. v.state = ExitState(x)
          BY <3>7, <5>1, <5>2 DEF Honest
        <5> QED
          BY <3>5, <4>1, <4>2, <5>3
      <4>3. CASE other # {}
        <5>1. PICK y \in other : y = CHOOSE z \in other : TRUE
          BY <4>3
        <5>2. y = x
          BY <1>1, <3>2, <5>1
        <5>3. v' = ClosedBy(x, 0)
          BY <4>1, <4>3, <5>1, <5>2
        <5>4. v'.state = ExitState(x)
          BY <1>1, <5>3 DEF ClosedBy, Vault
        <5> QED
          BY <3>5, <5>4
      <4> QED
        BY <4>2, <4>3
    <3>8. CASE v.state \notin Closed
      <4> DEFINE found == IF Unburied
                          THEN {[tx |-> y, height |-> 0] :
                                  y \in PoolSpenders(VaultCoin)}
                          ELSE Found(VaultCoin, v.back, poll.tip, to)
      <4>1. found = {[tx |-> y, height |-> 0] : y \in PoolSpenders(VaultCoin)}
        BY <1>1, <3>2 DEF Found
      <4>2. found = {[tx |-> x, height |-> 0]}
        BY <1>1, <3>2, <4>1
      <4>3. PICK f : f = CHOOSE g \in found : TRUE
        OBVIOUS
      <4>4. f = [tx |-> x, height |-> 0]
        <5> HIDE DEF found
        <5> QED
          BY <4>2, <4>3
      <4>5. \E back : v' = [ClosedBy(f.tx, f.height) EXCEPT !.back = back]
        <5>1. found # {}
          <6> HIDE DEF found
          <6> QED
            BY <4>2
        <5> QED
          BY <3>4, <3>8, <4>3, <5>1 DEF SeenGone, Closed
      <4>6. v'.state = ExitState(x)
        BY <1>1, <4>4, <4>5 DEF ClosedBy, Vault
      <4> QED
        BY <3>5, <4>6
    <3> QED
      BY <3>6, <3>7, <3>8
  <2> QED
    BY <2>3, <2>4
<1> QED
  BY <1>3, <1>4

(* Only an undisturbed poll's judgement leaves a verdict one may ask about.*)
LEMMA FreshFrom ==
  ASSUME TypeOK, [Next]_vars, Fresh'
  PROVE  UNCHANGED vars \/ (Refresh /\ poll.calm)
<1>1. QuietPolls # 0 /\ poll \in Polls
  BY ScannerAssumption DEF TypeOK, ScannerTypeOK
<1>2. CASE Refresh
  <2> SUFFICES ASSUME ~poll.calm PROVE FALSE
    BY <1>2
  <2>1. quiet' = 0
    BY <1>2 DEF Refresh, EndPoll, Quieter
  <2> QED
    BY <1>1, <2>1 DEF Fresh
<1>3. CASE RefreshUnanswered \/ Restart \/ ChainStep
  <2>1. quiet' = 0
    BY <1>3 DEF RefreshUnanswered, EndPoll, Quieter, Restart, ChainStep, LedgerStep
  <2> QED
    BY <1>1, <2>1 DEF Fresh
<1>4. CASE \/ PollFirst \/ PollStart \/ PollStartUnanswered \/ RefreshOne
           \/ ScanBlock \/ ScanBroken \/ ScanDone \/ AskTxout \/ ReadPool
  <2>1. CASE PollFirst \/ PollStart \/ PollStartUnanswered \/ RefreshOne
    BY <2>1 DEF PollFirst, PollStart, PollStartUnanswered, RefreshOne, Begin,
       NoPoll, Fresh
  <2>2. CASE ScanBlock \/ ScanBroken \/ ScanDone
    BY <1>1, <2>2 DEF ScanBlock, ScanBroken, ScanDone, Polls, Fresh
  <2>3. CASE AskTxout
    <3>1. CASE poll' = [poll EXCEPT !.phase = "refresh", !.answered = TRUE,
                            !.out = Unspent(VaultCoin),
                            !.conf = IF Unspent(VaultCoin)
                                     THEN Confirmations(VaultCoin)
                                     ELSE 0]
      BY <1>1, <3>1 DEF Polls, Fresh
    <3>2. CASE poll' = [poll EXCEPT !.calm = FALSE,
                 !.phase = IF @ = "batch" THEN "alone" ELSE "refresh"]
      BY <1>1, <3>2 DEF Polls, Fresh
    <3> QED
      BY <2>3, <3>1, <3>2 DEF AskTxout
  <2>4. CASE ReadPool
    BY <1>1, <2>4 DEF ReadPool, ReadMempool, Polls, Fresh
  <2> QED
    BY <1>4, <2>1, <2>2, <2>3, <2>4
<1> QED
  BY <1>2, <1>3, <1>4 DEF Next, Watcher

(* A poll of VaultWatcher that nothing disturbed ends with the truth about *)
(* a vault whose funding stands: with any number of unanswered questions,  *)
(* evictions and requests before it on a chain that is never reorganised;  *)
(* and, while the funding is not undone, with any number of reorgs between *)
(* polls of a node that answers.                                           *)
THEOREM QuietPollsTellTruth ==
  ASSUME TruthTerms
  PROVE  Spec => [](Standing => PollTellsTruth)
<1> DEFINE Truth == Standing => PollTellsTruth
           TruthInv == /\ TypeOK /\ PairInv /\ RivalInv /\ LinkInv
                       /\ LookInv /\ CalmInv /\ StandInv
                       /\ Standing => Honest(v)
<1>1. Init => TruthInv /\ Truth
  <2> SUFFICES ASSUME Init PROVE TruthInv /\ Truth
    OBVIOUS
  <2>1. TruthInv
    BY InitType, InitPair, InitRival, InitScan, InitTruth
  <2>2. quiet = 0 /\ QuietPolls # 0
    BY ScannerAssumption DEF Init, ScannerInit
  <2> QED
    BY <2>1, <2>2 DEF PollTellsTruth, Fresh
<1>2. ASSUME TruthInv, Truth, [Next]_vars PROVE TruthInv' /\ Truth'
  <2>1. TypeOK' /\ PairInv' /\ RivalInv'
    BY <1>2, TypeStep, PairStep, RivalStep DEF TruthTerms
  <2>2. LinkInv' /\ LookInv'
    BY <1>2, LookStep
  <2>3. CalmInv' /\ StandInv'
    BY <1>2, CalmStep, StandStep DEF TruthTerms
  <2>4. Standing' => Standing
    <3>1. undone => undone'
      BY <1>2 DEF Next, Watcher, PollFirst, PollStart, PollStartUnanswered,
         RefreshOne, ScanBlock, ScanBroken, ScanDone, AskTxout, ReadPool, Refresh,
         RefreshUnanswered, EndPoll, Restart, ChainStep, vars
    <3> QED
      BY <3>1 DEF Standing
  <2>5. Standing' => Honest(v)'
    BY <1>2, <2>4, HonestStep
  <2>6. Truth'
    <3> SUFFICES ASSUME Standing', Fresh', Known("fund")'
                 PROVE  \/ v'.state \in TrueStates'
                        \/ v'.state = "GHOST" /\ Exits \cap mempool' # {}
      BY DEF PollTellsTruth
    <3>1. Honest(v) /\ Standing
      BY <1>2, <2>4
    <3>2. CASE UNCHANGED vars
      <4>1. Fresh /\ Known("fund") /\ TrueStates' = TrueStates /\ v' = v
            /\ mempool' = mempool
        BY <3>2 DEF vars, ledger, watch, Fresh, Known, InChain, Height, TrueStates,
           Confirmations
      <4> QED
        BY <1>2, <3>1, <4>1 DEF PollTellsTruth
    <3>3. CASE Refresh /\ poll.calm
      <4>1. chain' = chain /\ mempool' = mempool
        BY <3>3 DEF Refresh, EndPoll, ledger
      <4>2. Known("fund") /\ TrueStates' = TrueStates
        BY <4>1 DEF Known, InChain, Height, TrueStates, Confirmations
      <4> QED
        BY <1>2, <3>1, <3>3, <4>1, <4>2, CalmTruth
    <3> QED
      BY <1>2, <3>2, <3>3, FreshFrom
  <2> QED
    BY <2>1, <2>2, <2>3, <2>5, <2>6
<1> QED
  BY <1>1, <1>2, PTL DEF Spec

-----------------------------------------------------------------------------
(* ... and on a chain that is never reorganised, about a funding that is   *)
(* gone from the mempool as well: nothing was ever buried.                 *)
FundInv ==
    /\ \A x \in Exits : Known(x) => Known("fund")
    /\ \A x \in Exits : InChain(x) => InChain("fund")
    /\ poll.conf > 0 \/ v.conf > 0 \/ v.fundBlock # -1 => InChain("fund")
    /\ v.state = "LIVE" => v.conf >= MinDepth

LEMMA InitFund == Init => FundInv
<1> SUFFICES ASSUME Init PROVE FundInv
  OBVIOUS
<1>1. Height = 1 /\ chain[1].txs = {} /\ mempool = {"fund"}
  BY DEF Init, Height
<1>2. \A x : ~InChain(x)
  BY <1>1 DEF InChain
<1>3. poll.conf = 0 /\ v.conf = 0 /\ v.fundBlock = -1 /\ v.state = "UNCONFIRMED"
  BY DEF Init, ScannerInit, NoPoll, NewVault
<1> QED
  BY <1>1, <1>2, <1>3 DEF FundInv, Known

(* Every exit goes with the funding. *)
LEMMA FundFamily == Exits \subseteq Family({"fund"})
<1>1. Exits \subseteq Children({"fund"})
  BY VaultFamily, VaultAssumption DEF Children
<1> QED
  BY <1>1 DEF Family

(* What enters or leaves the mempool leaves no exit without the funding.   *)
LEMMA PoolFund ==
  ASSUME \A x \in Exits : Known(x) => Known("fund"),
         \A x \in Exits : InChain(x) => InChain("fund"),
         NEW t \in Txs, Broadcast(t) \/ Evict(t)
  PROVE  /\ chain' = chain /\ \A x : InChain(x)' <=> InChain(x)
         /\ \A x \in Exits : Known(x)' => Known("fund")'
<1>1. chain' = chain
  BY DEF Broadcast, Evict
<1>2. \A x : InChain(x)' <=> InChain(x)
  BY <1>1 DEF InChain, Height
<1>3. ASSUME NEW x \in Exits, Known(x)' PROVE Known("fund")'
  <2>1. CASE InChain("fund")
    BY <1>2, <2>1 DEF Known
  <2>2. CASE ~InChain("fund")
    <3>1. x \in mempool' /\ ~InChain(x)
      BY <1>2, <1>3, <2>2 DEF Known
    <3>2. CASE Broadcast(t)
      <4>1. mempool' = (mempool \ IF Spends[t] = None THEN {}
                                  ELSE Family(Spenders(Spends[t]))) \cup {t}
        BY <3>2 DEF Broadcast
      <4>2. t \in Exits => Known("fund")
        BY <3>2, VaultFamily, VaultAssumption DEF Broadcast
      <4>3. t = "fund" \/ t \in Exits
        BY VaultFamily
      <4>4. t \in Exits => Family(Spenders(Spends[t])) = Exits
        BY VaultFamily, FamilyIs, VaultAssumption
      <4>5. CASE t = "fund"
        BY <4>1, <4>5 DEF Known
      <4>6. CASE t \in Exits
        <5>1. "fund" \in mempool
          BY <2>2, <4>2, <4>6 DEF Known
        <5>2. Spends[t] # None
          BY <4>6, VaultFamily, VaultAssumption
        <5> QED
          BY <4>1, <4>4, <4>6, <5>1, <5>2, VaultFamily DEF Known
      <4> QED
        BY <4>3, <4>5, <4>6
    <3>3. CASE Evict(t)
      <4>1. mempool' = mempool \ Family({t}) /\ t \in mempool
        BY <3>3 DEF Evict
      <4>2. "fund" \in mempool
        BY <2>2, <3>1, <4>1 DEF Known
      <4>3. x \in Family({"fund"})
        BY FundFamily
      <4>4. t # "fund"
        BY <3>1, <4>1, <4>3
      <4>5. "fund" \notin Family({t})
        BY <4>4, VaultFamily, FamilyIs
      <4> QED
        BY <4>1, <4>2, <4>5 DEF Known
    <3> QED
      BY <3>2, <3>3
  <2> QED
    BY <2>1, <2>2
<1> QED
  BY <1>1, <1>2, <1>3

LEMMA LedgerFund ==
  ASSUME TypeOK, FundInv, MaxForks = 0, ChainStep
  PROVE  /\ InChain("fund") => InChain("fund")'
         /\ \A x \in Exits : Known(x)' => Known("fund")'
         /\ \A x \in Exits : InChain(x)' => InChain("fund")'
<1>0. LedgerTypeOK /\ Height \in Nat /\ forks \in 0..0
  BY NumberTypes, HashTypes DEF TypeOK
<1>1. \A x : InChain(x) => InChain(x)'
  <2>1. \A h \in 1..Height : chain'[h] = chain[h] /\ h \in 1..Height'
    BY Grows
  <2> QED
    BY <2>1 DEF InChain
<1>2. CASE Mine
  <2>1. /\ Height' = Height + 1 /\ \A h \in 1..Height : chain'[h] = chain[h]
        /\ chain'[Height + 1].txs \subseteq mempool
        /\ mempool' = mempool \ chain'[Height + 1].txs
    BY <1>0, <1>2, MineDoes
  <2>2. PICK txs : txs = chain'[Height + 1].txs
    OBVIOUS
  <2>3. \A x : InChain(x)' <=> InChain(x) \/ x \in txs
    <3>1. \A h \in 1..Height' : h \in 1..Height \/ h = Height + 1
      BY <1>0, <2>1
    <3>2. Height + 1 \in 1..Height'
      BY <1>0, <2>1
    <3> QED
      BY <1>1, <2>1, <2>2, <3>1, <3>2 DEF InChain
  <2>4. \A x : Known(x)' <=> Known(x)
    BY <2>1, <2>2, <2>3 DEF Known
  <2>5. /\ txs \subseteq mempool
        /\ \A x \in txs : \A y \in mempool : Spends[x] \in Makes[y] => y \in txs
    BY <1>0, <1>2, <2>2, MineDoes
  <2>6. \A x \in Exits : InChain(x)' => InChain("fund")'
    <3>1. \A x \in Exits : Spends[x] \in Makes["fund"]
      BY VaultAssumption
    <3> QED
      BY <2>3, <2>5, <3>1 DEF FundInv, Known
  <2> QED
    BY <1>1, <2>4, <2>6 DEF FundInv
<1>3. CASE \E x \in Txs : Broadcast(x) \/ Evict(x)
  BY <1>3, PoolFund DEF FundInv
<1>4. ~Reorg
  BY <1>0 DEF Reorg
<1> QED
  BY <1>2, <1>3, <1>4 DEF ChainStep, LedgerStep

LEMMA FundStep ==
  ASSUME TypeOK, FundInv, MaxForks = 0, MaxRestarts = 0, LinkInv, LookInv,
         [Next]_vars
  PROVE  FundInv'
<1>0. /\ v \in Vault /\ poll \in Polls /\ v.conf \in Nat /\ poll.conf \in Nat
      /\ MinDepth \in Nat /\ MinDepth # 0 /\ Height \in Nat
  <2>1. v.conf \in 0..MaxHeight /\ poll.conf \in 0..MaxHeight /\ MaxHeight \in Nat
    BY NumberTypes
  <2> QED
    BY <2>1, NumberTypes DEF TypeOK, ScannerTypeOK
<1>1. CASE ChainStep
  <2>1. v' = v /\ poll' = [poll EXCEPT !.calm = FALSE]
    BY <1>1 DEF ChainStep, LedgerStep, watch
  <2>2. poll'.conf = poll.conf
    BY <1>0, <2>1 DEF Polls
  <2> QED
    BY <1>1, <2>1, <2>2, LedgerFund DEF FundInv
<1>2. CASE UNCHANGED <<chain, mempool>>
  <2>1. \A x : (Known(x)' <=> Known(x)) /\ (InChain(x)' <=> InChain(x))
    BY <1>2 DEF Known, InChain, Height
  <2>2. poll'.conf > 0 => InChain("fund")
    <3>1. CASE AskTxout
      <4>1. CASE poll' = [poll EXCEPT !.phase = "refresh", !.answered = TRUE,
                              !.out = Unspent(VaultCoin),
                              !.conf = IF Unspent(VaultCoin)
                                       THEN Confirmations(VaultCoin)
                                       ELSE 0]
        <5>1. poll'.conf = IF Unspent(VaultCoin) THEN Confirmations(VaultCoin) ELSE 0
          BY <1>0, <4>1 DEF Polls
        <5>2. Confirmations(VaultCoin) > 0 => InChain("fund")
          BY VaultFamily DEF Confirmations, InChain
        <5> QED
          BY <5>1, <5>2
      <4>2. CASE poll' = [poll EXCEPT !.calm = FALSE,
                   !.phase = IF @ = "batch" THEN "alone" ELSE "refresh"]
        BY <1>0, <4>2 DEF Polls, FundInv
      <4> QED
        BY <3>1, <4>1, <4>2 DEF AskTxout
    <3>2. CASE ScanBlock \/ ScanBroken \/ ScanDone \/ ReadPool \/ UNCHANGED vars
      <4>1. poll'.conf = poll.conf
        BY <1>0, <3>2 DEF ScanBlock, ScanBroken, ScanDone, ReadPool, ReadMempool,
           Polls, vars
      <4> QED
        BY <4>1 DEF FundInv
    <3>3. CASE \/ PollFirst \/ PollStart \/ PollStartUnanswered \/ RefreshOne
               \/ Refresh \/ RefreshUnanswered \/ Restart
      <4>1. CASE PollFirst
        BY <4>1 DEF PollFirst, Begin, NoPoll
      <4>2. CASE PollStart
        <5>1. poll' = [Begin EXCEPT !.phase = "scan"]
          BY <4>2 DEF PollStart
        <5> QED
          BY <5>1 DEF Begin, NoPoll
      <4>3. CASE PollStartUnanswered \/ RefreshOne
        <5>1. CASE PollStartUnanswered
          <6>1. poll' = [Begin EXCEPT !.phase = "scan", !.calm = FALSE]
            BY <5>1 DEF PollStartUnanswered
          <6> QED
            BY <6>1 DEF Begin, NoPoll
        <5>2. CASE RefreshOne
          <6>1. poll' = [Begin EXCEPT !.phase = "alone", !.one = TRUE, !.calm = FALSE]
            BY <5>2 DEF RefreshOne
          <6> QED
            BY <6>1 DEF Begin, NoPoll
        <5> QED
          BY <4>3, <5>1, <5>2
      <4>4. CASE Refresh \/ RefreshUnanswered \/ Restart
        <5>1. poll' = NoPoll
          BY <4>4 DEF Refresh, RefreshUnanswered, Restart, EndPoll
        <5> QED
          BY <5>1 DEF NoPoll
      <4> QED
        BY <3>3, <4>1, <4>2, <4>3, <4>4
    <3>4. CASE ChainStep
      BY <1>1, <3>4, <2>1, <1>0 DEF ChainStep, LedgerStep, Polls, FundInv
    <3> QED
      BY <3>1, <3>2, <3>3, <3>4 DEF Next, Watcher
  <2>3. /\ v'.conf > 0 \/ v'.fundBlock # -1 => InChain("fund")
        /\ v'.state = "LIVE" => v'.conf >= MinDepth
    <3>1. CASE v' = v
      BY <3>1 DEF FundInv
    <3>2. CASE ScanBlock
      <4>1. v' = v \/ \E x, h : v' = [v EXCEPT !.state = ExitState(x), !.by = x,
                                               !.height = h]
        BY <3>2 DEF ScanBlock
      <4>2. ASSUME NEW x, NEW h, v' = [v EXCEPT !.state = ExitState(x), !.by = x,
                                                !.height = h]
            PROVE  v'.conf = v.conf /\ v'.fundBlock = v.fundBlock /\ v'.state # "LIVE"
        BY <1>0, <4>2, ExitStates DEF Vault, Closed
      <4> QED
        BY <4>1, <4>2 DEF FundInv
    <3>3. CASE Refresh \/ RefreshUnanswered
      <4>1. \/ v' = v
            \/ \E to, r : v' = SeenGone(to, r)
            \/ \E pairs \in {FundingPairs(poll.conf), {}} :
                 v' = SeenUnspent(poll.conf, pairs)
        BY <3>3 DEF Refresh, RefreshUnanswered
      <4>2. ASSUME NEW pairs \in {FundingPairs(poll.conf), {}},
                   v' = SeenUnspent(poll.conf, pairs)
            PROVE  /\ v'.conf > 0 \/ v'.fundBlock # -1 => InChain("fund")
                   /\ v'.state = "LIVE" => v'.conf >= MinDepth
        <5>1. /\ v'.conf = poll.conf
              /\ v'.state = IF poll.conf >= MinDepth THEN "LIVE" ELSE "UNCONFIRMED"
              /\ pairs = {} => v'.fundBlock = v.fundBlock
          BY <4>2 DEF SeenUnspent
        <5>2. pairs # {} => poll.conf > 0
          BY <1>0 DEF FundingPairs
        <5> QED
          BY <5>1, <5>2 DEF FundInv
      <4>3. ASSUME NEW to, NEW r, v' = SeenGone(to, r)
            PROVE  /\ v'.conf > 0 \/ v'.fundBlock # -1 => InChain("fund")
                   /\ v'.state = "LIVE" => v'.conf >= MinDepth
        <5>1. \/ v' = v
              \/ \E x, h : v' = ClosedBy(x, h)
              \/ \E x, h, b : v' = [ClosedBy(x, h) EXCEPT !.back = b]
              \/ \E b : v' = Unexplained(b, r)
          BY <4>3 DEF SeenGone
        <5>2. ASSUME NEW x, NEW h, NEW b,
                     v' \in {ClosedBy(x, h), [ClosedBy(x, h) EXCEPT !.back = b]}
              PROVE  v'.conf = v.conf /\ v'.fundBlock = v.fundBlock /\ v'.state # "LIVE"
          <6>1. ExitState(x) # "LIVE"
            BY ExitStates DEF Closed
          <6>2. CASE v' = ClosedBy(x, h)
            BY <1>0, <6>1, <6>2 DEF ClosedBy, Vault
          <6>3. CASE v' = [ClosedBy(x, h) EXCEPT !.back = b]
            BY <1>0, <6>1, <6>3 DEF ClosedBy, Vault
          <6> QED
            BY <5>2, <6>2, <6>3
        <5>3. ASSUME NEW b, v' = Unexplained(b, r)
              PROVE  /\ v'.conf \in {0, v.conf} /\ v'.fundBlock = v.fundBlock
                     /\ v'.state = "LIVE" => v.state = "LIVE" /\ v'.conf = v.conf
          <6>1. v' \in {[v EXCEPT !.back = b],
                        [[v EXCEPT !.back = b] EXCEPT !.state = "GHOST", !.conf = 0],
                        [[v EXCEPT !.back = b] EXCEPT !.state = "SPENT_UNKNOWN"]}
            BY <5>3 DEF Unexplained
          <6> QED
            BY <1>0, <6>1 DEF Vault
        <5> QED
          BY <1>0, <5>1, <5>2, <5>3 DEF FundInv
      <4> QED
        BY <4>1, <4>2, <4>3 DEF FundInv
    <3>4. CASE PollStart
      BY <3>1, <3>4, NeverReorged DEF PollStart
    <3>5. CASE Restart
      BY <3>5 DEF Restart, TypeOK
    <3>6. CASE \/ PollFirst \/ PollStartUnanswered \/ RefreshOne \/ ScanBroken
               \/ ScanDone \/ AskTxout \/ ReadPool \/ ChainStep \/ UNCHANGED vars
      <4>1. v' = v
        BY <3>6 DEF PollFirst, PollStartUnanswered, RefreshOne, ScanBroken, ScanDone,
           AskTxout, ReadPool, ChainStep, watch, vars
      <4> QED
        BY <3>1, <4>1
    <3> QED
      BY <3>2, <3>3, <3>4, <3>5, <3>6 DEF Next, Watcher
  <2> QED
    BY <2>1, <2>2, <2>3 DEF FundInv
<1> QED
  BY <1>1, <1>2 DEF Next, Watcher, PollFirst, PollStart, PollStartUnanswered,
     RefreshOne, ScanBlock, ScanBroken, ScanDone, AskTxout, ReadPool, Refresh,
     RefreshUnanswered, EndPoll, Restart, ledger, vars

LEMMA CalmGone ==
  ASSUME TypeOK, FundInv, LookInv, CalmInv, Honest(v), Refresh, poll.calm,
         ~Known("fund")
  PROVE  \/ v'.state = "GHOST"
         \/ v'.state = "UNCONFIRMED" /\ ~v'.seen
         \/ v'.state = "SPENT_UNKNOWN" /\ v'.fundBlock = -1
         \/ v'.by # None /\ v'.height = 0
<1>1. /\ poll.phase = "refresh" /\ poll.tip = Height /\ scanned = Height
      /\ \A h \in 1..Height : h <= scanned /\ Kept(h)
      /\ poll.answered /\ poll.out = Unspent(VaultCoin)
      /\ PoolSpenders(VaultCoin) = Exits \cap mempool
      /\ v \in Vault /\ v.height \in Nat /\ Height \in Nat
  BY CalmKnows, NumberTypes DEF Refresh, TypeOK
<1>2. /\ \A x \in Exits : ~Known(x)
      /\ ~InChain("fund")
  BY DEF FundInv, Known
<1>3. PoolSpenders(VaultCoin) = {} /\ ~Unspent(VaultCoin)
  BY <1>1, <1>2, VaultFamily DEF Known, Unspent
<1>4. v.fundBlock = -1 /\ v.conf = 0 /\ v.state # "LIVE" /\ MinDepth > 0
  <2>1. v.conf \in 0..MaxHeight /\ MaxHeight \in Nat /\ MinDepth \in Nat \ {0}
    BY <1>1, NumberTypes DEF Vault
  <2> QED
    BY <1>2, <2>1 DEF FundInv
<1>5. v.height = 0
  <2> SUFFICES ASSUME v.height > 0 PROVE FALSE
    BY <1>1
  <2>1. v.height \in 1..Height
    <3>1. v.height <= Height
      BY <1>1 DEF Honest
    <3> QED
      BY <1>1, <3>1
  <2>2. v.by \in Exits /\ InChain(v.by)
    BY <1>1, <2>1 DEF Honest, InChain
  <2> QED
    BY <1>2, <2>2 DEF Known
<1>6. PICK to \in WalkEnds(v.back, poll.tip) : v' = SeenGone(to, FundingReorged)
  <2>1. ~Final(poll.tip)
    BY <1>5 DEF Final, Settled
  <2> QED
    BY <1>1, <1>3, <2>1 DEF Refresh
<1>7. FundingReorged = "unknown"
  BY <1>4 DEF FundingReorged
<1>8. CASE v.state \in Closed
  <2>1. v' = v
    BY <1>3, <1>6, <1>8 DEF SeenGone
  <2> QED
    <3>1. v.by # None => v'.by # None /\ v'.height = 0
      BY <1>5, <2>1
    <3>2. v.by = None => v.state \in {"GHOST", "SPENT_UNKNOWN"}
      <4>1. None \notin Exits
        BY LedgerAssumption DEF Exits
      <4> QED
        BY <1>8, <4>1 DEF Honest
    <3> QED
      BY <1>4, <2>1, <3>1, <3>2
<1>9. CASE v.state \notin Closed
  <2>1. v.state = "UNCONFIRMED"
    BY <1>1, <1>4, <1>9 DEF Vault, States
  <2>2. \A h \in 1..Height : SpendersAt(VaultCoin, h) = {}
    BY <1>2, VaultFamily DEF SpendersAt, Known, InChain
  <2>3. Found(VaultCoin, v.back, poll.tip, to) = {}
    <3>1. to .. WalkTop(v.back, poll.tip) \subseteq 1..Height
      BY <1>1, WalkTypes
    <3> QED
      BY <1>3, <2>2, <3>1 DEF Found
  <2>4. \E back : v' = Unexplained(back, "unknown")
    BY <1>3, <1>6, <1>7, <1>9, <2>3 DEF SeenGone, Closed
  <2>5. PICK back : v' = Unexplained(back, "unknown")
    BY <2>4
  <2>6. ~Behind
    BY <1>1 DEF Behind
  <2> DEFINE u == [v EXCEPT !.back = back]
  <2>7. u.state = "UNCONFIRMED" /\ u.seen = v.seen
    BY <1>1, <2>1 DEF Vault
  <2>8. \/ v' = u /\ ~v.seen
        \/ v' = [u EXCEPT !.state = "GHOST", !.conf = 0]
    BY <1>4, <2>5, <2>6 DEF Unexplained
  <2>9. [u EXCEPT !.state = "GHOST", !.conf = 0].state = "GHOST"
    BY <1>1 DEF Vault
  <2> HIDE DEF u
  <2> QED
    BY <2>7, <2>8, <2>9
<1> QED
  BY <1>8, <1>9

-----------------------------------------------------------------------------
(* ... and on one that is, if it is never seen shorter than it was: every  *)
(* exit stands above the funding it spends; a block that held the funding  *)
(* still does if it is there; an exit named at a height is in that block;  *)
(* and a vault given up on although the block of its funding was known was *)
(* given up on while that block was scanned, so that the rewind sees it    *)
(* go.                                                                     *)
FundFirst ==
    \A x \in Exits :
      /\ Known(x) => Known("fund")
      /\ \A h \in 1..Height : x \in chain[h].txs =>
           \E k \in 1..h : "fund" \in chain[k].txs

BuriedInv ==
    \A b \in buried :
      /\ b.height \in 1..Height /\ b.block <= forks
      /\ HashAt(b.height) = b.block => "fund" \in chain[b.height].txs

NamedAt(u) ==
    u.height > 0 => /\ u.height <= scanned /\ u.by \in Exits
                    /\ Kept(u.height) => u.by \in chain[u.height].txs
GivenUp(u) ==
    u.state \in Closed \ {"GHOST"} /\ u.by = None =>
      /\ u.state = "SPENT_UNKNOWN"
      /\ u.fundBlock # -1 => /\ u.fundHeight \in 1..scanned
                             /\ hashes[u.fundHeight] = u.fundBlock

ReorgInv == FundFirst /\ BuriedInv /\ NamedAt(v) /\ GivenUp(v)

LEMMA InitReorg == Init => ReorgInv
<1> SUFFICES ASSUME Init PROVE ReorgInv
  OBVIOUS
<1>1. Height = 1 /\ chain[1].txs = {} /\ mempool = {"fund"} /\ buried = {}
  BY DEF Init, Height
<1>2. v.height = 0 /\ v.state = "UNCONFIRMED"
  BY DEF Init, NewVault
<1>3. \A h \in 1..Height : chain[h].txs = {}
  BY <1>1
<1>4. "fund" \in mempool
  BY <1>1
<1> QED
  BY <1>1, <1>2, <1>3, <1>4
  DEF ReorgInv, FundFirst, BuriedInv, NamedAt, GivenUp, Known, Closed

LEMMA FundFirstStep ==
  ASSUME TypeOK, FundFirst, ~ShorterChains, ChainStep
  PROVE  FundFirst'
<1>0. LedgerTypeOK /\ Height \in Nat
  BY NumberTypes DEF TypeOK
<1>1. \A x \in Exits : Spends[x] \in Makes["fund"]
  BY VaultAssumption
<1>2. CASE Mine
  <2>0. PICK top : top = Height + 1
    OBVIOUS
  <2>1. PICK txs : txs = chain'[top].txs
    OBVIOUS
  <2>2. /\ Height' = top /\ \A h \in 1..Height : chain'[h] = chain[h]
        /\ txs \subseteq mempool /\ mempool' = mempool \ txs
        /\ \A x \in txs : \A y \in mempool : Spends[x] \in Makes[y] => y \in txs
    BY <1>0, <1>2, <2>0, <2>1, MineDoes
  <2>3. \A h \in 1..Height' : h \in 1..Height \/ h = top
    BY <1>0, <2>0, <2>2
  <2>4. \A h \in 1..Height : h \in 1..Height' /\ h \in 1..top
    BY <1>0, <2>0, <2>2
  <2>5. top \in 1..top /\ top \in 1..Height'
    BY <1>0, <2>0, <2>2
  <2>6. \A x : InChain(x)' <=> InChain(x) \/ x \in txs
    BY <2>1, <2>2, <2>3, <2>4, <2>5 DEF InChain
  <2>7. \A x : Known(x)' <=> Known(x)
    BY <2>2, <2>6 DEF Known
  <2>8. ASSUME NEW x \in Exits, NEW h \in 1..Height', x \in chain'[h].txs
        PROVE  \E k \in 1..h : "fund" \in chain'[k].txs
    <3>1. CASE h \in 1..Height
      <4>1. PICK k \in 1..h : "fund" \in chain[k].txs
        BY <2>2, <2>8, <3>1 DEF FundFirst
      <4>2. k \in 1..Height
        BY <1>0, <3>1
      <4> QED
        BY <2>2, <4>1, <4>2
    <3>2. CASE h = top
      <4>1. x \in txs /\ Known("fund")
        BY <2>1, <2>2, <2>8, <3>2 DEF FundFirst, Known
      <4>2. CASE "fund" \in mempool
        <5>1. "fund" \in txs
          BY <1>1, <2>2, <4>1, <4>2
        <5> QED
          BY <2>1, <2>5, <3>2, <5>1
      <4>3. CASE InChain("fund")
        <5>1. PICK k \in 1..Height : "fund" \in chain[k].txs
          BY <4>3 DEF InChain
        <5> QED
          BY <2>2, <2>4, <3>2, <5>1
      <4> QED
        BY <4>1, <4>2, <4>3 DEF Known
    <3> QED
      BY <2>3, <3>1, <3>2
  <2> QED
    BY <2>7, <2>8 DEF FundFirst
<1>3. CASE \E t \in Txs : Broadcast(t) \/ Evict(t)
  <2>1. \A x \in Exits : InChain(x) => InChain("fund")
    <3> TAKE x \in Exits
    <3> HAVE InChain(x)
    <3>1. PICK h \in 1..Height : x \in chain[h].txs
      BY DEF InChain
    <3>2. PICK k \in 1..h : "fund" \in chain[k].txs
      BY <3>1 DEF FundFirst
    <3>3. k \in 1..Height
      BY <1>0
    <3> QED
      BY <3>2, <3>3 DEF InChain
  <2>2. chain' = chain /\ \A x \in Exits : Known(x)' => Known("fund")'
    BY <1>3, <2>1, PoolFund DEF FundFirst
  <2> QED
    BY <2>2 DEF FundFirst, Height
<1>4. CASE Reorg
  <2>1. PICK n \in 1..(Height - 1) :
          /\ \A h \in 1..n : chain'[h] = chain[h]
          /\ \A h \in n + 1..Height' : h # n + 1 => chain'[h].txs = {}
          /\ LET gone == UNION {chain[h].txs : h \in n + 1..Height}
             IN  /\ Height' = Height
                 /\ \E lost \in SUBSET gone :
                      LET pool == (mempool \cup gone) \ Family(lost)
                      IN  /\ chain'[n + 1].txs \in {pool, {}}
                          /\ mempool' = pool \ chain'[n + 1].txs
    BY <1>0, <1>4, ReorgDoes
  <2> DEFINE gone == UNION {chain[h].txs : h \in n + 1..Height}
  <2>2. PICK lost \in SUBSET gone :
          LET pool == (mempool \cup gone) \ Family(lost)
          IN  /\ chain'[n + 1].txs \in {pool, {}}
              /\ mempool' = pool \ chain'[n + 1].txs
    BY <2>1
  <2> DEFINE pool == (mempool \cup gone) \ Family(lost)
  <2>3. PICK txs : txs = chain'[n + 1].txs
    OBVIOUS
  <2>4. txs \in {pool, {}} /\ mempool' = pool \ txs /\ Height' = Height
    BY <2>1, <2>2, <2>3
  <2>5. lost \subseteq Txs
    <3>1. \A h \in n + 1..Height : chain[h].txs \subseteq Txs
      <4>1. \A h \in n + 1..Height : h \in 1..Height
        BY <1>0
      <4> QED
        BY <1>0, <4>1, BlockAt
    <3> QED
      BY <3>1
  <2>6. \A h \in 1..Height : h \in 1..n \/ h \in n + 1..Height
    BY <1>0
  <2>7. \A h \in 1..n : h \in 1..Height
    BY <1>0
  <2>8. n + 1 \in 1..Height /\ \A h \in 1..n : h \in 1..n + 1
    BY <1>0
  <2>9. \A h \in n + 1..Height : h # n + 1 => chain'[h].txs = {}
    BY <2>1
  <2> DEFINE Low(x) == \E h \in 1..n : x \in chain[h].txs
  <2>10. \A x : Known(x) <=> Low(x) \/ x \in mempool \cup gone
    <3>1. \A x : InChain(x) <=> Low(x) \/ x \in gone
      <4>1. \A x : x \in gone <=> \E h \in n + 1..Height : x \in chain[h].txs
        OBVIOUS
      <4>2. \A h \in n + 1..Height : h \in 1..Height
        BY <1>0
      <4> HIDE DEF gone
      <4> QED
        BY <2>6, <2>7, <4>1, <4>2 DEF InChain
    <3> HIDE DEF gone, Low
    <3> QED
      BY <3>1 DEF Known
  <2> HIDE DEF gone
  <2>11. \A x : Known(x)' <=> Low(x) \/ x \in pool
    <3>1. \A x : InChain(x)' <=> Low(x) \/ x \in txs
      <4>1. \A x : Low(x) => InChain(x)'
        BY <2>1, <2>4, <2>7 DEF InChain
      <4>2. \A x : x \in txs => InChain(x)'
        BY <2>3, <2>4, <2>8 DEF InChain
      <4>3. \A x : InChain(x)' => Low(x) \/ x \in txs
        <5> TAKE x
        <5> HAVE InChain(x)'
        <5>1. PICK h \in 1..Height : x \in chain'[h].txs
          BY <2>4 DEF InChain
        <5>2. h \in 1..n \/ h = n + 1
          BY <2>6, <2>9, <5>1
        <5> QED
          BY <2>1, <2>3, <5>1, <5>2
      <4> QED
        BY <4>1, <4>2, <4>3
    <3> HIDE DEF Low, pool
    <3> QED
      BY <2>4, <3>1 DEF Known
  <2>12. ASSUME NEW x \in Exits, x \in pool PROVE Low("fund") \/ "fund" \in pool
    <3>1. Known("fund")
      BY <2>10, <2>12 DEF FundFirst
    <3>2. "fund" \notin lost
      <4> SUFFICES ASSUME "fund" \in lost PROVE FALSE
        OBVIOUS
      <4>1. x \in Children({"fund"})
        BY <1>1, VaultFamily DEF Children
      <4>2. x \in Children(lost)
        BY <4>1 DEF Children
      <4>3. x \in Family(lost)
        BY <4>2 DEF Family
      <4> QED
        BY <2>12, <4>3
    <3>3. "fund" \notin Family(lost)
      BY <2>5, <3>2, FamilyIs, VaultFamily
    <3> HIDE DEF Low
    <3> QED
      BY <2>10, <3>1, <3>3
  <2>13. ASSUME NEW x \in Exits, NEW h \in 1..n, x \in chain[h].txs
         PROVE  \E k \in 1..h : k \in 1..n /\ "fund" \in chain'[k].txs
    <3>1. PICK k \in 1..h : "fund" \in chain[k].txs
      BY <2>7, <2>13 DEF FundFirst
    <3>2. k \in 1..n
      OBVIOUS
    <3> QED
      BY <2>1, <3>1, <3>2
  <2>14. ASSUME NEW x \in Exits, Known(x)' PROVE Known("fund")'
    <3>1. CASE Low(x)
      <4>1. PICK h \in 1..n : x \in chain[h].txs
        BY <3>1
      <4>2. PICK k \in 1..n : "fund" \in chain'[k].txs
        BY <2>13, <4>1
      <4>3. Low("fund")
        BY <2>1, <4>2
      <4> QED
        BY <2>11, <4>3
    <3>2. CASE x \in pool
      BY <2>11, <2>12, <3>2
    <3> QED
      BY <2>11, <2>14, <3>1, <3>2
  <2>15. ASSUME NEW x \in Exits, NEW h \in 1..Height', x \in chain'[h].txs
         PROVE  \E k \in 1..h : "fund" \in chain'[k].txs
    <3>1. h \in 1..n \/ h = n + 1
      BY <2>4, <2>6, <2>9, <2>15
    <3>2. CASE h \in 1..n
      <4>1. x \in chain[h].txs
        BY <2>1, <2>15, <3>2
      <4> QED
        BY <2>13, <3>2, <4>1
    <3>3. CASE h = n + 1
      <4>1. x \in txs /\ txs = pool
        BY <2>3, <2>4, <2>15, <3>3
      <4>2. Low("fund") \/ "fund" \in txs
        BY <2>12, <4>1
      <4>3. n + 1 \in 1..n + 1
        BY <1>0
      <4> QED
        BY <2>1, <2>3, <2>8, <3>3, <4>2, <4>3
    <3> QED
      BY <3>1, <3>2, <3>3
  <2> QED
    BY <2>14, <2>15 DEF FundFirst
<1> QED
  BY <1>2, <1>3, <1>4 DEF ChainStep, LedgerStep

LEMMA BuriedStep ==
  ASSUME TypeOK, LinkInv, LinkInv', BuriedInv, ~ShorterChains, ChainStep
  PROVE  BuriedInv'
<1>0. /\ LedgerTypeOK /\ Height \in Nat /\ forks \in 0..MaxForks /\ MaxForks \in Nat
      /\ buried \subseteq [height : Heights, block : 0..MaxForks]
  BY NumberTypes, HashTypes DEF TypeOK
<1>1. ASSUME NEW b \in buried'
      PROVE  \/ b \in buried
             \/ \E h \in 1..Height' : /\ b = [height |-> h, block |-> HashAt(h)']
                                      /\ "fund" \in chain'[h].txs
  BY <1>1 DEF ChainStep, Height, HashAt
<1>2. ASSUME NEW h \in 1..Height', "fund" \in chain'[h].txs,
             NEW b, b = [height |-> h, block |-> HashAt(h)']
      PROVE  /\ b.height \in 1..Height' /\ b.block <= forks'
             /\ HashAt(b.height)' = b.block => "fund" \in chain'[b.height].txs
  BY <1>2 DEF LinkInv
<1>3. ASSUME NEW b \in buried
      PROVE  /\ b.height \in 1..Height' /\ b.block <= forks'
             /\ HashAt(b.height)' = b.block => "fund" \in chain'[b.height].txs
  <2>0. /\ b.height \in 1..Height /\ b.block <= forks /\ b.block \in Int
        /\ HashAt(b.height) = b.block => "fund" \in chain[b.height].txs
    BY <1>0 DEF BuriedInv
  <2>1. PICK h : h = b.height
    OBVIOUS
  <2>2. ASSUME h \in 1..Height', chain'[h] = chain[h], forks <= forks', forks' \in Int
        PROVE  /\ b.height \in 1..Height' /\ b.block <= forks'
               /\ HashAt(b.height)' = b.block => "fund" \in chain'[b.height].txs
    <3>1. HashAt(h)' = HashAt(h)
      BY <2>2 DEF HashAt
    <3>2. b.block <= forks'
      BY <1>0, <2>0, <2>2
    <3>3. HashAt(b.height)' = HashAt(h)'
      BY <2>1
    <3> QED
      BY <2>0, <2>1, <2>2, <3>1, <3>2, <3>3
  <2>3. CASE Mine
    <3>1. /\ Height' = Height + 1 /\ forks' = forks
          /\ \A k \in 1..Height : chain'[k] = chain[k]
      BY <1>0, <2>3, MineDoes
    <3>2. h \in 1..Height' /\ forks <= forks' /\ forks' \in Int
      BY <1>0, <2>0, <2>1, <3>1
    <3> QED
      BY <2>0, <2>1, <2>2, <3>1, <3>2
  <2>4. CASE \E t \in Txs : Broadcast(t) \/ Evict(t)
    <3>1. chain' = chain /\ forks' = forks
      BY <2>4 DEF Broadcast, Evict
    <3>2. Height' = Height /\ forks <= forks' /\ forks' \in Int
      BY <1>0, <3>1 DEF Height
    <3> QED
      BY <2>0, <2>1, <2>2, <3>1, <3>2
  <2>5. CASE Reorg
    <3>1. PICK n \in 1..(Height - 1) :
            /\ \A k \in 1..n : chain'[k] = chain[k]
            /\ \A k \in n + 1..Height' : chain'[k].fork = forks + 1
            /\ Height' = Height
      BY <1>0, <2>5, ReorgDoes
    <3>2. forks' = forks + 1
      BY <1>0, <2>5, ReorgDoes
    <3>3. h \in 1..Height' /\ forks <= forks' /\ forks' \in Int
      BY <1>0, <2>0, <2>1, <3>1, <3>2
    <3>4. CASE h \in 1..n
      BY <2>2, <3>1, <3>3, <3>4
    <3>5. CASE h \in n + 1..Height'
      <4>1. HashAt(h)' = forks + 1
        BY <3>1, <3>5 DEF HashAt
      <4>2. HashAt(b.height)' = HashAt(h)'
        BY <2>1
      <4>3. b.block # forks + 1 /\ b.block <= forks'
        BY <1>0, <2>0, <3>2
      <4> QED
        BY <2>1, <3>3, <4>1, <4>2, <4>3
    <3>6. h \in 1..n \/ h \in n + 1..Height'
      BY <1>0, <3>3
    <3> QED
      BY <3>4, <3>5, <3>6
  <2> QED
    BY <2>3, <2>4, <2>5 DEF ChainStep, LedgerStep
<1> QED
  BY <1>1, <1>2, <1>3 DEF BuriedInv

(* A vault whose output is gone. *)
LEMMA ReorgGone ==
  ASSUME TypeOK, PairInv, LookInv, StandInv, MaxForks # 0, NamedAt(v), GivenUp(v),
         poll.phase = "refresh", NEW to \in 1..MaxHeight + 1
  PROVE  LET u == SeenGone(to, FundingReorged) IN NamedAt(u) /\ GivenUp(u)
<1> DEFINE pooled == {[tx |-> x, height |-> 0] : x \in PoolSpenders(VaultCoin)}
           found == IF Unburied THEN pooled
                    ELSE Found(VaultCoin, v.back, poll.tip, to)
           walks == ~Unburied /\ PoolSpenders(VaultCoin) = {}
                      /\ ~Exhausted(v.back, poll.tip)
           back == IF ~walks THEN v.back
                   ELSE IF found = {} THEN to
                   ELSE (CHOOSE f \in found : TRUE).height
           u == SeenGone(to, FundingReorged)
<1> SUFFICES NamedAt(u) /\ GivenUp(u)
  OBVIOUS
<1>0. /\ Height \in Int /\ scanned \in Int /\ poll.tip \in Int /\ MaxHeight \in Nat
      /\ poll.tip <= Height /\ poll.tip <= scanned /\ v \in Vault /\ v.height \in Nat
      /\ v.fundHeight \in Nat
      /\ \A h \in 1..scanned : Kept(h)
  BY NumberTypes DEF PairInv, LookInv, TypeOK
<1>n. None \notin Exits
  BY LedgerAssumption DEF Exits
<1>1. CASE v.state = "GHOST"
  BY <1>1 DEF SeenGone
<1>2. CASE v.state # "GHOST" /\ v.state \in Closed
  <2> DEFINE other == PoolSpenders(VaultCoin) \ {v.by}
  <2>1. u = IF other = {} THEN v ELSE ClosedBy(CHOOSE x \in other : TRUE, 0)
    BY <1>2 DEF SeenGone
  <2>2. CASE other = {}
    BY <2>1, <2>2
  <2>3. CASE other # {}
    <3>1. PICK x \in other : x = CHOOSE y \in other : TRUE
      BY <2>3
    <3>2. x \in Exits
      BY PoolExits
    <3>3. u = ClosedBy(x, 0)
      BY <2>1, <2>3, <3>1
    <3>4. u.height = 0 /\ u.by = x
      BY <1>0, <3>3 DEF ClosedBy, Vault
    <3> HIDE DEF u
    <3> QED
      BY <1>n, <3>2, <3>4 DEF NamedAt, GivenUp
  <2> QED
    BY <2>2, <2>3
<1>3. CASE v.state \notin Closed
  <2>1. CASE found # {}
    <3>1. PICK f \in found : f = CHOOSE g \in found : TRUE
      BY <2>1
    <3>2. u = [ClosedBy(f.tx, f.height) EXCEPT !.back = back]
      BY <1>3, <2>1, <3>1 DEF SeenGone, Closed
    <3>3. /\ f.tx \in Exits /\ f.height \in 0..poll.tip
          /\ f.height # 0 => /\ f.height \in 1..Height
                             /\ f.tx \in chain[f.height].txs
      <4>1. f \in pooled \cup Found(VaultCoin, v.back, poll.tip, to)
        BY <3>1
      <4> HIDE DEF found
      <4> QED
        BY <1>0, <4>1, FoundIs
    <3>4. u.by = f.tx /\ u.height = f.height
      BY <1>0, <3>2 DEF ClosedBy, Vault
    <3> HIDE DEF u, back, found
    <3>5. u.height > 0 => u.height <= scanned /\ u.by \in chain[u.height].txs
      BY <1>0, <3>3, <3>4
    <3> QED
      BY <1>n, <3>3, <3>4, <3>5 DEF NamedAt, GivenUp
  <2>2. CASE found = {}
    <3>1. u = Unexplained(back, FundingReorged)
      BY <1>3, <2>2 DEF SeenGone, Closed
    <3> HIDE DEF back, found, u
    <3> DEFINE w == [v EXCEPT !.back = back]
               ghost == [w EXCEPT !.state = "GHOST", !.conf = 0]
               lost == [w EXCEPT !.state = "SPENT_UNKNOWN"]
    <3>2. /\ w.state = v.state /\ ghost.state = "GHOST" /\ lost.state = "SPENT_UNKNOWN"
          /\ \A z \in {w, ghost, lost} :
               /\ z.height = v.height /\ z.by = v.by
               /\ z.fundHeight = v.fundHeight /\ z.fundBlock = v.fundBlock
      BY <1>0 DEF Vault
    <3>3. u \in {w, ghost} \/ (u = lost /\ FundingReorged # "yes")
      BY <3>1 DEF Unexplained
    <3> HIDE DEF w, ghost, lost
    <3>4. NamedAt(u)
      <4>1. u.height = v.height /\ u.by = v.by
        BY <3>2, <3>3
      <4> QED
        BY <4>1 DEF NamedAt
    <3>5. CASE u \in {w, ghost}
      <4>1. u.state \notin Closed \ {"GHOST"}
        BY <1>3, <3>2, <3>5 DEF Closed
      <4> QED
        BY <3>4, <4>1 DEF GivenUp
    <3>6. CASE u = lost /\ FundingReorged # "yes"
      <4>1. ASSUME v.fundBlock # -1
            PROVE  v.fundHeight \in 1..scanned /\ hashes[v.fundHeight] = v.fundBlock
        <5>1. v.fundHeight # 0 /\ v.fundHeight <= poll.tip
          BY <1>0, <3>6, <4>1 DEF FundingReorged, StandInv
        <5>2. HashAt(v.fundHeight) = v.fundBlock
          BY <1>0, <3>6, <4>1, <5>1 DEF FundingReorged
        <5>3. v.fundHeight \in 1..scanned
          BY <1>0, <5>1
        <5>4. Kept(v.fundHeight)
          BY <1>0, <5>3
        <5> QED
          BY <5>2, <5>3, <5>4 DEF Kept
      <4> QED
        BY <3>2, <3>4, <3>6, <4>1 DEF GivenUp
    <3> QED
      BY <3>3, <3>5, <3>6
  <2> QED
    BY <2>1, <2>2
<1> QED
  BY <1>1, <1>2, <1>3

LEMMA ReorgUnspent ==
  ASSUME NamedAt(v), NEW conf, NEW pairs
  PROVE  LET u == SeenUnspent(conf, pairs) IN NamedAt(u) /\ GivenUp(u)
<1> DEFINE u == SeenUnspent(conf, pairs)
<1>1. /\ u.height = 0 \/ (u.height = v.height /\ u.by = v.by)
      /\ u.state \notin Closed
  BY DEF SeenUnspent, Closed
<1> HIDE DEF u
<1>2. NamedAt(u) /\ GivenUp(u)
  BY <1>1 DEF NamedAt, GivenUp
<1> QED
  BY <1>2 DEF u

(* What a rewind leaves. *)
LEMMA ReorgRewound ==
  ASSUME TypeOK, PairInv, LinkInv, MaxForks # 0, RescanDepth >= MaxHeight,
         BuriedInv, NamedAt(v), GivenUp(v), PollStart, ~(scan' = scan /\ v' = v)
  PROVE  NamedAt(v)' /\ GivenUp(v)'
<1>1. PICK a : a = Ancestor(Height)
  OBVIOUS
<1>2. /\ scanned' = a /\ v' = UndoneAbove(a) /\ chain' = chain
      /\ \A h \in 1..a : Kept(h)'
  BY <1>1, StartLink
<1>3. /\ a \in 1..Height /\ a <= scanned
      /\ \A h \in 1..Height : h <= scanned /\ Kept(h) => h <= a
  BY <1>1, RewindKept
<1>4. /\ Height \in Nat /\ scanned \in Int /\ v \in Vault /\ v.height \in Nat
      /\ v.fundHeight \in Nat /\ Heights = 1..MaxHeight /\ Height \in 0..MaxHeight
      /\ MaxHeight \in Nat
  BY NumberTypes, HashTypes DEF TypeOK
<1>5. \A h \in 1..a : hashes'[h] = hashes[h]
  <2>1. hashes' = hashes \/ hashes' = Forget(hashes, a + 1 .. MaxHeight)
    BY <1>1 DEF PollStart, scan
  <2>2. \A h \in 1..a : h \in Heights /\ h \notin a + 1 .. MaxHeight
    BY <1>3, <1>4
  <2> QED
    BY <2>1, <2>2 DEF Forget
<1> DEFINE u == IF v.height <= a THEN v
                ELSE [v EXCEPT !.by = None, !.height = 0,
                               !.state = "UNCONFIRMED", !.back = 0]
           replaced == \/ v.fundBlock = -1
                       \/ v.fundHeight <= Height
                            /\ HashAt(v.fundHeight) # v.fundBlock
           ghost == [u EXCEPT !.fundHeight = 0, !.fundBlock = -1, !.state = "GHOST",
                              !.conf = 0, !.back = 0]
<1>6. v' = IF v.fundHeight > a /\ replaced THEN ghost ELSE u
  BY <1>2 DEF UndoneAbove
<1>7. /\ ghost.height = u.height /\ ghost.by = u.by /\ ghost.state = "GHOST"
      /\ v.height <= a => u = v
      /\ ~(v.height <= a) => u.height = 0 /\ u.state = "UNCONFIRMED"
  BY <1>4 DEF Vault
<1> HIDE DEF u, ghost, replaced
<1>8. NamedAt(v)'
  <2>1. v'.height = u.height /\ v'.by = u.by
    BY <1>6, <1>7
  <2>2. CASE v.height <= a /\ v.height > 0
    <3>1. PICK n : n = v.height
      OBVIOUS
    <3>2. n \in 1..a /\ n \in 1..Height /\ n <= scanned
      BY <1>3, <1>4, <2>2, <3>1
    <3>3. v.by \in Exits /\ (Kept(n) => v.by \in chain[n].txs)
      BY <2>2, <3>1 DEF NamedAt
    <3>4. Kept(n)
      <4>1. Kept(n)' /\ hashes'[n] = hashes[n]
        BY <1>2, <1>5, <3>2
      <4> QED
        BY <1>2, <3>2, <4>1 DEF Kept, HashAt
    <3>5. v'.height = n /\ v'.by = v.by
      BY <1>7, <2>1, <2>2, <3>1
    <3>6. v'.height <= scanned' /\ v'.by \in chain'[v'.height].txs
      BY <1>2, <3>2, <3>3, <3>4, <3>5
    <3> QED
      BY <3>3, <3>5, <3>6 DEF NamedAt
  <2>3. CASE ~(v.height <= a /\ v.height > 0)
    <3>1. v'.height = 0
      BY <1>4, <1>7, <2>1, <2>3
    <3> QED
      BY <3>1 DEF NamedAt
  <2> QED
    BY <2>2, <2>3
<1>9. GivenUp(v)'
  <2> SUFFICES ASSUME v'.state \in Closed \ {"GHOST"}, v'.by = None
               PROVE  /\ v'.state = "SPENT_UNKNOWN"
                      /\ v'.fundBlock # -1 => /\ v'.fundHeight \in 1..scanned'
                                              /\ hashes'[v'.fundHeight] = v'.fundBlock
    BY DEF GivenUp
  <2>1. v' = u /\ ~(v.fundHeight > a /\ replaced)
    BY <1>6, <1>7
  <2>2. u = v
    BY <1>7, <2>1 DEF Closed
  <2>3. /\ v.state = "SPENT_UNKNOWN"
        /\ v.fundBlock # -1 => /\ v.fundHeight \in 1..scanned
                               /\ hashes[v.fundHeight] = v.fundBlock
    BY <2>1, <2>2 DEF GivenUp
  <2>4. ASSUME v.fundBlock # -1
        PROVE  v.fundHeight \in 1..a
    <3>0. PICK n : n = v.fundHeight
      OBVIOUS
    <3>1. [height |-> n, block |-> v.fundBlock] \in buried
      BY <2>4, <3>0 DEF PairInv, Named
    <3>2. n \in 1..Height /\ n <= scanned /\ hashes[n] = v.fundBlock
      <4>1. [height |-> n, block |-> v.fundBlock].height \in 1..Height
        BY <3>1 DEF BuriedInv
      <4> QED
        BY <1>4, <2>3, <2>4, <3>0, <4>1
    <3>3. CASE HashAt(n) = v.fundBlock
      <4>1. Kept(n)
        BY <3>2, <3>3 DEF Kept
      <4> QED
        BY <1>3, <1>4, <3>0, <3>2, <4>1
    <3>4. CASE HashAt(n) # v.fundBlock
      <4>1. replaced
        BY <1>4, <3>0, <3>2, <3>4 DEF replaced
      <4> QED
        BY <1>3, <1>4, <2>1, <3>0, <3>2, <4>1
    <3> QED
      BY <3>3, <3>4
  <2> QED
    BY <1>2, <1>5, <2>1, <2>2, <2>3, <2>4
<1> QED
  BY <1>8, <1>9

(* A step that leaves the vault and the scanned blocks alone. *)
LEMMA ReorgSame ==
  ASSUME TypeOK, NamedAt(v), GivenUp(v), v' = v, chain' = chain,
         scanned' \in Int, scanned <= scanned',
         \A h \in 1..scanned : hashes'[h] = hashes[h]
  PROVE  NamedAt(v)' /\ GivenUp(v)'
<1>0. v \in Vault /\ v.height \in Nat /\ scanned \in Int
  BY NumberTypes DEF TypeOK
<1>1. \A h \in 1..scanned : h \in 1..scanned' /\ (Kept(h)' <=> Kept(h))
  <2>1. Height' = Height /\ \A h : HashAt(h)' = HashAt(h)
    BY DEF Height, HashAt
  <2> QED
    BY <1>0, <2>1 DEF Kept
<1>2. NamedAt(v)'
  <2> SUFFICES ASSUME v.height > 0
               PROVE  /\ v.height <= scanned' /\ v.by \in Exits
                      /\ Kept(v.height)' => v.by \in chain[v.height].txs
    BY DEF NamedAt
  <2>1. PICK n : n = v.height
    OBVIOUS
  <2>2. /\ n \in 1..scanned /\ v.by \in Exits
        /\ Kept(n) => v.by \in chain[n].txs
    BY <1>0, <2>1 DEF NamedAt
  <2>3. n <= scanned' /\ (Kept(n)' => v.by \in chain[n].txs)
    BY <1>0, <1>1, <2>2
  <2> QED
    BY <2>1, <2>2, <2>3
<1>3. GivenUp(v)'
  BY <1>1 DEF GivenUp
<1> QED
  BY <1>2, <1>3

LEMMA ReorgStep ==
  ASSUME TypeOK, PairInv, LinkInv, LinkInv', LookInv, StandInv, TruthTerms,
         MaxForks # 0, ~ShorterChains, ReorgInv, [Next]_vars
  PROVE  ReorgInv'
<1>0. /\ Height \in 0..MaxHeight /\ MaxHeight \in Nat /\ scanned \in Nat
      /\ v \in Vault /\ v.height \in Nat /\ poll.tip \in 0..MaxHeight
      /\ RescanDepth \in Nat /\ RescanDepth >= MaxHeight /\ Heights = 1..MaxHeight
      /\ hashes \in [Heights -> -1..MaxForks] /\ MaxFails = 0 /\ scanned >= 1
  <2>1. RescanDepth >= MaxHeight /\ MaxFails = 0 /\ scanned >= 1
    BY DEF TruthTerms, LookInv
  <2>2. /\ Height \in 0..MaxHeight /\ MaxHeight \in Nat /\ scanned \in Int
        /\ v.height \in Nat /\ poll.tip \in 0..MaxHeight
        /\ RescanDepth \in Nat /\ Heights = 1..MaxHeight
    BY NumberTypes, HashTypes
  <2>3. v \in Vault /\ hashes \in [Heights -> -1..MaxForks]
    BY DEF TypeOK, ScannerTypeOK
  <2> QED
    BY <2>1, <2>2, <2>3
<1>1. FundFirst /\ BuriedInv /\ NamedAt(v) /\ GivenUp(v) /\ ~Unanswered
  <2>1. fails \in 0..MaxFails
    BY DEF TypeOK, ScannerTypeOK
  <2>2. ~(fails < MaxFails)
    BY <1>0, <2>1
  <2> QED
    BY <2>2 DEF ReorgInv, Unanswered
<1>2. ASSUME UNCHANGED <<chain, mempool, forks, buried>>, (NamedAt(v) /\ GivenUp(v))'
      PROVE  ReorgInv'
  <2>1. Height' = Height /\ \A h : HashAt(h)' = HashAt(h)
    BY <1>2 DEF Height, HashAt
  <2>2. \A x : Known(x)' <=> Known(x)
    BY <1>2, <2>1 DEF Known, InChain
  <2>3. FundFirst'
    BY <1>1, <1>2, <2>1, <2>2 DEF FundFirst
  <2>4. BuriedInv'
    BY <1>1, <1>2, <2>1 DEF BuriedInv
  <2> QED
    BY <1>2, <2>3, <2>4 DEF ReorgInv
<1>3. CASE ChainStep
  <2>1. v' = v /\ scanned' = scanned /\ hashes' = hashes
    BY <1>3 DEF ChainStep, watch, scan
  <2>2. FundFirst' /\ BuriedInv'
    BY <1>1, <1>3, FundFirstStep, BuriedStep
  <2>3. NamedAt(v)'
    <3> SUFFICES ASSUME v.height > 0
                 PROVE  /\ v.height <= scanned /\ v.by \in Exits
                        /\ Kept(v.height)' => v.by \in chain'[v.height].txs
      BY <2>1 DEF NamedAt
    <3>1. PICK n : n = v.height
      OBVIOUS
    <3>2. /\ n \in 1..scanned /\ v.by \in Exits
          /\ Kept(n) => v.by \in chain[n].txs
      BY <1>0, <1>1, <3>1 DEF NamedAt
    <3>3. \A h \in 1..Height' : h <= scanned /\ Kept(h)' =>
            Kept(h) /\ chain'[h] = chain[h]
      <4> TAKE h \in 1..Height'
      <4> HAVE h <= scanned /\ Kept(h)'
      <4>1. /\ h \in 1..Height /\ Kept(h)
            /\ \A k \in 1..h : chain'[k] = chain[k]
        BY <1>3, ChainKeeps
      <4>2. h \in 1..h
        BY <4>1
      <4> QED
        BY <4>1, <4>2
    <3>4. Kept(n)' => v.by \in chain'[n].txs
      <4>1. Kept(n)' => n \in 1..Height' /\ n <= scanned
        BY <1>0, <3>2 DEF Kept
      <4> QED
        BY <3>2, <3>3, <4>1
    <3>5. Kept(n)' <=> Kept(v.height)'
      BY <2>1, <3>1
    <3>6. n <= scanned
      BY <1>0, <3>2
    <3> QED
      BY <3>1, <3>2, <3>4, <3>5, <3>6
  <2>4. GivenUp(v)'
    BY <1>1, <2>1 DEF GivenUp
  <2> QED
    BY <2>2, <2>3, <2>4 DEF ReorgInv
<1>4. CASE PollStart
  <2>1. UNCHANGED <<chain, mempool, forks, buried>>
    BY <1>4 DEF PollStart, ledger
  <2>2. CASE scan' = scan /\ v' = v
    <3>1. scanned' = scanned /\ hashes' = hashes
      BY <2>2 DEF scan
    <3> QED
      BY <1>0, <1>1, <1>2, <2>1, <2>2, <3>1, ReorgSame
  <2>3. CASE ~(scan' = scan /\ v' = v)
    BY <1>0, <1>1, <1>2, <1>4, <2>1, <2>3, ReorgRewound
  <2> QED
    BY <2>2, <2>3
<1>5. CASE ScanBlock
  <2>0. PICK top : top = scanned + 1
    OBVIOUS
  <2>1. UNCHANGED <<chain, mempool, forks, buried>> /\ poll.phase = "scan"
    BY <1>5 DEF ScanBlock, ledger
  <2>2. /\ scanned' = top /\ hashes' = [hashes EXCEPT ![top] = HashAt(top)]
        /\ top \in Int /\ scanned <= top
    BY <1>0, <1>5, <2>0 DEF ScanBlock
  <2>3. \A h \in 1..scanned : hashes'[h] = hashes[h]
    <3>1. \A h \in 1..scanned : h # top
      BY <1>0, <2>0
    <3>2. \A h \in 1..scanned : h \in Heights
      <4>1. scanned <= Height
        BY <2>1 DEF LookInv
      <4> QED
        BY <1>0, <4>1
    <3> QED
      BY <1>0, <2>2, <3>1, <3>2
  <2>4. CASE v' = v
    BY <1>0, <1>1, <1>2, <2>1, <2>2, <2>3, <2>4, ReorgSame
  <2>5. CASE v' # v
    <3> DEFINE exits == SpendersAt(VaultCoin, top)
    <3>1. /\ exits # {}
          /\ v' = LET x == CHOOSE y \in exits : TRUE
                  IN  [v EXCEPT !.state = ExitState(x), !.by = x, !.height = top]
      BY <1>5, <2>0, <2>5 DEF ScanBlock
    <3>2. PICK x \in exits : x = CHOOSE y \in exits : TRUE
      BY <3>1
    <3>3. x \in Exits /\ x \in chain[top].txs /\ x # None
      BY <3>2, VaultFamily, LedgerAssumption DEF SpendersAt, Exits
    <3>4. v'.by = x /\ v'.height = top
      BY <1>0, <3>1, <3>2 DEF Vault
    <3>5. NamedAt(v)' /\ GivenUp(v)'
      BY <1>0, <2>1, <2>2, <3>3, <3>4 DEF NamedAt, GivenUp
    <3> QED
      BY <1>2, <2>1, <3>5
  <2> QED
    BY <2>4, <2>5
<1>6. CASE Refresh \/ RefreshUnanswered
  <2>1. Refresh
    BY <1>1, <1>6 DEF RefreshUnanswered
  <2>2. UNCHANGED <<chain, mempool, forks, buried, scanned>> /\ poll.phase = "refresh"
    BY <2>1 DEF Refresh, EndPoll, ledger
  <2>3. hashes' = hashes
    <3>1. \/ hashes' = hashes
          \/ hashes' = Forget(hashes, {h \in Heights : h < poll.tip - RescanDepth})
      BY <2>1 DEF Refresh, EndPoll
    <3>2. {h \in Heights : h < poll.tip - RescanDepth} = {}
      <4>1. ~(\E h \in 1..MaxHeight : h < poll.tip - RescanDepth)
        BY <1>0
      <4> QED
        BY <1>0, <4>1
    <3> QED
      BY <1>0, <3>1, <3>2 DEF Forget
  <2>4. PICK to \in WalkEnds(v.back, poll.tip) :
          v' = IF Final(poll.tip) \/ ~poll.answered THEN v
               ELSE IF poll.out THEN SeenUnspent(poll.conf, FundingPairs(poll.conf))
               ELSE SeenGone(to, FundingReorged)
    BY <2>1 DEF Refresh
  <2>5. CASE v' = v
    BY <1>0, <1>1, <1>2, <2>2, <2>3, <2>5, ReorgSame
  <2>6. ASSUME NEW u, NamedAt(u), GivenUp(u), v' = u
        PROVE  NamedAt(v)' /\ GivenUp(v)'
    <3>1. Height' = Height /\ \A h : HashAt(h)' = HashAt(h)
      BY <2>2 DEF Height, HashAt
    <3>2. \A h : Kept(h)' <=> Kept(h)
      BY <2>3, <3>1 DEF Kept
    <3> QED
      BY <2>2, <2>3, <2>6, <3>2 DEF NamedAt, GivenUp
  <2>7. CASE v' = SeenUnspent(poll.conf, FundingPairs(poll.conf))
    <3>1. PICK u : u = SeenUnspent(poll.conf, FundingPairs(poll.conf))
      OBVIOUS
    <3>2. NamedAt(u) /\ GivenUp(u)
      BY <1>1, <3>1, ReorgUnspent
    <3> QED
      BY <1>2, <2>2, <2>6, <2>7, <3>1, <3>2
  <2>8. CASE v' = SeenGone(to, FundingReorged)
    <3>1. PICK u : u = SeenGone(to, FundingReorged)
      OBVIOUS
    <3>2. to \in 1..MaxHeight + 1
      BY <2>4, WalkTypes
    <3>3. NamedAt(u) /\ GivenUp(u)
      BY <1>1, <2>2, <3>1, <3>2, ReorgGone
    <3> QED
      BY <1>2, <2>2, <2>6, <2>8, <3>1, <3>3
  <2> QED
    BY <2>4, <2>5, <2>7, <2>8
<1>7. CASE Restart
  <2>1. restarts \in 0..MaxRestarts /\ restarts < MaxRestarts /\ MaxRestarts = 0
    BY <1>7 DEF Restart, TypeOK, TruthTerms
  <2> QED
    BY <2>1
<1>8. CASE PollFirst
  BY <1>0, <1>8 DEF PollFirst
<1>9. CASE \/ UNCHANGED vars \/ PollStartUnanswered \/ RefreshOne \/ ScanBroken
           \/ ScanDone \/ AskTxout \/ ReadPool
  <2>1. UNCHANGED <<chain, mempool, forks, buried, scanned, hashes, v>>
    BY <1>9 DEF PollStartUnanswered, RefreshOne, ScanBroken, ScanDone, AskTxout,
       ReadPool, ledger, scan, watch, vars
  <2> QED
    BY <1>0, <1>1, <1>2, <2>1, ReorgSame
<1> QED
  BY <1>3, <1>4, <1>5, <1>6, <1>7, <1>8, <1>9 DEF Next, Watcher

(* A calm poll of a node that answers, whatever was replaced before it.    *)
LEMMA ReorgCalm ==
  ASSUME TypeOK, PairInv, LookInv, CalmInv, StandInv, ReorgInv, TruthTerms,
         MaxForks # 0, Refresh, poll.calm, ~Known("fund")
  PROVE  \/ v'.state = "GHOST"
         \/ v'.state = "UNCONFIRMED" /\ ~v'.seen
         \/ v'.state = "SPENT_UNKNOWN" /\ v'.fundBlock = -1
         \/ v'.by # None /\ v'.height = 0
<1>1. /\ poll.phase = "refresh" /\ poll.tip = Height /\ scanned = Height
      /\ \A h \in 1..Height : h <= scanned /\ Kept(h)
      /\ poll.answered /\ poll.out = Unspent(VaultCoin)
      /\ PoolSpenders(VaultCoin) = Exits \cap mempool
      /\ v \in Vault /\ v.height \in Nat /\ v.fundHeight \in Nat
      /\ Height \in 0..MaxHeight /\ MaxHeight \in Nat
      /\ v.conf \in Nat /\ MinDepth \in Nat
  <2>1. /\ v.conf \in 0..MaxHeight /\ v.height \in 0..MaxHeight
        /\ v.fundHeight \in 0..MaxHeight /\ MaxHeight \in Nat
        /\ Height \in 0..MaxHeight /\ MinDepth \in Nat
    BY NumberTypes
  <2>2. v \in Vault /\ v.conf \in Nat /\ v.height \in Nat /\ v.fundHeight \in Nat
    BY <2>1 DEF TypeOK
  <2> QED
    BY <2>1, <2>2, CalmKnows DEF Refresh
<1>2. /\ \A x \in Exits : ~Known(x)
      /\ ~InChain("fund") /\ None \notin Exits
  BY LedgerAssumption DEF ReorgInv, FundFirst, Known, Exits
<1>3. PoolSpenders(VaultCoin) = {} /\ ~Unspent(VaultCoin)
  BY <1>1, <1>2, VaultFamily DEF Known, Unspent
<1>4. v.height = 0
  <2> SUFFICES ASSUME v.height > 0 PROVE FALSE
    BY <1>1
  <2>1. PICK n : n = v.height
    OBVIOUS
  <2>2. n \in 1..Height
    BY <1>1, <2>1 DEF ReorgInv, NamedAt
  <2>3. v.by \in Exits /\ v.by \in chain[n].txs
    BY <1>1, <2>1, <2>2 DEF ReorgInv, NamedAt
  <2>4. InChain(v.by)
    BY <2>2, <2>3 DEF InChain
  <2> QED
    BY <1>2, <2>3, <2>4 DEF Known
(* The block of the funding, if it is known, is not there any more. *)
<1>5. v.fundBlock # -1 =>
        /\ [height |-> v.fundHeight, block |-> v.fundBlock] \in buried
        /\ v.fundHeight \in 1..Height
        /\ HashAt(v.fundHeight) # v.fundBlock
  <2> SUFFICES ASSUME v.fundBlock # -1
               PROVE  /\ [height |-> v.fundHeight, block |-> v.fundBlock] \in buried
                      /\ v.fundHeight \in 1..Height
                      /\ HashAt(v.fundHeight) # v.fundBlock
    OBVIOUS
  <2>1. PICK b \in buried : b = [height |-> v.fundHeight, block |-> v.fundBlock]
    BY DEF PairInv, Named
  <2>2. b.height = v.fundHeight /\ b.block = v.fundBlock
    BY <2>1
  <2>3. /\ b.height \in 1..Height
        /\ HashAt(b.height) = b.block => "fund" \in chain[b.height].txs
    BY DEF ReorgInv, BuriedInv
  <2>4. "fund" \notin chain[b.height].txs
    BY <1>2, <2>3 DEF InChain
  <2> QED
    BY <2>1, <2>2, <2>3, <2>4
<1>6. FundingReorged = IF v.fundBlock = -1 THEN "unknown" ELSE "yes"
  <2>1. v.fundBlock # -1 => /\ v.fundHeight # 0 /\ ~(poll.tip < v.fundHeight)
                            /\ ~(v.fundHeight > Height)
    BY <1>1, <1>5
  <2> QED
    BY <1>5, <2>1 DEF FundingReorged
<1>7. PICK to \in WalkEnds(v.back, poll.tip) : v' = SeenGone(to, FundingReorged)
  <2>1. ~Final(poll.tip)
    BY <1>4 DEF Final, Settled
  <2> QED
    BY <1>1, <1>3, <2>1 DEF Refresh
<1>8. CASE v.state \in Closed
  <2>1. v' = v
    BY <1>3, <1>7, <1>8 DEF SeenGone
  <2>2. CASE v.state = "GHOST" \/ v.by # None
    BY <1>4, <2>1, <2>2
  <2>3. CASE v.state # "GHOST" /\ v.by = None
    <3>1. v.state = "SPENT_UNKNOWN"
      BY <1>8, <2>3 DEF ReorgInv, GivenUp
    <3>2. v.fundBlock = -1
      <4> SUFFICES ASSUME v.fundBlock # -1 PROVE FALSE
        OBVIOUS
      <4>1. PICK n : n = v.fundHeight
        OBVIOUS
      <4>2. hashes[n] = v.fundBlock
        BY <1>8, <2>3, <4>1 DEF ReorgInv, GivenUp
      <4>3. n \in 1..Height /\ HashAt(n) # v.fundBlock
        BY <1>5, <4>1
      <4>4. hashes[n] = HashAt(n)
        BY <1>1, <4>3 DEF Kept
      <4> QED
        BY <4>2, <4>3, <4>4
    <3> QED
      BY <2>1, <3>1, <3>2
  <2> QED
    BY <2>2, <2>3
<1>9. CASE v.state \notin Closed
  <2>1. /\ WalkEnds(v.back, poll.tip) = {1} /\ Floor(poll.tip) = 1
        /\ WalkTop(v.back, poll.tip) <= poll.tip
    <3>1. Floor(poll.tip) = 1
      <4>1. RescanDepth \in Nat /\ RescanDepth >= MaxHeight
        BY NumberTypes DEF TruthTerms
      <4> QED
        BY <1>1, <4>1 DEF Floor, LargerOf
    <3>2. WalkTop(v.back, poll.tip) \in 0..poll.tip
      BY WalkTypes
    <3>3. ~(WalkTop(v.back, poll.tip) > Height) /\ WalkTop(v.back, poll.tip) <= poll.tip
      BY <1>1, <3>2
    <3> QED
      BY <3>1, <3>3 DEF WalkEnds
  <2>2. \A h \in 1..Height : SpendersAt(VaultCoin, h) = {}
    BY <1>2, VaultFamily DEF SpendersAt, Known, InChain
  <2>3. Found(VaultCoin, v.back, poll.tip, to) = {}
    <3>1. to .. WalkTop(v.back, poll.tip) \subseteq 1..Height
      BY <1>1, WalkTypes
    <3> QED
      BY <1>3, <2>2, <3>1 DEF Found
  <2> DEFINE back == IF ~Unburied /\ ~Exhausted(v.back, poll.tip) THEN 1 ELSE v.back
  <2>4. v' = Unexplained(back, FundingReorged)
    <3>1. to = 1
      BY <2>1
    <3> QED
      BY <1>3, <1>7, <1>9, <2>3, <3>1 DEF SeenGone, Closed
  <2>5. ~Unburied => Exhausted(back, poll.tip)
    BY <2>1 DEF Exhausted
  <2> HIDE DEF back
  <2> DEFINE u == [v EXCEPT !.back = back]
             ghost == [u EXCEPT !.state = "GHOST", !.conf = 0]
             lost == [u EXCEPT !.state = "SPENT_UNKNOWN"]
  <2>6. /\ ghost.state = "GHOST" /\ lost.state = "SPENT_UNKNOWN"
        /\ lost.fundBlock = v.fundBlock
    BY <1>1 DEF Vault
  <2>7. ~Behind
    BY <1>1 DEF Behind
  <2>8. Unexplained(back, FundingReorged) =
          LET never == FundingReorged = "unknown" /\ v.conf < MinDepth
              decided == FundingReorged = "yes" \/ (never /\ v.seen)
          IN  IF ~decided /\ ~Exhausted(back, poll.tip) THEN u
              ELSE IF FundingReorged = "yes" \/ never THEN ghost ELSE lost
    BY <2>7 DEF Unexplained
  <2> HIDE DEF u, ghost, lost
  <2>9. CASE v.fundBlock # -1
    <3>1. FundingReorged = "yes"
      BY <1>6, <2>9
    <3>2. v' = ghost
      BY <2>4, <2>8, <3>1
    <3> QED
      BY <2>6, <3>2
  <2>10. CASE v.fundBlock = -1
    <3>1. FundingReorged = "unknown"
      BY <1>6, <2>10
    <3>2. CASE Unburied
      <4>1. v' = ghost
        BY <2>4, <2>8, <3>1, <3>2 DEF Unburied
      <4> QED
        BY <2>6, <4>1
    <3>3. CASE ~Unburied
      <4>1. v' \in {ghost, lost}
        BY <2>4, <2>5, <2>8, <3>1, <3>3
      <4> QED
        BY <2>6, <2>10, <4>1
    <3> QED
      BY <3>2, <3>3
  <2> QED
    BY <2>9, <2>10
<1> QED
  BY <1>8, <1>9

(* VaultWatcher does not go on calling a vault LIVE whose funding is gone, *)
(* evicted from the mempool or replaced with its block: after a poll that  *)
(* nothing disturbed it is a ghost, unless it was never seen, or a close   *)
(* was read from the mempool, or it was given up on with no block known.   *)
(* The chain is never seen shorter than it was; otherwise see README.      *)
THEOREM UndoneIsSeen ==
  ASSUME TruthTerms, MaxForks = 0 \/ ~ShorterChains
  PROVE  Spec => []UndoneIsNoticed
<1> DEFINE SeenInv == /\ TypeOK /\ PairInv /\ RivalInv /\ LinkInv
                      /\ LookInv /\ CalmInv /\ StandInv
                      /\ MaxForks = 0 => Honest(v) /\ FundInv
                      /\ MaxForks # 0 => ReorgInv
<1>1. Init => SeenInv /\ UndoneIsNoticed
  <2> SUFFICES ASSUME Init PROVE SeenInv /\ UndoneIsNoticed
    OBVIOUS
  <2>1. SeenInv
    BY InitType, InitPair, InitRival, InitScan, InitTruth, InitFund, InitReorg
  <2>2. quiet = 0 /\ QuietPolls # 0
    BY ScannerAssumption DEF Init, ScannerInit
  <2> QED
    BY <2>1, <2>2 DEF UndoneIsNoticed, Fresh
<1>2. ASSUME SeenInv, UndoneIsNoticed, [Next]_vars
      PROVE  SeenInv' /\ UndoneIsNoticed'
  <2>1. TypeOK' /\ PairInv' /\ RivalInv'
    BY <1>2, TypeStep, PairStep, RivalStep DEF TruthTerms
  <2>2. LinkInv' /\ LookInv'
    BY <1>2, LookStep
  <2>3. CalmInv' /\ StandInv'
    BY <1>2, CalmStep, StandStep DEF TruthTerms
  <2>4. MaxForks = 0 => Honest(v)' /\ FundInv'
    <3> SUFFICES ASSUME MaxForks = 0 PROVE Honest(v)' /\ FundInv'
      OBVIOUS
    <3>1. Honest(v)'
      BY <1>2, HonestStep DEF Standing
    <3> QED
      BY <1>2, <3>1, FundStep DEF TruthTerms
  <2>5. MaxForks # 0 => ReorgInv'
    BY <1>2, <2>2, ReorgStep
  <2>6. UndoneIsNoticed'
    <3> SUFFICES ASSUME Fresh', ~(Known("fund"))'
                 PROVE  \/ v'.state = "GHOST"
                        \/ v'.state = "UNCONFIRMED" /\ ~v'.seen
                        \/ v'.state = "SPENT_UNKNOWN" /\ v'.fundBlock = -1
                        \/ v'.by # None /\ v'.height = 0
      BY DEF UndoneIsNoticed
    <3>1. CASE UNCHANGED vars
      <4>1. Fresh /\ ~Known("fund") /\ v' = v
        BY <3>1 DEF vars, ledger, watch, Fresh, Known, InChain, Height
      <4> QED
        BY <1>2, <4>1 DEF UndoneIsNoticed
    <3>2. CASE Refresh /\ poll.calm
      <4>1. chain' = chain /\ mempool' = mempool
        BY <3>2 DEF Refresh, EndPoll, ledger
      <4>2. ~Known("fund")
        BY <4>1 DEF Known, InChain, Height
      <4> QED
        BY <1>2, <3>2, <4>2, CalmGone, ReorgCalm
    <3> QED
      BY <1>2, <3>1, <3>2, FreshFrom
  <2> QED
    BY <2>1, <2>2, <2>3, <2>4, <2>5, <2>6
<1> QED
  BY <1>1, <1>2, PTL DEF Spec
=============================================================================
