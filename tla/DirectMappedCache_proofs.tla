---------------------- MODULE DirectMappedCache_proofs ----------------------
(***************************************************************************)
(* Proofs about the cache by itself: the line array always has the         *)
(* configured size, the published counters balance, dirty data is          *)
(* accounted for, and the cache implements CacheHistory, for every set of  *)
(* addresses and configurations and any number of accesses.                *)
(***************************************************************************)
EXTENDS DirectMappedCache, ComponentOps_proofs, FiniteSetTheorems

(* configure() only ever installs a configuration with at least one line.  *)
LEMMA AcceptedIsConfig ==
    ASSUME NEW raw \in RawConfigs, Acceptable(raw)
    PROVE  Accepted(raw) \in CacheConfig
  BY CacheAssumption
     DEF CacheAssumption, Acceptable, IsPowerOfTwo, Accepted, CacheConfig

(* The constructor leaves a cache of the configured size.                  *)
LEMMA InitTypeOK == Init => TypeOK
  <1> SUFFICES ASSUME NEW raw \in RawConfigs, Acceptable(raw),
                      config = Accepted(raw), cache = ResetCache(config), log = << >>
               PROVE  TypeOK
    BY DEF Init
  <1>1. config \in CacheConfig
    BY AcceptedIsConfig
  <1>2. cache \in CacheType(config)
    BY <1>1, ResetCacheType
  <1> QED
    BY <1>1, <1>2 DEF TypeOK

(* access() and reset() keep it so.                                        *)
LEMMA NextKeepsTypeOK == TypeOK /\ [Next]_vars => TypeOK'
  <1> SUFFICES ASSUME TypeOK, [Next]_vars PROVE TypeOK'
    OBVIOUS
  <1> USE DEF TypeOK
  <1>1. ASSUME NEW addr \in Addrs, NEW isWrite \in BOOLEAN, Access(addr, isWrite)
        PROVE  TypeOK'
    <2>1. /\ cache' = AfterAccess(config, cache, addr, isWrite)
          /\ config' = config
          /\ log' = IF config.enabled
                    THEN Append(log, [addr |-> addr, write |-> isWrite]) ELSE log
      BY <1>1 DEF Access
    <2>2. addr \in Nat
      BY CacheAssumption DEF CacheAssumption
    <2>3. cache' \in CacheType(config)
      BY <2>1, <2>2, AfterAccessType
    <2>4. log' \in Seq([addr : Addrs, write : BOOLEAN])
      <3> DEFINE S == [addr : Addrs, write : BOOLEAN]
                 e == [addr |-> addr, write |-> isWrite]
      <3>1. e \in S /\ log \in Seq(S)
        OBVIOUS
      <3>2. log' = Append(log, e) \/ log' = log
        BY <2>1
      <3> HIDE DEF S, e
      <3>3. log' \in Seq(S)
        BY <3>1, <3>2
      <3> QED
        BY <3>3 DEF S
    <2> QED
      BY <2>1, <2>3, <2>4
  <1>2. CASE Reset
    BY <1>2, ResetCacheType DEF Reset
  <1>3. ASSUME NEW raw \in RawConfigs, Configure(raw)
        PROVE  TypeOK'
    <2>1. config' \in CacheConfig
      BY <1>3, AcceptedIsConfig DEF Configure
    <2>2. cache' \in CacheType(config')
      BY <1>3, <2>1, ResetCacheType DEF Configure
    <2> QED
      BY <1>3, <2>1, <2>2 DEF Configure
  <1>4. ASSUME NEW raw \in RawConfigs, ConfigureRejected(raw)
        PROVE  TypeOK'
    BY <1>4 DEF ConfigureRejected
  <1>5. CASE UNCHANGED vars
    BY <1>5 DEF vars
  <1> QED
    BY <1>1, <1>2, <1>3, <1>4, <1>5 DEF Next

(* The array holds one line per index whatever configure() was called      *)
(* with, so that no access reads or writes past it.                        *)
THEOREM CacheTypeCorrect == Spec => []TypeOK
  BY InitTypeOK, NextKeepsTypeOK, PTL DEF Spec

-----------------------------------------------------------------------------
(* The balance of the counters *)

(* TrafficBalance and StallBalance of any statistics, so that each way of  *)
(* counting can be shown to keep them.                                     *)
Balanced(cfg, s) ==
    /\ s.accesses = s.hits + s.misses
    /\ s.reads = s.misses
    /\ s.writes = s.writebacks
    /\ s.writebacks <= s.misses
    /\ s.stall = (s.misses - s.writebacks) * CleanMissPenalty(cfg)
                 + s.writebacks * DirtyMissPenalty(cfg)

(* Cleared counters are in balance.                                        *)
LEMMA ZeroIsBalanced ==
    ASSUME NEW cfg \in CacheConfig
    PROVE  Balanced(cfg, ZeroCacheStats)
  <1>1. CleanMissPenalty(cfg) \in Nat /\ DirtyMissPenalty(cfg) \in Nat
    BY StallIsNat
  <1> QED
    BY <1>1 DEF Balanced, ZeroCacheStats

(* Counting one access keeps the balance: a miss is charged the clean      *)
(* penalty, or the dirty one together with a writeback.                    *)
LEMMA CountingKeepsBalance ==
    ASSUME NEW cfg \in CacheConfig, NEW s \in CacheStats, Balanced(cfg, s),
           NEW evict \in BOOLEAN
    PROVE  /\ Balanced(cfg, HitStats(s))
           /\ Balanced(cfg, MissStats(s, IF evict THEN DirtyMissPenalty(cfg)
                                         ELSE CleanMissPenalty(cfg), evict))
  <1> DEFINE C == CleanMissPenalty(cfg)
             D == DirtyMissPenalty(cfg)
             m == s.misses
             w == s.writebacks
  <1>1. C \in Nat /\ D \in Nat
    BY StallIsNat
  <1>2. /\ s.accesses \in Nat /\ s.hits \in Nat /\ m \in Nat
        /\ w \in Nat /\ s.reads \in Nat /\ s.writes \in Nat
        /\ s.stall \in Nat
    BY DEF CacheStats
  <1>3. Balanced(cfg, HitStats(s))
    BY <1>1, <1>2 DEF Balanced, HitStats
  <1>4. /\ ((m + 1) - w) * C = (m - w) * C + C
        /\ ((m + 1) - (w + 1)) * C = (m - w) * C
        /\ (w + 1) * D = w * D + D
    <2> HIDE DEF C, D, m, w
    <2> QED
      BY <1>1, <1>2
  <1>5. /\ s.accesses = s.hits + m /\ s.reads = m /\ s.writes = w /\ w <= m
        /\ s.stall = (m - w) * C + w * D
    BY DEF Balanced
  <1>6. Balanced(cfg, MissStats(s, D, TRUE))
    <2> DEFINE r == MissStats(s, D, TRUE)
    <2>1. /\ r.accesses = r.hits + r.misses
          /\ r.reads = r.misses
          /\ r.writes = r.writebacks
          /\ r.writebacks <= r.misses
          /\ r.misses = m + 1 /\ r.writebacks = w + 1 /\ r.stall = s.stall + D
      BY <1>1, <1>2, <1>5 DEF MissStats
    <2>2. s.stall + D = ((m + 1) - (w + 1)) * C + (w + 1) * D
      BY <1>1, <1>2, <1>4, <1>5
    <2> QED
      BY <2>1, <2>2 DEF Balanced
  <1>7. Balanced(cfg, MissStats(s, C, FALSE))
    <2> DEFINE r == MissStats(s, C, FALSE)
    <2>1. /\ r.accesses = r.hits + r.misses
          /\ r.reads = r.misses
          /\ r.writes = r.writebacks
          /\ r.writebacks <= r.misses
          /\ r.misses = m + 1 /\ r.writebacks = w /\ r.stall = s.stall + C
      BY <1>1, <1>2, <1>5 DEF MissStats
    <2>2. s.stall + C = ((m + 1) - w) * C + w * D
      BY <1>1, <1>2, <1>4, <1>5
    <2> QED
      BY <2>1, <2>2 DEF Balanced
  <1> QED
    BY <1>3, <1>6, <1>7

(* One access moves both sides of each balance alike.                      *)
LEMMA AccessKeepsBalance ==
    ASSUME NEW cfg \in CacheConfig, NEW c \in CacheType(cfg), NEW addr \in Nat,
           NEW isWrite \in BOOLEAN, Balanced(cfg, c.stats)
    PROVE  Balanced(cfg, AfterAccess(cfg, c, addr, isWrite).stats)
  <1> DEFINE evict == EvictsDirty(cfg, c, addr)
             d == AfterAccess(cfg, c, addr, isWrite)
  <1>1. c.stats \in CacheStats
    BY DEF CacheType
  <1>2. evict \in BOOLEAN
    <2>1. Index(cfg, addr) \in 0 .. cfg.lines - 1
      BY IndexInArray
    <2>2. c.lines[Index(cfg, addr)] \in Line /\ cfg.writeBack \in BOOLEAN
      BY <2>1 DEF CacheType, CacheConfig
    <2> QED
      BY <2>2 DEF EvictsDirty, Line
  <1>3. CASE ~cfg.enabled
    BY <1>3 DEF AfterAccess
  <1>4. CASE cfg.enabled /\ Resident(cfg, c, addr)
    <2>1. d.stats = HitStats(c.stats)
      BY <1>4 DEF AfterAccess
    <2> QED
      BY <1>1, <2>1, CountingKeepsBalance
  <1>5. CASE cfg.enabled /\ ~Resident(cfg, c, addr)
    <2>1. d.stats = MissStats(c.stats, AccessStall(cfg, c, addr), evict)
      BY <1>5 DEF AfterAccess
    <2>2. AccessStall(cfg, c, addr) =
             IF evict THEN DirtyMissPenalty(cfg) ELSE CleanMissPenalty(cfg)
      BY <1>5 DEF AccessStall, WouldHit
    <2> QED
      BY <1>1, <1>2, <2>1, <2>2, CountingKeepsBalance
  <1> QED
    BY <1>3, <1>4, <1>5

(* The balance is of the configuration in force: configure() clears the    *)
(* counters in the same call that changes the penalties.                   *)
IInv == TypeOK /\ Balanced(config, cache.stats)

(* The constructor leaves the counters in balance.                         *)
LEMMA InitIInv == Init => IInv
  <1> SUFFICES ASSUME Init PROVE Balanced(config, cache.stats)
    BY InitTypeOK DEF IInv
  <1>1. config \in CacheConfig
    BY InitTypeOK DEF TypeOK
  <1>2. cache = ResetCache(config)
    BY DEF Init
  <1> QED
    BY <1>1, <1>2, ResetCacheType, ZeroIsBalanced

(* Every call keeps them in balance.                                       *)
LEMMA NextKeepsIInv == IInv /\ [Next]_vars => IInv'
  <1> SUFFICES ASSUME IInv, [Next]_vars PROVE IInv'
    OBVIOUS
  <1>1. TypeOK'
    BY NextKeepsTypeOK DEF IInv
  <1>2. ASSUME NEW addr \in Addrs, NEW isWrite \in BOOLEAN, Access(addr, isWrite)
        PROVE  Balanced(config, cache.stats)'
    <2>1. addr \in Nat
      BY CacheAssumption DEF CacheAssumption
    <2>2. config' = config /\ cache' = AfterAccess(config, cache, addr, isWrite)
      BY <1>2 DEF Access
    <2>3. Balanced(config, AfterAccess(config, cache, addr, isWrite).stats)
      BY <2>1, AccessKeepsBalance DEF IInv, TypeOK
    <2> QED
      BY <2>2, <2>3
  <1>3. ASSUME config' \in CacheConfig, cache' = ResetCache(config')
        PROVE  Balanced(config, cache.stats)'
    <2>1. Balanced(config', ResetCache(config').stats)
      BY <1>3, ResetCacheType, ZeroIsBalanced
    <2> QED
      BY <1>3, <2>1
  <1>4. CASE Reset
    <2>1. config' \in CacheConfig /\ cache' = ResetCache(config')
      BY <1>4 DEF Reset, IInv, TypeOK, ResetCache
    <2> QED
      BY <1>1, <1>3, <2>1 DEF IInv
  <1>5. ASSUME NEW raw \in RawConfigs, Configure(raw)
        PROVE  Balanced(config, cache.stats)'
    <2>1. config' \in CacheConfig /\ cache' = ResetCache(config')
      BY <1>5, AcceptedIsConfig DEF Configure, ResetCache
    <2> QED
      BY <1>3, <2>1
  <1>6. CASE \/ \E raw \in RawConfigs : ConfigureRejected(raw)
             \/ UNCHANGED vars
    <2>1. config' = config /\ cache' = cache
      BY <1>6 DEF ConfigureRejected, vars
    <2>2. Balanced(config', cache'.stats)
      BY <2>1 DEF IInv
    <2> QED
      BY <1>1, <2>2 DEF IInv
  <1> QED
    BY <1>1, <1>2, <1>4, <1>5, <1>6 DEF Next, IInv

(* The balances hold of every reachable state.                             *)
LEMMA BalanceHolds == Spec => []IInv
  BY InitIInv, NextKeepsIInv, PTL DEF Spec

(* An access is a hit or a miss, a miss is one AXI read, a writeback is    *)
(* one AXI write and is caused by a miss, however the cache is used.       *)
THEOREM TrafficIsBalanced == Spec => []TrafficBalance
  <1>1. IInv => TrafficBalance
    BY DEF IInv, Balanced, TrafficBalance
  <1> QED
    BY BalanceHolds, <1>1, PTL

(* The stall total is the clean penalty of each clean miss plus the dirty  *)
(* penalty of each miss that wrote back: no stall cycle is lost.           *)
THEOREM StallsAreBalanced == Spec => []StallBalance
  <1>1. IInv => StallBalance
    BY DEF IInv, Balanced, StallBalance
  <1> QED
    BY BalanceHolds, <1>1, PTL

-----------------------------------------------------------------------------
(* The lines and the history *)

(* CacheHistory speaks of the log in force; its definitions, of any log,   *)
(* so that the log before and after an access can be compared.             *)
Entries == [addr : Addrs, write : BOOLEAN]

SameLine(cfg, a, b) == Index(cfg, a) = Index(cfg, b)

(* The i-th access is the last one to the line of addr.                    *)
LastIn(cfg, l, i, addr) ==
    /\ SameLine(cfg, l[i].addr, addr)
    /\ \A k \in i + 1 .. Len(l) : ~SameLine(cfg, l[k].addr, addr)

PresentIn(cfg, l, n, addr) ==
    \E i \in 1 .. n : /\ WordAddr(l[i].addr) = WordAddr(addr)
                      /\ \A k \in i + 1 .. n : ~SameLine(cfg, l[k].addr, addr)

(* The i-th of the first n accesses wrote a word nobody has replaced in    *)
(* the line of addr.                                                       *)
UnsavedBy(cfg, l, n, i, addr) ==
    /\ SameLine(cfg, l[i].addr, addr)
    /\ l[i].write
    /\ \A k \in i + 1 .. n :
          SameLine(cfg, l[k].addr, addr) => WordAddr(l[k].addr) = WordAddr(l[i].addr)

UnsavedIn(cfg, l, n, addr) ==
    cfg.writeBack /\ \E i \in 1 .. n : UnsavedBy(cfg, l, n, i, addr)

(* The line addr maps to holds the word of the last access to it, and is   *)
(* dirty as long as a write to that word has not been evicted.             *)
LineMatches(cfg, lines, l, addr) ==
    LET line == lines[Index(cfg, addr)]
    IN  /\ line.valid => \E i \in 1 .. Len(l) : /\ LastIn(cfg, l, i, addr)
                                                /\ Tag(cfg, l[i].addr) = line.tag
        /\ ~line.valid => \A i \in 1 .. Len(l) : ~SameLine(cfg, l[i].addr, addr)
        /\ line.valid /\ line.dirty /\ cfg.writeBack <=> UnsavedIn(cfg, l, Len(l), addr)

LinesMatch(cfg, lines, l) == \A addr \in Nat : LineMatches(cfg, lines, l, addr)

(* A word is known by the line it maps to and its tag.                     *)
LEMMA WordIsIndexAndTag ==
    ASSUME NEW cfg \in CacheConfig, NEW a \in Nat, NEW b \in Nat
    PROVE  WordAddr(a) = WordAddr(b)
              <=> SameLine(cfg, a, b) /\ Tag(cfg, a) = Tag(cfg, b)
  <1> DEFINE n == cfg.lines
             v == WordAddr(a)
             w == WordAddr(b)
  <1>1. n \in Nat /\ n > 0 /\ v \in Nat /\ w \in Nat
    BY IndexInArray DEF CacheConfig
  <1>2. (v % n = w % n /\ v \div n = w \div n) <=> v = w
    <2> HIDE DEF n, v, w
    <2>1. v = (n * (v \div n)) + (v % n)
      BY <1>1
    <2>2. w = (n * (w \div n)) + (w % n)
      BY <1>1
    <2> QED
      BY <1>1, <2>1, <2>2
  <1> QED
    BY <1>2 DEF SameLine, Index, Tag

(* The entries of a longer log.                                            *)
LEMMA LongerLog ==
    ASSUME NEW l \in Seq(Entries), NEW e \in Entries
    PROVE  /\ Len(l) \in Nat /\ Len(Append(l, e)) = Len(l) + 1
           /\ Append(l, e) \in Seq(Entries)
           /\ \A i \in 1 .. Len(l) : Append(l, e)[i] = l[i] /\ l[i] \in Entries
           /\ Append(l, e)[Len(l) + 1] = e
           /\ \A i \in 1 .. Len(l) + 1 : Append(l, e)[i].addr \in Nat
           /\ \A i \in 1 .. Len(l) : l[i].addr \in Nat
           /\ e.addr \in Nat /\ e.write \in BOOLEAN
  <1>1. /\ Len(l) \in Nat /\ Len(Append(l, e)) = Len(l) + 1
        /\ \A i \in 1 .. Len(l) : Append(l, e)[i] = l[i] /\ l[i] \in Entries
        /\ Append(l, e)[Len(l) + 1] = e
        /\ Append(l, e) \in Seq(Entries)
    OBVIOUS
  <1>2. \A x \in Entries : x.addr \in Nat /\ x.write \in BOOLEAN
    BY CacheAssumption DEF CacheAssumption, Entries
  <1>3. \A i \in 1 .. Len(l) : l[i].addr \in Nat
    BY <1>1, <1>2
  <1>4. \A i \in 1 .. Len(l) + 1 : Append(l, e)[i].addr \in Nat
    BY <1>1, <1>2
  <1> QED
    BY <1>1, <1>2, <1>3, <1>4

(* What the first accesses left in the cache does not depend on later ones.*)
LEMMA PastIsFixed ==
    ASSUME NEW cfg, NEW l \in Seq(Entries), NEW e \in Entries,
           NEW n \in 0 .. Len(l), NEW addr
    PROVE  /\ PresentIn(cfg, Append(l, e), n, addr) <=> PresentIn(cfg, l, n, addr)
           /\ UnsavedIn(cfg, Append(l, e), n, addr) <=> UnsavedIn(cfg, l, n, addr)
  <1>1. \A i \in 1 .. n : Append(l, e)[i] = l[i] /\ i + 1 \in Nat
    BY LongerLog
  <1>2. \A i \in 1 .. n : i + 1 .. n \subseteq 1 .. n
    BY LongerLog
  <1>3. PresentIn(cfg, Append(l, e), n, addr) <=> PresentIn(cfg, l, n, addr)
    BY <1>1, <1>2 DEF PresentIn
  <1>4. \A i \in 1 .. n :
           UnsavedBy(cfg, Append(l, e), n, i, addr) <=> UnsavedBy(cfg, l, n, i, addr)
    BY <1>1, <1>2 DEF UnsavedBy
  <1> QED
    BY <1>3, <1>4 DEF UnsavedIn

(* In a cache that matches its log, a word is resident when the history    *)
(* says so.                                                                *)
LEMMA ResidentIsPresent ==
    ASSUME NEW cfg \in CacheConfig, NEW c \in CacheType(cfg), NEW l \in Seq(Entries),
           LinesMatch(cfg, c.lines, l), NEW addr \in Nat
    PROVE  /\ Resident(cfg, c, addr) <=> PresentIn(cfg, l, Len(l), addr)
           /\ EvictsDirty(cfg, c, addr) <=> UnsavedIn(cfg, l, Len(l), addr)
  <1> DEFINE line == c.lines[Index(cfg, addr)]
             n == Len(l)
  <1>1. LineMatches(cfg, c.lines, l, addr)
    BY DEF LinesMatch
  <1>2. n \in Nat /\ \A i \in 1 .. n : l[i].addr \in Nat
    <2>1. \A x \in Entries : x.addr \in Nat
      BY CacheAssumption DEF CacheAssumption, Entries
    <2> QED
      BY <2>1
  <1>3. ASSUME Resident(cfg, c, addr)
        PROVE  PresentIn(cfg, l, n, addr)
    <2>1. PICK i \in 1 .. n : LastIn(cfg, l, i, addr) /\ Tag(cfg, l[i].addr) = line.tag
      BY <1>1, <1>3 DEF LineMatches, Resident
    <2>2. SameLine(cfg, l[i].addr, addr) /\ Tag(cfg, l[i].addr) = Tag(cfg, addr)
      BY <1>3, <2>1 DEF Resident, LastIn
    <2>3. WordAddr(l[i].addr) = WordAddr(addr)
      BY <1>2, <2>2, WordIsIndexAndTag
    <2> QED
      BY <2>1, <2>3 DEF PresentIn, LastIn
  <1>4. ASSUME PresentIn(cfg, l, n, addr)
        PROVE  Resident(cfg, c, addr)
    <2>1. PICK i \in 1 .. n : /\ WordAddr(l[i].addr) = WordAddr(addr)
                              /\ \A k \in i + 1 .. n : ~SameLine(cfg, l[k].addr, addr)
      BY <1>4 DEF PresentIn
    <2>2. SameLine(cfg, l[i].addr, addr) /\ Tag(cfg, l[i].addr) = Tag(cfg, addr)
      BY <1>2, <2>1, WordIsIndexAndTag
    <2>3. PICK j \in 1 .. n : LastIn(cfg, l, j, addr) /\ Tag(cfg, l[j].addr) = line.tag
                              /\ line.valid
      BY <1>1, <2>2 DEF LineMatches
    <2>4. j = i
      BY <1>2, <2>1, <2>2, <2>3 DEF LastIn
    <2> QED
      BY <2>2, <2>3, <2>4 DEF Resident
  <1>5. EvictsDirty(cfg, c, addr) <=> UnsavedIn(cfg, l, n, addr)
    BY <1>1 DEF LineMatches, EvictsDirty
  <1> QED
    BY <1>3, <1>4, <1>5

(* After one more access its line holds unsaved data if the access wrote,  *)
(* or found its own word there with data not yet saved.                    *)
LEMMA UnsavedAfter ==
    ASSUME NEW cfg \in CacheConfig, NEW c \in CacheType(cfg), NEW l \in Seq(Entries),
           LinesMatch(cfg, c.lines, l), NEW e \in Entries,
           NEW addr \in Nat, SameLine(cfg, e.addr, addr)
    PROVE  UnsavedIn(cfg, Append(l, e), Len(l) + 1, addr)
              <=> /\ cfg.writeBack
                  /\ \/ e.write
                     \/ /\ PresentIn(cfg, l, Len(l), e.addr)
                        /\ UnsavedIn(cfg, l, Len(l), e.addr)
  <1> DEFINE n == Len(l)
             m == Append(l, e)
  <1>1. /\ n \in Nat /\ e.addr \in Nat
        /\ \A i \in 1 .. n : m[i] = l[i] /\ l[i].addr \in Nat
        /\ m[n + 1] = e
    BY LongerLog
  <1>2. \A i, j \in 1 .. n :
           WordAddr(l[i].addr) = WordAddr(l[j].addr) => SameLine(cfg, l[i].addr, l[j].addr)
    BY <1>1, WordIsIndexAndTag
  <1>3. \A i \in 1 .. n :
           WordAddr(l[i].addr) = WordAddr(e.addr) => SameLine(cfg, l[i].addr, e.addr)
    BY <1>1, WordIsIndexAndTag
  <1>4. ASSUME cfg.writeBack, e.write
        PROVE  UnsavedIn(cfg, m, n + 1, addr)
    <2>1. UnsavedBy(cfg, m, n + 1, n + 1, addr)
      BY <1>1, <1>4 DEF UnsavedBy
    <2> QED
      BY <1>1, <1>4, <2>1 DEF UnsavedIn
  <1>5. ASSUME cfg.writeBack, PresentIn(cfg, l, n, e.addr), UnsavedIn(cfg, l, n, e.addr)
        PROVE  UnsavedIn(cfg, m, n + 1, addr)
    <2>1. PICK j \in 1 .. n : /\ WordAddr(l[j].addr) = WordAddr(e.addr)
                              /\ \A k \in j + 1 .. n : ~SameLine(cfg, l[k].addr, e.addr)
      BY <1>5 DEF PresentIn
    <2>2. PICK i \in 1 .. n : UnsavedBy(cfg, l, n, i, e.addr)
      BY <1>5 DEF UnsavedIn
    <2>3. ~(i > j)
      BY <1>1, <2>1, <2>2 DEF UnsavedBy
    <2>4. i < j => WordAddr(l[j].addr) = WordAddr(l[i].addr)
      BY <1>1, <1>3, <2>1, <2>2 DEF UnsavedBy
    <2>5. WordAddr(l[i].addr) = WordAddr(e.addr)
      <3>1. i = j \/ i < j
        BY <1>1, <2>3
      <3> QED
        BY <2>1, <2>4, <3>1
    <2>6. \A k \in i + 1 .. n + 1 : SameLine(cfg, m[k].addr, addr)
                                       => WordAddr(m[k].addr) = WordAddr(m[i].addr)
      <3> SUFFICES ASSUME NEW k \in i + 1 .. n + 1, SameLine(cfg, m[k].addr, addr)
                   PROVE  WordAddr(m[k].addr) = WordAddr(m[i].addr)
        OBVIOUS
      <3>1. CASE k = n + 1
        BY <1>1, <2>5, <3>1
      <3>2. CASE k # n + 1
        <4>1. k \in i + 1 .. n /\ k \in 1 .. n
          <5> HIDE DEF n, m
          <5> QED
            BY <1>1, <3>2
        <4>2. SameLine(cfg, l[k].addr, e.addr)
          BY <1>1, <4>1 DEF SameLine
        <4> QED
          BY <1>1, <2>2, <4>1, <4>2 DEF UnsavedBy
      <3> QED
        BY <3>1, <3>2
    <2>7. SameLine(cfg, m[i].addr, addr) /\ m[i].write
      BY <1>1, <2>2 DEF UnsavedBy, SameLine
    <2>8. UnsavedBy(cfg, m, n + 1, i, addr)
      BY <2>6, <2>7 DEF UnsavedBy
    <2>9. i \in 1 .. n + 1
      BY <1>1
    <2> QED
      BY <1>5, <2>8, <2>9 DEF UnsavedIn
  <1>6. ASSUME UnsavedIn(cfg, m, n + 1, addr), ~e.write
        PROVE  PresentIn(cfg, l, n, e.addr) /\ UnsavedIn(cfg, l, n, e.addr)
    <2>1. PICK i \in 1 .. n + 1 : UnsavedBy(cfg, m, n + 1, i, addr)
      BY <1>6 DEF UnsavedIn
    <2>2. i \in 1 .. n
      BY <1>1, <1>6, <2>1 DEF UnsavedBy
    <2>3. SameLine(cfg, l[i].addr, e.addr) /\ l[i].write
      BY <1>1, <2>1, <2>2 DEF UnsavedBy, SameLine
    <2>4. WordAddr(e.addr) = WordAddr(l[i].addr)
      <3>1. n + 1 \in i + 1 .. n + 1
        BY <1>1, <2>2
      <3> QED
        BY <1>1, <2>1, <2>2, <3>1 DEF UnsavedBy
    <2>5. \A k \in i + 1 .. n : SameLine(cfg, l[k].addr, e.addr)
                                   => WordAddr(l[k].addr) = WordAddr(l[i].addr)
      <3> SUFFICES ASSUME NEW k \in i + 1 .. n, SameLine(cfg, l[k].addr, e.addr)
                   PROVE  WordAddr(l[k].addr) = WordAddr(l[i].addr)
        OBVIOUS
      <3>1. k \in 1 .. n /\ k \in i + 1 .. n + 1
        BY <1>1, <2>2
      <3>2. SameLine(cfg, m[k].addr, addr)
        BY <1>1, <3>1 DEF SameLine
      <3> QED
        BY <1>1, <2>1, <2>2, <3>1, <3>2 DEF UnsavedBy
    <2>6. UnsavedIn(cfg, l, n, e.addr)
      <3>1. cfg.writeBack
        BY <1>6 DEF UnsavedIn
      <3>2. UnsavedBy(cfg, l, n, i, e.addr)
        BY <2>3, <2>5 DEF UnsavedBy
      <3> QED
        BY <2>2, <3>1, <3>2 DEF UnsavedIn
    <2>7. PICK j \in 1 .. n : LastIn(cfg, l, j, e.addr)
      <3>1. LineMatches(cfg, c.lines, l, e.addr)
        BY <1>1 DEF LinesMatch
      <3> QED
        BY <2>2, <2>3, <3>1 DEF LineMatches
    <2>8. ~(j < i)
      BY <1>1, <2>2, <2>3, <2>7 DEF LastIn
    <2>9. WordAddr(l[j].addr) = WordAddr(e.addr)
      <3>1. j = i \/ j \in i + 1 .. n
        BY <1>1, <2>2, <2>8
      <3> QED
        BY <2>4, <2>5, <2>7, <3>1 DEF LastIn
    <2> QED
      BY <2>6, <2>7, <2>9 DEF PresentIn, LastIn
  <1>7. UnsavedIn(cfg, m, n + 1, addr) => cfg.writeBack
    BY DEF UnsavedIn
  <1> QED
    BY <1>4, <1>5, <1>6, <1>7

(* access() keeps the line array in step with the log.                     *)
LEMMA AccessKeepsLines ==
    ASSUME NEW cfg \in CacheConfig, cfg.enabled, NEW c \in CacheType(cfg),
           NEW l \in Seq(Entries), LinesMatch(cfg, c.lines, l), NEW e \in Entries
    PROVE  LinesMatch(cfg, AfterAccess(cfg, c, e.addr, e.write).lines, Append(l, e))
  <1> DEFINE n == Len(l)
             m == Append(l, e)
             d == AfterAccess(cfg, c, e.addr, e.write).lines
             old == c.lines[Index(cfg, e.addr)]
  <1>1. /\ n \in Nat /\ Len(m) = n + 1 /\ e.addr \in Nat /\ e.write \in BOOLEAN
        /\ \A i \in 1 .. n : m[i] = l[i] /\ l[i].addr \in Nat
        /\ m[n + 1] = e
    BY LongerLog
  <1>2. c.lines \in [0 .. cfg.lines - 1 -> Line] /\ Index(cfg, e.addr) \in 0 .. cfg.lines - 1
    BY <1>1, IndexInArray DEF CacheType
  <1>3. d = [c.lines EXCEPT ![Index(cfg, e.addr)] =
                IF Resident(cfg, c, e.addr) THEN TouchedLine(cfg, old, e.write)
                ELSE FilledLine(cfg, e.addr, e.write)]
    BY DEF AfterAccess
  <1>4. old \in Line /\ cfg.writeBack \in BOOLEAN
    BY <1>2 DEF CacheConfig
  <1> SUFFICES ASSUME NEW addr \in Nat
               PROVE  LineMatches(cfg, d, m, addr)
    BY DEF LinesMatch
  <1>5. CASE ~SameLine(cfg, e.addr, addr)
    <2>1. Index(cfg, addr) \in 0 .. cfg.lines - 1
      BY IndexInArray
    <2>2. d[Index(cfg, addr)] = c.lines[Index(cfg, addr)]
      BY <1>2, <1>3, <1>5, <2>1 DEF SameLine
    <2>3. \A i \in 1 .. n : LastIn(cfg, m, i, addr) <=> LastIn(cfg, l, i, addr)
      <3> SUFFICES ASSUME NEW i \in 1 .. n
                   PROVE  LastIn(cfg, m, i, addr) <=> LastIn(cfg, l, i, addr)
        OBVIOUS
      <3>1. \A k \in i + 1 .. n : k \in 1 .. n /\ k \in i + 1 .. n + 1
        BY <1>1
      <3>2. \A k \in i + 1 .. n + 1 : k \in i + 1 .. n \/ k = n + 1
        BY <1>1
      <3> QED
        BY <1>1, <1>5, <3>1, <3>2 DEF LastIn
    <2>4. UnsavedIn(cfg, m, n + 1, addr) <=> UnsavedIn(cfg, l, n, addr)
      <3>1. \A i \in 1 .. n : UnsavedBy(cfg, m, n + 1, i, addr) <=> UnsavedBy(cfg, l, n, i, addr)
        <4> SUFFICES ASSUME NEW i \in 1 .. n
                     PROVE  UnsavedBy(cfg, m, n + 1, i, addr) <=> UnsavedBy(cfg, l, n, i, addr)
          OBVIOUS
        <4>1. \A k \in i + 1 .. n : k \in 1 .. n /\ k \in i + 1 .. n + 1
          BY <1>1
        <4>2. \A k \in i + 1 .. n + 1 : k \in i + 1 .. n \/ k = n + 1
          BY <1>1
        <4> QED
          BY <1>1, <1>5, <4>1, <4>2 DEF UnsavedBy
      <3>2. ~UnsavedBy(cfg, m, n + 1, n + 1, addr)
        BY <1>1, <1>5 DEF UnsavedBy
      <3>3. \A i \in 1 .. n + 1 : i \in 1 .. n \/ i = n + 1
        BY <1>1
      <3>4. \A i \in 1 .. n : i \in 1 .. n + 1
        BY <1>1
      <3> QED
        BY <3>1, <3>2, <3>3, <3>4 DEF UnsavedIn
    <2>5. LineMatches(cfg, c.lines, l, addr)
      BY DEF LinesMatch
    <2>6. \A i \in 1 .. n + 1 : i \in 1 .. n \/ i = n + 1
      BY <1>1
    <2>7. \A i \in 1 .. n : i \in 1 .. n + 1
      BY <1>1
    <2> QED
      BY <1>1, <1>5, <2>2, <2>3, <2>4, <2>5, <2>6, <2>7 DEF LineMatches
  <1>6. CASE SameLine(cfg, e.addr, addr)
    <2> DEFINE line == d[Index(cfg, addr)]
    <2>1. line = IF Resident(cfg, c, e.addr) THEN TouchedLine(cfg, old, e.write)
                 ELSE FilledLine(cfg, e.addr, e.write)
      BY <1>2, <1>3, <1>6 DEF SameLine
    <2>2. line.valid /\ line.tag = Tag(cfg, e.addr)
      <3>1. CASE Resident(cfg, c, e.addr)
        BY <1>4, <2>1, <3>1 DEF Resident, TouchedLine, Line
      <3>2. CASE ~Resident(cfg, c, e.addr)
        BY <2>1, <3>2 DEF FilledLine
      <3> QED
        BY <3>1, <3>2
    <2>3. LastIn(cfg, m, n + 1, addr) /\ Tag(cfg, m[n + 1].addr) = line.tag
      BY <1>1, <1>6, <2>2 DEF LastIn
    <2>4. /\ Resident(cfg, c, e.addr) <=> PresentIn(cfg, l, n, e.addr)
          /\ EvictsDirty(cfg, c, e.addr) <=> UnsavedIn(cfg, l, n, e.addr)
      BY <1>1, ResidentIsPresent
    <2>5. line.dirty /\ cfg.writeBack <=> UnsavedIn(cfg, m, n + 1, addr)
      <3>1. UnsavedIn(cfg, m, n + 1, addr)
              <=> /\ cfg.writeBack
                  /\ \/ e.write
                     \/ Resident(cfg, c, e.addr) /\ EvictsDirty(cfg, c, e.addr)
        BY <1>6, <2>4, UnsavedAfter
      <3>2. CASE Resident(cfg, c, e.addr)
        <4>1. line.dirty = (old.dirty \/ (e.write /\ cfg.writeBack)) /\ old.valid
          BY <1>4, <2>1, <3>2 DEF Resident, TouchedLine, Line
        <4> QED
          BY <1>1, <1>4, <3>1, <3>2, <4>1 DEF EvictsDirty
      <3>3. CASE ~Resident(cfg, c, e.addr)
        <4>1. line.dirty = (e.write /\ cfg.writeBack)
          BY <2>1, <3>3 DEF FilledLine
        <4> QED
          BY <1>1, <1>4, <3>1, <3>3, <4>1
      <3> QED
        BY <3>2, <3>3
    <2>6. n + 1 \in 1 .. Len(m)
      BY <1>1
    <2> QED
      BY <1>1, <2>2, <2>3, <2>5, <2>6 DEF LineMatches
  <1> QED
    BY <1>5, <1>6

(* A cleared cache matches an empty log.                                   *)
LEMMA ResetMatches ==
    ASSUME NEW cfg \in CacheConfig
    PROVE  LinesMatch(cfg, ResetCache(cfg).lines, << >>)
  <1> SUFFICES ASSUME NEW addr \in Nat
               PROVE  LineMatches(cfg, ResetCache(cfg).lines, << >>, addr)
    BY DEF LinesMatch
  <1>1. ResetCache(cfg).lines[Index(cfg, addr)] = EmptyLine
    BY IndexInArray DEF ResetCache
  <1>2. ~EmptyLine.valid
    BY DEF EmptyLine
  <1>3. Len(<< >>) = 0 /\ 1 .. 0 = {}
    OBVIOUS
  <1> QED
    BY <1>1, <1>2, <1>3 DEF LineMatches, UnsavedIn

-----------------------------------------------------------------------------
(* The counters and the history *)

MissedIn(cfg, l) == {i \in 1 .. Len(l) : ~PresentIn(cfg, l, i - 1, l[i].addr)}
SavedIn(cfg, l) == {i \in MissedIn(cfg, l) : UnsavedIn(cfg, l, i - 1, l[i].addr)}

Tallied(cfg, l, s) ==
    /\ s.accesses = Len(l)
    /\ s.misses = Cardinality(MissedIn(cfg, l))
    /\ s.writebacks = Cardinality(SavedIn(cfg, l))

(* Only finitely many accesses can have missed.                            *)
LEMMA MissesAreFinite ==
    ASSUME NEW cfg, NEW l \in Seq(Entries)
    PROVE  /\ IsFiniteSet(MissedIn(cfg, l)) /\ Len(l) + 1 \notin MissedIn(cfg, l)
           /\ IsFiniteSet(SavedIn(cfg, l)) /\ Len(l) + 1 \notin SavedIn(cfg, l)
  <1>1. Len(l) \in Nat
    OBVIOUS
  <1>2. IsFiniteSet(1 .. Len(l))
    BY <1>1, FS_Interval
  <1>3. MissedIn(cfg, l) \subseteq 1 .. Len(l) /\ SavedIn(cfg, l) \subseteq MissedIn(cfg, l)
    BY DEF MissedIn, SavedIn
  <1>4. IsFiniteSet(MissedIn(cfg, l))
    BY <1>2, <1>3, FS_Subset
  <1>5. IsFiniteSet(SavedIn(cfg, l))
    BY <1>3, <1>4, FS_Subset
  <1>6. Len(l) + 1 \notin 1 .. Len(l)
    BY <1>1
  <1> QED
    BY <1>3, <1>4, <1>5, <1>6

(* A longer log has the misses it had, and its last access if that missed. *)
LEMMA MissesGrow ==
    ASSUME NEW cfg, NEW l \in Seq(Entries), NEW e \in Entries
    PROVE  /\ MissedIn(cfg, Append(l, e)) =
                 IF PresentIn(cfg, l, Len(l), e.addr) THEN MissedIn(cfg, l)
                 ELSE MissedIn(cfg, l) \cup {Len(l) + 1}
           /\ SavedIn(cfg, Append(l, e)) =
                 IF ~PresentIn(cfg, l, Len(l), e.addr) /\ UnsavedIn(cfg, l, Len(l), e.addr)
                 THEN SavedIn(cfg, l) \cup {Len(l) + 1}
                 ELSE SavedIn(cfg, l)
  <1> DEFINE n == Len(l)
             m == Append(l, e)
  <1>1. /\ n \in Nat /\ Len(m) = n + 1
        /\ \A i \in 1 .. n : m[i] = l[i]
        /\ m[n + 1] = e
    BY LongerLog
  <1>2. \A i \in 1 .. n + 1 : i \in 1 .. n \/ i = n + 1
    BY <1>1
  <1>3. \A i \in 1 .. n : i - 1 \in 0 .. n /\ i \in 1 .. n + 1 /\ i # n + 1
    BY <1>1
  <1>4. n \in 0 .. n /\ (n + 1) - 1 = n /\ n + 1 \in 1 .. n + 1
    BY <1>1
  <1>5. \A i \in 1 .. n : /\ PresentIn(cfg, m, i - 1, m[i].addr)
                                <=> PresentIn(cfg, l, i - 1, l[i].addr)
                          /\ UnsavedIn(cfg, m, i - 1, m[i].addr)
                                <=> UnsavedIn(cfg, l, i - 1, l[i].addr)
    <2> SUFFICES ASSUME NEW i \in 1 .. n
                 PROVE  /\ PresentIn(cfg, m, i - 1, m[i].addr)
                                <=> PresentIn(cfg, l, i - 1, l[i].addr)
                        /\ UnsavedIn(cfg, m, i - 1, m[i].addr)
                                <=> UnsavedIn(cfg, l, i - 1, l[i].addr)
      OBVIOUS
    <2>1. m[i] = l[i] /\ i - 1 \in 0 .. n
      BY <1>1, <1>3
    <2>2. PICK p \in 0 .. n : p = i - 1
      BY <2>1
    <2>3. PICK a : a = l[i].addr
      OBVIOUS
    <2>4. /\ PresentIn(cfg, m, p, a) <=> PresentIn(cfg, l, p, a)
          /\ UnsavedIn(cfg, m, p, a) <=> UnsavedIn(cfg, l, p, a)
      BY PastIsFixed
    <2> QED
      BY <2>1, <2>2, <2>3, <2>4
  <1>6. /\ PresentIn(cfg, m, n, e.addr) <=> PresentIn(cfg, l, n, e.addr)
        /\ UnsavedIn(cfg, m, n, e.addr) <=> UnsavedIn(cfg, l, n, e.addr)
    <2>1. PICK p \in 0 .. n : p = n
      BY <1>4
    <2>2. PICK a : a = e.addr
      OBVIOUS
    <2>3. /\ PresentIn(cfg, m, p, a) <=> PresentIn(cfg, l, p, a)
          /\ UnsavedIn(cfg, m, p, a) <=> UnsavedIn(cfg, l, p, a)
      BY PastIsFixed
    <2> QED
      BY <2>1, <2>2, <2>3
  <1>7. \A i : i \in MissedIn(cfg, m)
                 <=> i \in MissedIn(cfg, l) \/ (i = n + 1 /\ ~PresentIn(cfg, l, n, e.addr))
    BY <1>1, <1>2, <1>3, <1>4, <1>5, <1>6 DEF MissedIn
  <1>8. \A i : i \in SavedIn(cfg, m)
                 <=> \/ i \in SavedIn(cfg, l)
                     \/ /\ i = n + 1 /\ ~PresentIn(cfg, l, n, e.addr)
                        /\ UnsavedIn(cfg, l, n, e.addr)
    <2>1. \A i : i \in SavedIn(cfg, m)
                   <=> i \in MissedIn(cfg, m) /\ UnsavedIn(cfg, m, i - 1, m[i].addr)
      BY DEF SavedIn
    <2>2. \A i : i \in SavedIn(cfg, l)
                   <=> i \in MissedIn(cfg, l) /\ UnsavedIn(cfg, l, i - 1, l[i].addr)
      BY DEF SavedIn
    <2>3. \A i : i \in MissedIn(cfg, l) => i \in 1 .. n
      BY DEF MissedIn
    <2>4. UnsavedIn(cfg, m, (n + 1) - 1, m[n + 1].addr) <=> UnsavedIn(cfg, l, n, e.addr)
      BY <1>1, <1>4, <1>6
    <2> HIDE DEF n, m
    <2> QED
      BY <1>3, <1>5, <1>7, <2>1, <2>2, <2>3, <2>4
  <1> QED
    <2>1. CASE PresentIn(cfg, l, n, e.addr)
      BY <1>7, <1>8, <2>1
    <2>2. CASE ~PresentIn(cfg, l, n, e.addr) /\ UnsavedIn(cfg, l, n, e.addr)
      BY <1>7, <1>8, <2>2
    <2>3. CASE ~PresentIn(cfg, l, n, e.addr) /\ ~UnsavedIn(cfg, l, n, e.addr)
      BY <1>7, <1>8, <2>3
    <2> QED
      BY <2>1, <2>2, <2>3

(* access() counts what the history of accesses says happened.             *)
LEMMA AccessKeepsTally ==
    ASSUME NEW cfg \in CacheConfig, cfg.enabled, NEW c \in CacheType(cfg),
           NEW l \in Seq(Entries), LinesMatch(cfg, c.lines, l),
           Tallied(cfg, l, c.stats), NEW e \in Entries
    PROVE  Tallied(cfg, Append(l, e), AfterAccess(cfg, c, e.addr, e.write).stats)
  <1> DEFINE n == Len(l)
             m == Append(l, e)
             s == c.stats
             r == AfterAccess(cfg, c, e.addr, e.write).stats
  <1>1. n \in Nat /\ Len(m) = n + 1 /\ e.addr \in Nat
    BY LongerLog
  <1>2. /\ Resident(cfg, c, e.addr) <=> PresentIn(cfg, l, n, e.addr)
        /\ EvictsDirty(cfg, c, e.addr) <=> UnsavedIn(cfg, l, n, e.addr)
    BY <1>1, ResidentIsPresent
  <1>3. /\ s.accesses = n
        /\ s.misses = Cardinality(MissedIn(cfg, l))
        /\ s.writebacks = Cardinality(SavedIn(cfg, l))
        /\ s.misses \in Nat /\ s.writebacks \in Nat
    BY DEF Tallied, CacheType, CacheStats
  <1>4. /\ IsFiniteSet(MissedIn(cfg, l)) /\ n + 1 \notin MissedIn(cfg, l)
        /\ IsFiniteSet(SavedIn(cfg, l)) /\ n + 1 \notin SavedIn(cfg, l)
    BY MissesAreFinite
  <1>5. /\ Cardinality(MissedIn(cfg, l) \cup {n + 1}) = s.misses + 1
        /\ Cardinality(SavedIn(cfg, l) \cup {n + 1}) = s.writebacks + 1
    <2>1. Cardinality(MissedIn(cfg, l) \cup {n + 1}) = Cardinality(MissedIn(cfg, l)) + 1
      BY <1>4, FS_AddElement
    <2>2. Cardinality(SavedIn(cfg, l) \cup {n + 1}) = Cardinality(SavedIn(cfg, l)) + 1
      BY <1>4, FS_AddElement
    <2> QED
      BY <1>3, <2>1, <2>2
  <1>6. CASE Resident(cfg, c, e.addr)
    <2>1. r = HitStats(s)
      BY <1>6 DEF AfterAccess
    <2>2. r.accesses = s.accesses + 1 /\ r.misses = s.misses /\ r.writebacks = s.writebacks
      BY <2>1 DEF HitStats
    <2>3. MissedIn(cfg, m) = MissedIn(cfg, l) /\ SavedIn(cfg, m) = SavedIn(cfg, l)
      BY <1>2, <1>6, MissesGrow
    <2> QED
      BY <1>1, <1>3, <2>2, <2>3 DEF Tallied
  <1>7. CASE ~Resident(cfg, c, e.addr)
    <2>1. r = MissStats(s, AccessStall(cfg, c, e.addr), EvictsDirty(cfg, c, e.addr))
      BY <1>7 DEF AfterAccess
    <2>2. MissedIn(cfg, m) = MissedIn(cfg, l) \cup {n + 1}
      BY <1>2, <1>7, MissesGrow
    <2>3. CASE EvictsDirty(cfg, c, e.addr)
      <3>1. /\ r.accesses = s.accesses + 1 /\ r.misses = s.misses + 1
            /\ r.writebacks = s.writebacks + 1
        BY <2>1, <2>3 DEF MissStats
      <3>2. SavedIn(cfg, m) = SavedIn(cfg, l) \cup {n + 1}
        BY <1>2, <1>7, <2>3, MissesGrow
      <3> QED
        BY <1>1, <1>3, <1>5, <2>2, <3>1, <3>2 DEF Tallied
    <2>4. CASE ~EvictsDirty(cfg, c, e.addr)
      <3>1. /\ r.accesses = s.accesses + 1 /\ r.misses = s.misses + 1
            /\ r.writebacks = s.writebacks
        BY <1>3, <2>1, <2>4 DEF MissStats
      <3>2. SavedIn(cfg, m) = SavedIn(cfg, l)
        BY <1>2, <1>7, <2>4, MissesGrow
      <3> QED
        BY <1>1, <1>3, <1>5, <2>2, <3>1, <3>2 DEF Tallied
    <2> QED
      BY <2>3, <2>4
  <1> QED
    BY <1>6, <1>7

(* Cleared counters are those of an empty log.                             *)
LEMMA NothingTallied ==
    ASSUME NEW cfg
    PROVE  Tallied(cfg, << >>, ZeroCacheStats)
  <1>1. Len(<< >>) = 0 /\ 1 .. 0 = {}
    OBVIOUS
  <1>2. MissedIn(cfg, << >>) = {} /\ SavedIn(cfg, << >>) = {}
    BY <1>1 DEF MissedIn, SavedIn
  <1>3. Cardinality({}) = 0
    BY FS_EmptySet
  <1> QED
    BY <1>1, <1>2, <1>3 DEF Tallied, ZeroCacheStats

-----------------------------------------------------------------------------
(* The cache implements its history *)

(* The definitions CacheHistory makes of the log in force.                 *)
LEMMA HistoryOfLog ==
    ASSUME NEW n, NEW addr
    PROVE  /\ History!Present(n, addr) <=> PresentIn(config, log, n, addr)
           /\ History!Unsaved(n, addr) <=> UnsavedIn(config, log, n, addr)
           /\ History!CleanMissPenalty(config) = CleanMissPenalty(config)
           /\ History!DirtyMissPenalty(config) = DirtyMissPenalty(config)
  <1>1. \A a, b : /\ History!WordAddr(a) = WordAddr(a)
                  /\ History!Index(config, a) = Index(config, a)
    BY DEF History!WordAddr, WordAddr, History!Index, Index, History!LineBytes, LineBytes
  <1>2. \A i, a : /\ History!Conflicts(i, a) <=> SameLine(config, log[i].addr, a)
                  /\ History!SameWord(i, a) <=> WordAddr(log[i].addr) = WordAddr(a)
    BY <1>1 DEF History!Conflicts, History!SameWord, SameLine
  <1>3. History!Present(n, addr) <=> PresentIn(config, log, n, addr)
    BY <1>2 DEF History!Present, PresentIn
  <1>4. History!Unsaved(n, addr) <=> UnsavedIn(config, log, n, addr)
    BY <1>2 DEF History!Unsaved, UnsavedIn, UnsavedBy
  <1>5. /\ History!CleanMissPenalty(config) = CleanMissPenalty(config)
        /\ History!DirtyMissPenalty(config) = DirtyMissPenalty(config)
    BY DEF History!CleanMissPenalty, CleanMissPenalty,
           History!DirtyMissPenalty, DirtyMissPenalty
  <1> QED
    BY <1>3, <1>4, <1>5

(* configure() accepts and keeps the same configurations in both.          *)
LEMMA HistoryOfConfig ==
    ASSUME NEW raw
    PROVE  /\ History!Acceptable(raw) <=> Acceptable(raw)
           /\ History!Accepted(raw) = Accepted(raw)
  BY DEF History!Acceptable, Acceptable, History!IsPowerOfTwo, IsPowerOfTwo,
         History!LineBytes, LineBytes, History!Accepted, Accepted

(* Both count with the same operator.                                      *)
LEMMA CardinalityOfHistory ==
    ASSUME NEW S
    PROVE  History!Cardinality(S) = Cardinality(S)
  BY DEF History!Cardinality, Cardinality

(* What ties the line array and the counters to the log.                   *)
Remembers ==
    /\ IInv
    /\ LinesMatch(config, cache.lines, log)
    /\ Tallied(config, log, cache.stats)

(* Counters that tally with the log and balance are the ones the log       *)
(* defines.                                                                *)
LEMMA StatsAreTotals == Remembers => cache.stats = History!Totals
  <1> SUFFICES ASSUME Remembers PROVE cache.stats = History!Totals
    OBVIOUS
  <1> DEFINE s == cache.stats
             n == Len(log)
             missed == {i \in 1 .. n : ~History!Present(i - 1, log[i].addr)}
             saved == {i \in missed : History!Unsaved(i - 1, log[i].addr)}
  <1>1. missed = MissedIn(config, log)
    BY HistoryOfLog DEF MissedIn
  <1>2. saved = SavedIn(config, log)
    BY <1>1, HistoryOfLog DEF SavedIn
  <1>3. s \in CacheStats
    BY DEF Remembers, IInv, TypeOK, CacheType
  <1>4. /\ s.accesses = n /\ s.misses = Cardinality(missed)
        /\ s.writebacks = Cardinality(saved)
    BY <1>1, <1>2 DEF Remembers, Tallied
  <1>5. /\ s.accesses = s.hits + s.misses /\ s.reads = s.misses
        /\ s.writes = s.writebacks
        /\ s.stall = (s.misses - s.writebacks) * CleanMissPenalty(config)
                     + s.writebacks * DirtyMissPenalty(config)
    BY DEF Remembers, IInv, Balanced
  <1>6. s.hits = s.accesses - s.misses
    BY <1>3, <1>5 DEF CacheStats
  <1>7. s = [accesses |-> s.accesses, hits |-> s.hits, misses |-> s.misses,
             writebacks |-> s.writebacks, reads |-> s.reads, writes |-> s.writes,
             stall |-> s.stall]
    BY <1>3 DEF CacheStats
  <1>8. History!Totals =
           [accesses |-> n, hits |-> n - Cardinality(missed),
            misses |-> Cardinality(missed), writebacks |-> Cardinality(saved),
            reads |-> Cardinality(missed), writes |-> Cardinality(saved),
            stall |-> (Cardinality(missed) - Cardinality(saved))
                         * History!CleanMissPenalty(config)
                      + Cardinality(saved) * History!DirtyMissPenalty(config)]
    BY CardinalityOfHistory DEF History!Totals
  <1>9. /\ History!CleanMissPenalty(config) = CleanMissPenalty(config)
        /\ History!DirtyMissPenalty(config) = DirtyMissPenalty(config)
    BY HistoryOfLog
  <1>10. s = History!Totals
    <2> HIDE DEF missed, saved, s, n
    <2>1. s.stall = (Cardinality(missed) - Cardinality(saved))
                       * History!CleanMissPenalty(config)
                    + Cardinality(saved) * History!DirtyMissPenalty(config)
      BY <1>4, <1>5, <1>9, Zenon
    <2>2. /\ s.hits = n - Cardinality(missed)
          /\ s.reads = Cardinality(missed) /\ s.writes = Cardinality(saved)
      BY <1>4, <1>5, <1>6
    <2> QED
      BY <1>4, <1>7, <1>8, <2>1, <2>2, Zenon
  <1> QED
    BY <1>10

(* They are so after a step as well.                                       *)
LEMMA NextStatsAreTotals == Remembers' => (cache.stats = History!Totals)'
  BY StatsAreTotals, PTL

(* A cleared cache remembers the empty log.                                *)
LEMMA ResetRemembers ==
    ASSUME NEW cfg \in CacheConfig
    PROVE  /\ LinesMatch(cfg, ResetCache(cfg).lines, << >>)
           /\ Tallied(cfg, << >>, ResetCache(cfg).stats)
  BY ResetMatches, NothingTallied, ResetCacheType

(* The constructor starts with an empty log.                               *)
LEMMA InitRemembers == Init => Remembers
  <1> SUFFICES ASSUME Init PROVE Remembers
    OBVIOUS
  <1>1. IInv
    BY InitIInv
  <1>2. config \in CacheConfig /\ cache = ResetCache(config) /\ log = << >>
    BY <1>1 DEF Init, IInv, TypeOK
  <1> QED
    BY <1>1, <1>2, ResetRemembers DEF Remembers

(* Every call keeps the lines and the counters in step with the log.       *)
LEMMA NextRemembers == Remembers /\ [Next]_vars => Remembers'
  <1> SUFFICES ASSUME Remembers, [Next]_vars PROVE Remembers'
    OBVIOUS
  <1>1. IInv'
    BY NextKeepsIInv DEF Remembers
  <1>2. TypeOK
    BY DEF Remembers, IInv
  <1>3. ASSUME NEW addr \in Addrs, NEW isWrite \in BOOLEAN, Access(addr, isWrite)
        PROVE  /\ LinesMatch(config', cache'.lines, log')
               /\ Tallied(config', log', cache'.stats)
    <2>1. /\ cache' = AfterAccess(config, cache, addr, isWrite)
          /\ config' = config
          /\ log' = IF config.enabled
                    THEN Append(log, [addr |-> addr, write |-> isWrite]) ELSE log
      BY <1>3 DEF Access
    <2>2. CASE ~config.enabled
      <3>1. cache' = cache /\ log' = log
        BY <2>1, <2>2 DEF AfterAccess
      <3> QED
        BY <2>1, <3>1 DEF Remembers
    <2>3. CASE config.enabled
      <3>1. PICK e \in Entries : e = [addr |-> addr, write |-> isWrite]
        BY DEF Entries
      <3>2. cache' = AfterAccess(config, cache, e.addr, e.write) /\ log' = Append(log, e)
        BY <2>1, <2>3, <3>1
      <3>3. /\ config \in CacheConfig /\ cache \in CacheType(config)
            /\ log \in Seq(Entries)
        BY <1>2 DEF TypeOK, Entries
      <3>4. LinesMatch(config, AfterAccess(config, cache, e.addr, e.write).lines,
                       Append(log, e))
        BY <2>3, <3>3, AccessKeepsLines DEF Remembers
      <3>5. Tallied(config, Append(log, e),
                    AfterAccess(config, cache, e.addr, e.write).stats)
        BY <2>3, <3>3, AccessKeepsTally DEF Remembers
      <3> QED
        BY <2>1, <3>2, <3>4, <3>5
    <2> QED
      BY <2>2, <2>3
  <1>4. ASSUME config' \in CacheConfig, cache' = ResetCache(config'), log' = << >>
        PROVE  /\ LinesMatch(config', cache'.lines, log')
               /\ Tallied(config', log', cache'.stats)
    BY <1>4, ResetRemembers
  <1>5. CASE Reset
    <2>1. config' \in CacheConfig /\ cache' = ResetCache(config') /\ log' = << >>
      BY <1>2, <1>5 DEF Reset, TypeOK, ResetCache
    <2> QED
      BY <1>1, <1>4, <2>1 DEF Remembers
  <1>6. ASSUME NEW raw \in RawConfigs, Configure(raw)
        PROVE  Remembers'
    <2>1. config' \in CacheConfig /\ cache' = ResetCache(config') /\ log' = << >>
      BY <1>6, AcceptedIsConfig DEF Configure, ResetCache
    <2> QED
      BY <1>1, <1>4, <2>1 DEF Remembers
  <1>7. CASE (\E raw \in RawConfigs : ConfigureRejected(raw)) \/ UNCHANGED vars
    <2>1. config' = config /\ cache' = cache /\ log' = log
      BY <1>7 DEF ConfigureRejected, vars
    <2> QED
      BY <1>1, <2>1 DEF Remembers
  <1>8. ASSUME NEW addr \in Addrs, NEW isWrite \in BOOLEAN, Access(addr, isWrite)
        PROVE  Remembers'
    BY <1>1, <1>3, <1>8 DEF Remembers
  <1> QED
    BY <1>5, <1>6, <1>7, <1>8 DEF Next

(* The state the constructor leaves is one the history starts in.          *)
LEMMA InitImplements == Init => History!Init
  <1> SUFFICES ASSUME Init PROVE History!Init
    OBVIOUS
  <1>1. cache.stats = History!Totals
    BY InitRemembers, StatsAreTotals
  <1>2. PICK raw \in RawConfigs : Acceptable(raw) /\ config = Accepted(raw)
    BY DEF Init
  <1>3. config \in History!AcceptedConfigs
    BY <1>2, HistoryOfConfig DEF History!AcceptedConfigs
  <1> QED
    BY <1>1, <1>3 DEF Init, History!Init

(* Every call answers, and counts, what the history says.                  *)
LEMMA StepImplements ==
    Remembers /\ Remembers' /\ [Next]_vars => [History!Next]_(History!vars)
  <1> SUFFICES ASSUME Remembers, Remembers', [Next]_vars
               PROVE  [History!Next]_(History!vars)
    OBVIOUS
  <1>1. cache'.stats = History!Totals'
    BY NextStatsAreTotals
  <1>2. ASSUME NEW addr \in Addrs, NEW isWrite \in BOOLEAN, Access(addr, isWrite)
        PROVE  History!Next
    <2>1. addr \in Nat /\ config \in CacheConfig /\ cache \in CacheType(config)
          /\ log \in Seq(Entries)
      BY CacheAssumption DEF CacheAssumption, Remembers, IInv, TypeOK, Entries
    <2>2. /\ Resident(config, cache, addr) <=> History!Present(Len(log), addr)
          /\ EvictsDirty(config, cache, addr) <=> History!Unsaved(Len(log), addr)
      <3>1. /\ Resident(config, cache, addr) <=> PresentIn(config, log, Len(log), addr)
            /\ EvictsDirty(config, cache, addr) <=> UnsavedIn(config, log, Len(log), addr)
        BY <2>1, ResidentIsPresent DEF Remembers
      <3> QED
        BY <3>1, HistoryOfLog
    <2>3. ret' = History!Answer(Len(log), addr)
      <3> DEFINE hit == config.enabled => History!Present(Len(log), addr)
                 writeback == ~hit /\ History!Unsaved(Len(log), addr)
      <3>1. WouldHit(config, cache, addr) = hit
        BY <2>2 DEF WouldHit
      <3>2. (~WouldHit(config, cache, addr) /\ EvictsDirty(config, cache, addr))
               = writeback
        BY <2>2, <3>1
      <3>3. AccessStall(config, cache, addr) =
               IF hit THEN 0 ELSE IF writeback THEN History!DirtyMissPenalty(config)
                             ELSE History!CleanMissPenalty(config)
        BY <2>2, <3>1, HistoryOfLog DEF AccessStall
      <3>4. ret' = [call |-> "access",
                    hit |-> WouldHit(config, cache, addr),
                    miss |-> ~WouldHit(config, cache, addr),
                    writeback |-> ~WouldHit(config, cache, addr)
                                     /\ EvictsDirty(config, cache, addr),
                    stall |-> AccessStall(config, cache, addr)]
        BY <1>2 DEF Access, AccessResult
      <3>5. History!Answer(Len(log), addr) =
               [call |-> "access", hit |-> hit, miss |-> ~hit, writeback |-> writeback,
                stall |-> IF hit THEN 0
                          ELSE IF writeback THEN History!DirtyMissPenalty(config)
                          ELSE History!CleanMissPenalty(config)]
        BY DEF History!Answer
      <3> HIDE DEF hit, writeback
      <3> QED
        BY <3>1, <3>2, <3>3, <3>4, <3>5
    <2>4. History!Access(addr, isWrite)
      BY <1>1, <1>2, <2>3 DEF Access, History!Access
    <2> QED
      BY <2>4 DEF History!Next
  <1>3. CASE Reset
    BY <1>1, <1>3 DEF Reset, History!Reset, History!Forget, History!Next
  <1>4. ASSUME NEW raw \in RawConfigs, Configure(raw) \/ ConfigureRejected(raw)
        PROVE  History!Next
    <2>1. CASE Configure(raw)
      BY <1>1, <1>4, <2>1, HistoryOfConfig
         DEF Configure, History!Configure, History!Forget, History!Next
    <2>2. CASE ConfigureRejected(raw)
      BY <1>4, <2>2, HistoryOfConfig DEF ConfigureRejected, History!Configure, History!Next
    <2> QED
      BY <1>4, <2>1, <2>2
  <1>5. CASE UNCHANGED vars
    BY <1>5 DEF vars, History!vars
  <1> QED
    BY <1>2, <1>3, <1>4, <1>5 DEF Next

(* However it is driven, the cache answers every access and counts every   *)
(* event as the history of accesses defines, without lines or dirty bits.  *)
THEOREM CacheImplementsHistory == Spec => ImplementsHistory
  BY InitRemembers, NextRemembers, InitImplements, StepImplements, PTL
     DEF Spec, ImplementsHistory, History!Spec

-----------------------------------------------------------------------------
(* Unsaved data *)

DirtyIn(lines) == {i \in DOMAIN lines : lines[i].valid /\ lines[i].dirty}
DirtyingIn(cfg, l) ==
    {i \in 1 .. Len(l) : /\ l[i].write
                        /\ ~(/\ PresentIn(cfg, l, i - 1, l[i].addr)
                             /\ UnsavedIn(cfg, l, i - 1, l[i].addr))}

(* DirtyDataAccounted of any cache and log.                                *)
DataAccounted(cfg, c, l) ==
    /\ \A i \in DOMAIN c.lines :
          c.lines[i].dirty => c.lines[i].valid /\ cfg.writeBack
    /\ c.stats.writebacks + Cardinality(DirtyIn(c.lines)) =
          IF cfg.writeBack THEN Cardinality(DirtyingIn(cfg, l)) ELSE 0

(* One more access is one more such write, unless it only reads or finds   *)
(* its word already dirty.                                                 *)
LEMMA DirtyingGrows ==
    ASSUME NEW cfg, NEW l \in Seq(Entries), NEW e \in Entries
    PROVE  /\ Cardinality(DirtyingIn(cfg, l)) \in Nat
           /\ Cardinality(DirtyingIn(cfg, Append(l, e))) =
                 Cardinality(DirtyingIn(cfg, l))
                 + (IF /\ e.write
                       /\ ~(/\ PresentIn(cfg, l, Len(l), e.addr)
                            /\ UnsavedIn(cfg, l, Len(l), e.addr))
                    THEN 1 ELSE 0)
  <1> DEFINE n == Len(l)
             m == Append(l, e)
             S == DirtyingIn(cfg, l)
             fresh == /\ e.write
                      /\ ~(PresentIn(cfg, l, n, e.addr) /\ UnsavedIn(cfg, l, n, e.addr))
  <1>1. /\ n \in Nat /\ Len(m) = n + 1
        /\ \A i \in 1 .. n : m[i] = l[i]
        /\ m[n + 1] = e
    BY LongerLog
  <1>2. \A i \in 1 .. n + 1 : i \in 1 .. n \/ i = n + 1
    BY <1>1
  <1>3. /\ n + 1 \in 1 .. n + 1 /\ n + 1 \notin 1 .. n /\ (n + 1) - 1 = n /\ n \in 0 .. n
        /\ \A i \in 1 .. n : i \in 1 .. n + 1 /\ i - 1 \in 0 .. n
    BY <1>1
  <1>4. \A p \in 0 .. n : \A a :
           /\ PresentIn(cfg, m, p, a) <=> PresentIn(cfg, l, p, a)
           /\ UnsavedIn(cfg, m, p, a) <=> UnsavedIn(cfg, l, p, a)
    BY PastIsFixed
  <1>5. \A i \in 1 .. n : i \in DirtyingIn(cfg, m) <=> i \in S
    <2> SUFFICES ASSUME NEW i \in 1 .. n PROVE i \in DirtyingIn(cfg, m) <=> i \in S
      OBVIOUS
    <2>1. m[i] = l[i] /\ i \in 1 .. Len(m) /\ i - 1 \in 0 .. n
      BY <1>1, <1>3
    <2>2. /\ PresentIn(cfg, m, i - 1, l[i].addr) <=> PresentIn(cfg, l, i - 1, l[i].addr)
          /\ UnsavedIn(cfg, m, i - 1, l[i].addr) <=> UnsavedIn(cfg, l, i - 1, l[i].addr)
      BY <1>4, <2>1
    <2> QED
      BY <2>1, <2>2 DEF DirtyingIn
  <1>6. n + 1 \in DirtyingIn(cfg, m) <=> fresh
    <2>1. /\ PresentIn(cfg, m, n, e.addr) <=> PresentIn(cfg, l, n, e.addr)
          /\ UnsavedIn(cfg, m, n, e.addr) <=> UnsavedIn(cfg, l, n, e.addr)
      BY <1>3, <1>4
    <2>2. n + 1 \in DirtyingIn(cfg, m)
             <=> /\ m[n + 1].write
                 /\ ~(/\ PresentIn(cfg, m, (n + 1) - 1, m[n + 1].addr)
                      /\ UnsavedIn(cfg, m, (n + 1) - 1, m[n + 1].addr))
      BY <1>1, <1>3 DEF DirtyingIn
    <2> QED
      BY <1>1, <1>3, <2>1, <2>2
  <1>7. /\ S \subseteq 1 .. n /\ DirtyingIn(cfg, m) \subseteq 1 .. n + 1
        /\ IsFiniteSet(S) /\ n + 1 \notin S
    <2>1. S \subseteq 1 .. n /\ DirtyingIn(cfg, m) \subseteq 1 .. n + 1
      BY <1>1 DEF DirtyingIn
    <2>2. IsFiniteSet(1 .. n)
      <3>1. n \in Int /\ 1 \in Int
        BY <1>1
      <3> HIDE DEF n
      <3> QED
        BY <3>1, FS_Interval
    <2> QED
      BY <1>3, <2>1, <2>2, FS_Subset
  <1>8. DirtyingIn(cfg, m) = IF fresh THEN S \cup {n + 1} ELSE S
    <2> HIDE DEF S, m, fresh
    <2>1. \A i : i \in DirtyingIn(cfg, m) <=> i \in S \/ (i = n + 1 /\ fresh)
      BY <1>2, <1>3, <1>5, <1>6, <1>7
    <2>2. CASE fresh
      <3>1. DirtyingIn(cfg, m) = S \cup {n + 1}
        BY <2>1, <2>2
      <3> QED
        BY <2>2, <3>1
    <2>3. CASE ~fresh
      <3>1. DirtyingIn(cfg, m) = S
        BY <2>1, <2>3
      <3> QED
        BY <2>3, <3>1
    <2> QED
      BY <2>2, <2>3
  <1>9. Cardinality(S) \in Nat /\ Cardinality(S \cup {n + 1}) = Cardinality(S) + 1
    BY <1>7, FS_CardinalityType, FS_AddElement
  <1>10. Cardinality(DirtyingIn(cfg, m)) = Cardinality(S) + (IF fresh THEN 1 ELSE 0)
    <2> HIDE DEF S, m, fresh
    <2>1. CASE fresh
      <3>1. Cardinality(DirtyingIn(cfg, m)) = Cardinality(S \cup {n + 1})
        BY <1>8, <2>1, Zenon
      <3> QED
        BY <1>9, <2>1, <3>1
    <2>2. CASE ~fresh
      <3>1. Cardinality(DirtyingIn(cfg, m)) = Cardinality(S)
        BY <1>8, <2>2, Zenon
      <3> QED
        BY <1>9, <2>2, <3>1
    <2> QED
      BY <2>1, <2>2
  <1> QED
    BY <1>9, <1>10

(* A miss saves what its line held before it is replaced, and an access    *)
(* leaves its own line dirty if it wrote, or found it dirty with its word. *)
LEMMA AccessKeepsData ==
    ASSUME NEW cfg \in CacheConfig, cfg.enabled, NEW c \in CacheType(cfg),
           NEW l \in Seq(Entries), LinesMatch(cfg, c.lines, l),
           DataAccounted(cfg, c, l), NEW e \in Entries
    PROVE  DataAccounted(cfg, AfterAccess(cfg, c, e.addr, e.write), Append(l, e))
  <1> DEFINE x == Index(cfg, e.addr)
             D == DirtyIn(c.lines)
             d == AfterAccess(cfg, c, e.addr, e.write)
             old == c.lines[x]
             new == d.lines[x]
             dirties == e.write /\ cfg.writeBack
             kept == IF Resident(cfg, c, e.addr) THEN D ELSE D \ {x}
  <1>1. e.addr \in Nat /\ e.write \in BOOLEAN
    BY LongerLog
  <1>2. /\ c.lines \in [0 .. cfg.lines - 1 -> Line] /\ x \in 0 .. cfg.lines - 1
        /\ c.stats \in CacheStats
    BY <1>1, IndexInArray DEF CacheType
  <1>3. old \in Line /\ cfg.writeBack \in BOOLEAN /\ c.stats.writebacks \in Nat
    BY <1>2 DEF CacheConfig, CacheStats
  <1>4. /\ d.lines = [c.lines EXCEPT ![x] =
                         IF Resident(cfg, c, e.addr) THEN TouchedLine(cfg, old, e.write)
                         ELSE FilledLine(cfg, e.addr, e.write)]
        /\ d.stats = IF Resident(cfg, c, e.addr) THEN HitStats(c.stats)
                     ELSE MissStats(c.stats, AccessStall(cfg, c, e.addr),
                                    EvictsDirty(cfg, c, e.addr))
    BY DEF AfterAccess
  <1>5. /\ DOMAIN d.lines = DOMAIN c.lines /\ DOMAIN c.lines = 0 .. cfg.lines - 1
        /\ \A i \in DOMAIN c.lines : i # x => d.lines[i] = c.lines[i]
        /\ new = IF Resident(cfg, c, e.addr) THEN TouchedLine(cfg, old, e.write)
                 ELSE FilledLine(cfg, e.addr, e.write)
    BY <1>2, <1>4
  <1>6. /\ \A i \in DOMAIN c.lines :
              c.lines[i].dirty => c.lines[i].valid /\ cfg.writeBack
        /\ c.stats.writebacks + Cardinality(D) =
              IF cfg.writeBack THEN Cardinality(DirtyingIn(cfg, l)) ELSE 0
    BY DEF DataAccounted
  <1>7. /\ new.valid
        /\ new.dirty => cfg.writeBack
        /\ new.dirty <=> x \in kept \/ dirties
    <2>1. CASE Resident(cfg, c, e.addr)
      <3>1. old.valid /\ new.valid = old.valid /\ new.dirty = (old.dirty \/ dirties)
        BY <1>3, <1>5, <2>1 DEF Resident, TouchedLine, Line
      <3>2. x \in D <=> old.dirty
        BY <1>2, <1>5, <3>1 DEF DirtyIn
      <3> QED
        BY <1>2, <1>3, <1>5, <1>6, <2>1, <3>1, <3>2
    <2>2. CASE ~Resident(cfg, c, e.addr)
      <3>1. new.valid /\ new.dirty = dirties
        BY <1>5, <2>2 DEF FilledLine
      <3> QED
        BY <1>1, <1>3, <2>2, <3>1
    <2> QED
      BY <2>1, <2>2
  <1>8. DirtyIn(d.lines) = IF dirties THEN kept \cup {x} ELSE kept
    <2>1. kept \subseteq DOMAIN c.lines /\ x \in DOMAIN c.lines
      BY <1>2, <1>5 DEF DirtyIn
    <2>2. \A i \in DOMAIN c.lines : i # x => (i \in DirtyIn(d.lines) <=> i \in kept)
      BY <1>5 DEF DirtyIn
    <2>3. x \in DirtyIn(d.lines) <=> x \in kept \/ dirties
      BY <1>5, <1>7, <2>1 DEF DirtyIn
    <2>4. DirtyIn(d.lines) \subseteq DOMAIN c.lines
      BY <1>5 DEF DirtyIn
    <2> HIDE DEF kept, dirties, d, x
    <2>5. CASE dirties
      BY <2>1, <2>2, <2>3, <2>4, <2>5
    <2>6. CASE ~dirties
      <3>1. \A i : i \in DirtyIn(d.lines) <=> i \in kept
        BY <2>1, <2>2, <2>3, <2>4, <2>6
      <3>2. DirtyIn(d.lines) = kept
        BY <3>1
      <3> QED
        BY <2>6, <3>2
    <2> QED
      BY <2>5, <2>6
  <1>9. IsFiniteSet(D) /\ Cardinality(D) \in Nat
    <2>1. D \subseteq 0 .. cfg.lines - 1
      BY <1>5 DEF DirtyIn
    <2>2. IsFiniteSet(0 .. cfg.lines - 1)
      BY FS_Interval DEF CacheConfig
    <2>3. IsFiniteSet(D)
      BY <2>1, <2>2, FS_Subset
    <2> QED
      BY <2>3, FS_CardinalityType
  <1>10. /\ IsFiniteSet(kept) /\ Cardinality(kept) \in Nat
         /\ d.stats.writebacks + Cardinality(kept) = c.stats.writebacks + Cardinality(D)
         /\ d.stats.writebacks \in Nat
    <2>1. CASE Resident(cfg, c, e.addr)
      <3>1. d.stats.writebacks = c.stats.writebacks
        BY <1>4, <2>1 DEF HitStats
      <3> QED
        BY <1>3, <1>9, <2>1, <3>1
    <2>2. CASE ~Resident(cfg, c, e.addr) /\ x \in D
      <3>1. EvictsDirty(cfg, c, e.addr)
        BY <1>6, <2>2 DEF DirtyIn, EvictsDirty
      <3>2. d.stats.writebacks = c.stats.writebacks + 1
        BY <1>4, <2>2, <3>1 DEF MissStats
      <3>3. IsFiniteSet(D \ {x}) /\ Cardinality(D \ {x}) = Cardinality(D) - 1
        BY <1>9, <2>2, FS_RemoveElement
      <3>4. Cardinality(D \ {x}) \in Nat
        BY <3>3, FS_CardinalityType
      <3> QED
        BY <1>3, <1>9, <2>2, <3>2, <3>3, <3>4
    <2>3. CASE ~Resident(cfg, c, e.addr) /\ x \notin D
      <3>1. ~EvictsDirty(cfg, c, e.addr)
        BY <1>2, <1>5, <2>3 DEF DirtyIn, EvictsDirty
      <3>2. d.stats.writebacks = c.stats.writebacks
        BY <1>3, <1>4, <2>3, <3>1 DEF MissStats
      <3>3. D \ {x} = D
        BY <2>3
      <3> QED
        BY <1>3, <1>9, <2>3, <3>2, <3>3
    <2> QED
      BY <2>1, <2>2, <2>3
  <1>11. cfg.writeBack =>
            (x \in kept <=> /\ PresentIn(cfg, l, Len(l), e.addr)
                            /\ UnsavedIn(cfg, l, Len(l), e.addr))
    <2>1. /\ Resident(cfg, c, e.addr) <=> PresentIn(cfg, l, Len(l), e.addr)
          /\ EvictsDirty(cfg, c, e.addr) <=> UnsavedIn(cfg, l, Len(l), e.addr)
      BY <1>1, ResidentIsPresent
    <2>2. cfg.writeBack => (x \in D <=> EvictsDirty(cfg, c, e.addr))
      BY <1>2, <1>5 DEF DirtyIn, EvictsDirty
    <2> QED
      BY <2>1, <2>2
  <1>12. Cardinality(DirtyIn(d.lines)) =
            Cardinality(kept) + (IF dirties /\ x \notin kept THEN 1 ELSE 0)
    <2> HIDE DEF kept, x, dirties, d
    <2>1. CASE dirties /\ x \notin kept
      <3>1. Cardinality(DirtyIn(d.lines)) = Cardinality(kept \cup {x})
        BY <1>8, <2>1, Zenon
      <3>2. Cardinality(kept \cup {x}) = Cardinality(kept) + 1
        BY <1>10, <2>1, FS_AddElement
      <3> QED
        BY <1>10, <2>1, <3>1, <3>2
    <2>2. CASE ~(dirties /\ x \notin kept)
      <3>1. DirtyIn(d.lines) = kept
        BY <1>8, <2>2
      <3>2. Cardinality(DirtyIn(d.lines)) = Cardinality(kept)
        BY <3>1, Zenon
      <3> QED
        BY <1>10, <2>2, <3>2
    <2> QED
      BY <2>1, <2>2
  <1>13. d.stats.writebacks + Cardinality(DirtyIn(d.lines)) =
            IF cfg.writeBack THEN Cardinality(DirtyingIn(cfg, Append(l, e))) ELSE 0
    <2> DEFINE known == /\ PresentIn(cfg, l, Len(l), e.addr)
                        /\ UnsavedIn(cfg, l, Len(l), e.addr)
    <2>1. /\ Cardinality(DirtyingIn(cfg, l)) \in Nat
          /\ Cardinality(DirtyingIn(cfg, Append(l, e))) =
                Cardinality(DirtyingIn(cfg, l)) + (IF e.write /\ ~known THEN 1 ELSE 0)
      BY DirtyingGrows
    <2>2. /\ dirties = (e.write /\ cfg.writeBack)
          /\ cfg.writeBack => (x \in kept <=> known)
      BY <1>11
    <2> HIDE DEF kept, x, d, D, dirties, known
    <2>3. CASE cfg.writeBack
      <3>1. dirties /\ x \notin kept <=> e.write /\ ~known
        BY <1>1, <1>3, <2>2, <2>3
      <3>2. d.stats.writebacks + Cardinality(kept) = Cardinality(DirtyingIn(cfg, l))
        BY <1>6, <1>10, <2>3
      <3>3. d.stats.writebacks + Cardinality(DirtyIn(d.lines)) =
               Cardinality(DirtyingIn(cfg, Append(l, e)))
        <4>1. CASE e.write /\ ~known
          <5>1. Cardinality(DirtyIn(d.lines)) = Cardinality(kept) + 1
            BY <1>12, <3>1, <4>1
          <5>2. Cardinality(DirtyingIn(cfg, Append(l, e))) =
                   Cardinality(DirtyingIn(cfg, l)) + 1
            BY <2>1, <4>1
          <5>3. PICK now, saved, writes \in Nat :
                   /\ now = Cardinality(kept) /\ saved = d.stats.writebacks
                   /\ writes = Cardinality(DirtyingIn(cfg, l)) /\ saved + now = writes
            BY <1>10, <2>1, <3>2
          <5>4. saved + (now + 1) = writes + 1
            BY <5>3
          <5> QED
            BY <5>1, <5>2, <5>3, <5>4, Zenon
        <4>2. CASE ~(e.write /\ ~known)
          <5>1. Cardinality(DirtyIn(d.lines)) = Cardinality(kept) + 0
            BY <1>12, <3>1, <4>2
          <5>2. Cardinality(DirtyingIn(cfg, Append(l, e))) =
                   Cardinality(DirtyingIn(cfg, l)) + 0
            BY <2>1, <4>2
          <5> QED
            BY <1>10, <2>1, <3>2, <5>1, <5>2
        <4> QED
          BY <4>1, <4>2
      <3> QED
        BY <2>3, <3>3
    <2>4. CASE ~cfg.writeBack
      <3>1. ~dirties
        BY <1>1, <1>3, <2>2, <2>4
      <3>2. Cardinality(DirtyIn(d.lines)) = Cardinality(kept) + 0
        BY <1>12, <3>1
      <3>3. d.stats.writebacks + Cardinality(kept) = 0
        BY <1>6, <1>10, <2>4
      <3> QED
        BY <1>10, <2>4, <3>2, <3>3
    <2> QED
      BY <1>3, <2>3, <2>4
  <1>14. \A i \in DOMAIN d.lines : d.lines[i].dirty => d.lines[i].valid /\ cfg.writeBack
    BY <1>5, <1>6, <1>7
  <1> QED
    BY <1>13, <1>14 DEF DataAccounted

(* A cleared cache holds no data.                                          *)
LEMMA ResetAccounts ==
    ASSUME NEW cfg \in CacheConfig
    PROVE  DataAccounted(cfg, ResetCache(cfg), << >>)
  <1> DEFINE c == ResetCache(cfg)
  <1>1. \A i \in DOMAIN c.lines : c.lines[i] = EmptyLine
    BY DEF ResetCache
  <1>2. DirtyIn(c.lines) = {}
    BY <1>1 DEF DirtyIn, EmptyLine
  <1>3. DirtyingIn(cfg, << >>) = {}
    BY DEF DirtyingIn
  <1>4. c.stats.writebacks = 0
    BY DEF ResetCache, ZeroCacheStats
  <1>5. Cardinality({}) = 0
    BY FS_EmptySet
  <1>6. c.stats.writebacks + Cardinality(DirtyIn(c.lines)) =
           IF cfg.writeBack THEN Cardinality(DirtyingIn(cfg, << >>)) ELSE 0
    <2>1. Cardinality(DirtyIn(c.lines)) = 0 /\ Cardinality(DirtyingIn(cfg, << >>)) = 0
      BY <1>2, <1>3, <1>5, Zenon
    <2> HIDE DEF c
    <2> QED
      BY <1>4, <2>1
  <1>7. \A i \in DOMAIN c.lines : ~c.lines[i].dirty
    BY <1>1 DEF EmptyLine
  <1> QED
    BY <1>6, <1>7 DEF DataAccounted

(* However the cache is driven, unsaved data is neither lost nor invented: *)
(* every write that put it into a write-back cache is still held by one    *)
(* dirty line or was written back once.                                    *)
THEOREM DirtyDataIsAccounted == Spec => []DirtyDataAccounted
  <1> DEFINE Inv == Remembers /\ DataAccounted(config, cache, log)
  <1>1. Init => Inv
    <2> SUFFICES ASSUME Init PROVE Inv
      OBVIOUS
    <2>1. Remembers
      BY InitRemembers
    <2>2. config \in CacheConfig /\ cache = ResetCache(config) /\ log = << >>
      BY <2>1 DEF Init, Remembers, IInv, TypeOK
    <2> QED
      BY <2>1, <2>2, ResetAccounts
  <1>2. Inv /\ [Next]_vars => Inv'
    <2> SUFFICES ASSUME Inv, [Next]_vars PROVE Inv'
      OBVIOUS
    <2>1. Remembers'
      BY NextRemembers
    <2>0. TypeOK
      BY DEF Remembers, IInv
    <2>2. ASSUME NEW addr \in Addrs, NEW isWrite \in BOOLEAN, Access(addr, isWrite)
          PROVE  DataAccounted(config', cache', log')
      <3>1. /\ cache' = AfterAccess(config, cache, addr, isWrite)
            /\ config' = config
            /\ log' = IF config.enabled
                      THEN Append(log, [addr |-> addr, write |-> isWrite]) ELSE log
        BY <2>2 DEF Access
      <3>2. CASE ~config.enabled
        <4>1. cache' = cache /\ log' = log
          BY <3>1, <3>2 DEF AfterAccess
        <4> QED
          BY <3>1, <4>1
      <3>3. CASE config.enabled
        <4>1. PICK e \in Entries : e = [addr |-> addr, write |-> isWrite]
          BY DEF Entries
        <4>2. /\ cache' = AfterAccess(config, cache, e.addr, e.write)
              /\ log' = Append(log, e)
          BY <3>1, <3>3, <4>1
        <4>3. /\ config \in CacheConfig /\ cache \in CacheType(config)
              /\ log \in Seq(Entries)
          BY <2>0 DEF TypeOK, Entries
        <4>4. DataAccounted(config, AfterAccess(config, cache, e.addr, e.write),
                            Append(log, e))
          BY <3>3, <4>3, AccessKeepsData DEF Remembers
        <4> QED
          BY <3>1, <4>2, <4>4
      <3> QED
        BY <3>2, <3>3
    <2>3. CASE Reset
      <3>1. config' \in CacheConfig /\ cache' = ResetCache(config') /\ log' = << >>
        BY <2>0, <2>3 DEF Reset, TypeOK, ResetCache
      <3> QED
        BY <2>1, <3>1, ResetAccounts
    <2>4. ASSUME NEW raw \in RawConfigs, Configure(raw)
          PROVE  Inv'
      <3>1. config' \in CacheConfig /\ cache' = ResetCache(config') /\ log' = << >>
        BY <2>4, AcceptedIsConfig DEF Configure, ResetCache
      <3> QED
        BY <2>1, <3>1, ResetAccounts
    <2>5. CASE (\E raw \in RawConfigs : ConfigureRejected(raw)) \/ UNCHANGED vars
      <3>1. config' = config /\ cache' = cache /\ log' = log
        BY <2>5 DEF ConfigureRejected, vars
      <3> QED
        BY <2>1, <3>1
    <2> QED
      BY <2>1, <2>2, <2>3, <2>4, <2>5 DEF Next
  <1>3. Inv => DirtyDataAccounted
    <2> SUFFICES ASSUME Inv PROVE DirtyDataAccounted
      OBVIOUS
    <2>1. DOMAIN log = 1 .. Len(log)
      BY DEF Remembers, IInv, TypeOK
    <2>2. DirtyingWrites = DirtyingIn(config, log)
      BY <2>1, HistoryOfLog DEF DirtyingWrites, DirtyingIn
    <2>3. DirtyLines = DirtyIn(cache.lines)
      BY DEF DirtyLines, DirtyIn
    <2> QED
      BY <2>2, <2>3 DEF DataAccounted, DirtyDataAccounted
  <1> QED
    BY <1>1, <1>2, <1>3, PTL DEF Spec
=============================================================================
