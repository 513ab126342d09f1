------------------------- MODULE ComponentOps_proofs -------------------------
(***************************************************************************)
(* What the parts of a CpuModel compute: reset() and access() of a cache   *)
(* and add_external_stalls() and retire() of the timing model, for every   *)
(* accepted configuration, and the arithmetic of step(), for every width   *)
(* of word.  Cited by the proofs about each part by itself and about       *)
(* CpuModel.                                                               *)
(***************************************************************************)
EXTENDS CacheOps, PipelineOps, Rv32Alu, WellFoundedInduction, TLAPS

-----------------------------------------------------------------------------
(* CacheModel *)

(* Every address maps to a line of the array, so access() never indexes    *)
(* past lines_.                                                            *)
LEMMA IndexInArray ==
    ASSUME NEW cfg \in CacheConfig, NEW addr \in Nat
    PROVE  /\ WordAddr(addr) \in Nat
           /\ Index(cfg, addr) \in 0 .. cfg.lines - 1
           /\ Tag(cfg, addr) \in Nat
  <1>1. cfg.lines \in Nat /\ cfg.lines > 0
    BY DEF CacheConfig
  <1>2. WordAddr(addr) \in Nat
    BY DEF WordAddr, LineBytes
  <1> DEFINE w == WordAddr(addr)
             n == cfg.lines
  <1>3. w % n \in 0 .. n - 1 /\ w \div n \in Nat
    <2> HIDE DEF w, n
    <2>1. w \in Nat /\ n \in Nat /\ n > 0
      BY <1>1, <1>2 DEF w, n
    <2> QED
      BY <2>1
  <1> QED
    BY <1>2, <1>3 DEF Index, Tag

(* A cleared cache is well formed and has counted nothing.                 *)
LEMMA ResetCacheType ==
    ASSUME NEW cfg \in CacheConfig
    PROVE  /\ ResetCache(cfg) \in CacheType(cfg)
           /\ ResetCache(cfg).stats = ZeroCacheStats
  BY DEF ResetCache, CacheType, EmptyLine, Line, ZeroCacheStats, CacheStats

(* The two penalties are natural numbers of cycles.                        *)
LEMMA StallIsNat ==
    ASSUME NEW cfg \in CacheConfig, NEW c, NEW addr
    PROVE  /\ CleanMissPenalty(cfg) \in Nat
           /\ DirtyMissPenalty(cfg) \in Nat
           /\ AccessStall(cfg, c, addr) \in Nat
           /\ WouldHit(cfg, c, addr) => AccessStall(cfg, c, addr) = 0
  <1>1. cfg.latency \in Nat
    BY DEF CacheConfig
  <1>2. CleanMissPenalty(cfg) \in Nat /\ DirtyMissPenalty(cfg) \in Nat
    BY <1>1 DEF CleanMissPenalty, DirtyMissPenalty
  <1> QED
    BY <1>2 DEF AccessStall

(* Counting a hit or a miss keeps the counters natural numbers, and adds   *)
(* each event to the counters the statistics of the repository read.       *)
LEMMA CountingType ==
    ASSUME NEW s \in CacheStats, NEW stall \in Nat, NEW evict \in BOOLEAN
    PROVE  /\ HitStats(s) \in CacheStats
           /\ HitStats(s).stall = s.stall
           /\ MissStats(s, stall, evict) \in CacheStats
           /\ MissStats(s, stall, evict).stall = s.stall + stall
  <1>1. /\ s.accesses \in Nat /\ s.hits \in Nat /\ s.misses \in Nat
        /\ s.writebacks \in Nat /\ s.reads \in Nat /\ s.writes \in Nat
        /\ s.stall \in Nat
    BY DEF CacheStats
  <1>2. HitStats(s) \in CacheStats /\ HitStats(s).stall = s.stall
    BY <1>1 DEF HitStats, CacheStats
  <1>3. (IF evict THEN 1 ELSE 0) \in Nat
    OBVIOUS
  <1>4. MissStats(s, stall, evict) \in CacheStats
    BY <1>1, <1>3 DEF MissStats, CacheStats
  <1>5. MissStats(s, stall, evict).stall = s.stall + stall
    BY DEF MissStats
  <1> QED
    BY <1>2, <1>4, <1>5

(* access() keeps the cache well formed, and adds to the stall counter     *)
(* exactly the cycles it reports to its caller.                            *)
LEMMA AfterAccessType ==
    ASSUME NEW cfg \in CacheConfig, NEW c \in CacheType(cfg), NEW addr \in Nat,
           NEW isWrite \in BOOLEAN
    PROVE  /\ AfterAccess(cfg, c, addr, isWrite) \in CacheType(cfg)
           /\ AfterAccess(cfg, c, addr, isWrite).stats.stall =
                 c.stats.stall + AccessStall(cfg, c, addr)
  <1> DEFINE i == Index(cfg, addr)
             stall == AccessStall(cfg, c, addr)
             d == AfterAccess(cfg, c, addr, isWrite)
             evict == EvictsDirty(cfg, c, addr)
  <1>1. i \in 0 .. cfg.lines - 1 /\ Tag(cfg, addr) \in Nat
    BY IndexInArray
  <1>2. /\ c = [lines |-> c.lines, stats |-> c.stats]
        /\ c.lines \in [0 .. cfg.lines - 1 -> Line]
        /\ c.stats \in CacheStats
    BY DEF CacheType
  <1>3. c.lines[i] \in Line /\ cfg.writeBack \in BOOLEAN /\ cfg.enabled \in BOOLEAN
    BY <1>1, <1>2 DEF CacheConfig
  <1>4. stall \in Nat
    BY StallIsNat
  <1>5. evict \in BOOLEAN
    BY <1>3 DEF EvictsDirty, Line
  <1>6. CASE ~cfg.enabled
    <2>1. d = c /\ stall = 0
      BY <1>6 DEF AfterAccess, AccessStall, WouldHit
    <2> QED
      BY <1>2, <2>1 DEF CacheStats
  <1>7. CASE cfg.enabled /\ Resident(cfg, c, addr)
    <2>1. stall = 0
      BY <1>7 DEF AccessStall, WouldHit
    <2>2. d = [lines |-> [c.lines EXCEPT ![i] = TouchedLine(cfg, c.lines[i], isWrite)],
               stats |-> HitStats(c.stats)]
      BY <1>7 DEF AfterAccess
    <2>3. TouchedLine(cfg, c.lines[i], isWrite) \in Line
      BY <1>3 DEF TouchedLine, Line
    <2>4. /\ HitStats(c.stats) \in CacheStats
          /\ HitStats(c.stats).stall = c.stats.stall
          /\ c.stats.stall \in Nat
      BY <1>2, CountingType DEF CacheStats
    <2>5. [c.lines EXCEPT ![i] = TouchedLine(cfg, c.lines[i], isWrite)]
             \in [0 .. cfg.lines - 1 -> Line]
      BY <1>2, <2>3
    <2>6. d.stats.stall = c.stats.stall
      BY <2>2, <2>4
    <2> QED
      BY <2>1, <2>2, <2>4, <2>5, <2>6 DEF CacheType
  <1>8. CASE cfg.enabled /\ ~Resident(cfg, c, addr)
    <2>1. d = [lines |-> [c.lines EXCEPT ![i] = FilledLine(cfg, addr, isWrite)],
               stats |-> MissStats(c.stats, stall, evict)]
      BY <1>8 DEF AfterAccess
    <2>2. FilledLine(cfg, addr, isWrite) \in Line
      BY <1>1, <1>3 DEF FilledLine, Line
    <2>3. /\ MissStats(c.stats, stall, evict) \in CacheStats
          /\ MissStats(c.stats, stall, evict).stall = c.stats.stall + stall
      BY <1>2, <1>4, <1>5, CountingType
    <2>4. [c.lines EXCEPT ![i] = FilledLine(cfg, addr, isWrite)]
             \in [0 .. cfg.lines - 1 -> Line]
      BY <1>2, <2>2
    <2> QED
      BY <2>1, <2>3, <2>4 DEF CacheType
  <1> QED
    BY <1>6, <1>7, <1>8

(* access() leaves the word it was given in the cache, so a second access  *)
(* to it hits and stalls for nothing.                                      *)
LEMMA AccessedWordHits ==
    ASSUME NEW cfg \in CacheConfig, NEW c \in CacheType(cfg), NEW addr \in Nat,
           NEW isWrite \in BOOLEAN
    PROVE  WouldHit(cfg, AfterAccess(cfg, c, addr, isWrite), addr)
  <1> DEFINE i == Index(cfg, addr)
             d == AfterAccess(cfg, c, addr, isWrite)
  <1>1. i \in 0 .. cfg.lines - 1
    BY IndexInArray
  <1>2. c.lines \in [0 .. cfg.lines - 1 -> Line] /\ c.lines[i] \in Line
    BY <1>1 DEF CacheType
  <1>3. CASE ~cfg.enabled
    BY <1>3 DEF WouldHit
  <1>4. CASE cfg.enabled /\ Resident(cfg, c, addr)
    <2>1. d.lines[i] = TouchedLine(cfg, c.lines[i], isWrite)
      BY <1>1, <1>2, <1>4 DEF AfterAccess
    <2>2. d.lines[i].valid /\ d.lines[i].tag = Tag(cfg, addr)
      BY <1>2, <1>4, <2>1 DEF TouchedLine, Resident, Line
    <2> QED
      BY <2>2 DEF WouldHit, Resident
  <1>5. CASE cfg.enabled /\ ~Resident(cfg, c, addr)
    <2>1. d.lines[i] = FilledLine(cfg, addr, isWrite)
      BY <1>1, <1>2, <1>5 DEF AfterAccess
    <2> QED
      BY <2>1 DEF WouldHit, Resident, FilledLine
  <1> QED
    BY <1>3, <1>4, <1>5

(* access() counts a resident word as a hit and nothing else; any other    *)
(* word as a miss, which stalls for a refill at least and leaves no line   *)
(* of another index changed; a disabled cache counts nothing.              *)
LEMMA AccessCounts ==
    ASSUME NEW cfg \in CacheConfig, NEW c \in CacheType(cfg), NEW addr \in Nat,
           NEW isWrite \in BOOLEAN
    PROVE  LET s == c.stats
               d == AfterAccess(cfg, c, addr, isWrite)
               t == d.stats
           IN  /\ ~cfg.enabled => d = c
               /\ cfg.enabled /\ Resident(cfg, c, addr) =>
                    /\ t.accesses = s.accesses + 1 /\ t.hits = s.hits + 1
                    /\ t.misses = s.misses /\ t.reads = s.reads
                    /\ t.writes = s.writes /\ t.stall = s.stall
               /\ cfg.enabled /\ ~Resident(cfg, c, addr) =>
                    /\ t.accesses = s.accesses + 1 /\ t.hits = s.hits
                    /\ t.misses = s.misses + 1 /\ t.reads = s.reads + 1
                    /\ t.writes >= s.writes
                    /\ t.stall >= s.stall + CleanMissPenalty(cfg)
               /\ t.accesses >= s.accesses /\ t.hits >= s.hits
               /\ t.misses >= s.misses /\ t.reads >= s.reads
               /\ t.writes >= s.writes /\ t.stall >= s.stall
  <1> DEFINE stall == AccessStall(cfg, c, addr)
             evict == EvictsDirty(cfg, c, addr)
             s == c.stats
             d == AfterAccess(cfg, c, addr, isWrite)
             t == d.stats
  <1>1. /\ s.accesses \in Nat /\ s.hits \in Nat /\ s.misses \in Nat
        /\ s.writebacks \in Nat /\ s.reads \in Nat /\ s.writes \in Nat
        /\ s.stall \in Nat
    BY DEF CacheType, CacheStats
  <1>2. CASE ~cfg.enabled
    BY <1>1, <1>2 DEF AfterAccess
  <1>3. CASE cfg.enabled /\ Resident(cfg, c, addr)
    <2>1. t = HitStats(s)
      BY <1>3 DEF AfterAccess
    <2>2. /\ t.accesses = s.accesses + 1 /\ t.hits = s.hits + 1
          /\ t.misses = s.misses /\ t.reads = s.reads
          /\ t.writes = s.writes /\ t.stall = s.stall
      BY <2>1 DEF HitStats
    <2> HIDE DEF t, s
    <2> QED
      BY <1>1, <1>3, <2>2 DEF s, t
  <1>4. CASE cfg.enabled /\ ~Resident(cfg, c, addr)
    <2>1. t = MissStats(s, stall, evict)
      BY <1>4 DEF AfterAccess
    <2>2. stall \in Nat /\ CleanMissPenalty(cfg) \in Nat
      BY StallIsNat
    <2>3. stall >= CleanMissPenalty(cfg)
      <3>1. cfg.latency \in Nat
        BY DEF CacheConfig
      <3>2. stall \in {DirtyMissPenalty(cfg), CleanMissPenalty(cfg)}
        BY <1>4 DEF AccessStall, WouldHit
      <3> QED
        BY <3>1, <3>2 DEF DirtyMissPenalty, CleanMissPenalty
    <2>4. /\ t.accesses = s.accesses + 1 /\ t.hits = s.hits
          /\ t.misses = s.misses + 1 /\ t.reads = s.reads + 1
          /\ t.writes = s.writes + (IF evict THEN 1 ELSE 0)
          /\ t.stall = s.stall + stall
      BY <2>1 DEF MissStats
    <2> HIDE DEF t, s, stall, evict
    <2> QED
      BY <1>1, <1>4, <2>2, <2>3, <2>4 DEF s, t
  <1> QED
    BY <1>2, <1>3, <1>4

-----------------------------------------------------------------------------
(* PipelineTimingModel *)

(* An instruction as far as timing is concerned.                           *)
Timed(insn) == insn.rd \in Nat

(* Every penalty is a natural number of cycles: the subtractions in the    *)
(* divider startup and in fill/drain never go below zero.                  *)
LEMMA PenaltiesAreNat ==
    ASSUME NEW t, NEW insn, NEW taken \in BOOLEAN
    PROVE  /\ LoadUseStall(t, insn) \in Nat
           /\ DividerStall(t, insn) \in Nat
           /\ BranchStall(insn, taken) \in Nat
           /\ JumpStall(insn) \in Nat
           /\ FillDrain \in Nat
  BY TimingConfigAssumption
     DEF TimingConfigAssumption, LoadUseStall, DividerStall, BranchStall, JumpStall,
         FillDrain

(* add_external_stalls() only moves the accumulated stalls.                *)
LEMMA AddExternalStallsFields ==
    ASSUME NEW t \in TimingType, NEW cycles \in Nat
    PROVE  /\ AddExternalStalls(t, cycles) \in TimingType
           /\ AddExternalStalls(t, cycles).acc = t.acc + cycles
           /\ AddExternalStalls(t, cycles).retired = t.retired
           /\ AddExternalStalls(t, cycles).base = t.base
           /\ AddExternalStalls(t, cycles).fill = t.fill
           /\ AddExternalStalls(t, cycles).loadUse = t.loadUse
           /\ AddExternalStalls(t, cycles).branch = t.branch
           /\ AddExternalStalls(t, cycles).jump = t.jump
           /\ AddExternalStalls(t, cycles).divider = t.divider
           /\ AddExternalStalls(t, cycles).total = t.total
  BY DEF AddExternalStalls, TimingType

(* Cycles the stalls of one retire() add up to.                            *)
RetireStalls(t, insn, taken) ==
    LoadUseStall(t, insn) + DividerStall(t, insn)
        + BranchStall(insn, taken) + JumpStall(insn)

(* retire() keeps the counters natural numbers, adds each stall to its own *)
(* category and to the accumulated stalls, and publishes their sum with    *)
(* the base cycles and the fill.                                           *)
LEMMA AfterRetireFields ==
    ASSUME NEW t \in TimingType, NEW insn, Timed(insn), NEW taken \in BOOLEAN
    PROVE  LET u == AfterRetire(t, insn, taken)
           IN  /\ u \in TimingType
               /\ u.retired = t.retired + 1
               /\ u.base = t.retired + 1
               /\ u.fill = FillDrain
               /\ u.loadUse = t.loadUse + LoadUseStall(t, insn)
               /\ u.branch = t.branch + BranchStall(insn, taken)
               /\ u.jump = t.jump + JumpStall(insn)
               /\ u.divider = t.divider + DividerStall(t, insn)
               /\ u.acc = t.acc + RetireStalls(t, insn, taken)
               /\ u.total = u.retired + u.fill + u.acc
  <1>1. /\ LoadUseStall(t, insn) \in Nat
        /\ DividerStall(t, insn) \in Nat
        /\ BranchStall(insn, taken) \in Nat
        /\ JumpStall(insn) \in Nat
        /\ FillDrain \in Nat
    BY PenaltiesAreNat
  <1>2. /\ t.retired \in Nat
        /\ t.acc \in Nat
        /\ t.loadUse \in Nat
        /\ t.branch \in Nat
        /\ t.jump \in Nat
        /\ t.divider \in Nat
    BY DEF TimingType
  <1>3. /\ IsLoad(insn) \in BOOLEAN
        /\ IsDivRem(insn) \in BOOLEAN
        /\ (IF IsLoad(insn) THEN insn.rd ELSE 0) \in Nat
    BY DEF IsLoad, IsDivRem, Timed
  <1> DEFINE u == AfterRetire(t, insn, taken)
  <1>4. /\ u.retired = t.retired + 1
        /\ u.base = t.retired + 1
        /\ u.fill = FillDrain
        /\ u.loadUse = t.loadUse + LoadUseStall(t, insn)
        /\ u.branch = t.branch + BranchStall(insn, taken)
        /\ u.jump = t.jump + JumpStall(insn)
        /\ u.divider = t.divider + DividerStall(t, insn)
        /\ u.acc = t.acc + RetireStalls(t, insn, taken)
        /\ u.total = u.retired + u.fill + u.acc
    BY <1>1, <1>2 DEF AfterRetire, RetireStalls
  <1>5. u \in TimingType
    BY <1>1, <1>2, <1>3 DEF AfterRetire, TimingType
  <1> QED
    BY <1>4, <1>5

(* The retire cycle is the published total without the redirect penalties  *)
(* of the instruction itself.                                              *)
LEMMA RetireCycleBeforeRedirect ==
    ASSUME NEW t \in TimingType, NEW insn, Timed(insn), NEW taken \in BOOLEAN
    PROVE  /\ RetireCycle(t, insn) \in Nat
           /\ AfterRetire(t, insn, taken).total =
                 RetireCycle(t, insn) + BranchStall(insn, taken) + JumpStall(insn)
  <1>1. /\ LoadUseStall(t, insn) \in Nat
        /\ DividerStall(t, insn) \in Nat
        /\ BranchStall(insn, taken) \in Nat
        /\ JumpStall(insn) \in Nat
        /\ FillDrain \in Nat
    BY PenaltiesAreNat
  <1>2. t.retired \in Nat /\ t.acc \in Nat
    BY DEF TimingType
  <1> QED
    BY <1>1, <1>2, AfterRetireFields DEF RetireCycle, RetireStalls

-----------------------------------------------------------------------------
(* Arithmetic and recursion *)

Below == {p \in Nat \X Nat : p[1] < p[2]}

(* Induction on the natural numbers, for a set: a number outside the set   *)
(* would have a least one.                                                 *)
LEMMA Induction ==
    ASSUME NEW T \in SUBSET Nat, 0 \in T, \A n \in T : n + 1 \in T
    PROVE  T = Nat
  <1> SUFFICES ASSUME Nat \ T # {} PROVE FALSE
    OBVIOUS
  <1>1. IsWellFoundedOn(Below, Nat)
    BY NatLessThanWellFounded, Zenon DEF OpToRel, Below
  <1>2. PICK n \in Nat \ T : \A m \in Nat \ T : <<m, n>> \notin Below
    <2> HIDE DEF Below
    <2> QED
      BY <1>1, WFMin
  <1>3. n # 0 /\ n - 1 \in Nat
    OBVIOUS
  <1>4. <<n - 1, n>> \in Below
    BY <1>3 DEF Below
  <1>5. n - 1 \in T
    BY <1>2, <1>3, <1>4
  <1> QED
    BY <1>5

(* Every step on the integers can be repeated from every first value.      *)
LEMMA Recursion ==
    ASSUME NEW first \in Int, NEW step \in [Nat -> [Int -> Int]]
    PROVE  \E f \in [Nat -> Int] :
               f[0] = first /\ \A n \in Nat : f[n + 1] = step[n][f[n]]
  <1> DEFINE Runs(n, g) ==
               g[0] = first /\ \A m \in 0 .. n - 1 : g[m + 1] = step[m][g[m]]
             T == {n \in Nat : \E g \in [0 .. n -> Int] : Runs(n, g)}
  <1>1. T = Nat
    <2>1. 0 \in T
      <3> DEFINE g == [i \in 0 .. 0 |-> first]
      <3>1. g \in [0 .. 0 -> Int] /\ Runs(0, g)
        OBVIOUS
      <3> QED
        BY <3>1
    <2>2. ASSUME NEW n \in T PROVE n + 1 \in T
      <3>1. n \in Nat
        OBVIOUS
      <3>2. PICK g \in [0 .. n -> Int] : Runs(n, g)
        OBVIOUS
      <3> DEFINE h == [i \in 0 .. n + 1 |-> IF i = n + 1 THEN step[n][g[n]] ELSE g[i]]
      <3>3. n \in 0 .. n /\ g[n] \in Int /\ step[n][g[n]] \in Int
        BY <3>1
      <3>4. h \in [0 .. n + 1 -> Int]
        BY <3>1, <3>3
      <3>5. h[0] = first
        BY <3>1, <3>2
      <3>6. ASSUME NEW m \in 0 .. n PROVE h[m + 1] = step[m][h[m]]
        <4>1. CASE m = n
          BY <4>1, <3>1
        <4>2. CASE m # n
          <5>1. h[m + 1] = g[m + 1] /\ h[m] = g[m]
            BY <4>2, <3>1
          <5>2. g[m + 1] = step[m][g[m]]
            BY <3>1, <3>2, <4>2
          <5> QED
            BY <5>1, <5>2
        <4> QED
          BY <4>1, <4>2
      <3>7. (n + 1) - 1 = n
        BY <3>1
      <3>8. Runs(n + 1, h)
        <4> HIDE DEF h
        <4> QED
          BY <3>5, <3>6, <3>7
      <3> HIDE DEF h, Runs
      <3> QED
        BY <3>1, <3>4, <3>8
    <2> HIDE DEF T
    <2>3. T \in SUBSET Nat
      BY DEF T
    <2> QED
      BY <2>1, <2>2, <2>3, Induction
  <1> DEFINE run == [n \in Nat |-> CHOOSE g \in [0 .. n -> Int] : Runs(n, g)]
             f == [n \in Nat |-> run[n][n]]
  <1>2. \A n \in Nat : run[n] \in [0 .. n -> Int] /\ Runs(n, run[n])
    <2> HIDE DEF Runs
    <2> TAKE n \in Nat
    <2>1. \E g \in [0 .. n -> Int] : Runs(n, g)
      BY <1>1
    <2> QED
      BY <2>1
  <1>3. ASSUME NEW n \in Nat PROVE run[n + 1][n] = run[n][n]
    <2> DEFINE U == {i \in Nat : i <= n => run[n + 1][i] = run[n][i]}
    <2>1. Runs(n, run[n]) /\ Runs(n + 1, run[n + 1])
      <3>1. n + 1 \in Nat
        OBVIOUS
      <3> HIDE DEF run, Runs
      <3> QED
        BY <1>2, <3>1
    <2>2. 0 \in U
      BY <2>1
    <2>3. ASSUME NEW i \in U PROVE i + 1 \in U
      <3>1. CASE i + 1 <= n
        <4> HIDE DEF run
        <4>1. i \in 0 .. n - 1 /\ i \in 0 .. (n + 1) - 1
          BY <3>1
        <4>2. run[n][i + 1] = step[i][run[n][i]]
          BY <2>1, <4>1
        <4>3. run[n + 1][i + 1] = step[i][run[n + 1][i]]
          BY <2>1, <4>1
        <4>4. run[n + 1][i] = run[n][i]
          BY <3>1
        <4> QED
          BY <4>2, <4>3, <4>4
      <3> QED
        BY <3>1
    <2> HIDE DEF U
    <2>4. U \in SUBSET Nat
      BY DEF U
    <2>5. n \in U
      BY <2>2, <2>3, <2>4, Induction
    <2> QED
      BY <2>5 DEF U
  <1>4. f \in [Nat -> Int]
    <2> HIDE DEF run
    <2> SUFFICES ASSUME NEW n \in Nat PROVE run[n][n] \in Int
      OBVIOUS
    <2>1. run[n] \in [0 .. n -> Int]
      <3> HIDE DEF Runs
      <3> QED
        BY <1>2
    <2>2. n \in 0 .. n
      OBVIOUS
    <2> QED
      BY <2>1, <2>2
  <1>5. f[0] = first
    <2>1. Runs(0, run[0])
      <3>1. 0 \in Nat
        OBVIOUS
      <3> HIDE DEF run, f, Runs
      <3> QED
        BY <1>2, <3>1, Zenon
    <2> HIDE DEF run
    <2> QED
      BY <2>1
  <1>6. ASSUME NEW n \in Nat PROVE f[n + 1] = step[n][f[n]]
    <2> HIDE DEF run
    <2>1. n \in 0 .. (n + 1) - 1 /\ n + 1 \in Nat
      OBVIOUS
    <2>2. run[n + 1][n + 1] = step[n][run[n + 1][n]]
      BY <1>2, <2>1
    <2> QED
      BY <1>3, <2>1, <2>2
  <1> HIDE DEF f
  <1> QED
    BY <1>4, <1>5, <1>6

(* The powers of two are what their recursive definition says.             *)
LEMMA PowersOfTwo ==
    /\ Pow2 \in [Nat -> Nat \ {0}]
    /\ Pow2[0] = 1
    /\ \A n \in Nat : Pow2[n + 1] = 2 * Pow2[n]
  <1> DEFINE step == [n \in Nat |-> [v \in Int |-> 2 * v]]
  <1>1. step \in [Nat -> [Int -> Int]]
    OBVIOUS
  <1>2. PICK f \in [Nat -> Int] :
            f[0] = 1 /\ \A n \in Nat : f[n + 1] = step[n][f[n]]
    <2>1. 1 \in Int
      OBVIOUS
    <2> HIDE DEF step
    <2> QED
      BY <1>1, <2>1, Recursion, Zenon
  <1>3. \A n \in Nat : f[n + 1] = 2 * f[n]
    BY <1>2
  <1>4. f = [n \in Nat |-> IF n = 0 THEN 1 ELSE 2 * f[n - 1]]
    <2>1. ASSUME NEW n \in Nat PROVE f[n] = IF n = 0 THEN 1 ELSE 2 * f[n - 1]
      <3>1. CASE n = 0
        BY <1>2, <3>1
      <3>2. CASE n # 0
        <4>1. n - 1 \in Nat /\ (n - 1) + 1 = n
          BY <3>2
        <4> QED
          BY <1>3, <3>2, <4>1
      <3> QED
        BY <3>1, <3>2
    <2> QED
      BY <1>2, <2>1
  <1>5. Pow2 = [n \in Nat |-> IF n = 0 THEN 1 ELSE 2 * Pow2[n - 1]]
    BY <1>4, Zenon DEF Pow2
  <1>6. Pow2[0] = 1
    BY <1>5
  <1>7. ASSUME NEW n \in Nat PROVE Pow2[n + 1] = 2 * Pow2[n]
    <2>1. n + 1 \in Nat /\ n + 1 # 0 /\ (n + 1) - 1 = n
      OBVIOUS
    <2> QED
      BY <1>5, <2>1
  <1>8. \A n \in Nat : Pow2[n] \in Nat \ {0}
    <2> DEFINE T == {n \in Nat : Pow2[n] \in Nat \ {0}}
    <2>1. 0 \in T
      BY <1>6
    <2>2. ASSUME NEW n \in T PROVE n + 1 \in T
      BY <1>7
    <2> HIDE DEF T
    <2>3. T \in SUBSET Nat
      BY DEF T
    <2>4. T = Nat
      BY <2>1, <2>2, <2>3, Induction
    <2> QED
      BY <2>4 DEF T
  <1>9. Pow2 \in [Nat -> Nat \ {0}]
    BY <1>5, <1>8
  <1> QED
    BY <1>6, <1>7, <1>9

(* A word has at least two values, and half of them have the sign bit.     *)
LEMMA WordRange ==
    /\ Half \in Nat \ {0}
    /\ Modulus = 2 * Half
    /\ MaxWord = Modulus - 1
  <1>1. WordBits \in Nat /\ WordBits - 1 \in Nat /\ (WordBits - 1) + 1 = WordBits
    BY WordAssumption
  <1>2. Pow2[WordBits - 1] \in Nat \ {0}
    BY <1>1, PowersOfTwo
  <1>3. Pow2[WordBits] = 2 * Pow2[WordBits - 1]
    BY <1>1, PowersOfTwo
  <1> QED
    BY <1>2, <1>3 DEF Modulus, Half, MaxWord

(* Division by a positive number: the quotient is the only one that leaves *)
(* a remainder in range.                                                   *)
LEMMA DivisionUnique ==
    ASSUME NEW n \in Int, NEW d \in Nat \ {0}, NEW q \in Int, NEW r \in 0 .. d - 1,
           n = d * q + r
    PROVE  (n \div d) = q /\ (n % d) = r
  <1>1. n = (d * (n \div d)) + (n % d) /\ n \div d \in Int /\ n % d \in 0 .. d - 1
    OBVIOUS
  <1> DEFINE k == n \div d
             s == n % d
  <1>2. d * k + s = d * q + r /\ k \in Int /\ s \in 0 .. d - 1
    BY <1>1
  <1> HIDE DEF k, s
  <1>3. k = q
    <2>1. d * (k - q) = r - s
      BY <1>2
    <2>2. k - q >= 1 => d * (k - q) >= d
      BY <1>2
    <2>3. k - q <= -1 => d * (k - q) <= -d
      BY <1>2
    <2> QED
      BY <1>2, <2>1, <2>2, <2>3
  <1>4. s = r
    BY <1>2, <1>3
  <1> QED
    BY <1>3, <1>4 DEF k, s

-----------------------------------------------------------------------------
(* Words and their signed values *)

(* Cutting to a word, and reading a word as a signed number.               *)
LEMMA CutIsWord ==
    ASSUME NEW n \in Int
    PROVE  Cut(n) \in 0 .. MaxWord
  BY WordRange DEF Cut

(* Cut() forgets multiples of the modulus.                                 *)
LEMMA CutOf ==
    ASSUME NEW k \in Int, NEW w \in 0 .. MaxWord
    PROVE  Cut(Modulus * k + w) = w
  <1> DEFINE n == Modulus * k + w
  <1>1. Modulus \in Nat \ {0} /\ w \in 0 .. Modulus - 1
    BY WordRange
  <1>2. Modulus * k \in Int
    BY <1>1
  <1>3. n \in Int /\ n = Modulus * k + w
    BY <1>1, <1>2
  <1> HIDE DEF n
  <1>4. n % Modulus = w
    BY <1>1, <1>3, DivisionUnique
  <1> QED
    BY <1>4 DEF n, Cut

(* Cut() takes a multiple of the modulus off.                              *)
LEMMA CutCut ==
    ASSUME NEW n \in Int
    PROVE  \E k \in Int : n = Modulus * k + Cut(n)
  <1>1. Modulus \in Nat \ {0}
    BY WordRange
  <1>2. n = (Modulus * (n \div Modulus)) + (n % Modulus) /\ n \div Modulus \in Int
    BY <1>1
  <1> QED
    BY <1>2 DEF Cut

(* The signed values of words, and the words that have the extreme ones.   *)
LEMMA SignedRange ==
    ASSUME NEW a \in 0 .. MaxWord
    PROVE  /\ AsSigned(a) \in -Half .. Half - 1
           /\ \E k \in {0, -1} : AsSigned(a) = Modulus * k + a
           /\ AsSigned(a) < 0 <=> a >= Half
           /\ AsSigned(a) = 0 <=> a = 0
           /\ AsSigned(a) = -Half <=> a = Half
           /\ AsSigned(a) = -1 <=> a = MaxWord
  BY WordRange DEF AsSigned

(* The word a signed number is cut to stands for that number.              *)
LEMMA SignedCut ==
    ASSUME NEW x \in -Half .. Half - 1
    PROVE  AsSigned(Cut(x)) = x
  <1>1. CASE x >= 0
    <2>1. x = Modulus * 0 + x /\ x \in 0 .. MaxWord
      BY <1>1, WordRange
    <2>2. Cut(x) = x
      BY <2>1, CutOf
    <2> QED
      BY <2>2, WordRange DEF AsSigned
  <1>2. CASE x < 0
    <2>1. x = Modulus * (-1) + (x + Modulus) /\ x + Modulus \in 0 .. MaxWord /\ -1 \in Int
      BY <1>2, WordRange
    <2>2. Cut(x) = x + Modulus
      BY <2>1, CutOf
    <2> QED
      BY <2>2, <1>2, WordRange DEF AsSigned
  <1> QED
    BY <1>1, <1>2

(* What C++ division leaves: the remainder is smaller than the divisor and *)
(* has the sign of the dividend, and the quotient does not exceed the      *)
(* dividend.                                                               *)
LEMMA TruncatedDivision ==
    ASSUME NEW n \in Int, NEW d \in Int \ {0}
    PROVE  /\ Quotient(n, d) \in Int /\ Remainder(n, d) \in Int
           /\ n = d * Quotient(n, d) + Remainder(n, d)
           /\ Magnitude(Remainder(n, d)) < Magnitude(d)
           /\ Remainder(n, d) > 0 => n > 0
           /\ Remainder(n, d) < 0 => n < 0
           /\ Magnitude(Quotient(n, d)) <= Magnitude(n)
           /\ Magnitude(Quotient(n, d)) = Magnitude(n) => n = 0 \/ Magnitude(d) = 1
           /\ Quotient(n, d) > 0 => ((n < 0) <=> (d < 0))
  <1> DEFINE m == Magnitude(n)
             e == Magnitude(d)
             q == m \div e
             r == m % e
  <1>1. m \in Nat /\ e \in Nat \ {0}
    BY DEF Magnitude
  <1>2. m = e * q + r /\ q \in Nat /\ r \in 0 .. e - 1
    <2> HIDE DEF m, e
    <2> QED
      BY <1>1
  <1> HIDE DEF q, r
  <1>3. q <= m /\ (q = m => m = 0 \/ e = 1)
    <2> HIDE DEF m, e
    <2>1. e >= 2 => e * q >= 2 * q
      BY <1>1, <1>2
    <2> QED
      BY <1>1, <1>2, <2>1
  <1>4. Quotient(n, d) = IF (n < 0) = (d < 0) THEN q ELSE -q
    BY DEF Quotient, q
  <1>5. Quotient(n, d) \in Int
    BY <1>2, <1>4
  <1>6. Remainder(n, d) = IF n < 0 THEN -r ELSE r
    <2>1. e * q = m - r
      BY <1>1, <1>2
    <2>2. d * Quotient(n, d) = IF n < 0 THEN -(e * q) ELSE e * q
      <3>1. CASE n < 0 /\ d < 0
        BY <1>2, <1>4, <3>1 DEF Magnitude
      <3>2. CASE n < 0 /\ ~(d < 0)
        BY <1>2, <1>4, <3>2 DEF Magnitude
      <3>3. CASE ~(n < 0) /\ d < 0
        BY <1>2, <1>4, <3>3 DEF Magnitude
      <3>4. CASE ~(n < 0) /\ ~(d < 0)
        BY <1>2, <1>4, <3>4 DEF Magnitude
      <3> QED
        BY <3>1, <3>2, <3>3, <3>4
    <2>3. m = IF n < 0 THEN -n ELSE n
      BY DEF Magnitude
    <2>4. Remainder(n, d) = n - d * Quotient(n, d)
      BY DEF Remainder
    <2> HIDE DEF m, e
    <2> QED
      BY <1>1, <1>2, <2>1, <2>2, <2>3, <2>4
  <1>7. Remainder(n, d) \in Int
    BY <1>2, <1>6
  <1>8. n = d * Quotient(n, d) + Remainder(n, d)
    <2>1. d * Quotient(n, d) \in Int
      BY <1>5
    <2> QED
      BY <2>1 DEF Remainder
  <1>9. Magnitude(Remainder(n, d)) = r
    BY <1>2, <1>6 DEF Magnitude
  <1>10. r > 0 => n # 0
    BY <1>1, <1>2, <1>3 DEF Magnitude
  <1>11. Magnitude(Quotient(n, d)) = q
    BY <1>2, <1>4 DEF Magnitude
  <1>12. n = 0 <=> m = 0
    BY DEF Magnitude
  <1>13. Quotient(n, d) > 0 => ((n < 0) <=> (d < 0))
    BY <1>2, <1>4
  <1> QED
    <2>1. Remainder(n, d) > 0 => n > 0
      BY <1>2, <1>6, <1>10
    <2>2. Remainder(n, d) < 0 => n < 0
      BY <1>2, <1>6
    <2>3. Magnitude(Remainder(n, d)) < Magnitude(d)
      BY <1>1, <1>2, <1>9
    <2>4. /\ Magnitude(Quotient(n, d)) <= Magnitude(n)
          /\ Magnitude(Quotient(n, d)) = Magnitude(n) => n = 0 \/ Magnitude(d) = 1
      BY <1>3, <1>11, <1>12
    <2> QED
      BY <1>5, <1>7, <1>8, <1>13, <2>1, <2>2, <2>3, <2>4

(* Integers that give the same word: their sums and products do too.       *)
Congruent(x, y) == \E k \in Int : x = Modulus * k + y

(* Congruent numbers have congruent sums.                                  *)
LEMMA CongruentSum ==
    ASSUME NEW x \in Int, NEW y \in Int, NEW a \in Int, NEW b \in Int,
           Congruent(x, a), Congruent(y, b)
    PROVE  Congruent(x + y, a + b)
  <1>1. Modulus \in Int
    BY WordRange
  <1>2. PICK h \in Int : x = Modulus * h + a
    BY DEF Congruent
  <1>3. PICK k \in Int : y = Modulus * k + b
    BY DEF Congruent
  <1>4. x + y = Modulus * (h + k) + (a + b) /\ h + k \in Int
    BY <1>1, <1>2, <1>3
  <1> QED
    BY <1>4 DEF Congruent

(* Congruent numbers have congruent products.                              *)
LEMMA CongruentProduct ==
    ASSUME NEW x \in Int, NEW y \in Int, NEW a \in Int, NEW b \in Int,
           Congruent(x, a), Congruent(y, b)
    PROVE  Congruent(x * y, a * b)
  <1>1. Modulus \in Int
    BY WordRange
  <1>2. PICK h \in Int : x = Modulus * h + a
    BY DEF Congruent
  <1>3. PICK k \in Int : y = Modulus * k + b
    BY DEF Congruent
  <1> DEFINE j == Modulus * (h * k) + h * b + a * k
  <1>4. j \in Int
    BY <1>1
  <1>5. x * y = Modulus * j + a * b
    <2>1. x * y = (Modulus * h + a) * (Modulus * k + b)
      BY <1>2, <1>3
    <2>2. (Modulus * h + a) * (Modulus * k + b)
             = Modulus * (Modulus * (h * k) + h * b + a * k) + a * b
      BY <1>1
    <2> QED
      BY <2>1, <2>2
  <1> HIDE DEF j
  <1> QED
    BY <1>4, <1>5 DEF Congruent

(* Numbers that are congruent are cut to the same word.                    *)
LEMMA CongruentCut ==
    ASSUME NEW x \in Int, NEW y \in Int
    PROVE  /\ Congruent(x, Cut(x))
           /\ Congruent(x, y) => Cut(x) = Cut(y)
           /\ Congruent(x, y) /\ y \in 0 .. MaxWord => Cut(x) = y
           /\ Congruent(x, x)
  <1>1. Modulus \in Nat \ {0}
    BY WordRange
  <1>2. Congruent(x, Cut(x))
    BY CutCut DEF Congruent
  <1>3. ASSUME Congruent(x, y) PROVE Cut(x) = Cut(y)
    <2>1. PICK h \in Int : x = Modulus * h + y
      BY <1>3 DEF Congruent
    <2>2. PICK k \in Int : y = Modulus * k + Cut(y)
      BY CutCut
    <2>3. Cut(y) \in 0 .. MaxWord /\ Cut(y) \in Int
      BY CutIsWord
    <2>4. x = Modulus * (h + k) + Cut(y) /\ h + k \in Int
      BY <1>1, <2>1, <2>2, <2>3
    <2> QED
      BY <2>3, <2>4, CutOf
  <1>4. ASSUME Congruent(x, y), y \in 0 .. MaxWord PROVE Cut(x) = y
    BY <1>4, CutOf DEF Congruent
  <1>5. Congruent(x, x)
    <2>1. x = Modulus * 0 + x /\ 0 \in Int
      BY <1>1
    <2> QED
      BY <2>1 DEF Congruent
  <1> QED
    BY <1>2, <1>3, <1>4, <1>5

(* A word and the signed number it stands for are congruent.               *)
LEMMA CongruentSigned ==
    ASSUME NEW a \in 0 .. MaxWord
    PROVE  Congruent(AsSigned(a), a) /\ Congruent(a, AsSigned(a))
  <1>1. Modulus \in Nat \ {0} /\ a \in Int
    BY WordRange
  <1>2. PICK k \in {0, -1} : AsSigned(a) = Modulus * k + a
    BY SignedRange
  <1>3. k \in Int /\ -k \in Int /\ a = Modulus * (-k) + AsSigned(a)
    BY <1>1, <1>2
  <1> QED
    BY <1>2, <1>3 DEF Congruent

(* The quotient of the two most distant words is the only one that is no   *)
(* signed word; step() treats it before it divides.                        *)
LEMMA SignedQuotient ==
    ASSUME NEW a \in 0 .. MaxWord, NEW b \in 0 .. MaxWord, b # 0,
           ~(a = Half /\ b = MaxWord)
    PROVE  /\ AsSigned(AluResult("DIV", a, b)) = Quotient(AsSigned(a), AsSigned(b))
           /\ AsSigned(AluResult("REM", a, b)) = Remainder(AsSigned(a), AsSigned(b))
           /\ AluResult("DIV", a, b) \in 0 .. MaxWord
           /\ AluResult("REM", a, b) \in 0 .. MaxWord
  <1> DEFINE n == AsSigned(a)
             d == AsSigned(b)
             q == Quotient(n, d)
             r == Remainder(n, d)
  <1>1. /\ n \in -Half .. Half - 1 /\ d \in -Half .. Half - 1 /\ d # 0
        /\ n = -Half => d # -1
    BY SignedRange
  <1>2. n \in Int /\ d \in Int \ {0} /\ Half \in Nat \ {0}
    BY <1>1, WordRange
  <1> HIDE DEF n, d
  <1>3. /\ q \in Int /\ r \in Int
        /\ Magnitude(r) < Magnitude(d)
        /\ Magnitude(q) <= Magnitude(n)
        /\ Magnitude(q) = Magnitude(n) => n = 0 \/ Magnitude(d) = 1
        /\ q > 0 => ((n < 0) <=> (d < 0))
    BY <1>2, TruncatedDivision
  <1> HIDE DEF q, r
  <1>4. q \in -Half .. Half - 1
    BY <1>1, <1>2, <1>3 DEF Magnitude
  <1>5. r \in -Half .. Half - 1
    BY <1>1, <1>2, <1>3 DEF Magnitude
  <1>6. AluResult("DIV", a, b) = Cut(q) /\ AluResult("REM", a, b) = Cut(r)
    BY DEF AluResult, q, r, n, d
  <1>7. Cut(q) \in 0 .. MaxWord /\ Cut(r) \in 0 .. MaxWord
    BY <1>3, CutIsWord
  <1>8. AsSigned(Cut(q)) = q /\ AsSigned(Cut(r)) = r
    BY <1>4, <1>5, SignedCut
  <1> QED
    BY <1>6, <1>7, <1>8 DEF q, r, n, d

(* DIV and REM, DIVU and REMU belong together: quotient times divisor plus *)
(* remainder is the dividend, for a zero divisor and the overflow too, and *)
(* the remainder is smaller than the divisor and has the dividend's sign.  *)
THEOREM DivisionIsExact ==
    ASSUME NEW a \in 0 .. MaxWord, NEW b \in 0 .. MaxWord
    PROVE  /\ Cut(b * AluResult("DIV", a, b) + AluResult("REM", a, b)) = a
           /\ Cut(b * AluResult("DIVU", a, b) + AluResult("REMU", a, b)) = a
           /\ b # 0 => /\ a = b * AluResult("DIVU", a, b) + AluResult("REMU", a, b)
                       /\ AluResult("REMU", a, b) < b
           /\ b # 0 /\ ~(a = Half /\ b = MaxWord) =>
                 LET q == AsSigned(AluResult("DIV", a, b))
                     r == AsSigned(AluResult("REM", a, b))
                 IN  /\ AsSigned(a) = AsSigned(b) * q + r
                     /\ Magnitude(r) < Magnitude(AsSigned(b))
                     /\ (r > 0 => AsSigned(a) > 0) /\ (r < 0 => AsSigned(a) < 0)
  <1>1. a \in Int /\ b \in Int /\ a \in 0 .. Modulus - 1 /\ Modulus \in Nat \ {0}
    BY WordRange
  <1>2. Cut(a) = a
    <2>1. a = Modulus * 0 + a /\ 0 \in Int
      BY <1>1
    <2> QED
      BY <2>1, CutOf
  <1>3. CASE b = 0
    <2>1. /\ AluResult("DIV", a, b) = MaxWord /\ AluResult("REM", a, b) = a
          /\ AluResult("DIVU", a, b) = MaxWord /\ AluResult("REMU", a, b) = a
      BY <1>3 DEF AluResult
    <2>2. MaxWord \in Int /\ b * MaxWord + a = a
      BY <1>1, <1>3, WordRange
    <2> QED
      BY <1>2, <1>3, <2>1, <2>2
  <1>4. CASE b # 0
    <2>1. AluResult("DIVU", a, b) = (a \div b) /\ AluResult("REMU", a, b) = a % b
      BY <1>4 DEF AluResult
    <2>2. a = (b * (a \div b)) + (a % b) /\ (a % b) < b
      BY <1>1, <1>4
    <2>3. CASE a = Half /\ b = MaxWord
      <3>1. AluResult("DIV", a, b) = Half /\ AluResult("REM", a, b) = 0
        BY <1>4, <2>3 DEF AluResult
      <3>2. b * Half + 0 = Modulus * (Half - 1) + a /\ Half - 1 \in Int
        BY <2>3, WordRange
      <3>3. Cut(b * Half + 0) = a
        BY <3>2, CutOf
      <3> QED
        BY <1>2, <1>4, <2>1, <2>2, <2>3, <3>1, <3>3
    <2>4. CASE ~(a = Half /\ b = MaxWord)
      <3> DEFINE q == AsSigned(AluResult("DIV", a, b))
                 r == AsSigned(AluResult("REM", a, b))
                 n == AsSigned(a)
                 d == AsSigned(b)
                 p == AluResult("DIV", a, b)
                 s == AluResult("REM", a, b)
      <3>1. p \in 0 .. MaxWord /\ s \in 0 .. MaxWord
        BY <1>4, <2>4, SignedQuotient
      <3>2. q = Quotient(n, d) /\ r = Remainder(n, d)
        BY <1>4, <2>4, SignedQuotient
      <3>3. n \in Int /\ d \in Int \ {0}
        BY <1>4, SignedRange, WordRange
      <3>4. /\ n = d * q + r /\ q \in Int /\ r \in Int
            /\ Magnitude(r) < Magnitude(d)
            /\ (r > 0 => n > 0) /\ (r < 0 => n < 0)
        <4> HIDE DEF n, d, q, r
        <4> QED
          BY <3>2, <3>3, TruncatedDivision
      <3>5. Congruent(b, d) /\ Congruent(p, q) /\ Congruent(s, r) /\ Congruent(n, a)
        BY <3>1, CongruentSigned
      <3>6. b \in Int /\ p \in Int /\ s \in Int /\ d \in Int
        BY <1>1, <3>1, <3>3
      <3> HIDE DEF n, d, q, r, p, s, Congruent
      <3>7. Congruent(b * p, d * q) /\ b * p \in Int /\ d * q \in Int
        BY <3>4, <3>5, <3>6, CongruentProduct
      <3>8. Congruent(b * p + s, d * q + r)
        BY <3>4, <3>5, <3>6, <3>7, CongruentSum
      <3>9. b * p + s \in Int /\ d * q + r \in Int
        BY <3>4, <3>6, <3>7
      <3>10. Cut(b * p + s) = Cut(n)
        BY <3>4, <3>8, <3>9, CongruentCut
      <3>11. Cut(n) = a
        BY <1>1, <3>3, <3>5, CongruentCut
      <3> QED
        BY <1>2, <1>4, <2>1, <2>2, <3>4, <3>10, <3>11 DEF n, d, q, r, p, s
    <2> QED
      BY <2>3, <2>4
  <1> QED
    BY <1>3, <1>4

(* The high half of a number between two multiples of the modulus is at    *)
(* least the lower factor and below the higher.                            *)
LEMMA ProductFits ==
    ASSUME NEW x \in Int, NEW lo \in Int, NEW hi \in Int, hi > lo,
           Modulus * lo <= x, x < Modulus * hi
    PROVE  x \div Modulus \in lo .. hi - 1
  <1>1. Modulus \in Nat \ {0}
    BY WordRange
  <1> DEFINE q == x \div Modulus
             r == x % Modulus
  <1>2. x = Modulus * q + r /\ q \in Int /\ r \in 0 .. Modulus - 1
    BY <1>1
  <1> HIDE DEF q, r
  <1>3. q < hi
    <2>1. q >= hi => Modulus * q >= Modulus * hi
      BY <1>1, <1>2
    <2> QED
      BY <1>1, <1>2, <2>1
  <1>4. q >= lo
    <2>1. q <= lo - 1 => Modulus * q <= Modulus * (lo - 1)
      BY <1>1, <1>2
    <2>2. Modulus * (lo - 1) = Modulus * lo - Modulus
      BY <1>1
    <2> QED
      BY <1>1, <1>2, <2>1, <2>2
  <1> QED
    BY <1>2, <1>3, <1>4 DEF q

(* A product is no larger than the product of bounds on its factors.       *)
LEMMA ProductBound ==
    ASSUME NEW x \in Int, NEW y \in Int, NEW m \in Nat, NEW n \in Nat,
           -m <= x, x <= m, -n <= y, y <= n
    PROVE  -(m * n) <= x * y /\ x * y <= m * n
  <1>1. -(m * n) = (-m) * n /\ m * n \in Int /\ x * y \in Int /\ x * n \in Int
    OBVIOUS
  <1>2. (-m) * n <= x * n /\ x * n <= m * n
    OBVIOUS
  <1>3. x >= 0 => x * y <= x * n /\ -(x * n) <= x * y
    OBVIOUS
  <1>4. x < 0 => x * y <= -(x * n) /\ x * n <= x * y
    OBVIOUS
  <1> QED
    BY <1>1, <1>2, <1>3, <1>4

(* The low half of a product is that of the words its factors stand for.   *)
LEMMA ProductParts ==
    ASSUME NEW a \in 0 .. MaxWord, NEW b \in 0 .. MaxWord,
           NEW x \in Int, NEW y \in Int, Congruent(x, a), Congruent(y, b)
    PROVE  /\ Cut(x * y) = Cut(a * b)
           /\ x * y = Modulus * ((x * y) \div Modulus) + Cut(a * b)
  <1>1. Modulus \in Nat \ {0} /\ a \in Int /\ b \in Int
    BY WordRange
  <1>2. a * b \in Int /\ x * y \in Int
    BY <1>1
  <1>3. Congruent(x * y, a * b)
    <2> HIDE DEF Congruent
    <2> QED
      BY <1>1, CongruentProduct
  <1>4. Cut(x * y) = Cut(a * b)
    BY <1>2, <1>3, CongruentCut
  <1> DEFINE z == x * y
  <1>5. z = (Modulus * (z \div Modulus)) + (z % Modulus)
    <2> HIDE DEF z
    <2>1. z \in Int
      BY <1>2 DEF z
    <2> QED
      BY <1>1, <2>1
  <1> QED
    BY <1>4, <1>5 DEF Cut

(* The high halves and MUL are one product: of the words, of the signed    *)
(* numbers, and of one of each.                                            *)
THEOREM ProductHalvesAgree ==
    ASSUME NEW a \in 0 .. MaxWord, NEW b \in 0 .. MaxWord
    PROVE  LET low == AluResult("MUL", a, b)
           IN  /\ a * b = Modulus * AluResult("MULHU", a, b) + low
               /\ AsSigned(a) * AsSigned(b)
                     = Modulus * AsSigned(AluResult("MULH", a, b)) + low
               /\ AsSigned(a) * b
                     = Modulus * AsSigned(AluResult("MULHSU", a, b)) + low
  <1> DEFINE n == AsSigned(a)
             d == AsSigned(b)
  <1>1. /\ Half \in Nat \ {0} /\ Modulus = 2 * Half /\ Modulus \in Nat \ {0}
        /\ MaxWord = Modulus - 1 /\ a \in Int /\ b \in Int
    BY WordRange
  <1>2. n \in -Half .. Half - 1 /\ d \in -Half .. Half - 1 /\ n \in Int /\ d \in Int
    BY <1>1, SignedRange
  <1>3. Congruent(n, a) /\ Congruent(d, b) /\ Congruent(a, a) /\ Congruent(b, b)
    BY <1>1, CongruentSigned, CongruentCut
  <1>4. /\ Cut(n * d) = Cut(a * b)
        /\ a * b = Modulus * ((a * b) \div Modulus) + Cut(a * b)
        /\ n * d = Modulus * ((n * d) \div Modulus) + Cut(a * b)
        /\ n * b = Modulus * ((n * b) \div Modulus) + Cut(a * b)
    <2> HIDE DEF n, d
    <2>1. a * b = Modulus * ((a * b) \div Modulus) + Cut(a * b)
      BY <1>1, <1>3, ProductParts
    <2>2. /\ Cut(n * d) = Cut(a * b)
          /\ n * d = Modulus * ((n * d) \div Modulus) + Cut(a * b)
      BY <1>1, <1>2, <1>3, ProductParts
    <2>3. n * b = Modulus * ((n * b) \div Modulus) + Cut(a * b)
      BY <1>1, <1>2, <1>3, ProductParts
    <2> QED
      BY <2>1, <2>2, <2>3
  <1>5. AluResult("MUL", a, b) = Cut(a * b)
    BY <1>4 DEF AluResult
  <1>6. Cut((a * b) \div Modulus) = (a * b) \div Modulus
    <2>1. a * b \in Int /\ Modulus * 0 <= a * b
      BY <1>1
    <2>2. a * b < Modulus * Modulus
      <3>1. a * b <= a * Modulus
        BY <1>1
      <3>2. CASE a = 0
        BY <1>1, <3>2
      <3>3. CASE a > 0
        <4>1. a * Modulus < Modulus * Modulus
          BY <1>1, <3>3
        <4> QED
          BY <1>1, <2>1, <3>1, <4>1
      <3> QED
        BY <1>1, <3>2, <3>3
    <2>3. (a * b) \div Modulus \in 0 .. Modulus - 1
      BY <1>1, <2>1, <2>2, ProductFits
    <2> DEFINE q == (a * b) \div Modulus
    <2>4. q \in 0 .. MaxWord
      BY <1>1, <2>3
    <2> HIDE DEF q
    <2>5. q = Modulus * 0 + q /\ 0 \in Int
      BY <1>1, <2>4
    <2>6. Cut(q) = q
      BY <2>4, <2>5, CutOf
    <2> QED
      BY <2>6 DEF q
  <1>7. ASSUME NEW y \in Int, -Half <= y, y <= Modulus - 1
        PROVE  AsSigned(Cut((n * y) \div Modulus)) = (n * y) \div Modulus
    <2> HIDE DEF n
    <2>1. n * y \in Int
      BY <1>2
    <2>2. Modulus * (-Half) <= n * y /\ n * y < Modulus * Half
      <3>1. -(Half * (Modulus - 1)) <= n * y /\ n * y <= Half * (Modulus - 1)
        <4>1. -Half <= n /\ n <= Half /\ -(Modulus - 1) <= y /\ y <= Modulus - 1
          BY <1>1, <1>2, <1>7
        <4>2. Half \in Nat /\ Modulus - 1 \in Nat
          BY <1>1
        <4> QED
          BY <1>2, <4>1, <4>2, ProductBound
      <3>2. Half * (Modulus - 1) = Modulus * Half - Half
        BY <1>1
      <3>3. Modulus * (-Half) = -(Modulus * Half) /\ Modulus * Half \in Int
        BY <1>1
      <3> QED
        BY <1>1, <2>1, <3>1, <3>2, <3>3
    <2>3. (n * y) \div Modulus \in -Half .. Half - 1
      <3>1. -Half \in Int /\ Half \in Int /\ Half > -Half
        BY <1>1
      <3> QED
        BY <2>1, <2>2, <3>1, ProductFits
    <2> QED
      BY <2>3, SignedCut
  <1>8. /\ AsSigned(Cut((n * d) \div Modulus)) = (n * d) \div Modulus
        /\ AsSigned(Cut((n * b) \div Modulus)) = (n * b) \div Modulus
    BY <1>1, <1>2, <1>7
  <1>9. /\ AluResult("MULHU", a, b) = Cut((a * b) \div Modulus)
        /\ AluResult("MULH", a, b) = Cut((n * d) \div Modulus)
        /\ AluResult("MULHSU", a, b) = Cut((n * b) \div Modulus)
    BY DEF AluResult
  <1> HIDE DEF n, d
  <1>10. /\ a * b = Modulus * AluResult("MULHU", a, b) + AluResult("MUL", a, b)
         /\ n * d = Modulus * AsSigned(AluResult("MULH", a, b)) + AluResult("MUL", a, b)
         /\ n * b = Modulus * AsSigned(AluResult("MULHSU", a, b)) + AluResult("MUL", a, b)
    BY <1>4, <1>5, <1>6, <1>8, <1>9
  <1> QED
    BY <1>10 DEF n, d

-----------------------------------------------------------------------------
(* Bits *)

Positions == 0 .. WordBits - 1

(* Bit i of an integer, a negative one in two's complement.                *)
Bit(x, i) == (x \div Pow2[i]) % 2

(* The power of a sum is the product of the powers.                        *)
LEMMA PowersMultiply ==
    ASSUME NEW m \in Nat, NEW n \in Nat
    PROVE  Pow2[m + n] = Pow2[m] * Pow2[n]
  <1> DEFINE T == {k \in Nat : Pow2[m + k] = Pow2[m] * Pow2[k]}
  <1>1. Pow2[m] \in Nat \ {0}
    BY PowersOfTwo
  <1>2. 0 \in T
    BY <1>1, PowersOfTwo
  <1>3. ASSUME NEW k \in T PROVE k + 1 \in T
    <2>1. k \in Nat /\ m + k \in Nat /\ m + (k + 1) = (m + k) + 1
      OBVIOUS
    <2>2. Pow2[m + (k + 1)] = 2 * Pow2[m + k] /\ Pow2[k + 1] = 2 * Pow2[k]
      BY <2>1, PowersOfTwo
    <2>3. Pow2[k] \in Int /\ Pow2[m + k] = Pow2[m] * Pow2[k]
      BY <2>1, PowersOfTwo
    <2>4. Pow2[m] * (2 * Pow2[k]) = 2 * (Pow2[m] * Pow2[k])
      BY <1>1, <2>3
    <2> QED
      BY <2>1, <2>2, <2>3, <2>4
  <1> HIDE DEF T
  <1>4. T \in SUBSET Nat
    BY DEF T
  <1>5. n \in T
    BY <1>2, <1>3, <1>4, Induction
  <1> QED
    BY <1>5 DEF T

(* The weight of a bit divides a word's number of values, twice.           *)
LEMMA WeightDividesWord ==
    ASSUME NEW i \in Positions
    PROVE  /\ i \in Nat /\ Pow2[i] \in Nat \ {0}
           /\ \E c \in Nat \ {0} : Modulus = Pow2[i] * (2 * c)
  <1>1. i \in Nat /\ WordBits - 1 - i \in Nat /\ i + (WordBits - 1 - i) = WordBits - 1
    BY WordAssumption DEF Positions
  <1>2. Pow2[i] \in Nat \ {0} /\ Pow2[WordBits - 1 - i] \in Nat \ {0}
    BY <1>1, PowersOfTwo
  <1>3. Half = Pow2[i] * Pow2[WordBits - 1 - i]
    BY <1>1, PowersMultiply DEF Half
  <1> DEFINE c == Pow2[WordBits - 1 - i]
  <1>4. Modulus = Pow2[i] * (2 * c)
    BY <1>2, <1>3, WordRange
  <1> HIDE DEF c
  <1>5. c \in Nat \ {0}
    BY <1>2 DEF c
  <1> QED
    BY <1>1, <1>2, <1>4, <1>5

(* Adding a multiple of twice a weight changes no bit of that weight.      *)
LEMMA BitOfSum ==
    ASSUME NEW p \in Nat \ {0}, NEW x \in Int, NEW k \in Int
    PROVE  ((p * (2 * k) + x) \div p) % 2 = (x \div p) % 2
  <1> DEFINE q == x \div p
             r == x % p
             y == p * (2 * k) + x
  <1>1. x = p * q + r /\ q \in Int /\ r \in 0 .. p - 1
    OBVIOUS
  <1> HIDE DEF q, r
  <1>2. y = p * (2 * k + q) + r /\ y \in Int /\ 2 * k + q \in Int
    BY <1>1
  <1> HIDE DEF y
  <1>3. y \div p = 2 * k + q
    BY <1>1, <1>2, DivisionUnique
  <1>4. (2 * k + q) % 2 = q % 2
    BY <1>1
  <1> QED
    BY <1>3, <1>4 DEF y, q

(* Congruent numbers have the same bits in the positions of a word.        *)
LEMMA CutKeepsBits ==
    ASSUME NEW x \in Int, NEW y \in Int, Congruent(x, y), NEW i \in Positions
    PROVE  Bit(x, i) = Bit(y, i)
  <1>1. PICK k \in Int : x = Modulus * k + y
    BY DEF Congruent
  <1>2. PICK c \in Nat \ {0} : Modulus = Pow2[i] * (2 * c)
    BY WeightDividesWord
  <1>3. Pow2[i] \in Nat \ {0}
    BY WeightDividesWord
  <1>4. c * k \in Int /\ Modulus * k = Pow2[i] * (2 * (c * k))
    <2> DEFINE p == Pow2[i]
    <2> HIDE DEF p
    <2>1. p \in Int /\ Modulus = p * (2 * c)
      BY <1>2, <1>3 DEF p
    <2>2. Modulus * k = p * (2 * (c * k))
      BY <2>1
    <2> QED
      BY <2>2 DEF p
  <1>5. x = Pow2[i] * (2 * (c * k)) + y
    BY <1>1, <1>4
  <1>6. ((Pow2[i] * (2 * (c * k)) + y) \div Pow2[i]) % 2 = (y \div Pow2[i]) % 2
    BY <1>3, <1>4, BitOfSum
  <1> QED
    BY <1>5, <1>6, Zenon DEF Bit

(* Dividing twice is dividing by the product.                              *)
LEMMA DivideTwice ==
    ASSUME NEW x \in Int, NEW p \in Nat \ {0}, NEW q \in Nat \ {0}
    PROVE  (x \div p) \div q = x \div (p * q)
  <1> DEFINE y == x \div p
             r == x % p
             z == y \div q
             s == y % q
  <1>1. x = p * y + r /\ y \in Int /\ r \in 0 .. p - 1
    OBVIOUS
  <1> HIDE DEF y, r
  <1>2. y = q * z + s /\ z \in Int /\ s \in 0 .. q - 1
    BY <1>1
  <1> HIDE DEF z, s
  <1>3. p * q \in Nat \ {0}
    OBVIOUS
  <1>4. x = (p * q) * z + (p * s + r)
    <2>1. x = p * (q * z + s) + r
      BY <1>1, <1>2
    <2> QED
      BY <1>1, <1>2, <2>1
  <1>5. p * s + r \in 0 .. p * q - 1
    <2>1. p * s <= p * (q - 1) /\ 0 <= p * s /\ p * s \in Int
      BY <1>2
    <2>2. p * (q - 1) = p * q - p
      OBVIOUS
    <2> QED
      BY <1>1, <1>3, <2>1, <2>2
  <1>6. x \div (p * q) = z
    <2> DEFINE d == p * q
               t == p * s + r
    <2>1. d \in Nat \ {0} /\ t \in 0 .. d - 1 /\ x = d * z + t
      BY <1>3, <1>4, <1>5
    <2> HIDE DEF d, t
    <2>2. x \div d = z
      BY <1>2, <2>1, DivisionUnique
    <2> QED
      BY <2>2 DEF d
  <1> QED
    BY <1>6 DEF z, y

(* WordOf adds the weights of its bits, the lowest first.                  *)
Weight(S, n) == IF n \in S THEN Pow2[n] ELSE 0

LEMMA WordIsSum ==
    ASSUME NEW S
    PROVE  \E low \in [Nat -> Int] :
              /\ low[0] = 0
              /\ \A n \in Nat : low[n + 1] = low[n] + Weight(S, n)
              /\ low[WordBits] = WordOf(S)
  <1> DEFINE step == [n \in Nat |-> [v \in Int |-> v + Weight(S, n)]]
             Sums(f) == f = [n \in Nat |->
                 IF n = 0 THEN 0
                 ELSE f[n - 1] + (IF n - 1 \in S THEN Pow2[n - 1] ELSE 0)]
  <1>1. \A n \in Nat : Weight(S, n) \in Int
    BY PowersOfTwo DEF Weight
  <1>2. step \in [Nat -> [Int -> Int]] /\ 0 \in Int
    BY <1>1
  <1>3. PICK f \in [Nat -> Int] :
            f[0] = 0 /\ \A n \in Nat : f[n + 1] = step[n][f[n]]
    <2> HIDE DEF step
    <2> QED
      BY <1>2, Recursion, Zenon
  <1>4. \A n \in Nat : f[n + 1] = f[n] + Weight(S, n)
    BY <1>3
  <1>5. Sums(f)
    <2>1. ASSUME NEW n \in Nat
          PROVE  f[n] = IF n = 0 THEN 0
                        ELSE f[n - 1] + (IF n - 1 \in S THEN Pow2[n - 1] ELSE 0)
      <3>1. CASE n = 0
        BY <1>3, <3>1
      <3>2. CASE n # 0
        <4>1. n - 1 \in Nat /\ (n - 1) + 1 = n
          BY <3>2
        <4>2. f[n] = f[n - 1] + Weight(S, n - 1)
          BY <1>4, <4>1
        <4> QED
          BY <3>2, <4>2 DEF Weight
      <3> QED
        BY <3>1, <3>2
    <2> QED
      BY <1>3, <2>1
  <1> DEFINE low == CHOOSE g : Sums(g)
  <1>6. Sums(low)
    <2> HIDE DEF Sums
    <2> QED
      BY <1>5
  <1>7. low[WordBits] = WordOf(S)
    BY Zenon DEF WordOf
  <1> HIDE DEF low
  <1>8. low[0] = 0
    BY <1>6
  <1>9. ASSUME NEW n \in Nat PROVE low[n + 1] = low[n] + Weight(S, n)
    <2>1. n + 1 \in Nat /\ n + 1 # 0 /\ (n + 1) - 1 = n
      OBVIOUS
    <2> QED
      BY <1>6, <2>1 DEF Weight
  <1>10. \A n \in Nat : low[n] \in Int
    <2> DEFINE T == {n \in Nat : low[n] \in Int}
    <2>1. 0 \in T
      BY <1>8
    <2>2. ASSUME NEW n \in T PROVE n + 1 \in T
      BY <1>1, <1>9
    <2> HIDE DEF T
    <2>3. T \in SUBSET Nat
      BY DEF T
    <2>4. T = Nat
      BY <2>1, <2>2, <2>3, Induction
    <2> QED
      BY <2>4 DEF T
  <1>11. low \in [Nat -> Int]
    BY <1>6, <1>10
  <1> QED
    BY <1>7, <1>8, <1>9, <1>11

(* Bit i of a sum of weights is whether i is among them.                   *)
LEMMA BitsOfWord ==
    ASSUME NEW S
    PROVE  /\ WordOf(S) \in 0 .. MaxWord
           /\ BitsOf(WordOf(S)) = S \cap Positions
  <1>1. PICK low \in [Nat -> Int] :
            /\ low[0] = 0
            /\ \A n \in Nat : low[n + 1] = low[n] + Weight(S, n)
            /\ low[WordBits] = WordOf(S)
    BY WordIsSum
  <1>2. \A n \in Nat : low[n] \in 0 .. Pow2[n] - 1
    <2> DEFINE T == {n \in Nat : low[n] \in 0 .. Pow2[n] - 1}
    <2>1. 0 \in T
      BY <1>1, PowersOfTwo
    <2>2. ASSUME NEW n \in T PROVE n + 1 \in T
      <3>1. Pow2[n] \in Nat \ {0} /\ Pow2[n + 1] = 2 * Pow2[n] /\ low[n] \in 0 .. Pow2[n] - 1
        BY PowersOfTwo
      <3>2. Weight(S, n) \in {0, Pow2[n]}
        BY DEF Weight
      <3>3. low[n + 1] = low[n] + Weight(S, n)
        BY <1>1
      <3> QED
        BY <3>1, <3>2, <3>3
    <2> HIDE DEF T
    <2>3. T \in SUBSET Nat
      BY DEF T
    <2>4. T = Nat
      BY <2>1, <2>2, <2>3, Induction
    <2> QED
      BY <2>4 DEF T
  <1>3. WordOf(S) \in 0 .. MaxWord
    BY <1>1, <1>2, WordAssumption DEF MaxWord, Modulus
  <1>4. ASSUME NEW i \in Positions
        PROVE  Bit(WordOf(S), i) = IF i \in S THEN 1 ELSE 0
    <2> DEFINE p == Pow2[i]
               T == {n \in Nat : \E k \in Int :
                         low[(i + 1) + n] = p * (2 * k) + low[i + 1]}
    <2>1. i \in Nat /\ p \in Nat \ {0}
      BY WeightDividesWord
    <2>2. 0 \in T
      <3>1. (i + 1) + 0 = i + 1 /\ low[i + 1] \in Int
        BY <2>1
      <3> HIDE DEF p
      <3>2. low[i + 1] = p * (2 * 0) + low[i + 1] /\ 0 \in Int
        BY <2>1, <3>1
      <3> QED
        BY <3>1, <3>2
    <2>3. ASSUME NEW n \in T PROVE n + 1 \in T
      <3>1. PICK k \in Int : low[(i + 1) + n] = p * (2 * k) + low[i + 1]
        OBVIOUS
      <3>2. n \in Nat /\ (i + 1) + (n + 1) = ((i + 1) + n) + 1 /\ (i + 1) + n \in Nat
        BY <2>1
      <3>3. low[(i + 1) + (n + 1)] = low[(i + 1) + n] + Weight(S, (i + 1) + n)
        BY <1>1, <3>2
      <3>4. PICK j \in Int : Weight(S, (i + 1) + n) = p * (2 * j)
        <4>1. Pow2[(i + 1) + n] = Pow2[i + 1] * Pow2[n] /\ Pow2[i + 1] = 2 * p
          BY <2>1, <3>2, PowersMultiply, PowersOfTwo
        <4>2. Pow2[n] \in Int
          BY <3>2, PowersOfTwo
        <4> HIDE DEF p
        <4>3. Pow2[(i + 1) + n] = p * (2 * Pow2[n]) /\ p * (2 * 0) = 0
          BY <2>1, <4>1, <4>2
        <4>4. Weight(S, (i + 1) + n) = p * (2 * Pow2[n]) \/ Weight(S, (i + 1) + n) = p * (2 * 0)
          BY <4>3 DEF Weight
        <4> QED
          BY <4>2, <4>4
      <3> HIDE DEF p
      <3>5. low[i + 1] \in Int
        BY <2>1
      <3>6. low[(i + 1) + (n + 1)] = p * (2 * (k + j)) + low[i + 1] /\ k + j \in Int
        BY <2>1, <3>1, <3>3, <3>4, <3>5
      <3>7. n + 1 \in Nat
        BY <3>2
      <3> QED
        BY <3>6, <3>7
    <2> HIDE DEF T
    <2>4. T = Nat
      <3>1. T \in SUBSET Nat
        BY DEF T
      <3> QED
        BY <2>2, <2>3, <3>1, Induction
    <2>5. PICK k \in Int : WordOf(S) = p * (2 * k) + low[i + 1]
      <3>1. WordBits - (i + 1) \in Nat /\ (i + 1) + (WordBits - (i + 1)) = WordBits
        BY WordAssumption DEF Positions
      <3> QED
        BY <1>1, <2>4, <3>1 DEF T
    <2>6. low[i + 1] = low[i] + Weight(S, i) /\ low[i] \in 0 .. p - 1
      BY <1>1, <1>2, <2>1
    <2>7. low[i + 1] \div p = IF i \in S THEN 1 ELSE 0
      <3>1. low[i + 1] = p * (IF i \in S THEN 1 ELSE 0) + low[i]
        BY <2>1, <2>6 DEF Weight
      <3> HIDE DEF p
      <3>2. low[i + 1] \in Int
        BY <2>1
      <3> QED
        BY <2>1, <2>6, <3>1, <3>2, DivisionUnique
    <2> HIDE DEF p
    <2>8. (WordOf(S) \div p) % 2 = (low[i + 1] \div p) % 2
      <3>1. low[i + 1] \in Int
        BY <2>1
      <3>2. ((p * (2 * k) + low[i + 1]) \div p) % 2 = (low[i + 1] \div p) % 2
        BY <2>1, <3>1, BitOfSum
      <3> QED
        BY <2>5, <3>2, Zenon
    <2> QED
      BY <2>7, <2>8 DEF Bit, p
  <1> QED
    BY <1>3, <1>4 DEF BitsOf, Positions, Bit

(* A word is determined by its bits.                                       *)
LEMMA WordOfItsBits ==
    ASSUME NEW a \in 0 .. MaxWord
    PROVE  WordOf(BitsOf(a)) = a
  <1> DEFINE S == BitsOf(a)
  <1>1. PICK low \in [Nat -> Int] :
            /\ low[0] = 0
            /\ \A n \in Nat : low[n + 1] = low[n] + Weight(S, n)
            /\ low[WordBits] = WordOf(S)
    BY WordIsSum
  <1> DEFINE T == {n \in Nat : n <= WordBits => low[n] = a % Pow2[n]}
  <1>2. a \in Nat
    BY WordRange
  <1>3. 0 \in T
    BY <1>1, <1>2, PowersOfTwo
  <1>4. ASSUME NEW n \in T PROVE n + 1 \in T
    <2> SUFFICES ASSUME n + 1 <= WordBits PROVE low[n + 1] = a % Pow2[n + 1]
      OBVIOUS
    <2>1. n \in Positions /\ low[n] = a % Pow2[n] /\ n \in Nat
      BY WordAssumption DEF Positions
    <2> DEFINE p == Pow2[n]
               q == a \div p
               b == q % 2
               h == q \div 2
               r == a % p
    <2>2. p \in Nat \ {0} /\ Pow2[n + 1] = 2 * p
      BY <2>1, PowersOfTwo
    <2>3. Weight(S, n) = p * b
      <3>1. n \in S <=> b = 1
        BY <2>1 DEF BitsOf, Positions
      <3>2. b \in {0, 1}
        <4>1. q \in Int
          <5> HIDE DEF p
          <5> QED
            BY <1>2, <2>2
        <4> HIDE DEF q
        <4> QED
          BY <4>1
      <3> HIDE DEF S, b
      <3> QED
        BY <2>2, <3>1, <3>2 DEF Weight
    <2> HIDE DEF p
    <2>4. a = p * q + r /\ q \in Int /\ r \in 0 .. p - 1
      BY <1>2, <2>2
    <2> HIDE DEF q, r
    <2>5. q = 2 * h + b /\ h \in Int /\ b \in {0, 1}
      BY <2>4
    <2> HIDE DEF h, b
    <2>6. a = (2 * p) * h + (p * b + r) /\ p * b + r \in 0 .. 2 * p - 1
      <3>1. a = p * (2 * h + b) + r
        BY <2>4, <2>5
      <3>2. p * (2 * h + b) = (2 * p) * h + p * b
        BY <2>2, <2>5
      <3> QED
        BY <2>2, <2>4, <2>5, <3>1, <3>2
    <2>7. a % (2 * p) = p * b + r
      <3> DEFINE d == 2 * p
                 t == p * b + r
      <3>1. d \in Nat \ {0} /\ a = d * h + t /\ t \in 0 .. d - 1
        BY <2>2, <2>6
      <3> HIDE DEF d, t
      <3>2. a % d = t
        <4>1. a \in Int /\ h \in Int
          BY <1>2, <2>5
        <4> HIDE DEF S, T, Weight
        <4> QED
          BY <3>1, <4>1, DivisionUnique
      <3> QED
        BY <3>2 DEF d, t
    <2>8. low[n + 1] = r + p * b
      BY <1>1, <2>1, <2>3 DEF r, p
    <2> QED
      BY <2>2, <2>4, <2>5, <2>7, <2>8
  <1> HIDE DEF T
  <1>5. WordBits \in T
    <2>1. T \in SUBSET Nat
      BY DEF T
    <2>2. T = Nat
      BY <1>3, <1>4, <2>1, Induction
    <2> QED
      BY <2>2, WordAssumption
  <1>6. low[WordBits] = a % Modulus
    BY <1>5, WordAssumption DEF T, Modulus
  <1>7. a % Modulus = a
    BY WordRange
  <1> QED
    BY <1>1, <1>6, <1>7

(* XOR, OR and AND combine the words bit by bit; XOR with the same word    *)
(* twice gives the first back.                                             *)
THEOREM BitwiseIsBitByBit ==
    ASSUME NEW a \in 0 .. MaxWord, NEW b \in 0 .. MaxWord
    PROVE  /\ BitsOf(AluResult("OR", a, b)) = BitsOf(a) \cup BitsOf(b)
           /\ BitsOf(AluResult("AND", a, b)) = BitsOf(a) \cap BitsOf(b)
           /\ BitsOf(AluResult("XOR", a, b))
                 = {i \in Positions : (i \in BitsOf(a)) # (i \in BitsOf(b))}
           /\ AluResult("XOR", AluResult("XOR", a, b), b) = a
  <1> DEFINE A == BitsOf(a)
             B == BitsOf(b)
             X == (A \cup B) \ (A \cap B)
  <1>1. A \subseteq Positions /\ B \subseteq Positions
    BY DEF BitsOf, Positions
  <1>2. /\ AluResult("OR", a, b) = WordOf(A \cup B)
        /\ AluResult("AND", a, b) = WordOf(A \cap B)
        /\ AluResult("XOR", a, b) = WordOf(X)
    BY DEF AluResult
  <1> HIDE DEF A, B
  <1>3. BitsOf(WordOf(A \cup B)) = A \cup B
    <2>1. (A \cup B) \cap Positions = A \cup B
      BY <1>1
    <2> QED
      BY <2>1, BitsOfWord
  <1>4. BitsOf(WordOf(A \cap B)) = A \cap B
    <2>1. (A \cap B) \cap Positions = A \cap B
      BY <1>1
    <2> QED
      BY <2>1, BitsOfWord
  <1>5. BitsOf(WordOf(X)) = X
    <2>1. X \cap Positions = X
      BY <1>1
    <2> QED
      BY <2>1, BitsOfWord
  <1>6. X = {i \in Positions : (i \in A) # (i \in B)}
    BY <1>1
  <1>7. AluResult("XOR", WordOf(X), b) = a
    <2>1. AluResult("XOR", WordOf(X), b) = WordOf((X \cup B) \ (X \cap B))
      <3> HIDE DEF X
      <3> QED
        BY <1>5 DEF AluResult, B
    <2>2. (X \cup B) \ (X \cap B) = A
      OBVIOUS
    <2>3. WordOf(A) = a
      BY WordOfItsBits DEF A
    <2> QED
      BY <2>1, <2>2, <2>3
  <1> QED
    BY <1>2, <1>3, <1>4, <1>5, <1>6, <1>7 DEF A, B

(* The sign bit is the topmost.                                            *)
LEMMA SignBit ==
    ASSUME NEW a \in 0 .. MaxWord
    PROVE  WordBits - 1 \in BitsOf(a) <=> AsSigned(a) < 0
  <1>1. /\ Half \in Nat \ {0} /\ Modulus = 2 * Half /\ a \in 0 .. 2 * Half - 1
        /\ Pow2[WordBits - 1] = Half /\ WordBits - 1 \in 0 .. WordBits - 1
    BY WordRange, WordAssumption DEF Half
  <1>2. CASE a >= Half
    <2>1. a = Half * 1 + (a - Half) /\ a - Half \in 0 .. Half - 1 /\ 1 \in Int /\ a \in Int
      BY <1>1, <1>2
    <2>2. a \div Half = 1
      BY <1>1, <2>1, DivisionUnique
    <2> QED
      BY <1>1, <1>2, <2>2 DEF BitsOf, AsSigned
  <1>3. CASE a < Half
    <2>1. a = Half * 0 + a /\ a \in 0 .. Half - 1 /\ 0 \in Int /\ a \in Int
      BY <1>1, <1>3
    <2>2. a \div Half = 0
      BY <1>1, <2>1, DivisionUnique
    <2> QED
      BY <1>1, <1>3, <2>2 DEF BitsOf, AsSigned
  <1> QED
    BY <1>1, <1>2, <1>3

(* Shifting a number right by s moves bit i + s to bit i; where i + s is   *)
(* past the word there are copies of its sign.                             *)
LEMMA ShiftedRight ==
    ASSUME NEW x \in Int, NEW s \in Nat, NEW i \in Positions
    PROVE  /\ x \div Pow2[s] \in Int
           /\ Bit(x \div Pow2[s], i) = Bit(x, i + s)
           /\ i + s >= WordBits /\ x \in -Modulus .. MaxWord =>
                 Bit(x, i + s) = IF x < 0 THEN 1 ELSE 0
  <1>1. /\ i \in Nat /\ Pow2[i] \in Nat \ {0} /\ Pow2[s] \in Nat \ {0} /\ i + s \in Nat
        /\ Pow2[i + s] = Pow2[s] * Pow2[i]
    <2>1. i \in Nat
      BY DEF Positions
    <2>2. i + s = s + i /\ i + s \in Nat
      BY <2>1
    <2>3. Pow2[s + i] = Pow2[s] * Pow2[i]
      BY <2>1, PowersMultiply
    <2>4. Pow2[i + s] = Pow2[s] * Pow2[i]
      BY <2>2, <2>3, Zenon
    <2> QED
      BY <2>1, <2>2, <2>4, PowersOfTwo
  <1>2. x \div Pow2[s] \in Int
    <2> DEFINE p == Pow2[s]
    <2> HIDE DEF p
    <2>1. p \in Nat \ {0}
      BY <1>1 DEF p
    <2>2. x \div p \in Int
      BY <2>1
    <2> QED
      BY <2>2 DEF p
  <1>3. (x \div Pow2[s]) \div Pow2[i] = x \div (Pow2[s] * Pow2[i])
    BY <1>1, DivideTwice
  <1>4. Bit(x \div Pow2[s], i) = Bit(x, i + s)
    BY <1>1, <1>3 DEF Bit
  <1>5. ASSUME i + s >= WordBits, x \in -Modulus .. MaxWord
        PROVE  Bit(x, i + s) = IF x < 0 THEN 1 ELSE 0
    <2> DEFINE p == Pow2[i + s]
    <2>1. p \in Nat \ {0} /\ p >= Modulus
      <3>1. i + s - WordBits \in Nat /\ WordBits + (i + s - WordBits) = i + s
        BY <1>1, <1>5, WordAssumption
      <3>2. p = Modulus * Pow2[i + s - WordBits]
        BY <3>1, PowersMultiply, WordAssumption DEF Modulus
      <3>3. Pow2[i + s - WordBits] \in Nat \ {0} /\ Modulus \in Nat \ {0}
        BY <3>1, PowersOfTwo, WordRange
      <3> HIDE DEF p
      <3>4. p >= Modulus * 1
        BY <3>2, <3>3
      <3>5. p \in Nat \ {0}
        BY <1>1, PowersOfTwo DEF p
      <3> QED
        BY <3>3, <3>4, <3>5
    <2> HIDE DEF p
    <2>2. CASE x < 0
      <3>1. x = p * (-1) + (x + p) /\ x + p \in 0 .. p - 1 /\ -1 \in Int
        BY <1>5, <2>1, <2>2, WordRange
      <3>2. x \div p = -1
        BY <2>1, <3>1, DivisionUnique
      <3> QED
        BY <2>2, <3>2 DEF Bit, p
    <2>3. CASE ~(x < 0)
      <3>1. x = p * 0 + x /\ x \in 0 .. p - 1 /\ 0 \in Int
        BY <1>5, <2>1, <2>3, WordRange
      <3>2. x \div p = 0
        BY <2>1, <3>1, DivisionUnique
      <3> QED
        BY <2>3, <3>2 DEF Bit, p
    <2> QED
      BY <2>2, <2>3
  <1> QED
    BY <1>2, <1>4, <1>5

(* Shifting left by s moves bit i to bit i + s, and brings in zeros.       *)
LEMMA ShiftedLeft ==
    ASSUME NEW x \in Int, NEW s \in Nat, NEW i \in Positions
    PROVE  Bit(x * Pow2[s], i) = IF i >= s THEN Bit(x, i - s) ELSE 0
  <1>1. i \in Nat /\ Pow2[i] \in Nat \ {0} /\ Pow2[s] \in Nat \ {0}
    <2>1. i \in Nat
      BY DEF Positions
    <2> QED
      BY <2>1, PowersOfTwo
  <1>2. CASE i >= s
    <2>1. i - s \in Nat /\ s + (i - s) = i
      BY <1>1, <1>2
    <2>2. Pow2[i] = Pow2[s] * Pow2[i - s] /\ Pow2[i - s] \in Nat \ {0}
      BY <2>1, PowersMultiply, PowersOfTwo
    <2>3. x * Pow2[s] \in Int
      BY <1>1
    <2>4. (x * Pow2[s]) \div (Pow2[s] * Pow2[i - s]) = ((x * Pow2[s]) \div Pow2[s]) \div Pow2[i - s]
      BY <1>1, <2>2, <2>3, DivideTwice
    <2>5. (x * Pow2[s]) \div Pow2[s] = x
      <3> DEFINE p == Pow2[s]
                 y == x * p
      <3>1. p \in Nat \ {0} /\ y \in Int /\ y = p * x + 0 /\ 0 \in 0 .. p - 1
        BY <1>1
      <3> HIDE DEF p, y
      <3>2. y \div p = x
        BY <3>1, DivisionUnique
      <3> QED
        BY <3>2 DEF p, y
    <2> QED
      BY <1>2, <2>2, <2>4, <2>5 DEF Bit
  <1>3. CASE ~(i >= s)
    <2>1. s - i - 1 \in Nat /\ i + ((s - i - 1) + 1) = s /\ (s - i - 1) + 1 \in Nat
      BY <1>1, <1>3
    <2> DEFINE c == Pow2[s - i - 1]
    <2>2. Pow2[s] = Pow2[i] * (2 * c) /\ c \in Nat \ {0}
      <3>1. Pow2[(s - i - 1) + 1] = 2 * c /\ c \in Nat \ {0}
        BY <2>1, PowersOfTwo
      <3>2. Pow2[i + ((s - i - 1) + 1)] = Pow2[i] * Pow2[(s - i - 1) + 1]
        BY <1>1, <2>1, PowersMultiply
      <3>3. Pow2[s] = Pow2[i] * Pow2[(s - i - 1) + 1]
        BY <2>1, <3>2, Zenon
      <3> QED
        BY <3>1, <3>3
    <2> DEFINE p == Pow2[i]
               k == c * x
    <2> HIDE DEF c
    <2>3. x * Pow2[s] = p * (2 * k) + 0 /\ k \in Int
      <3> HIDE DEF p
      <3>1. p \in Nat \ {0} /\ Pow2[s] = p * (2 * c)
        BY <1>1, <2>2 DEF p
      <3>2. x * (p * (2 * c)) = p * (2 * (c * x)) + 0
        BY <2>2, <3>1
      <3> QED
        BY <2>2, <3>1, <3>2
    <2> HIDE DEF k
    <2>4. ((p * (2 * k) + 0) \div p) % 2 = (0 \div p) % 2
      <3>1. p \in Nat \ {0} /\ 0 \in Int
        BY <1>1
      <3> HIDE DEF p
      <3> QED
        BY <2>3, <3>1, BitOfSum
    <2>5. (0 \div p) % 2 = 0
      <3>1. p \in Nat \ {0}
        BY <1>1
      <3> HIDE DEF p
      <3>2. 0 = p * 0 + 0 /\ 0 \in 0 .. p - 1 /\ 0 \in Int
        BY <3>1
      <3>3. 0 \div p = 0
        BY <3>1, <3>2, DivisionUnique
      <3> QED
        BY <3>3
    <2>6. Bit(x * Pow2[s], i) = 0
      BY <2>3, <2>4, <2>5, Zenon DEF Bit, p
    <2> QED
      BY <1>3, <2>6
  <1> QED
    BY <1>2, <1>3

(* SLL, SRL and SRA move bits: what leaves the word is lost, what enters   *)
(* is zero, or the sign for SRA.                                           *)
THEOREM ShiftsMoveBits ==
    ASSUME NEW a \in 0 .. MaxWord, NEW b \in 0 .. MaxWord
    PROVE  LET s == Shamt(b)
           IN  /\ BitsOf(AluResult("SLL", a, b)) = {i \in Positions : i - s \in BitsOf(a)}
               /\ BitsOf(AluResult("SRL", a, b)) = {i \in Positions : i + s \in BitsOf(a)}
               /\ BitsOf(AluResult("SRA", a, b)) =
                     {i \in Positions : IF i + s < WordBits THEN i + s \in BitsOf(a)
                                        ELSE WordBits - 1 \in BitsOf(a)}
  <1> DEFINE s == Shamt(b)
             n == AsSigned(a)
  <1>1. a \in Int /\ b \in Int /\ s \in Nat /\ a \in 0 .. MaxWord /\ WordBits \in Nat \ {0}
    BY WordRange, WordAssumption DEF Shamt
  <1>2. /\ Half \in Nat \ {0} /\ Modulus = 2 * Half /\ n \in -Half .. Half - 1
        /\ Congruent(n, a) /\ n \in Int /\ MaxWord = Modulus - 1
    BY WordRange, SignedRange, CongruentSigned
  <1> HIDE DEF s, n
  <1>3. \A x : BitsOf(x) = {i \in Positions : Bit(x, i) = 1}
    BY DEF BitsOf, Bit, Positions
  <1>4. /\ AluResult("SLL", a, b) = Cut(a * Pow2[s])
        /\ AluResult("SRL", a, b) = a \div Pow2[s]
        /\ AluResult("SRA", a, b) = Cut(n \div Pow2[s])
    BY DEF AluResult, s, n
  <1>5. \A x \in Int : Cut(x) \in Int /\ Congruent(x, Cut(x))
    BY CutIsWord, CongruentCut
  <1>6. ASSUME NEW x \in Int, NEW i \in Positions PROVE Bit(Cut(x), i) = Bit(x, i)
    <2> HIDE DEF Congruent
    <2>1. Cut(x) \in Int /\ Congruent(x, Cut(x))
      BY <1>5
    <2>2. Bit(x, i) = Bit(Cut(x), i)
      BY <2>1, CutKeepsBits
    <2> QED
      BY <2>2
  <1>7. ASSUME NEW i \in Positions
        PROVE  Bit(Cut(a * Pow2[s]), i) = 1 <=> i - s \in BitsOf(a)
    <2>1. a * Pow2[s] \in Int
      BY <1>1, PowersOfTwo
    <2>2. Bit(Cut(a * Pow2[s]), i) = IF i >= s THEN Bit(a, i - s) ELSE 0
      BY <1>1, <1>6, <2>1, ShiftedLeft
    <2>3. i - s \in Positions <=> i >= s
      BY <1>1 DEF Positions
    <2>4. i - s \in BitsOf(a) <=> i >= s /\ Bit(a, i - s) = 1
      BY <1>3, <2>3
    <2> QED
      BY <2>2, <2>4
  <1>8. ASSUME NEW i \in Positions
        PROVE  Bit(a \div Pow2[s], i) = 1 <=> i + s \in BitsOf(a)
    <2>1. Bit(a \div Pow2[s], i) = Bit(a, i + s)
      BY <1>1, ShiftedRight
    <2>2. i + s >= WordBits => Bit(a, i + s) = 0
      <3>1. a \in -Modulus .. MaxWord /\ ~(a < 0)
        BY <1>1, <1>2
      <3> QED
        BY <1>1, <3>1, ShiftedRight
    <2>3. i + s \in Positions <=> ~(i + s >= WordBits)
      BY <1>1 DEF Positions
    <2> QED
      BY <1>3, <2>1, <2>2, <2>3
  <1>9. ASSUME NEW i \in Positions
        PROVE  Bit(Cut(n \div Pow2[s]), i) = 1 <=>
                  IF i + s < WordBits THEN i + s \in BitsOf(a)
                  ELSE WordBits - 1 \in BitsOf(a)
    <2>1. Bit(Cut(n \div Pow2[s]), i) = Bit(n, i + s)
      BY <1>1, <1>2, <1>6, ShiftedRight
    <2>2. ASSUME i + s < WordBits PROVE Bit(n, i + s) = 1 <=> i + s \in BitsOf(a)
      <3>1. i + s \in Positions
        BY <1>1, <2>2 DEF Positions
      <3>2. Bit(n, i + s) = Bit(a, i + s)
        BY <1>1, <1>2, <3>1, CutKeepsBits
      <3> QED
        BY <1>3, <3>1, <3>2
    <2>3. ASSUME ~(i + s < WordBits)
          PROVE  Bit(n, i + s) = 1 <=> WordBits - 1 \in BitsOf(a)
      <3>1. i + s >= WordBits /\ n \in -Modulus .. MaxWord
        BY <1>1, <1>2, <2>3 DEF Positions
      <3>2. Bit(n, i + s) = IF n < 0 THEN 1 ELSE 0
        BY <1>1, <1>2, <3>1, ShiftedRight
      <3>3. WordBits - 1 \in BitsOf(a) <=> n < 0
        BY SignBit DEF n
      <3> QED
        BY <3>2, <3>3
    <2> QED
      BY <2>1, <2>2, <2>3
  <1> QED
    BY <1>3, <1>4, <1>7, <1>8, <1>9 DEF s
=============================================================================
