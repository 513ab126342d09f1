------------------------------ MODULE CacheOps ------------------------------
(***************************************************************************)
(* The direct-mapped cache of src/src/CacheModel.cpp as operators on one   *)
(* record, so that DirectMappedCache can drive a cache by itself and       *)
(* CpuModel can hold two of them.                                          *)
(*                                                                         *)
(* A cache is [lines, stats]: lines maps an index to a Line, stats is      *)
(* CacheStats.  A configuration is [enabled, lines, latency, writeBack];   *)
(* line_bytes is 4 in every accepted configuration, and write_allocate is  *)
(* never read by the code.                                                 *)
(***************************************************************************)
EXTENDS Integers

LineBytes == 4

(* What configure() accepts of a CacheConfig, and what it then keeps. *)
IsPowerOfTwo(n) == n # 0 /\ \E k \in 0 .. n : n = 2 ^ k

Acceptable(raw) == IsPowerOfTwo(raw.lines) /\ raw.lineBytes = LineBytes

Accepted(raw) == [enabled |-> raw.enabled, lines |-> raw.lines,
                  latency |-> raw.latency, writeBack |-> raw.writeBack]

CacheConfig == [enabled : BOOLEAN, lines : Nat \ {0},
                latency : Nat, writeBack : BOOLEAN]

Line == [valid : BOOLEAN, dirty : BOOLEAN, tag : Nat]

CacheStats == [accesses : Nat, hits : Nat, misses : Nat, writebacks : Nat,
               reads : Nat, writes : Nat, stall : Nat]

CacheType(cfg) == [lines : [0 .. cfg.lines - 1 -> Line], stats : CacheStats]

EmptyLine == [valid |-> FALSE, dirty |-> FALSE, tag |-> 0]

ZeroCacheStats == [accesses |-> 0, hits |-> 0, misses |-> 0, writebacks |-> 0,
                   reads |-> 0, writes |-> 0, stall |-> 0]

(* configure() and reset() both leave every line and every counter zero. *)
ResetCache(cfg) == [lines |-> [i \in 0 .. cfg.lines - 1 |-> EmptyLine],
                    stats |-> ZeroCacheStats]

WordAddr(addr) == addr \div LineBytes
Index(cfg, addr) == WordAddr(addr) % cfg.lines
Tag(cfg, addr) == WordAddr(addr) \div cfg.lines

(* The line addr maps to holds the word at addr. *)
Resident(cfg, c, addr) ==
    /\ c.lines[Index(cfg, addr)].valid
    /\ c.lines[Index(cfg, addr)].tag = Tag(cfg, addr)

(* Mutated WouldHit: the enabled flag is not looked at. *)
WouldHitUnlessMissing(cfg, c, addr) == Resident(cfg, c, addr)

(* A disabled cache reports every address as a hit. *)
WouldHit(cfg, c, addr) == cfg.enabled => Resident(cfg, c, addr)

CleanMissPenalty(cfg) == cfg.latency + 4
DirtyMissPenalty(cfg) == 2 * cfg.latency + 7

(* Replacing the line addr maps to must first write it back. *)
EvictsDirty(cfg, c, addr) ==
    /\ c.lines[Index(cfg, addr)].valid
    /\ c.lines[Index(cfg, addr)].dirty
    /\ cfg.writeBack

(* Mutated AccessStall: a dirty victim costs no more than a clean one. *)
CleanStallOnly(cfg, c, addr) ==
    IF WouldHit(cfg, c, addr) THEN 0 ELSE CleanMissPenalty(cfg)

(* access().stall_cycles *)
AccessStall(cfg, c, addr) ==
    IF WouldHit(cfg, c, addr) THEN 0
    ELSE IF EvictsDirty(cfg, c, addr) THEN DirtyMissPenalty(cfg)
    ELSE CleanMissPenalty(cfg)

(* Mutated TouchedLine: a write hit does not mark the line dirty. *)
UnmarkedLine(cfg, line, isWrite) == line

(* The line after a hit: a write marks it dirty in a write-back cache. *)
TouchedLine(cfg, line, isWrite) ==
    [line EXCEPT !.dirty = @ \/ (isWrite /\ cfg.writeBack)]

(* Mutated FilledLine: a refill for a read is marked dirty as well. *)
AlwaysDirtyLine(cfg, addr, isWrite) ==
    [valid |-> TRUE, dirty |-> cfg.writeBack, tag |-> Tag(cfg, addr)]

(* The line after a refill. *)
FilledLine(cfg, addr, isWrite) ==
    [valid |-> TRUE, dirty |-> isWrite /\ cfg.writeBack, tag |-> Tag(cfg, addr)]

HitStats(s) ==
    [accesses   |-> s.accesses + 1,
     hits       |-> s.hits + 1,
     misses     |-> s.misses,
     writebacks |-> s.writebacks,
     reads      |-> s.reads,
     writes     |-> s.writes,
     stall      |-> s.stall]

(* Mutated MissStats: a miss that writes back is not counted as a read. *)
WritebackInsteadOfRead(s, stall, evictsDirty) ==
    [accesses   |-> s.accesses + 1,
     hits       |-> s.hits,
     misses     |-> s.misses + 1,
     writebacks |-> s.writebacks + (IF evictsDirty THEN 1 ELSE 0),
     reads      |-> s.reads + (IF evictsDirty THEN 0 ELSE 1),
     writes     |-> s.writes + (IF evictsDirty THEN 1 ELSE 0),
     stall      |-> s.stall + stall]

MissStats(s, stall, evictsDirty) ==
    [accesses   |-> s.accesses + 1,
     hits       |-> s.hits,
     misses     |-> s.misses + 1,
     writebacks |-> s.writebacks + (IF evictsDirty THEN 1 ELSE 0),
     reads      |-> s.reads + 1,
     writes     |-> s.writes + (IF evictsDirty THEN 1 ELSE 0),
     stall      |-> s.stall + stall]

(* The cache after access(addr, isWrite). *)
AfterAccess(cfg, c, addr, isWrite) ==
    IF ~cfg.enabled THEN c
    ELSE IF Resident(cfg, c, addr)
    THEN [lines |-> [c.lines EXCEPT ![Index(cfg, addr)] =
                                        TouchedLine(cfg, @, isWrite)],
          stats |-> HitStats(c.stats)]
    ELSE [lines |-> [c.lines EXCEPT ![Index(cfg, addr)] =
                                        FilledLine(cfg, addr, isWrite)],
          stats |-> MissStats(c.stats, AccessStall(cfg, c, addr),
                              EvictsDirty(cfg, c, addr))]

(* CacheAccessResult *)
AccessResult(cfg, c, addr) ==
    [hit       |-> WouldHit(cfg, c, addr),
     miss      |-> ~WouldHit(cfg, c, addr),
     writeback |-> ~WouldHit(cfg, c, addr) /\ EvictsDirty(cfg, c, addr),
     stall     |-> AccessStall(cfg, c, addr)]
=============================================================================
