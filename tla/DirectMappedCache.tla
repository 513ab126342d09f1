-------------------------- MODULE DirectMappedCache --------------------------
(***************************************************************************)
(* class DirectMappedCacheModel (src/src/CacheModel.cpp,                   *)
(* src/include/rv32im/CacheModel.hpp) driven through its public interface: *)
(* the constructor, configure, reset and access.  would_hit is a query.    *)
(* Each call runs to completion, so each is one action.                    *)
(***************************************************************************)
EXTENDS CacheOps, Sequences, FiniteSets

CONSTANTS Addrs,        \* byte addresses presented to access()
          RawConfigs,   \* CacheConfig values handed to the constructor, configure()
          MaxAccesses   \* bound on the counted accesses between two resets

ASSUME CacheAssumption ==
    /\ Addrs \subseteq Nat
    /\ MaxAccesses \in Nat
    /\ \A raw \in RawConfigs :
          /\ raw.enabled \in BOOLEAN
          /\ raw.lines \in Nat
          /\ raw.lineBytes \in Nat
          /\ raw.latency \in Nat
          /\ raw.writeBack \in BOOLEAN

VARIABLES config,   \* config_
          cache,    \* lines_ and stats_
          ret,      \* what the last call returned, or the exception it threw
          log       \* ghost: the counted accesses since the last reset

vars == <<config, cache, ret, log>>

(* What the cache promises, with the counters as the stats it publishes. *)
History == INSTANCE CacheHistory WITH stats <- cache.stats

Init == \E raw \in RawConfigs :
           /\ Acceptable(raw)
           /\ config = Accepted(raw)
           /\ cache = ResetCache(config)
           /\ ret = [call |-> "configure"]
           /\ log = << >>

Access(addr, isWrite) ==
    /\ Len(log) < MaxAccesses
    /\ cache' = AfterAccess(config, cache, addr, isWrite)
    /\ ret' = [call      |-> "access",
               hit       |-> AccessResult(config, cache, addr).hit,
               miss      |-> AccessResult(config, cache, addr).miss,
               writeback |-> AccessResult(config, cache, addr).writeback,
               stall     |-> AccessResult(config, cache, addr).stall]
    /\ log' = IF config.enabled THEN Append(log, [addr |-> addr, write |-> isWrite])
              ELSE log
    /\ UNCHANGED config

Reset == /\ cache' = ResetCache(config)
         /\ ret' = [call |-> "reset"]
         /\ log' = << >>
         /\ UNCHANGED config

(* configure() validates before it assigns anything. *)
ConfigureRejected(raw) ==
    /\ ~Acceptable(raw)
    /\ ret' = [call |-> "invalid_argument"]
    /\ UNCHANGED <<config, cache, log>>

(* Mutated Configure: the line array keeps the size it had. *)
ConfigureKeepingLines(raw) ==
    /\ Acceptable(raw)
    /\ config' = Accepted(raw)
    /\ cache' = [cache EXCEPT !.stats = ZeroCacheStats]
    /\ ret' = [call |-> "configure"]
    /\ log' = << >>

Configure(raw) ==
    /\ Acceptable(raw)
    /\ config' = Accepted(raw)
    /\ cache' = ResetCache(Accepted(raw))
    /\ ret' = [call |-> "configure"]
    /\ log' = << >>

Next == \/ \E addr \in Addrs, isWrite \in BOOLEAN : Access(addr, isWrite)
        \/ Reset
        \/ \E raw \in RawConfigs : Configure(raw) \/ ConfigureRejected(raw)

Spec == Init /\ [][Next]_vars

-----------------------------------------------------------------------------

(* Type invariant: the line array always has the configured size, also     *)
(* after configure() has changed it, so an access never indexes past it.   *)
TypeOK == /\ config \in CacheConfig
          /\ cache \in CacheType(config)
          /\ log \in Seq([addr : Addrs, write : BOOLEAN])

(* The counters CpuModel publishes and main.cpp prints balance: an access  *)
(* is a hit or a miss, every miss is one AXI read, every writeback one AXI *)
(* write, and each writeback was caused by a miss.                         *)
TrafficBalance ==
    LET s == cache.stats IN
    /\ s.accesses = s.hits + s.misses
    /\ s.reads = s.misses
    /\ s.writes = s.writebacks
    /\ s.writebacks <= s.misses

(* No stall cycle is lost: the stall total is the clean penalty of each    *)
(* clean miss plus the dirty penalty of each miss that wrote back.         *)
StallBalance ==
    LET s == cache.stats IN
    s.stall = (s.misses - s.writebacks) * CleanMissPenalty(config)
              + s.writebacks * DirtyMissPenalty(config)

DirtyLines == {i \in DOMAIN cache.lines : cache.lines[i].valid /\ cache.lines[i].dirty}

(* The writes that put unsaved data where there was none: not those to a  *)
(* word that is still in the cache and dirty from an earlier write.         *)
DirtyingWrites ==
    {n \in DOMAIN log :
        /\ log[n].write
        /\ ~(/\ History!Present(n - 1, log[n].addr)
             /\ History!Unsaved(n - 1, log[n].addr))}

(* Unsaved data is neither lost nor invented: each write that put it into  *)
(* a write-back cache is matched by exactly one line that is still dirty   *)
(* or one writeback already made, and a line is dirty only if it is valid  *)
(* and the cache is write-back.                                            *)
DirtyDataAccounted ==
    /\ \A i \in DOMAIN cache.lines :
          cache.lines[i].dirty => cache.lines[i].valid /\ config.writeBack
    /\ cache.stats.writebacks + Cardinality(DirtyLines) =
          IF config.writeBack THEN Cardinality(DirtyingWrites) ELSE 0

(* Every answer, and every counter, is the one the access history defines. *)
ImplementsHistory == History!Spec
=============================================================================
