---------------------------- MODULE CacheHistory ----------------------------
(***************************************************************************)
(* What a direct-mapped, write-back, one-word-per-line cache promises,     *)
(* stated over the history of accesses alone: no lines, no dirty bits and  *)
(* no counters.  DirectMappedCache is shown to implement this.             *)
(***************************************************************************)
EXTENDS CacheOps, Sequences, FiniteSets

CONSTANTS Addrs,        \* byte addresses the users of the cache present
          RawConfigs,   \* CacheConfig values handed to configure()
          MaxAccesses   \* bound on the accesses between two resets

VARIABLES config,   \* the configuration in force
          log,      \* the accesses an enabled cache served since the last reset
          ret,      \* what the last call answered
          stats     \* the counters the owner reads

vars == <<config, log, ret, stats>>

AcceptedConfigs == {Accepted(raw) : raw \in {r \in RawConfigs : Acceptable(r)}}

Conflicts(i, addr) == Index(config, log[i].addr) = Index(config, addr)
SameWord(i, addr) == WordAddr(log[i].addr) = WordAddr(addr)

(* After the first n accesses the word at addr is in the cache: it was      *)
(* accessed and nothing that maps to its line was accessed since.           *)
Present(n, addr) ==
    \E i \in 1 .. n : /\ SameWord(i, addr)
                      /\ \A k \in i + 1 .. n : ~Conflicts(k, addr)

(* After the first n accesses the line addr maps to holds unsaved data: a   *)
(* word was written and no other word of that line was accessed since.      *)
Unsaved(n, addr) ==
    /\ config.writeBack
    /\ \E i \in 1 .. n :
          /\ Conflicts(i, addr)
          /\ log[i].write
          /\ \A k \in i + 1 .. n : Conflicts(k, addr) => SameWord(k, log[i].addr)

Answer(n, addr) ==
    LET hit == config.enabled => Present(n, addr)
        writeback == ~hit /\ Unsaved(n, addr)
    IN  [call |-> "access", hit |-> hit, miss |-> ~hit, writeback |-> writeback,
         stall |-> IF hit THEN 0
                   ELSE IF writeback THEN DirtyMissPenalty(config)
                   ELSE CleanMissPenalty(config)]

(* The counters are what the history says they are. *)
Totals ==
    LET n == Len(log)
        missed == {i \in 1 .. n : ~Present(i - 1, log[i].addr)}
        saved == {i \in missed : Unsaved(i - 1, log[i].addr)}
        m == Cardinality(missed)
        w == Cardinality(saved)
    IN  [accesses |-> n, hits |-> n - m, misses |-> m, writebacks |-> w,
         reads |-> m, writes |-> w,
         stall |-> (m - w) * CleanMissPenalty(config) + w * DirtyMissPenalty(config)]

Init == /\ config \in AcceptedConfigs
        /\ log = << >>
        /\ ret = [call |-> "configure"]
        /\ stats = Totals

Access(addr, isWrite) ==
    /\ Len(log) < MaxAccesses
    /\ log' = IF config.enabled THEN Append(log, [addr |-> addr, write |-> isWrite])
              ELSE log
    /\ ret' = Answer(Len(log), addr)
    /\ config' = config
    /\ stats' = Totals'

Forget == log' = << >> /\ stats' = Totals'

Reset == /\ Forget
         /\ ret' = [call |-> "reset"]
         /\ config' = config

Configure(raw) ==
    \/ /\ Acceptable(raw)
       /\ config' = Accepted(raw)
       /\ Forget
       /\ ret' = [call |-> "configure"]
    \/ /\ ~Acceptable(raw)
       /\ ret' = [call |-> "invalid_argument"]
       /\ UNCHANGED <<config, log, stats>>

Next == \/ \E addr \in Addrs, isWrite \in BOOLEAN : Access(addr, isWrite)
        \/ Reset
        \/ \E raw \in RawConfigs : Configure(raw)

Spec == Init /\ [][Next]_vars
=============================================================================
