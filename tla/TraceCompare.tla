---------------------------- MODULE TraceCompare ----------------------------
(***************************************************************************)
(* The retirement trace the RTL collector writes, and every comparison the *)
(* scripts make between a trace of the model and one of the RTL.           *)
(*                                                                         *)
(* A trace is a sequence of rows [cycle, pc, insn, write, rd, wdata].  A   *)
(* row's numbers are written by two programs in one format (0x%08x, %0d),  *)
(* so comparing texts, as run_milestone3.py does, and comparing numbers,   *)
(* as the others do, is the same comparison.                               *)
(***************************************************************************)
EXTENDS Integers, Sequences, FiniteSets

(* Mutated Retires: a row for each cycle in which a writeback is held.     *)
RetiresHeldToo(c) == c.valid

(* perf_trace_collector: what the writeback stage shows in each clock      *)
(* cycle after reset is [valid, memstall, row].  A valid cycle that is not *)
(* a held one is a retirement and gets a row with the number of the cycle. *)
Retires(c) == c.valid /\ ~c.memstall

Collected(wb) ==
    LET Upto(t) == Cardinality({u \in 1 .. t : Retires(wb[u])})
        At(k) == CHOOSE t \in DOMAIN wb : Retires(wb[t]) /\ Upto(t) = k
    IN  [k \in 1 .. Upto(Len(wb)) |-> [wb[At(k)].row EXCEPT !.cycle = At(k)]]

-----------------------------------------------------------------------------

SameInsn(m, r) == m.pc = r.pc /\ m.insn = r.insn /\ m.write = r.write

SameResult(m, r) == m.rd = r.rd /\ m.wdata = r.wdata

(* rd and wdata mean nothing where no register is written.                 *)
SameRow(m, r) == SameInsn(m, r) /\ (m.write # 0 => SameResult(m, r))

(* compare_arch of the suite and of the divider scripts.                   *)
CompareArch(model, rtl) ==
    Len(model) = Len(rtl) /\ \A k \in DOMAIN model : SameRow(model[k], rtl[k])

(* arch_equal of run_milestone3, 3c and 3d.                                *)
ArchEqual(model, rtl) ==
    Len(model) = Len(rtl)
        /\ ~\E k \in DOMAIN model : \/ ~SameInsn(model[k], rtl[k])
                                    \/ model[k].write # 0 /\ ~SameResult(model[k], rtl[k])

(* arch_compare_stream of run_milestone4 reads both files in lock step and *)
(* returns at the first end or mismatch: all is well if it comes to a stop *)
(* at which both have ended, all rows before it being the same.            *)
ArchCompareStream(model, rtl) ==
    \E stop \in 1 .. Len(model) + 1 :
        /\ stop > Len(model) /\ stop > Len(rtl)
        /\ \A k \in 1 .. stop - 1 :
             k <= Len(model) /\ k <= Len(rtl) /\ SameRow(model[k], rtl[k])

(* compare_traces.py counts mismatching rows up to a limit, and a length   *)
(* difference as one more.  It looks at rd and wdata if either side writes.*)
RowDiffers(m, r, withCycle) ==
    \/ ~SameInsn(m, r)
    \/ (m.write # 0 \/ r.write # 0) /\ ~SameResult(m, r)
    \/ withCycle /\ m.cycle # r.cycle

Mismatches(model, rtl, withCycle, limit) ==
    LET both == DOMAIN model \cap DOMAIN rtl
        bad == Cardinality({k \in both : RowDiffers(model[k], rtl[k], withCycle)})
        counted == IF bad > limit THEN limit ELSE bad
    IN  counted + (IF Len(model) = Len(rtl) THEN 0 ELSE 1)

MaxMismatches == 20

CompareTraces(model, rtl, withCycle) ==
    IF Mismatches(model, rtl, withCycle, MaxMismatches) = 0 THEN 0 ELSE 1

-----------------------------------------------------------------------------

LastCycle(trace) == IF trace = << >> THEN 0 ELSE trace[Len(trace)].cycle

CycleValues(trace) == [k \in DOMAIN trace |-> trace[k].cycle]

(* Cache counters: functions from the columns a file has to numbers.       *)
CacheKeys == {"iAccesses", "iHits", "iMisses", "dAccesses", "dHits", "dMisses", "dWritebacks"}

Read(counters, key) == IF key \in DOMAIN counters THEN counters[key] ELSE 0

(* run_milestone3 compares the counters both sides have; 3c and 3d three   *)
(* of I$, run_milestone4 all seven, an absent column counting as zero.     *)
CommonCountersEqual(model, rtl) ==
    \A key \in CacheKeys \cap DOMAIN model \cap DOMAIN rtl : model[key] = rtl[key]

FetchCountersEqual(model, rtl) ==
    \A key \in {"iAccesses", "iHits", "iMisses"} : Read(model, key) = Read(rtl, key)

AllCountersEqual(model, rtl) == \A key \in CacheKeys : Read(model, key) = Read(rtl, key)
=============================================================================
