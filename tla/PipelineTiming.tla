--------------------------- MODULE PipelineTiming ---------------------------
(***************************************************************************)
(* class PipelineTimingModel (src/src/PipelineTimingModel.cpp) driven      *)
(* through its public interface: reset, add_external_stalls and retire.    *)
(* CpuModel calls add_external_stalls once before each retire, with the    *)
(* cache stalls of the instruction; here it may come any number of times.  *)
(***************************************************************************)
EXTENDS PipelineOps, Sequences, FiniteSets

CONSTANTS Insns,        \* instructions, as [op, fn, rd, rs1, rs2]
          StallCycles,  \* arguments of add_external_stalls
          MaxRetired,   \* bound on the instructions retired between two resets
          MaxHolds      \* bound on the add_external_stalls calls before a retire

ASSUME TimingUserAssumption ==
    /\ StallCycles \subseteq Nat
    /\ MaxRetired \in Nat
    /\ MaxHolds \in Nat
    /\ \A insn \in Insns : insn.rd \in Nat

VARIABLES timing,      \* stats_, the previous-instruction flags, accumulated_stalls_
          lastRetire,  \* retire_cycle of the last retire(), 0 after a reset
          history,     \* ghost: what was retired since the last reset
          held,        \* ghost: external stall cycles since the last retire
          external,    \* ghost: external stall cycles since the last reset
          holds        \* bound: add_external_stalls calls since the last retire

vars == <<timing, lastRetire, history, held, external, holds>>

Init == /\ timing = ResetTiming
        /\ lastRetire = 0
        /\ history = << >>
        /\ held = 0
        /\ external = 0
        /\ holds = 0

Reset == /\ timing' = ResetTiming
         /\ lastRetire' = 0
         /\ history' = << >>
         /\ held' = 0
         /\ external' = 0
         /\ holds' = 0

AddStalls(cycles) ==
    /\ holds < MaxHolds
    /\ holds' = holds + 1
    /\ timing' = AddExternalStalls(timing, cycles)
    /\ held' = held + cycles
    /\ external' = external + cycles
    /\ UNCHANGED <<lastRetire, history>>

(* Functional execution reports a taken branch only of a branch.           *)
Retire(insn, taken) ==
    /\ Len(history) < MaxRetired
    /\ taken => IsBranch(insn)
    /\ timing' = AfterRetire(timing, insn, taken)
    /\ lastRetire' = RetireCycle(timing, insn)
    /\ history' = Append(history, [insn |-> insn, taken |-> taken, held |-> held])
    /\ held' = 0
    /\ holds' = 0
    /\ UNCHANGED external

Next == \/ Reset
        \/ \E cycles \in StallCycles : AddStalls(cycles)
        \/ \E insn \in Insns, taken \in BOOLEAN : Retire(insn, taken)

Spec == Init /\ [][Next]_vars

-----------------------------------------------------------------------------

(* Type invariant: the counters never underflow. *)
TypeOK == /\ timing \in TimingType
          /\ lastRetire \in Nat
          /\ held \in Nat
          /\ external \in Nat
          /\ holds \in Nat

(* The identity PerformanceStats prints, with the external stalls as they  *)
(* were given rather than as they were accumulated: the published total is *)
(* the base cycles, fill and drain, every stall category once, and every   *)
(* cycle that was given to add_external_stalls before the last retire.  No *)
(* stall is lost or charged twice, and accumulated_stalls_ never holds     *)
(* anything else.                                                          *)
Hazards(t) == t.loadUse + t.branch + t.jump + t.divider

StallsAccounted ==
    /\ held <= external
    /\ timing.base = timing.retired
    /\ timing.acc = Hazards(timing) + external
    /\ timing.total =
          IF timing.retired = 0 THEN 0
          ELSE timing.base + timing.fill + Hazards(timing) + (external - held)

(* The reference the model was calibrated against, written over the whole  *)
(* instruction stream instead of step by step: one bubble per load whose   *)
(* next instruction consumes it, latency - 1 per divider burst, two cycles *)
(* per redirect.                                                           *)
Nth(i) == history[i].insn

LoadUsePairs ==
    {i \in 2 .. Len(history) :
        /\ IsLoad(Nth(i - 1))
        /\ Nth(i - 1).rd # 0
        /\ \/ UsesRs1(Nth(i)) /\ Nth(i).rs1 = Nth(i - 1).rd
           \/ UsesRs2(Nth(i)) /\ Nth(i).rs2 = Nth(i - 1).rd}

Dividers == {i \in DOMAIN history : IsDivRem(Nth(i))}
BurstStarts == {i \in Dividers : i - 1 \notin Dividers}
TakenBranches == {i \in DOMAIN history : IsBranch(Nth(i)) /\ history[i].taken}
Jumps == {i \in DOMAIN history : IsJump(Nth(i))}

MatchesStream ==
    /\ timing.retired = Len(history)
    /\ timing.loadUse = LoadUsePenalty * Cardinality(LoadUsePairs)
    /\ timing.divider =
          (IF DividerLatency > 0 THEN DividerLatency - 1 ELSE 0) * Cardinality(BurstStarts)
          + (IF DividerInterval > 1 THEN DividerInterval - 1 ELSE 0)
            * (Cardinality(Dividers) - Cardinality(BurstStarts))
    /\ timing.branch = TakenBranchPenalty * Cardinality(TakenBranches)
    /\ timing.jump = JumpRedirectPenalty * Cardinality(Jumps)

(* Retirements are in order and one at a time: each retire cycle is later  *)
(* than the one before it, by at least the redirect penalty the older      *)
(* instruction left behind and the external stalls added in between, and   *)
(* never later than the total published with it.                           *)
Redirected(step) == IF step.taken THEN TakenBranchPenalty
                    ELSE IF IsJump(step.insn) THEN JumpRedirectPenalty ELSE 0

RetireStep ==
    timing'.retired = timing.retired + 1 =>
        /\ timing.retired > 0 =>
              lastRetire' >= lastRetire + 1 + held + Redirected(history[Len(history)])
        /\ lastRetire' <= timing'.total

RetiresInOrder == [][RetireStep]_vars
=============================================================================
