----------------------------- MODULE PipelineOps -----------------------------
(***************************************************************************)
(* The analytical pipeline of src/src/PipelineTimingModel.cpp as operators *)
(* on one record: PipelineTiming drives it by itself, CpuModel embeds it.  *)
(*                                                                         *)
(* An instruction is a record with at least op, fn, rd, rs1, rs2; decode() *)
(* becomes the predicates below.                                           *)
(***************************************************************************)
EXTENDS Integers

(* PipelineTimingConfig *)
CONSTANTS PipelineDepth, LoadUsePenalty, TakenBranchPenalty,
          JumpRedirectPenalty, DividerLatency, DividerInterval

ASSUME TimingConfigAssumption ==
    /\ PipelineDepth \in Nat
    /\ LoadUsePenalty \in Nat
    /\ TakenBranchPenalty \in Nat
    /\ JumpRedirectPenalty \in Nat
    /\ DividerLatency \in Nat
    /\ DividerInterval \in Nat

DivRem == {"DIV", "DIVU", "REM", "REMU"}

(* The sources decode() marks as needed in EX: a store needs only its address. *)
UsesRs1(insn) == insn.op \in {"JALR", "BRANCH", "LOAD", "STORE", "OPIMM", "OP"}
UsesRs2(insn) == insn.op \in {"BRANCH", "OP"}
IsLoad(insn) == insn.op = "LOAD"
IsBranch(insn) == insn.op = "BRANCH"
IsJump(insn) == insn.op \in {"JAL", "JALR"}
IsDivRem(insn) == insn.op = "OP" /\ insn.fn \in DivRem

(* PipelineTimingStats, the previous-instruction flags and accumulated_stalls_. *)
TimingType == [retired : Nat, base : Nat, fill : Nat, loadUse : Nat,
               branch : Nat, jump : Nat, divider : Nat, total : Nat,
               acc : Nat, prevLoad : BOOLEAN, prevRd : Nat, prevDiv : BOOLEAN]

ResetTiming == [retired |-> 0, base |-> 0, fill |-> 0, loadUse |-> 0,
                branch |-> 0, jump |-> 0, divider |-> 0, total |-> 0,
                acc |-> 0, prevLoad |-> FALSE, prevRd |-> 0, prevDiv |-> FALSE]

(* Mutated AddExternalStalls: the stalls replace what was accumulated. *)
OnlyExternalStalls(t, cycles) == [t EXCEPT !.acc = cycles]

AddExternalStalls(t, cycles) == [t EXCEPT !.acc = @ + cycles]

(* Mutated LoadUseStall: a load of x0 is waited for. *)
LoadUseStallOfX0(t, insn) ==
    IF t.prevLoad /\ (\/ UsesRs1(insn) /\ insn.rs1 = t.prevRd
                      \/ UsesRs2(insn) /\ insn.rs2 = t.prevRd)
    THEN LoadUsePenalty ELSE 0

(* The bubble in front of a consumer of the preceding load. *)
LoadUseStall(t, insn) ==
    IF /\ t.prevLoad
       /\ t.prevRd # 0
       /\ \/ UsesRs1(insn) /\ insn.rs1 = t.prevRd
          \/ UsesRs2(insn) /\ insn.rs2 = t.prevRd
    THEN LoadUsePenalty ELSE 0

(* Mutated DividerStall: every divider operation pays the startup. *)
StartupEachTime(t, insn) ==
    IF IsDivRem(insn) /\ DividerLatency > 0 THEN DividerLatency - 1 ELSE 0

(* Startup of a divider burst, or the initiation interval inside one. *)
DividerStall(t, insn) ==
    IF ~IsDivRem(insn) THEN 0
    ELSE IF ~t.prevDiv
    THEN IF DividerLatency > 0 THEN DividerLatency - 1 ELSE 0
    ELSE IF DividerInterval > 1 THEN DividerInterval - 1 ELSE 0

BranchStall(insn, taken) == IF IsBranch(insn) /\ taken THEN TakenBranchPenalty ELSE 0
JumpStall(insn) == IF IsJump(insn) THEN JumpRedirectPenalty ELSE 0

(* Mutated FillDrain: the depth is not checked before it is decremented. *)
FillDrainUnguarded == PipelineDepth - 1

FillDrain == IF PipelineDepth > 0 THEN PipelineDepth - 1 ELSE 0

(* Mutated RetireCycle: taken before the instruction itself is counted. *)
RetireCycleBeforeCount(t, insn) ==
    t.retired + FillDrain + t.acc + LoadUseStall(t, insn) + DividerStall(t, insn)

(* Mutated RetireCycle: the stalls of the instruction in front are left out. *)
RetireCycleUnstalled(t, insn) == t.total + 1

(* retire().retire_cycle: the redirect penalties delay only younger ones. *)
RetireCycle(t, insn) ==
    t.retired + 1 + FillDrain + t.acc + LoadUseStall(t, insn) + DividerStall(t, insn)

(* Mutated AfterRetire: a load-use bubble is accumulated twice. *)
BubbleTwice(t, insn, taken) ==
    LET acc == t.acc + 2 * LoadUseStall(t, insn) + DividerStall(t, insn)
                     + BranchStall(insn, taken) + JumpStall(insn)
    IN  [retired  |-> t.retired + 1,
         base     |-> t.retired + 1,
         fill     |-> FillDrain,
         loadUse  |-> t.loadUse + LoadUseStall(t, insn),
         branch   |-> t.branch + BranchStall(insn, taken),
         jump     |-> t.jump + JumpStall(insn),
         divider  |-> t.divider + DividerStall(t, insn),
         total    |-> t.retired + 1 + FillDrain + acc,
         acc      |-> acc,
         prevLoad |-> IsLoad(insn),
         prevRd   |-> IF IsLoad(insn) THEN insn.rd ELSE 0,
         prevDiv  |-> IsDivRem(insn)]

(* The timing model after retire(insn, taken). *)
AfterRetire(t, insn, taken) ==
    LET acc == t.acc + LoadUseStall(t, insn) + DividerStall(t, insn)
                     + BranchStall(insn, taken) + JumpStall(insn)
    IN  [retired  |-> t.retired + 1,
         base     |-> t.retired + 1,
         fill     |-> FillDrain,
         loadUse  |-> t.loadUse + LoadUseStall(t, insn),
         branch   |-> t.branch + BranchStall(insn, taken),
         jump     |-> t.jump + JumpStall(insn),
         divider  |-> t.divider + DividerStall(t, insn),
         total    |-> t.retired + 1 + FillDrain + acc,
         acc      |-> acc,
         prevLoad |-> IsLoad(insn),
         prevRd   |-> IF IsLoad(insn) THEN insn.rd ELSE 0,
         prevDiv  |-> IsDivRem(insn)]
=============================================================================
