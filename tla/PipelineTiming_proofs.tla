------------------------ MODULE PipelineTiming_proofs ------------------------
(***************************************************************************)
(* Proofs about the timing model by itself: its counters never underflow,  *)
(* the published total is exactly the sum of its causes, and instructions  *)
(* retire one at a time and in order, for every configuration, every       *)
(* instruction set and any number of retirements.  The hazard counters,    *)
(* kept one instruction at a time from the flags of the previous one, are  *)
(* the ones the whole retired stream defines.                              *)
(***************************************************************************)
EXTENDS PipelineTiming, ComponentOps_proofs, FiniteSetTheorems

StepType == [insn : Insns, taken : BOOLEAN, held : Nat]

(* What retirement leaves behind: after the first one the published total  *)
(* exceeds the last retire cycle by the redirect penalty of the last       *)
(* instruction, the fill is the configured one, and the ghost history is   *)
(* as long as the number of retired instructions.                          *)
LastStep ==
    /\ history \in Seq(StepType)
    /\ timing.retired = Len(history)
    /\ timing.retired > 0 =>
          /\ timing.fill = FillDrain
          /\ history[Len(history)].taken => IsBranch(history[Len(history)].insn)
          /\ timing.total = lastRetire + Redirected(history[Len(history)])

(* The inductive invariant. *)
IInv == TypeOK /\ StallsAccounted /\ LastStep

(* The constructor establishes the invariant.                              *)
LEMMA InitIInv == Init => IInv
  <1> SUFFICES ASSUME Init PROVE IInv
    OBVIOUS
  <1> USE DEF Init
  <1>1. TypeOK
    BY DEF TypeOK, ResetTiming, TimingType
  <1>2. StallsAccounted
    BY DEF StallsAccounted, Hazards, ResetTiming
  <1>3. LastStep
    BY DEF LastStep, ResetTiming
  <1> QED
    BY <1>1, <1>2, <1>3 DEF IInv

(* reset() establishes it again.                                           *)
LEMMA ResetKeepsIInv == IInv /\ Reset => IInv'
  <1> SUFFICES ASSUME Reset PROVE IInv'
    OBVIOUS
  <1> USE DEF Reset
  <1>1. TypeOK'
    BY DEF TypeOK, ResetTiming, TimingType
  <1>2. StallsAccounted'
    BY DEF StallsAccounted, Hazards, ResetTiming
  <1>3. LastStep'
    BY DEF LastStep, ResetTiming
  <1> QED
    BY <1>1, <1>2, <1>3 DEF IInv

(* External stalls reach the accumulated stalls only.                      *)
LEMMA AddStallsKeepsIInv ==
    ASSUME IInv, NEW cycles \in StallCycles, AddStalls(cycles)
    PROVE  IInv'
  <1>1. /\ cycles \in Nat /\ timing \in TimingType /\ held \in Nat /\ holds \in Nat
        /\ external \in Nat
    BY TimingUserAssumption DEF IInv, TypeOK, TimingUserAssumption
  <1>2. /\ timing' \in TimingType
        /\ timing'.acc = timing.acc + cycles
        /\ timing'.retired = timing.retired
        /\ timing'.base = timing.base
        /\ timing'.fill = timing.fill
        /\ timing'.loadUse = timing.loadUse
        /\ timing'.branch = timing.branch
        /\ timing'.jump = timing.jump
        /\ timing'.divider = timing.divider
        /\ timing'.total = timing.total
    BY <1>1, AddExternalStallsFields DEF AddStalls
  <1>3. /\ held' = held + cycles /\ external' = external + cycles
        /\ UNCHANGED <<lastRetire, history>> /\ holds' = holds + 1
    BY DEF AddStalls
  <1>4. TypeOK'
    BY <1>1, <1>2, <1>3 DEF IInv, TypeOK
  <1>5. StallsAccounted'
    BY <1>1, <1>2, <1>3 DEF IInv, StallsAccounted, Hazards, TimingType
  <1>6. LastStep'
    BY <1>2, <1>3 DEF IInv, LastStep, Redirected
  <1> QED
    BY <1>4, <1>5, <1>6 DEF IInv

(* What one retire() does to the variables, collected for the proofs below. *)
LEMMA RetireFacts ==
    ASSUME IInv, NEW insn \in Insns, NEW taken \in BOOLEAN, Retire(insn, taken)
    PROVE  /\ timing \in TimingType /\ held \in Nat
           /\ timing' \in TimingType
           /\ timing'.retired = timing.retired + 1
           /\ timing'.base = timing.retired + 1
           /\ timing'.fill = FillDrain
           /\ Hazards(timing)' = Hazards(timing) + RetireStalls(timing, insn, taken)
           /\ timing'.acc = timing.acc + RetireStalls(timing, insn, taken)
           /\ timing'.total = timing'.retired + timing'.fill + timing'.acc
           /\ timing'.total = lastRetire' + BranchStall(insn, taken) + JumpStall(insn)
           /\ lastRetire' = RetireCycle(timing, insn)
           /\ lastRetire' \in Nat
           /\ RetireStalls(timing, insn, taken) \in Nat
           /\ history' = Append(history, [insn |-> insn, taken |-> taken, held |-> held])
           /\ held' = 0 /\ holds' = 0 /\ external' = external /\ external \in Nat
           /\ taken => IsBranch(insn)
  <1>1. timing \in TimingType /\ held \in Nat /\ external \in Nat /\ Timed(insn)
    BY TimingUserAssumption DEF IInv, TypeOK, TimingUserAssumption, Timed
  <1>2. /\ timing' = AfterRetire(timing, insn, taken)
        /\ lastRetire' = RetireCycle(timing, insn)
        /\ history' = Append(history, [insn |-> insn, taken |-> taken, held |-> held])
        /\ held' = 0 /\ holds' = 0 /\ external' = external
        /\ taken => IsBranch(insn)
    BY DEF Retire
  <1>3. /\ timing' \in TimingType
        /\ timing'.retired = timing.retired + 1
        /\ timing'.base = timing.retired + 1
        /\ timing'.fill = FillDrain
        /\ timing'.loadUse = timing.loadUse + LoadUseStall(timing, insn)
        /\ timing'.branch = timing.branch + BranchStall(insn, taken)
        /\ timing'.jump = timing.jump + JumpStall(insn)
        /\ timing'.divider = timing.divider + DividerStall(timing, insn)
        /\ timing'.acc = timing.acc + RetireStalls(timing, insn, taken)
        /\ timing'.total = timing'.retired + timing'.fill + timing'.acc
    BY <1>1, <1>2, AfterRetireFields
  <1>4. /\ LoadUseStall(timing, insn) \in Nat
        /\ DividerStall(timing, insn) \in Nat
        /\ BranchStall(insn, taken) \in Nat
        /\ JumpStall(insn) \in Nat
    BY PenaltiesAreNat
  <1>5. /\ lastRetire' \in Nat
        /\ timing'.total = lastRetire' + BranchStall(insn, taken) + JumpStall(insn)
    BY <1>1, <1>2, RetireCycleBeforeRedirect
  <1>6. Hazards(timing)' = Hazards(timing) + RetireStalls(timing, insn, taken)
    BY <1>1, <1>3, <1>4 DEF Hazards, RetireStalls, TimingType
  <1>7. RetireStalls(timing, insn, taken) \in Nat
    BY <1>4 DEF RetireStalls
  <1> QED
    BY <1>1, <1>2, <1>3, <1>5, <1>6, <1>7

(* A taken branch or a jump, never both, leaves its penalty behind.        *)
LEMMA RedirectedIsPenalty ==
    ASSUME NEW insn, NEW taken \in BOOLEAN, taken => IsBranch(insn), NEW h
    PROVE  /\ Redirected([insn |-> insn, taken |-> taken, held |-> h]) =
                 BranchStall(insn, taken) + JumpStall(insn)
           /\ Redirected([insn |-> insn, taken |-> taken, held |-> h]) \in Nat
  BY TimingConfigAssumption
     DEF TimingConfigAssumption, Redirected, BranchStall, JumpStall, IsBranch, IsJump

(* One retire() moves its penalties to the sum and to the categories.      *)
LEMMA RetireKeepsIInv ==
    ASSUME IInv, NEW insn \in Insns, NEW taken \in BOOLEAN, Retire(insn, taken)
    PROVE  IInv'
  <1> DEFINE step == [insn |-> insn, taken |-> taken, held |-> held]
             stalls == RetireStalls(timing, insn, taken)
             redirect == BranchStall(insn, taken) + JumpStall(insn)
  <1>1. /\ timing \in TimingType /\ held \in Nat
        /\ timing' \in TimingType
        /\ timing'.retired = timing.retired + 1
        /\ timing'.base = timing.retired + 1
        /\ timing'.fill = FillDrain
        /\ Hazards(timing)' = Hazards(timing) + stalls
        /\ timing'.acc = timing.acc + stalls
        /\ timing'.total = timing'.retired + timing'.fill + timing'.acc
        /\ lastRetire' \in Nat
        /\ stalls \in Nat
        /\ history' = Append(history, step)
        /\ held' = 0 /\ holds' = 0 /\ external' = external /\ external \in Nat
        /\ taken => IsBranch(insn)
    BY RetireFacts
  <1>2. timing'.total = lastRetire' + redirect
    <2>1. timing'.total = lastRetire' + BranchStall(insn, taken) + JumpStall(insn)
      BY RetireFacts
    <2>2. BranchStall(insn, taken) \in Nat /\ JumpStall(insn) \in Nat
      BY PenaltiesAreNat
    <2> QED
      BY <1>1, <2>1, <2>2
  <1>3. TypeOK'
    BY <1>1 DEF TypeOK
  <1>4. StallsAccounted'
    <2>1. /\ timing.retired \in Nat /\ timing.acc \in Nat
          /\ timing'.retired \in Nat /\ timing'.fill \in Nat /\ timing'.acc \in Nat
      BY <1>1 DEF TimingType
    <2>2. Hazards(timing) \in Nat
      <3>1. /\ timing.loadUse \in Nat /\ timing.branch \in Nat
            /\ timing.jump \in Nat /\ timing.divider \in Nat
        BY <1>1 DEF TimingType
      <3> QED
        BY <3>1 DEF Hazards
    <2>3. timing'.acc = Hazards(timing)' + external'
      <3>1. timing.acc = Hazards(timing) + external
        BY DEF IInv, StallsAccounted
      <3> HIDE DEF stalls
      <3> QED
        BY <1>1, <2>1, <2>2, <3>1
    <2>4. timing'.total = timing'.base + timing'.fill + Hazards(timing)' + (external' - held')
      <3>1. Hazards(timing)' \in Nat
        BY <1>1, <2>2
      <3>2. timing'.total = timing'.retired + timing'.fill + (Hazards(timing)' + external')
        BY <1>1, <2>3
      <3> HIDE DEF stalls
      <3> QED
        BY <1>1, <2>1, <3>1, <3>2
    <2>5. timing'.retired # 0
      BY <1>1, <2>1
    <2> HIDE DEF stalls
    <2> QED
      BY <1>1, <2>1, <2>3, <2>4, <2>5 DEF StallsAccounted
  <1>5. LastStep'
    <2>1. step \in StepType /\ history \in Seq(StepType)
      BY <1>1 DEF StepType, IInv, LastStep
    <2>2. /\ history' \in Seq(StepType)
          /\ Len(history') = Len(history) + 1
          /\ history'[Len(history')] = step
      BY <1>1, <2>1
    <2>3. timing'.retired = Len(history')
      BY <1>1, <2>2 DEF IInv, LastStep
    <2>4. Redirected(step) = redirect
      BY <1>1, RedirectedIsPenalty
    <2>5. Redirected(history'[Len(history')]) = redirect
      BY <2>2, <2>4
    <2>6. history'[Len(history')].taken => IsBranch(history'[Len(history')].insn)
      BY <1>1, <2>2
    <2> HIDE DEF redirect
    <2> QED
      BY <1>1, <1>2, <2>2, <2>3, <2>5, <2>6 DEF LastStep
  <1> QED
    BY <1>3, <1>4, <1>5 DEF IInv

(* Every step keeps the inductive invariant. *)
LEMMA NextKeepsIInv == IInv /\ [Next]_vars => IInv'
  <1> SUFFICES ASSUME IInv, [Next]_vars PROVE IInv'
    OBVIOUS
  <1>1. CASE Reset
    BY <1>1, ResetKeepsIInv
  <1>2. ASSUME NEW cycles \in StallCycles, AddStalls(cycles) PROVE IInv'
    BY <1>2, AddStallsKeepsIInv
  <1>3. ASSUME NEW insn \in Insns, NEW taken \in BOOLEAN, Retire(insn, taken) PROVE IInv'
    BY <1>3, RetireKeepsIInv
  <1>4. CASE UNCHANGED vars
    BY <1>4 DEF vars, IInv, TypeOK, StallsAccounted, LastStep, Hazards, Redirected
  <1> QED
    BY <1>1, <1>2, <1>3, <1>4 DEF Next

(* The invariant holds of every reachable state.                           *)
LEMMA InvariantHolds == Spec => []IInv
  BY InitIInv, NextKeepsIInv, PTL DEF Spec

(* The counters of PipelineTimingModel never underflow, whatever the       *)
(* penalties, the divider latency and the pipeline depth.                  *)
THEOREM TimingTypeCorrect == Spec => []TypeOK
  <1>1. IInv => TypeOK
    BY DEF IInv
  <1> QED
    BY InvariantHolds, <1>1, PTL

(* Every published cycle has one cause: the total is the base cycles, fill *)
(* and drain, each stall category once, and the external stalls as they    *)
(* were given before the last retire().                                    *)
THEOREM StallsAreAccounted == Spec => []StallsAccounted
  <1>1. IInv => StallsAccounted
    BY DEF IInv
  <1> QED
    BY InvariantHolds, <1>1, PTL

(* Retirements are in order and one at a time, at least the redirect       *)
(* penalty and the external stalls in between apart.                       *)
THEOREM RetirementIsInOrder == Spec => RetiresInOrder
  <1>1. ASSUME IInv, NEW insn \in Insns, NEW taken \in BOOLEAN, Retire(insn, taken)
        PROVE  RetireStep
    <2> DEFINE B == BranchStall(insn, taken)
               J == JumpStall(insn)
               L == LoadUseStall(timing, insn)
               D == DividerStall(timing, insn)
               F == FillDrain
    <2>1. B \in Nat /\ J \in Nat /\ L \in Nat /\ D \in Nat /\ F \in Nat
      BY PenaltiesAreNat
    <2>2. /\ timing \in TimingType /\ held \in Nat
          /\ lastRetire' \in Nat
          /\ lastRetire' = RetireCycle(timing, insn)
          /\ timing'.total = lastRetire' + B + J
      BY <1>1, RetireFacts
    <2>3. /\ timing.retired \in Nat /\ timing.acc \in Nat /\ lastRetire \in Nat
          /\ timing.total \in Nat
      BY <1>1, <2>2 DEF TimingType, IInv, TypeOK
    <2>4. lastRetire' = timing.retired + 1 + F + timing.acc + L + D
      BY <2>2 DEF RetireCycle
    <2> HIDE DEF B, J, L, D, F
    <2>5. lastRetire' <= timing'.total
      BY <2>1, <2>2
    <2>6. ASSUME timing.retired > 0
          PROVE  lastRetire' >= lastRetire + 1 + held + Redirected(history[Len(history)])
      <3> DEFINE R == Redirected(history[Len(history)])
      <3>1. /\ timing.total = timing.retired + F + timing.acc - held
            /\ timing.total = lastRetire + R
        <4>1. /\ timing.fill = F /\ timing.base = timing.retired
              /\ timing.total = timing.base + timing.fill + Hazards(timing)
                                + (external - held)
              /\ timing.acc = Hazards(timing) + external
              /\ timing.total = lastRetire + R
          BY <1>1, <2>3, <2>6 DEF IInv, StallsAccounted, LastStep, F
        <4>2. external \in Nat
          BY <1>1 DEF IInv, TypeOK
        <4>3. Hazards(timing) \in Nat
          BY <2>2 DEF Hazards, TimingType
        <4> HIDE DEF R
        <4> QED
          BY <2>1, <2>2, <2>3, <4>1, <4>2, <4>3
      <3>2. history[Len(history)] \in StepType
        BY <1>1, <2>6 DEF IInv, LastStep
      <3>3. R \in Nat
        BY <3>2, TimingConfigAssumption DEF Redirected, TimingConfigAssumption, StepType
      <3> HIDE DEF R
      <3>4. lastRetire' >= lastRetire + 1 + held + R
        BY <2>1, <2>2, <2>3, <2>4, <3>1, <3>3
      <3> QED
        BY <3>4 DEF R
    <2> QED
      BY <2>5, <2>6 DEF RetireStep
  <1>2. ASSUME IInv, Reset
        PROVE  RetireStep
    <2>1. timing.retired \in Nat /\ timing'.retired = 0
      BY <1>2 DEF IInv, TypeOK, TimingType, Reset, ResetTiming
    <2> QED
      BY <2>1 DEF RetireStep
  <1>3. ASSUME IInv, NEW cycles \in StallCycles, AddStalls(cycles)
        PROVE  RetireStep
    <2>1. cycles \in Nat /\ timing \in TimingType /\ timing.retired \in Nat
      BY <1>3, TimingUserAssumption DEF IInv, TypeOK, TimingType, TimingUserAssumption
    <2>2. timing'.retired = timing.retired
      BY <1>3, <2>1, AddExternalStallsFields DEF AddStalls
    <2> QED
      BY <2>1, <2>2 DEF RetireStep
  <1>4. IInv /\ [Next]_vars => [RetireStep]_vars
    BY <1>1, <1>2, <1>3 DEF Next
  <1> QED
    BY InvariantHolds, <1>4, PTL DEF Spec, RetiresInOrder

-----------------------------------------------------------------------------
(* The counters and the retired stream *)

(* The index sets of MatchesStream, of any stream, so that the stream      *)
(* before and after a retire() can be compared.                            *)
Waits(older, younger) ==
    /\ IsLoad(older)
    /\ older.rd # 0
    /\ \/ UsesRs1(younger) /\ younger.rs1 = older.rd
       \/ UsesRs2(younger) /\ younger.rs2 = older.rd

WaitsIn(h) == {i \in 2 .. Len(h) : Waits(h[i - 1].insn, h[i].insn)}
DividersIn(h) == {i \in DOMAIN h : IsDivRem(h[i].insn)}
StartsIn(h) == {i \in DividersIn(h) : i - 1 \notin DividersIn(h)}
TakenIn(h) == {i \in DOMAIN h : IsBranch(h[i].insn) /\ h[i].taken}
JumpsIn(h) == {i \in DOMAIN h : IsJump(h[i].insn)}

(* One more retirement adds at most itself to each of them.                *)
LEMMA StreamGrows ==
    ASSUME NEW h \in Seq(StepType), NEW step \in StepType
    PROVE  LET n == Len(h)
               m == Append(h, step)
           IN  /\ WaitsIn(m) = IF n > 0 /\ Waits(h[n].insn, step.insn)
                               THEN WaitsIn(h) \cup {n + 1} ELSE WaitsIn(h)
               /\ DividersIn(m) = IF IsDivRem(step.insn)
                                  THEN DividersIn(h) \cup {n + 1} ELSE DividersIn(h)
               /\ StartsIn(m) = IF IsDivRem(step.insn) /\ n \notin DividersIn(h)
                                THEN StartsIn(h) \cup {n + 1} ELSE StartsIn(h)
               /\ TakenIn(m) = IF IsBranch(step.insn) /\ step.taken
                               THEN TakenIn(h) \cup {n + 1} ELSE TakenIn(h)
               /\ JumpsIn(m) = IF IsJump(step.insn)
                               THEN JumpsIn(h) \cup {n + 1} ELSE JumpsIn(h)
  <1> DEFINE n == Len(h)
             m == Append(h, step)
  <1>1. /\ n \in Nat /\ Len(m) = n + 1
        /\ DOMAIN h = 1 .. n /\ DOMAIN m = 1 .. n + 1
        /\ \A i \in 1 .. n : m[i] = h[i]
        /\ m[n + 1] = step
    OBVIOUS
  <1>2. /\ \A i \in 1 .. n + 1 : i \in 1 .. n \/ i = n + 1
        /\ \A i \in 1 .. n : i \in 1 .. n + 1 /\ i # n + 1 /\ i - 1 # n + 1
        /\ n + 1 \in 1 .. n + 1 /\ n + 1 \notin 1 .. n /\ (n + 1) - 1 = n
    BY <1>1
  <1>3. \A i : i \in DividersIn(m)
                 <=> i \in DividersIn(h) \/ (i = n + 1 /\ IsDivRem(step.insn))
    BY <1>1, <1>2 DEF DividersIn
  <1>4. \A i : i \in TakenIn(m)
                 <=> i \in TakenIn(h) \/ (i = n + 1 /\ IsBranch(step.insn) /\ step.taken)
    BY <1>1, <1>2 DEF TakenIn
  <1>5. \A i : i \in JumpsIn(m)
                 <=> i \in JumpsIn(h) \/ (i = n + 1 /\ IsJump(step.insn))
    BY <1>1, <1>2 DEF JumpsIn
  <1>6. DividersIn(h) \subseteq 1 .. n
    BY <1>1 DEF DividersIn
  <1>7. \A i : i \in StartsIn(m)
                 <=> \/ i \in StartsIn(h)
                     \/ i = n + 1 /\ IsDivRem(step.insn) /\ n \notin DividersIn(h)
    <2>1. \A i : i \in StartsIn(m) <=> i \in DividersIn(m) /\ i - 1 \notin DividersIn(m)
      BY DEF StartsIn
    <2>2. \A i : i \in StartsIn(h) <=> i \in DividersIn(h) /\ i - 1 \notin DividersIn(h)
      BY DEF StartsIn
    <2>3. \A i \in 1 .. n : i - 1 \in DividersIn(m) <=> i - 1 \in DividersIn(h)
      BY <1>2, <1>3
    <2>4. n \in DividersIn(m) <=> n \in DividersIn(h)
      <3>1. n # n + 1
        <4> HIDE DEF n
        <4> QED
          BY <1>1
      <3> QED
        BY <1>3, <3>1
    <2> HIDE DEF n, m
    <2> QED
      BY <1>2, <1>3, <1>6, <2>1, <2>2, <2>3, <2>4
  <1>8. \A i : i \in WaitsIn(m)
                 <=> \/ i \in WaitsIn(h)
                     \/ i = n + 1 /\ n > 0 /\ Waits(h[n].insn, step.insn)
    <2>1. /\ \A i \in 2 .. n + 1 : i \in 2 .. n \/ (i = n + 1 /\ n > 0)
          /\ \A i \in 2 .. n : i \in 2 .. n + 1 /\ i - 1 \in 1 .. n /\ i \in 1 .. n
          /\ n > 0 => n + 1 \in 2 .. n + 1 /\ n \in 1 .. n
      BY <1>1
    <2>2. \A i \in 2 .. n : Waits(m[i - 1].insn, m[i].insn)
                               <=> Waits(h[i - 1].insn, h[i].insn)
      BY <1>1, <2>1
    <2>3. n > 0 => (Waits(m[(n + 1) - 1].insn, m[n + 1].insn)
                       <=> Waits(h[n].insn, step.insn))
      BY <1>1, <1>2, <2>1
    <2>4. /\ \A i : i \in WaitsIn(m)
                      <=> i \in 2 .. n + 1 /\ Waits(m[i - 1].insn, m[i].insn)
          /\ \A i : i \in WaitsIn(h)
                      <=> i \in 2 .. n /\ Waits(h[i - 1].insn, h[i].insn)
      BY <1>1 DEF WaitsIn
    <2> HIDE DEF n, m
    <2> QED
      BY <2>1, <2>2, <2>3, <2>4
  <1> HIDE DEF n, m
  <1>9. /\ WaitsIn(m) = IF n > 0 /\ Waits(h[n].insn, step.insn)
                        THEN WaitsIn(h) \cup {n + 1} ELSE WaitsIn(h)
        /\ DividersIn(m) = IF IsDivRem(step.insn)
                           THEN DividersIn(h) \cup {n + 1} ELSE DividersIn(h)
        /\ StartsIn(m) = IF IsDivRem(step.insn) /\ n \notin DividersIn(h)
                         THEN StartsIn(h) \cup {n + 1} ELSE StartsIn(h)
        /\ TakenIn(m) = IF IsBranch(step.insn) /\ step.taken
                        THEN TakenIn(h) \cup {n + 1} ELSE TakenIn(h)
        /\ JumpsIn(m) = IF IsJump(step.insn)
                        THEN JumpsIn(h) \cup {n + 1} ELSE JumpsIn(h)
    <2>1. WaitsIn(m) = IF n > 0 /\ Waits(h[n].insn, step.insn)
                       THEN WaitsIn(h) \cup {n + 1} ELSE WaitsIn(h)
      BY <1>8
    <2>2. DividersIn(m) = IF IsDivRem(step.insn)
                          THEN DividersIn(h) \cup {n + 1} ELSE DividersIn(h)
      BY <1>3
    <2>3. StartsIn(m) = IF IsDivRem(step.insn) /\ n \notin DividersIn(h)
                        THEN StartsIn(h) \cup {n + 1} ELSE StartsIn(h)
      BY <1>7
    <2>4. TakenIn(m) = IF IsBranch(step.insn) /\ step.taken
                       THEN TakenIn(h) \cup {n + 1} ELSE TakenIn(h)
      BY <1>4
    <2>5. JumpsIn(m) = IF IsJump(step.insn)
                       THEN JumpsIn(h) \cup {n + 1} ELSE JumpsIn(h)
      BY <1>5
    <2> QED
      BY <2>1, <2>2, <2>3, <2>4, <2>5
  <1> QED
    BY <1>9 DEF n, m

(* None of them holds an instruction that is yet to come.                  *)
LEMMA StreamIsFinite ==
    ASSUME NEW h \in Seq(StepType)
    PROVE  /\ IsFiniteSet(WaitsIn(h)) /\ Len(h) + 1 \notin WaitsIn(h)
           /\ IsFiniteSet(DividersIn(h)) /\ Len(h) + 1 \notin DividersIn(h)
           /\ IsFiniteSet(StartsIn(h)) /\ Len(h) + 1 \notin StartsIn(h)
           /\ IsFiniteSet(TakenIn(h)) /\ Len(h) + 1 \notin TakenIn(h)
           /\ IsFiniteSet(JumpsIn(h)) /\ Len(h) + 1 \notin JumpsIn(h)
  <1>1. Len(h) \in Nat /\ DOMAIN h = 1 .. Len(h)
    OBVIOUS
  <1>2. IsFiniteSet(1 .. Len(h)) /\ Len(h) + 1 \notin 1 .. Len(h)
    BY <1>1, FS_Interval
  <1>3. 2 .. Len(h) \subseteq 1 .. Len(h)
    BY <1>1
  <1>4. /\ WaitsIn(h) \subseteq 1 .. Len(h)
        /\ DividersIn(h) \subseteq 1 .. Len(h)
        /\ StartsIn(h) \subseteq 1 .. Len(h)
        /\ TakenIn(h) \subseteq 1 .. Len(h)
        /\ JumpsIn(h) \subseteq 1 .. Len(h)
    BY <1>1, <1>3 DEF WaitsIn, DividersIn, StartsIn, TakenIn, JumpsIn
  <1>5. \A S : S \subseteq 1 .. Len(h) => IsFiniteSet(S) /\ Len(h) + 1 \notin S
    BY <1>2, FS_Subset
  <1> QED
    BY <1>4, <1>5

(* Adding an element that is not there counts one more.                    *)
LEMMA OneMore ==
    ASSUME NEW S, IsFiniteSet(S), NEW k, k \notin S
    PROVE  Cardinality(S) \in Nat /\ Cardinality(S \cup {k}) = Cardinality(S) + 1
  BY FS_AddElement, FS_CardinalityType

(* What MatchesStream says of any counters and stream.                     *)
Startup == IF DividerLatency > 0 THEN DividerLatency - 1 ELSE 0
Interval == IF DividerInterval > 1 THEN DividerInterval - 1 ELSE 0

Matches(t, h) ==
    /\ t.retired = Len(h)
    /\ t.loadUse = LoadUsePenalty * Cardinality(WaitsIn(h))
    /\ t.divider = Startup * Cardinality(StartsIn(h))
                   + Interval * (Cardinality(DividersIn(h)) - Cardinality(StartsIn(h)))
    /\ t.branch = TakenBranchPenalty * Cardinality(TakenIn(h))
    /\ t.jump = JumpRedirectPenalty * Cardinality(JumpsIn(h))

(* The flags kept of the previous instruction are those of the last one.   *)
FlagsInPlace(t, h) ==
    /\ Len(h) = 0 => ~t.prevLoad /\ ~t.prevDiv
    /\ Len(h) > 0 =>
          LET last == h[Len(h)].insn
          IN  /\ t.prevLoad = IsLoad(last)
              /\ t.prevRd = (IF IsLoad(last) THEN last.rd ELSE 0)
              /\ t.prevDiv = IsDivRem(last)

(* The stall charged from the flags is the one the stream defines.         *)
LEMMA StallsFollowStream ==
    ASSUME NEW t \in TimingType, NEW h \in Seq(StepType), FlagsInPlace(t, h), NEW insn
    PROVE  /\ LoadUseStall(t, insn) = IF Len(h) > 0 /\ Waits(h[Len(h)].insn, insn)
                                      THEN LoadUsePenalty ELSE 0
           /\ DividerStall(t, insn) = IF ~IsDivRem(insn) THEN 0
                                      ELSE IF Len(h) \notin DividersIn(h) THEN Startup
                                      ELSE Interval
  <1> DEFINE n == Len(h)
  <1>1. n \in Nat /\ DOMAIN h = 1 .. n
    OBVIOUS
  <1>2. CASE n = 0
    <2>1. ~t.prevLoad /\ ~t.prevDiv /\ n \notin DividersIn(h)
      BY <1>1, <1>2 DEF FlagsInPlace, DividersIn
    <2> QED
      BY <1>2, <2>1 DEF LoadUseStall, DividerStall, Startup
  <1>3. CASE n > 0
    <2> DEFINE last == h[n].insn
    <2>1. /\ t.prevLoad = IsLoad(last)
          /\ t.prevRd = (IF IsLoad(last) THEN last.rd ELSE 0)
          /\ t.prevDiv = IsDivRem(last)
      BY <1>3 DEF FlagsInPlace
    <2>2. n \in DividersIn(h) <=> IsDivRem(last)
      BY <1>1, <1>3 DEF DividersIn
    <2>3. LoadUseStall(t, insn) = IF Waits(last, insn) THEN LoadUsePenalty ELSE 0
      BY <2>1 DEF LoadUseStall, Waits
    <2>4. DividerStall(t, insn) = IF ~IsDivRem(insn) THEN 0
                                  ELSE IF n \notin DividersIn(h) THEN Startup
                                  ELSE Interval
      BY <2>1, <2>2 DEF DividerStall, Startup, Interval
    <2> QED
      BY <1>3, <2>3, <2>4
  <1> QED
    BY <1>1, <1>2, <1>3

(* One more retirement moves each counter and its reference alike.         *)
LEMMA RetireKeepsMatch ==
    ASSUME NEW t \in TimingType, NEW h \in Seq(StepType), Matches(t, h),
           FlagsInPlace(t, h), NEW step \in StepType
    PROVE  LET u == AfterRetire(t, step.insn, step.taken)
           IN  Matches(u, Append(h, step)) /\ FlagsInPlace(u, Append(h, step))
  <1> DEFINE n == Len(h)
             m == Append(h, step)
             insn == step.insn
             taken == step.taken
             u == AfterRetire(t, insn, taken)
             W == Cardinality(WaitsIn(h))
             D == Cardinality(DividersIn(h))
             S == Cardinality(StartsIn(h))
             T == Cardinality(TakenIn(h))
             J == Cardinality(JumpsIn(h))
  <1>1. /\ n \in Nat /\ Len(m) = n + 1 /\ m[n + 1] = step
        /\ taken \in BOOLEAN
    BY DEF StepType
  <1>2. /\ u.retired = t.retired + 1
        /\ u.loadUse = t.loadUse + LoadUseStall(t, insn)
        /\ u.branch = t.branch + BranchStall(insn, taken)
        /\ u.jump = t.jump + JumpStall(insn)
        /\ u.divider = t.divider + DividerStall(t, insn)
        /\ u.prevLoad = IsLoad(insn)
        /\ u.prevRd = (IF IsLoad(insn) THEN insn.rd ELSE 0)
        /\ u.prevDiv = IsDivRem(insn)
    BY DEF AfterRetire
  <1>3. /\ t.retired = n
        /\ t.loadUse = LoadUsePenalty * W
        /\ t.divider = Startup * S + Interval * (D - S)
        /\ t.branch = TakenBranchPenalty * T
        /\ t.jump = JumpRedirectPenalty * J
    BY DEF Matches
  <1>4. /\ W \in Nat /\ Cardinality(WaitsIn(h) \cup {n + 1}) = W + 1
        /\ D \in Nat /\ Cardinality(DividersIn(h) \cup {n + 1}) = D + 1
        /\ S \in Nat /\ Cardinality(StartsIn(h) \cup {n + 1}) = S + 1
        /\ T \in Nat /\ Cardinality(TakenIn(h) \cup {n + 1}) = T + 1
        /\ J \in Nat /\ Cardinality(JumpsIn(h) \cup {n + 1}) = J + 1
    <2>1. /\ IsFiniteSet(WaitsIn(h)) /\ n + 1 \notin WaitsIn(h)
          /\ IsFiniteSet(DividersIn(h)) /\ n + 1 \notin DividersIn(h)
          /\ IsFiniteSet(StartsIn(h)) /\ n + 1 \notin StartsIn(h)
          /\ IsFiniteSet(TakenIn(h)) /\ n + 1 \notin TakenIn(h)
          /\ IsFiniteSet(JumpsIn(h)) /\ n + 1 \notin JumpsIn(h)
      BY StreamIsFinite
    <2>2. W \in Nat /\ Cardinality(WaitsIn(h) \cup {n + 1}) = W + 1
      BY <2>1, OneMore
    <2>3. D \in Nat /\ Cardinality(DividersIn(h) \cup {n + 1}) = D + 1
      BY <2>1, OneMore
    <2>4. S \in Nat /\ Cardinality(StartsIn(h) \cup {n + 1}) = S + 1
      BY <2>1, OneMore
    <2>5. T \in Nat /\ Cardinality(TakenIn(h) \cup {n + 1}) = T + 1
      BY <2>1, OneMore
    <2>6. J \in Nat /\ Cardinality(JumpsIn(h) \cup {n + 1}) = J + 1
      BY <2>1, OneMore
    <2> QED
      BY <2>2, <2>3, <2>4, <2>5, <2>6
  <1>5. /\ LoadUsePenalty \in Nat /\ TakenBranchPenalty \in Nat
        /\ JumpRedirectPenalty \in Nat /\ Startup \in Nat /\ Interval \in Nat
    BY TimingConfigAssumption DEF TimingConfigAssumption, Startup, Interval
  <1>6. /\ \A p \in Nat, k \in Nat : p * (k + 1) = p * k + p
        /\ \A p \in Nat, k \in Nat, j \in Nat : p * ((k + 1) - j) = p * (k - j) + p
        /\ \A p \in Nat, k \in Nat, j \in Nat : p * ((k + 1) - (j + 1)) = p * (k - j)
    OBVIOUS
  <1>7. u.loadUse = LoadUsePenalty * Cardinality(WaitsIn(m))
    <2>1. CASE n > 0 /\ Waits(h[n].insn, insn)
      <3>1. Cardinality(WaitsIn(m)) = W + 1
        BY <1>4, <2>1, StreamGrows
      <3>2. LoadUseStall(t, insn) = LoadUsePenalty
        BY <2>1, StallsFollowStream
      <3> HIDE DEF W, u
      <3> QED
        BY <1>2, <1>3, <1>4, <1>5, <1>6, <3>1, <3>2
    <2>2. CASE ~(n > 0 /\ Waits(h[n].insn, insn))
      <3>1. WaitsIn(m) = WaitsIn(h)
        BY <2>2, StreamGrows
      <3>2. LoadUseStall(t, insn) = 0
        BY <2>2, StallsFollowStream
      <3>3. u.loadUse = t.loadUse
        BY <1>2, <3>2 DEF TimingType
      <3> QED
        BY <1>3, <3>1, <3>3
    <2> QED
      BY <2>1, <2>2
  <1>8. u.branch = TakenBranchPenalty * Cardinality(TakenIn(m))
    <2>1. CASE IsBranch(insn) /\ taken
      <3>1. Cardinality(TakenIn(m)) = T + 1
        BY <1>4, <2>1, StreamGrows
      <3>2. BranchStall(insn, taken) = TakenBranchPenalty
        BY <2>1 DEF BranchStall
      <3> HIDE DEF T, u
      <3> QED
        BY <1>2, <1>3, <1>4, <1>5, <1>6, <3>1, <3>2
    <2>2. CASE ~(IsBranch(insn) /\ taken)
      <3>1. TakenIn(m) = TakenIn(h)
        BY <2>2, StreamGrows
      <3>2. u.branch = t.branch
        BY <1>2, <2>2 DEF TimingType, BranchStall
      <3> QED
        BY <1>3, <3>1, <3>2
    <2> QED
      BY <2>1, <2>2
  <1>9. u.jump = JumpRedirectPenalty * Cardinality(JumpsIn(m))
    <2>1. CASE IsJump(insn)
      <3>1. Cardinality(JumpsIn(m)) = J + 1
        BY <1>4, <2>1, StreamGrows
      <3>2. JumpStall(insn) = JumpRedirectPenalty
        BY <2>1 DEF JumpStall
      <3> HIDE DEF J, u
      <3> QED
        BY <1>2, <1>3, <1>4, <1>5, <1>6, <3>1, <3>2
    <2>2. CASE ~IsJump(insn)
      <3>1. JumpsIn(m) = JumpsIn(h)
        BY <2>2, StreamGrows
      <3>2. u.jump = t.jump
        BY <1>2, <2>2 DEF TimingType, JumpStall
      <3> QED
        BY <1>3, <3>1, <3>2
    <2> QED
      BY <2>1, <2>2
  <1>10. u.divider = Startup * Cardinality(StartsIn(m))
                     + Interval * (Cardinality(DividersIn(m)) - Cardinality(StartsIn(m)))
    <2>1. CASE ~IsDivRem(insn)
      <3>1. DividersIn(m) = DividersIn(h) /\ StartsIn(m) = StartsIn(h)
        BY <2>1, StreamGrows
      <3>2. u.divider = t.divider
        BY <1>2, <2>1 DEF TimingType, DividerStall
      <3> QED
        BY <1>3, <3>1, <3>2
    <2>2. CASE IsDivRem(insn) /\ n \notin DividersIn(h)
      <3>1. Cardinality(DividersIn(m)) = D + 1 /\ Cardinality(StartsIn(m)) = S + 1
        BY <1>4, <2>2, StreamGrows
      <3>2. DividerStall(t, insn) = Startup
        BY <2>2, StallsFollowStream
      <3>3. u.divider = (Startup * S + Interval * (D - S)) + Startup
        BY <1>2, <1>3, <3>2
      <3>4. /\ Startup * (S + 1) = Startup * S + Startup
            /\ Interval * ((D + 1) - (S + 1)) = Interval * (D - S)
        <4>1. Startup * (S + 1) = Startup * S + Startup
          BY <1>4, <1>5, <1>6
        <4>2. (D + 1) - (S + 1) = D - S
          <5> HIDE DEF D, S
          <5> QED
            BY <1>4
        <4> QED
          BY <4>1, <4>2
      <3>5. Startup * S \in Int /\ Interval * (D - S) \in Int
        BY <1>4, <1>5
      <3> HIDE DEF D, S, u, m
      <3> QED
        BY <1>5, <3>1, <3>3, <3>4, <3>5
    <2>3. CASE IsDivRem(insn) /\ n \in DividersIn(h)
      <3>1. Cardinality(DividersIn(m)) = D + 1 /\ StartsIn(m) = StartsIn(h)
        BY <1>4, <2>3, StreamGrows
      <3>2. DividerStall(t, insn) = Interval
        BY <2>3, StallsFollowStream
      <3>3. u.divider = (Startup * S + Interval * (D - S)) + Interval
        BY <1>2, <1>3, <3>2
      <3>4. Interval * ((D + 1) - S) = Interval * (D - S) + Interval
        BY <1>4, <1>5, <1>6
      <3>5. Startup * S \in Int /\ Interval * (D - S) \in Int
        BY <1>4, <1>5
      <3>6. Cardinality(StartsIn(m)) = S
        BY <3>1
      <3> HIDE DEF D, S, u, m
      <3> QED
        BY <1>5, <3>1, <3>3, <3>4, <3>5, <3>6
    <2> QED
      BY <2>1, <2>2, <2>3
  <1>11. u.retired = Len(m)
    BY <1>1, <1>2, <1>3
  <1>12. Matches(u, m)
    BY <1>7, <1>8, <1>9, <1>10, <1>11 DEF Matches
  <1>13. FlagsInPlace(u, m)
    BY <1>1, <1>2 DEF FlagsInPlace
  <1> QED
    BY <1>12, <1>13

(* Cleared counters match the empty stream.                                *)
LEMMA ResetMatchesStream == Matches(ResetTiming, << >>) /\ FlagsInPlace(ResetTiming, << >>)
  <1> DEFINE h == << >>
  <1>1. Len(h) = 0 /\ DOMAIN h = {} /\ 2 .. 0 = {}
    OBVIOUS
  <1>2. /\ WaitsIn(h) = {} /\ DividersIn(h) = {} /\ StartsIn(h) = {}
        /\ TakenIn(h) = {} /\ JumpsIn(h) = {}
    BY <1>1 DEF WaitsIn, DividersIn, StartsIn, TakenIn, JumpsIn
  <1>3. Cardinality({}) = 0
    BY FS_EmptySet
  <1>4. /\ Cardinality(WaitsIn(h)) = 0 /\ Cardinality(DividersIn(h)) = 0
        /\ Cardinality(StartsIn(h)) = 0 /\ Cardinality(TakenIn(h)) = 0
        /\ Cardinality(JumpsIn(h)) = 0
    BY <1>2, <1>3, Zenon
  <1>5. /\ LoadUsePenalty \in Nat /\ TakenBranchPenalty \in Nat
        /\ JumpRedirectPenalty \in Nat /\ Startup \in Nat /\ Interval \in Nat
    BY TimingConfigAssumption DEF TimingConfigAssumption, Startup, Interval
  <1>6. FlagsInPlace(ResetTiming, h)
    BY <1>1 DEF FlagsInPlace, ResetTiming
  <1>7. Matches(ResetTiming, h)
    <2> HIDE DEF h
    <2> QED
      BY <1>1, <1>4, <1>5 DEF Matches, ResetTiming
  <1> QED
    BY <1>6, <1>7

(* The hazard counters, kept from two flags and a register number, are     *)
(* those of the reference written over the whole retired stream.           *)
THEOREM CountersMatchStream == Spec => []MatchesStream
  <1> DEFINE Inv == Matches(timing, history) /\ FlagsInPlace(timing, history)
  <1>1. Init => Inv
    BY ResetMatchesStream DEF Init
  <1>2. IInv /\ Inv /\ [Next]_vars => Inv'
    <2> SUFFICES ASSUME IInv, Inv, [Next]_vars PROVE Inv'
      OBVIOUS
    <2>1. timing \in TimingType /\ history \in Seq(StepType) /\ held \in Nat
      BY DEF IInv, TypeOK, LastStep
    <2>2. CASE Reset
      BY <2>2, ResetMatchesStream DEF Reset
    <2>3. ASSUME NEW cycles \in StallCycles, AddStalls(cycles)
          PROVE  Inv'
      <3>1. history' = history
            /\ timing' = [timing EXCEPT !.acc = timing.acc + cycles]
        BY <2>3 DEF AddStalls, AddExternalStalls
      <3>2. /\ timing'.retired = timing.retired /\ timing'.loadUse = timing.loadUse
            /\ timing'.divider = timing.divider /\ timing'.branch = timing.branch
            /\ timing'.jump = timing.jump /\ timing'.prevLoad = timing.prevLoad
            /\ timing'.prevRd = timing.prevRd /\ timing'.prevDiv = timing.prevDiv
        BY <2>1, <3>1 DEF TimingType
      <3> QED
        BY <3>1, <3>2 DEF Matches, FlagsInPlace
    <2>4. ASSUME NEW insn \in Insns, NEW taken \in BOOLEAN, Retire(insn, taken)
          PROVE  Inv'
      <3>1. PICK step \in StepType : step = [insn |-> insn, taken |-> taken, held |-> held]
        BY <2>1 DEF StepType
      <3>2. /\ timing' = AfterRetire(timing, step.insn, step.taken)
            /\ history' = Append(history, step)
        BY <2>4, <3>1 DEF Retire
      <3>3. LET u == AfterRetire(timing, step.insn, step.taken)
            IN  /\ Matches(u, Append(history, step))
                /\ FlagsInPlace(u, Append(history, step))
        BY <2>1, RetireKeepsMatch
      <3> QED
        BY <3>2, <3>3
    <2>5. CASE UNCHANGED vars
      BY <2>5 DEF vars
    <2> QED
      BY <2>2, <2>3, <2>4, <2>5 DEF Next
  <1>3. Inv => MatchesStream
    <2> SUFFICES ASSUME Inv PROVE MatchesStream
      OBVIOUS
    <2>1. LoadUsePairs = WaitsIn(history)
      BY DEF LoadUsePairs, WaitsIn, Waits, Nth
    <2>2. Dividers = DividersIn(history)
      BY DEF Dividers, DividersIn, Nth
    <2>3. BurstStarts = StartsIn(history)
      BY <2>2 DEF BurstStarts, StartsIn
    <2>4. TakenBranches = TakenIn(history) /\ Jumps = JumpsIn(history)
      BY DEF TakenBranches, TakenIn, Jumps, JumpsIn, Nth
    <2> QED
      BY <2>1, <2>2, <2>3, <2>4 DEF Matches, MatchesStream, Startup, Interval
  <1> QED
    BY InvariantHolds, <1>1, <1>2, <1>3, PTL DEF Spec
=============================================================================
