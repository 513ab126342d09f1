----------------------------- MODULE MCDocClaims -----------------------------
(***************************************************************************)
(* Two programs on which step() departs from what the repository says of   *)
(* cache overlap, on the words and instructions of MCCpu.                  *)
(***************************************************************************)
EXTENDS MCCpu, CpuDocClaims

Nop == Addi(0, 0, 0)

(* A loop around a store that misses in D$ each time: the second time the  *)
(* loop is resident in I$, and only the redirect leaves it.                *)
LeavingLoop == <<Addi(1, 1, 16), Sw(0, 1, 0), Jalr(0, 1, 0), Nop, Jal(0, -16),
                 Nop, Nop, Nop, Ecall>>

(* A store whose younger jump misses in I$, and a divider at the target.   *)
DivideAfterOverlap == <<Sw(0, 0, 0), Jal(0, 16), Nop, Nop, Nop, Div(1, 1, 1), Ecall>>

On(program) == [program |-> program,
                icache |-> [enabled |-> TRUE, lines |-> IcacheLines,
                            latency |-> Latency, writeBack |-> FALSE],
                dcache |-> [enabled |-> TRUE, lines |-> DcacheLines,
                            latency |-> Latency, writeBack |-> TRUE]]

DocMachines == {On(LeavingLoop), On(DivideAfterOverlap)}
=============================================================================
