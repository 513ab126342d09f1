-------------------------------- MODULE MCCpu --------------------------------
(***************************************************************************)
(* Every program of ProgramLength instructions over a small instruction    *)
(* set, followed by Ending, on 6-bit words, with caches so small that      *)
(* loops, redirects and data accesses evict each other's words.  Programs  *)
(* may run off the end of memory, loop until max_instructions, jump out of *)
(* memory or to a misaligned PC, meet an illegal instruction, and halt.    *)
(***************************************************************************)
EXTENDS CpuProperties

CONSTANTS ProgramLength, InsnSet, Ending, Switches, IcacheLines, DcacheLines, Latency

I(op, fn, rd, rs1, rs2, imm) ==
    [op |-> op, fn |-> fn, rd |-> rd, rs1 |-> rs1, rs2 |-> rs2, imm |-> imm % 64]

Addi(rd, rs1, imm) == I("OPIMM", "ADDI", rd, rs1, 0, imm)
Lw(rd, rs1, imm) == I("LOAD", "LW", rd, rs1, 0, imm)
Sw(rs2, rs1, imm) == I("STORE", "SW", 0, rs1, rs2, imm)
Beq(rs1, rs2, imm) == I("BRANCH", "BEQ", 0, rs1, rs2, imm)
Jal(rd, imm) == I("JAL", "JAL", rd, 0, 0, imm)
Jalr(rd, rs1, imm) == I("JALR", "JALR", rd, rs1, 0, imm)
Div(rd, rs1, rs2) == I("OP", "DIV", rd, rs1, rs2, 0)
Ecall == I("SYSTEM", "ECALL", 0, 0, 0, 0)

(* Stores that conflict in D$, a load that may feed the next instruction,  *)
(* redirects backward and forward, an indirect one that may be misaligned, *)
(* a divider, a reserved encoding, and halt.                               *)
Core == {Sw(0, 0, 0), Sw(0, 0, 8), Lw(1, 0, 0), Beq(1, 0, -8), Jal(1, 12),
         Jalr(0, 1, 2), Div(1, 1, 1), I("OP", "RESERVED", 0, 0, 0, 0), Ecall}

(* One instruction of every other kind, and accesses outside memory.       *)
Extended == Core \cup
    {Lw(1, 0, -4), I("STORE", "SB", 0, 0, 1, -4), I("LOAD", "LH", 1, 1, 0, 2),
     I("LUI", "LUI", 1, 0, 0, 32), I("AUIPC", "AUIPC", 1, 0, 0, 32),
     I("BRANCH", "BLT", 0, 1, 0, 4), I("BRANCH", "BGEU", 0, 0, 1, -4),
     I("FENCE", "FENCE", 0, 0, 0, 0), Addi(1, 1, 4)}

Programs == {p \o Ending : p \in [1 .. ProgramLength -> InsnSet]}

MCMachines ==
    {[program |-> p,
      icache |-> [enabled |-> s[1], lines |-> IcacheLines, latency |-> Latency,
                  writeBack |-> FALSE],
      dcache |-> [enabled |-> s[2], lines |-> DcacheLines, latency |-> Latency,
                  writeBack |-> TRUE]] : p \in Programs, s \in Switches}

NoTail == << >>
DivideAndHalt == <<Div(1, 1, 1), Ecall>>

BothOn == {<<TRUE, TRUE>>}
AnySwitch == BOOLEAN \X BOOLEAN
=============================================================================
