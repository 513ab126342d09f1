-------------------------- MODULE MCPipelineTiming --------------------------
(* Every kind of producer and consumer of a load, divider bursts and both  *)
(* redirects, with the penalties PipelineTimingConfig sets by default.     *)
EXTENDS PipelineTiming

Insn(op, fn, rd, rs1, rs2) ==
    [op |-> op, fn |-> fn, rd |-> rd, rs1 |-> rs1, rs2 |-> rs2]

MCInsns == {
    Insn("LOAD", "LW", 1, 2, 0),
    Insn("LOAD", "LW", 0, 1, 0),
    Insn("STORE", "SW", 1, 2, 1),    \* rs2 is the loaded value: no bubble
    Insn("STORE", "SW", 0, 1, 2),    \* rs1 is the loaded value: a bubble
    Insn("OP", "DIV", 1, 2, 1),
    Insn("OP", "MUL", 2, 0, 0),
    Insn("BRANCH", "BEQ", 1, 0, 0),  \* decode() reads rd of a branch too
    Insn("JALR", "JALR", 1, 1, 0),
    Insn("LUI", "LUI", 1, 1, 1)}     \* the rs1 field of LUI is immediate bits
=============================================================================
