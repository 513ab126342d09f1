----------------------------- MODULE MCWorkloads -----------------------------
(***************************************************************************)
(* The directed workloads of src/workloads, each under the configuration   *)
(* its script runs it with, and what the repository's calibration tables   *)
(* and scripts say the model reports for it.  Words have 9 bits, enough    *)
(* for every address and value these programs use; LoadValues is the one   *)
(* word the smoke test loads (the other programs do not depend on theirs). *)
(***************************************************************************)
EXTENDS CpuProperties

I(op, fn, rd, rs1, rs2, imm) ==
    [op |-> op, fn |-> fn, rd |-> rd, rs1 |-> rs1, rs2 |-> rs2, imm |-> imm % 512]

Addi(rd, rs1, imm) == I("OPIMM", "ADDI", rd, rs1, 0, imm)
Op(fn, rd, rs1, rs2) == I("OP", fn, rd, rs1, rs2, 0)
Lw(rd, rs1) == I("LOAD", "LW", rd, rs1, 0, 0)
Sw(rs2, rs1) == I("STORE", "SW", 0, rs1, rs2, 0)
Beq(rs1, rs2, imm) == I("BRANCH", "BEQ", 0, rs1, rs2, imm)
Bne(rs1, rs2, imm) == I("BRANCH", "BNE", 0, rs1, rs2, imm)
Jal(rd, imm) == I("JAL", "JAL", rd, 0, 0, imm)
Jalr(rd, rs1) == I("JALR", "JALR", rd, rs1, 0, 0)
Ecall == I("SYSTEM", "ECALL", 0, 0, 0, 0)
Nop == Addi(0, 0, 0)

smoke == <<Addi(1, 0, 5), Addi(2, 0, 7), Op("ADD", 3, 1, 2), Op("MUL", 4, 1, 2),
           Addi(10, 0, 256), Sw(4, 10), Lw(5, 10), Beq(5, 4, 8), Addi(6, 0, 1),
           Addi(6, 0, 2), Ecall>>
no_hazards == <<Addi(1, 0, 1), Addi(2, 0, 2), Addi(3, 0, 3), Addi(4, 0, 4),
                Op("ADD", 5, 1, 2), Op("ADD", 6, 3, 4), Op("XOR", 7, 1, 3),
                Op("OR", 8, 2, 4), Addi(9, 0, 9), Ecall>>
load_hazards == <<Addi(10, 0, 256), Addi(1, 0, 11), Sw(1, 10), Lw(2, 10),
                  Op("ADD", 3, 2, 1), Lw(4, 10), Addi(5, 4, 5), Lw(6, 10),
                  Op("XOR", 7, 6, 1), Addi(8, 0, 8), Ecall>>
branches == <<Addi(1, 0, 1), Addi(2, 0, 2), Beq(1, 2, 8), Addi(3, 0, 3),
              Beq(1, 1, 8), Addi(4, 0, 4), Addi(5, 0, 5), Bne(1, 2, 8),
              Addi(6, 0, 6), Addi(7, 0, 7), Beq(1, 1, 8), Addi(8, 0, 8),
              Addi(9, 0, 9), Ecall>>
divider == <<Addi(1, 0, 100), Addi(2, 0, 7), Op("DIV", 3, 1, 2), Op("DIVU", 4, 1, 2),
             Op("REM", 5, 1, 2), Op("REMU", 6, 1, 2), Op("ADD", 7, 3, 4),
             Op("ADD", 8, 5, 6), Ecall>>
divider_dependent == <<Addi(1, 0, 100), Addi(2, 0, 7), Op("DIV", 3, 1, 2),
                       Op("ADD", 4, 3, 2), Ecall>>
divider_back_to_back == SubSeq(divider, 1, 6) \o <<Ecall>>
divider_idle_gap ==
    <<Addi(1, 0, 100), Addi(2, 0, 7), Op("DIV", 3, 1, 2)>>
        \o [i \in 1 .. 8 |-> Addi(9 + i, 0, 9 + i)] \o <<Op("DIV", 4, 1, 2), Ecall>>
dcache_repeat == <<Addi(1, 0, 256), Lw(2, 1), Lw(3, 1), Op("ADD", 4, 2, 3), Ecall>>
cache_test == <<Addi(2, 0, 42), Sw(2, 0), Lw(3, 0), Addi(4, 0, 16), Addi(5, 0, 99),
                Sw(5, 4), Lw(6, 4), Lw(7, 0), Op("ADD", 8, 3, 6), Op("ADD", 9, 7, 0),
                Ecall>> \o [i \in 1 .. 8 |-> Nop]
branch_not_taken == <<Addi(1, 0, 1), Addi(2, 0, 2), Beq(1, 2, 8), Addi(3, 0, 3),
                      Addi(4, 0, 4), Ecall>>
branch_taken_forward == <<Addi(1, 0, 1), Addi(2, 0, 1), Beq(1, 2, 12), Addi(6, 0, 99),
                          Addi(6, 0, 99), Addi(5, 0, 5), Ecall>>
branch_backward_loop == <<Addi(1, 0, 0), Addi(2, 0, 3), Addi(1, 1, 1), Bne(1, 2, -4),
                          Addi(3, 0, 7), Ecall>>
branch_conflict_loop == <<Addi(1, 0, 0), Addi(2, 0, 3), Addi(1, 1, 1), Addi(5, 5, 1),
                          Addi(6, 6, 1), Addi(7, 7, 1), Bne(1, 2, -16), Addi(3, 0, 7),
                          Ecall>>
jal_forward_link == <<Jal(1, 12), Addi(2, 0, 85), Addi(3, 0, 102), Addi(4, 0, 4), Ecall>>
jal_backward_loop == <<Addi(1, 0, 2), Addi(1, 1, -1), Beq(1, 0, 8), Jal(0, -8), Ecall>>
jalr_forward == <<Addi(5, 0, 16), Jalr(1, 5), Addi(2, 0, 34), Addi(3, 0, 51),
                  Addi(4, 0, 4), Ecall>>
call_return == <<Jal(1, 16), Addi(2, 0, 2), Jal(0, 20), Addi(7, 0, 7), Addi(3, 0, 3),
                 Jalr(0, 1), Addi(8, 0, 8), Ecall>>

(* main.cpp: four lines and latency 3 as the milestone scripts pass them.  *)
Cache(on, writeBack) == [enabled |-> on, lines |-> 4, latency |-> 3, writeBack |-> writeBack]

On(program, i, d) == [program |-> program, icache |-> Cache(i, FALSE), dcache |-> Cache(d, TRUE)]

(* What the repository documents: cycles, then accesses/hits/misses of I$, *)
(* then accesses/hits/misses/writebacks of D$ (zeros where it is off).     *)
Off == <<0, 0, 0>>
Doc(m, cycles, i, d) == [machine |-> m, cycles |-> cycles, i |-> i, d |-> d]

Documented == {
    \* docs/VALIDATION_SUITE.md:9-12, scripts/run_validation_suite.py:25
    Doc(On(smoke, FALSE, FALSE), 17, Off, <<0, 0, 0, 0>>),
    Doc(On(no_hazards, FALSE, FALSE), 14, Off, <<0, 0, 0, 0>>),
    Doc(On(load_hazards, FALSE, FALSE), 18, Off, <<0, 0, 0, 0>>),
    Doc(On(branches, FALSE, FALSE), 21, Off, <<0, 0, 0, 0>>),
    Doc(On(divider, FALSE, FALSE), 20, Off, <<0, 0, 0, 0>>),
    \* scripts/run_divider_characterization.py:25-31
    Doc(On(divider_dependent, FALSE, FALSE), 16, Off, <<0, 0, 0, 0>>),
    Doc(On(divider_back_to_back, FALSE, FALSE), 18, Off, <<0, 0, 0, 0>>),
    Doc(On(divider_idle_gap, FALSE, FALSE), 31, Off, <<0, 0, 0, 0>>),
    \* scripts/run_milestone3b.py:32-33
    Doc(On(dcache_repeat, FALSE, TRUE), 17, Off, <<2, 1, 1, 0>>),
    Doc(On(cache_test, FALSE, TRUE), 48, Off, <<5, 2, 3, 2>>),
    \* docs/MILESTONE3B_IFETCH.md:17-18
    Doc(On(no_hazards, TRUE, FALSE), 98, <<14, 2, 12>>, <<0, 0, 0, 0>>),
    Doc(On(cache_test, TRUE, TRUE), 139, <<48, 35, 13>>, <<5, 2, 3, 2>>),
    \* docs/MILESTONE3C_REDIRECT_CALIBRATION.md:16-19
    Doc(On(branch_not_taken, TRUE, FALSE), 66, <<10, 2, 8>>, <<0, 0, 0, 0>>),
    Doc(On(branch_taken_forward, TRUE, FALSE), 74, <<11, 2, 9>>, <<0, 0, 0, 0>>),
    Doc(On(branch_backward_loop, TRUE, FALSE), 74, <<18, 10, 8>>, <<0, 0, 0, 0>>),
    Doc(On(branch_conflict_loop, TRUE, FALSE), 188, <<27, 4, 23>>, <<0, 0, 0, 0>>),
    \* docs/archive/milestone-notes/README_MILESTONE3D_CALIBRATED.md:14-17
    Doc(On(jal_forward_link, TRUE, FALSE), 58, <<9, 2, 7>>, <<0, 0, 0, 0>>),
    Doc(On(jal_backward_loop, TRUE, FALSE), 78, <<15, 6, 9>>, <<0, 0, 0, 0>>),
    Doc(On(jalr_forward, TRUE, FALSE), 66, <<10, 2, 8>>, <<0, 0, 0, 0>>),
    Doc(On(call_return, TRUE, FALSE), 107, <<16, 3, 13>>, <<0, 0, 0, 0>>)}

MCMachines == {d.machine : d \in Documented}

(* docs/MILESTONE2.md:10, scripts/run_divider_characterization.py:26-29    *)
DocumentedRetirements ==
    {[machine |-> On(smoke, FALSE, FALSE), cycles |-> <<5, 6, 7, 8, 9, 10, 11, 13, 16, 17>>],
     [machine |-> On(divider_dependent, FALSE, FALSE), cycles |-> <<5, 6, 14, 15, 16>>],
     [machine |-> On(divider_back_to_back, FALSE, FALSE),
      cycles |-> <<5, 6, 14, 15, 16, 17, 18>>],
     [machine |-> On(divider_idle_gap, FALSE, FALSE),
      cycles |-> <<5, 6, 14, 15, 16, 17, 18, 19, 20, 21, 22, 30, 31>>]}

-----------------------------------------------------------------------------

(* Every directed workload ends with the cycles, and the cache accesses,   *)
(* hits, misses and writebacks, that the repository's calibration tables   *)
(* list for it (measured on the RTL); none of them ends in an exception.   *)
DocumentedResults ==
    /\ at # "fault"
    /\ Between /\ halted =>
          \A d \in Documented : d.machine = machine =>
              /\ stats["cycles"] = d.cycles
              /\ <<stats["iAccesses"], stats["iHits"], stats["iMisses"]>> = d.i
              /\ <<stats["dAccesses"], stats["dHits"], stats["dMisses"],
                   stats["dWritebacks"]>> = d.d

(* Each row of the trace carries the retire cycle the calibration notes    *)
(* list for that instruction, and every listed instruction retires.        *)
DocumentedTrace ==
    \A r \in DocumentedRetirements : r.machine = machine =>
        /\ event.retired > 0 => event.cycle = r.cycles[event.retired]
        /\ Between /\ halted => event.retired = Len(r.cycles)
=============================================================================
