------------------------------ MODULE CpuModel ------------------------------
(***************************************************************************)
(* class CpuModel (src/src/CpuModel.cpp) with the parts it owns: two       *)
(* direct-mapped caches (CacheOps), the fetch stream                       *)
(* (src/src/IFetchStreamModel.cpp), and the pipeline timing (PipelineOps). *)
(*                                                                         *)
(* step() is not one action.  `at` says how far the current step() has     *)
(* come and `cur` holds its local variables, so that each iteration of the *)
(* fetch loop of ensure_through, each replayed fetch, and each point where *)
(* step() may throw is a step of its own:                                  *)
(*                                                                         *)
(*   idle -> fetch -+--------------------------> retire -> idle            *)
(*                  +-> mem (D$ hold) ---------> retire                    *)
(*                  +-> redirect (wrong path) -> retire                    *)
(*                  +-> drain (ECALL/EBREAK) --> retire                    *)
(*   and from idle, fetch or mem to "fault" when an exception leaves       *)
(*   step(): both drivers end the run on one.                              *)
(***************************************************************************)
EXTENDS CacheOps, PipelineOps, Rv32Alu, Sequences, FiniteSets

CONSTANTS
    MemSize,          \* config.memory_size, of both memories
    NumRegs,          \* 32 in the code
    MaxInstructions,  \* config.max_instructions
    ResetPc,          \* config.reset_pc, handed to reset()
    Machines,         \* [program, icache, dcache]: what is loaded, how configured
    LoadValues        \* words a load may return (data memory is not modelled)

(* Addresses and words wrap at Modulus, 2^32 in the code.                  *)
Word == 0 .. MaxWord
Regs == 0 .. NumRegs - 1

BranchFns == {"BEQ", "BNE", "BLT", "BGE", "BLTU", "BGEU"}
MulDivFns == {"MUL", "MULH", "MULHSU", "MULHU"} \cup DivRem
BaseFns == {"ADD", "SUB", "SLL", "SLT", "SLTU", "XOR", "SRL", "SRA", "OR", "AND"}
ImmFns == {"ADDI", "SLTI", "SLTIU", "XORI", "ORI", "ANDI", "SLLI", "SRLI", "SRAI"}

(* The encodings of each opcode that step() executes; every other function *)
(* field is "RESERVED", every other opcode "UNKNOWN".                      *)
LegalFns == [LUI |-> {"LUI"}, AUIPC |-> {"AUIPC"}, JAL |-> {"JAL"}, JALR |-> {"JALR"},
             BRANCH |-> BranchFns,
             LOAD |-> {"LB", "LH", "LW", "LBU", "LHU"}, STORE |-> {"SB", "SH", "SW"},
             OPIMM |-> ImmFns, OP |-> BaseFns \cup MulDivFns,
             FENCE |-> {"FENCE"}, SYSTEM |-> {"ECALL", "EBREAK"}, UNKNOWN |-> {}]

Fns == (UNION {LegalFns[op] : op \in DOMAIN LegalFns}) \cup {"RESERVED"}

(* A decoded instruction: imm is already sign-extended to a word.          *)
InsnType == [op : DOMAIN LegalFns, fn : Fns, rd : Regs, rs1 : Regs, rs2 : Regs, imm : Word]

(* What is loaded and how the caches are configured.                       *)
MachineType == [program : Seq(InsnType), icache : CacheConfig, dcache : CacheConfig]

(* The zero word that fills memory past the program is no instruction.     *)
ZeroWord == [op |-> "UNKNOWN", fn |-> "RESERVED", rd |-> 0, rs1 |-> 0, rs2 |-> 0, imm |-> 0]

ASSUME CpuAssumption ==
    /\ WordBits >= 2
    /\ MemSize \in Nat
    /\ NumRegs \in Nat \ {0}
    /\ MaxInstructions \in Nat
    /\ ResetPc \in Word
    /\ LoadValues \subseteq Word
    /\ Machines \subseteq MachineType

(* The memory ends far enough below the top of the address space that the  *)
(* fetch stream, at most 16 bytes past the fetched PC, does not wrap.      *)
NoWrapAssumption == MemSize + 12 < Modulus

VARIABLES
    machine,         \* the loaded program and the cache configurations: fixed
    regs, pc, halted,
    timing,          \* timing_
    icache, dcache,  \* icache_, dcache_
    ifetch,          \* next_sequential_pc_ and IFetchStreamStats
    overlap,         \* cache_overlap_cycles_
    ifstallReplays,  \* dcache_ifstall_replays_
    mix,             \* the instruction-mix counters of stats_
    stats,           \* the rest of stats_, published at the end of step()
    event,           \* the last RetireEvent written to the trace
    at, cur,         \* where step() is, and its local variables
    fault,           \* why step() threw, "none" while it has not
    owed             \* ghost: the redirect target an overlap credit was given for

arch == <<regs, pc, halted>>
credit == <<overlap, ifstallReplays>>
output == <<stats, event>>
vars == <<machine, regs, pc, halted, timing, icache, dcache, ifetch, overlap,
          ifstallReplays, mix, stats, event, at, cur, fault, owed>>

-----------------------------------------------------------------------------
(* Words and instructions *)

Plus(a, b) == Cut(a + b)
ClearBit0(a) == a - (a % 2)

Icfg == machine.icache
Dcfg == machine.dcache

(* Memory::check_range: the sum is taken in 64 bits.                       *)
InRange(addr, width) == addr + width <= MemSize

(* The word in instruction memory at an aligned address in range.          *)
InsnAt(addr) == IF addr \div 4 < Len(machine.program)
                THEN machine.program[addr \div 4 + 1] ELSE ZeroWord

Legal(insn) == insn.fn \in LegalFns[insn.op]

Width(insn) == CASE insn.fn \in {"LB", "LBU", "SB"} -> 1
                 [] insn.fn \in {"LH", "LHU", "SH"} -> 2
                 [] OTHER -> 4

DataAddr(insn) == Plus(regs[insn.rs1], insn.imm)

BranchTaken(insn) ==
    LET a == regs[insn.rs1]
        b == regs[insn.rs2]
    IN  CASE insn.fn = "BEQ"  -> a = b
          [] insn.fn = "BNE"  -> a # b
          [] insn.fn = "BLT"  -> AsSigned(a) < AsSigned(b)
          [] insn.fn = "BGE"  -> AsSigned(a) >= AsSigned(b)
          [] insn.fn = "BLTU" -> a < b
          [] insn.fn = "BGEU" -> a >= b
          [] OTHER -> FALSE

(* Where a control-flow instruction at addr goes when it redirects.        *)
RedirectTarget(insn, addr) ==
    IF insn.op = "JALR" THEN ClearBit0(Plus(regs[insn.rs1], insn.imm))
    ELSE Plus(addr, insn.imm)

(* Mutated Redirects: a branch counts as a redirect without its condition. *)
RedirectsAlways(insn) == insn.op \in {"JAL", "JALR", "BRANCH"}

(* sequential_next_redirect_target() returns true.                         *)
Redirects(insn) ==
    \/ insn.op = "JAL"
    \/ insn.op = "JALR" /\ Legal(insn)
    \/ insn.op = "BRANCH" /\ BranchTaken(insn)

WriteReg(rd, value) == IF rd = 0 THEN regs ELSE [regs EXCEPT ![rd] = value]

AluValue(insn) ==
    CASE insn.op = "LUI"   -> insn.imm
      [] insn.op = "AUIPC" -> Plus(cur.pc, insn.imm)
      [] insn.op = "OPIMM" -> AluResult(insn.fn, regs[insn.rs1], insn.imm)
      [] OTHER             -> AluResult(insn.fn, regs[insn.rs1], regs[insn.rs2])

-----------------------------------------------------------------------------
(* The state *)

FetchType == [next : Word, issued : Nat, replays : Nat, lookaheads : Nat,
              redirects : Nat, wrongPath : Nat]

ResetFetch(p) == [next |-> p, issued |-> 0, replays |-> 0, lookaheads |-> 0,
                  redirects |-> 0, wrongPath |-> 0]

MixType == [alu : Nat, branches : Nat, branchesTaken : Nat, loads : Nat,
            stores : Nat, mulDiv : Nat, jumps : Nat]

ZeroMix == [alu |-> 0, branches |-> 0, branchesTaken |-> 0, loads |-> 0,
            stores |-> 0, mulDiv |-> 0, jumps |-> 0]

StatsFields == {"retired", "cycles", "base", "fill", "loadUse", "branch", "jump",
                "divider", "icacheStall", "dcacheStall", "overlap", "holdReplays",
                "iAccesses", "iHits", "iMisses", "ifstallReplays", "dAccesses",
                "dHits", "dMisses", "dWritebacks", "axiReads", "axiWrites"}

(* The local variables of step() and of the fetch-stream call it is in.    *)
StepType == [pc : Word,        \* old_pc
             next : Word,      \* next_pc, once a redirect has set it
             taken : BOOLEAN,  \* branch_taken_this_instruction
             stalls : Nat,     \* cache_stalls_this_instruction
             call : Nat,       \* `stalls` of the fetch-stream call in progress
             dstall : Nat,     \* dcache_access.stall_cycles
             left : Nat,       \* replays the call has still to issue
             before : Nat]     \* issued_accesses when a redirect began

NoStep == [pc |-> 0, next |-> 0, taken |-> FALSE, stalls |-> 0, call |-> 0,
           dstall |-> 0, left |-> 0, before |-> 0]

(* The constructor followed by load_program and reset(reset_pc), as both   *)
(* drivers do.                                                             *)
Init == /\ machine \in Machines
        /\ regs = [r \in Regs |-> 0]
        /\ pc = ResetPc
        /\ halted = FALSE
        /\ timing = ResetTiming
        /\ icache = ResetCache(Icfg)
        /\ dcache = ResetCache(Dcfg)
        /\ ifetch = ResetFetch(ResetPc)
        /\ overlap = 0
        /\ ifstallReplays = 0
        /\ mix = ZeroMix
        /\ stats = [f \in StatsFields |-> 0]
        /\ event = [cycle |-> 0, retired |-> 0, pc |-> 0]
        /\ at = "idle"
        /\ cur = NoStep
        /\ fault = "none"
        /\ owed = {}

-----------------------------------------------------------------------------
(* step(): the checks before anything is fetched *)

StartFault ==
    IF stats.retired >= MaxInstructions THEN "limit"
    ELSE IF pc % 4 # 0 THEN "misaligned"
    ELSE IF ~InRange(pc, 4) THEN "range"
    ELSE "none"

StepThrows ==
    /\ at = "idle"
    /\ ~halted
    /\ StartFault # "none"
    /\ fault' = StartFault
    /\ at' = "fault"
    /\ UNCHANGED <<machine, arch, timing, icache, dcache, ifetch, credit, mix,
                   output, cur, owed>>

BeginStep ==
    /\ at = "idle"
    /\ ~halted
    /\ StartFault = "none"
    /\ at' = "fetch"
    /\ cur' = [NoStep EXCEPT !.pc = pc]
    /\ UNCHANGED <<machine, arch, timing, icache, dcache, ifetch, credit, mix,
                   output, fault, owed>>

-----------------------------------------------------------------------------
(* IFetchStreamModel: one request per action *)

(* Mutated WrongPathBytes and SystemHoldHits. *)
ThreeWordsWrong == 12
NoHoldHits == 0

HoldAhead == 12       \* dcache_hold_ahead_bytes
WrongPathBytes == 8   \* branch_ and jump_wrong_path_bytes, system_lookahead_bytes
SystemHoldHits == 2   \* system_hold_hits

(* The PC through which the call in progress makes the stream fetch.       *)
FetchTarget ==
    CASE at = "fetch" -> cur.pc
      [] at = "mem"   -> Plus(cur.pc, HoldAhead)
      [] OTHER        -> Plus(cur.pc, WrongPathBytes)

(* A fetch-stream call is in progress: on_dcache_stall() returns at once   *)
(* when the data access did not stall.                                     *)
Streaming == /\ Icfg.enabled
             /\ \/ at \in {"fetch", "redirect", "drain"}
                \/ at = "mem" /\ cur.dstall # 0

(* Mutated Behind: the target itself is not fetched. *)
StrictlyBehind == ifetch.next < FetchTarget

Behind == ifetch.next <= FetchTarget

StreamDone == Streaming => ~Behind /\ cur.left = 0

(* issue() on an enabled cache; the stall goes to the call in progress.    *)
Issue(addr) ==
    /\ icache' = AfterAccess(Icfg, icache, addr, FALSE)
    /\ owed' = {}

(* Mutated EnsureThrough: a resident word is not requested again, and the  *)
(* loop continues before it has advanced the pointer: it goes round at the *)
(* same word for ever.                                                     *)
EnsureThroughSpins ==
    /\ Streaming
    /\ Behind
    /\ IF Resident(Icfg, icache, ifetch.next) THEN UNCHANGED vars
       ELSE /\ Issue(ifetch.next)
            /\ ifetch' = [ifetch EXCEPT !.next = Plus(@, 4), !.issued = @ + 1,
                    !.lookaheads = @ + (IF ifetch.next # FetchTarget THEN 1 ELSE 0)]
            /\ cur' = [cur EXCEPT !.call = @ + AccessStall(Icfg, icache, ifetch.next)]
            /\ UNCHANGED <<machine, arch, timing, dcache, credit, mix, output, at,
                           fault>>

(* One iteration of the loop of ensure_through(). *)
EnsureThrough ==
    /\ Streaming
    /\ Behind
    /\ Issue(ifetch.next)
    /\ ifetch' = [ifetch EXCEPT !.next = Plus(@, 4), !.issued = @ + 1,
                      !.lookaheads = @ + (IF ifetch.next # FetchTarget THEN 1 ELSE 0)]
    /\ cur' = [cur EXCEPT !.call = @ + AccessStall(Icfg, icache, ifetch.next)]
    /\ UNCHANGED <<machine, arch, timing, dcache, credit, mix, output, at, fault>>

(* One replayed request of on_dcache_stall() or on_system_drain().         *)
Replay ==
    /\ Streaming
    /\ ~Behind
    /\ cur.left > 0
    /\ Issue(FetchTarget)
    /\ ifetch' = [ifetch EXCEPT !.issued = @ + 1, !.replays = @ + 1,
                      !.lookaheads = @ + (IF at = "drain" THEN 1 ELSE 0)]
    /\ cur' = [cur EXCEPT !.left = @ - 1,
                          !.call = @ + AccessStall(Icfg, icache, FetchTarget)]
    /\ UNCHANGED <<machine, arch, timing, dcache, credit, mix, output, at, fault>>

-----------------------------------------------------------------------------
(* step(): decode and execute, once the instruction itself is fetched *)

Insn == InsnAt(cur.pc)

Decoding == at = "fetch" /\ StreamDone

(* cur when the fetch-stream call in progress has returned its stalls.     *)
CallReturned == [cur EXCEPT !.stalls = @ + cur.call, !.call = 0]

Counted(field) == [mix EXCEPT ![field] = @ + 1]

AluClass(insn) == IF insn.fn \in MulDivFns THEN "mulDiv" ELSE "alu"

ExecuteAlu ==
    /\ Decoding
    /\ Insn.op \in {"LUI", "AUIPC", "OPIMM", "OP", "FENCE"}
    /\ Legal(Insn)
    /\ regs' = IF Insn.op = "FENCE" THEN regs ELSE WriteReg(Insn.rd, AluValue(Insn))
    /\ mix' = Counted(AluClass(Insn))
    /\ pc' = Plus(cur.pc, 4)
    /\ cur' = CallReturned
    /\ at' = "retire"
    /\ UNCHANGED <<machine, halted, timing, icache, dcache, ifetch, credit, output,
                   fault, owed>>

(* illegal(), or an out-of-range data access.  A reserved OP encoding has  *)
(* by then been counted as an ALU instruction.                             *)
ExecuteFault ==
    /\ Decoding
    /\ \/ ~Legal(Insn) /\ fault' = "illegal"
       \/ /\ Legal(Insn)
          /\ Insn.op \in {"LOAD", "STORE"}
          /\ ~InRange(DataAddr(Insn), Width(Insn))
          /\ fault' = "range"
    /\ mix' = IF Insn.op = "OP" THEN Counted("alu") ELSE mix
    /\ cur' = CallReturned
    /\ at' = "fault"
    /\ UNCHANGED <<machine, arch, timing, icache, dcache, ifetch, credit, output, owed>>

ExecuteJump ==
    /\ Decoding
    /\ Insn.op \in {"JAL", "JALR"}
    /\ Legal(Insn)
    /\ regs' = WriteReg(Insn.rd, Plus(cur.pc, 4))
    /\ mix' = Counted("jumps")
    /\ pc' = RedirectTarget(Insn, cur.pc)
    /\ cur' = [CallReturned EXCEPT !.next = pc', !.before = ifetch.issued]
    /\ at' = "redirect"
    /\ UNCHANGED <<machine, halted, timing, icache, dcache, ifetch, credit, output,
                   fault, owed>>

ExecuteTakenBranch ==
    /\ Decoding
    /\ Insn.op = "BRANCH"
    /\ Legal(Insn)
    /\ BranchTaken(Insn)
    /\ mix' = [mix EXCEPT !.branches = @ + 1, !.branchesTaken = @ + 1]
    /\ pc' = RedirectTarget(Insn, cur.pc)
    /\ cur' = [CallReturned EXCEPT !.next = pc', !.before = ifetch.issued,
                                   !.taken = TRUE]
    /\ at' = "redirect"
    /\ UNCHANGED <<machine, regs, halted, timing, icache, dcache, ifetch, credit,
                   output, fault, owed>>

ExecuteUntakenBranch ==
    /\ Decoding
    /\ Insn.op = "BRANCH"
    /\ Legal(Insn)
    /\ ~BranchTaken(Insn)
    /\ mix' = Counted("branches")
    /\ pc' = Plus(cur.pc, 4)
    /\ cur' = CallReturned
    /\ at' = "retire"
    /\ UNCHANGED <<machine, regs, halted, timing, icache, dcache, ifetch, credit,
                   output, fault, owed>>

(* Mutated ExecuteMemory: the held PC is replayed once, not once a cycle.  *)
ExecuteMemoryOneReplay ==
    /\ Decoding
    /\ Insn.op \in {"LOAD", "STORE"}
    /\ Legal(Insn)
    /\ InRange(DataAddr(Insn), Width(Insn))
    /\ dcache' = AfterAccess(Dcfg, dcache, DataAddr(Insn), Insn.op = "STORE")
    /\ LET stall == AccessStall(Dcfg, dcache, DataAddr(Insn))
       IN  cur' = [CallReturned EXCEPT !.dstall = stall,
                      !.left = IF Icfg.enabled /\ stall > 0 THEN 1 ELSE 0]
    /\ at' = "mem"
    /\ UNCHANGED <<machine, arch, timing, icache, ifetch, credit, mix, output,
                   fault, owed>>

(* The data access of a load or store; the stream is then held behind it.  *)
ExecuteMemory ==
    /\ Decoding
    /\ Insn.op \in {"LOAD", "STORE"}
    /\ Legal(Insn)
    /\ InRange(DataAddr(Insn), Width(Insn))
    /\ dcache' = AfterAccess(Dcfg, dcache, DataAddr(Insn), Insn.op = "STORE")
    /\ LET stall == AccessStall(Dcfg, dcache, DataAddr(Insn))
       IN  cur' = [CallReturned EXCEPT !.dstall = stall,
                                       !.left = IF Icfg.enabled THEN stall ELSE 0]
    /\ at' = "mem"
    /\ UNCHANGED <<machine, arch, timing, icache, ifetch, credit, mix, output,
                   fault, owed>>

ExecuteSystem ==
    /\ Decoding
    /\ Insn.op = "SYSTEM"
    /\ Legal(Insn)
    /\ halted' = TRUE
    /\ pc' = Plus(cur.pc, 4)
    /\ cur' = [CallReturned EXCEPT !.left = IF Icfg.enabled THEN SystemHoldHits ELSE 0]
    /\ at' = "drain"
    /\ UNCHANGED <<machine, regs, timing, icache, dcache, ifetch, credit, mix, output,
                   fault, owed>>

-----------------------------------------------------------------------------
(* step(): after the fetch-stream call of a memory or redirecting instruction *)

MemoryDone == at = "mem" /\ StreamDone

(* Mutated HoldCharged: the overlapped cycles are charged all the same.    *)
HoldChargedTwice(overlapped) ==
    [cur EXCEPT !.stalls = @ + cur.call + cur.dstall, !.call = 0, !.dstall = 0]

(* cur once the D$ hold is over: the fetches during it and the D$ stall    *)
(* itself are charged, less the cycles in which they overlap.              *)
HoldCharged(overlapped) ==
    [cur EXCEPT !.stalls = @ + cur.call + cur.dstall - overlapped,
                !.call = 0, !.dstall = 0]

LoadDone ==
    /\ MemoryDone
    /\ Insn.op = "LOAD"
    /\ \E value \in LoadValues : regs' = WriteReg(Insn.rd, value)
    /\ mix' = Counted("loads")
    /\ pc' = Plus(cur.pc, 4)
    /\ cur' = HoldCharged(0)
    /\ at' = "retire"
    /\ UNCHANGED <<machine, halted, timing, icache, dcache, ifetch, credit, output,
                   fault, owed>>

(* The store missed in D$ and the fetches behind it missed in I$, so the   *)
(* next instruction is inspected; it is read from instruction memory.      *)
Inspects == cur.dstall # 0 /\ cur.call # 0

Younger == InsnAt(Plus(cur.pc, 4))

(* Mutated OverlapCredit: the cycle in which D$ starts first is credited.  *)
OverlapWholeStall(dstall) ==
    IF ~Icfg.enabled \/ ~Dcfg.enabled \/ dstall <= 1 THEN 0
    ELSE IF dstall < CleanMissPenalty(Icfg) THEN dstall
    ELSE CleanMissPenalty(Icfg)

(* cache_overlap_credit() *)
OverlapCredit(dstall) ==
    IF ~Icfg.enabled \/ ~Dcfg.enabled \/ dstall <= 1 THEN 0
    ELSE IF dstall - 1 < CleanMissPenalty(Icfg) THEN dstall - 1
    ELSE CleanMissPenalty(Icfg)

YoungerTarget == RedirectTarget(Younger, Plus(cur.pc, 4))

(* The younger redirect will miss in I$ while this store waits for D$.     *)
Overlaps == /\ Inspects
            /\ Redirects(Younger)
            /\ ~WouldHit(Icfg, icache, YoungerTarget)

(* Mutated StoreThrows: the store is counted before the inspection.        *)
StoreThrowsCounted ==
    /\ MemoryDone
    /\ Insn.op = "STORE"
    /\ Inspects
    /\ ~InRange(Plus(cur.pc, 4), 4)
    /\ fault' = "range"
    /\ at' = "fault"
    /\ mix' = Counted("stores")
    /\ UNCHANGED <<machine, arch, timing, icache, dcache, ifetch, credit, output,
                   cur, owed>>

StoreThrows ==
    /\ MemoryDone
    /\ Insn.op = "STORE"
    /\ Inspects
    /\ ~InRange(Plus(cur.pc, 4), 4)
    /\ fault' = "range"
    /\ at' = "fault"
    /\ UNCHANGED <<machine, arch, timing, icache, dcache, ifetch, credit, mix,
                   output, cur, owed>>

StoreDone ==
    /\ MemoryDone
    /\ Insn.op = "STORE"
    /\ Inspects => InRange(Plus(cur.pc, 4), 4)
    /\ LET given == IF Overlaps THEN OverlapCredit(cur.dstall) ELSE 0
       IN  /\ overlap' = overlap + given
           /\ cur' = HoldCharged(given)
           /\ IF given # 0   \* the held store is presented again, and hits: no throw
              THEN /\ dcache' = AfterAccess(Dcfg, dcache, DataAddr(Insn), TRUE)
                   /\ ifstallReplays' = ifstallReplays + 1
                   /\ owed' = {YoungerTarget}
              ELSE UNCHANGED <<dcache, ifstallReplays, owed>>
    /\ mix' = Counted("stores")
    /\ pc' = Plus(cur.pc, 4)
    /\ at' = "retire"
    /\ UNCHANGED <<machine, regs, halted, timing, icache, ifetch, output, fault>>

(* Mutated RedirectDone: the stream is not restarted at the target.        *)
RedirectWithoutRestart ==
    /\ at = "redirect"
    /\ StreamDone
    /\ ifetch' = [ifetch EXCEPT !.redirects = @ + 1,
                      !.wrongPath = @ + (ifetch.issued - cur.before)]
    /\ cur' = CallReturned
    /\ at' = "retire"
    /\ UNCHANGED <<machine, arch, timing, icache, dcache, credit, mix, output,
                   fault, owed>>

(* on_taken_branch() and on_jump_redirect() restart the stream.            *)
RedirectDone ==
    /\ at = "redirect"
    /\ StreamDone
    /\ ifetch' = [ifetch EXCEPT !.next = cur.next, !.redirects = @ + 1,
                      !.wrongPath = @ + (ifetch.issued - cur.before)]
    /\ cur' = CallReturned
    /\ at' = "retire"
    /\ UNCHANGED <<machine, arch, timing, icache, dcache, credit, mix, output,
                   fault, owed>>

DrainDone ==
    /\ at = "drain"
    /\ StreamDone
    /\ cur' = CallReturned
    /\ at' = "retire"
    /\ UNCHANGED <<machine, arch, timing, icache, dcache, ifetch, credit, mix,
                   output, fault, owed>>

-----------------------------------------------------------------------------
(* step(): retire and publish *)

(* Mutated HoldReplays: more overlap than holds is not caught.             *)
HoldReplaysUnclamped(t) ==
    IF ~Icfg.enabled THEN 0 ELSE t.loadUse + t.divider - overlap

(* Load-use and divider holds re-request a resident word each; holds that  *)
(* cache overlap already accounts for are not counted again.               *)
HoldReplays(t) ==
    LET holds == t.loadUse + t.divider
    IN  IF ~Icfg.enabled \/ overlap >= holds THEN 0 ELSE holds - overlap

Published(t) ==
    LET i == icache.stats
        d == dcache.stats
    IN  [f \in StatsFields |->
            CASE f = "retired" -> t.retired
              [] f = "cycles" -> t.total
              [] f = "base" -> t.base
              [] f = "fill" -> t.fill
              [] f = "loadUse" -> t.loadUse
              [] f = "branch" -> t.branch
              [] f = "jump" -> t.jump
              [] f = "divider" -> t.divider
              [] f = "icacheStall" -> i.stall
              [] f = "dcacheStall" -> d.stall
              [] f = "overlap" -> overlap
              [] f = "holdReplays" -> HoldReplays(t)
              [] f = "iAccesses" -> i.accesses + HoldReplays(t)
              [] f = "iHits" -> i.hits + HoldReplays(t)
              [] f = "iMisses" -> i.misses
              [] f = "ifstallReplays" -> ifstallReplays
              [] f = "dAccesses" -> d.accesses
              [] f = "dHits" -> d.hits
              [] f = "dMisses" -> d.misses
              [] f = "dWritebacks" -> d.writebacks
              [] f = "axiReads" -> i.reads + d.reads
              [] OTHER -> d.writes]   \* axiWrites

Held == AddExternalStalls(timing, cur.stalls)

Retire ==
    /\ at = "retire"
    /\ timing' = AfterRetire(Held, Insn, cur.taken)
    /\ stats' = Published(timing')
    /\ event' = [cycle |-> RetireCycle(Held, Insn), retired |-> timing'.retired,
                 pc |-> cur.pc]
    /\ cur' = NoStep
    /\ at' = "idle"
    /\ UNCHANGED <<machine, arch, icache, dcache, ifetch, credit, mix, fault, owed>>

-----------------------------------------------------------------------------

Next == \/ StepThrows \/ BeginStep
        \/ EnsureThrough \/ Replay
        \/ ExecuteAlu \/ ExecuteFault \/ ExecuteJump
        \/ ExecuteTakenBranch \/ ExecuteUntakenBranch
        \/ ExecuteMemory \/ ExecuteSystem
        \/ LoadDone \/ StoreThrows \/ StoreDone
        \/ RedirectDone \/ DrainDone
        \/ Retire

Spec == Init /\ [][Next]_vars

(* run() calls step() again until the CPU halts.                           *)
FairSpec == Spec /\ WF_vars(Next)
=============================================================================
