------------------------ MODULE CpuAccounting_proofs ------------------------
(***************************************************************************)
(* What step() publishes, for every program, memory size, cache            *)
(* configuration and latency.                                              *)
(*                                                                         *)
(* First, types.  The counters are differences of each other in three      *)
(* places (the credit of a store, the wrong-path requests of a redirect,   *)
(* the replays left), so types are inductive only together with what the   *)
(* local variables of step() hold at each point of it.                     *)
(*                                                                         *)
(* Then, where every cycle comes from: a ledger that balances in the       *)
(* middle of step() too, in which what the four hazards and the two caches *)
(* have charged so far is what the timing model has accumulated, plus what *)
(* step() still holds in its local variables, plus what was taken off as   *)
(* overlap.  Last, the counts and the trace: an instruction is counted in  *)
(* the mix when it executes and in the rest when it retires, so the two    *)
(* agree only up to where step() is.                                       *)
(***************************************************************************)
EXTENDS CpuProperties, ComponentOps_proofs

-----------------------------------------------------------------------------
(* Words and instructions *)

(* Addresses are naturals, and a sum of two wraps into a word.             *)
LEMMA PlusInWord ==
    ASSUME NEW a \in Nat, NEW b \in Nat
    PROVE  Plus(a, b) \in Word
  <1>1. a + b \in Int
    OBVIOUS
  <1> QED
    BY <1>1, CutIsWord DEF Plus, Word

(* The small constants the code adds to a PC.                              *)
LEMMA WordsAreNat ==
    /\ Word \subseteq Nat
    /\ 0 \in Word
    /\ 4 \in Nat /\ HoldAhead \in Nat /\ WrongPathBytes \in Nat
    /\ SystemHoldHits \in Nat
  BY WordRange DEF Word, HoldAhead, WrongPathBytes, SystemHoldHits

(* Clearing bit 0 of an address leaves an address.                         *)
LEMMA ClearBit0InWord ==
    ASSUME NEW a \in Word
    PROVE  ClearBit0(a) \in Word
  <1>1. a \in Nat /\ a <= Modulus - 1 /\ Modulus \in Nat /\ MaxWord = Modulus - 1
    BY WordRange DEF Word
  <1>2. a % 2 \in 0 .. 1 /\ a - (a % 2) \in 0 .. a
    BY <1>1
  <1> QED
    BY <1>1, <1>2 DEF ClearBit0, Word

(* What is fetched is an instruction, also past the end of the program.    *)
LEMMA InsnTyped ==
    ASSUME machine \in MachineType, NEW addr \in Word
    PROVE  InsnAt(addr) \in InsnType
  <1>1. machine.program \in Seq(InsnType)
    BY DEF MachineType
  <1>2. ZeroWord \in InsnType
    <2>1. 0 \in Regs /\ 0 \in Word
      BY CpuAssumption, WordsAreNat DEF CpuAssumption, Regs
    <2>2. "RESERVED" \in Fns
      BY DEF Fns
    <2>3. "UNKNOWN" \in DOMAIN LegalFns
      BY DEF LegalFns
    <2> QED
      BY <2>1, <2>2, <2>3 DEF ZeroWord, InsnType
  <1>3. addr \div 4 \in Nat
    BY DEF Word
  <1>4. CASE addr \div 4 < Len(machine.program)
    <2>1. addr \div 4 + 1 \in 1 .. Len(machine.program)
      BY <1>1, <1>3, <1>4
    <2> QED
      BY <1>1, <1>4, <2>1 DEF InsnAt
  <1> QED
    BY <1>2, <1>4 DEF InsnAt

(* What each result is made of is a number, and it is cut to a word or is  *)
(* one already.                                                            *)
THEOREM AluResultsAreWords ==
    ASSUME NEW fn \in ImmFns \cup BaseFns \cup MulDivFns,
           NEW a \in 0 .. MaxWord, NEW b \in 0 .. MaxWord
    PROVE  AluResult(fn, a, b) \in 0 .. MaxWord
  <1> DEFINE n == AsSigned(a)
             d == AsSigned(b)
             p == Pow2[Shamt(b)]
  <1>1. /\ a \in Int /\ b \in Int /\ n \in Int /\ d \in Int
        /\ Half \in Nat \ {0} /\ Modulus = 2 * Half /\ MaxWord = Modulus - 1
    BY WordRange, SignedRange
  <1>2. p \in Nat \ {0}
    <2>1. Shamt(b) \in Nat
      BY <1>1, WordAssumption DEF Shamt
    <2> QED
      BY <2>1, PowersOfTwo
  <1>3. /\ 0 \in 0 .. MaxWord /\ 1 \in 0 .. MaxWord /\ MaxWord \in 0 .. MaxWord
        /\ Half \in 0 .. MaxWord
    BY <1>1
  <1> HIDE DEF n, d, p
  <1>4. /\ Cut(a + b) \in 0 .. MaxWord /\ Cut(a - b) \in 0 .. MaxWord
        /\ Cut(a * p) \in 0 .. MaxWord
    BY <1>1, <1>2, CutIsWord
  <1>5. a \div p \in 0 .. MaxWord
    <2>1. a = (p * (a \div p)) + (a % p) /\ a \div p \in Nat /\ a % p \in 0 .. p - 1
      BY <1>2, WordRange
    <2> DEFINE q == a \div p
               r == a % p
    <2> HIDE DEF q, r
    <2>2. a = p * q + r /\ q \in Nat /\ r \in Nat
      BY <1>2, <2>1 DEF q, r
    <2>3. p * q >= 1 * q
      BY <1>2, <2>2
    <2>4. q <= a
      BY <1>1, <1>2, <2>2, <2>3
    <2> QED
      BY <1>1, <2>2, <2>4 DEF q
  <1>6. Cut(n \div p) \in 0 .. MaxWord
    BY <1>1, <1>2, CutIsWord
  <1>7. /\ Cut(n * d) \in 0 .. MaxWord /\ Cut((n * d) \div Modulus) \in 0 .. MaxWord
        /\ Cut((n * b) \div Modulus) \in 0 .. MaxWord
        /\ Cut((a * b) \div Modulus) \in 0 .. MaxWord
    <2>1. ASSUME NEW x \in Int PROVE Cut(x \div Modulus) \in 0 .. MaxWord
      BY <1>1, CutIsWord
    <2>2. n * d \in Int /\ n * b \in Int /\ a * b \in Int
      BY <1>1
    <2> QED
      BY <2>1, <2>2, CutIsWord
  <1>8. b # 0 => a \div b \in 0 .. MaxWord /\ a % b \in 0 .. MaxWord
    <2> SUFFICES ASSUME b # 0 PROVE a \div b \in 0 .. MaxWord /\ a % b \in 0 .. MaxWord
      OBVIOUS
    <2> DEFINE q == a \div b
               r == a % b
    <2>1. a = b * q + r /\ q \in Nat /\ r \in 0 .. b - 1
      BY <1>1
    <2> HIDE DEF q, r
    <2>2. b * q >= 1 * q
      BY <1>1, <2>1
    <2>3. q <= a
      BY <1>1, <2>1, <2>2
    <2> QED
      BY <1>1, <2>1, <2>3 DEF q, r
  <1>9. \A S : WordOf(S) \in 0 .. MaxWord
    BY BitsOfWord
  <1>10. Flag(n < d) \in 0 .. MaxWord /\ Flag(a < b) \in 0 .. MaxWord
    BY <1>3 DEF Flag
  <1>11. CASE fn \in {"ADD", "ADDI", "SUB", "SLT", "SLTI", "SLTU", "SLTIU"}
    BY <1>4, <1>10, <1>11 DEF AluResult, n, d
  <1>12. CASE fn \in {"XOR", "XORI", "OR", "ORI", "AND", "ANDI"}
    BY <1>9, <1>12 DEF AluResult
  <1>13. CASE fn \in {"SLL", "SLLI", "SRL", "SRLI", "SRA", "SRAI"}
    BY <1>4, <1>5, <1>6, <1>13 DEF AluResult, n, p
  <1>14. CASE fn \in {"MUL", "MULH", "MULHSU", "MULHU"}
    BY <1>7, <1>14 DEF AluResult, n, d
  <1>15. CASE fn = "DIV" \/ fn = "REM"
    <2>1. CASE b = 0 \/ (a = Half /\ b = MaxWord)
      BY <1>3, <1>15, <2>1 DEF AluResult
    <2>2. CASE ~(b = 0 \/ (a = Half /\ b = MaxWord))
      BY <1>15, <2>2, SignedQuotient
    <2> QED
      BY <2>1, <2>2
  <1>16. CASE fn = "DIVU" \/ fn = "REMU"
    BY <1>3, <1>8, <1>16 DEF AluResult
  <1> QED
    BY <1>11, <1>12, <1>13, <1>14, <1>15, <1>16 DEF ImmFns, BaseFns, MulDivFns, DivRem

(* So is the result of a legal arithmetic instruction in memory.           *)
LEMMA AluTyped ==
    ASSUME NEW addr \in Word, Legal(InsnAt(addr)),
           InsnAt(addr).op \in {"OPIMM", "OP"},
           NEW a \in Word, NEW b \in Word
    PROVE  AluResult(InsnAt(addr).fn, a, b) \in Word
  <1>1. InsnAt(addr).fn \in ImmFns \cup BaseFns \cup MulDivFns
    BY DEF Legal, LegalFns
  <1> QED
    BY <1>1, AluResultsAreWords DEF Word

(* The target of a redirect, and the address of a data access, are words.  *)
LEMMA TargetInWord ==
    ASSUME regs \in [Regs -> Word], NEW insn \in InsnType, NEW addr \in Word
    PROVE  /\ RedirectTarget(insn, addr) \in Word
           /\ DataAddr(insn) \in Word
  <1>1. regs[insn.rs1] \in Word /\ insn.imm \in Word
    BY DEF InsnType
  <1>2. Plus(regs[insn.rs1], insn.imm) \in Word /\ Plus(addr, insn.imm) \in Word
    BY <1>1, PlusInWord, WordsAreNat
  <1> QED
    BY <1>2, ClearBit0InWord DEF RedirectTarget, DataAddr

(* Writing a word leaves words in every register.                          *)
LEMMA WriteRegType ==
    ASSUME regs \in [Regs -> Word], NEW rd \in Regs, NEW value \in Word
    PROVE  WriteReg(rd, value) \in [Regs -> Word]
  BY DEF WriteReg

-----------------------------------------------------------------------------
(* The local variables of step() *)

(* Moving the stalls of a call into those of the instruction keeps types.  *)
LEMMA ChargedLocalsTyped ==
    ASSUME NEW c \in StepType, NEW m \in Nat
    PROVE  /\ [c EXCEPT !.stalls = m, !.call = 0] \in StepType
           /\ [c EXCEPT !.stalls = m, !.call = 0, !.dstall = 0] \in StepType
  BY DEF StepType

(* A fetch-stream call that returns adds its stalls to the instruction's.  *)
LEMMA CallReturnedFields ==
    ASSUME cur \in StepType
    PROVE  /\ CallReturned \in StepType
           /\ CallReturned.stalls = cur.stalls + cur.call
           /\ CallReturned.call = 0
           /\ CallReturned.dstall = cur.dstall
           /\ CallReturned.before = cur.before
           /\ CallReturned.pc = cur.pc
           /\ CallReturned.taken = cur.taken
           /\ CallReturned.left = cur.left
  <1>1. cur.stalls + cur.call \in Nat
    BY DEF StepType
  <1>2. CallReturned = [cur EXCEPT !.stalls = cur.stalls + cur.call, !.call = 0]
    BY DEF CallReturned
  <1>3. CallReturned \in StepType
    BY <1>1, <1>2, ChargedLocalsTyped
  <1> QED
    BY <1>2, <1>3 DEF StepType

(* The credit is no more than the D$ stall it is taken from, less the      *)
(* cycle in which D$ was ahead.                                            *)
LEMMA CreditBounded ==
    ASSUME machine \in MachineType, NEW dstall \in Nat
    PROVE  /\ OverlapCredit(dstall) \in Nat
           /\ OverlapCredit(dstall) # 0 => OverlapCredit(dstall) + 1 <= dstall
           /\ OverlapCredit(dstall) <= dstall
  <1>1. Icfg \in CacheConfig
    BY DEF MachineType, Icfg
  <1>2. CleanMissPenalty(Icfg) \in Nat
    BY <1>1, StallIsNat
  <1> QED
    BY <1>2 DEF OverlapCredit

(* After the D$ hold of a load or store the instruction has been charged   *)
(* the fetches and the stall, less a credit that is no larger than the     *)
(* stall.                                                                  *)
LEMMA HoldChargedFields ==
    ASSUME cur \in StepType, NEW given \in Nat, given <= cur.dstall
    PROVE  /\ HoldCharged(given) \in StepType
           /\ HoldCharged(given).stalls = cur.stalls + cur.call + cur.dstall - given
           /\ HoldCharged(given).call = 0
           /\ HoldCharged(given).dstall = 0
           /\ HoldCharged(given).pc = cur.pc
  <1> DEFINE charged == cur.stalls + cur.call + cur.dstall - given
  <1>1. charged \in Nat
    BY DEF StepType
  <1>2. HoldCharged(given) = [cur EXCEPT !.stalls = charged, !.call = 0, !.dstall = 0]
    BY DEF HoldCharged
  <1> HIDE DEF charged
  <1>3. HoldCharged(given) \in StepType
    BY <1>1, <1>2, ChargedLocalsTyped
  <1>4. /\ HoldCharged(given).stalls = charged
        /\ HoldCharged(given).call = 0
        /\ HoldCharged(given).dstall = 0
        /\ HoldCharged(given).pc = cur.pc
    BY <1>2 DEF StepType
  <1> QED
    BY <1>3, <1>4 DEF charged

-----------------------------------------------------------------------------
(* The published statistics *)

(* The hold replays folded into the I$ counters never go below zero: the   *)
(* clamp in step() is enough.                                              *)
LEMMA HoldReplaysIsNat ==
    ASSUME NEW t \in TimingType, overlap \in Nat
    PROVE  HoldReplays(t) \in Nat
  <1>1. t.loadUse \in Nat /\ t.divider \in Nat
    BY DEF TimingType
  <1> QED
    BY <1>1 DEF HoldReplays

(* Every published counter is a natural number, and the ones the proofs    *)
(* read are counters of the components, or sums of two of them.            *)
LEMMA PublishedFields ==
    ASSUME NEW t \in TimingType, overlap \in Nat, ifstallReplays \in Nat,
           icache.stats \in CacheStats, dcache.stats \in CacheStats
    PROVE  /\ Published(t) \in [StatsFields -> Nat]
           /\ Published(t)["retired"] = t.retired
           /\ Published(t)["cycles"] = t.total
           /\ Published(t)["base"] = t.base
           /\ Published(t)["fill"] = t.fill
           /\ Published(t)["loadUse"] = t.loadUse
           /\ Published(t)["branch"] = t.branch
           /\ Published(t)["jump"] = t.jump
           /\ Published(t)["divider"] = t.divider
           /\ Published(t)["icacheStall"] = icache.stats.stall
           /\ Published(t)["dcacheStall"] = dcache.stats.stall
           /\ Published(t)["overlap"] = overlap
           /\ Published(t)["iAccesses"] = icache.stats.accesses + HoldReplays(t)
           /\ Published(t)["iHits"] = icache.stats.hits + HoldReplays(t)
           /\ Published(t)["iMisses"] = icache.stats.misses
           /\ Published(t)["dAccesses"] = dcache.stats.accesses
           /\ Published(t)["axiReads"] = icache.stats.reads + dcache.stats.reads
           /\ Published(t)["axiWrites"] = dcache.stats.writes
  <1>1. HoldReplays(t) \in Nat
    BY HoldReplaysIsNat
  <1>2. /\ t.retired \in Nat /\ t.total \in Nat /\ t.base \in Nat /\ t.fill \in Nat
        /\ t.loadUse \in Nat /\ t.branch \in Nat /\ t.jump \in Nat
        /\ t.divider \in Nat
    BY DEF TimingType
  <1>3. \A s \in CacheStats : /\ s.accesses \in Nat /\ s.hits \in Nat /\ s.misses \in Nat
                             /\ s.writebacks \in Nat /\ s.reads \in Nat
                             /\ s.writes \in Nat /\ s.stall \in Nat
    BY DEF CacheStats
  <1>4. Published(t) \in [StatsFields -> Nat]
    BY <1>1, <1>2, <1>3 DEF Published
  <1>5. /\ Published(t)["retired"] = t.retired
        /\ Published(t)["cycles"] = t.total
        /\ Published(t)["base"] = t.base
        /\ Published(t)["fill"] = t.fill
        /\ Published(t)["loadUse"] = t.loadUse
        /\ Published(t)["branch"] = t.branch
        /\ Published(t)["jump"] = t.jump
        /\ Published(t)["divider"] = t.divider
        /\ Published(t)["icacheStall"] = icache.stats.stall
        /\ Published(t)["dcacheStall"] = dcache.stats.stall
        /\ Published(t)["overlap"] = overlap
    BY DEF Published, StatsFields
  <1>6. /\ Published(t)["iAccesses"] = icache.stats.accesses + HoldReplays(t)
        /\ Published(t)["iHits"] = icache.stats.hits + HoldReplays(t)
        /\ Published(t)["iMisses"] = icache.stats.misses
        /\ Published(t)["dAccesses"] = dcache.stats.accesses
        /\ Published(t)["axiReads"] = icache.stats.reads + dcache.stats.reads
        /\ Published(t)["axiWrites"] = dcache.stats.writes
    BY DEF Published, StatsFields
  <1> QED
    BY <1>4, <1>5, <1>6

-----------------------------------------------------------------------------
(* Type correctness *)

(* What the local variables hold at each point of step(): nothing between  *)
(* two steps, a D$ stall only while it is held, and a counter taken before *)
(* a redirect that the stream has only grown since.                        *)
LocalsInPlace ==
    /\ at = "idle" => cur = NoStep
    /\ at \in {"fetch", "redirect", "drain", "retire"} => cur.dstall = 0
    /\ at = "retire" => cur.call = 0
    /\ at = "redirect" => cur.before <= ifetch.issued

Typed == TypeOK /\ machine \in Machines /\ LocalsInPlace

(* The types of what the actions read.                                     *)
LEMMA StateFacts ==
    ASSUME TypeOK
    PROVE  /\ Icfg \in CacheConfig
           /\ Dcfg \in CacheConfig
           /\ cur.pc \in Word /\ cur.next \in Word /\ cur.taken \in BOOLEAN
           /\ cur.stalls \in Nat /\ cur.call \in Nat /\ cur.dstall \in Nat
           /\ cur.left \in Nat /\ cur.before \in Nat
           /\ Insn \in InsnType
           /\ FetchTarget \in Word
           /\ Plus(cur.pc, 4) \in Word
           /\ icache.stats \in CacheStats /\ dcache.stats \in CacheStats
  <1>1. machine \in MachineType /\ cur \in StepType
    BY DEF TypeOK
  <1>2. Icfg \in CacheConfig /\ Dcfg \in CacheConfig
    BY <1>1 DEF MachineType, Icfg, Dcfg
  <1>3. /\ cur.pc \in Word /\ cur.next \in Word /\ cur.taken \in BOOLEAN
        /\ cur.stalls \in Nat /\ cur.call \in Nat /\ cur.dstall \in Nat
        /\ cur.left \in Nat /\ cur.before \in Nat
    BY <1>1 DEF StepType
  <1>4. Insn \in InsnType
    BY <1>1, <1>3, InsnTyped DEF Insn
  <1>5. /\ Plus(cur.pc, 4) \in Word
        /\ Plus(cur.pc, HoldAhead) \in Word
        /\ Plus(cur.pc, WrongPathBytes) \in Word
    BY <1>3, PlusInWord, WordsAreNat
  <1>6. FetchTarget \in Word
    BY <1>3, <1>5 DEF FetchTarget
  <1>7. icache.stats \in CacheStats /\ dcache.stats \in CacheStats
    BY DEF TypeOK, CacheType
  <1> QED
    BY <1>2, <1>3, <1>4, <1>5, <1>6, <1>7

(* A request of the stream keeps the I$ well formed, and charges the call  *)
(* in progress what it charges the cache.                                  *)
LEMMA IssueFacts ==
    ASSUME TypeOK, NEW addr \in Word, Issue(addr)
    PROVE  /\ icache' \in CacheType(Icfg)
           /\ icache'.stats.stall = icache.stats.stall + AccessStall(Icfg, icache, addr)
           /\ AccessStall(Icfg, icache, addr) \in Nat
           /\ owed' = {}
  <1>1. Icfg \in CacheConfig /\ icache \in CacheType(Icfg) /\ addr \in Nat
    BY StateFacts, WordsAreNat DEF TypeOK
  <1> QED
    BY <1>1, AfterAccessType, StallIsNat DEF Issue

(* Counting an instruction keeps the counters of the mix natural numbers.  *)
LEMMA CountedType ==
    ASSUME mix \in MixType
    PROVE  /\ \A f \in {"alu", "branches", "loads", "stores", "mulDiv", "jumps"} :
                 Counted(f) \in MixType
           /\ [mix EXCEPT !.branches = @ + 1, !.branchesTaken = @ + 1] \in MixType
  <1>1. \A f \in {"alu", "branches", "loads", "stores", "mulDiv", "jumps"} :
           Counted(f) \in MixType
    <2> TAKE f \in {"alu", "branches", "loads", "stores", "mulDiv", "jumps"}
    <2> CASE f = "alu"
      BY DEF Counted, MixType
    <2> CASE f = "branches"
      BY DEF Counted, MixType
    <2> CASE f = "loads"
      BY DEF Counted, MixType
    <2> CASE f = "stores"
      BY DEF Counted, MixType
    <2> CASE f = "mulDiv"
      BY DEF Counted, MixType
    <2> CASE f = "jumps"
      BY DEF Counted, MixType
    <2> QED
      OBVIOUS
  <1>2. [mix EXCEPT !.branches = @ + 1, !.branchesTaken = @ + 1] \in MixType
    <2>1. mix.branches + 1 \in Nat /\ mix.branchesTaken + 1 \in Nat
      BY DEF MixType
    <2>2. \A m, n \in Nat :
             [mix EXCEPT !.branches = m, !.branchesTaken = n] \in MixType
      BY DEF MixType
    <2> QED
      BY <2>1, <2>2
  <1> QED
    BY <1>1, <1>2

(* What a write-back of an instruction result leaves in the registers.     *)
LEMMA ExecuteAluType ==
    ASSUME Typed, ExecuteAlu
    PROVE  regs' \in [Regs -> Word]
  <1>1. Insn \in InsnType /\ cur.pc \in Word /\ regs \in [Regs -> Word]
    BY StateFacts DEF Typed, TypeOK
  <1>2. /\ Insn.rd \in Regs /\ Insn.imm \in Word
        /\ regs[Insn.rs1] \in Word /\ regs[Insn.rs2] \in Word
    BY <1>1 DEF InsnType
  <1>3. CASE Insn.op = "FENCE"
    BY <1>1, <1>3 DEF ExecuteAlu
  <1>4. CASE Insn.op # "FENCE"
    <2>1. AluValue(Insn) \in Word
      <3>1. CASE Insn.op = "LUI"
        BY <1>2, <3>1 DEF AluValue
      <3>2. CASE Insn.op = "AUIPC"
        <4>1. Plus(cur.pc, Insn.imm) \in Word
          BY <1>1, <1>2, PlusInWord, WordsAreNat
        <4> QED
          BY <3>2, <4>1 DEF AluValue
      <3>3. CASE Insn.op \in {"OPIMM", "OP"}
        <4>1. machine \in Machines /\ machine \in MachineType /\ Legal(InsnAt(cur.pc))
          BY DEF Typed, TypeOK, ExecuteAlu, Insn
        <4>2. \A a, b \in Word : AluResult(Insn.fn, a, b) \in Word
          BY <1>1, <3>3, <4>1, AluTyped DEF Insn
        <4> QED
          BY <1>2, <3>3, <4>2 DEF AluValue
      <3> QED
        BY <1>4, <3>1, <3>2, <3>3 DEF ExecuteAlu
    <2>2. WriteReg(Insn.rd, AluValue(Insn)) \in [Regs -> Word]
      BY <1>1, <1>2, <2>1, WriteRegType
    <2> QED
      BY <1>4, <2>2 DEF ExecuteAlu
  <1> QED
    BY <1>3, <1>4

(* ifetch with its counters moved on is still a fetch stream.              *)
LEMMA FetchTyped ==
    ASSUME ifetch \in FetchType, NEW p \in Word, NEW m \in Nat, NEW n \in Nat,
           NEW k \in Nat
    PROVE  /\ [ifetch EXCEPT !.next = p, !.issued = m, !.lookaheads = n] \in FetchType
           /\ [ifetch EXCEPT !.issued = m, !.replays = n, !.lookaheads = k] \in FetchType
           /\ [ifetch EXCEPT !.next = p, !.redirects = m, !.wrongPath = n] \in FetchType
  BY DEF FetchType

(* The fetch pointer is a word and the stream counters are naturals.       *)
LEMMA FetchFields ==
    ASSUME ifetch \in FetchType
    PROVE  /\ ifetch.next \in Word /\ ifetch.issued \in Nat /\ ifetch.replays \in Nat
           /\ ifetch.lookaheads \in Nat /\ ifetch.redirects \in Nat
           /\ ifetch.wrongPath \in Nat
  BY DEF FetchType

(* A request of ensure_through() keeps the types: the pointer wraps.       *)
LEMMA EnsureThroughTyped ==
    ASSUME Typed, EnsureThrough
    PROVE  Typed'
  <1>1. /\ ifetch.next \in Word /\ ifetch.issued + 1 \in Nat
        /\ ifetch.lookaheads + (IF ifetch.next # FetchTarget THEN 1 ELSE 0) \in Nat
        /\ Plus(ifetch.next, 4) \in Word
    <2>1. /\ ifetch.next \in Word /\ ifetch.issued \in Nat /\ ifetch.lookaheads \in Nat
      BY FetchFields DEF Typed, TypeOK
    <2>2. Plus(ifetch.next, 4) \in Word
      BY <2>1, PlusInWord, WordsAreNat
    <2> QED
      BY <2>1, <2>2
  <1>2. /\ ifetch' \in FetchType
        /\ ifetch'.issued = ifetch.issued + 1
    <2> DEFINE m == ifetch.issued + 1
               n == ifetch.lookaheads + (IF ifetch.next # FetchTarget THEN 1 ELSE 0)
               p == Plus(ifetch.next, 4)
    <2>1. ifetch' = [ifetch EXCEPT !.next = p, !.issued = m, !.lookaheads = n]
      BY DEF EnsureThrough
    <2>2. ifetch \in FetchType /\ m \in Nat /\ n \in Nat /\ p \in Word
      BY <1>1 DEF Typed, TypeOK
    <2> HIDE DEF m, n, p
    <2>3. ifetch' \in FetchType /\ ifetch'.issued = m
      BY <2>1, <2>2, FetchTyped DEF FetchType
    <2> QED
      BY <2>3 DEF m
  <1>3. Issue(ifetch.next) /\ TypeOK
    BY DEF EnsureThrough, Typed
  <1>4. /\ icache' \in CacheType(Icfg)
        /\ AccessStall(Icfg, icache, ifetch.next) \in Nat
        /\ owed' = {}
    BY <1>1, <1>3, IssueFacts
  <1>5. cur' \in StepType /\ cur'.dstall = cur.dstall /\ cur'.before = cur.before
    <2> DEFINE m == cur.call + AccessStall(Icfg, icache, ifetch.next)
    <2>1. cur' = [cur EXCEPT !.call = m]
      BY DEF EnsureThrough
    <2>2. m \in Nat /\ cur \in StepType
      BY <1>3, <1>4, StateFacts DEF TypeOK
    <2> HIDE DEF m
    <2>3. \A c \in StepType, k \in Nat : [c EXCEPT !.call = k] \in StepType
      BY DEF StepType
    <2> QED
      BY <2>1, <2>2, <2>3 DEF StepType
  <1>6. /\ UNCHANGED <<machine, arch, timing, dcache, credit, mix, output, at, fault>>
        /\ at # "idle" /\ at # "retire"
    BY DEF EnsureThrough, Streaming
  <1>7. TypeOK'
    BY <1>2, <1>4, <1>5, <1>6 DEF Typed, TypeOK, arch, credit, output, Icfg, Dcfg
  <1>8. LocalsInPlace'
    <2>1. ifetch.issued \in Nat /\ cur.before \in Nat
      BY <1>3, FetchFields, StateFacts DEF TypeOK
    <2> QED
      BY <1>2, <1>5, <1>6, <2>1 DEF Typed, LocalsInPlace
  <1> QED
    BY <1>6, <1>7, <1>8 DEF Typed

(* A replayed request is made only while some are left, so the count of    *)
(* the remaining ones stays a natural number.                              *)
LEMMA ReplayTyped ==
    ASSUME Typed, Replay
    PROVE  Typed'
  <1>1. TypeOK /\ Issue(FetchTarget) /\ FetchTarget \in Word
    BY StateFacts DEF Typed, Replay
  <1>2. /\ ifetch' \in FetchType
        /\ ifetch'.issued = ifetch.issued + 1
    <2> DEFINE m == ifetch.issued + 1
               n == ifetch.replays + 1
               k == ifetch.lookaheads + (IF at = "drain" THEN 1 ELSE 0)
    <2>1. ifetch' = [ifetch EXCEPT !.issued = m, !.replays = n, !.lookaheads = k]
      BY DEF Replay
    <2>2. ifetch \in FetchType /\ m \in Nat /\ n \in Nat /\ k \in Nat
      BY <1>1, FetchFields DEF TypeOK
    <2> HIDE DEF m, n, k
    <2>3. ifetch' \in FetchType /\ ifetch'.issued = m
      BY <2>1, <2>2, FetchTyped, WordsAreNat DEF FetchType
    <2> QED
      BY <2>3 DEF m
  <1>3. /\ icache' \in CacheType(Icfg)
        /\ AccessStall(Icfg, icache, FetchTarget) \in Nat
        /\ owed' = {}
    BY <1>1, IssueFacts
  <1>4. cur' \in StepType /\ cur'.dstall = cur.dstall /\ cur'.before = cur.before
    <2> DEFINE m == cur.call + AccessStall(Icfg, icache, FetchTarget)
               n == cur.left - 1
    <2>1. cur' = [cur EXCEPT !.left = n, !.call = m]
      BY DEF Replay
    <2>2. m \in Nat /\ n \in Nat /\ cur \in StepType
      BY <1>1, <1>3, StateFacts DEF TypeOK, Replay
    <2> HIDE DEF m, n
    <2>3. \A c \in StepType, i, j \in Nat : [c EXCEPT !.left = i, !.call = j] \in StepType
      BY DEF StepType
    <2> QED
      BY <2>1, <2>2, <2>3 DEF StepType
  <1>5. /\ UNCHANGED <<machine, arch, timing, dcache, credit, mix, output, at, fault>>
        /\ at # "idle" /\ at # "retire"
    BY DEF Replay, Streaming
  <1>6. TypeOK'
    BY <1>2, <1>3, <1>4, <1>5 DEF Typed, TypeOK, arch, credit, output, Icfg, Dcfg
  <1>7. LocalsInPlace'
    <2>1. ifetch.issued \in Nat /\ cur.before \in Nat
      BY <1>1, FetchFields, StateFacts DEF TypeOK
    <2> QED
      BY <1>2, <1>4, <1>5, <2>1 DEF Typed, LocalsInPlace
  <1> QED
    BY <1>5, <1>6, <1>7 DEF Typed

(* The remaining actions of step(), by what they leave of the local        *)
(* variables.  An instruction that retires without touching the caches:    *)
LEMMA ExecuteAluTyped ==
    ASSUME Typed, ExecuteAlu
    PROVE  Typed'
  <1>1. regs' \in [Regs -> Word]
    BY ExecuteAluType
  <1>2. pc' \in Word /\ mix' \in MixType
    <2>1. Plus(cur.pc, 4) \in Word /\ mix \in MixType
      BY StateFacts DEF Typed, TypeOK
    <2>2. AluClass(Insn) \in {"mulDiv", "alu"}
      BY DEF AluClass
    <2> QED
      BY <2>1, <2>2, CountedType DEF ExecuteAlu
  <1>3. cur' \in StepType /\ cur'.dstall = cur.dstall /\ cur'.call = 0
    BY CallReturnedFields DEF ExecuteAlu, Typed, TypeOK
  <1>4. at = "fetch" /\ at' = "retire"
    BY DEF ExecuteAlu, Decoding
  <1>5. TypeOK'
    BY <1>1, <1>2, <1>3, <1>4
       DEF ExecuteAlu, Typed, TypeOK, credit, output, Icfg, Dcfg
  <1>6. LocalsInPlace'
    BY <1>3, <1>4 DEF Typed, LocalsInPlace
  <1> QED
    BY <1>5, <1>6 DEF Typed, ExecuteAlu

(* An exception in decode leaves the counters it has already moved.        *)
LEMMA ExecuteFaultTyped ==
    ASSUME Typed, ExecuteFault
    PROVE  Typed'
  <1>1. mix' \in MixType
    BY CountedType DEF ExecuteFault, Typed, TypeOK
  <1>2. cur' \in StepType
    BY CallReturnedFields DEF ExecuteFault, Typed, TypeOK
  <1>3. at' = "fault" /\ fault' \in {"illegal", "range"}
    BY DEF ExecuteFault
  <1>4. TypeOK'
    BY <1>1, <1>2, <1>3
       DEF ExecuteFault, Typed, TypeOK, arch, credit, output, Icfg, Dcfg
  <1> QED
    BY <1>3, <1>4 DEF Typed, LocalsInPlace, ExecuteFault

(* The two instructions that redirect start counting wrong-path fetches.   *)
LEMMA ExecuteJumpTyped ==
    ASSUME Typed, ExecuteJump
    PROVE  Typed'
  <1>1. /\ Insn \in InsnType /\ Plus(cur.pc, 4) \in Word /\ cur.pc \in Word
        /\ regs \in [Regs -> Word] /\ mix \in MixType /\ ifetch.issued \in Nat
        /\ Insn.rd \in Regs
    BY StateFacts, FetchFields DEF Typed, TypeOK, InsnType
  <1>2. regs' \in [Regs -> Word]
    BY <1>1, WriteRegType DEF ExecuteJump
  <1>3. pc' \in Word
    BY <1>1, TargetInWord DEF ExecuteJump
  <1>4. mix' \in MixType
    BY <1>1, CountedType DEF ExecuteJump
  <1>5. cur' \in StepType /\ cur'.dstall = cur.dstall /\ cur'.before = ifetch.issued
    <2>1. CallReturned \in StepType /\ CallReturned.dstall = cur.dstall
      BY CallReturnedFields DEF Typed, TypeOK
    <2>2. \A c \in StepType, p \in Word, k \in Nat :
             [c EXCEPT !.next = p, !.before = k] \in StepType
      BY DEF StepType
    <2>3. cur' = [CallReturned EXCEPT !.next = pc', !.before = ifetch.issued]
      BY DEF ExecuteJump
    <2> QED
      BY <1>1, <1>3, <2>1, <2>2, <2>3 DEF StepType
  <1>6. at = "fetch" /\ at' = "redirect" /\ ifetch' = ifetch
    BY DEF ExecuteJump, Decoding
  <1>7. TypeOK'
    BY <1>2, <1>3, <1>4, <1>5, <1>6
       DEF ExecuteJump, Typed, TypeOK, credit, output, Icfg, Dcfg
  <1>8. LocalsInPlace'
    BY <1>1, <1>5, <1>6 DEF Typed, LocalsInPlace
  <1> QED
    BY <1>7, <1>8 DEF Typed, ExecuteJump

(* A taken branch goes to a word, and so does the stream.                  *)
LEMMA ExecuteTakenBranchTyped ==
    ASSUME Typed, ExecuteTakenBranch
    PROVE  Typed'
  <1>1. /\ Insn \in InsnType /\ cur.pc \in Word
        /\ regs \in [Regs -> Word] /\ mix \in MixType /\ ifetch.issued \in Nat
    BY StateFacts, FetchFields DEF Typed, TypeOK
  <1>2. pc' \in Word
    BY <1>1, TargetInWord DEF ExecuteTakenBranch
  <1>3. mix' \in MixType
    BY <1>1, CountedType DEF ExecuteTakenBranch
  <1>4. cur' \in StepType /\ cur'.dstall = cur.dstall /\ cur'.before = ifetch.issued
    <2>1. CallReturned \in StepType /\ CallReturned.dstall = cur.dstall
      BY CallReturnedFields DEF Typed, TypeOK
    <2>2. \A c \in StepType, p \in Word, k \in Nat :
             [c EXCEPT !.next = p, !.before = k, !.taken = TRUE] \in StepType
      BY DEF StepType
    <2>3. cur' = [CallReturned EXCEPT !.next = pc', !.before = ifetch.issued,
                                      !.taken = TRUE]
      BY DEF ExecuteTakenBranch
    <2> QED
      BY <1>1, <1>2, <2>1, <2>2, <2>3 DEF StepType
  <1>5. at = "fetch" /\ at' = "redirect" /\ ifetch' = ifetch
    BY DEF ExecuteTakenBranch, Decoding
  <1>6. TypeOK'
    BY <1>2, <1>3, <1>4, <1>5
       DEF ExecuteTakenBranch, Typed, TypeOK, credit, output, Icfg, Dcfg
  <1>7. LocalsInPlace'
    BY <1>1, <1>4, <1>5 DEF Typed, LocalsInPlace
  <1> QED
    BY <1>6, <1>7 DEF Typed, ExecuteTakenBranch

(* A branch that falls through.                                            *)
LEMMA ExecuteUntakenBranchTyped ==
    ASSUME Typed, ExecuteUntakenBranch
    PROVE  Typed'
  <1>1. pc' \in Word /\ mix' \in MixType
    <2>1. Plus(cur.pc, 4) \in Word /\ mix \in MixType
      BY StateFacts DEF Typed, TypeOK
    <2> QED
      BY <2>1, CountedType DEF ExecuteUntakenBranch
  <1>2. cur' \in StepType /\ cur'.dstall = cur.dstall /\ cur'.call = 0
    BY CallReturnedFields DEF ExecuteUntakenBranch, Typed, TypeOK
  <1>3. at = "fetch" /\ at' = "retire"
    BY DEF ExecuteUntakenBranch, Decoding
  <1>4. TypeOK'
    BY <1>1, <1>2, <1>3
       DEF ExecuteUntakenBranch, Typed, TypeOK, credit, output, Icfg, Dcfg
  <1>5. LocalsInPlace'
    BY <1>2, <1>3 DEF Typed, LocalsInPlace
  <1> QED
    BY <1>4, <1>5 DEF Typed, ExecuteUntakenBranch

(* The data access of a load or store.                                     *)
LEMMA ExecuteMemoryTyped ==
    ASSUME Typed, ExecuteMemory
    PROVE  Typed'
  <1> DEFINE stall == AccessStall(Dcfg, dcache, DataAddr(Insn))
  <1>1. /\ Dcfg \in CacheConfig /\ dcache \in CacheType(Dcfg)
        /\ DataAddr(Insn) \in Nat /\ (Insn.op = "STORE") \in BOOLEAN
    BY StateFacts, TargetInWord, WordsAreNat DEF Typed, TypeOK
  <1>2. dcache' \in CacheType(Dcfg) /\ stall \in Nat
    BY <1>1, AfterAccessType, StallIsNat DEF ExecuteMemory
  <1>3. cur' \in StepType
    <2>1. CallReturned \in StepType
      BY CallReturnedFields DEF Typed, TypeOK
    <2>2. cur' = [CallReturned EXCEPT !.dstall = stall,
                                      !.left = IF Icfg.enabled THEN stall ELSE 0]
      BY DEF ExecuteMemory
    <2>3. \A c \in StepType, m, n \in Nat : [c EXCEPT !.dstall = m, !.left = n] \in StepType
      BY DEF StepType
    <2> HIDE DEF stall
    <2>4. (IF Icfg.enabled THEN stall ELSE 0) \in Nat
      BY <1>2
    <2> QED
      BY <1>2, <2>1, <2>2, <2>3, <2>4
  <1>4. at' = "mem"
    BY DEF ExecuteMemory
  <1>5. TypeOK'
    BY <1>2, <1>3, <1>4 DEF ExecuteMemory, Typed, TypeOK, arch, credit, output, Icfg, Dcfg
  <1> QED
    BY <1>4, <1>5 DEF Typed, LocalsInPlace, ExecuteMemory

(* ECALL and EBREAK hand the stream its two replays to make.               *)
LEMMA ExecuteSystemTyped ==
    ASSUME Typed, ExecuteSystem
    PROVE  Typed'
  <1>1. pc' \in Word
    BY StateFacts DEF Typed, ExecuteSystem
  <1>2. cur' \in StepType /\ cur'.dstall = cur.dstall
    <2>1. CallReturned \in StepType /\ CallReturned.dstall = cur.dstall
      BY CallReturnedFields DEF Typed, TypeOK
    <2>2. \A c \in StepType, n \in Nat : [c EXCEPT !.left = n] \in StepType
      BY DEF StepType
    <2>3. (IF Icfg.enabled THEN SystemHoldHits ELSE 0) \in Nat
      BY WordsAreNat
    <2> QED
      BY <2>1, <2>2, <2>3 DEF StepType, ExecuteSystem
  <1>3. at = "fetch" /\ at' = "drain"
    BY DEF ExecuteSystem, Decoding
  <1>4. TypeOK'
    BY <1>1, <1>2, <1>3 DEF ExecuteSystem, Typed, TypeOK, credit, output, Icfg, Dcfg
  <1> QED
    BY <1>2, <1>3, <1>4 DEF Typed, LocalsInPlace, ExecuteSystem

(* A load or a store whose hold is over.                                   *)
LEMMA LoadDoneTyped ==
    ASSUME Typed, LoadDone
    PROVE  Typed'
  <1>1. /\ Insn \in InsnType /\ Insn.rd \in Regs /\ Plus(cur.pc, 4) \in Word
        /\ regs \in [Regs -> Word] /\ mix \in MixType
        /\ cur \in StepType /\ cur.dstall \in Nat
    BY StateFacts DEF Typed, TypeOK, InsnType
  <1>2. regs' \in [Regs -> Word]
    <2>1. PICK value \in LoadValues : regs' = WriteReg(Insn.rd, value)
      BY DEF LoadDone
    <2>2. value \in Word
      BY <2>1, CpuAssumption DEF CpuAssumption
    <2> QED
      BY <1>1, <2>1, <2>2, WriteRegType
  <1>3. pc' \in Word /\ mix' \in MixType
    BY <1>1, CountedType DEF LoadDone
  <1>4. cur' \in StepType /\ cur'.dstall = 0 /\ cur'.call = 0
    BY <1>1, HoldChargedFields DEF LoadDone
  <1>5. at' = "retire"
    BY DEF LoadDone
  <1>6. TypeOK'
    BY <1>2, <1>3, <1>4, <1>5 DEF LoadDone, Typed, TypeOK, credit, output, Icfg, Dcfg
  <1> QED
    BY <1>4, <1>5, <1>6 DEF Typed, LocalsInPlace, LoadDone

(* A store whose younger word is out of range throws.                      *)
LEMMA StoreThrowsTyped ==
    ASSUME Typed, StoreThrows
    PROVE  Typed'
  BY DEF Typed, TypeOK, LocalsInPlace, StoreThrows, arch, credit, output, Icfg, Dcfg

(* What the completion of a store credits and charges.                     *)
Given == IF Overlaps THEN OverlapCredit(cur.dstall) ELSE 0

(* The credit of a store is at most its D$ stall less one cycle, and the   *)
(* held store is presented again exactly when there is a credit.           *)
LEMMA StoreDoneFacts ==
    ASSUME Typed, StoreDone
    PROVE  /\ Given \in Nat /\ Given <= cur.dstall
           /\ Given # 0 => Given + 1 <= cur.dstall
           /\ overlap' = overlap + Given
           /\ cur' = HoldCharged(Given)
           /\ Given # 0 => /\ dcache' = AfterAccess(Dcfg, dcache, DataAddr(Insn), TRUE)
                           /\ ifstallReplays' = ifstallReplays + 1
                           /\ owed' = {YoungerTarget}
           /\ Given = 0 => UNCHANGED <<dcache, ifstallReplays, owed>>
  <1>1. machine \in MachineType /\ cur.dstall \in Nat
    BY StateFacts DEF Typed, TypeOK
  <1>2. /\ Given \in Nat /\ Given <= cur.dstall
        /\ Given # 0 => Given + 1 <= cur.dstall
    BY <1>1, CreditBounded DEF Given
  <1> QED
    BY <1>2 DEF StoreDone, Given

(* Taking the credit off the charges never goes below zero.                *)
LEMMA StoreDoneTyped ==
    ASSUME Typed, StoreDone
    PROVE  Typed'
  <1>1. /\ Insn \in InsnType /\ Plus(cur.pc, 4) \in Word /\ cur \in StepType
        /\ machine \in MachineType /\ regs \in [Regs -> Word] /\ mix \in MixType
        /\ Dcfg \in CacheConfig /\ dcache \in CacheType(Dcfg)
        /\ overlap \in Nat /\ ifstallReplays \in Nat /\ owed \in SUBSET Word
    BY StateFacts DEF Typed, TypeOK
  <1>2. Given \in Nat /\ Given <= cur.dstall
    BY StoreDoneFacts
  <1>3. overlap' \in Nat
    BY <1>1, <1>2, StoreDoneFacts
  <1>4. cur' \in StepType /\ cur'.dstall = 0 /\ cur'.call = 0
    BY <1>1, <1>2, StoreDoneFacts, HoldChargedFields
  <1>5. dcache' \in CacheType(Dcfg) /\ ifstallReplays' \in Nat /\ owed' \in SUBSET Word
    <2>1. CASE Given = 0
      BY <1>1, <2>1, StoreDoneFacts
    <2>2. CASE Given # 0
      <3>1. Younger \in InsnType
        BY <1>1, InsnTyped DEF Younger
      <3>2. YoungerTarget \in Word /\ DataAddr(Insn) \in Nat
        BY <1>1, <3>1, TargetInWord, WordsAreNat DEF YoungerTarget
      <3>3. AfterAccess(Dcfg, dcache, DataAddr(Insn), TRUE) \in CacheType(Dcfg)
        BY <1>1, <3>2, AfterAccessType
      <3>4. /\ dcache' = AfterAccess(Dcfg, dcache, DataAddr(Insn), TRUE)
            /\ ifstallReplays' = ifstallReplays + 1
            /\ owed' = {YoungerTarget}
        BY <2>2, StoreDoneFacts
      <3>5. {YoungerTarget} \in SUBSET Word
        BY <3>2
      <3>6. ifstallReplays' \in Nat
        BY <1>1, <3>4
      <3>7. dcache' \in CacheType(Dcfg)
        BY <3>3, <3>4, Zenon
      <3> QED
        BY <3>4, <3>5, <3>6, <3>7
    <2> QED
      BY <2>1, <2>2
  <1>6. pc' \in Word /\ mix' \in MixType
    BY <1>1, CountedType DEF StoreDone
  <1>7. at' = "retire"
    BY DEF StoreDone
  <1>8. TypeOK'
    BY <1>3, <1>4, <1>5, <1>6, <1>7 DEF StoreDone, Typed, TypeOK, output, Icfg, Dcfg
  <1> QED
    BY <1>4, <1>7, <1>8 DEF Typed, LocalsInPlace, StoreDone

(* The end of a redirect: no more wrong-path requests are counted than the *)
(* stream has issued, so the difference is a natural number.               *)
LEMMA RedirectDoneTyped ==
    ASSUME Typed, RedirectDone
    PROVE  Typed'
  <1>1. ifetch' \in FetchType
    <2> DEFINE m == ifetch.redirects + 1
               n == ifetch.wrongPath + (ifetch.issued - cur.before)
    <2>1. ifetch' = [ifetch EXCEPT !.next = cur.next, !.redirects = m, !.wrongPath = n]
      BY DEF RedirectDone
    <2>2. /\ ifetch \in FetchType /\ cur.next \in Word
          /\ ifetch.redirects \in Nat /\ ifetch.wrongPath \in Nat
          /\ ifetch.issued \in Nat /\ cur.before \in Nat
      BY StateFacts, FetchFields DEF Typed, TypeOK
    <2>3. cur.before <= ifetch.issued
      BY DEF Typed, LocalsInPlace, RedirectDone
    <2>4. m \in Nat /\ n \in Nat
      BY <2>2, <2>3
    <2> HIDE DEF m, n
    <2> QED
      BY <2>1, <2>2, <2>4, FetchTyped
  <1>2. cur' \in StepType /\ cur'.dstall = cur.dstall /\ cur'.call = 0
    BY CallReturnedFields DEF RedirectDone, Typed, TypeOK
  <1>3. at = "redirect" /\ at' = "retire"
    BY DEF RedirectDone
  <1>4. TypeOK'
    BY <1>1, <1>2, <1>3 DEF RedirectDone, Typed, TypeOK, arch, credit, output, Icfg, Dcfg
  <1> QED
    BY <1>2, <1>3, <1>4 DEF Typed, LocalsInPlace, RedirectDone

(* The end of the drain behind an ECALL or EBREAK.                         *)
LEMMA DrainDoneTyped ==
    ASSUME Typed, DrainDone
    PROVE  Typed'
  <1>1. cur' \in StepType /\ cur'.dstall = cur.dstall /\ cur'.call = 0
    BY CallReturnedFields DEF DrainDone, Typed, TypeOK
  <1>2. at = "drain" /\ at' = "retire"
    BY DEF DrainDone
  <1>3. TypeOK'
    BY <1>1, <1>2 DEF DrainDone, Typed, TypeOK, arch, credit, output, Icfg, Dcfg
  <1> QED
    BY <1>1, <1>2, <1>3 DEF Typed, LocalsInPlace, DrainDone

(* What the retirement of an instruction hands to the timing model.        *)
LEMMA HeldFacts ==
    ASSUME Typed
    PROVE  /\ Held \in TimingType
           /\ Held.acc = timing.acc + cur.stalls
           /\ Held.retired = timing.retired
           /\ Held.loadUse = timing.loadUse
           /\ Held.branch = timing.branch
           /\ Held.jump = timing.jump
           /\ Held.divider = timing.divider
           /\ Timed(Insn)
           /\ cur.taken \in BOOLEAN
  <1>1. timing \in TimingType /\ cur.stalls \in Nat /\ cur.taken \in BOOLEAN
    BY StateFacts DEF Typed, TypeOK
  <1>2. Timed(Insn)
    <2>1. Insn \in InsnType
      BY StateFacts DEF Typed
    <2> QED
      BY <2>1 DEF InsnType, Regs, Timed
  <1> QED
    BY <1>1, <1>2, AddExternalStallsFields DEF Held

(* The local variables of no step at all are well typed.                   *)
LEMMA NoStepType == NoStep \in StepType
  BY WordsAreNat DEF NoStep, StepType

(* Retiring publishes natural numbers and a word.                          *)
LEMMA RetireTyped ==
    ASSUME Typed, Retire
    PROVE  Typed'
  <1>1. timing' \in TimingType
    BY HeldFacts, AfterRetireFields DEF Retire
  <1>2. stats' \in [StatsFields -> Nat]
    <2>1. /\ overlap \in Nat /\ ifstallReplays \in Nat
          /\ icache.stats \in CacheStats /\ dcache.stats \in CacheStats
      BY StateFacts DEF Typed, TypeOK
    <2> QED
      BY <1>1, <2>1, PublishedFields DEF Retire
  <1>3. event' \in [cycle : Nat, retired : Nat, pc : Word]
    <2>1. RetireCycle(Held, Insn) \in Nat
      BY HeldFacts, RetireCycleBeforeRedirect
    <2>2. timing'.retired \in Nat /\ cur.pc \in Word
      BY <1>1, StateFacts DEF TimingType, Typed
    <2> QED
      BY <2>1, <2>2 DEF Retire
  <1>4. cur' \in StepType
    BY NoStepType DEF Retire
  <1>5. at' = "idle" /\ cur' = NoStep
    BY DEF Retire
  <1>6. TypeOK'
    BY <1>1, <1>2, <1>3, <1>4, <1>5 DEF Retire, Typed, TypeOK, arch, credit, Icfg, Dcfg
  <1> QED
    BY <1>5, <1>6 DEF Typed, LocalsInPlace, Retire

(* An exception before the fetch changes nothing else.                     *)
LEMMA StepThrowsTyped ==
    ASSUME Typed, StepThrows
    PROVE  Typed'
  BY DEF Typed, TypeOK, LocalsInPlace, StepThrows, StartFault, arch, credit, output,
         Icfg, Dcfg

(* A step starts from the architectural PC with nothing charged.           *)
LEMMA BeginStepTyped ==
    ASSUME Typed, BeginStep
    PROVE  Typed'
  <1>1. cur' \in StepType /\ cur'.dstall = 0
    <2>1. pc \in Word
      BY DEF Typed, TypeOK
    <2> QED
      BY <2>1, NoStepType DEF BeginStep, StepType, NoStep
  <1>2. at' = "fetch"
    BY DEF BeginStep
  <1>3. TypeOK'
    BY <1>1, <1>2 DEF BeginStep, Typed, TypeOK, arch, credit, output, Icfg, Dcfg
  <1> QED
    BY <1>1, <1>2, <1>3 DEF Typed, LocalsInPlace, BeginStep

(* Reset establishes the invariant.                                        *)
LEMMA InitTyped == Init => Typed
  <1> SUFFICES ASSUME Init PROVE Typed
    OBVIOUS
  <1>1. machine \in Machines /\ machine \in MachineType
    BY CpuAssumption DEF Init, CpuAssumption
  <1>2. icache \in CacheType(Icfg) /\ dcache \in CacheType(Dcfg)
    <2>1. Icfg \in CacheConfig /\ Dcfg \in CacheConfig
      BY <1>1 DEF Icfg, Dcfg, MachineType
    <2> QED
      BY <2>1, ResetCacheType DEF Init
  <1>3. /\ regs \in [Regs -> Word] /\ pc \in Word /\ ResetPc \in Word
    BY WordsAreNat, CpuAssumption DEF Init, CpuAssumption
  <1>4. timing \in TimingType /\ mix \in MixType
    BY DEF Init, ResetTiming, TimingType, ZeroMix, MixType
  <1>5. ifetch \in FetchType /\ cur \in StepType
    BY <1>3, NoStepType DEF Init, ResetFetch, FetchType
  <1>6. stats \in [StatsFields -> Nat] /\ event \in [cycle : Nat, retired : Nat, pc : Word]
    BY WordsAreNat DEF Init
  <1>7. LocalsInPlace
    BY DEF Init, LocalsInPlace, NoStep
  <1> QED
    BY <1>1, <1>2, <1>3, <1>4, <1>5, <1>6, <1>7 DEF Init, Typed, TypeOK

(* Every step of step() keeps the invariant.                               *)
LEMMA NextTyped ==
    ASSUME Typed, [Next]_vars
    PROVE  Typed'
  <1>1. CASE UNCHANGED vars
    BY <1>1 DEF Typed, TypeOK, LocalsInPlace, vars, Icfg, Dcfg
  <1> QED
    BY <1>1, StepThrowsTyped, BeginStepTyped, EnsureThroughTyped, ReplayTyped,
       ExecuteAluTyped, ExecuteFaultTyped, ExecuteJumpTyped, ExecuteTakenBranchTyped,
       ExecuteUntakenBranchTyped, ExecuteMemoryTyped, ExecuteSystemTyped,
       LoadDoneTyped, StoreThrowsTyped, StoreDoneTyped, RedirectDoneTyped,
       DrainDoneTyped, RetireTyped
       DEF Next

(* No counter of the model, of the caches, of the stream or of the timing  *)
(* goes below zero, and every PC and register is a word: for every         *)
(* program, configuration and memory size.                                 *)
THEOREM CpuTypeCorrect == Spec => []TypeOK
  <1>1. Typed /\ [Next]_vars => Typed'
    BY NextTyped
  <1>2. Typed => TypeOK
    BY DEF Typed
  <1> QED
    BY InitTyped, <1>1, <1>2, PTL DEF Spec

-----------------------------------------------------------------------------
(* The cycles *)

Charged == cur.stalls + cur.call + cur.dstall

Hazards(t) == t.loadUse + t.branch + t.jump + t.divider

Ledger ==
    timing.acc + Charged + overlap =
        Hazards(timing) + icache.stats.stall + dcache.stats.stall

(* While a data access is held its word is in D$: presenting the store     *)
(* again, as step() does after an overlap, cannot stall a second time.     *)
HeldWordHits == at = "mem" => WouldHit(Dcfg, dcache, DataAddr(Insn))

(* The identity of CycleAccounting, kept also while a step() is running.   *)
PublishedBalance ==
    stats["cycles"] + stats["overlap"] =
        stats["base"] + stats["fill"]
        + stats["loadUse"] + stats["branch"] + stats["jump"] + stats["divider"]
        + stats["icacheStall"] + stats["dcacheStall"]

Balanced == Typed /\ HeldWordHits /\ Ledger /\ PublishedBalance

(* The counters in the ledger are natural numbers.                         *)
LEMMA LedgerTerms ==
    ASSUME Typed
    PROVE  /\ timing.acc \in Nat /\ Hazards(timing) \in Nat /\ overlap \in Nat
           /\ icache.stats.stall \in Nat /\ dcache.stats.stall \in Nat
           /\ cur.stalls \in Nat /\ cur.call \in Nat /\ cur.dstall \in Nat
  <1>1. /\ timing \in TimingType /\ overlap \in Nat
        /\ icache.stats \in CacheStats /\ dcache.stats \in CacheStats
    BY StateFacts DEF Typed, TypeOK
  <1>2. cur.stalls \in Nat /\ cur.call \in Nat /\ cur.dstall \in Nat
    BY StateFacts DEF Typed
  <1> QED
    BY <1>1, <1>2 DEF TimingType, CacheStats, Hazards

(* Steps that move charges between the local variables of step() only.     *)
LEMMA LedgerKept ==
    ASSUME Ledger, Charged' = Charged, UNCHANGED <<timing, overlap, icache, dcache>>
    PROVE  Ledger'
  BY DEF Ledger

(* A fetch charges the I$ and the call in progress alike.                  *)
LEMMA LedgerAfterFetch ==
    ASSUME Typed, Ledger, EnsureThrough \/ Replay
    PROVE  Ledger'
  <1> DEFINE addr == IF EnsureThrough THEN ifetch.next ELSE FetchTarget
             stall == AccessStall(Icfg, icache, addr)
  <1>1. TypeOK /\ addr \in Word
    BY StateFacts, FetchFields DEF Typed, TypeOK
  <1>2. Issue(addr) /\ UNCHANGED <<timing, overlap, dcache>>
    BY DEF EnsureThrough, Replay, credit
  <1>3. stall \in Nat /\ icache'.stats.stall = icache.stats.stall + stall
    BY <1>1, <1>2, IssueFacts
  <1>4. /\ cur'.call = cur.call + stall
        /\ cur'.stalls = cur.stalls /\ cur'.dstall = cur.dstall
    BY <1>1 DEF EnsureThrough, Replay, StepType, TypeOK
  <1>5. timing' = timing /\ overlap' = overlap /\ dcache' = dcache
    BY <1>2
  <1> DEFINE i == icache.stats.stall
             d == dcache.stats.stall
             acc == timing.acc
             hazards == Hazards(timing)
             charged == Charged
  <1>6. /\ acc \in Nat /\ hazards \in Nat /\ overlap \in Nat
        /\ i \in Nat /\ d \in Nat /\ charged \in Nat
    BY LedgerTerms DEF Charged
  <1>7. Charged' = charged + stall
    <2>1. cur.stalls \in Nat /\ cur.call \in Nat /\ cur.dstall \in Nat
      BY LedgerTerms
    <2> HIDE DEF addr, stall
    <2> QED
      BY <1>3, <1>4, <2>1 DEF Charged
  <1>8. acc + charged + overlap = hazards + i + d
    BY DEF Ledger
  <1>9. acc + (charged + stall) + overlap = hazards + (i + stall) + d
    <2> HIDE DEF addr, stall, i, d, acc, hazards, charged
    <2> QED
      BY <1>3, <1>6, <1>8
  <1> QED
    BY <1>3, <1>5, <1>7, <1>9 DEF Ledger

(* A data access charges D$ and the hold behind it alike.                  *)
LEMMA LedgerAfterAccess ==
    ASSUME Typed, Ledger, ExecuteMemory
    PROVE  Ledger' /\ HeldWordHits'
  <1> DEFINE addr == DataAddr(Insn)
             write == Insn.op = "STORE"
             stall == AccessStall(Dcfg, dcache, addr)
  <1>1. /\ Dcfg \in CacheConfig /\ dcache \in CacheType(Dcfg)
        /\ addr \in Nat /\ write \in BOOLEAN
    BY StateFacts, TargetInWord, WordsAreNat DEF Typed, TypeOK
  <1>2. dcache' = AfterAccess(Dcfg, dcache, addr, write)
    BY DEF ExecuteMemory
  <1>3. /\ dcache'.stats.stall = dcache.stats.stall + stall
        /\ stall \in Nat
        /\ WouldHit(Dcfg, dcache', addr)
    BY <1>1, <1>2, AfterAccessType, StallIsNat, AccessedWordHits
  <1>4. UNCHANGED <<timing, overlap, icache, regs, machine>> /\ at' = "mem"
    BY DEF ExecuteMemory, credit, arch
  <1>5. /\ cur'.stalls = cur.stalls + cur.call /\ cur'.call = 0
        /\ cur'.dstall = stall /\ cur'.pc = cur.pc
    <2>1. /\ CallReturned \in StepType
          /\ CallReturned.stalls = cur.stalls + cur.call
          /\ CallReturned.call = 0 /\ CallReturned.pc = cur.pc
      BY CallReturnedFields DEF Typed, TypeOK
    <2>2. cur' = [CallReturned EXCEPT !.dstall = stall,
                                      !.left = IF Icfg.enabled THEN stall ELSE 0]
      BY DEF ExecuteMemory
    <2> HIDE DEF stall
    <2> QED
      BY <2>1, <2>2 DEF StepType
  <1>6. cur.dstall = 0
    BY DEF Typed, LocalsInPlace, ExecuteMemory, Decoding
  <1>7. Ledger'
    <2>1. /\ timing.acc \in Nat /\ Hazards(timing) \in Nat /\ overlap \in Nat
          /\ icache.stats.stall \in Nat /\ dcache.stats.stall \in Nat
          /\ cur.stalls \in Nat /\ cur.call \in Nat
      BY LedgerTerms
    <2>2. stall \in Nat /\ dcache'.stats.stall = dcache.stats.stall + stall
      BY <1>3
    <2>3. timing' = timing /\ overlap' = overlap /\ icache' = icache
      BY <1>4
    <2> HIDE DEF stall, addr, write
    <2> QED
      BY <1>5, <1>6, <2>1, <2>2, <2>3 DEF Ledger, Charged
  <1>8. HeldWordHits'
    <2>1. DataAddr(Insn)' = addr /\ Dcfg' = Dcfg
      BY <1>4, <1>5 DEF DataAddr, Insn, InsnAt, Dcfg
    <2> QED
      BY <1>3, <2>1 DEF HeldWordHits
  <1> QED
    BY <1>7, <1>8

(* A store charges the pipeline less than the caches by what it credits,   *)
(* and presenting it again charges nobody.                                 *)
LEMMA LedgerAfterStore ==
    ASSUME Typed, Ledger, HeldWordHits, StoreDone
    PROVE  Ledger'
  <1>1. /\ Given \in Nat /\ Given <= cur.dstall
        /\ overlap' = overlap + Given
        /\ cur' = HoldCharged(Given)
    BY StoreDoneFacts
  <1>2. /\ cur'.stalls = cur.stalls + cur.call + cur.dstall - Given
        /\ cur'.call = 0 /\ cur'.dstall = 0
    BY <1>1, HoldChargedFields DEF Typed, TypeOK
  <1>3. dcache'.stats.stall = dcache.stats.stall
    <2>1. CASE Given = 0
      BY <2>1, StoreDoneFacts
    <2>2. CASE Given # 0
      <3>1. dcache' = AfterAccess(Dcfg, dcache, DataAddr(Insn), TRUE)
        BY <2>2, StoreDoneFacts
      <3>2. /\ Dcfg \in CacheConfig /\ dcache \in CacheType(Dcfg)
            /\ DataAddr(Insn) \in Nat
        BY StateFacts, TargetInWord, WordsAreNat DEF Typed, TypeOK
      <3>3. AccessStall(Dcfg, dcache, DataAddr(Insn)) = 0
        BY <3>2, StallIsNat DEF HeldWordHits, StoreDone, MemoryDone
      <3>4. dcache'.stats.stall =
               dcache.stats.stall + AccessStall(Dcfg, dcache, DataAddr(Insn))
        BY <3>1, <3>2, AfterAccessType
      <3> QED
        BY <3>3, <3>4, LedgerTerms
    <2> QED
      BY <2>1, <2>2 , StoreDoneFacts
  <1>4. UNCHANGED <<timing, icache>>
    BY DEF StoreDone
  <1> QED
    BY <1>1, <1>2, <1>3, <1>4, LedgerTerms DEF Ledger, Charged

(* The four categories grow by the penalties of the instruction.           *)
LEMMA HazardsAfterRetire ==
    ASSUME Typed, Retire
    PROVE  /\ RetireStalls(Held, Insn, cur.taken) \in Nat
           /\ Hazards(timing') =
                 Hazards(timing) + RetireStalls(Held, Insn, cur.taken)
  <1> DEFINE lu == LoadUseStall(Held, Insn)
             dv == DividerStall(Held, Insn)
             br == BranchStall(Insn, cur.taken)
             ju == JumpStall(Insn)
  <1>1. /\ Held \in TimingType /\ Timed(Insn) /\ cur.taken \in BOOLEAN
        /\ Held.loadUse = timing.loadUse /\ Held.branch = timing.branch
        /\ Held.jump = timing.jump /\ Held.divider = timing.divider
    BY HeldFacts
  <1>2. lu \in Nat /\ dv \in Nat /\ br \in Nat /\ ju \in Nat
    BY <1>1, PenaltiesAreNat
  <1>3. RetireStalls(Held, Insn, cur.taken) = lu + dv + br + ju
    BY DEF RetireStalls
  <1>4. /\ timing'.loadUse = timing.loadUse + lu
        /\ timing'.branch = timing.branch + br
        /\ timing'.jump = timing.jump + ju
        /\ timing'.divider = timing.divider + dv
    BY <1>1, AfterRetireFields DEF Retire
  <1>5. /\ timing.loadUse \in Nat /\ timing.branch \in Nat
        /\ timing.jump \in Nat /\ timing.divider \in Nat
    BY DEF Typed, TypeOK, TimingType
  <1> DEFINE l == timing.loadUse
             b == timing.branch
             j == timing.jump
             d == timing.divider
  <1>6. Hazards(timing') = (l + lu) + (b + br) + (j + ju) + (d + dv)
    BY <1>4 DEF Hazards
  <1>7. Hazards(timing) = l + b + j + d
    BY DEF Hazards
  <1>8. l \in Nat /\ b \in Nat /\ j \in Nat /\ d \in Nat
    BY <1>5
  <1> HIDE DEF lu, dv, br, ju, l, b, j, d
  <1>9. (l + lu) + (b + br) + (j + ju) + (d + dv) = (l + b + j + d) + (lu + dv + br + ju)
    BY <1>2, <1>8
  <1>10. lu + dv + br + ju \in Nat
    BY <1>2
  <1> QED
    BY <1>3, <1>6, <1>7, <1>9, <1>10

(* Retiring collects the charges of the instruction, adds its hazards, and *)
(* publishes both sides of the ledger.                                     *)
LEMMA LedgerAfterRetire ==
    ASSUME Typed, Ledger, Retire
    PROVE  Ledger' /\ PublishedBalance'
  <1> DEFINE penalty == RetireStalls(Held, Insn, cur.taken)
             i == icache.stats.stall
             d == dcache.stats.stall
             acc == timing.acc
             held == cur.stalls
             before == Hazards(timing)
             after == Hazards(timing')
  <1>1. /\ timing' \in TimingType
        /\ timing'.acc = acc + held + penalty
        /\ timing'.base = timing'.retired
        /\ timing'.total = timing'.retired + timing'.fill + timing'.acc
    <2>1. /\ Held \in TimingType /\ Timed(Insn) /\ cur.taken \in BOOLEAN
          /\ Held.acc = acc + held
      BY HeldFacts
    <2>2. timing' = AfterRetire(Held, Insn, cur.taken)
      BY DEF Retire
    <2> QED
      BY <2>1, <2>2, AfterRetireFields
  <1>2. penalty \in Nat /\ after = before + penalty
    BY HazardsAfterRetire
  <1>3. /\ acc \in Nat /\ held \in Nat /\ before \in Nat /\ overlap \in Nat
        /\ i \in Nat /\ d \in Nat
    BY LedgerTerms
  <1>4. /\ cur.call = 0 /\ cur.dstall = 0
        /\ cur'.stalls = 0 /\ cur'.call = 0 /\ cur'.dstall = 0
    BY DEF Typed, LocalsInPlace, Retire, NoStep
  <1>5. overlap' = overlap /\ icache' = icache /\ dcache' = dcache
    BY DEF Retire, credit
  <1>6. Charged = held /\ Charged' = 0
    BY <1>3, <1>4 DEF Charged
  <1>7. acc + held + overlap = before + i + d
    BY <1>6 DEF Ledger
  <1>8. /\ timing'.acc \in Nat /\ timing'.retired \in Nat /\ timing'.fill \in Nat
        /\ timing'.loadUse \in Nat /\ timing'.branch \in Nat
        /\ timing'.jump \in Nat /\ timing'.divider \in Nat
    BY <1>1 DEF TimingType
  <1>9. timing'.acc + overlap = after + i + d
    <2> DEFINE grown == timing'.acc
    <2>1. grown = acc + held + penalty
      BY <1>1
    <2>2. grown + overlap = after + i + d
      <3> HIDE DEF penalty, i, d, acc, held, before, after, grown
      <3> QED
        BY <1>2, <1>3, <1>7, <2>1
    <2> QED
      BY <2>2
  <1>10. Ledger'
    <2>1. timing'.acc + Charged' = timing'.acc
      BY <1>6, <1>8
    <2> QED
      BY <1>5, <1>9, <2>1 DEF Ledger
  <1>11. timing'.total + overlap = timing'.base + timing'.fill + after + i + d
    <2> DEFINE grown == timing'.acc
               retired == timing'.retired
               fill == timing'.fill
    <2>1. timing'.total = retired + fill + grown /\ timing'.base = retired
      BY <1>1
    <2>2. /\ grown \in Nat /\ retired \in Nat /\ fill \in Nat
          /\ grown + overlap = after + i + d
      BY <1>8, <1>9
    <2>3. after \in Nat
      <3> HIDE DEF before, after, penalty
      <3> QED
        BY <1>2, <1>3
    <2>4. retired + fill + grown + overlap = retired + fill + after + i + d
      <3> HIDE DEF i, d, after, grown, retired, fill
      <3> QED
        BY <1>3, <2>2, <2>3
    <2> QED
      BY <2>1, <2>4
  <1>12. PublishedBalance'
    <2>1. /\ overlap \in Nat /\ ifstallReplays \in Nat
          /\ icache.stats \in CacheStats /\ dcache.stats \in CacheStats
      BY StateFacts DEF Typed, TypeOK
    <2>2. stats' = Published(timing')
      BY DEF Retire
    <2>3. /\ stats'["cycles"] = timing'.total /\ stats'["base"] = timing'.base
          /\ stats'["fill"] = timing'.fill /\ stats'["loadUse"] = timing'.loadUse
          /\ stats'["branch"] = timing'.branch /\ stats'["jump"] = timing'.jump
          /\ stats'["divider"] = timing'.divider
          /\ stats'["icacheStall"] = i /\ stats'["dcacheStall"] = d
          /\ stats'["overlap"] = overlap
      BY <1>1, <2>1, <2>2, PublishedFields
    <2>4. PublishedBalance' <=>
             timing'.total + overlap =
                timing'.base + timing'.fill
                + timing'.loadUse + timing'.branch + timing'.jump + timing'.divider
                + i + d
      BY <2>3 DEF PublishedBalance
    <2> DEFINE base == timing'.base
               fill == timing'.fill
               lu == timing'.loadUse
               br == timing'.branch
               ju == timing'.jump
               dv == timing'.divider
    <2>5. base + fill + after = base + fill + lu + br + ju + dv
      <3>1. after = lu + br + ju + dv
        BY DEF Hazards
      <3>2. base \in Nat /\ fill \in Nat
            /\ lu \in Nat /\ br \in Nat /\ ju \in Nat /\ dv \in Nat
        BY <1>1, <1>8
      <3> HIDE DEF base, fill, lu, br, ju, dv, after
      <3> QED
        BY <3>1, <3>2
    <2> QED
      BY <1>11, <2>4, <2>5
  <1> QED
    BY <1>10, <1>12

(* A call that returns hands its stalls to step(): the sum does not move.  *)
LEMMA LedgerAfterCall ==
    ASSUME Typed, Ledger,
           \/ ExecuteAlu \/ ExecuteFault \/ ExecuteUntakenBranch
           \/ RedirectDone \/ DrainDone
    PROVE  Ledger'
  <1>1. cur' = CallReturned /\ UNCHANGED <<timing, overlap, icache, dcache>>
    BY DEF ExecuteAlu, ExecuteFault, ExecuteUntakenBranch, RedirectDone, DrainDone,
           credit
  <1>2. /\ cur'.stalls = cur.stalls + cur.call
        /\ cur'.call = 0 /\ cur'.dstall = cur.dstall
    BY <1>1, CallReturnedFields DEF Typed, TypeOK
  <1>3. Charged' = Charged
    BY <1>2, LedgerTerms DEF Charged
  <1> QED
    BY <1>1, <1>3, LedgerKept

(* So does the fetch of an instruction that begins a redirect or a drain.  *)
LEMMA LedgerAfterRedirect ==
    ASSUME Typed, Ledger, ExecuteJump \/ ExecuteTakenBranch \/ ExecuteSystem
    PROVE  Ledger'
  <1>1. UNCHANGED <<timing, overlap, icache, dcache>>
    BY DEF ExecuteJump, ExecuteTakenBranch, ExecuteSystem, credit
  <1>2. /\ CallReturned \in StepType
        /\ CallReturned.stalls = cur.stalls + cur.call
        /\ CallReturned.call = 0 /\ CallReturned.dstall = cur.dstall
    BY CallReturnedFields DEF Typed, TypeOK
  <1>3. /\ cur'.stalls = CallReturned.stalls
        /\ cur'.call = CallReturned.call /\ cur'.dstall = CallReturned.dstall
    <2> DEFINE c == CallReturned
    <2>1. /\ ExecuteJump => cur' = [c EXCEPT !.next = pc', !.before = ifetch.issued]
          /\ ExecuteTakenBranch =>
                cur' = [c EXCEPT !.next = pc', !.before = ifetch.issued, !.taken = TRUE]
          /\ ExecuteSystem =>
                cur' = [c EXCEPT !.left = IF Icfg.enabled THEN SystemHoldHits ELSE 0]
      BY DEF ExecuteJump, ExecuteTakenBranch, ExecuteSystem
    <2>2. c \in StepType
      BY <1>2
    <2> HIDE DEF c
    <2>3. cur'.stalls = c.stalls /\ cur'.call = c.call /\ cur'.dstall = c.dstall
      BY <2>1, <2>2 DEF StepType
    <2> QED
      BY <2>3 DEF c
  <1>4. Charged' = Charged
    BY <1>2, <1>3, LedgerTerms DEF Charged
  <1> QED
    BY <1>1, <1>4, LedgerKept

(* A load is charged the fetches held behind it and its own D$ stall.      *)
LEMMA LedgerAfterLoad ==
    ASSUME Typed, Ledger, LoadDone
    PROVE  Ledger'
  <1>1. cur' = HoldCharged(0) /\ UNCHANGED <<timing, overlap, icache, dcache>>
    BY DEF LoadDone, credit
  <1>2. /\ cur'.stalls = cur.stalls + cur.call + cur.dstall - 0
        /\ cur'.call = 0 /\ cur'.dstall = 0
    BY <1>1, HoldChargedFields, LedgerTerms DEF Typed, TypeOK
  <1>3. Charged' = Charged
    BY <1>2, LedgerTerms DEF Charged
  <1> QED
    BY <1>1, <1>3, LedgerKept

(* Nothing is charged before the first fetch, nor by an exception.         *)
LEMMA LedgerAfterCheck ==
    ASSUME Typed, Ledger, StepThrows \/ BeginStep \/ StoreThrows
    PROVE  Ledger'
  <1>1. UNCHANGED <<timing, overlap, icache, dcache>>
    BY DEF StepThrows, BeginStep, StoreThrows, credit
  <1>2. CASE BeginStep
    <2>1. cur = NoStep
      BY <1>2 DEF Typed, LocalsInPlace, BeginStep
    <2>2. cur'.stalls = 0 /\ cur'.call = 0 /\ cur'.dstall = 0
      BY <1>2 DEF BeginStep, NoStep
    <2>3. Charged' = Charged
      BY <2>1, <2>2 DEF Charged, NoStep
    <2> QED
      BY <1>1, <2>3, LedgerKept
  <1>3. CASE StepThrows \/ StoreThrows
    <2>1. Charged' = Charged
      BY <1>3 DEF StepThrows, StoreThrows, Charged
    <2> QED
      BY <1>1, <2>1, LedgerKept
  <1> QED
    BY <1>2, <1>3

(* The ledger balances after every step of step().                         *)
LEMMA LedgerPreserved ==
    ASSUME Balanced, Next
    PROVE  Ledger'
  BY LedgerAfterCheck, LedgerAfterFetch, LedgerAfterCall, LedgerAfterRedirect,
     LedgerAfterAccess, LedgerAfterLoad, LedgerAfterStore, LedgerAfterRetire
     DEF Next, Balanced

(* Only fetches happen while a data access is held, and they do not touch  *)
(* D$ nor the registers its address is made from.                          *)
LEMMA HeldWordStays ==
    ASSUME Balanced, Next
    PROVE  HeldWordHits'
  <1>1. CASE ExecuteMemory
    BY <1>1, LedgerAfterAccess DEF Balanced
  <1>2. CASE EnsureThrough \/ Replay
    <2>1. UNCHANGED <<machine, regs, dcache, at>>
      BY <1>2 DEF EnsureThrough, Replay, arch
    <2>2. cur'.pc = cur.pc
      BY <1>2 DEF EnsureThrough, Replay, Balanced, Typed, TypeOK, StepType
    <2> QED
      BY <2>1, <2>2 DEF Balanced, HeldWordHits, DataAddr, Insn, InsnAt, Dcfg
  <1>3. CASE ~(ExecuteMemory \/ EnsureThrough \/ Replay)
    <2>1. at' # "mem"
      BY <1>3 DEF Next, StepThrows, BeginStep, ExecuteAlu, ExecuteFault, ExecuteJump,
                  ExecuteTakenBranch, ExecuteUntakenBranch, ExecuteSystem, LoadDone,
                  StoreThrows, StoreDone, RedirectDone, DrainDone, Retire
    <2> QED
      BY <2>1 DEF HeldWordHits
  <1> QED
    BY <1>1, <1>2, <1>3

(* Statistics are published when an instruction retires, and only then.    *)
LEMMA PublishedStays ==
    ASSUME Balanced, Next
    PROVE  PublishedBalance'
  <1>1. CASE Retire
    BY <1>1, LedgerAfterRetire DEF Balanced
  <1>2. CASE ~Retire
    <2>1. stats' = stats
      BY <1>2 DEF Next, StepThrows, BeginStep, EnsureThrough, Replay, ExecuteAlu,
                  ExecuteFault, ExecuteJump, ExecuteTakenBranch, ExecuteUntakenBranch,
                  ExecuteMemory, ExecuteSystem, LoadDone, StoreThrows, StoreDone,
                  RedirectDone, DrainDone, output
    <2> QED
      BY <2>1 DEF Balanced, PublishedBalance
  <1> QED
    BY <1>1, <1>2

(* Reset leaves an empty ledger.                                           *)
LEMMA InitBalanced == Init => Balanced
  <1> SUFFICES ASSUME Init PROVE Balanced
    OBVIOUS
  <1>1. Typed
    BY InitTyped
  <1>2. icache.stats.stall = 0 /\ dcache.stats.stall = 0
    <2>1. Icfg \in CacheConfig /\ Dcfg \in CacheConfig
      BY <1>1, StateFacts DEF Typed
    <2>2. icache.stats = ZeroCacheStats /\ dcache.stats = ZeroCacheStats
      BY <2>1, ResetCacheType DEF Init
    <2> QED
      BY <2>2 DEF ZeroCacheStats
  <1>3. Ledger
    BY <1>2 DEF Init, Ledger, Charged, Hazards, NoStep, ResetTiming
  <1>4. HeldWordHits
    BY DEF Init, HeldWordHits
  <1>5. PublishedBalance
    BY DEF Init, PublishedBalance, StatsFields
  <1> QED
    BY <1>1, <1>3, <1>4, <1>5 DEF Balanced

(* Every step keeps the whole invariant.                                   *)
LEMMA NextBalanced ==
    ASSUME Balanced, [Next]_vars
    PROVE  Balanced'
  <1>1. CASE UNCHANGED vars
    <2>1. Typed'
      BY <1>1, NextTyped DEF Balanced
    <2> QED
      BY <1>1, <2>1 DEF Balanced, HeldWordHits, Ledger, PublishedBalance, Charged, vars,
                        DataAddr, Insn, InsnAt, Dcfg
  <1>2. CASE Next
    <2>1. Typed'
      BY <1>2, NextTyped DEF Balanced
    <2> QED
      BY <1>2, <2>1, LedgerPreserved, HeldWordStays, PublishedStays DEF Balanced
  <1> QED
    BY <1>1, <1>2

(* Every cycle CpuModel::stats() publishes has exactly one cause, whatever *)
(* the program, the latencies and the cache configurations: the identity   *)
(* the CSV and the dashboard rely on when they break the cycles down.      *)
THEOREM CyclesAreAccounted == Spec => []CycleAccounting
  <1>1. Balanced /\ [Next]_vars => Balanced'
    BY NextBalanced
  <1>2. Balanced => CycleAccounting
    BY DEF Balanced, PublishedBalance, CycleAccounting
  <1> QED
    BY InitBalanced, <1>1, <1>2, PTL DEF Spec

-----------------------------------------------------------------------------
(* What is counted and traced *)

(* Instructions that have been executed: ECALL and EBREAK, which no class  *)
(* of the mix counts, are the ones that halt.                              *)
Executed == MixTotal + (IF halted THEN 1 ELSE 0)

(* An instruction is counted when it executes, before it is retired; of    *)
(* those that fault only a rejected OP encoding has been counted.          *)
MixInPlace ==
    /\ at \in {"idle", "fetch", "mem"} => Executed = timing.retired
    /\ at \in {"redirect", "drain", "retire"} => Executed = timing.retired + 1
    /\ at = "fault" => MixTotal = timing.retired
                          + (IF fault = "illegal" /\ Insn.op = "OP" THEN 1 ELSE 0)

(* A D$ access is that of a counted load or store or its replay, but for   *)
(* the one in progress and the one of a store that threw.                  *)
AccessUncounted == at = "mem" \/ (at = "fault" /\ cur.dstall # 0)

AccessesInPlace ==
    Dcfg.enabled =>
        dcache.stats.accesses = mix.loads + mix.stores + ifstallReplays
                                + (IF AccessUncounted THEN 1 ELSE 0)

(* A halted CPU is still retiring the instruction that halted it, or has   *)
(* retired it last.                                                        *)
HaltInPlace ==
    /\ halted => at \in {"idle", "drain", "retire"}
    /\ halted /\ at # "idle" => Insn.op = "SYSTEM"
    /\ halted /\ at = "idle" => event.cycle = timing.total

(* The last trace row and the published totals are those of the timing     *)
(* model, and its next retirement is later than all it has accumulated.    *)
TraceTied ==
    /\ stats["retired"] = timing.retired
    /\ stats["cycles"] = timing.total
    /\ event.retired = timing.retired
    /\ event.cycle <= timing.total
    /\ timing.retired = 0 => timing.total = 0
    /\ timing.retired # 0 => timing.total = timing.retired + FillDrain + timing.acc

Traced == Typed /\ MixInPlace /\ AccessesInPlace /\ HaltInPlace /\ TraceTied

(* Counting an instruction in a class adds one to the total of the mix.    *)
LEMMA CountedTotal ==
    ASSUME mix \in MixType,
           \/ \E f \in {"alu", "branches", "loads", "stores", "mulDiv", "jumps"} :
                 mix' = Counted(f)
           \/ mix' = [mix EXCEPT !.branches = @ + 1, !.branchesTaken = @ + 1]
    PROVE  MixTotal' = MixTotal + 1 /\ MixTotal \in Nat
  <1>1. /\ mix.alu \in Nat /\ mix.branches \in Nat /\ mix.loads \in Nat
        /\ mix.stores \in Nat /\ mix.mulDiv \in Nat /\ mix.jumps \in Nat
    BY DEF MixType
  <1>2. CASE mix' = [mix EXCEPT !.branches = @ + 1, !.branchesTaken = @ + 1]
    BY <1>1, <1>2 DEF MixTotal, MixType
  <1>3. ASSUME NEW f \in {"alu", "branches", "loads", "stores", "mulDiv", "jumps"},
               mix' = Counted(f)
        PROVE  MixTotal' = MixTotal + 1
    <2> CASE f = "alu"
      BY <1>1, <1>3 DEF MixTotal, MixType, Counted
    <2> CASE f = "branches"
      BY <1>1, <1>3 DEF MixTotal, MixType, Counted
    <2> CASE f = "loads"
      BY <1>1, <1>3 DEF MixTotal, MixType, Counted
    <2> CASE f = "stores"
      BY <1>1, <1>3 DEF MixTotal, MixType, Counted
    <2> CASE f = "mulDiv"
      BY <1>1, <1>3 DEF MixTotal, MixType, Counted
    <2> CASE f = "jumps"
      BY <1>1, <1>3 DEF MixTotal, MixType, Counted
    <2> QED
      BY <1>3
  <1>4. MixTotal \in Nat
    BY <1>1 DEF MixTotal
  <1> QED
    BY <1>2, <1>3, <1>4

(* A step that executes an instruction counts it once, or halts.           *)
LEMMA ExecutedOnce ==
    ASSUME Traced,
           \/ ExecuteAlu \/ ExecuteJump \/ ExecuteTakenBranch \/ ExecuteUntakenBranch
           \/ ExecuteSystem \/ LoadDone \/ StoreDone
    PROVE  Executed' = Executed + 1 /\ at' \in {"redirect", "drain", "retire"}
  <1>1. mix \in MixType /\ halted \in BOOLEAN /\ ~halted
    BY DEF Traced, Typed, TypeOK, HaltInPlace, ExecuteAlu, ExecuteJump,
           ExecuteTakenBranch, ExecuteUntakenBranch, ExecuteSystem, LoadDone, StoreDone,
           Decoding, MemoryDone
  <1>2. MixTotal \in Nat
    BY <1>1 DEF MixTotal, MixType
  <1>3. CASE ExecuteSystem
    <2>1. mix' = mix /\ halted' /\ at' = "drain"
      BY <1>3 DEF ExecuteSystem
    <2>2. MixTotal' = MixTotal
      BY <2>1 DEF MixTotal
    <2> QED
      BY <1>1, <1>2, <2>1, <2>2 DEF Executed
  <1>4. CASE \/ ExecuteAlu \/ ExecuteJump \/ ExecuteTakenBranch \/ ExecuteUntakenBranch
             \/ LoadDone \/ StoreDone
    <2>1. halted' = halted /\ at' \in {"redirect", "retire"}
      BY <1>4 DEF ExecuteAlu, ExecuteJump, ExecuteTakenBranch, ExecuteUntakenBranch,
                  LoadDone, StoreDone
    <2>2. \/ \E f \in {"alu", "branches", "loads", "stores", "mulDiv", "jumps"} :
                mix' = Counted(f)
          \/ mix' = [mix EXCEPT !.branches = @ + 1, !.branchesTaken = @ + 1]
      <3>1. AluClass(Insn) \in {"mulDiv", "alu"}
        BY DEF AluClass
      <3> QED
        BY <1>4, <3>1 DEF ExecuteAlu, ExecuteJump, ExecuteTakenBranch,
                          ExecuteUntakenBranch, LoadDone, StoreDone
    <2>3. MixTotal' = MixTotal + 1
      BY <1>1, <2>2, CountedTotal
    <2> QED
      BY <1>1, <1>2, <2>1, <2>3 DEF Executed
  <1> QED
    BY <1>3, <1>4

(* The retirement of an instruction closes the gap between the two counts. *)
LEMMA MixStays ==
    ASSUME Traced, Next
    PROVE  MixInPlace'
  <1>1. mix \in MixType /\ timing.retired \in Nat /\ halted \in BOOLEAN
    BY DEF Traced, Typed, TypeOK, TimingType
  <1>2. MixTotal \in Nat
    BY <1>1 DEF MixTotal, MixType
  <1>3. CASE \/ ExecuteAlu \/ ExecuteJump \/ ExecuteTakenBranch
             \/ ExecuteUntakenBranch \/ ExecuteSystem \/ LoadDone \/ StoreDone
    <2>1. timing' = timing /\ at \in {"fetch", "mem"}
      BY <1>3 DEF ExecuteAlu, ExecuteJump, ExecuteTakenBranch, ExecuteUntakenBranch,
                  ExecuteSystem, LoadDone, StoreDone, Decoding, MemoryDone
    <2> QED
      BY <1>3, <2>1, ExecutedOnce DEF Traced, MixInPlace
  <1>4. CASE ExecuteFault
    <2>1. /\ timing' = timing /\ at = "fetch" /\ at' = "fault"
          /\ mix' = IF Insn.op = "OP" THEN Counted("alu") ELSE mix
          /\ fault' = "illegal" \/ (fault' = "range" /\ Insn.op # "OP")
      BY <1>4 DEF ExecuteFault, Decoding
    <2>2. ~halted /\ MixTotal = timing.retired
      BY <1>1, <1>2, <2>1 DEF Traced, HaltInPlace, MixInPlace, Executed
    <2>3. Insn' = Insn
      <3>1. machine' = machine /\ cur' = CallReturned
        BY <1>4 DEF ExecuteFault
      <3>2. cur'.pc = cur.pc
        BY <3>1, CallReturnedFields DEF Traced, Typed, TypeOK
      <3> QED
        BY <3>1, <3>2 DEF Insn, InsnAt
    <2>4. CASE Insn.op = "OP"
      <3>1. MixTotal' = MixTotal + 1
        BY <1>1, <2>1, <2>4, CountedTotal
      <3> QED
        BY <1>1, <1>2, <2>1, <2>2, <2>3, <2>4, <3>1 DEF MixInPlace
    <2>5. CASE Insn.op # "OP"
      <3>1. MixTotal' = MixTotal
        BY <2>1, <2>5 DEF MixTotal
      <3> QED
        BY <1>1, <1>2, <2>1, <2>2, <2>3, <2>5, <3>1 DEF MixInPlace
    <2> QED
      BY <2>4, <2>5
  <1>5. CASE StepThrows \/ StoreThrows
    <2>1. /\ timing' = timing /\ mix' = mix /\ at \in {"idle", "mem"} /\ at' = "fault"
          /\ ~halted /\ fault' # "illegal"
      BY <1>5 DEF StepThrows, StoreThrows, StartFault, MemoryDone, Traced, HaltInPlace
    <2>2. MixTotal' = MixTotal /\ MixTotal = timing.retired
      BY <1>1, <1>2, <2>1 DEF Traced, MixInPlace, Executed, MixTotal
    <2> QED
      BY <1>1, <2>1, <2>2 DEF MixInPlace
  <1>6. CASE Retire
    <2>1. timing'.retired = timing.retired + 1
      BY <1>6, HeldFacts, AfterRetireFields DEF Retire, Traced
    <2>2. mix' = mix /\ halted' = halted /\ at = "retire" /\ at' = "idle"
      BY <1>6 DEF Retire, arch
    <2>3. Executed' = Executed
      BY <2>2 DEF Executed, MixTotal
    <2> QED
      BY <1>1, <2>1, <2>2, <2>3 DEF Traced, MixInPlace
  <1>7. CASE \/ BeginStep \/ EnsureThrough \/ Replay \/ ExecuteMemory
             \/ RedirectDone \/ DrainDone
    <2>1. timing' = timing /\ mix' = mix /\ halted' = halted
      BY <1>7 DEF BeginStep, EnsureThrough, Replay, ExecuteMemory, RedirectDone,
                  DrainDone, arch
    <2>2. \/ at \in {"idle", "fetch", "mem"} /\ at' \in {"idle", "fetch", "mem"}
          \/ /\ at \in {"redirect", "drain", "retire"}
             /\ at' \in {"redirect", "drain", "retire"}
      BY <1>7 DEF BeginStep, EnsureThrough, Replay, ExecuteMemory, RedirectDone,
                  DrainDone, Streaming, Decoding
    <2>3. Executed' = Executed
      BY <2>1 DEF Executed, MixTotal
    <2> QED
      BY <2>1, <2>2, <2>3 DEF Traced, MixInPlace
  <1> QED
    BY <1>3, <1>4, <1>5, <1>6, <1>7 DEF Next

(* An access and what accounts for it come in the same order in every      *)
(* step: made by a load or store, counted when it is done.                 *)
LEMMA AccessesStay ==
    ASSUME Traced, Next
    PROVE  AccessesInPlace'
  <1> SUFFICES ASSUME Dcfg.enabled
               PROVE  dcache'.stats.accesses = mix'.loads + mix'.stores + ifstallReplays'
                         + (IF AccessUncounted' THEN 1 ELSE 0)
    <2>1. machine' = machine
      BY DEF Next, StepThrows, BeginStep, EnsureThrough, Replay, ExecuteAlu, ExecuteFault,
             ExecuteJump, ExecuteTakenBranch, ExecuteUntakenBranch, ExecuteMemory,
             ExecuteSystem, LoadDone, StoreThrows, StoreDone, RedirectDone, DrainDone,
             Retire
    <2> QED
      BY <2>1 DEF AccessesInPlace, Dcfg
  <1>1. /\ mix \in MixType /\ mix.loads \in Nat /\ mix.stores \in Nat
        /\ ifstallReplays \in Nat /\ dcache.stats.accesses \in Nat
        /\ Dcfg \in CacheConfig /\ dcache \in CacheType(Dcfg)
    BY StateFacts DEF Traced, Typed, TypeOK, MixType, CacheStats
  <1>2. dcache.stats.accesses = mix.loads + mix.stores + ifstallReplays
                                + (IF AccessUncounted THEN 1 ELSE 0)
    BY DEF Traced, AccessesInPlace
  <1>3. \A addr, w : AfterAccess(Dcfg, dcache, addr, w).stats.accesses =
                        dcache.stats.accesses + 1
    BY DEF AfterAccess, HitStats, MissStats
  <1>4. CASE ExecuteMemory
    <2>1. /\ at = "fetch" /\ at' = "mem" /\ UNCHANGED <<mix, ifstallReplays>>
          /\ dcache'.stats.accesses = dcache.stats.accesses + 1
      BY <1>3, <1>4 DEF ExecuteMemory, Decoding, credit
    <2> QED
      BY <1>1, <1>2, <2>1 DEF AccessUncounted
  <1>5. CASE LoadDone
    <2>1. /\ at = "mem" /\ at' = "retire" /\ UNCHANGED <<dcache, ifstallReplays>>
          /\ mix'.loads = mix.loads + 1 /\ mix'.stores = mix.stores
      BY <1>1, <1>5 DEF LoadDone, MemoryDone, credit, Counted, MixType
    <2> QED
      BY <1>1, <1>2, <2>1 DEF AccessUncounted
  <1>6. CASE StoreDone
    <2>1. /\ at = "mem" /\ at' = "retire"
          /\ mix'.loads = mix.loads /\ mix'.stores = mix.stores + 1
      BY <1>1, <1>6 DEF StoreDone, MemoryDone, Counted, MixType
    <2>2. \/ UNCHANGED <<dcache, ifstallReplays>>
          \/ /\ dcache' = AfterAccess(Dcfg, dcache, DataAddr(Insn), TRUE)
             /\ ifstallReplays' = ifstallReplays + 1
      BY <1>6 DEF StoreDone
    <2>3. \/ /\ dcache'.stats.accesses = dcache.stats.accesses
             /\ ifstallReplays' = ifstallReplays
          \/ /\ dcache'.stats.accesses = dcache.stats.accesses + 1
             /\ ifstallReplays' = ifstallReplays + 1
      BY <1>3, <2>2
    <2> QED
      BY <1>1, <1>2, <2>1, <2>3 DEF AccessUncounted
  <1>7. CASE StepThrows \/ ExecuteFault
    <2>1. /\ at \in {"idle", "fetch"} /\ at' = "fault" /\ cur.dstall = 0
          /\ UNCHANGED <<dcache, ifstallReplays>>
      BY <1>7 DEF StepThrows, ExecuteFault, Decoding, credit, Traced, Typed, LocalsInPlace,
                  NoStep
    <2>2. cur'.dstall = 0
      BY <1>7, <2>1, CallReturnedFields
         DEF StepThrows, ExecuteFault, Traced, Typed, TypeOK
    <2>3. mix'.loads = mix.loads /\ mix'.stores = mix.stores
      BY <1>1, <1>7 DEF StepThrows, ExecuteFault, Counted, MixType
    <2> QED
      BY <1>1, <1>2, <2>1, <2>2, <2>3 DEF AccessUncounted
  <1>8. CASE StoreThrows
    <2>1. /\ at = "mem" /\ at' = "fault" /\ cur.dstall # 0 /\ cur' = cur
          /\ UNCHANGED <<dcache, ifstallReplays, mix>>
      BY <1>8 DEF StoreThrows, MemoryDone, Inspects, credit
    <2> QED
      BY <1>2, <2>1 DEF AccessUncounted
  <1>9. CASE \/ ExecuteAlu \/ ExecuteJump \/ ExecuteTakenBranch
             \/ ExecuteUntakenBranch \/ ExecuteSystem
    <2>1. /\ at = "fetch" /\ at' \in {"retire", "redirect", "drain"}
          /\ UNCHANGED <<dcache, ifstallReplays>>
      BY <1>9 DEF ExecuteAlu, ExecuteJump, ExecuteTakenBranch, ExecuteUntakenBranch,
                  ExecuteSystem, Decoding, credit
    <2>2. mix'.loads = mix.loads /\ mix'.stores = mix.stores
      <3>1. AluClass(Insn) \in {"mulDiv", "alu"}
        BY DEF AluClass
      <3> QED
        BY <1>1, <1>9, <3>1 DEF ExecuteAlu, ExecuteJump, ExecuteTakenBranch,
                                ExecuteUntakenBranch, ExecuteSystem, Counted, MixType
    <2> QED
      BY <1>2, <2>1, <2>2 DEF AccessUncounted
  <1>10. CASE \/ BeginStep \/ EnsureThrough \/ Replay \/ RedirectDone \/ DrainDone
              \/ Retire
    <2>1. UNCHANGED <<dcache, ifstallReplays, mix>>
      BY <1>10 DEF BeginStep, EnsureThrough, Replay, RedirectDone, DrainDone, Retire, credit
    <2>2. /\ at # "fault" /\ at' # "fault"
          /\ at = "mem" <=> at' = "mem"
      BY <1>10 DEF BeginStep, EnsureThrough, Replay, RedirectDone, DrainDone, Retire,
                   Streaming
    <2> QED
      BY <1>2, <2>1, <2>2 DEF AccessUncounted
  <1> QED
    BY <1>4, <1>5, <1>6, <1>7, <1>8, <1>9, <1>10 DEF Next

(* What a retirement writes to the trace and publishes: the row is later   *)
(* than all that came before it, and earlier than the total by the         *)
(* redirect penalties of the instruction itself.                           *)
LEMMA RetirementTraced ==
    ASSUME Traced, Retire
    PROVE  /\ TraceTied'
           /\ event'.retired = event.retired + 1
           /\ event'.cycle > event.cycle
           /\ event'.cycle <= timing'.total
           /\ timing'.total =
                 event'.cycle + BranchStall(Insn, cur.taken) + JumpStall(Insn)
           /\ timing'.total >= timing.total
  <1> DEFINE cycle == RetireCycle(Held, Insn)
             br == BranchStall(Insn, cur.taken)
             ju == JumpStall(Insn)
             lu == LoadUseStall(Held, Insn)
             dv == DividerStall(Held, Insn)
  <1>1. /\ Held \in TimingType /\ Timed(Insn) /\ cur.taken \in BOOLEAN
        /\ Held.acc = timing.acc + cur.stalls /\ Held.retired = timing.retired
    BY HeldFacts DEF Traced
  <1>2. timing' = AfterRetire(Held, Insn, cur.taken)
    BY DEF Retire
  <1>3. /\ timing' \in TimingType
        /\ timing'.retired = timing.retired + 1
        /\ timing'.fill = FillDrain
        /\ timing'.total = timing'.retired + FillDrain + timing'.acc
    BY <1>1, <1>2, AfterRetireFields
  <1>4. /\ br \in Nat /\ ju \in Nat /\ lu \in Nat /\ dv \in Nat /\ FillDrain \in Nat
    BY <1>1, PenaltiesAreNat
  <1>5. cycle \in Nat /\ timing'.total = cycle + br + ju
    BY <1>1, <1>2, RetireCycleBeforeRedirect
  <1>6. /\ timing.retired \in Nat /\ timing.acc \in Nat /\ timing.total \in Nat
        /\ cur.stalls \in Nat /\ event.cycle \in Nat
    BY StateFacts DEF Traced, Typed, TypeOK, TimingType
  <1>7. cycle = timing.retired + 1 + FillDrain + (timing.acc + cur.stalls) + lu + dv
    BY <1>1 DEF RetireCycle
  <1>8. timing.total <= timing.retired + FillDrain + timing.acc
    BY <1>4, <1>6 DEF Traced, TraceTied
  <1>9. cycle > timing.total
    <2> DEFINE n == timing.retired
               acc == timing.acc
               s == cur.stalls
               total == timing.total
               fd == FillDrain
    <2>1. /\ n \in Nat /\ acc \in Nat /\ s \in Nat /\ total \in Nat /\ fd \in Nat
          /\ total <= n + fd + acc
          /\ cycle = n + 1 + fd + (acc + s) + lu + dv
      BY <1>4, <1>6, <1>7, <1>8
    <2> HIDE DEF n, acc, s, total, fd, cycle, lu, dv
    <2> QED
      BY <1>4, <2>1 DEF total
  <1>10. event' = [cycle |-> cycle, retired |-> timing'.retired, pc |-> cur.pc]
    BY DEF Retire
  <1>11. event.cycle <= timing.total /\ event.retired = timing.retired
    BY DEF Traced, TraceTied
  <1>12. /\ event'.cycle = cycle
         /\ event'.retired = timing'.retired
    BY <1>10
  <1>13. stats'["retired"] = timing'.retired /\ stats'["cycles"] = timing'.total
    <2>1. /\ overlap \in Nat /\ ifstallReplays \in Nat
          /\ icache.stats \in CacheStats /\ dcache.stats \in CacheStats
      BY StateFacts DEF Traced, Typed, TypeOK
    <2>2. stats' = Published(timing')
      BY DEF Retire
    <2> QED
      BY <1>3, <2>1, <2>2, PublishedFields
  <1> HIDE DEF cycle, br, ju, lu, dv
  <1>14. timing'.retired # 0
    BY <1>3, <1>6
  <1>15. event'.cycle <= timing'.total /\ timing'.total >= timing.total
         /\ event'.cycle > event.cycle
    BY <1>4, <1>5, <1>6, <1>9, <1>11, <1>12
  <1>16. TraceTied'
    BY <1>3, <1>12, <1>13, <1>14, <1>15 DEF TraceTied
  <1> QED
    BY <1>3, <1>5, <1>11, <1>12, <1>15, <1>16 DEF br, ju

(* Only a retirement writes to the trace, publishes or moves the timing.   *)
LEMMA OnlyRetirePublishes ==
    ASSUME [Next]_vars, ~Retire
    PROVE  UNCHANGED <<stats, event, timing>>
  BY DEF Next, StepThrows, BeginStep, EnsureThrough, Replay, ExecuteAlu, ExecuteFault,
         ExecuteJump, ExecuteTakenBranch, ExecuteUntakenBranch, ExecuteMemory,
         ExecuteSystem, LoadDone, StoreThrows, StoreDone, RedirectDone, DrainDone,
         output, vars

(* The instruction that halts is an ECALL or an EBREAK, which leaves no    *)
(* redirect penalty behind the cycle in which it retires.                  *)
LEMMA HaltStays ==
    ASSUME Traced, Next
    PROVE  HaltInPlace'
  <1>1. CASE Retire
    <2>1. halted' = halted /\ at = "retire" /\ at' = "idle"
      BY <1>1 DEF Retire, arch
    <2>2. CASE halted
      <3>1. Insn.op = "SYSTEM"
        BY <2>1, <2>2 DEF Traced, HaltInPlace
      <3>2. BranchStall(Insn, cur.taken) = 0 /\ JumpStall(Insn) = 0
        BY <3>1 DEF BranchStall, JumpStall, IsBranch, IsJump
      <3>3. event'.cycle \in Nat
        <4>1. Typed'
          BY NextTyped DEF Traced
        <4> QED
          BY <4>1 DEF Typed, TypeOK
      <3> QED
        BY <1>1, <2>1, <3>2, <3>3, RetirementTraced DEF HaltInPlace
    <2> QED
      BY <2>1, <2>2 DEF HaltInPlace
  <1>2. CASE ExecuteSystem
    <2>1. cur'.pc = cur.pc /\ machine' = machine
      <3>1. CallReturned \in StepType /\ CallReturned.pc = cur.pc
        BY CallReturnedFields DEF Traced, Typed, TypeOK
      <3> QED
        BY <1>2, <3>1 DEF ExecuteSystem, StepType
    <2>2. at' = "drain" /\ Insn.op = "SYSTEM"
      BY <1>2 DEF ExecuteSystem
    <2> QED
      BY <2>1, <2>2 DEF HaltInPlace, Insn, InsnAt
  <1>3. CASE EnsureThrough \/ Replay \/ DrainDone
    <2>1. cur'.pc = cur.pc /\ machine' = machine /\ halted' = halted
      BY <1>3, CallReturnedFields
         DEF EnsureThrough, Replay, DrainDone, arch, Traced, Typed, TypeOK, StepType
    <2>2. /\ at # "idle" /\ at' # "idle"
          /\ at' = at \/ at' = "retire"
      BY <1>3 DEF EnsureThrough, Replay, DrainDone, Streaming
    <2> QED
      BY <2>1, <2>2 DEF Traced, HaltInPlace, Insn, InsnAt
  <1>4. CASE ~(Retire \/ ExecuteSystem \/ EnsureThrough \/ Replay \/ DrainDone)
    <2>1. halted' = halted /\ ~halted
      BY <1>4 DEF Next, StepThrows, BeginStep, ExecuteAlu, ExecuteFault, ExecuteJump,
                  ExecuteTakenBranch, ExecuteUntakenBranch, ExecuteMemory, LoadDone,
                  StoreThrows, StoreDone, RedirectDone, arch, Decoding, MemoryDone,
                  Traced, HaltInPlace
    <2> QED
      BY <2>1 DEF HaltInPlace
  <1> QED
    BY <1>1, <1>2, <1>3, <1>4

(* Reset counts nothing and traces nothing.                                *)
LEMMA InitTraced == Init => Traced
  <1> SUFFICES ASSUME Init PROVE Traced
    OBVIOUS
  <1>1. Typed
    BY InitTyped
  <1>2. MixInPlace /\ HaltInPlace /\ AccessesInPlace
    BY DEF Init, MixInPlace, HaltInPlace, AccessesInPlace, AccessUncounted, Executed,
           MixTotal, ZeroMix, ResetTiming, ResetCache, ZeroCacheStats
  <1>3. TraceTied
    BY DEF Init, TraceTied, ResetTiming, StatsFields
  <1> QED
    BY <1>1, <1>2, <1>3 DEF Traced

(* Every step keeps the counts and the trace in place.                     *)
LEMMA NextTraced ==
    ASSUME Traced, [Next]_vars
    PROVE  Traced'
  <1>1. Typed'
    BY NextTyped DEF Traced
  <1>2. CASE UNCHANGED vars
    BY <1>1, <1>2 DEF Traced, MixInPlace, AccessesInPlace, AccessUncounted, Dcfg,
                      HaltInPlace, TraceTied, Executed, MixTotal, Insn, InsnAt, vars
  <1>3. CASE Next
    <2>1. TraceTied'
      <3>1. CASE Retire
        BY <3>1, RetirementTraced
      <3>2. CASE ~Retire
        BY <3>2, OnlyRetirePublishes DEF Traced, TraceTied
      <3> QED
        BY <3>1, <3>2
    <2> QED
      BY <1>1, <1>3, <2>1, MixStays, AccessesStay, HaltStays DEF Traced
  <1> QED
    BY <1>2, <1>3

(* Every instruction the statistics count as retired is in exactly one     *)
(* class of the mix, and the one that halted in none; of the faulting ones *)
(* only a rejected OP encoding is counted, and only a store that threw     *)
(* after its D$ access has left an access that no load or store accounts   *)
(* for.                                                                    *)
THEOREM MixCountsRetired == Spec => []InstructionMix
  <1>1. Traced /\ [Next]_vars => Traced'
    BY NextTraced
  <1>2. Traced => InstructionMix
    <2> SUFFICES ASSUME Traced PROVE InstructionMix
      OBVIOUS
    <2> QED
      BY DEF Traced, Typed, LocalsInPlace, NoStep, MixInPlace, AccessesInPlace,
             AccessUncounted, TraceTied, Executed, InstructionMix, Between
  <1> QED
    BY InitTraced, <1>1, <1>2, PTL DEF Spec

(* When the program halts, the published total is the cycle in which the   *)
(* last instruction retired: the quantity main.cpp compares with the RTL.  *)
THEOREM HaltCycleIsTotal == Spec => []LastRetireIsTotal
  <1>1. Traced /\ [Next]_vars => Traced'
    BY NextTraced
  <1>2. Traced => LastRetireIsTotal
    BY DEF Traced, HaltInPlace, TraceTied, LastRetireIsTotal, Between
  <1> QED
    BY InitTraced, <1>1, <1>2, PTL DEF Spec

(* The trace has one row per retired instruction, in increasing cycles,    *)
(* none later than the total published with it.                            *)
THEOREM TraceIsOrdered == Spec => TraceInOrder
  <1>1. Traced /\ [Next]_vars => Traced'
    BY NextTraced
  <1>2. Traced /\ [Next]_vars => [TraceStep]_vars
    <2> SUFFICES ASSUME Traced, [Next]_vars PROVE TraceStep
      OBVIOUS
    <2>1. CASE Retire
      <3>1. TraceTied'
        BY <2>1, RetirementTraced
      <3> QED
        BY <2>1, <3>1, RetirementTraced DEF TraceStep, TraceTied
    <2>2. CASE ~Retire
      BY <2>2, OnlyRetirePublishes DEF TraceStep
    <2> QED
      BY <2>1, <2>2
  <1> QED
    BY InitTraced, <1>1, <1>2, PTL DEF Spec, TraceInOrder
=============================================================================
