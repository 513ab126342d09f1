---------------------------- MODULE CpuProperties ----------------------------
(***************************************************************************)
(* What step() must keep true, whatever the program and the caches.        *)
(***************************************************************************)
EXTENDS CpuModel

Between == at = "idle"    \* no step() is in progress

(* Type invariant: no counter underflows, the PC and the fetch pointer are *)
(* words, a step that is past its faults has a PC it may fetch from.       *)
TypeOK ==
    /\ machine \in MachineType
    /\ regs \in [Regs -> Word]
    /\ pc \in Word
    /\ halted \in BOOLEAN
    /\ timing \in TimingType
    /\ icache \in CacheType(Icfg)
    /\ dcache \in CacheType(Dcfg)
    /\ ifetch \in FetchType
    /\ overlap \in Nat
    /\ ifstallReplays \in Nat
    /\ mix \in MixType
    /\ stats \in [StatsFields -> Nat]
    /\ event \in [cycle : Nat, retired : Nat, pc : Word]
    /\ at \in {"idle", "fetch", "mem", "redirect", "drain", "retire", "fault"}
    /\ cur \in StepType
    /\ fault \in {"none", "limit", "misaligned", "range", "illegal"}
    /\ owed \in SUBSET Word

(* IFetchStreamModel assumes what it never checks: between two steps the   *)
(* stream has been fetched to at least the PC and at most three words past *)
(* it (the D$ hold depth), so that ensure_through never skips a PC and no  *)
(* redirect finds the stream further ahead than the pipeline can be.       *)
StreamNearPc ==
    Icfg.enabled /\ Between /\ ~halted =>
        pc <= ifetch.next /\ ifetch.next <= pc + HoldAhead

(* IFetchStreamModel.hpp:59-62, "replay accesses are expected to hit": the *)
(* word held while D$ stalls or while halt drains was the last one fetched,*)
(* so replaying it never misses and never adds a stall.                    *)
ReplaysHit ==
    Streaming /\ ~Behind /\ cur.left > 0 => Resident(Icfg, icache, FetchTarget)

(* The two younger sequential requests of a redirect are all it may charge *)
(* as wrong path.                                                          *)
WrongPathBounded == ifetch.wrongPath <= 2 * ifetch.redirects

(* Every published cycle has exactly one cause: an instruction, the        *)
(* pipeline fill, one of the four hazards, or a cache stall, and only      *)
(* overlapped cache stalls are taken off.  Three components and step()     *)
(* each keep their own part of this sum.                                   *)
CycleAccounting ==
    Between =>
        stats["cycles"] + stats["overlap"] =
            stats["base"] + stats["fill"]
            + stats["loadUse"] + stats["branch"] + stats["jump"] + stats["divider"]
            + stats["icacheStall"] + stats["dcacheStall"]

(* Every retired instruction was put in one class as it executed, and      *)
(* ECALL/EBREAK in none.  step() counts as it goes, so an exception can    *)
(* leave a count without a retirement, and leaves exactly these two: an    *)
(* encoding of opcode OP is counted with the ALU class before it is        *)
(* rejected, and the D$ access of a store has been made when the           *)
(* inspection of the instruction behind it throws.  Every other D$ access  *)
(* is that of a counted load or store, or its replay after an overlap.     *)
MixTotal == mix.alu + mix.branches + mix.loads + mix.stores + mix.mulDiv + mix.jumps

InstructionMix ==
    /\ Between => MixTotal + (IF halted THEN 1 ELSE 0) = stats["retired"]
    /\ at = "fault" =>
          MixTotal = stats["retired"]
                     + (IF fault = "illegal" /\ Insn.op = "OP" THEN 1 ELSE 0)
    /\ Dcfg.enabled /\ (Between \/ at = "fault") =>
          dcache.stats.accesses = mix.loads + mix.stores + ifstallReplays
                                  + (IF cur.dstall # 0 THEN 1 ELSE 0)

(* The overlap subtracted from the published cycles is backed by stalls    *)
(* that happened: it never exceeds the D$ stalls less the one cycle per    *)
(* credit in which D$ was ahead, and, once every redirect a credit was     *)
(* given for has been fetched, it never exceeds the I$ stalls.             *)
OverlapBacked ==
    /\ overlap + ifstallReplays + cur.dstall <= dcache.stats.stall
    /\ owed = {} => overlap <= icache.stats.stall
    /\ ifstallReplays <= dcache.stats.hits

(* main.cpp compares the model's total with the RTL's last retire cycle:   *)
(* the two are the same quantity when the program halts, because the       *)
(* instruction that halts leaves no redirect penalty behind it.            *)
LastRetireIsTotal == Between /\ halted => event.cycle = stats["cycles"]

(* An overlap credit is given for a fetch that has not happened yet.  The  *)
(* next I$ request is that fetch, it misses, and it stalls for at least    *)
(* the credit: no wrong-path request of the redirect comes before it.      *)
CreditEarned ==
    owed # {} /\ icache'.stats.accesses # icache.stats.accesses =>
        /\ icache'.stats.misses = icache.stats.misses + 1
        /\ \A target \in owed : Resident(Icfg, icache', target)
        /\ at = "fetch" /\ owed = {cur.pc}

CreditsEarned == [][CreditEarned]_vars

(* The eleven counters of Growing, which a reader samples after each step  *)
(* (SystemC does so every clock), never go backwards, although the hold    *)
(* replays folded into three of them may themselves shrink when a later    *)
(* overlap is credited.  (The mix counters and the categories are not      *)
(* among them: each is only ever added to.)                                *)
Growing == {"retired", "cycles", "iAccesses", "iHits", "iMisses", "dAccesses",
            "icacheStall", "dcacheStall", "overlap", "axiReads", "axiWrites"}

CountersGrow == [][\A f \in Growing : stats'[f] >= stats[f]]_vars

(* The trace CSV is ordered: one row per retired instruction, in strictly  *)
(* increasing cycles, none later than the total published with it.         *)
TraceStep ==
    event' # event => /\ event'.retired = event.retired + 1
                      /\ event'.cycle > event.cycle
                      /\ event'.cycle <= stats'["cycles"]

TraceInOrder == [][TraceStep]_vars

(* run() returns or throws: no program keeps the loops of step() or of     *)
(* ensure_through going for ever.                                          *)
RunEnds == <>(at = "fault" \/ (Between /\ halted))
=============================================================================
