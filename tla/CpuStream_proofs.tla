-------------------------- MODULE CpuStream_proofs --------------------------
(***************************************************************************)
(* The fetch stream against the instructions it fetches, for every program *)
(* and configuration.  The stream model keeps one pointer and checks       *)
(* nothing.  While the memory ends more than 12 bytes below the top of the *)
(* address space, the invariant is how far that pointer may be ahead of    *)
(* the PC at each point of step(), and that the word behind it is still in *)
(* I$; then every step descends in an order of naturals, so that no call   *)
(* of the stream goes on for ever.  The last word of the address space is  *)
(* the one target at which a call would, and no target is misaligned.      *)
(***************************************************************************)
EXTENDS CpuAccounting_proofs

(* A sum that stays below the top of the address space does not wrap.      *)
LEMMA SmallSum ==
    ASSUME NEW n \in Nat, n < Modulus
    PROVE  Cut(n) = n
  <1>1. Modulus \in Nat /\ Modulus > 0
    BY WordRange
  <1> QED
    BY <1>1 DEF Cut

(* Nothing the stream adds to the PC of an instruction in memory wraps.    *)
LEMMA NearbyPc ==
    ASSUME NoWrapAssumption, NEW a \in Word, InRange(a, 4), NEW k \in 0 .. 16
    PROVE  Plus(a, k) = a + k
  <1>1. a \in Nat /\ MemSize \in Nat /\ Modulus \in Nat
    BY CpuAssumption, WordRange DEF CpuAssumption, Word
  <1>2. a + k \in Nat /\ a + k < Modulus
    BY <1>1 DEF NoWrapAssumption, InRange
  <1> QED
    BY <1>2, SmallSum DEF Plus

-----------------------------------------------------------------------------
(* How far the stream is ahead *)

(* A step that may still fetch has an instruction in memory; before it     *)
(* executes the PC is its own, and afterwards where the program goes next. *)
PcInPlace ==
    /\ at \in {"fetch", "mem", "redirect", "drain"} => InRange(cur.pc, 4)
    /\ at \in {"fetch", "mem"} => pc = cur.pc
    /\ at = "drain" => pc = cur.pc + 4
    /\ at = "redirect" => pc = cur.next

(* The stream is fetched to the PC, and at most three words past it; while *)
(* an instruction executes, it has been fetched itself.                    *)
StreamInPlace ==
    Icfg.enabled =>
        /\ at \in {"idle", "fetch", "retire"} =>
              ifetch.next \in {pc, pc + 4, pc + 8, pc + 12}
        /\ at \in {"redirect", "drain"} =>
              ifetch.next \in {cur.pc + 4, cur.pc + 8, cur.pc + 12}
        /\ at = "mem" =>
              ifetch.next \in {cur.pc + 4, cur.pc + 8, cur.pc + 12, cur.pc + 16}

(* Unless a redirect has just moved the pointer, the word behind it was    *)
(* fetched last, and is in I$.                                             *)
JustFetched ==
    /\ Icfg.enabled
    /\ \/ at \in {"mem", "redirect", "drain"}
       \/ at \in {"idle", "fetch", "retire"} /\ ifetch.next # pc

LastWordResident == JustFetched => Resident(Icfg, icache, ifetch.next - 4)

(* Only a D$ hold and a drain replay, a hold at most once a cycle.         *)
ReplaysInPlace ==
    /\ at \in {"idle", "fetch", "redirect"} => cur.left = 0
    /\ at = "mem" /\ Icfg.enabled => cur.left <= cur.dstall

Streamed ==
    Typed /\ PcInPlace /\ StreamInPlace /\ LastWordResident /\ ReplaysInPlace

(* The PC through which each call fetches, without wrapping.               *)
LEMMA TargetNearPc ==
    ASSUME NoWrapAssumption, Streamed
    PROVE  /\ at = "fetch" => FetchTarget = cur.pc
           /\ at = "mem" => FetchTarget = cur.pc + 12
           /\ at \in {"redirect", "drain"} => FetchTarget = cur.pc + 8
           /\ at \in {"fetch", "mem", "redirect", "drain"} =>
                 Plus(cur.pc, 4) = cur.pc + 4
           /\ cur.pc \in Nat /\ pc \in Nat /\ ifetch.next \in Nat
  <1>1. cur.pc \in Word /\ pc \in Word /\ ifetch.next \in Word
    BY StateFacts, FetchFields DEF Streamed, Typed, TypeOK
  <1>2. cur.pc \in Nat /\ pc \in Nat /\ ifetch.next \in Nat
    BY <1>1, WordsAreNat
  <1>3. CASE at \in {"fetch", "mem", "redirect", "drain"}
    <2>1. InRange(cur.pc, 4)
      BY <1>3 DEF Streamed, PcInPlace
    <2>2. /\ Plus(cur.pc, 4) = cur.pc + 4
          /\ Plus(cur.pc, 8) = cur.pc + 8
          /\ Plus(cur.pc, 12) = cur.pc + 12
      <3>1. 4 \in 0 .. 16 /\ 8 \in 0 .. 16 /\ 12 \in 0 .. 16
        OBVIOUS
      <3> QED
        BY <1>1, <2>1, <3>1, NearbyPc
    <2> QED
      BY <1>2, <1>3, <2>2 DEF FetchTarget, HoldAhead, WrongPathBytes
  <1> QED
    BY <1>2, <1>3

(* One request of ensure_through() moves the pointer to the next word, at  *)
(* most 16 bytes past the PC, and leaves the fetched word in I$.           *)
LEMMA AfterEnsureThrough ==
    ASSUME NoWrapAssumption, Streamed, EnsureThrough
    PROVE  /\ Icfg.enabled
           /\ ifetch.next <= FetchTarget
           /\ ifetch'.next = ifetch.next + 4
           /\ ifetch'.issued = ifetch.issued + 1
           /\ icache' = AfterAccess(Icfg, icache, ifetch.next, FALSE)
           /\ Resident(Icfg, icache', ifetch.next)
           /\ cur'.pc = cur.pc /\ cur'.next = cur.next /\ cur'.left = cur.left
           /\ cur'.dstall = cur.dstall /\ cur'.before = cur.before
           /\ at \in {"fetch", "mem", "redirect", "drain"}
           /\ UNCHANGED <<machine, pc, regs, at>>
  <1>1. /\ Icfg.enabled /\ ifetch.next <= FetchTarget
        /\ at \in {"fetch", "mem", "redirect", "drain"}
        /\ icache' = AfterAccess(Icfg, icache, ifetch.next, FALSE)
        /\ UNCHANGED <<machine, pc, regs, at>>
    BY DEF EnsureThrough, Streaming, Behind, Issue, arch
  <1>2. /\ cur'.pc = cur.pc /\ cur'.next = cur.next /\ cur'.left = cur.left
        /\ cur'.dstall = cur.dstall /\ cur'.before = cur.before
    BY DEF EnsureThrough, Streamed, Typed, TypeOK, StepType
  <1>3. /\ ifetch'.next = Plus(ifetch.next, 4)
        /\ ifetch'.issued = ifetch.issued + 1
    BY DEF EnsureThrough, Streamed, Typed, TypeOK, FetchType
  <1>4. Plus(ifetch.next, 4) = ifetch.next + 4
    <2>1. ifetch.next <= cur.pc + 12 /\ InRange(cur.pc, 4)
      BY <1>1, TargetNearPc DEF Streamed, PcInPlace
    <2>2. cur.pc \in Nat /\ ifetch.next \in Nat /\ MemSize \in Nat /\ Modulus \in Nat
      BY TargetNearPc, CpuAssumption, WordRange DEF CpuAssumption
    <2>3. ifetch.next + 4 \in Nat /\ ifetch.next + 4 < Modulus
      BY <2>1, <2>2 DEF NoWrapAssumption, InRange
    <2> QED
      BY <2>3, SmallSum DEF Plus
  <1>5. Resident(Icfg, icache', ifetch.next)
    <2>1. Icfg \in CacheConfig /\ icache \in CacheType(Icfg) /\ ifetch.next \in Nat
      BY StateFacts, TargetNearPc DEF Streamed, Typed, TypeOK
    <2>2. FALSE \in BOOLEAN
      OBVIOUS
    <2>3. WouldHit(Icfg, icache', ifetch.next)
      BY <1>1, <2>1, <2>2, AccessedWordHits
    <2> QED
      BY <1>1, <2>3 DEF WouldHit
  <1> QED
    BY <1>1, <1>2, <1>3, <1>4, <1>5

(* A replay asks again for the last word fetched, which is in I$.          *)
LEMMA ReplayFacts ==
    ASSUME NoWrapAssumption, Streamed, Streaming, ~Behind, cur.left > 0
    PROVE  /\ at \in {"mem", "drain"}
           /\ Icfg.enabled
           /\ FetchTarget = ifetch.next - 4
           /\ Resident(Icfg, icache, FetchTarget)
  <1>1. at \in {"mem", "drain"} /\ Icfg.enabled
    BY DEF Streamed, ReplaysInPlace, Streaming
  <1>2. FetchTarget = ifetch.next - 4
    <2>1. ifetch.next > FetchTarget
      BY TargetNearPc, <1>1 DEF Behind
    <2> QED
      BY <1>1, <2>1, TargetNearPc DEF Streamed, StreamInPlace
  <1>3. Resident(Icfg, icache, ifetch.next - 4)
    BY <1>1 DEF Streamed, LastWordResident, JustFetched
  <1> QED
    BY <1>1, <1>2, <1>3

(* So it changes nothing but the counters, and costs no cycle.             *)
LEMMA AfterReplay ==
    ASSUME NoWrapAssumption, Streamed, Replay
    PROVE  /\ at \in {"mem", "drain"}
           /\ Icfg.enabled
           /\ Resident(Icfg, icache, FetchTarget)
           /\ icache' = AfterAccess(Icfg, icache, FetchTarget, FALSE)
           /\ Resident(Icfg, icache', ifetch.next - 4)
           /\ ifetch'.next = ifetch.next
           /\ cur.left > 0 /\ cur'.left = cur.left - 1
           /\ cur'.pc = cur.pc /\ cur'.next = cur.next /\ cur'.dstall = cur.dstall
           /\ UNCHANGED <<machine, pc, regs, at>>
  <1>1. Streaming /\ ~Behind /\ cur.left > 0
    BY DEF Replay
  <1>2. /\ at \in {"mem", "drain"} /\ Icfg.enabled
        /\ FetchTarget = ifetch.next - 4 /\ Resident(Icfg, icache, FetchTarget)
    BY <1>1, ReplayFacts
  <1>3. /\ icache' = AfterAccess(Icfg, icache, FetchTarget, FALSE)
        /\ UNCHANGED <<machine, pc, regs, at>>
    BY DEF Replay, Issue, arch
  <1>4. /\ ifetch'.next = ifetch.next /\ cur'.left = cur.left - 1
        /\ cur'.pc = cur.pc /\ cur'.next = cur.next /\ cur'.dstall = cur.dstall
    BY DEF Replay, Streamed, Typed, TypeOK, StepType, FetchType
  <1>5. Resident(Icfg, icache', FetchTarget)
    <2>1. Icfg \in CacheConfig /\ icache \in CacheType(Icfg) /\ FetchTarget \in Nat
      BY StateFacts, WordsAreNat DEF Streamed, Typed, TypeOK
    <2>2. FALSE \in BOOLEAN
      OBVIOUS
    <2>3. WouldHit(Icfg, icache', FetchTarget)
      BY <1>3, <2>1, <2>2, AccessedWordHits
    <2> QED
      BY <1>2, <2>3 DEF WouldHit
  <1> QED
    BY <1>1, <1>2, <1>3, <1>4, <1>5

(* What decode and execute start from: the instruction has been fetched,   *)
(* and nothing is left to replay.                                          *)
LEMMA DecodingFacts ==
    ASSUME NoWrapAssumption, Streamed, Decoding
    PROVE  /\ at = "fetch" /\ pc = cur.pc /\ InRange(cur.pc, 4)
           /\ Plus(cur.pc, 4) = cur.pc + 4
           /\ Icfg.enabled =>
                 /\ ifetch.next \in {cur.pc + 4, cur.pc + 8, cur.pc + 12}
                 /\ Resident(Icfg, icache, ifetch.next - 4)
           /\ CallReturned \in StepType /\ CallReturned.pc = cur.pc
           /\ CallReturned.left = 0
  <1>1. at = "fetch" /\ pc = cur.pc /\ InRange(cur.pc, 4) /\ cur.left = 0
    BY DEF Decoding, Streamed, PcInPlace, ReplaysInPlace
  <1>2. Plus(cur.pc, 4) = cur.pc + 4 /\ FetchTarget = cur.pc
    BY <1>1, TargetNearPc
  <1>3. Icfg.enabled => /\ ifetch.next \in {cur.pc + 4, cur.pc + 8, cur.pc + 12}
                        /\ Resident(Icfg, icache, ifetch.next - 4)
    <2> SUFFICES ASSUME Icfg.enabled
                 PROVE  /\ ifetch.next \in {cur.pc + 4, cur.pc + 8, cur.pc + 12}
                        /\ Resident(Icfg, icache, ifetch.next - 4)
      OBVIOUS
    <2>1. ~(ifetch.next <= cur.pc)
      BY <1>1, <1>2 DEF Decoding, StreamDone, Streaming, Behind
    <2>2. ifetch.next \in {cur.pc, cur.pc + 4, cur.pc + 8, cur.pc + 12}
      BY <1>1 DEF Streamed, StreamInPlace
    <2>3. cur.pc \in Nat
      BY TargetNearPc
    <2>4. ifetch.next # pc
      BY <1>1, <2>1, <2>2, <2>3
    <2>5. Resident(Icfg, icache, ifetch.next - 4)
      BY <1>1, <2>4 DEF Streamed, LastWordResident, JustFetched
    <2> QED
      BY <2>1, <2>2, <2>3, <2>5
  <1>4. /\ CallReturned \in StepType /\ CallReturned.pc = cur.pc
        /\ CallReturned.left = 0
    BY <1>1, CallReturnedFields DEF Streamed, Typed, TypeOK
  <1> QED
    BY <1>1, <1>2, <1>3, <1>4

(* The hold of a load or store that is over: if D$ stalled, the stream was *)
(* fetched through 12 bytes past the PC and nothing is left to replay.     *)
LEMMA MemoryDoneFacts ==
    ASSUME NoWrapAssumption, Streamed, MemoryDone
    PROVE  /\ at = "mem" /\ pc = cur.pc /\ InRange(cur.pc, 4)
           /\ Plus(cur.pc, 4) = cur.pc + 4
           /\ Icfg.enabled => Resident(Icfg, icache, ifetch.next - 4)
           /\ Icfg.enabled => cur.left = 0
           /\ Icfg.enabled /\ cur.dstall # 0 => ifetch.next = cur.pc + 16
  <1>1. at = "mem" /\ pc = cur.pc /\ InRange(cur.pc, 4)
    BY DEF MemoryDone, Streamed, PcInPlace
  <1>2. Plus(cur.pc, 4) = cur.pc + 4 /\ FetchTarget = cur.pc + 12
    BY <1>1, TargetNearPc
  <1>3. ASSUME Icfg.enabled
        PROVE  /\ Resident(Icfg, icache, ifetch.next - 4)
               /\ cur.left = 0
               /\ cur.dstall # 0 => ifetch.next = cur.pc + 16
    <2>1. Resident(Icfg, icache, ifetch.next - 4)
      BY <1>1, <1>3 DEF Streamed, LastWordResident, JustFetched
    <2>2. CASE cur.dstall = 0
      <3>1. cur.left \in Nat /\ cur.left <= cur.dstall
        BY <1>1, <1>3, StateFacts DEF Streamed, Typed, ReplaysInPlace
      <3> QED
        BY <2>1, <2>2, <3>1
    <2>3. CASE cur.dstall # 0
      <3>1. ~Behind /\ cur.left = 0
        BY <1>1, <1>3, <2>3 DEF MemoryDone, StreamDone, Streaming
      <3>2. ifetch.next > cur.pc + 12
        BY <1>2, <3>1, TargetNearPc DEF Behind
      <3>3. ifetch.next = cur.pc + 16
        BY <1>1, <1>3, <3>2, TargetNearPc DEF Streamed, StreamInPlace
      <3> QED
        BY <2>1, <3>1, <3>3
    <2> QED
      BY <2>2, <2>3
  <1> QED
    BY <1>1, <1>2, <1>3

(* Requests of the stream.                                                 *)
LEMMA StreamedAfterFetch ==
    ASSUME NoWrapAssumption, Streamed, EnsureThrough \/ Replay
    PROVE  Streamed'
  <1>1. Typed'
    BY NextTyped DEF Streamed, Next
  <1>2. CASE EnsureThrough
    <2>1. /\ Icfg.enabled /\ ifetch.next <= FetchTarget
          /\ ifetch'.next = ifetch.next + 4
          /\ Resident(Icfg, icache', ifetch.next)
          /\ cur'.pc = cur.pc /\ cur'.next = cur.next /\ cur'.left = cur.left
          /\ cur'.dstall = cur.dstall
          /\ at \in {"fetch", "mem", "redirect", "drain"}
          /\ machine' = machine /\ pc' = pc /\ at' = at
      BY <1>2, AfterEnsureThrough
    <2>2. cur.pc \in Nat /\ pc \in Nat /\ ifetch.next \in Nat
      BY TargetNearPc
    <2>3. PcInPlace' /\ ReplaysInPlace'
      BY <2>1 DEF Streamed, PcInPlace, ReplaysInPlace, InRange, Icfg
    <2>4. StreamInPlace'
      <3>1. CASE at = "fetch"
        <4>1. ifetch.next = pc
          BY <2>1, <2>2, <3>1, TargetNearPc DEF Streamed, StreamInPlace, PcInPlace
        <4> QED
          BY <2>1, <3>1, <4>1 DEF StreamInPlace
      <3>2. CASE at = "mem"
        <4>1. ifetch.next \in {cur.pc + 4, cur.pc + 8, cur.pc + 12}
          BY <2>1, <2>2, <3>2, TargetNearPc DEF Streamed, StreamInPlace
        <4> QED
          BY <2>1, <2>2, <3>2, <4>1 DEF StreamInPlace
      <3>3. CASE at \in {"redirect", "drain"}
        <4>1. ifetch.next \in {cur.pc + 4, cur.pc + 8}
          BY <2>1, <2>2, <3>3, TargetNearPc DEF Streamed, StreamInPlace
        <4> QED
          BY <2>1, <2>2, <3>3, <4>1 DEF StreamInPlace
      <3> QED
        BY <2>1, <3>1, <3>2, <3>3
    <2>5. LastWordResident'
      <3>1. ifetch'.next - 4 = ifetch.next /\ Icfg' = Icfg
        BY <2>1, <2>2 DEF Icfg
      <3> QED
        BY <2>1, <3>1 DEF LastWordResident
    <2> QED
      BY <1>1, <2>3, <2>4, <2>5 DEF Streamed
  <1>3. CASE Replay
    <2>1. /\ at \in {"mem", "drain"}
          /\ Resident(Icfg, icache', ifetch.next - 4)
          /\ ifetch'.next = ifetch.next
          /\ cur.left > 0 /\ cur'.left = cur.left - 1
          /\ cur'.pc = cur.pc /\ cur'.next = cur.next /\ cur'.dstall = cur.dstall
          /\ machine' = machine /\ pc' = pc /\ at' = at
      BY <1>3, AfterReplay
    <2>2. cur.left \in Nat /\ cur.dstall \in Nat
      BY StateFacts DEF Streamed, Typed
    <2>3. PcInPlace' /\ StreamInPlace'
      BY <2>1 DEF Streamed, PcInPlace, StreamInPlace, InRange, Icfg
    <2>4. ReplaysInPlace'
      BY <2>1, <2>2 DEF Streamed, ReplaysInPlace, Icfg
    <2>5. LastWordResident'
      BY <2>1 DEF LastWordResident, Icfg
    <2> QED
      BY <1>1, <2>3, <2>4, <2>5 DEF Streamed
  <1> QED
    BY <1>2, <1>3

(* An instruction that retires at once leaves the PC at the next word, and *)
(* the stream where it was.                                                *)
LEMMA StreamedAfterStraight ==
    ASSUME NoWrapAssumption, Streamed, ExecuteAlu \/ ExecuteUntakenBranch
    PROVE  Streamed'
  <1>1. Typed'
    BY NextTyped DEF Streamed, Next
  <1>2. /\ Decoding /\ pc' = Plus(cur.pc, 4) /\ at' = "retire"
        /\ machine' = machine /\ icache' = icache /\ ifetch' = ifetch
    BY DEF ExecuteAlu, ExecuteUntakenBranch
  <1>3. /\ pc' = cur.pc + 4
        /\ Icfg.enabled => /\ ifetch.next \in {cur.pc + 4, cur.pc + 8, cur.pc + 12}
                           /\ Resident(Icfg, icache, ifetch.next - 4)
    BY <1>2, DecodingFacts
  <1>4. cur.pc \in Nat
    BY TargetNearPc
  <1>5. StreamInPlace' /\ LastWordResident'
    BY <1>2, <1>3, <1>4 DEF StreamInPlace, LastWordResident, JustFetched, Icfg
  <1> QED
    BY <1>1, <1>2, <1>5 DEF Streamed, PcInPlace, ReplaysInPlace

(* The instructions that go on to a data access, a redirect or a drain     *)
(* keep their own PC, and with it the distance of the stream.              *)
LEMMA StreamedAfterExecute ==
    ASSUME NoWrapAssumption, Streamed,
           \/ ExecuteJump \/ ExecuteTakenBranch \/ ExecuteMemory \/ ExecuteSystem
    PROVE  Streamed'
  <1>1. Typed'
    BY NextTyped DEF Streamed, Next
  <1>2. /\ Decoding /\ at' \in {"redirect", "mem", "drain"}
        /\ machine' = machine /\ icache' = icache /\ ifetch' = ifetch
    BY DEF ExecuteJump, ExecuteTakenBranch, ExecuteMemory, ExecuteSystem
  <1>3. /\ Icfg.enabled => /\ ifetch.next \in {cur.pc + 4, cur.pc + 8, cur.pc + 12}
                           /\ Resident(Icfg, icache, ifetch.next - 4)
        /\ InRange(cur.pc, 4) /\ pc = cur.pc /\ Plus(cur.pc, 4) = cur.pc + 4
        /\ CallReturned \in StepType /\ CallReturned.pc = cur.pc /\ CallReturned.left = 0
    BY <1>2, DecodingFacts
  <1>4. cur'.pc = cur.pc
    BY <1>3 DEF ExecuteJump, ExecuteTakenBranch, ExecuteMemory, ExecuteSystem, StepType
  <1>5. StreamInPlace' /\ LastWordResident'
    BY <1>2, <1>3, <1>4 DEF StreamInPlace, LastWordResident, JustFetched, Icfg
  <1>6. PcInPlace' /\ ReplaysInPlace'
    <2>1. CASE ExecuteJump \/ ExecuteTakenBranch
      <3>1. at' = "redirect" /\ cur'.next = pc' /\ cur'.left = 0
        BY <1>3, <2>1 DEF ExecuteJump, ExecuteTakenBranch, StepType
      <3> QED
        BY <1>3, <1>4, <3>1 DEF PcInPlace, ReplaysInPlace, InRange
    <2>2. CASE ExecuteMemory
      <3> DEFINE stall == AccessStall(Dcfg, dcache, DataAddr(Insn))
      <3>1. at' = "mem" /\ pc' = pc
        BY <2>2 DEF ExecuteMemory, arch
      <3>2. cur' = [CallReturned EXCEPT !.dstall = stall,
                                        !.left = IF Icfg.enabled THEN stall ELSE 0]
        BY <2>2 DEF ExecuteMemory
      <3>3. stall \in Nat
        BY StateFacts, StallIsNat DEF Streamed, Typed
      <3> HIDE DEF stall
      <3>4. Icfg.enabled => cur'.left = stall /\ cur'.dstall = stall
        BY <1>3, <3>2 DEF StepType
      <3>5. ReplaysInPlace'
        BY <1>2, <3>1, <3>3, <3>4 DEF ReplaysInPlace, Icfg
      <3>6. PcInPlace'
        BY <1>3, <1>4, <3>1 DEF PcInPlace, InRange
      <3> QED
        BY <3>5, <3>6
    <2>3. CASE ExecuteSystem
      <3>1. at' = "drain" /\ pc' = cur.pc + 4
        BY <1>3, <2>3 DEF ExecuteSystem
      <3> QED
        BY <1>3, <1>4, <3>1 DEF PcInPlace, ReplaysInPlace, InRange
    <2> QED
      BY <2>1, <2>2, <2>3
  <1> QED
    BY <1>1, <1>5, <1>6 DEF Streamed

(* A load or store whose hold is over moves on by one word.                *)
LEMMA StreamedAfterMemory ==
    ASSUME NoWrapAssumption, Streamed, LoadDone \/ StoreDone
    PROVE  Streamed'
  <1>1. Typed'
    BY NextTyped DEF Streamed, Next
  <1>2. /\ MemoryDone /\ pc' = Plus(cur.pc, 4) /\ at' = "retire"
        /\ machine' = machine /\ icache' = icache /\ ifetch' = ifetch
    BY DEF LoadDone, StoreDone
  <1>3. /\ pc' = cur.pc + 4 /\ at = "mem"
        /\ Icfg.enabled => Resident(Icfg, icache, ifetch.next - 4)
    BY <1>2, MemoryDoneFacts
  <1>4. cur.pc \in Nat
    BY TargetNearPc
  <1>5. StreamInPlace' /\ LastWordResident'
    BY <1>2, <1>3, <1>4
       DEF Streamed, StreamInPlace, LastWordResident, JustFetched, Icfg
  <1> QED
    BY <1>1, <1>2, <1>5 DEF Streamed, PcInPlace, ReplaysInPlace

(* A redirect restarts the stream at the PC; the other ends and the        *)
(* beginning of a step leave both where they are.                          *)
LEMMA StreamedAfterRest ==
    ASSUME NoWrapAssumption, Streamed,
           \/ RedirectDone \/ DrainDone \/ Retire \/ BeginStep
    PROVE  Streamed'
  <1>1. Typed'
    BY NextTyped DEF Streamed, Next
  <1>2. machine' = machine /\ icache' = icache /\ pc' = pc
    BY DEF RedirectDone, DrainDone, Retire, BeginStep, arch
  <1>3. pc \in Nat /\ cur.pc \in Nat
    BY TargetNearPc
  <1>4. CASE RedirectDone
    <2>1. ifetch'.next = cur.next /\ at = "redirect" /\ at' = "retire"
      BY <1>4 DEF RedirectDone, Streamed, Typed, TypeOK, FetchType
    <2>2. ifetch'.next = pc
      BY <2>1 DEF Streamed, PcInPlace
    <2> QED
      BY <1>1, <1>2, <2>1, <2>2
         DEF Streamed, PcInPlace, StreamInPlace, LastWordResident, JustFetched,
             ReplaysInPlace
  <1>5. CASE DrainDone
    <2>1. at = "drain" /\ at' = "retire" /\ ifetch' = ifetch
      BY <1>5 DEF DrainDone
    <2>2. StreamInPlace' /\ LastWordResident'
      BY <1>2, <1>3, <2>1
         DEF Streamed, PcInPlace, StreamInPlace, LastWordResident, JustFetched, Icfg
    <2> QED
      BY <1>1, <2>1, <2>2 DEF Streamed, PcInPlace, ReplaysInPlace
  <1>6. CASE Retire
    <2>1. at = "retire" /\ at' = "idle" /\ ifetch' = ifetch /\ cur' = NoStep
      BY <1>6 DEF Retire
    <2> QED
      BY <1>1, <1>2, <2>1
         DEF Streamed, PcInPlace, StreamInPlace, LastWordResident, JustFetched, Icfg,
             ReplaysInPlace, NoStep
  <1>7. CASE BeginStep
    <2>1. /\ at = "idle" /\ at' = "fetch" /\ ifetch' = ifetch
          /\ cur'.pc = pc /\ cur'.left = 0
      BY <1>7 DEF BeginStep, NoStep
    <2>2. InRange(pc, 4)
      BY <1>7 DEF BeginStep, StartFault
    <2> QED
      BY <1>1, <1>2, <2>1, <2>2
         DEF Streamed, PcInPlace, StreamInPlace, LastWordResident, JustFetched, Icfg,
             ReplaysInPlace, InRange
  <1> QED
    BY <1>4, <1>5, <1>6, <1>7

(* After an exception nothing is asked of the stream.                      *)
LEMMA StreamedAfterFault ==
    ASSUME Streamed, StepThrows \/ ExecuteFault \/ StoreThrows
    PROVE  Streamed'
  <1>1. Typed'
    BY NextTyped DEF Streamed, Next
  <1>2. at' = "fault"
    BY DEF StepThrows, ExecuteFault, StoreThrows
  <1> QED
    BY <1>1, <1>2
       DEF Streamed, PcInPlace, StreamInPlace, LastWordResident, JustFetched,
           ReplaysInPlace

(* Reset points the stream at the reset PC.                                *)
LEMMA InitStreamed == Init => Streamed
  <1> SUFFICES ASSUME Init PROVE Streamed
    OBVIOUS
  <1>1. Typed
    BY InitTyped
  <1>2. at = "idle" /\ ifetch.next = pc /\ cur.left = 0
    BY DEF Init, ResetFetch, NoStep
  <1> QED
    BY <1>1, <1>2
       DEF Streamed, PcInPlace, StreamInPlace, LastWordResident, JustFetched,
           ReplaysInPlace

(* Every step keeps the stream in place.                                   *)
LEMMA NextStreamed ==
    ASSUME NoWrapAssumption, Streamed, [Next]_vars
    PROVE  Streamed'
  <1>1. CASE UNCHANGED vars
    <2>1. Typed'
      BY <1>1, NextTyped DEF Streamed
    <2> QED
      BY <1>1, <2>1
         DEF Streamed, PcInPlace, StreamInPlace, LastWordResident, JustFetched,
             ReplaysInPlace, Icfg, vars
  <1> QED
    BY <1>1, StreamedAfterFetch, StreamedAfterStraight, StreamedAfterExecute,
       StreamedAfterMemory, StreamedAfterRest, StreamedAfterFault
       DEF Next

(* ensure_through() never finds the stream behind the PC nor further ahead *)
(* than a D$ hold can push it, whatever the program does: what             *)
(* IFetchStreamModel assumes and never checks.                             *)
THEOREM StreamStaysNear ==
    NoWrapAssumption => (Spec => []StreamNearPc)
  <1> SUFFICES ASSUME NoWrapAssumption PROVE Spec => []StreamNearPc
    OBVIOUS
  <1>1. Streamed /\ [Next]_vars => Streamed'
    BY NextStreamed
  <1>2. Streamed => StreamNearPc
    <2> SUFFICES ASSUME Streamed, Icfg.enabled, at = "idle"
                 PROVE  pc <= ifetch.next /\ ifetch.next <= pc + 12
      BY DEF StreamNearPc, Between, HoldAhead
    <2>1. pc \in Nat
      BY TargetNearPc
    <2>2. ifetch.next \in {pc, pc + 4, pc + 8, pc + 12}
      BY DEF Streamed, StreamInPlace
    <2> QED
      BY <2>1, <2>2
  <1> QED
    BY InitStreamed, <1>1, <1>2, PTL DEF Spec

(* Replay accesses hit, as IFetchStreamModel.hpp expects of them.          *)
THEOREM ReplaysAlwaysHit ==
    NoWrapAssumption => (Spec => []ReplaysHit)
  <1> SUFFICES ASSUME NoWrapAssumption PROVE Spec => []ReplaysHit
    OBVIOUS
  <1>1. Streamed /\ [Next]_vars => Streamed'
    BY NextStreamed
  <1>2. Streamed => ReplaysHit
    BY ReplayFacts DEF ReplaysHit
  <1> QED
    BY InitStreamed, <1>1, <1>2, PTL DEF Spec

-----------------------------------------------------------------------------
(* The wrong path *)

(* During a redirect the stream has issued no more requests than it has    *)
(* moved on since the instruction was decoded.                             *)
WrongPathSoFar ==
    /\ WrongPathBounded
    /\ at = "redirect" =>
          /\ ~Icfg.enabled => ifetch.issued = cur.before
          /\ Icfg.enabled => 4 * ifetch.issued + cur.pc + 4 <= ifetch.next + 4 * cur.before

(* A redirect begins with nothing issued, at least a word past its PC.     *)
LEMMA WrongPathBegins ==
    ASSUME NoWrapAssumption, Streamed, WrongPathSoFar, ExecuteJump \/ ExecuteTakenBranch
    PROVE  WrongPathSoFar'
  <1>1. /\ Decoding /\ at' = "redirect" /\ ifetch' = ifetch /\ machine' = machine
    BY DEF ExecuteJump, ExecuteTakenBranch
  <1>2. /\ Icfg.enabled => ifetch.next \in {cur.pc + 4, cur.pc + 8, cur.pc + 12}
        /\ CallReturned \in StepType /\ CallReturned.pc = cur.pc
    BY <1>1, DecodingFacts
  <1>3. cur'.before = ifetch.issued /\ cur'.pc = cur.pc
    BY <1>2 DEF ExecuteJump, ExecuteTakenBranch, StepType
  <1>4. cur.pc \in Nat /\ ifetch.issued \in Nat
    BY TargetNearPc, FetchFields DEF Streamed, Typed, TypeOK
  <1>5. Icfg.enabled => 4 * ifetch.issued + cur.pc + 4 <= ifetch.next + 4 * ifetch.issued
    BY <1>2, <1>4
  <1> QED
    BY <1>1, <1>3, <1>5 DEF WrongPathSoFar, WrongPathBounded, Icfg

(* A redirect ends at most 12 bytes past its PC, so after two requests.    *)
LEMMA WrongPathEnds ==
    ASSUME NoWrapAssumption, Streamed, WrongPathSoFar, RedirectDone
    PROVE  WrongPathSoFar'
  <1> DEFINE n == ifetch.redirects
             w == ifetch.wrongPath
             i == ifetch.issued
             b == cur.before
             p == cur.pc
             x == ifetch.next
  <1>1. /\ n \in Nat /\ w \in Nat /\ i \in Nat /\ b \in Nat /\ p \in Nat /\ x \in Nat
    BY TargetNearPc, FetchFields, StateFacts DEF Streamed, Typed, TypeOK
  <1>2. w <= 2 * n
    BY DEF WrongPathSoFar, WrongPathBounded
  <1>3. at = "redirect" /\ at' = "retire"
    BY DEF RedirectDone
  <1>4. i <= b + 2
    <2>1. CASE Icfg.enabled
      <3>1. x \in {p + 4, p + 8, p + 12} /\ 4 * i + p + 4 <= x + 4 * b
        BY <1>3, <2>1 DEF Streamed, StreamInPlace, WrongPathSoFar
      <3> HIDE DEF i, b, p, x
      <3> QED
        BY <1>1, <3>1
    <2>2. CASE ~Icfg.enabled
      BY <1>1, <1>3, <2>2 DEF WrongPathSoFar
    <2> QED
      BY <2>1, <2>2
  <1>5. b <= i
    BY <1>3 DEF Streamed, Typed, LocalsInPlace
  <1>6. ifetch'.redirects = n + 1 /\ ifetch'.wrongPath = w + (i - b)
    BY DEF RedirectDone, Streamed, Typed, TypeOK, FetchType
  <1>7. w + (i - b) <= 2 * (n + 1)
    <2> HIDE DEF n, w, i, b
    <2> QED
      BY <1>1, <1>2, <1>4, <1>5
  <1> QED
    BY <1>3, <1>6, <1>7 DEF WrongPathSoFar, WrongPathBounded

(* Every step keeps the count.                                             *)
LEMMA WrongPathStays ==
    ASSUME NoWrapAssumption, Streamed, WrongPathSoFar, [Next]_vars
    PROVE  WrongPathSoFar'
  <1>1. CASE EnsureThrough
    <2>1. /\ Icfg.enabled /\ ifetch'.next = ifetch.next + 4
          /\ ifetch'.issued = ifetch.issued + 1
          /\ cur'.pc = cur.pc /\ cur'.before = cur.before
          /\ machine' = machine /\ at' = at
      BY <1>1, AfterEnsureThrough
    <2>2. ifetch'.wrongPath = ifetch.wrongPath /\ ifetch'.redirects = ifetch.redirects
      BY <1>1 DEF EnsureThrough, Streamed, Typed, TypeOK, FetchType
    <2>3. ifetch.next \in Nat /\ cur.pc \in Nat /\ ifetch.issued \in Nat /\ cur.before \in Nat
      BY TargetNearPc, FetchFields, StateFacts DEF Streamed, Typed, TypeOK
    <2> QED
      BY <2>1, <2>2, <2>3 DEF WrongPathSoFar, WrongPathBounded, Icfg
  <1>2. CASE Replay
    <2>1. at \in {"mem", "drain"} /\ at' = at
      BY <1>2, AfterReplay
    <2>2. ifetch'.wrongPath = ifetch.wrongPath /\ ifetch'.redirects = ifetch.redirects
      BY <1>2 DEF Replay, Streamed, Typed, TypeOK, FetchType
    <2> QED
      BY <2>1, <2>2 DEF WrongPathSoFar, WrongPathBounded
  <1>3. CASE ExecuteJump \/ ExecuteTakenBranch
    BY <1>3, WrongPathBegins
  <1>4. CASE RedirectDone
    BY <1>4, WrongPathEnds
  <1>5. CASE UNCHANGED vars
    BY <1>5 DEF WrongPathSoFar, WrongPathBounded, Icfg, vars
  <1>6. CASE /\ Next
             /\ ~(EnsureThrough \/ Replay \/ ExecuteJump \/ ExecuteTakenBranch)
             /\ ~RedirectDone
    <2>1. ifetch' = ifetch /\ at' # "redirect"
      BY <1>6 DEF Next, StepThrows, BeginStep, ExecuteAlu, ExecuteFault,
                  ExecuteUntakenBranch, ExecuteMemory, ExecuteSystem, LoadDone,
                  StoreThrows, StoreDone, DrainDone, Retire
    <2> QED
      BY <2>1 DEF WrongPathSoFar, WrongPathBounded
  <1> QED
    BY <1>1, <1>2, <1>3, <1>4, <1>5, <1>6

(* No more than two wrong-path requests are charged to a redirect, over    *)
(* the whole run.                                                          *)
THEOREM WrongPathIsTwoWords ==
    NoWrapAssumption => (Spec => []WrongPathBounded)
  <1> SUFFICES ASSUME NoWrapAssumption PROVE Spec => []WrongPathBounded
    OBVIOUS
  <1> DEFINE IInv == Streamed /\ WrongPathSoFar
  <1>1. Init => IInv
    <2> SUFFICES ASSUME Init PROVE IInv
      OBVIOUS
    <2>1. WrongPathSoFar
      BY DEF Init, ResetFetch, WrongPathSoFar, WrongPathBounded
    <2> QED
      BY <2>1, InitStreamed
  <1>2. IInv /\ [Next]_vars => IInv'
    BY NextStreamed, WrongPathStays
  <1>3. IInv => WrongPathBounded
    BY DEF WrongPathSoFar
  <1> QED
    BY <1>1, <1>2, <1>3, PTL DEF Spec

-----------------------------------------------------------------------------
(* The overlap credit *)

(* Where a credited redirect target can be: the instruction at the PC is   *)
(* the redirect to it, with the stream too far ahead for a wrong-path      *)
(* request; or the stream has been restarted at it.                        *)
BeforeRedirect(target) ==
    /\ Redirects(InsnAt(pc))
    /\ RedirectTarget(InsnAt(pc), pc) = target
    /\ ifetch.next = pc + 12

AtTarget(target) == pc = target /\ ifetch.next = target

(* A credit was given for target, and it is still absent from I$.          *)
Owing(target) ==
    /\ owed = {target}
    /\ Icfg.enabled
    /\ ~Resident(Icfg, icache, target)
    /\ at \notin {"mem", "drain"}
    /\ at \in {"idle", "fetch", "retire"} => BeforeRedirect(target) \/ AtTarget(target)
    /\ at = "redirect" => cur.next = target /\ ifetch.next = cur.pc + 12

OwedInPlace == owed = {} \/ \E target \in Word : Owing(target)

(* The overlap subtracted from the cycles is backed by D$ stalls that      *)
(* happened, and by I$ stalls that happened or are about to.               *)
Backed ==
    /\ overlap + ifstallReplays + cur.dstall <= dcache.stats.stall
    /\ owed = {} => overlap <= icache.stats.stall
    /\ owed # {} => overlap <= icache.stats.stall + CleanMissPenalty(Icfg)
    /\ ifstallReplays <= dcache.stats.hits

Credited == Streamed /\ HeldWordHits /\ OwedInPlace /\ Backed

(* The next request after a credit is the fetch of the redirect target, at *)
(* the start of its own step, and it misses.                               *)
LEMMA DebtIsPaid ==
    ASSUME NoWrapAssumption, Streamed, OwedInPlace, owed # {}, EnsureThrough \/ Replay
    PROVE  /\ EnsureThrough
           /\ at = "fetch" /\ owed = {cur.pc} /\ ifetch.next = cur.pc
           /\ ~Resident(Icfg, icache, cur.pc)
  <1>1. PICK target \in Word : Owing(target)
    BY DEF OwedInPlace
  <1>2. CASE Replay
    BY <1>1, <1>2, AfterReplay DEF Owing
  <1>3. CASE EnsureThrough
    <2>1. /\ at \in {"fetch", "mem", "redirect", "drain"}
          /\ ifetch.next <= FetchTarget
      BY <1>3, AfterEnsureThrough
    <2>2. cur.pc \in Nat /\ pc \in Nat
      BY TargetNearPc
    <2>3. CASE at = "redirect"
      <3>1. ifetch.next = cur.pc + 12 /\ FetchTarget = cur.pc + 8
        BY <1>1, <2>3, TargetNearPc DEF Owing
      <3> QED
        BY <2>1, <2>2, <3>1
    <2>4. CASE at = "fetch"
      <3>1. FetchTarget = cur.pc /\ pc = cur.pc
        BY <2>4, TargetNearPc DEF Streamed, PcInPlace
      <3>2. AtTarget(target)
        BY <1>1, <2>1, <2>2, <2>4, <3>1 DEF Owing, BeforeRedirect
      <3> QED
        BY <1>1, <1>3, <2>4, <3>1, <3>2 DEF Owing, AtTarget
    <2> QED
      BY <1>1, <2>1, <2>3, <2>4 DEF Owing
  <1> QED
    BY <1>2, <1>3

(* Of the instructions that may execute with a credit open, only the       *)
(* redirect it was given for does not fault.                               *)
LEMMA OwedAfterExecute ==
    ASSUME NoWrapAssumption, Streamed, OwedInPlace,
           \/ ExecuteAlu \/ ExecuteUntakenBranch \/ ExecuteMemory \/ ExecuteSystem
           \/ ExecuteJump \/ ExecuteTakenBranch
    PROVE  OwedInPlace'
  <1>1. /\ Decoding /\ owed' = owed /\ icache' = icache /\ ifetch' = ifetch
        /\ machine' = machine
    BY DEF ExecuteAlu, ExecuteUntakenBranch, ExecuteMemory, ExecuteSystem, ExecuteJump,
           ExecuteTakenBranch
  <1>2. CASE owed = {}
    BY <1>1, <1>2 DEF OwedInPlace
  <1>3. ASSUME NEW target \in Word, Owing(target)
        PROVE  Owing(target)'
    <2>1. /\ at = "fetch" /\ pc = cur.pc
          /\ Icfg.enabled => ifetch.next \in {cur.pc + 4, cur.pc + 8, cur.pc + 12}
          /\ CallReturned \in StepType /\ CallReturned.pc = cur.pc
      BY <1>1, DecodingFacts
    <2>2. cur.pc \in Nat
      BY TargetNearPc
    <2>3. BeforeRedirect(target)
      BY <1>3, <2>1, <2>2 DEF Owing, AtTarget
    <2>4. /\ Redirects(Insn) /\ RedirectTarget(Insn, cur.pc) = target
          /\ ifetch.next = cur.pc + 12
      BY <2>1, <2>3 DEF BeforeRedirect, Insn
    <2>5. ExecuteJump \/ ExecuteTakenBranch
      BY <2>4 DEF Redirects, ExecuteAlu, ExecuteUntakenBranch, ExecuteMemory,
                  ExecuteSystem
    <2>6. at' = "redirect" /\ cur'.next = target /\ cur'.pc = cur.pc
      <3>1. pc' = target /\ at' = "redirect"
        BY <2>4, <2>5 DEF ExecuteJump, ExecuteTakenBranch
      <3>2. cur'.next = pc' /\ cur'.pc = cur.pc
        BY <2>1, <2>5 DEF ExecuteJump, ExecuteTakenBranch, StepType
      <3> QED
        BY <3>1, <3>2
    <2> QED
      BY <1>1, <1>3, <2>4, <2>6 DEF Owing, Icfg
  <1> QED
    BY <1>2, <1>3 DEF OwedInPlace

(* A store that is credited leaves the redirect at the PC, absent from I$, *)
(* and the stream as far ahead as it can be.                               *)
LEMMA OwedAfterStore ==
    ASSUME NoWrapAssumption, Streamed, OwedInPlace, StoreDone
    PROVE  OwedInPlace'
  <1>1. /\ MemoryDone /\ pc' = Plus(cur.pc, 4) /\ at' = "retire"
        /\ UNCHANGED <<machine, regs, icache, ifetch>>
    BY DEF StoreDone
  <1>2. /\ at = "mem" /\ Plus(cur.pc, 4) = cur.pc + 4
        /\ Icfg.enabled /\ cur.dstall # 0 => ifetch.next = cur.pc + 16
    BY <1>1, MemoryDoneFacts
  <1>3. owed = {}
    BY <1>2 DEF OwedInPlace, Owing
  <1>4. CASE Given = 0
    <2>1. owed' = owed
      BY <1>4, StoreDoneFacts DEF Streamed
    <2> QED
      BY <1>3, <2>1 DEF OwedInPlace
  <1>5. CASE Given # 0
    <2>1. owed' = {YoungerTarget}
      BY <1>5, StoreDoneFacts DEF Streamed
    <2>2. Overlaps /\ OverlapCredit(cur.dstall) # 0
      BY <1>5 DEF Given
    <2>3. Icfg.enabled /\ cur.dstall # 0
      BY <2>2 DEF OverlapCredit, Overlaps, Inspects
    <2>4. ~Resident(Icfg, icache, YoungerTarget) /\ Redirects(Younger)
      BY <2>2, <2>3 DEF Overlaps, WouldHit
    <2>5. YoungerTarget \in Word
      <3>1. /\ Plus(cur.pc, 4) \in Word /\ regs \in [Regs -> Word]
            /\ machine \in MachineType
        BY StateFacts DEF Streamed, Typed, TypeOK
      <3>2. Younger \in InsnType
        BY <3>1, InsnTyped DEF Younger
      <3> QED
        BY <3>1, <3>2, TargetInWord DEF YoungerTarget
    <2>6. InsnAt(pc)' = Younger
      BY <1>1 DEF InsnAt, Younger
    <2>7. Redirects(InsnAt(pc))' /\ RedirectTarget(InsnAt(pc), pc)' = YoungerTarget
      <3> DEFINE insn == Younger
      <3>1. regs' = regs
        BY <1>1
      <3>2. Redirects(InsnAt(pc))' = Redirects(insn)
        BY <2>6, <3>1 DEF Redirects, Legal, BranchTaken
      <3>3. RedirectTarget(InsnAt(pc), pc)' = YoungerTarget
        BY <1>1, <2>6, <3>1 DEF RedirectTarget, YoungerTarget
      <3> QED
        BY <2>4, <3>2, <3>3
    <2>8. ifetch'.next = pc' + 12
      BY <1>1, <1>2, <2>3, TargetNearPc
    <2>9. PICK target \in Word : target = YoungerTarget
      BY <2>5
    <2>10. BeforeRedirect(target)'
      BY <2>7, <2>8, <2>9 DEF BeforeRedirect
    <2>11. Owing(target)'
      BY <1>1, <2>1, <2>3, <2>4, <2>9, <2>10 DEF Owing, Icfg
    <2> QED
      BY <2>11 DEF OwedInPlace
  <1> QED
    BY <1>4, <1>5

(* A credit stays open between the store and the fetch it is for.          *)
LEMMA OwedStays ==
    ASSUME NoWrapAssumption, Streamed, OwedInPlace, [Next]_vars
    PROVE  OwedInPlace'
  <1>1. CASE EnsureThrough \/ Replay
    BY <1>1 DEF EnsureThrough, Replay, Issue, OwedInPlace
  <1>2. CASE \/ ExecuteAlu \/ ExecuteUntakenBranch \/ ExecuteMemory \/ ExecuteSystem
             \/ ExecuteJump \/ ExecuteTakenBranch
    BY <1>2, OwedAfterExecute
  <1>3. CASE StoreDone
    BY <1>3, OwedAfterStore
  <1>4. CASE LoadDone \/ DrainDone
    <2>1. at \in {"mem", "drain"} /\ owed' = owed
      BY <1>4 DEF LoadDone, DrainDone, MemoryDone
    <2> QED
      BY <2>1 DEF OwedInPlace, Owing
  <1>5. CASE \/ StepThrows \/ ExecuteFault \/ StoreThrows \/ BeginStep \/ Retire
             \/ RedirectDone \/ UNCHANGED vars
    <2>1. UNCHANGED <<machine, icache, owed>>
      BY <1>5 DEF StepThrows, ExecuteFault, StoreThrows, BeginStep, Retire, RedirectDone,
                  vars
    <2>2. ASSUME NEW target \in Word, Owing(target)
          PROVE  Owing(target)'
      <3>1. CASE StepThrows \/ ExecuteFault \/ StoreThrows
        <4>1. at' = "fault"
          BY <3>1 DEF StepThrows, ExecuteFault, StoreThrows
        <4> QED
          BY <2>1, <2>2, <4>1 DEF Owing, Icfg
      <3>2. CASE BeginStep \/ Retire
        <4>1. /\ UNCHANGED <<pc, regs, ifetch>>
              /\ at \in {"idle", "retire"} /\ at' \in {"idle", "fetch"}
          BY <3>2 DEF BeginStep, Retire, arch
        <4>2. BeforeRedirect(target)' = BeforeRedirect(target)
          BY <2>1, <4>1
             DEF BeforeRedirect, InsnAt, Redirects, Legal, BranchTaken, RedirectTarget
        <4>3. AtTarget(target)' = AtTarget(target)
          BY <4>1 DEF AtTarget
        <4> QED
          BY <2>1, <2>2, <4>1, <4>2, <4>3 DEF Owing, Icfg
      <3>3. CASE RedirectDone
        <4>1. /\ at = "redirect" /\ at' = "retire" /\ pc' = pc
              /\ ifetch'.next = cur.next
          BY <3>3 DEF RedirectDone, arch, Streamed, Typed, TypeOK, FetchType
        <4>2. pc = cur.next /\ cur.next = target
          BY <2>2, <4>1 DEF Streamed, PcInPlace, Owing
        <4>3. AtTarget(target)'
          BY <4>1, <4>2 DEF AtTarget
        <4> QED
          BY <2>1, <2>2, <4>1, <4>3 DEF Owing, Icfg
      <3>4. CASE UNCHANGED vars
        BY <2>2, <3>4
           DEF Owing, BeforeRedirect, AtTarget, InsnAt, Redirects, Legal, BranchTaken,
               RedirectTarget, Icfg, vars
      <3> QED
        BY <1>5, <3>1, <3>2, <3>3, <3>4
    <2> QED
      BY <2>1, <2>2 DEF OwedInPlace
  <1> QED
    BY <1>1, <1>2, <1>3, <1>4, <1>5 DEF Next

(* A miss of the fetch a credit was given for stalls for at least a clean  *)
(* refill, which is all the credit can be.                                 *)
LEMMA BackedAfterFetch ==
    ASSUME NoWrapAssumption, Credited, EnsureThrough \/ Replay
    PROVE  Backed'
  <1> DEFINE addr == IF EnsureThrough THEN ifetch.next ELSE FetchTarget
             penalty == CleanMissPenalty(Icfg)
             stall == icache.stats.stall
  <1>1. /\ icache' = AfterAccess(Icfg, icache, addr, FALSE)
        /\ owed' = {}
        /\ UNCHANGED <<machine, dcache, overlap, ifstallReplays>>
    BY DEF EnsureThrough, Replay, Issue, credit
  <1>2. cur'.dstall = cur.dstall
    BY AfterEnsureThrough, AfterReplay DEF Credited
  <1>3. /\ Icfg \in CacheConfig /\ icache \in CacheType(Icfg) /\ addr \in Nat
        /\ penalty \in Nat /\ stall \in Nat /\ overlap \in Nat
    BY StateFacts, WordsAreNat, TargetNearPc, StallIsNat, LedgerTerms
       DEF Credited, Streamed, Typed, TypeOK
  <1>4. FALSE \in BOOLEAN
    OBVIOUS
  <1>5. /\ icache'.stats.stall >= stall
        /\ Icfg.enabled /\ ~Resident(Icfg, icache, addr) =>
              icache'.stats.stall >= stall + penalty
    BY <1>1, <1>3, <1>4, AccessCounts
  <1>6. icache'.stats.stall \in Nat
    <2>1. Typed'
      BY NextTyped DEF Credited, Streamed, Next
    <2> QED
      BY <2>1, LedgerTerms DEF Typed, TypeOK, CacheType, CacheStats
  <1>7. overlap <= icache'.stats.stall
    <2>1. CASE owed = {}
      <3>1. overlap <= stall
        BY <2>1 DEF Credited, Backed
      <3> HIDE DEF stall, penalty, addr
      <3> QED
        BY <1>3, <1>5, <1>6, <3>1
    <2>2. CASE owed # {}
      <3>1. /\ EnsureThrough /\ ifetch.next = cur.pc
            /\ ~Resident(Icfg, icache, cur.pc)
        BY <2>2, DebtIsPaid DEF Credited
      <3>2. Icfg.enabled /\ addr = cur.pc
        BY <3>1 DEF EnsureThrough, Streaming
      <3>3. overlap <= stall + penalty
        BY <2>2 DEF Credited, Backed
      <3>4. icache'.stats.stall >= stall + penalty
        BY <1>5, <3>1, <3>2
      <3> HIDE DEF stall, penalty, addr
      <3> QED
        BY <1>3, <1>6, <3>3, <3>4
    <2> QED
      BY <2>1, <2>2
  <1> HIDE DEF stall, penalty, addr
  <1> QED
    BY <1>1, <1>2, <1>7 DEF Credited, Backed

(* A data access adds its stall to both sides.                             *)
LEMMA BackedAfterAccess ==
    ASSUME Credited, ExecuteMemory
    PROVE  Backed'
  <1> DEFINE addr == DataAddr(Insn)
             write == Insn.op = "STORE"
             stall == AccessStall(Dcfg, dcache, addr)
             d == dcache.stats.stall
             h == dcache.stats.hits
  <1>1. /\ dcache' = AfterAccess(Dcfg, dcache, addr, write)
        /\ UNCHANGED <<machine, icache, overlap, ifstallReplays, owed>>
        /\ cur.dstall = 0
    BY DEF ExecuteMemory, Decoding, credit, Credited, Streamed, Typed, LocalsInPlace
  <1>2. /\ Dcfg \in CacheConfig /\ dcache \in CacheType(Dcfg)
        /\ addr \in Nat /\ write \in BOOLEAN
    BY StateFacts, TargetInWord, WordsAreNat DEF Credited, Streamed, Typed, TypeOK
  <1>3. dcache'.stats.stall = d + stall /\ stall \in Nat
    BY <1>1, <1>2, AfterAccessType, StallIsNat
  <1>4. dcache'.stats.hits >= h
    BY <1>1, <1>2, AccessCounts
  <1>5. cur'.dstall = stall
    <2>1. CallReturned \in StepType
      BY CallReturnedFields DEF Credited, Streamed, Typed, TypeOK
    <2>2. cur' = [CallReturned EXCEPT !.dstall = stall,
                                      !.left = IF Icfg.enabled THEN stall ELSE 0]
      BY DEF ExecuteMemory
    <2> HIDE DEF stall
    <2> QED
      BY <2>1, <2>2 DEF StepType
  <1>6. /\ overlap + ifstallReplays + 0 <= d /\ ifstallReplays <= h
        /\ owed = {} => overlap <= icache.stats.stall
        /\ owed # {} => overlap <= icache.stats.stall + CleanMissPenalty(Icfg)
    BY <1>1 DEF Credited, Backed
  <1>7. /\ overlap \in Nat /\ ifstallReplays \in Nat /\ d \in Nat /\ h \in Nat
        /\ dcache'.stats.hits \in Nat
    <2>1. Typed'
      BY NextTyped DEF Credited, Streamed, Next
    <2> QED
      BY <2>1 DEF Credited, Streamed, Typed, TypeOK, CacheType, CacheStats
  <1>8. /\ overlap' + ifstallReplays' + cur'.dstall <= dcache'.stats.stall
        /\ ifstallReplays' <= dcache'.stats.hits
    <2>1. overlap' = overlap /\ ifstallReplays' = ifstallReplays
      BY <1>1
    <2> HIDE DEF addr, write, stall, d, h
    <2> QED
      BY <1>3, <1>4, <1>5, <1>6, <1>7, <2>1
  <1> QED
    BY <1>1, <1>6, <1>8 DEF Backed, Icfg

(* The store that is credited is presented again and hits; its stall,      *)
(* which is larger than the credit, backs both.                            *)
LEMMA BackedAfterStore ==
    ASSUME Credited, StoreDone
    PROVE  Backed'
  <1>1. /\ Given \in Nat /\ Given <= cur.dstall
        /\ Given # 0 => Given + 1 <= cur.dstall
        /\ overlap' = overlap + Given /\ cur' = HoldCharged(Given)
    BY StoreDoneFacts DEF Credited, Streamed
  <1>2. cur'.dstall = 0 /\ UNCHANGED <<machine, icache>>
    BY <1>1, HoldChargedFields DEF Credited, Streamed, Typed, TypeOK, StoreDone
  <1>3. at = "mem" /\ owed = {}
    BY DEF StoreDone, MemoryDone, Credited, OwedInPlace, Owing
  <1>4. /\ overlap + ifstallReplays + cur.dstall <= dcache.stats.stall
        /\ overlap <= icache.stats.stall
        /\ ifstallReplays <= dcache.stats.hits
    BY <1>3 DEF Credited, Backed
  <1>5. /\ overlap \in Nat /\ ifstallReplays \in Nat /\ cur.dstall \in Nat
        /\ icache.stats.stall \in Nat /\ dcache.stats.stall \in Nat
        /\ dcache.stats.hits \in Nat
    BY StateFacts DEF Credited, Streamed, Typed, TypeOK, CacheStats
  <1>6. CASE Given = 0
    <2>1. UNCHANGED <<dcache, ifstallReplays, owed>>
      BY <1>6, StoreDoneFacts DEF Credited, Streamed
    <2> QED
      BY <1>1, <1>2, <1>3, <1>4, <1>5, <1>6, <2>1 DEF Backed
  <1>7. CASE Given # 0
    <2>1. /\ dcache' = AfterAccess(Dcfg, dcache, DataAddr(Insn), TRUE)
          /\ ifstallReplays' = ifstallReplays + 1
          /\ owed' # {}
      BY <1>7, StoreDoneFacts DEF Credited, Streamed
    <2>2. /\ Dcfg \in CacheConfig /\ dcache \in CacheType(Dcfg)
          /\ DataAddr(Insn) \in Nat /\ machine \in MachineType
      BY StateFacts, TargetInWord, WordsAreNat DEF Credited, Streamed, Typed, TypeOK
    <2>3. OverlapCredit(cur.dstall) # 0 /\ Given = OverlapCredit(cur.dstall)
      BY <1>7 DEF Given
    <2>4. Dcfg.enabled /\ Given <= CleanMissPenalty(Icfg)
      <3>1. CleanMissPenalty(Icfg) \in Nat
        BY StateFacts, StallIsNat DEF Credited, Streamed, Typed
      <3> QED
        BY <1>5, <2>3, <3>1 DEF OverlapCredit
    <2>5. Resident(Dcfg, dcache, DataAddr(Insn))
      BY <1>3, <2>4 DEF Credited, HeldWordHits, WouldHit
    <2>6. \E write \in BOOLEAN : write = TRUE
      OBVIOUS
    <2>7. /\ dcache'.stats.stall = dcache.stats.stall
          /\ dcache'.stats.hits = dcache.stats.hits + 1
      BY <2>1, <2>2, <2>4, <2>5, <2>6, AccessCounts
    <2>8. /\ overlap' + ifstallReplays' + cur'.dstall <= dcache'.stats.stall
          /\ ifstallReplays' <= dcache'.stats.hits
      <3> DEFINE g == Given
                 d == dcache.stats.stall
                 h == dcache.stats.hits
                 s == cur.dstall
      <3>1. /\ g \in Nat /\ g + 1 <= s /\ overlap' = overlap + g /\ cur'.dstall = 0
            /\ ifstallReplays' = ifstallReplays + 1
            /\ dcache'.stats.stall = d /\ dcache'.stats.hits = h + 1
        BY <1>1, <1>2, <1>7, <2>1, <2>7
      <3>2. /\ overlap + ifstallReplays + s <= d /\ ifstallReplays <= h
            /\ overlap \in Nat /\ ifstallReplays \in Nat /\ s \in Nat
            /\ d \in Nat /\ h \in Nat
        BY <1>4, <1>5
      <3> HIDE DEF g, d, h, s
      <3> QED
        BY <3>1, <3>2
    <2>9. overlap' <= icache'.stats.stall + CleanMissPenalty(Icfg')
      <3>1. CleanMissPenalty(Icfg) \in Nat
        BY StateFacts, StallIsNat DEF Credited, Streamed, Typed
      <3>2. Icfg' = Icfg /\ icache' = icache
        BY <1>2 DEF Icfg
      <3> QED
        BY <1>1, <1>4, <1>5, <2>4, <3>1, <3>2
    <2> QED
      BY <2>1, <2>8, <2>9 DEF Backed
  <1> QED
    BY <1>6, <1>7

(* Every other step leaves the caches and the credit alone, and holds no   *)
(* more of a D$ stall than before.                                         *)
LEMMA BackedStays ==
    ASSUME NoWrapAssumption, Credited, [Next]_vars
    PROVE  Backed'
  <1>1. Typed'
    BY NextTyped DEF Credited, Streamed
  <1>2. CASE EnsureThrough \/ Replay
    BY <1>2, BackedAfterFetch
  <1>3. CASE ExecuteMemory
    BY <1>3, BackedAfterAccess
  <1>4. CASE StoreDone
    BY <1>4, BackedAfterStore
  <1>5. CASE ~(EnsureThrough \/ Replay \/ ExecuteMemory \/ StoreDone)
    <2>1. UNCHANGED <<machine, icache, dcache, overlap, ifstallReplays, owed>>
      BY <1>5 DEF Next, StepThrows, BeginStep, ExecuteAlu, ExecuteFault, ExecuteJump,
                  ExecuteTakenBranch, ExecuteUntakenBranch, ExecuteSystem, LoadDone,
                  StoreThrows, RedirectDone, DrainDone, Retire, credit, vars
    <2>2. cur'.dstall = 0 \/ cur'.dstall = cur.dstall
      <3>1. CASE \/ StepThrows \/ StoreThrows \/ UNCHANGED vars
        BY <3>1 DEF StepThrows, StoreThrows, vars
      <3>2. CASE ExecuteFault
        BY <3>2, CallReturnedFields DEF ExecuteFault, Credited, Streamed, Typed, TypeOK
      <3>3. CASE \/ BeginStep \/ ExecuteAlu \/ ExecuteJump \/ ExecuteTakenBranch
                 \/ ExecuteUntakenBranch \/ ExecuteSystem \/ LoadDone \/ RedirectDone
                 \/ DrainDone
        <4>1. at' \in {"fetch", "redirect", "drain", "retire"}
          BY <3>3 DEF BeginStep, ExecuteAlu, ExecuteJump, ExecuteTakenBranch,
                      ExecuteUntakenBranch, ExecuteSystem, LoadDone, RedirectDone,
                      DrainDone
        <4> QED
          BY <1>1, <4>1 DEF Typed, LocalsInPlace
      <3>4. CASE Retire
        BY <3>4 DEF Retire, NoStep
      <3> QED
        BY <1>5, <3>1, <3>2, <3>3, <3>4 DEF Next
    <2>3. /\ overlap \in Nat /\ ifstallReplays \in Nat /\ cur.dstall \in Nat
          /\ dcache.stats.stall \in Nat
      BY StateFacts DEF Credited, Streamed, Typed, TypeOK, CacheStats
    <2> QED
      BY <2>1, <2>2, <2>3 DEF Credited, Backed, Icfg
  <1> QED
    BY <1>2, <1>3, <1>4, <1>5

(* Reset owes nothing.                                                     *)
LEMMA InitCredited == Init => Credited
  <1> SUFFICES ASSUME Init PROVE Credited
    OBVIOUS
  <1>1. Streamed /\ Balanced
    BY InitStreamed, InitBalanced
  <1>2. icache.stats = ZeroCacheStats /\ dcache.stats = ZeroCacheStats
    <2>1. Icfg \in CacheConfig /\ Dcfg \in CacheConfig
      BY <1>1, StateFacts DEF Streamed, Typed
    <2> QED
      BY <2>1, ResetCacheType DEF Init
  <1>3. OwedInPlace /\ Backed
    BY <1>2 DEF Init, OwedInPlace, Backed, ZeroCacheStats, NoStep
  <1> QED
    BY <1>1, <1>3 DEF Credited, Balanced

(* Every step keeps the credit backed.                                     *)
LEMMA NextCredited ==
    ASSUME NoWrapAssumption, Balanced, Credited, [Next]_vars
    PROVE  Credited'
  <1>1. HeldWordHits'
    BY NextBalanced DEF Balanced
  <1> QED
    BY <1>1, NextStreamed, OwedStays, BackedStays DEF Credited

(* Every overlap credit is earned: the next request of the stream is the   *)
(* fetch it was given for, with no wrong-path request before it, and that  *)
(* fetch misses.                                                           *)
THEOREM EveryCreditIsEarned ==
    NoWrapAssumption => (Spec => CreditsEarned)
  <1> SUFFICES ASSUME NoWrapAssumption PROVE Spec => CreditsEarned
    OBVIOUS
  <1> DEFINE IInv == Balanced /\ Credited
  <1>1. Init => IInv
    BY InitBalanced, InitCredited
  <1>2. IInv /\ [Next]_vars => IInv'
    BY NextBalanced, NextCredited
  <1>3. IInv /\ [Next]_vars => [CreditEarned]_vars
    <2> SUFFICES ASSUME IInv, [Next]_vars, owed # {},
                        icache'.stats.accesses # icache.stats.accesses
                 PROVE  /\ icache'.stats.misses = icache.stats.misses + 1
                        /\ \A target \in owed : Resident(Icfg, icache', target)
                        /\ at = "fetch" /\ owed = {cur.pc}
      BY DEF CreditEarned
    <2>1. EnsureThrough \/ Replay
      BY DEF Next, StepThrows, BeginStep, ExecuteAlu, ExecuteFault, ExecuteJump,
             ExecuteTakenBranch, ExecuteUntakenBranch, ExecuteMemory, ExecuteSystem,
             LoadDone, StoreThrows, StoreDone, RedirectDone, DrainDone, Retire, vars
    <2>2. /\ EnsureThrough /\ at = "fetch" /\ owed = {cur.pc} /\ ifetch.next = cur.pc
          /\ ~Resident(Icfg, icache, cur.pc)
      BY <2>1, DebtIsPaid DEF Credited
    <2>3. /\ icache' = AfterAccess(Icfg, icache, cur.pc, FALSE)
          /\ Resident(Icfg, icache', cur.pc) /\ Icfg.enabled
      BY <2>2, AfterEnsureThrough DEF Credited
    <2>4. /\ Icfg \in CacheConfig /\ icache \in CacheType(Icfg) /\ cur.pc \in Nat
          /\ FALSE \in BOOLEAN
      BY StateFacts, TargetNearPc DEF Credited, Streamed, Typed, TypeOK
    <2>5. icache'.stats.misses = icache.stats.misses + 1
      BY <2>2, <2>3, <2>4, AccessCounts
    <2> QED
      BY <2>2, <2>3, <2>5
  <1> QED
    BY <1>1, <1>2, <1>3, PTL DEF Spec, CreditsEarned

(* The cycles taken off the total as overlap are backed by stalls of both  *)
(* caches, the D$ stalls with one cycle to spare per credit.               *)
THEOREM OverlapIsBacked ==
    NoWrapAssumption => (Spec => []OverlapBacked)
  <1> SUFFICES ASSUME NoWrapAssumption PROVE Spec => []OverlapBacked
    OBVIOUS
  <1> DEFINE IInv == Balanced /\ Credited
  <1>1. Init => IInv
    BY InitBalanced, InitCredited
  <1>2. IInv /\ [Next]_vars => IInv'
    BY NextBalanced, NextCredited
  <1>3. IInv => OverlapBacked
    BY DEF Credited, Backed, OverlapBacked
  <1> QED
    BY <1>1, <1>2, <1>3, PTL DEF Spec

-----------------------------------------------------------------------------
(* The published counters *)

(* Replays the D$ hold in progress has made.                               *)
Replayed == IF at = "mem" /\ Icfg.enabled THEN cur.dstall - cur.left ELSE 0

(* What was published last is no more than publishing now would show, also *)
(* for the two counters the hold replays are added to: those may shrink by *)
(* the credit of a store, but only after as many replays were made.        *)
NeverAhead ==
    /\ stats["iAccesses"] + Replayed <= icache.stats.accesses + HoldReplays(timing)
    /\ stats["iHits"] + Replayed <= icache.stats.hits + HoldReplays(timing)
    /\ stats["iMisses"] <= icache.stats.misses
    /\ stats["dAccesses"] <= dcache.stats.accesses
    /\ stats["icacheStall"] <= icache.stats.stall
    /\ stats["dcacheStall"] <= dcache.stats.stall
    /\ stats["overlap"] <= overlap
    /\ stats["axiReads"] <= icache.stats.reads + dcache.stats.reads
    /\ stats["axiWrites"] <= dcache.stats.writes

(* The counters compared are natural numbers.                              *)
LEMMA CountersAreNat ==
    ASSUME Streamed
    PROVE  /\ icache.stats.accesses \in Nat /\ icache.stats.hits \in Nat
           /\ icache.stats.misses \in Nat /\ icache.stats.reads \in Nat
           /\ icache.stats.stall \in Nat
           /\ dcache.stats.accesses \in Nat /\ dcache.stats.reads \in Nat
           /\ dcache.stats.writes \in Nat /\ dcache.stats.stall \in Nat
           /\ overlap \in Nat /\ HoldReplays(timing) \in Nat /\ Replayed \in Nat
           /\ \A f \in StatsFields : stats[f] \in Nat
  <1>1. /\ icache.stats \in CacheStats /\ dcache.stats \in CacheStats
        /\ overlap \in Nat /\ timing \in TimingType
        /\ stats \in [StatsFields -> Nat]
    BY StateFacts DEF Streamed, Typed, TypeOK
  <1>2. HoldReplays(timing) \in Nat
    BY <1>1, HoldReplaysIsNat
  <1>3. Replayed \in Nat
    <2>1. cur.left \in Nat /\ cur.dstall \in Nat
      BY StateFacts DEF Streamed, Typed
    <2> QED
      BY <2>1 DEF Replayed, Streamed, ReplaysInPlace
  <1> QED
    BY <1>1, <1>2, <1>3 DEF CacheStats

(* The fields the proofs below read are fields of the statistics.          *)
LEMMA GrowingFields ==
    /\ Growing \subseteq StatsFields
    /\ "iHits" \in StatsFields
  BY DEF Growing, StatsFields

(* A request of the stream that is no replay only adds to the I$ counters. *)
LEMMA NeverAheadAfterEnsure ==
    ASSUME NoWrapAssumption, Streamed, NeverAhead, EnsureThrough
    PROVE  NeverAhead'
  <1> DEFINE s == icache.stats
             t == icache'.stats
  <1>1. /\ icache' = AfterAccess(Icfg, icache, ifetch.next, FALSE)
        /\ cur'.left = cur.left /\ cur'.dstall = cur.dstall
        /\ machine' = machine /\ at' = at
    BY AfterEnsureThrough
  <1>2. UNCHANGED <<dcache, overlap, timing, stats>>
    BY DEF EnsureThrough, credit, output
  <1>3. /\ t.accesses >= s.accesses /\ t.hits >= s.hits /\ t.misses >= s.misses
        /\ t.reads >= s.reads /\ t.stall >= s.stall
    <2>1. /\ Icfg \in CacheConfig /\ icache \in CacheType(Icfg)
          /\ ifetch.next \in Nat /\ FALSE \in BOOLEAN
      BY StateFacts, TargetNearPc DEF Streamed, Typed, TypeOK
    <2> QED
      BY <1>1, <2>1, AccessCounts
  <1>4. Replayed' = Replayed /\ HoldReplays(timing)' = HoldReplays(timing)
    BY <1>1, <1>2 DEF Replayed, HoldReplays, Icfg
  <1>5. Streamed'
    BY NextStreamed DEF Next
  <1>6. /\ t.accesses \in Nat /\ t.hits \in Nat /\ t.misses \in Nat
        /\ t.reads \in Nat /\ t.stall \in Nat
    BY <1>5, CountersAreNat DEF Streamed, Typed, TypeOK, CacheType, CacheStats
  <1>7. /\ \A f \in Growing : stats[f] \in Nat
        /\ stats["iHits"] \in Nat
        /\ s.accesses \in Nat /\ s.hits \in Nat /\ s.misses \in Nat
        /\ s.reads \in Nat /\ s.stall \in Nat /\ dcache.stats.reads \in Nat
        /\ Replayed \in Nat /\ HoldReplays(timing) \in Nat
    BY CountersAreNat, GrowingFields
  <1>8. /\ stats["iAccesses"] \in Nat /\ stats["iMisses"] \in Nat
        /\ stats["icacheStall"] \in Nat /\ stats["axiReads"] \in Nat
    BY <1>7 DEF Growing
  <1> HIDE DEF s, t
  <1>9. /\ stats["iAccesses"] + Replayed <= t.accesses + HoldReplays(timing)
        /\ stats["iHits"] + Replayed <= t.hits + HoldReplays(timing)
        /\ stats["iMisses"] <= t.misses
        /\ stats["icacheStall"] <= t.stall
        /\ stats["axiReads"] <= t.reads + dcache.stats.reads
    BY <1>3, <1>6, <1>7, <1>8 DEF NeverAhead, s
  <1> QED
    BY <1>2, <1>4, <1>9 DEF NeverAhead, t

(* A replay adds one access and one hit, for the cycle it takes off what   *)
(* is left of the hold.                                                    *)
LEMMA NeverAheadAfterReplay ==
    ASSUME NoWrapAssumption, Streamed, NeverAhead, Replay
    PROVE  NeverAhead'
  <1> DEFINE s == icache.stats
             t == icache'.stats
  <1>1. /\ icache' = AfterAccess(Icfg, icache, FetchTarget, FALSE)
        /\ Icfg.enabled /\ Resident(Icfg, icache, FetchTarget)
        /\ cur'.left = cur.left - 1 /\ cur'.dstall = cur.dstall
        /\ machine' = machine /\ at' = at
    BY AfterReplay
  <1>2. UNCHANGED <<dcache, overlap, timing, stats>>
    BY DEF Replay, credit, output
  <1>3. /\ t.accesses = s.accesses + 1 /\ t.hits = s.hits + 1 /\ t.misses = s.misses
        /\ t.reads = s.reads /\ t.stall = s.stall
    <2>1. /\ Icfg \in CacheConfig /\ icache \in CacheType(Icfg)
          /\ FetchTarget \in Nat /\ FALSE \in BOOLEAN
      BY StateFacts, WordsAreNat DEF Streamed, Typed, TypeOK
    <2> QED
      BY <1>1, <2>1, AccessCounts
  <1>4. HoldReplays(timing)' = HoldReplays(timing)
    BY <1>1, <1>2 DEF HoldReplays, Icfg
  <1>5. Replayed' = Replayed \/ Replayed' = Replayed + 1
    <2>1. cur.left \in Nat /\ cur.dstall \in Nat
      BY StateFacts DEF Streamed, Typed
    <2> QED
      BY <1>1, <2>1 DEF Replayed, Icfg
  <1>6. /\ stats["iAccesses"] \in Nat /\ stats["iHits"] \in Nat
        /\ s.accesses \in Nat /\ s.hits \in Nat
        /\ Replayed \in Nat /\ HoldReplays(timing) \in Nat
    BY CountersAreNat, GrowingFields DEF Growing
  <1> HIDE DEF s, t
  <1>7. /\ stats["iAccesses"] + Replayed' <= t.accesses + HoldReplays(timing)
        /\ stats["iHits"] + Replayed' <= t.hits + HoldReplays(timing)
    BY <1>3, <1>5, <1>6 DEF NeverAhead, s
  <1> QED
    BY <1>2, <1>3, <1>4, <1>7 DEF NeverAhead, s, t

(* A data access only adds to the D$ counters, and no replay of its hold   *)
(* has been made yet.                                                      *)
LEMMA NeverAheadAfterAccess ==
    ASSUME Streamed, NeverAhead, ExecuteMemory
    PROVE  NeverAhead'
  <1> DEFINE addr == DataAddr(Insn)
             write == Insn.op = "STORE"
             stall == AccessStall(Dcfg, dcache, addr)
             s == dcache.stats
             t == dcache'.stats
  <1>1. /\ dcache' = AfterAccess(Dcfg, dcache, addr, write)
        /\ UNCHANGED <<machine, icache, overlap, timing, stats>>
        /\ at = "fetch" /\ at' = "mem"
    BY DEF ExecuteMemory, Decoding, credit, output
  <1>2. /\ t.accesses >= s.accesses /\ t.reads >= s.reads
        /\ t.writes >= s.writes /\ t.stall >= s.stall
    <2>1. /\ Dcfg \in CacheConfig /\ dcache \in CacheType(Dcfg)
          /\ addr \in Nat /\ write \in BOOLEAN
      BY StateFacts, TargetInWord, WordsAreNat DEF Streamed, Typed, TypeOK
    <2> QED
      BY <1>1, <2>1, AccessCounts
  <1>3. Replayed' = 0 /\ Replayed = 0
    <2>1. CallReturned \in StepType
      BY CallReturnedFields DEF Streamed, Typed, TypeOK
    <2>2. cur' = [CallReturned EXCEPT !.dstall = stall,
                                      !.left = IF Icfg.enabled THEN stall ELSE 0]
      BY DEF ExecuteMemory
    <2>3. stall \in Nat
      BY StateFacts, StallIsNat DEF Streamed, Typed
    <2> HIDE DEF stall
    <2>4. Icfg.enabled => cur'.dstall = stall /\ cur'.left = stall
      BY <2>1, <2>2 DEF StepType
    <2> QED
      BY <1>1, <2>3, <2>4 DEF Replayed, Icfg
  <1>4. HoldReplays(timing)' = HoldReplays(timing)
    BY <1>1 DEF HoldReplays, Icfg
  <1>5. /\ stats["dAccesses"] \in Nat /\ stats["dcacheStall"] \in Nat
        /\ stats["axiReads"] \in Nat /\ stats["axiWrites"] \in Nat
        /\ s.accesses \in Nat /\ s.reads \in Nat /\ s.writes \in Nat /\ s.stall \in Nat
        /\ icache.stats.reads \in Nat
    BY CountersAreNat, GrowingFields DEF Growing
  <1>6. /\ t.accesses \in Nat /\ t.reads \in Nat /\ t.writes \in Nat /\ t.stall \in Nat
    <2>1. Typed'
      BY NextTyped DEF Streamed, Next
    <2> QED
      BY <2>1 DEF Typed, TypeOK, CacheType, CacheStats
  <1> HIDE DEF s, t
  <1>7. /\ stats["dAccesses"] <= t.accesses
        /\ stats["dcacheStall"] <= t.stall
        /\ stats["axiReads"] <= icache.stats.reads + t.reads
        /\ stats["axiWrites"] <= t.writes
    BY <1>2, <1>5, <1>6 DEF NeverAhead, s
  <1> QED
    BY <1>1, <1>3, <1>4, <1>7 DEF NeverAhead, t

(* The hold of a load or store that is over has replayed once a cycle, so  *)
(* the credit of a store takes off no more than was replayed.              *)
LEMMA NeverAheadAfterMemory ==
    ASSUME NoWrapAssumption, Streamed, NeverAhead, LoadDone \/ StoreDone
    PROVE  NeverAhead'
  <1> DEFINE given == IF StoreDone THEN Given ELSE 0
             before == HoldReplays(timing)
             after == HoldReplays(timing)'
  <1>1. /\ MemoryDone /\ at' = "retire" /\ at = "mem"
        /\ UNCHANGED <<machine, icache, timing, stats>>
    BY DEF LoadDone, StoreDone, MemoryDone, output
  <1>2. given \in Nat /\ overlap' = overlap + given
    <2>1. CASE StoreDone
      BY <2>1, StoreDoneFacts DEF Streamed
    <2>2. CASE ~StoreDone
      <3>1. overlap' = overlap /\ overlap \in Nat
        BY <2>2, LedgerTerms DEF LoadDone, credit, Streamed
      <3> QED
        BY <2>2, <3>1
    <2> QED
      BY <2>1, <2>2
  <1>3. given <= Replayed
    <2>1. CASE StoreDone /\ Icfg.enabled
      <3>1. Given <= cur.dstall /\ cur.left = 0 /\ cur.dstall \in Nat
        BY <1>1, <2>1, StoreDoneFacts, MemoryDoneFacts, StateFacts DEF Streamed, Typed
      <3> QED
        BY <1>1, <2>1, <3>1 DEF Replayed
    <2>2. CASE ~(StoreDone /\ Icfg.enabled)
      <3>1. given = 0
        BY <2>2 DEF Given, OverlapCredit
      <3> QED
        BY <3>1, CountersAreNat
    <2> QED
      BY <2>1, <2>2
  <1>4. before <= after + given /\ before \in Nat /\ after \in Nat
    <2>1. timing.loadUse + timing.divider \in Nat /\ overlap \in Nat
      BY DEF Streamed, Typed, TypeOK, TimingType
    <2> DEFINE holds == timing.loadUse + timing.divider
    <2>2. /\ before = IF ~Icfg.enabled \/ overlap >= holds THEN 0 ELSE holds - overlap
          /\ after = IF ~Icfg.enabled \/ overlap + given >= holds THEN 0
                     ELSE holds - (overlap + given)
      BY <1>1, <1>2 DEF HoldReplays, Icfg
    <2> HIDE DEF holds, given, before, after
    <2> QED
      BY <1>2, <2>1, <2>2 DEF holds
  <1>5. Replayed' = 0
    BY <1>1 DEF Replayed
  <1>6. /\ dcache'.stats.accesses >= dcache.stats.accesses
        /\ dcache'.stats.reads >= dcache.stats.reads
        /\ dcache'.stats.writes >= dcache.stats.writes
        /\ dcache'.stats.stall >= dcache.stats.stall
    <2>1. CASE dcache' = dcache
      BY <2>1, CountersAreNat
    <2>2. CASE dcache' # dcache
      <3>1. dcache' = AfterAccess(Dcfg, dcache, DataAddr(Insn), TRUE)
        BY <2>2, StoreDoneFacts DEF LoadDone, Streamed
      <3>2. /\ Dcfg \in CacheConfig /\ dcache \in CacheType(Dcfg)
            /\ DataAddr(Insn) \in Nat
        BY StateFacts, TargetInWord, WordsAreNat DEF Streamed, Typed, TypeOK
      <3>3. \E write \in BOOLEAN : write = TRUE
        OBVIOUS
      <3> QED
        BY <3>1, <3>2, <3>3, AccessCounts
    <2> QED
      BY <2>1, <2>2
  <1>7. /\ \A f \in {"iAccesses", "iHits", "dAccesses", "dcacheStall", "overlap",
                     "axiReads", "axiWrites"} : stats[f] \in Nat
        /\ icache.stats.accesses \in Nat /\ icache.stats.hits \in Nat
        /\ icache.stats.reads \in Nat /\ overlap \in Nat /\ Replayed \in Nat
        /\ dcache.stats.accesses \in Nat /\ dcache.stats.reads \in Nat
        /\ dcache.stats.writes \in Nat /\ dcache.stats.stall \in Nat
    BY CountersAreNat, GrowingFields DEF Growing
  <1>8. /\ dcache'.stats.accesses \in Nat /\ dcache'.stats.reads \in Nat
        /\ dcache'.stats.writes \in Nat /\ dcache'.stats.stall \in Nat
    <2>1. Typed'
      BY NextTyped DEF Streamed, Next
    <2> QED
      BY <2>1 DEF Typed, TypeOK, CacheType, CacheStats
  <1> HIDE DEF given, before, after
  <1>9. /\ stats["iAccesses"] + 0 <= icache.stats.accesses + after
        /\ stats["iHits"] + 0 <= icache.stats.hits + after
    <2>1. /\ stats["iAccesses"] + Replayed <= icache.stats.accesses + before
          /\ stats["iHits"] + Replayed <= icache.stats.hits + before
      BY DEF NeverAhead, before
    <2> QED
      BY <1>2, <1>3, <1>4, <1>7, <2>1
  <1>10. /\ stats["dAccesses"] <= dcache'.stats.accesses
         /\ stats["dcacheStall"] <= dcache'.stats.stall
         /\ stats["overlap"] <= overlap'
         /\ stats["axiReads"] <= icache.stats.reads + dcache'.stats.reads
         /\ stats["axiWrites"] <= dcache'.stats.writes
    BY <1>2, <1>6, <1>7, <1>8 DEF NeverAhead
  <1> QED
    BY <1>1, <1>5, <1>9, <1>10 DEF NeverAhead, after

(* Retiring publishes what the components have counted, and more holds     *)
(* replay more.                                                            *)
LEMMA RetirementGrows ==
    ASSUME Traced, Streamed, NeverAhead, Retire
    PROVE  NeverAhead' /\ \A f \in Growing : stats'[f] >= stats[f]
  <1> DEFINE before == HoldReplays(timing)
             after == HoldReplays(timing')
  <1>1. /\ timing' \in TimingType
        /\ timing'.loadUse >= timing.loadUse /\ timing'.divider >= timing.divider
        /\ timing.loadUse \in Nat /\ timing.divider \in Nat
    <2>1. /\ Held \in TimingType /\ Timed(Insn) /\ cur.taken \in BOOLEAN
          /\ Held.loadUse = timing.loadUse /\ Held.divider = timing.divider
      BY HeldFacts DEF Streamed
    <2>2. LoadUseStall(Held, Insn) \in Nat /\ DividerStall(Held, Insn) \in Nat
      BY <2>1, PenaltiesAreNat
    <2>3. /\ timing' \in TimingType
          /\ timing'.loadUse = timing.loadUse + LoadUseStall(Held, Insn)
          /\ timing'.divider = timing.divider + DividerStall(Held, Insn)
      BY <2>1, AfterRetireFields DEF Retire
    <2>4. timing.loadUse \in Nat /\ timing.divider \in Nat
      BY DEF Streamed, Typed, TypeOK, TimingType
    <2> QED
      BY <2>2, <2>3, <2>4
  <1>2. after >= before /\ before \in Nat /\ after \in Nat
    <2>1. overlap \in Nat /\ timing'.loadUse \in Nat /\ timing'.divider \in Nat
      BY <1>1 DEF Streamed, Typed, TypeOK, TimingType
    <2> DEFINE h == timing.loadUse + timing.divider
               k == timing'.loadUse + timing'.divider
    <2>2. h \in Nat /\ k \in Nat /\ h <= k
      BY <1>1, <2>1
    <2>3. /\ before = IF ~Icfg.enabled \/ overlap >= h THEN 0 ELSE h - overlap
          /\ after = IF ~Icfg.enabled \/ overlap >= k THEN 0 ELSE k - overlap
      BY DEF HoldReplays
    <2> HIDE DEF h, k, before, after
    <2> QED
      BY <2>1, <2>2, <2>3
  <1>3. /\ UNCHANGED <<machine, icache, dcache, overlap>> /\ at' = "idle" /\ at = "retire"
        /\ stats' = Published(timing')
    BY DEF Retire, credit
  <1>4. /\ icache.stats \in CacheStats /\ dcache.stats \in CacheStats
        /\ overlap \in Nat /\ ifstallReplays \in Nat
    BY StateFacts DEF Streamed, Typed, TypeOK
  <1>5. /\ stats'["iAccesses"] = icache.stats.accesses + after
        /\ stats'["iHits"] = icache.stats.hits + after
        /\ stats'["iMisses"] = icache.stats.misses
        /\ stats'["dAccesses"] = dcache.stats.accesses
        /\ stats'["icacheStall"] = icache.stats.stall
        /\ stats'["dcacheStall"] = dcache.stats.stall
        /\ stats'["overlap"] = overlap
        /\ stats'["axiReads"] = icache.stats.reads + dcache.stats.reads
        /\ stats'["axiWrites"] = dcache.stats.writes
    BY <1>1, <1>3, <1>4, PublishedFields
  <1>6. Replayed = 0 /\ Replayed' = 0 /\ HoldReplays(timing)' = after
    BY <1>3 DEF Replayed, HoldReplays, Icfg
  <1>7. /\ icache.stats.accesses \in Nat /\ icache.stats.hits \in Nat
        /\ icache.stats.misses \in Nat /\ icache.stats.reads \in Nat
        /\ icache.stats.stall \in Nat
        /\ dcache.stats.accesses \in Nat /\ dcache.stats.reads \in Nat
        /\ dcache.stats.writes \in Nat /\ dcache.stats.stall \in Nat
        /\ overlap \in Nat
        /\ \A f \in StatsFields : stats[f] \in Nat
    BY CountersAreNat
  <1>8. stats'["retired"] >= stats["retired"] /\ stats'["cycles"] >= stats["cycles"]
    <2>1. /\ stats["retired"] = timing.retired /\ stats["cycles"] = timing.total
          /\ event.retired = timing.retired
      BY DEF Traced, TraceTied
    <2>2. /\ stats'["retired"] = timing'.retired /\ stats'["cycles"] = timing'.total
          /\ event'.retired = timing'.retired
      BY RetirementTraced DEF TraceTied
    <2>3. timing'.total >= timing.total /\ timing'.retired = timing.retired + 1
      BY <2>1, <2>2, RetirementTraced
    <2>4. timing.retired \in Nat
      BY DEF Streamed, Typed, TypeOK, TimingType
    <2> QED
      BY <2>1, <2>2, <2>3, <2>4
  <1> HIDE DEF before, after
  <1>9. NeverAhead'
    BY <1>2, <1>3, <1>5, <1>6, <1>7 DEF NeverAhead
  <1>10. /\ stats'["iAccesses"] >= stats["iAccesses"] /\ stats'["iMisses"] >= stats["iMisses"]
         /\ stats'["dAccesses"] >= stats["dAccesses"]
         /\ stats'["icacheStall"] >= stats["icacheStall"]
         /\ stats'["dcacheStall"] >= stats["dcacheStall"]
         /\ stats'["overlap"] >= stats["overlap"]
         /\ stats'["axiReads"] >= stats["axiReads"]
         /\ stats'["axiWrites"] >= stats["axiWrites"]
         /\ stats'["iHits"] >= stats["iHits"]
    <2>1. /\ stats["iAccesses"] + 0 <= icache.stats.accesses + before
          /\ stats["iHits"] + 0 <= icache.stats.hits + before
          /\ stats["iMisses"] <= icache.stats.misses
          /\ stats["dAccesses"] <= dcache.stats.accesses
          /\ stats["icacheStall"] <= icache.stats.stall
          /\ stats["dcacheStall"] <= dcache.stats.stall
          /\ stats["overlap"] <= overlap
          /\ stats["axiReads"] <= icache.stats.reads + dcache.stats.reads
          /\ stats["axiWrites"] <= dcache.stats.writes
      BY <1>6 DEF NeverAhead, before
    <2>2. \A f \in {"iAccesses", "iHits"} : stats[f] \in Nat
      BY <1>7 DEF StatsFields
    <2> QED
      BY <1>2, <1>5, <1>7, <2>1, <2>2
  <1>11. \A f \in Growing : stats'[f] >= stats[f]
    BY <1>8, <1>10 DEF Growing
  <1> QED
    BY <1>9, <1>11

(* The other steps leave the caches, the overlap and the timing alone, and *)
(* the hold counts no replay outside a data access.                        *)
LEMMA NeverAheadStays ==
    ASSUME NoWrapAssumption, Traced, Streamed, NeverAhead, [Next]_vars
    PROVE  NeverAhead'
  <1>1. CASE EnsureThrough
    BY <1>1, NeverAheadAfterEnsure
  <1>2. CASE Replay
    BY <1>2, NeverAheadAfterReplay
  <1>3. CASE ExecuteMemory
    BY <1>3, NeverAheadAfterAccess
  <1>4. CASE LoadDone \/ StoreDone
    BY <1>4, NeverAheadAfterMemory
  <1>5. CASE Retire
    BY <1>5, RetirementGrows
  <1>6. CASE UNCHANGED vars
    BY <1>6 DEF NeverAhead, Replayed, HoldReplays, Icfg, vars
  <1>7. CASE /\ Next
             /\ ~(EnsureThrough \/ Replay \/ ExecuteMemory \/ LoadDone \/ StoreDone)
             /\ ~Retire
    <2>1. UNCHANGED <<machine, icache, dcache, overlap, timing, stats>> /\ at' # "mem"
      BY <1>7 DEF Next, StepThrows, BeginStep, ExecuteAlu, ExecuteFault, ExecuteJump,
                  ExecuteTakenBranch, ExecuteUntakenBranch, ExecuteSystem, StoreThrows,
                  RedirectDone, DrainDone, credit, output
    <2>2. HoldReplays(timing)' = HoldReplays(timing) /\ Replayed' = 0
      BY <2>1 DEF HoldReplays, Icfg, Replayed
    <2>3. /\ stats["iAccesses"] + 0 <= icache.stats.accesses + HoldReplays(timing)
          /\ stats["iHits"] + 0 <= icache.stats.hits + HoldReplays(timing)
      <3>1. /\ icache.stats.accesses \in Nat /\ icache.stats.hits \in Nat
            /\ HoldReplays(timing) \in Nat /\ Replayed \in Nat
            /\ \A f \in {"iAccesses", "iHits"} : stats[f] \in Nat
        BY CountersAreNat DEF StatsFields
      <3> QED
        BY <3>1 DEF NeverAhead
    <2> QED
      BY <2>1, <2>2, <2>3 DEF NeverAhead
  <1> QED
    BY <1>1, <1>2, <1>3, <1>4, <1>5, <1>6, <1>7

(* No counter a reader samples after each step ever goes backwards, not    *)
(* even the I$ hits, to which replays that later shrink are added.         *)
THEOREM CountersNeverShrink ==
    NoWrapAssumption => (Spec => CountersGrow)
  <1> SUFFICES ASSUME NoWrapAssumption PROVE Spec => CountersGrow
    OBVIOUS
  <1> DEFINE IInv == Traced /\ Streamed /\ NeverAhead
  <1>1. Init => IInv
    <2> SUFFICES ASSUME Init PROVE IInv
      OBVIOUS
    <2>1. Traced /\ Streamed
      BY InitTraced, InitStreamed
    <2>2. icache.stats = ZeroCacheStats /\ dcache.stats = ZeroCacheStats
      <3>1. Icfg \in CacheConfig /\ Dcfg \in CacheConfig
        BY <2>1, StateFacts DEF Streamed, Typed
      <3> QED
        BY <3>1, ResetCacheType DEF Init
    <2>3. HoldReplays(timing) \in Nat
      BY <2>1, CountersAreNat
    <2>4. NeverAhead
      BY <2>2, <2>3 DEF Init, NeverAhead, Replayed, ZeroCacheStats, StatsFields
    <2> QED
      BY <2>1, <2>4
  <1>2. IInv /\ [Next]_vars => IInv'
    BY NextTraced, NextStreamed, NeverAheadStays
  <1>3. IInv /\ [Next]_vars => [\A f \in Growing : stats'[f] >= stats[f]]_vars
    <2> SUFFICES ASSUME IInv, [Next]_vars
                 PROVE  \A f \in Growing : stats'[f] >= stats[f]
      OBVIOUS
    <2>1. CASE Retire
      BY <2>1, RetirementGrows
    <2>2. CASE ~Retire
      <3>1. stats' = stats
        BY <2>2, OnlyRetirePublishes
      <3>2. \A f \in Growing : stats[f] \in Nat
        BY CountersAreNat, GrowingFields
      <3> QED
        BY <3>1, <3>2
    <2> QED
      BY <2>1, <2>2
  <1> QED
    BY <1>1, <1>2, <1>3, PTL DEF Spec, CountersGrow

-----------------------------------------------------------------------------
(* The top of the address space *)

(* The stream and the PC it fetches for stay on the same byte of a word,   *)
(* and an instruction that has passed the checks of step() is aligned.     *)
Aligned ==
    /\ at \in {"fetch", "mem", "redirect", "drain"} =>
          cur.pc % 4 = 0 /\ ifetch.next % 4 = 0
    /\ at \in {"idle", "retire"} => ifetch.next % 4 = pc % 4
    /\ at \in {"fetch", "mem"} => pc = cur.pc
    /\ at = "drain" => pc = Plus(cur.pc, 4)
    /\ at = "redirect" => pc = cur.next

(* Adding words to an address keeps its place in a word, wrapping or not.  *)
LEMMA PlusKeepsAlignment ==
    ASSUME NEW a \in Nat, NEW k \in Nat, k % 4 = 0
    PROVE  Plus(a, k) \in Nat /\ Plus(a, k) % 4 = a % 4
  <1>1. Modulus \in Nat \ {0}
    BY WordRange
  <1>2. PICK c \in Nat : Modulus = 4 * c
    <2>1. 1 \in Positions
      BY CpuAssumption, WordAssumption DEF CpuAssumption, Positions
    <2>2. PICK d \in Nat \ {0} : Modulus = Pow2[1] * (2 * d)
      BY <2>1, WeightDividesWord
    <2>3. Pow2[1] = 2
      <3>1. Pow2[0 + 1] = 2 * Pow2[0] /\ Pow2[0] = 1
        BY PowersOfTwo
      <3> QED
        BY <3>1
    <2> QED
      BY <2>2, <2>3
  <1> DEFINE q == (a + k) \div Modulus
             r == (a + k) % Modulus
  <1>3. a + k = Modulus * q + r /\ q \in Int /\ r \in Nat
    BY <1>1
  <1> HIDE DEF q, r
  <1>4. PICK m \in Int : m = c * q
    BY <1>2, <1>3
  <1>5. a + k = 4 * m + r
    <2>1. Modulus * q = 4 * (c * q)
      BY <1>2, <1>3
    <2> QED
      BY <1>3, <1>4, <2>1
  <1>6. r % 4 = (a + k) % 4
    BY <1>3, <1>4, <1>5
  <1>7. (a + k) % 4 = a % 4
    OBVIOUS
  <1> QED
    BY <1>3, <1>6, <1>7 DEF Plus, Cut, r

(* Every step keeps the alignment.                                         *)
LEMMA NextAligned ==
    ASSUME Typed, Aligned, [Next]_vars
    PROVE  Aligned'
  <1>1. /\ cur.pc \in Nat /\ pc \in Nat /\ ifetch.next \in Nat /\ cur \in StepType
        /\ ifetch \in FetchType /\ CallReturned \in StepType /\ CallReturned.pc = cur.pc
    BY StateFacts, FetchFields, WordsAreNat, CallReturnedFields DEF Typed, TypeOK
  <1>2. /\ Plus(cur.pc, 4) % 4 = cur.pc % 4
        /\ Plus(ifetch.next, 4) % 4 = ifetch.next % 4
    <2>1. 4 \in Nat /\ 4 % 4 = 0
      OBVIOUS
    <2> QED
      BY <1>1, <2>1, PlusKeepsAlignment
  <1>3. CASE UNCHANGED vars
    BY <1>3 DEF Aligned, vars
  <1>4. CASE EnsureThrough \/ Replay
    <2>1. /\ ifetch'.next \in {ifetch.next, Plus(ifetch.next, 4)}
          /\ cur'.pc = cur.pc /\ cur'.next = cur.next
          /\ at' = at /\ pc' = pc /\ at \in {"fetch", "mem", "redirect", "drain"}
      BY <1>1, <1>4
         DEF EnsureThrough, Replay, Streaming, arch, StepType, FetchType
    <2> QED
      BY <1>2, <2>1 DEF Aligned
  <1>5. CASE BeginStep
    <2>1. pc % 4 = 0
      BY <1>5 DEF BeginStep, StartFault
    <2>2. /\ at = "idle" /\ at' = "fetch" /\ pc' = pc /\ cur'.pc = pc
          /\ ifetch' = ifetch
      BY <1>5 DEF BeginStep, NoStep, arch
    <2> QED
      BY <2>1, <2>2 DEF Aligned
  <1>6. CASE ExecuteAlu \/ ExecuteUntakenBranch
    <2>1. at = "fetch" /\ at' = "retire" /\ pc' = Plus(cur.pc, 4) /\ ifetch' = ifetch
      BY <1>6 DEF ExecuteAlu, ExecuteUntakenBranch, Decoding
    <2> QED
      BY <1>2, <2>1 DEF Aligned
  <1>7. CASE ExecuteJump \/ ExecuteTakenBranch
    <2>1. /\ at = "fetch" /\ at' = "redirect" /\ ifetch' = ifetch
          /\ cur'.pc = cur.pc /\ cur'.next = pc'
      BY <1>1, <1>7 DEF ExecuteJump, ExecuteTakenBranch, Decoding, StepType
    <2> QED
      BY <2>1 DEF Aligned
  <1>8. CASE ExecuteMemory \/ ExecuteSystem
    <2>1. /\ at = "fetch" /\ ifetch' = ifetch /\ cur'.pc = cur.pc
          /\ \/ at' = "mem" /\ pc' = pc
             \/ at' = "drain" /\ pc' = Plus(cur.pc, 4)
      BY <1>1, <1>8 DEF ExecuteMemory, ExecuteSystem, Decoding, StepType, arch
    <2> QED
      BY <2>1 DEF Aligned
  <1>9. CASE LoadDone \/ StoreDone
    <2>1. at = "mem" /\ at' = "retire" /\ pc' = Plus(cur.pc, 4) /\ ifetch' = ifetch
      BY <1>9 DEF LoadDone, StoreDone, MemoryDone
    <2> QED
      BY <1>2, <2>1 DEF Aligned
  <1>10. CASE RedirectDone
    <2>1. at = "redirect" /\ at' = "retire" /\ pc' = pc /\ ifetch'.next = cur.next
      BY <1>1, <1>10 DEF RedirectDone, FetchType, arch
    <2> QED
      BY <2>1 DEF Aligned
  <1>11. CASE DrainDone
    <2>1. at = "drain" /\ at' = "retire" /\ pc' = pc /\ ifetch' = ifetch
      BY <1>11 DEF DrainDone, arch
    <2> QED
      BY <1>2, <2>1 DEF Aligned
  <1>12. CASE Retire
    <2>1. at = "retire" /\ at' = "idle" /\ pc' = pc /\ ifetch' = ifetch
      BY <1>12 DEF Retire, arch
    <2> QED
      BY <2>1 DEF Aligned
  <1>13. CASE StepThrows \/ ExecuteFault \/ StoreThrows
    <2>1. at' = "fault"
      BY <1>13 DEF StepThrows, ExecuteFault, StoreThrows
    <2> QED
      BY <2>1 DEF Aligned
  <1> QED
    BY <1>3, <1>4, <1>5, <1>6, <1>7, <1>8, <1>9, <1>10, <1>11, <1>12, <1>13 DEF Next

(* Reset points both at the reset PC.                                      *)
LEMMA InitAligned == Init => Aligned
  BY DEF Init, Aligned, ResetFetch

(* Whatever a call makes the stream fetch is a word's address.             *)
LEMMA TargetAligned ==
    ASSUME Typed, Aligned, Streaming
    PROVE  /\ FetchTarget % 4 = 0 /\ FetchTarget \in Word
           /\ ifetch.next % 4 = 0 /\ ifetch.next \in Word
  <1>1. /\ cur.pc \in Nat /\ FetchTarget \in Word /\ ifetch.next \in Word
        /\ at \in {"fetch", "mem", "redirect", "drain"}
    BY StateFacts, FetchFields, WordsAreNat DEF Typed, TypeOK, Streaming
  <1>2. Plus(cur.pc, 12) % 4 = cur.pc % 4 /\ Plus(cur.pc, 8) % 4 = cur.pc % 4
    <2>1. 12 \in Nat /\ 12 % 4 = 0 /\ 8 \in Nat /\ 8 % 4 = 0
      OBVIOUS
    <2> QED
      BY <1>1, <2>1, PlusKeepsAlignment
  <1> QED
    BY <1>1, <1>2 DEF Aligned, FetchTarget, HoldAhead, WrongPathBytes

(* ensure_through() throws if its target is not word aligned; the model    *)
(* has no action for that, because no call of step() ever asks it to: not  *)
(* for a misaligned jump, nor where a target wraps to address zero.        *)
THEOREM TargetsAreAligned == Spec => [](Streaming => FetchTarget % 4 = 0)
  <1>1. Typed /\ Aligned /\ [Next]_vars => (Typed /\ Aligned)'
    BY NextTyped, NextAligned
  <1>2. Typed /\ Aligned => (Streaming => FetchTarget % 4 = 0)
    BY TargetAligned
  <1> QED
    BY InitTyped, InitAligned, <1>1, <1>2, PTL DEF Spec

(* A call that is to fetch the last word of the address space never        *)
(* returns: the pointer wraps to zero and no word is past that target, so  *)
(* the loop of ensure_through() goes round.  A load or store that stalls   *)
(* in the fourth word from the top, a redirect or a halt in the third, and *)
(* anything in the last is such a call: NoWrapAssumption asks for no less  *)
(* than a memory in which there is none.                                   *)
THEOREM TopIsNeverPassed ==
    Spec => [](Streaming /\ FetchTarget = Modulus - 4 => Behind /\ ~StreamDone)
  <1>1. Typed /\ Aligned /\ [Next]_vars => (Typed /\ Aligned)'
    BY NextTyped, NextAligned
  <1>2. Typed /\ Aligned =>
          (Streaming /\ FetchTarget = Modulus - 4 => Behind /\ ~StreamDone)
    <2> SUFFICES ASSUME Typed, Aligned, Streaming, FetchTarget = Modulus - 4
                 PROVE  Behind
      BY DEF StreamDone
    <2>1. /\ FetchTarget % 4 = 0 /\ ifetch.next % 4 = 0 /\ ifetch.next \in 0 .. Modulus - 1
          /\ Modulus \in Nat
      BY TargetAligned, WordRange DEF Word
    <2>2. ifetch.next <= Modulus - 4
      BY <2>1
    <2> QED
      BY <2>2 DEF Behind
  <1> QED
    BY InitTyped, InitAligned, <1>1, <1>2, PTL DEF Spec

-----------------------------------------------------------------------------
(* Termination *)

(* What is left of a run: the instructions it may still retire, the stages *)
(* of the step in progress, and in a stage the bytes to fetch and replays. *)
InsnsLeft == MaxInstructions - stats["retired"]

StagesLeft == CASE at = "idle" -> 4
                [] at = "fetch" -> 3
                [] at \in {"mem", "redirect", "drain"} -> 2
                [] at = "retire" -> 1
                [] OTHER -> 0

RequestsLeft == FetchTarget + 16 - ifetch.next + cur.left

(* One step takes from the first of these that it changes.                 *)
Descends ==
    \/ InsnsLeft' < InsnsLeft /\ InsnsLeft' \in Nat
    \/ InsnsLeft' = InsnsLeft /\ StagesLeft' < StagesLeft /\ StagesLeft' \in Nat
    \/ /\ InsnsLeft' = InsnsLeft /\ StagesLeft' = StagesLeft
       /\ RequestsLeft' < RequestsLeft /\ RequestsLeft' \in Nat

(* A step begins only below max_instructions.                              *)
WithinLimit ==
    /\ InsnsLeft \in Nat
    /\ at \in {"fetch", "mem", "redirect", "drain", "retire"} => InsnsLeft # 0

(* The instruction that retires is one of those left.                      *)
LEMMA RetireDescends ==
    ASSUME Traced, WithinLimit, Retire
    PROVE  InsnsLeft' = InsnsLeft - 1 /\ InsnsLeft' \in Nat /\ at' = "idle"
  <1>1. at = "retire" /\ at' = "idle" /\ timing' = AfterRetire(Held, Insn, cur.taken)
    BY DEF Retire
  <1>2. timing'.retired = timing.retired + 1
    <2>1. /\ Held \in TimingType /\ Timed(Insn) /\ cur.taken \in BOOLEAN
          /\ Held.retired = timing.retired
      BY HeldFacts DEF Traced
    <2> QED
      BY <1>1, <2>1, AfterRetireFields
  <1>3. stats'["retired"] = timing'.retired
    BY NextTraced DEF Traced, TraceTied, Next
  <1>4. stats["retired"] = timing.retired /\ timing.retired \in Nat
    BY DEF Traced, TraceTied, Typed, TypeOK, TimingType
  <1>5. MaxInstructions \in Nat
    BY CpuAssumption DEF CpuAssumption
  <1> QED
    BY <1>1, <1>2, <1>3, <1>4, <1>5 DEF InsnsLeft, WithinLimit

(* Every other step leaves the number of instructions as it is.            *)
LEMMA NextWithinLimit ==
    ASSUME Traced, WithinLimit, [Next]_vars
    PROVE  WithinLimit'
  <1>1. CASE Retire
    BY <1>1, RetireDescends DEF WithinLimit
  <1>2. CASE ~Retire
    <2>1. InsnsLeft' = InsnsLeft
      BY <1>2, OnlyRetirePublishes DEF InsnsLeft
    <2>2. CASE BeginStep
      <3>1. ~(stats.retired >= MaxInstructions)
        BY <2>2 DEF BeginStep, StartFault
      <3>2. InsnsLeft # 0
        <4>1. stats.retired \in Nat /\ MaxInstructions \in Nat
          BY CpuAssumption DEF CpuAssumption, Traced, TraceTied, Typed, TypeOK, TimingType
        <4> QED
          BY <3>1, <4>1 DEF InsnsLeft
      <3> QED
        BY <2>1, <3>2 DEF WithinLimit
    <2>3. CASE ~BeginStep
      <3>1. at' \in {"fetch", "mem", "redirect", "drain", "retire"} =>
               at \in {"fetch", "mem", "redirect", "drain", "retire"}
        BY <1>2, <2>3
           DEF Next, StepThrows, EnsureThrough, Replay, Streaming, ExecuteAlu,
               ExecuteFault, ExecuteJump, ExecuteTakenBranch, ExecuteUntakenBranch,
               ExecuteMemory, ExecuteSystem, Decoding, LoadDone, StoreThrows, StoreDone,
               MemoryDone, RedirectDone, DrainDone, vars
      <3> QED
        BY <2>1, <3>1 DEF WithinLimit
    <2> QED
      BY <2>2, <2>3
  <1> QED
    BY <1>1, <1>2

(* A request brings the end of its call nearer, and none is made once the  *)
(* pointer is more than three words past the target.                       *)
LEMMA RequestDescends ==
    ASSUME NoWrapAssumption, Streamed, EnsureThrough \/ Replay
    PROVE  /\ StagesLeft' = StagesLeft
           /\ RequestsLeft' < RequestsLeft /\ RequestsLeft' \in Nat
  <1>1. cur.left \in Nat /\ cur.pc \in Nat /\ ifetch.next \in Nat /\ FetchTarget \in Nat
    BY StateFacts, TargetNearPc, WordsAreNat DEF Streamed, Typed
  <1>2. CASE EnsureThrough
    <2>1. /\ ifetch.next <= FetchTarget /\ ifetch'.next = ifetch.next + 4
          /\ cur'.pc = cur.pc /\ cur'.left = cur.left /\ at' = at
      BY <1>2, AfterEnsureThrough
    <2>2. FetchTarget' = FetchTarget
      BY <2>1 DEF FetchTarget
    <2> QED
      BY <1>1, <2>1, <2>2 DEF RequestsLeft, StagesLeft
  <1>3. CASE Replay
    <2>1. /\ at \in {"mem", "drain"} /\ ifetch'.next = ifetch.next
          /\ cur.left > 0 /\ cur'.left = cur.left - 1 /\ cur'.pc = cur.pc /\ at' = at
      BY <1>3, AfterReplay
    <2>2. FetchTarget' = FetchTarget
      BY <2>1 DEF FetchTarget
    <2>3. FetchTarget = ifetch.next - 4
      BY <1>3, ReplayFacts DEF Replay
    <2> QED
      BY <1>1, <2>1, <2>2, <2>3 DEF RequestsLeft, StagesLeft
  <1> QED
    BY <1>2, <1>3

(* Every step of run() is one of finitely many: no loop of step() or of    *)
(* ensure_through() goes round for ever, whatever the program.             *)
THEOREM EveryStepDescends ==
    NoWrapAssumption => (Spec => [][Descends]_vars)
  <1> SUFFICES ASSUME NoWrapAssumption PROVE Spec => [][Descends]_vars
    OBVIOUS
  <1> DEFINE IInv == Traced /\ Streamed /\ WithinLimit
  <1>1. Init => IInv
    <2> SUFFICES ASSUME Init PROVE WithinLimit
      BY InitTraced, InitStreamed
    <2>1. at = "idle" /\ stats["retired"] = 0
      BY DEF Init, StatsFields
    <2> QED
      BY <2>1, CpuAssumption DEF CpuAssumption, WithinLimit, InsnsLeft
  <1>2. IInv /\ [Next]_vars => IInv'
    BY NextTraced, NextStreamed, NextWithinLimit
  <1>3. IInv /\ [Next]_vars => [Descends]_vars
    <2> SUFFICES ASSUME IInv, Next PROVE Descends
      OBVIOUS
    <2>1. CASE Retire
      <3>1. InsnsLeft \in Nat
        BY DEF WithinLimit
      <3> QED
        BY <2>1, <3>1, RetireDescends DEF Descends
    <2>2. CASE ~Retire
      <3>1. InsnsLeft' = InsnsLeft
        BY <2>2, OnlyRetirePublishes DEF InsnsLeft
      <3>2. CASE EnsureThrough \/ Replay
        BY <3>1, <3>2, RequestDescends DEF Descends
      <3>3. CASE ~(EnsureThrough \/ Replay)
        <4>1. \/ at = "idle" /\ at' \in {"fetch", "fault"}
              \/ at = "fetch" /\ at' \in {"mem", "redirect", "drain", "retire", "fault"}
              \/ at \in {"mem", "redirect", "drain"} /\ at' \in {"retire", "fault"}
          BY <2>2, <3>3
             DEF Next, StepThrows, BeginStep, ExecuteAlu, ExecuteFault, ExecuteJump,
                 ExecuteTakenBranch, ExecuteUntakenBranch, ExecuteMemory, ExecuteSystem,
                 Decoding, LoadDone, StoreThrows, StoreDone, MemoryDone, RedirectDone,
                 DrainDone
        <4>2. StagesLeft' < StagesLeft /\ StagesLeft' \in Nat
          BY <4>1 DEF StagesLeft
        <4> QED
          BY <3>1, <4>2 DEF Descends
      <3> QED
        BY <3>2, <3>3
    <2> QED
      BY <2>1, <2>2
  <1> QED
    BY <1>1, <1>2, <1>3, PTL DEF Spec
=============================================================================
