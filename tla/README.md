# TLA+ verification of the RV32IM performance model

The repository holds an instruction-accurate C++ model of an in-order five-stage
RV32IM core. It executes a program functionally and predicts what the RTL will
measure: cycles, stall categories, cache hits, misses, writebacks and the retire
cycle of every instruction. A prediction off by one cycle is a failure for its
users, and there is no unit test in the repository: the only oracle is the RTL,
run outside it on a few directed programs. This directory states what must be
true of the model on *every* program, checks it with TLC on small machines, and
proves the safety properties with TLAPS for every program and configuration. The scripts around the
model decide whether prediction and measurement agree, and what is concluded from
that: the second half of the project states what their verdicts may say.

## 1. Inventory

| Part (source) | State it keeps | Operations | Used by |
|---|---|---|---|
| Cache (`src/src/CacheModel.cpp`) | line array (valid, dirty, tag), seven counters, configuration | `configure`, `reset`, `access`, `would_hit` | CPU, fetch stream |
| Fetch stream (`src/src/IFetchStreamModel.cpp`) | pointer to the next sequential PC, five counters | `reset`, `ensure_through`, `on_dcache_stall`, `on_taken_branch`, `on_jump_redirect`, `on_system_drain` | CPU; calls the I$ |
| Pipeline timing (`src/src/PipelineTimingModel.cpp`) | accumulated stalls, four stall categories, three facts about the previous instruction | `reset`, `add_external_stalls`, `retire` | CPU |
| CPU (`src/src/CpuModel.cpp`) | registers, PC, halted, overlap counters, published statistics, and the three above | `load_program`, `load_data`, `reset`, `step`, `run` | drivers |
| Memory (`src/src/Memory.cpp`) | bytes; one for instructions, one for data | sub-word reads and writes, `load_hex_words` | CPU |
| Statistics and trace (`PerformanceStats.hpp`, `Trace.hpp`) | plain counters; an output stream | `print`; `write` | CPU, drivers |
| CLI (`src/main.cpp`) | options | run one program, compare totals with an RTL trace | user |
| SystemC wrapper (`src/systemc/`) | a CPU | one `step` per clock edge, stop at halt | user |
| RTL collector (`src/rtl/perf_trace_collector.sv`) | cycle and retire counters | one trace row per unsuppressed writeback | VCS |
| Validation scripts (`src/scripts/run_validation_suite.py`, `run_divider_characterization.py`, `run_milestone2..4*.py`, `run_controlflow_validation.py`) | rows of verdicts; summaries and a reference file on disk | build, run the model on a list of workloads, compare with RTL files if they are there, conclude; drivers run others as children | user |
| Comparison and analysis scripts (`compare_*.py`, `analyze_*.py`) | files read | compare traces; cut stall overlaps into episodes; fetches against retirements | user, drivers |
| Exploration scripts (`run_sensitivity_sweep.py`, `run_milestone6a.py`, `run_architecture_selection.py`) | tables, front, frozen predictions on disk | simulate configurations, Pareto front, dominance, winners | user |
| Workloads, docs, results | directed programs and calibration tables | | scripts |

`step()` calls `ensure_through` (I$ accesses), then executes; a load or store
accesses D$ and then `on_dcache_stall`; a redirect or halt makes one more call
into the fetch stream; finally the stalls of all of these go to
`add_external_stalls`, the instruction to `retire`, and every counter is copied
into the published statistics. Everything is synchronous and in one thread: what
is hard here is not interleaving but *order within a step and agreement across
steps*. The only concurrency is the SystemC kernel's clock, and files that one
command leaves and a later one reads. Four objects keep separate accounts of the same cycles, predict one
another's behaviour (`would_hit` before the fetch it predicts; replays "expected
to hit"), and may be abandoned half way by an exception.

What makes each part correct, in a sentence:

* cache: every answer and every counter is a function of the access history;
* timing: hazards are a function of the instruction stream; every stall is in
  the total once; retirements are in order;
* fetch stream: the pointer never loses the pipeline; holds and drains re-request
  a resident word; a redirect charges at most two wrong-path requests;
* CPU: every published cycle has one cause; cycles subtracted for overlap are
  backed by stalls that happened; each instruction is in one class; `run()` ends;
* loader and drivers: memory is what the file says; nothing is executed of a file
  that was refused; a halted CPU is not stepped again;
* collector and comparisons: a verdict is PASS exactly when the RTL committed
  what the model did, although the scripts see it only through the collector;
* validation scripts: a claim of correlation (a status or a printed line) is no more
  than was established of every case; an early failure survives the later cases; a
  summary is whole;
* exploration: the front is exact, ties included; frozen predictions are those of
  the table next to them; a rejected case is dominated by one that is kept.

The hazards behind these, each at its line, are listed in `PROJECT.json`.

## 2. Modules

Specifications (parameters are `CONSTANTS` with named assumptions; no
`RECURSIVE` operator anywhere, so that each can be proved about; the `*_proofs` modules are in section 4):

| Module | Models | State and actions |
|---|---|---|
| `CacheOps` | `CacheModel.cpp` as operators on one record | `AfterAccess`, `AccessStall`, `WouldHit`, ... |
| `CacheHistory` | abstract specification of a cache | the sequence of accesses; no lines, no dirty bits, no counters |
| `DirectMappedCache` | the class behind its public interface | `config`, `cache`, `ret`; `Access`, `Reset`, `Configure`, `ConfigureRejected` |
| `PipelineOps` | `PipelineTimingModel.cpp` as operators on one record | `AfterRetire`, `RetireCycle`, `AddExternalStalls` |
| `PipelineTiming` | the class behind its public interface | `timing`, `lastRetire` and ghosts; `Reset`, `AddStalls`, `Retire` |
| `CpuModel` | `step()`, `run()` and the fetch stream | see below |
| `CpuProperties` | properties of `CpuModel` | |
| `CpuDocClaims` | two statements of the documentation that the code does not keep | |
| `Rv32Alu` | OP, OP-IMM and M-extension results on words of `WordBits` bits | pure operators |
| `Session` | one run of an executable: `Memory`, `main()`, `sc_main()` and `RV32IMSystemC::tick` | the bytes of both memories, the next token and its address, the CPU's control and one register, `signal`/`stop`, `status`; `Directive`, `Write`, `Refuse`, `FileEnds`, `RunSteps`, `Tick`, `SimulationStops`, `Prints`, ... |
| `TraceCompare` | the collector and every comparison of traces and counters | pure operators |
| `ScriptProcess` | what all scripts share: a command starts, builds, calls a child, ends | `command`, `script`, `args`, `at`, `rc`, `said`, `rows`, `disk`; `Start`, `Build`, `Call`, `DriverReturns`, `Finish` |
| `ValidationRunner` | the seven runners and four drivers, `analyze_milestone4_gaps` | `failure`, `taken`; one action per outcome of a loop iteration, per end and per child |
| `DesignSpace` | sweep, Pareto front, frozen predictions, `compare_milestone5b/6b` | `Simulate`, `SweepEnds`, `M6aDedupes`, `M6aReports`, `Compare5b`, `Compare6b` |
| `ArchitectureSelection` | `run_architecture_selection` | `ReadFile`, `Merge`, `ClassifyAndReport` |
| `FetchAnalysis` | the probe and the three fetch reports | `input`, `missing`; `ProbeReads`, `ProbeGroups`, `ProbeEnds`, `FetchCase`, `FetchEnds` |
| `ScriptSystem` | the scripts together, one command after another over one `disk` | composes the four above; holds their properties |

`CpuModel` holds a cache record for each cache and one timing record, and its
variables carry the names of the members of the class (`timing`, `icache`,
`dcache`, `ifetch`, `overlap`, `stats`, ...). `step()` is split where its order
matters: `at` tells how far the call has come and `cur` holds its local variables,
so each iteration of the `ensure_through` loop (`EnsureThrough`), each replayed
request (`Replay`), the decode-and-execute of an instruction class (`ExecuteAlu`,
`ExecuteJump`, `ExecuteTakenBranch`, `ExecuteUntakenBranch`, `ExecuteMemory`,
`ExecuteSystem`), the completion of a hold or redirect (`LoadDone`, `StoreDone`,
`RedirectDone`, `DrainDone`), every exception (`StepThrows`, `ExecuteFault`,
`StoreThrows`) and the publication (`Retire`) is an action. The splitting adds
states to look at, never an order the code does not have: one action is enabled
at a time, except for the value a load returns.

`on_taken_branch` and `on_jump_redirect` are the same code, so one action stands
for both. The check of `CpuModel.cpp:300-302` that a replayed store hits cannot
fail (the access before it filled the line: `HeldWordHits` in the proofs), so it
has no action.

### Scripts

One process runs at a time, so one iteration of a script's loop is one action.
`at` is the place in `main()`, `rows` the list the script collects, `disk` what
outlives it: summaries, the Dhrystone reference, sweep, design space, front,
frozen predictions, selection. A driver is the `command`, its child the `script`;
a child's `said` lines stay, as they do on the terminal. What a script finds (the
model's trace, whether RTL files are there, what they hold) is a record of
*evidence* chosen by the action. Its field `truth` is what the RTL committed; no
script reads it, the facts it gives are only written to the ghost `taken`, and
verdicts are held against it. In the instances the trace in the evidence is
`Collected` from a writeback stage with bubbles and held instructions, so the
collector takes part in every verdict.

Failing subprocesses, missing files, unreadable files and uncaught exceptions are
outcomes of the actions: `Raise` is status 1, a failed cmake ends two of the
scripts with its own status and the others with 1.

### Abstractions

* An instruction is a record of its decoded fields; an encoding no `case` of
  `step()` accepts has the function `"RESERVED"` or the opcode `"UNKNOWN"`.
* Words have 2^`WordBits` values in place of 2^32, and wrap there; shift amounts are the
  ISA's where `WordBits` is a power of two. The operators of the community module for bits
  are recursive and cannot be proved about, so powers and words are recursive functions.
* In `CpuModel` data memory has addresses (range checks, D$ lines) but no contents: a
  load returns any of `LoadValues`. More executions than the code has, never fewer.
  Its contents are in `Session`.
* A run starts with `reset()`, as both drivers do, and an exception ends it, as
  in both drivers.
* Counters are naturals: 2^64 cycles are out of reach of `max_instructions`
  and the latencies of a real run. A counter that goes below zero violates
  `TypeOK`.
* `write_allocate`, `stall_axi` and `TimingRetireResult`'s flags are never read.
* `Session` keeps the control of `step()` and what loads and stores do to one
  register: a word goes on, jumps, halts, is illegal, loads or stores. A byte has
  `ByteSpace` values; a hex token is its kind and value.
* A trace row keeps the columns that are compared; a script's test case, its name
  and its frozen cycles. All cases of the repository have the mode `validate`.
* A configuration stands for its row's name. Numbers derived from a constant of the
  row or the baseline (speedup, per cent) are left out; signs and orders are kept.
* Columns of a result file that are read by the same expression are one column.

## 3. Runs

| Run | Bounds | What it shows |
|---|---|---|
| `cache` | 4 addresses (one inside a word), 1 or 2 lines, 4 accesses between resets, 5 accepted and 3 refused configurations | `TypeOK`, counters balance, unsaved data neither lost nor invented, **implements `CacheHistory`** |
| `timing` | 9 instructions, 4 retired, one hold of 0 or 7 before each | every cycle of the total has one cause, hazards are those of the stream, in-order retirement |
| `timing_general` | depth 0, interval 4, unequal penalties, 3 retired, two holds | the branches the default configuration never takes |
| `cpu` | all programs of 4 out of 9 instructions, then a divider and halt; 6-bit words, 24 bytes of memory, I$ 2 lines, D$ 1 line, at most 8 instructions | the eleven properties of `step()` |
| `cpu_extended` | all programs of 3 out of 18 instructions of every class, each cache on and off, at most 5 instructions | accounting in every configuration and at every exception; `RunEnds` |
| `workloads` | 20 machines: the directed programs under their scripts' configurations | the calibration tables of `docs/` and `scripts/`, and three trace listings |
| `session` | all files of 3 tokens out of 8 and all programs of 3 out of 12 loads and stores and a halt; 3 data files; bytes of one bit, memories of 4 words and 2 odd bytes in an address space of 8 words; 4 instructions; both drivers | `LoadedAsWritten`, `LoadsSeeStores`, `HaltIsFinal` |
| `scripts` | 21 commands, any flags, alone or as one of four pairs that share a file; 2 cases; 29 pieces of trace evidence, 13 of counters; 7 configurations, cycles 1..3; 2 selection cases with any row or cell missing and a third only in the reference; overlap logs of up to 4 rows | the eight properties of the scripts |
| `overlap_rule`, `hold_replays` | two programs | refute two documented rules, section 5 |
| `controlflow_pass`, `strict_fallback` | the instance of `scripts`, one command | refute two statements about scripts, section 5 |

Why the bounds are enough. A cache line's future depends on its last occupant
and dirty bit: four accesses over two words on one line give every transition of
it, with an access before and after. The timing model remembers one instruction:
four cover every triple plus a successor. The fetch stream is at most three words
ahead of the PC, so programs of six instructions around I$ of two lines let
lookahead, holds and wrong-path fetches evict the instructions they run past,
let loops return to evicted lines, let a redirect follow a store directly, and
reach the end of memory and of `max_instructions`. Latency 0 keeps penalties
small (4 and 7 cycles) without removing a case: the credit is bounded by both
the refill and the D$ tail. `cpu` runs with both caches on because overlap needs
both; `cpu_extended` covers the other three configurations.

`session`: three tokens give a word after a directive, a word that overwrites
another, a directive that wraps, a refusal after a word; two odd bytes at the end
of memory give a word that fits in part. Loads and stores of all widths overlap in
every way around one word boundary, some misaligned, some past the end; three of
them give a store over a store under a load. A byte of one bit still has a sign. The order of the two drivers matters only
between a halt and the kernel's stop, where any number of edges may come.

`scripts`: two cases are the least for a failure to be followed by a success and
the reverse. The evidence has every kind of difference a comparison can see (an
instruction held, late, missing, wrong, an unwritten result that differs, an empty
trace) and every kind of file (missing, header only, a column missing, a number
off). The grid of two sizes has two points of equal size; with three cycle counts
every order and tie of four points occurs. Two selection cases give every dominance
relation there is between two rows, with every mixture of three sources; the third
makes chains, a case that is dominated and dominates.

`CHECK_DEADLOCK FALSE` appears where the system stops: a CPU at halt or at an
exception, an executable that has ended, a user who starts no further command. Fairness is used by
two runs. `cpu_extended` assumes `WF_vars(Next)`: the loop of `run()` calls `step()`
until the CPU halts, and nothing else runs. `scripts` assumes `WF_vars(ScriptStep)`:
cmake, the model executable (by `RunEnds`) and child processes return, so a script
that can go on does; nothing makes the user start a command.

Properties that deserve a word:

* `ReplaysHit` is the expectation written in `IFetchStreamModel.hpp:59-62`; the
  code never checks it.
* `CreditsEarned` is the heart of the overlap rule. The credit is given when the
  store executes, for a fetch that takes place in the next two steps; the ghost
  `owed` remembers the target, and the next I$ access must be that target's, a
  miss, at the start of a step.
* `OverlapBacked` is the cumulative form: overlap never exceeds what D$ stalled
  less the first cycle of each credit, nor, once owed fetches are made, what I$
  stalled. It is why the subtraction in `step()` cannot underflow.
* `StallsAccounted` is an equality against the external stalls as they were given
  (the ghost `external`), not as the model accumulated them: a hazard charged twice
  or a cycle from nowhere breaks it.
* `DirtyDataAccounted` counts, in the log alone, the writes that put unsaved data
  where there was none; each is one dirty line or one writeback. The bound in both
  directions catches a dirty bit lost as well as one invented.
* `InstructionMix` names the two things an exception leaves behind: the count of a
  rejected OP encoding (`CpuModel.cpp:367`) and the D$ access of a store whose
  inspection threw (`:61`). Every other count has a retirement, every other access a
  load, a store or its replay.
* `CountersGrow` is about eleven published counters. It is not obvious, because the
  hold replays folded into three of them *do* shrink; the replays of the D$ hold that
  came with the credit always outweigh them.
* `LastRetireIsTotal` justifies the comparison at `main.cpp:118`.
* `VerdictsSound` relates five comparisons that are written differently to one
  truth. It also says what the counter columns mean: PASS is agreement where both
  sides have a counter, FAIL and MEASURE need a difference. A held writeback counted
  twice by the collector breaks it three modules away.
* `CorrelationClaims` is about the *absence* of a failure: status 0 or a PASS line
  with a case not run, not measured or not equal. Status 0 of `run_milestone3`, `3c`,
  `3d` and `4` is no claim (they return 0 with FAIL rows), the PASS lines of `3d` and `4`
  are. Two lines establish less than they say, and the property states what: the
  divider's "matches every characterization trace exactly" that every model ran, kept its
  frozen cycles and correlates *where a trace was there*; the control-flow PASS only
  that both children compared every case.
* `SelectionSound` is transitivity in disguise: a case may be dominated only by cases
  that are dominated themselves, but never all of them. Of winners by a product it
  says that a dominating case must tie in every factor.
* `LoadsSeeStores` is told from the trace alone: which store last touched each byte of
  a load, and what the register held then. A store that throws after it has written
  (the instruction behind it lies outside memory) leaves no row; `StoreWithoutRow`
  says that one such store, the one the run ended at, is the only way memory and
  trace disagree.


## 4. Proofs

Every leaf is checked by `tlapm`. The theorems hold for every value of the
constants allowed by the assumptions the modules name, which TLC evaluates on the
instances:

* `CacheAssumption`: addresses are naturals; `TimingConfigAssumption`: the six
  pipeline parameters are naturals, zero included; `TimingUserAssumption`.
* `WordAssumption`: a word has at least one bit. `CpuAssumption`: it has at least two (a
  PC is a multiple of 4), there is at least one register, the program is well typed and
  words loaded are words. That computed ones are is a theorem.
* `SessionAssumption`: a byte has an even number of values, PCs and operands are
  addresses, every word has a behaviour, files are sequences of tokens.
* `ScriptAssumption`: `run_milestone2` has one case, the cases of a script have
  different names, traces and the predictions in the repository are sequences.
* `DesignAssumption`, `LogAssumption`, `SelectionAssumption`: tables, logs and
  result files have the columns the scripts read. The columns multiplied (cycles,
  period, area, energy) are positive or absent: with a zero factor a product
  no longer decides dominance.

Two assumptions are hypotheses of the theorems that need them. `NoWrapAssumption`
(the memory ends more than 12 bytes below the top of the address space) stands before the theorems of
`CpuStream_proofs`, but for two that say what happens without it; `TopIsNeverPassed` shows
that it excludes a real failure and nothing for the proof's convenience.
`CollectorExact` (the trace file of the RTL is what it committed) stands
before `CorrelationClaims` and `VerdictsSound`; `CollectorIsExact` derives it from the collector. The collector's mutant,
which writes a held writeback twice, breaks it and both properties with it.

| Theorem | Module | Says |
|---|---|---|
| `CacheTypeCorrect` | `DirectMappedCache_proofs` | `TypeOK` of a cache |
| `TrafficIsBalanced`, `StallsAreBalanced` | | both counter balances |
| `CacheImplementsHistory` | | the cache implements `CacheHistory`: every answer and counter is the history's |
| `DirtyDataIsAccounted` | | `DirtyDataAccounted`: each write of new data is one dirty line or one writeback |
| `TimingTypeCorrect`, `StallsAreAccounted` | `PipelineTiming_proofs` | `TypeOK`; `StallsAccounted`: total = retired + fill + hazards + external stalls, exactly |
| `RetirementIsInOrder` | | retire cycles grow by at least what lies between |
| `CountersMatchStream` | | `MatchesStream`: hazards are those of the retired stream |
| `CpuTypeCorrect` | `CpuAccounting_proofs` | `TypeOK` of the whole CPU model |
| `CyclesAreAccounted` | | `CycleAccounting`: every published cycle has one cause |
| `MixCountsRetired` | | `InstructionMix`: each retired instruction is in one class, and what a fault leaves behind |
| `HaltCycleIsTotal` | | `LastRetireIsTotal`: the total at a halt is the last row's cycle |
| `TraceIsOrdered` | | `TraceInOrder`: one row per retirement, cycles growing |
| `StreamStaysNear` | `CpuStream_proofs` | `StreamNearPc`: at most three words past the PC, never behind |
| `ReplaysAlwaysHit` | | `ReplaysHit` |
| `WrongPathIsTwoWords` | | `WrongPathBounded` |
| `EveryCreditIsEarned` | | `CreditsEarned`: after a credit comes the credited miss |
| `OverlapIsBacked` | | `OverlapBacked`, by the stalls of both caches |
| `CountersNeverShrink` | | `CountersGrow`: eleven published counters |
| `TargetsAreAligned` | | the exception of `ensure_through` for a misaligned target is never thrown |
| `TopIsNeverPassed` | | a call for the last word of the address space never returns |
| `EveryStepDescends` | | no loop of `step()` or `run()` goes on for ever |
| `AluResultsAreWords` | `CpuAccounting_proofs` | every result is a word |
| `DivisionIsExact` | `ComponentOps_proofs` | quotient times divisor plus remainder is the dividend, signs and edge cases included |
| `ProductHalvesAgree` | | `MUL` and each `MULH` are one product |
| `BitwiseIsBitByBit`, `ShiftsMoveBits` | | bitwise results and shifts, for each bit |
| `HaltEndsTheRun` | `Session_proofs` | `HaltIsFinal`: nothing retires after the halt, in both drivers |
| `FilesAreLoaded` | | `LoadedAsWritten`: memory is the file's image, and only whole files are executed |
| `DataIsTold` | | `LoadsSeeStores`: every byte loaded is the last one stored there; memory is what the trace says, but for one store |
| `ConclusionsAreEstablished` | `ScriptSystem_proofs` | `CorrelationClaims`: what each status and line of the validation scripts establishes, the two that say too much included |
| `VerdictsAreSound` | | `VerdictsSound`: PASS is agreement, and the counter columns mean what they say |
| `FilesAreWhole` | | `SummaryWhole`: summaries on disk are complete and in order |
| `EpisodesAreMaximal` | `ScriptResults_proofs` | `EpisodesMaximal` |
| `FrontIsExact` | | `FrontExact` |
| `PredictionsAreValidated` | | `PredictionsValidated` |
| `SelectionsAreSound` | | `SelectionSound` |
| `CollectorRecords` | | a trace is the collector's exactly if it lists the retirements in order, with their cycles |
| `CollectorIsExact` | | `CollectorExact` from the collector |
| `EveryCommandDescends` | | no command of the scripts goes on for ever |

So every safety property of the passing runs is a theorem, but for the two of the run
`workloads`.

`ComponentOps_proofs` holds the lemmas about the operators
that the components share, so the CPU proofs never look inside a cache line:
`IndexInArray` (no access leaves the array), `AfterAccessType` (the counter grows
by exactly what the caller is told), `AccessedWordHits` (a word just accessed
hits), `AfterRetireFields`, `RetireCycleBeforeRedirect`. Its second half is
arithmetic, which uses nothing of the machine.

*Arithmetic.* The library's induction theorems cannot be instantiated here, but a
*set* of naturals can be reasoned about: one that has 0 and every successor is `Nat`
(`Induction`), and a recursive function exists because its finite beginnings do and agree
(`Recursion`). With these `Pow2` and the sum in `WordOf` get their lemmas: powers of
two split products, the sum over a set of bits is below the power of its length
and its binary digits are that set. `Congruent` (equal up to a multiple of the modulus) carries
the signed operations: a word and its signed value are congruent, sums, products and
differences of congruent numbers are, and a number in the range of words is its own cut.
Division truncates toward zero, so the sign cases are on magnitudes; the overflow
(least number by minus one) is the only quotient that leaves the range.

*A cache.* The refinement maps the lines to nothing: `CacheHistory` has only the
configuration, the answer, the statistics and the log. `Remembers` ties them. For every
address the line it maps to is valid exactly if some access since the last reset mapped
there, then has the tag of the *last* of these, and is dirty exactly if a write to
that word has not been evicted since (`LinesMatch`). The counters are cardinalities
of sets of positions in the log (`Tallied`), each grown by at most the new position.
With `Balanced`, which is `TrafficBalance` and `StallBalance` of any statistics,
these three counters determine the other four. `DirtyDataAccounted` rests on
`LinesMatch` too: whether a write finds its word present and unsaved is a matter of the
log, whether its line becomes one more dirty line a matter of the lines. A
writeback takes the line it is counted for out of the dirty ones.

*The timing model.* `MatchesStream` counts positions of the stream with a property
of two neighbours; the code keeps three facts about the last instruction.
`FlagsInPlace` says they are that instruction's, `Matches` counts up to here, and one
retirement adds at most its own position to each set. `StallsAccounted` is inductive
with `TypeOK`: what is accumulated is the hazards and the ghost `external`, at every step.

*Types of the CPU.* `TypeOK` is not inductive. Three counters are differences: a
redirect subtracts the requests issued before it, a store subtracts its credit
from its D$ stall, a replay decrements what is left. `Typed` adds `LocalsInPlace`,
which says what `step()`'s local variables hold at each point: all zero between
two steps, a D$ stall only while it is held, no stall of a fetch-stream call once
the instruction is ready to retire, a request count not above the stream's while
a redirect is in progress. `CreditBounded` shows the credit never
exceeds the stall; `HoldReplaysIsNat` that the clamp in `step()` is sufficient.

*Cycle accounting.* `CycleAccounting` speaks of published statistics, between
steps; what makes it true is the `Ledger`, which balances in the middle of `step()` too:
what the timing model has accumulated, plus what `step()` still holds in its
locals (`Charged`), plus the overlap taken off, equals the four hazards plus both
caches' stall counters. Each action moves an amount from one side's term to
another or adds the same amount to both. One case would break it: after an
overlap the held store is presented to D$ *again*, and a second stall would be
counted by the cache and charged to nobody. `HeldWordHits` excludes it: while an
access is held its word is in D$, because only fetches happen meanwhile. That is
also the proof that the exception at `CpuModel.cpp:300-302` is never thrown.

*Mix, halt and trace.* `Traced` joins these to one invariant: an instruction is
counted in its class when it executes and retired at the end of its step, so in the middle of
one the two counts differ by one, and after the fault of an OP encoding they differ for
ever; a halt is counted in no class. `AccessesInPlace` is the same for D$: an access is
made before its load or store is counted, and a replay is counted with it. The last row's cycle is below the total by exactly the
redirect penalty that follows it, and the instruction that halts has none.

*The fetch stream.* `Streamed` says for each point of `step()` which of four words
the pointer can be at, relative to the PC of the step in progress or to the next one
(`StreamInPlace`), that the word behind it is in I$ unless a redirect has just moved
it (`LastWordResident`; only requests of the stream touch I$, and the last of them was for
that word), and which replays are left. The rest builds on it. `WrongPathSoFar`: requests
since the redirect are no more than words the pointer has moved. `Credited`: while a
credit is owed its target is not resident, no step is between the credited redirect
and the fetch that pays, and that is the next request; stalls that back the overlap are in the
counters with one cycle to spare. `NeverAhead`: what was published is not above what
publishing now would show, the replays made during a hold taken into account.

*The top of the address space.* Two theorems need no assumption on the memory. `Aligned`
(the pointer and the PC are on the same byte of a word, and in the middle of a step, whose PC
has been checked, both are multiples of 4; wrapping changes neither) gives `TargetsAreAligned`. For an aligned pointer no word is past the
last one: `TopIsNeverPassed`. A load or store that stalls in the
fourth word from the top makes such a call, so `NoWrapAssumption` is as weak as it can be.

*Termination.* `EveryStepDescends` is the variant of `run()`: each step lowers
the number of instructions left, or leaves it and lowers the stage within `step()`, or leaves
both and lowers the requests left in the loop of `ensure_through` or of a replay. The last
is a natural because the pointer is never more than 16 bytes past its target.
`RunEnds` follows with fairness and the absence of deadlock before the end, both of
which are TLC's. `EveryCommandDescends` is the same for the scripts: processes left (a driver
that has yet to call, a first child, a second one, the command's own script), stages of
`main()`, cases left in its loop. Only the user's starting another command goes up.

*Halting.* `HaltInvariant` says that `halted` is exactly "the last retired
instruction halts", that no earlier one does, and that the SystemC output and stop
follow it. A step retires only from a CPU that has not halted, so the instruction it
appends is the only one that can. That a process ends with 0 only after a halt needs
the conjuncts about where `main()` is: before the loaders have run nothing retires.

*Loading.* In `LoadInvariant`, `addr` is where the file itself says the next word goes
(`Ahead`: four times the words since the last `@`, and its index), the tokens read fit
(`Fits`), and the memory being loaded is their image (`Holds`). The loader's
`(addr + 4) % AddressSpace` against one product reduced at the end needs
remainders of sums and products (`ModPlus`, `ModTimes`); that the write of one word
turns the image of a prefix into the next one's needs that the bytes of
a value and of its remainder by a word agree (`DigitOfWord`). A store reaches data memory
only, so every word executed is the program file's.

*Loads and stores.* `StoreInvariant` reads the trace as the history of the data
memory: the register is the last loaded value, each byte is of the last store that
covers it, or of the file, and each load so far gave these bytes. One more row
changes nothing told from the rows before it (`HistoryKept`) and adds what
`RowAdds` says. `DigitsOfBytes`, `FillBytes` and `SignIsOfTheTop` are the arithmetic of
`read32` and `sign_extend`: a number put together from bytes has these bytes, and
adding `2^32 - 2^(8 width)` puts 255 in all the bytes above. `LeftOver` is the one
store without a row: a step that throws after its store has ended the run, so no row
follows from which the memory would be told wrongly.

*Conclusions of the scripts.* `CorrelationClaims` speaks of the end of a script; what
carries it there is `InLoop`: while a calibrated script has raised no failure and was not told `--model-only`, *every*
case taken so far is `Settled` (ran, as frozen, correlates where a trace was there), and
`Established` if it was told to require the RTL; in `run_milestone3d` and 4 each row
that passes does so for a case that correlates. `ControlFlow` follows the two summaries
that the control-flow PASS is about through the driver's children. `Milestone2` adds what a
driver knows only through its children's status: while the divider script runs, the
suite's table is complete and says PASS, because the suite was called with
`--require-rtl` and ended with 0. Under it lie the comparisons, each with a
lemma that it implies equal commits: `CompareArchSound`, `ArchEqualSound`,
`ArchCompareStreamSound` (which stops at the first end of a file) and
`CompareTracesSound` (which counts mismatches up to a limit and adds the length).
`VerdictsSound` needs the converse of these lemmas too. `WholeInvariant`: in the loop,
row `k` is of case `k` (the divider's: of the `k`-th case whose model ran), and a summary is
only ever replaced by a finished list.

*Episodes, front, predictions, selection.* The probe: what is cut so far is `Parted`,
an exact cut of the rows read into maximal episodes. The front: sorting is modelled by
ranks, so that a list sorted by a total preorder with ties kept in order is a
bijection (`Sorted`); every beaten row is beaten by a row of the
front, one of least cost among those that beat it. Predictions: a
list as long as the frozen one, without a repetition and each row of which confirms
a frozen one, confirms all, because an injection between finite sets of one size is a
surjection. Selection: among the cases that dominate a rejected one, one with the
least sum of its costs is dominated by none; a case that dominates a winner by a
product of positive costs has the same factors.

*The collector.* `Collected` keeps the unsuppressed cycles of the writeback stage and
numbers them. `RetirementsInOrder` lists these cycles in order, with the lemma on
sorting by ranks, `RetirementsCounted` says that the retirements up to the `k`-th are
`k`, and `CollectedRows` that row `k` of the trace is the `k`-th of them. A list that has all
retirements, in order and with their cycles, is that enumeration: `Records`.

Only model-checked, and why:

* `DocumentedResults` and `DocumentedTrace` are evaluations of twenty given
  machines, of which TLC's run is the proof;
* `RunEnds` and `ScriptsEnd` are liveness under fairness, out of this prover's reach; of
  both the variant is proved (`EveryStepDescends`, `EveryCommandDescends`).

## 5. Where the documentation and the code part

* `overlap_rule`. `docs/archive/milestone-notes/README_MILESTONE4B.md:7` grants
  the overlap of a store's D$ miss with the refill of a younger redirect whenever
  the target misses. `CpuModel.cpp:288` also requires that the fetches behind the
  store missed in I$. The run is a loop around a missing store, resident in I$ by
  its second iteration, left by a jump to a target that is not.
* `hold_replays`. The comment at `CpuModel.cpp:481-485` leaves out only replays in
  "Simultaneous cache-overlap cycles". `CpuModel.cpp:489` subtracts the overlap of
  the whole run from the holds of the whole run, so a divider hold long after an
  overlap loses its replays: in the run, 6 of 7.

Both are statements about calibration: the code was fitted to the RTL on
Dhrystone, and which side is right only the RTL can tell.

* `controlflow_pass`. `run_controlflow_validation.py:25` prints "PASS: conditional
  branch + JAL/JALR directed correlation completed." after two children that return
  0 whatever their rows say (`run_milestone3c.py:178`, `run_milestone3d.py:179`).
* `strict_fallback`. `docs/REPRODUCIBILITY.md:71` says that with `--strict` fallback
  reference data must be rejected; `run_architecture_selection.py:38` asks only that
  both files have some row, and `:42-62` takes a missing case from the reference.

Met while modelling, and without a run of their own because nothing is stated that a
run could refute, or because the model keeps the code's behaviour as it is:

* `run_divider_characterization.py:192-193` looks at the command line and the failure
  flag only: without `--require-rtl` and `--model-only` the rows may all be WAIT
  (the model's `ModelOnly` and `CalibratedEnds`); `CorrelationClaims` states what the line
  establishes. `run_milestone2_complete.py:37`
  speaks of every retirement, while its first child compares the last cycle and the
  number of rows; `CorrelationClaims` says what is really established.
* `run_milestone3.py:207` passes a counter that one side lacks (a PASS is agreement on the
  counters both sides have, and `VerdictsSound` claims no more); an empty counter file
  raises (`CountersUnreadable`). 3c, 3d and 4 take an absent counter as zero.
* `Memory.cpp:94` lets an `@` index beyond 2^30 words wrap to a low address and
  overwrite what was loaded there; the reference of `LoadedAsWritten` wraps with it.
* `run_milestone4.py:238` replaces the reference before the RTL is looked at.
* `compare_milestone5b.py` never compares cycles and passes an empty RTL list;
  `compare_milestone6b.py:36` compares lengths, so doubled rows can hide a missing
  one (`PredictionsValidated` assumes distinct rows).
* `analyze_milestone4b_probe.py` names two episodes in its verdict and counts cycles
  and replays.
* `run_architecture_selection.py:158-160, 184, 219` recommends one architecture whatever
  the table says, and the source columns say `csv` for a row whose cells fell through
  to the reference.

## 6. Not modelled

* Caches and contents of data memory in one model: `CpuModel` has the one, `Session`
  the other. No cache keeps data in the code, so neither can affect the other.
* A model that is stepped without `reset()`, or reset in mid-run: neither driver
  does it.
* A data or instruction memory that reaches the top of the 32-bit address space,
  where the fetch pointer wraps, in the runs: the loop would never end there and its
  request counter has no bound (`TopIsNeverPassed`).
* Rates, `print()`, trace formatting, the values of single options, the figures of
  `print_rtl_correlation`; printed tables, reports and SVG charts of the scripts.
* `analyze_trace.py` (a histogram of one file), `package_selection_results.py` (a
  zip file): straight-line input and output without a property of its own.
* Dhrystone, which is beyond model checking; the RTL, which is in another repository.

## 7. Plan

1. The public interface of `CpuModel` with calls in any order: `reset` in mid-run,
   `step` after an exception, construction with a non-zero `reset_pc`.
2. The cycles of `step()` in a memory that reaches the top of the address space, up to
   the first call that does not return: `OwedInPlace` without `NoWrapAssumption`.
3. Words and halfwords that straddle two cache lines, if the C++ model comes to
   access both.
