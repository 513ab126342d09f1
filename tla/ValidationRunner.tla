-------------------------- MODULE ValidationRunner --------------------------
(***************************************************************************)
(* The scripts that run the model on a list of workloads and judge it      *)
(* against the traces and counters of the RTL: run_validation_suite,       *)
(* run_divider_characterization, run_milestone2, 3, 3c, 3d and 4, and the  *)
(* drivers run_milestone2_complete, 3b, 4b and run_controlflow_validation. *)
(*                                                                         *)
(* One iteration of a script's loop is one action: nothing of the program  *)
(* runs beside it.  What the iteration finds is a piece of evidence e:     *)
(*     ran          the model process ended with status 0                  *)
(*     model        the trace it wrote                                     *)
(*     printed      the cache counters it printed                          *)
(*     signed       register x5 holds the signature of a whole Dhrystone   *)
(*     hasRtl       there is an RTL trace file, rtl                        *)
(*     hasCounters  there is an RTL counter file, counters; a file with a  *)
(*                  header only gives a function with an empty domain      *)
(*     truth        the instructions the RTL really committed (no script   *)
(*                  sees this: it is what the verdicts are about)          *)
(* The cycle count the model prints is that of its last trace row:         *)
(* CpuProperties!LastRetireIsTotal.                                        *)
(***************************************************************************)
EXTENDS ScriptProcess, TraceCompare

CONSTANTS
    Cases,          \* Cases[s]: the TESTS or CASES list of script s
    Evidence        \* Evidence[s]: what one iteration of s may find

VARIABLES
    failure,        \* the flag of run_validation_suite and of the divider script
    taken           \* one entry per iteration so far: its length is the loop's
                    \* position, its contents are facts no script looks at

runnerVars == <<failure, taken>>

Runners == {"suite", "divider", "m2", "m3", "m3c", "m3d", "m4"}

Calibrated == {"suite", "divider"}

RunnerInit == failure = FALSE /\ taken = << >>

-----------------------------------------------------------------------------
(* What a trace says was committed: a result only where one is written.    *)
Commit(r) == [pc |-> r.pc, insn |-> r.insn, write |-> r.write,
              result |-> IF r.write = 0 THEN << >> ELSE <<r.rd, r.wdata>>]

Commits(trace) == [k \in DOMAIN trace |-> Commit(trace[k])]

(* The counters a script compares: run_milestone3c and 3d look at I$ only. *)
Compared == IF script \in {"m3c", "m3d"} THEN {"iAccesses", "iHits", "iMisses"} ELSE CacheKeys

Facts(e, c) ==
    [ran     |-> e.ran,
     there   |-> e.hasRtl,
     frozen  |-> /\ LastCycle(e.model) = c.cycles
                 /\ script = "divider" => CycleValues(e.model) = c.retireCycles,
     commits |-> Commits(e.model) = Commits(e.truth),
     length  |-> Len(e.model) = Len(e.truth),
     last    |-> LastCycle(e.model) = LastCycle(e.truth),
     cycles  |-> CycleValues(e.model) = CycleValues(e.truth),
     agree   |-> \A key \in Compared \cap DOMAIN e.printed \cap DOMAIN e.counters :
                    e.printed[key] = e.counters[key],
     differ  |-> \E key \in Compared : Read(e.printed, key) # Read(e.counters, key)]

-----------------------------------------------------------------------------

MoreCases == at = "cases" /\ Len(taken) < Len(Cases[script])

AllTaken == at = "cases" /\ Len(taken) = Len(Cases[script])

ThisCase == Cases[script][Len(taken) + 1]

Take(e) == taken' = Append(taken, Facts(e, ThisCase))

Collect(arch, timing, stats) ==
    rows' = Append(rows, [case |-> ThisCase.name, arch |-> arch, timing |-> timing,
                          stats |-> stats])

Verdict(ok) == IF ok THEN "PASS" ELSE "FAIL"

(* run_milestone3, 3c, 3d and 4 without --require-rtl run the model only.  *)
ModelOnly == "modelOnly" \in args \/ (script \notin Calibrated /\ "requireRtl" \notin args)

(* The loop starts from an empty list and no failure.                      *)
RunnerBuild ==
    /\ script \in Runners /\ Build
    /\ failure' = FALSE /\ taken' = << >>

-----------------------------------------------------------------------------
(* run_validation_suite and run_divider_characterization: the rest of the  *)
(* cases is judged after a failure.                                        *)

(* Only the suite has a row for a case whose model run failed.             *)
CalibratedModelFails ==
    /\ script \in Calibrated /\ MoreCases
    /\ \E e \in Evidence[script] : ~e.ran /\ Take(e)
    /\ IF script = "suite" THEN Collect("FAIL", "N/A", "-") ELSE UNCHANGED rows
    /\ failure' = TRUE
    /\ Goto("cases") /\ InScript /\ UNCHANGED <<said, disk>>

FrozenOk(e) == /\ LastCycle(e.model) = ThisCase.cycles
               /\ script = "divider" => CycleValues(e.model) = ThisCase.retireCycles

CalibratedWaits ==
    /\ script \in Calibrated /\ MoreCases
    /\ \E e \in Evidence[script] :
         /\ e.ran /\ ("modelOnly" \in args \/ ~e.hasRtl)
         /\ Take(e)
         /\ failure' = (failure \/ ~FrozenOk(e)
                            \/ ("requireRtl" \in args /\ "modelOnly" \notin args))
    /\ Collect("WAIT", "WAIT", "-")
    /\ Goto("cases") /\ InScript /\ UNCHANGED <<said, disk>>

(* The suite compares the last cycle and the number of rows, the divider   *)
(* script every retirement cycle.                                          *)
TimingOk(e) ==
    IF script = "suite"
    THEN LastCycle(e.model) = LastCycle(e.rtl) /\ Len(e.model) = Len(e.rtl)
    ELSE CycleValues(e.model) = CycleValues(e.rtl)

(* Mutated CalibratedJudges: the last case decides.                        *)
LastCaseDecides ==
    /\ script \in Calibrated /\ MoreCases
    /\ \E e \in Evidence[script] :
         /\ e.ran /\ "modelOnly" \notin args /\ e.hasRtl
         /\ Take(e)
         /\ Collect(Verdict(CompareArch(e.model, e.rtl)), Verdict(TimingOk(e)), "-")
         /\ failure' = (~FrozenOk(e) \/ ~CompareArch(e.model, e.rtl) \/ ~TimingOk(e))
    /\ Goto("cases") /\ InScript /\ UNCHANGED <<said, disk>>

CalibratedJudges ==
    /\ script \in Calibrated /\ MoreCases
    /\ \E e \in Evidence[script] :
         /\ e.ran /\ "modelOnly" \notin args /\ e.hasRtl
         /\ Take(e)
         /\ Collect(Verdict(CompareArch(e.model, e.rtl)), Verdict(TimingOk(e)), "-")
         /\ failure' = (failure \/ ~FrozenOk(e)
                            \/ ~CompareArch(e.model, e.rtl) \/ ~TimingOk(e))
    /\ Goto("cases") /\ InScript /\ UNCHANGED <<said, disk>>

(* The summary is written whatever the verdicts are; only the divider      *)
(* script prints that all is well.                                         *)
CalibratedEnds ==
    /\ script \in Calibrated /\ AllTaken
    /\ disk' = [disk EXCEPT !.summary[script] = rows]
    /\ said' = said \cup IF script = "divider" /\ ~ModelOnly /\ ~failure
                         THEN {"divider exact"} ELSE {}
    /\ Return(IF failure THEN 1 ELSE 0)
    /\ InScript /\ UNCHANGED <<rows, runnerVars>>

-----------------------------------------------------------------------------
(* run_milestone2: the model prints an aggregate correlation, which needs  *)
(* an RTL trace with a row; compare_traces --compare-cycle judges.         *)
M2Check ==
    /\ script = "m2" /\ at = "check"
    /\ Return(2) \/ Goto("build")
    /\ InScript /\ UNCHANGED <<said, rows, disk, runnerVars>>

M2Case ==
    /\ script = "m2" /\ MoreCases
    /\ \E e \in Evidence[script] :
         /\ e.hasRtl /\ Take(e)
         /\ \/ /\ ~e.ran \/ e.rtl = << >> \/ CompareTraces(e.model, e.rtl, TRUE) # 0
               /\ Raise /\ UNCHANGED said
            \/ /\ e.ran /\ e.rtl # << >> /\ CompareTraces(e.model, e.rtl, TRUE) = 0
               /\ Return(0) /\ said' = said \cup {"smoke timing completed"}
    /\ InScript /\ UNCHANGED <<rows, disk, failure>>

-----------------------------------------------------------------------------
(* run_milestone3, 3c and 3d: a failed model run and a missing RTL file    *)
(* end the script without a summary, a wrong verdict does not.             *)
CacheScripts == {"m3", "m3c", "m3d"}

(* read_cache_stats of run_milestone3 gives None for an empty file, and    *)
(* looking a printed counter up in None raises.                            *)
CountersUnreadable(e) ==
    script = "m3" /\ DOMAIN e.counters = {} /\ CacheKeys \cap DOMAIN e.printed # {}

CacheCaseRaises ==
    /\ script \in CacheScripts /\ MoreCases
    /\ \E e \in Evidence[script] :
         /\ \/ ~e.ran
            \/ "requireRtl" \in args /\ (~e.hasRtl \/ ~e.hasCounters \/ CountersUnreadable(e))
         /\ Take(e)
    /\ Raise /\ InScript /\ UNCHANGED <<said, rows, disk, failure>>

CacheCaseWaits ==
    /\ script \in CacheScripts /\ MoreCases
    /\ "requireRtl" \notin args
    /\ \E e \in Evidence[script] : e.ran /\ Take(e)
    /\ Collect("WAIT", "WAIT", "WAIT")
    /\ Goto("cases") /\ InScript /\ UNCHANGED <<said, disk, failure>>

StatsOk(e) ==
    IF script = "m3" THEN CommonCountersEqual(e.printed, e.counters)
                     ELSE FetchCountersEqual(e.printed, e.counters)

CacheCaseJudged ==
    /\ script \in CacheScripts /\ MoreCases
    /\ "requireRtl" \in args
    /\ \E e \in Evidence[script] :
         /\ e.ran /\ e.hasRtl /\ e.hasCounters /\ ~CountersUnreadable(e)
         /\ Take(e)
         /\ Collect(Verdict(ArchEqual(e.model, e.rtl)),
                    Verdict(LastCycle(e.model) = LastCycle(e.rtl)),
                    Verdict(StatsOk(e)))
    /\ Goto("cases") /\ InScript /\ UNCHANGED <<said, disk, failure>>

AllPass == \A k \in DOMAIN rows : rows[k].arch = "PASS" /\ rows[k].timing = "PASS"
                                    /\ rows[k].stats = "PASS"

(* The status is 0 whatever the rows say; run_milestone3d prints a result. *)
CacheScriptEnds ==
    /\ script \in CacheScripts /\ AllTaken
    /\ disk' = [disk EXCEPT !.summary[script] = rows]
    /\ said' = said \cup IF script # "m3d" \/ ModelOnly THEN {}
                         ELSE IF AllPass THEN {"m3d PASS"} ELSE {"m3d FAIL"}
    /\ Return(0)
    /\ InScript /\ UNCHANGED <<rows, runnerVars>>

-----------------------------------------------------------------------------
(* run_milestone4 has one case.  The reference summary is written as soon  *)
(* as the signature is seen, before any RTL file is looked for.            *)
WriteModelSummary(e) ==
    disk' = [disk EXCEPT !.reference = IF e.signed THEN "signed" ELSE "unsigned"]

(* Mutated M4Fails: the summary is written before the signature is looked  *)
(* at.                                                                     *)
M4FailsAfterSummary ==
    /\ script = "m4" /\ MoreCases
    /\ \E e \in Evidence[script] :
         /\ ~e.ran \/ ~e.signed
         /\ Take(e) /\ WriteModelSummary(e)
    /\ Raise /\ InScript /\ UNCHANGED <<said, rows, failure>>

M4Fails ==
    /\ script = "m4" /\ MoreCases
    /\ \E e \in Evidence[script] : (~e.ran \/ ~e.signed) /\ Take(e)
    /\ Raise /\ InScript /\ UNCHANGED <<said, rows, disk, failure>>

M4Misses ==
    /\ script = "m4" /\ MoreCases
    /\ "requireRtl" \in args
    /\ \E e \in Evidence[script] :
         /\ e.ran /\ e.signed /\ (~e.hasRtl \/ ~e.hasCounters)
         /\ Take(e) /\ WriteModelSummary(e)
    /\ Raise /\ InScript /\ UNCHANGED <<said, rows, failure>>

(* Timing and cache counters pass or are measured: they do not fail.       *)
Measure(ok) == IF ok THEN "PASS" ELSE "MEASURE"

M4Case ==
    /\ script = "m4" /\ MoreCases
    /\ \E e \in Evidence[script] :
         /\ e.ran /\ e.signed
         /\ "requireRtl" \in args => e.hasRtl /\ e.hasCounters
         /\ Take(e) /\ WriteModelSummary(e)
         /\ IF "requireRtl" \in args
            THEN Collect(Verdict(ArchCompareStream(e.model, e.rtl)),
                         Measure(LastCycle(e.model) = LastCycle(e.rtl)),
                         Measure(AllCountersEqual(e.printed, e.counters)))
            ELSE Collect("WAIT", "MEASURE", "MEASURE")
    /\ Goto("cases") /\ InScript /\ UNCHANGED <<said, failure>>

M4Ends ==
    /\ script = "m4" /\ AllTaken
    /\ disk' = [disk EXCEPT !.summary[script] = rows]
    /\ said' = said \cup IF ModelOnly THEN {}
                         ELSE IF AllPass THEN {"m4 PASS"} ELSE {"m4 see gaps"}
    /\ Return(0)
    /\ InScript /\ UNCHANGED <<rows, runnerVars>>

(* analyze_milestone4_gaps reads the summary of whichever run wrote one.   *)
AnalyzeGaps ==
    /\ script = "gaps" /\ at = "read"
    /\ rows' = disk.summary["m4"]
    /\ Return(IF disk.summary["m4"] = << >> THEN 1 ELSE 0)
    /\ InScript /\ UNCHANGED <<said, disk, runnerVars>>

-----------------------------------------------------------------------------
(* The drivers start with a child and look at nothing but its status.      *)

FirstChild(c) == CASE c = "m2complete"  -> "suite"
                   [] c = "controlflow" -> "m3c"
                   [] c = "m3b"         -> "m3"
                   [] c = "m4b"         -> "m4"

(* run_milestone4b hands its own flags on.                                 *)
DriverCalls ==
    /\ at = "call"
    /\ Call(FirstChild(script), IF script = "m4b" THEN args ELSE {"requireRtl"})
    /\ UNCHANGED runnerVars

M2CompleteNext ==
    /\ command = "m2complete" /\ script # command /\ at = "end"
    /\ \/ rc # 0 /\ DriverReturns(rc) /\ UNCHANGED said
       \/ rc = 0 /\ script = "suite" /\ Call("divider", {"requireRtl"})
       \/ /\ rc = 0 /\ script = "divider"
          /\ DriverReturns(0) /\ said' = said \cup {"milestone 2 complete"}
    /\ UNCHANGED runnerVars

(* Mutated ControlflowNext: a child that fails is started again.           *)
ControlflowRetries ==
    /\ command = "controlflow" /\ script # command /\ at = "end"
    /\ \/ rc # 0 /\ Call(script, {"requireRtl"})
       \/ rc = 0 /\ script = "m3c" /\ Call("m3d", {"requireRtl"})
       \/ /\ rc = 0 /\ script = "m3d"
          /\ DriverReturns(0) /\ said' = said \cup {"control flow PASS"}
    /\ UNCHANGED runnerVars

ControlflowNext ==
    /\ command = "controlflow" /\ script # command /\ at = "end"
    /\ \/ rc # 0 /\ DriverReturns(1) /\ UNCHANGED said
       \/ rc = 0 /\ script = "m3c" /\ Call("m3d", {"requireRtl"})
       \/ /\ rc = 0 /\ script = "m3d"
          /\ DriverReturns(0) /\ said' = said \cup {"control flow PASS"}
    /\ UNCHANGED runnerVars

(* check_call raises on any other status than 0.  The fetch streams of the *)
(* RTL are analysed if both are there.                                     *)
M3bNext ==
    /\ command = "m3b" /\ script # command /\ at = "end"
    /\ \/ rc # 0 /\ DriverReturns(1) /\ UNCHANGED said
       \/ rc = 0 /\ script = "m3" /\ Call("icacheFetch", {})
       \/ /\ rc = 0
          /\ DriverReturns(0) /\ said' = said \cup {"milestone 3b target"}
    /\ UNCHANGED runnerVars

M4bNext ==
    /\ command = "m4b" /\ script # command /\ at = "end"
    /\ DriverReturns(rc)
    /\ UNCHANGED <<said, runnerVars>>

RunnerNext ==
    \/ RunnerBuild
    \/ CalibratedModelFails \/ CalibratedWaits \/ CalibratedJudges \/ CalibratedEnds
    \/ M2Check \/ M2Case
    \/ CacheCaseRaises \/ CacheCaseWaits \/ CacheCaseJudged \/ CacheScriptEnds
    \/ M4Fails \/ M4Misses \/ M4Case \/ M4Ends \/ AnalyzeGaps
    \/ DriverCalls \/ M2CompleteNext \/ ControlflowNext \/ M3bNext \/ M4bNext
=============================================================================
