------------------------ MODULE ScriptSystem_proofs ------------------------
(***************************************************************************)
(* What the validation scripts conclude, leave on disk and write into      *)
(* their rows, for every list of cases, every evidence and every sequence  *)
(* of commands; the verdicts and the conclusions provided that the         *)
(* collector's trace is what the RTL committed.                            *)
(***************************************************************************)
EXTENDS ScriptSystem, FiniteSetTheorems, TLAPS

SeqLike(s) == \E S : s \in Seq(S)

PassClaims == {"m3d PASS", "m4 PASS", "divider exact"}

DriverClaims == {"milestone 2 complete", "control flow PASS"}

NoNewDriverClaim == said' \cap DriverClaims \subseteq said

Established(k) == /\ Correlated(taken[k]) /\ taken[k].frozen
                  /\ rows[k].arch = "PASS" /\ rows[k].timing = "PASS"

(* The divider script without --model-only: what is there correlates.      *)
Settled(f) == f.ran /\ f.frozen /\ (f.there => Correlated(f))

RowPasses(k) == rows[k].arch = "PASS" /\ rows[k].timing = "PASS" /\ rows[k].stats = "PASS"

(* Where a process can be: a fresh one has no rows, and only the script    *)
(* the user started calls others.                                          *)
Fresh ==
    /\ at \in {"build", "check"} => rows = << >>
    /\ at = "call" => script = command /\ script \in Drivers

SummariesThere == "summary" \in DOMAIN disk /\ DOMAIN disk.summary = Runners

(* In the loop: the calibrated scripts have no failure exactly as long as  *)
(* every case so far is established; the others carry the verdict in their *)
(* rows.                                                                   *)
InLoop ==
    at = "cases" /\ script \in Runners =>
        /\ SeqLike(taken) /\ SeqLike(rows)
        /\ script = "m2" => taken = << >>
        /\ script \in Calibrated /\ Demanded /\ ~failure =>
             Len(rows) = Len(taken) /\ \A k \in DOMAIN taken : Established(k)
        /\ script \in Calibrated /\ ~ModelOnly /\ ~failure =>
             \A k \in DOMAIN taken : Settled(taken[k])
        /\ script \in CacheScripts /\ ~ModelOnly =>
             Len(rows) = Len(taken) /\ \A k \in DOMAIN rows : rows[k].arch \in {"PASS", "FAIL"}
        /\ script \in {"m3d", "m4"} =>
             /\ Len(rows) = Len(taken)
             /\ \A k \in DOMAIN taken :
                  RowPasses(k) => Correlated(taken[k]) /\ taken[k].agree

CalibratedClaim == AllCorrelate /\ \A k \in DOMAIN taken : taken[k].frozen

M2Claim == AllCorrelate /\ \A k \in DOMAIN taken : taken[k].cycles

PassClaim == AllCorrelate /\ \A k \in DOMAIN taken : taken[k].agree

DividerClaim ==
    Len(taken) = Len(Cases[script]) /\ \A k \in DOMAIN taken : Settled(taken[k])

EndedWell ==
    at = "end" /\ rc = 0 =>
        /\ script \in Calibrated /\ Demanded => CalibratedClaim /\ PassingTable(script)
        /\ script = "m2" => M2Claim
        /\ script \in CacheScripts /\ Demanded => JudgedTable(script)

(* A PASS line is the last thing its script prints.                        *)
SaidPass ==
    said \cap PassClaims # {} =>
        /\ at \in {"end", "idle"}
        /\ script \in {"m3d", "m4", "divider"} \cup Drivers
        /\ at = "end" /\ script \in {"m3d", "m4"} => PassClaim
        /\ at = "end" /\ script = "divider" => DividerClaim

(* run_milestone2_complete and its children, one after the other.          *)
Milestone2 ==
    /\ command = "m2complete" =>
         /\ script \in {"m2complete", "suite", "divider"}
         /\ script \in Calibrated => args = {"requireRtl"}
         /\ script = "divider" => PassingTable("suite")
    /\ "milestone 2 complete" \in said =>
         /\ at \in {"end", "idle"} /\ command = "m2complete" /\ script = "m2complete"
         /\ PassingTable("suite") /\ PassingTable("divider")

(* run_controlflow_validation and its children.                            *)
ControlFlow ==
    /\ command = "controlflow" =>
         /\ script \in {"controlflow", "m3c", "m3d"}
         /\ script \in CacheScripts => args = {"requireRtl"}
         /\ script = "m3d" => JudgedTable("m3c")
    /\ "control flow PASS" \in said =>
         /\ at \in {"end", "idle"} /\ command = "controlflow" /\ script = "controlflow"
         /\ JudgedTable("m3c") /\ JudgedTable("m3d")

ScriptInvariant ==
    Fresh /\ SummariesThere /\ InLoop /\ EndedWell /\ SaidPass /\ Milestone2 /\ ControlFlow

-----------------------------------------------------------------------------
(* The comparisons.                                                        *)

LEMMA SameRowIsSameCommit ==
    ASSUME NEW m, NEW r, SameRow(m, r)
    PROVE  Commit(m) = Commit(r)
BY DEF SameRow, SameInsn, SameResult, Commit

LEMMA SameRowsAreSameCommits ==
    ASSUME NEW model, NEW rtl, DOMAIN model = DOMAIN rtl,
           \A k \in DOMAIN model : SameRow(model[k], rtl[k])
    PROVE  Commits(model) = Commits(rtl)
BY SameRowIsSameCommit DEF Commits

(* What each comparison establishes of two sequences: equal lengths and    *)
(* equal commits.                                                          *)
LEMMA CompareArchSound ==
    ASSUME NEW model, NEW rtl,
           DOMAIN model = 1 .. Len(model), DOMAIN rtl = 1 .. Len(rtl),
           CompareArch(model, rtl)
    PROVE  Len(model) = Len(rtl) /\ Commits(model) = Commits(rtl)
BY SameRowsAreSameCommits DEF CompareArch

LEMMA ArchEqualSound ==
    ASSUME NEW model, NEW rtl,
           DOMAIN model = 1 .. Len(model), DOMAIN rtl = 1 .. Len(rtl),
           ArchEqual(model, rtl)
    PROVE  Len(model) = Len(rtl) /\ Commits(model) = Commits(rtl)
BY SameRowsAreSameCommits DEF ArchEqual, SameRow

LEMMA ArchCompareStreamSound ==
    ASSUME NEW model, NEW rtl, Len(model) \in Nat, Len(rtl) \in Nat,
           DOMAIN model = 1 .. Len(model), DOMAIN rtl = 1 .. Len(rtl),
           ArchCompareStream(model, rtl)
    PROVE  Len(model) = Len(rtl) /\ Commits(model) = Commits(rtl)
<1>1. PICK stop \in 1 .. Len(model) + 1 :
          /\ stop > Len(model) /\ stop > Len(rtl)
          /\ \A k \in 1 .. stop - 1 :
               k <= Len(model) /\ k <= Len(rtl) /\ SameRow(model[k], rtl[k])
    BY DEF ArchCompareStream
<1>2. Len(model) = stop - 1
    BY <1>1
<1>3. Len(rtl) = stop - 1
    <2>1. CASE stop = 1
        BY <1>1, <2>1
    <2>2. CASE stop # 1
        <3>1. stop - 1 \in 1 .. stop - 1
            BY <1>1, <2>2
        <3> QED
            BY <1>1, <3>1
    <2> QED
        BY <2>1, <2>2
<1>4. \A k \in DOMAIN model : SameRow(model[k], rtl[k])
    BY <1>1, <1>2
<1> QED
    BY <1>2, <1>3, <1>4, SameRowsAreSameCommits

Traced(model, rtl) == CompareTraces(model, rtl, TRUE) = 0

Differing(model, rtl) == {k \in DOMAIN model \cap DOMAIN rtl : RowDiffers(model[k], rtl[k], TRUE)}

LEMMA TracedCounts ==
    ASSUME NEW model, NEW rtl, Traced(model, rtl)
    PROVE  (IF Cardinality(Differing(model, rtl)) > 20
            THEN 20 ELSE Cardinality(Differing(model, rtl)))
             + (IF Len(model) = Len(rtl) THEN 0 ELSE 1) = 0
<1>1. Mismatches(model, rtl, TRUE, MaxMismatches) = 0
    <2>1. 1 # 0
        OBVIOUS
    <2> QED
        BY <2>1, Zenon DEF Traced, CompareTraces
<1> QED
    BY <1>1, Zenon DEF Mismatches, MaxMismatches, Differing

LEMMA CompareTracesSound ==
    ASSUME NEW model, NEW rtl, Len(model) \in Nat, Len(rtl) \in Nat,
           DOMAIN model = 1 .. Len(model), DOMAIN rtl = 1 .. Len(rtl),
           Traced(model, rtl)
    PROVE  /\ Len(model) = Len(rtl) /\ Commits(model) = Commits(rtl)
           /\ CycleValues(model) = CycleValues(rtl)
<1>1. IsFiniteSet(Differing(model, rtl)) /\ Cardinality(Differing(model, rtl)) \in Nat
    <2>1. IsFiniteSet(1 .. Len(model))
        BY FS_Interval
    <2>2. Differing(model, rtl) \subseteq 1 .. Len(model)
        BY Zenon DEF Differing
    <2> QED
        BY <2>1, <2>2, FS_Subset, FS_CardinalityType
<1>2. Cardinality(Differing(model, rtl)) = 0 /\ Len(model) = Len(rtl)
    <2>1. ASSUME NEW bad \in Nat, NEW same \in BOOLEAN,
                 (IF bad > 20 THEN 20 ELSE bad) + (IF same THEN 0 ELSE 1) = 0
          PROVE  bad = 0 /\ same
        BY <2>1
    <2> QED
        BY <1>1, <2>1, TracedCounts, Zenon
<1>3. Differing(model, rtl) = {}
    BY <1>1, <1>2, FS_EmptySet
<1>4. ASSUME NEW k \in DOMAIN model
      PROVE  /\ SameInsn(model[k], rtl[k])
             /\ model[k].write # 0 => SameResult(model[k], rtl[k])
             /\ model[k].cycle = rtl[k].cycle
    <2>1. k \in DOMAIN rtl
        BY <1>2
    <2>2. k \notin Differing(model, rtl)
        BY <1>3
    <2> QED
        BY <2>1, <2>2, Zenon DEF Differing, RowDiffers
<1>5. \A k \in DOMAIN model : SameRow(model[k], rtl[k])
    BY <1>4 DEF SameRow
<1>6. CycleValues(model) = CycleValues(rtl)
    BY <1>2, <1>4 DEF CycleValues
<1> QED
    BY <1>2, <1>5, <1>6, SameRowsAreSameCommits

LEMMA SameCyclesSameEnd ==
    ASSUME NEW model, NEW rtl, Len(model) \in Nat, Len(model) = Len(rtl),
           model = [k \in 1 .. Len(model) |-> model[k]], rtl = [k \in 1 .. Len(rtl) |-> rtl[k]],
           CycleValues(model) = CycleValues(rtl)
    PROVE  LastCycle(model) = LastCycle(rtl)
<1>1. \A k \in 1 .. Len(model) : model[k].cycle = rtl[k].cycle
    BY DEF CycleValues
<1>2. model = << >> <=> rtl = << >>
    <2>1. ASSUME NEW t, Len(t) \in Nat, t = [k \in 1 .. Len(t) |-> t[k]]
          PROVE  t = << >> <=> Len(t) = 0
        <3>1. t \in Seq({t[k] : k \in 1 .. Len(t)})
            BY <2>1
        <3> QED
            BY <3>1
    <2> QED
        BY <2>1
<1> QED
    BY <1>1, <1>2 DEF LastCycle

LEMMA Appended ==
    ASSUME NEW s, SeqLike(s), NEW x
    PROVE  /\ SeqLike(Append(s, x))
           /\ Len(s) \in Nat /\ Len(Append(s, x)) = Len(s) + 1
           /\ DOMAIN s = 1 .. Len(s) /\ DOMAIN Append(s, x) = DOMAIN s \cup {Len(s) + 1}
           /\ \A k \in DOMAIN s : Append(s, x)[k] = s[k] /\ k # Len(s) + 1
           /\ Append(s, x)[Len(s) + 1] = x
<1>1. PICK S : s \in Seq(S)
    BY DEF SeqLike
<1>2. Append(s, x) \in Seq(S \cup {x})
    BY <1>1
<1>3. SeqLike(Append(s, x))
    BY <1>2 DEF SeqLike
<1>4. Len(s) \in Nat /\ DOMAIN s = 1 .. Len(s)
    BY <1>1
<1> QED
    BY <1>1, <1>3, <1>4

LEMMA EmptySeqLike == SeqLike(<< >>) /\ DOMAIN << >> = {} /\ Len(<< >>) = 0
<1>1. << >> \in Seq({})
    OBVIOUS
<1> QED
    BY <1>1 DEF SeqLike

-----------------------------------------------------------------------------
(* One iteration of a runner's loop.                                       *)

(* A case of a calibrated script that raises no failure is established.    *)
LEMMA JudgedIsCorrelated ==
    ASSUME CollectorExact, script \in Calibrated, NEW e \in Evidence[script],
           e.ran, e.hasRtl,
           FrozenOk(e), CompareArch(e.model, e.rtl), TimingOk(e)
    PROVE  Correlated(Facts(e, ThisCase)) /\ Facts(e, ThisCase).frozen
<1>1. e.rtl = e.truth /\ script \in Runners
    BY DEF CollectorExact, Calibrated, Runners
<1>2. /\ DOMAIN e.model = 1 .. Len(e.model)
      /\ DOMAIN e.truth = 1 .. Len(e.truth)
    <2>1. ASSUME NEW t \in {e.model, e.truth} PROVE DOMAIN t = 1 .. Len(t)
        BY <1>1, ScriptAssumption
    <2> QED
        BY <2>1
<1>3. Len(e.model) = Len(e.truth) /\ Commits(e.model) = Commits(e.truth)
    BY <1>1, <1>2, CompareArchSound
<1>4. Facts(e, ThisCase).ran /\ Facts(e, ThisCase).there /\ Facts(e, ThisCase).commits
    BY <1>3 DEF Facts
<1>5. Facts(e, ThisCase).frozen
    BY DEF Facts, FrozenOk
<1>6. TimingFact(Facts(e, ThisCase))
    <2>1. CASE script = "suite"
        BY <1>1, <2>1 DEF TimingOk, TimingFact, Facts
    <2>2. CASE script = "divider"
        BY <1>1, <2>2 DEF TimingOk, TimingFact, Facts
    <2> QED
        BY <2>1, <2>2 DEF Calibrated
<1> QED
    BY <1>4, <1>5, <1>6 DEF Correlated

(* The same for the scripts that carry the verdict in their rows.          *)
LEMMA MatchIsCorrelated ==
    ASSUME CollectorExact, script \in {"m3d", "m4"}, NEW e \in Evidence[script],
           e.ran, e.hasRtl,
           ArchEqual(e.model, e.rtl) \/ ArchCompareStream(e.model, e.rtl),
           LastCycle(e.model) = LastCycle(e.rtl)
    PROVE  Correlated(Facts(e, ThisCase))
<1>1. e.rtl = e.truth /\ script \in Runners
    BY DEF CollectorExact, Runners
<1>2. /\ Len(e.model) \in Nat /\ DOMAIN e.model = 1 .. Len(e.model)
      /\ Len(e.truth) \in Nat /\ DOMAIN e.truth = 1 .. Len(e.truth)
    <2>1. ASSUME NEW t \in {e.model, e.truth} PROVE Len(t) \in Nat /\ DOMAIN t = 1 .. Len(t)
        BY <1>1, ScriptAssumption
    <2> QED
        BY <2>1
<1>3. Commits(e.model) = Commits(e.truth)
    BY <1>1, <1>2, ArchEqualSound, ArchCompareStreamSound
<1>4. Facts(e, ThisCase).ran /\ Facts(e, ThisCase).there /\ Facts(e, ThisCase).commits
    BY <1>3 DEF Facts
<1>5. TimingFact(Facts(e, ThisCase))
    BY <1>1 DEF TimingFact, Facts
<1> QED
    BY <1>4, <1>5 DEF Correlated

LEMMA CountersAgree ==
    ASSUME NEW e, \/ script = "m3d" /\ FetchCountersEqual(e.printed, e.counters)
                  \/ script = "m4" /\ AllCountersEqual(e.printed, e.counters)
    PROVE  Facts(e, ThisCase).agree
<1>1. CASE script = "m3d" /\ FetchCountersEqual(e.printed, e.counters)
    BY <1>1 DEF FetchCountersEqual, Read, Facts, Compared
<1>2. CASE script = "m4" /\ AllCountersEqual(e.printed, e.counters)
    BY <1>2 DEF AllCountersEqual, Read, Facts, Compared
<1> QED
    BY <1>1, <1>2

-----------------------------------------------------------------------------
(* What keeps the invariant: steps of the scripts outside the claims, an   *)
(* iteration, the end of a script, a call and a return.                    *)

LEMMA TablesKept ==
    ASSUME disk'.summary = disk.summary
    PROVE  \A s : (PassingTable(s)' <=> PassingTable(s)) /\ (JudgedTable(s)' <=> JudgedTable(s))
BY DEF PassingTable, JudgedTable

(* A step of a script that the claims are not about: it writes neither a   *)
(* summary nor the reference, and prints nothing a claim speaks of.        *)
Kept(file) == file \in DOMAIN disk => file \in DOMAIN disk' /\ disk'[file] = disk[file]

Elsewhere ==
    /\ script \notin Runners /\ script \notin Drivers
    /\ script' = script /\ command' = command /\ args' = args
    /\ at \notin {"end", "idle"} /\ at' \notin {"build", "check", "call", "idle"}
    /\ Kept("summary") /\ Kept("reference")
    /\ said' \cap PassClaims = said \cap PassClaims
    /\ NoNewDriverClaim

LEMMA ElsewhereStep ==
    ASSUME ScriptInvariant, Elsewhere
    PROVE  ScriptInvariant'
<1>1. /\ script \notin Calibrated
      /\ script \notin {"m2", "m2complete", "controlflow", "suite", "divider"}
      /\ script \notin CacheScripts /\ script \notin {"m3c", "m3d", "m4"}
    BY DEF Runners, Calibrated, CacheScripts, Drivers, Elsewhere
<1>2. Fresh' /\ InLoop'
    BY DEF Fresh, InLoop, Elsewhere
<1>3. SummariesThere'
    BY DEF ScriptInvariant, SummariesThere, Elsewhere, Kept
<1>4. EndedWell'
    BY <1>1 DEF EndedWell, Elsewhere
<1>5. SaidPass'
    BY <1>1 DEF ScriptInvariant, SaidPass, Elsewhere
<1>6. Milestone2'
    BY <1>1 DEF ScriptInvariant, Milestone2, Elsewhere, NoNewDriverClaim, DriverClaims
<1>7. ControlFlow'
    BY <1>1 DEF ScriptInvariant, ControlFlow, Elsewhere, NoNewDriverClaim, DriverClaims
<1> QED
    BY <1>2, <1>3, <1>4, <1>5, <1>6, <1>7 DEF ScriptInvariant

LEMMA LoopStep ==
    ASSUME ScriptInvariant, script \in Runners,
           script' = script, command' = command, args' = args, said' = said,
           at \notin {"end", "idle"}, at' = "cases", InLoop',
           "summary" \in DOMAIN disk', disk'.summary = disk.summary
    PROVE  ScriptInvariant'
<1>1. Fresh' /\ EndedWell'
    BY DEF Fresh, EndedWell
<1>2. SummariesThere'
    BY DEF ScriptInvariant, SummariesThere
<1>3. SaidPass'
    BY DEF ScriptInvariant, SaidPass
<1>4. Milestone2' /\ ControlFlow'
    BY TablesKept DEF ScriptInvariant, Milestone2, ControlFlow
<1> QED
    BY <1>1, <1>2, <1>3, <1>4 DEF ScriptInvariant

LEMMA EndStep ==
    ASSUME ScriptInvariant, script \in Runners,
           script' = script, command' = command, args' = args,
           at \notin {"end", "idle"}, at' = "end", EndedWell',
           "summary" \in DOMAIN disk', DOMAIN disk'.summary = Runners,
           \A s \in Runners \ {script} : disk'.summary[s] = disk.summary[s],
           said' \cap PassClaims # {} =>
               \/ script \in {"m3d", "m4"} /\ PassClaim'
               \/ script = "divider" /\ DividerClaim',
           NoNewDriverClaim
    PROVE  ScriptInvariant'
<1>1. Fresh' /\ InLoop' /\ SummariesThere'
    BY DEF Fresh, InLoop, SummariesThere
<1>2. SaidPass'
    BY DEF SaidPass
<1>3. Milestone2'
    <2>1. "milestone 2 complete" \notin said'
        BY DEF ScriptInvariant, Milestone2, NoNewDriverClaim, DriverClaims
    <2>2. script = "divider" => (PassingTable("suite")' <=> PassingTable("suite"))
        BY DEF PassingTable, Runners
    <2> QED
        BY <2>1, <2>2 DEF ScriptInvariant, Milestone2
<1>4. ControlFlow'
    <2>1. "control flow PASS" \notin said'
        BY DEF ScriptInvariant, ControlFlow, NoNewDriverClaim, DriverClaims
    <2>2. script = "m3d" => (JudgedTable("m3c")' <=> JudgedTable("m3c"))
        BY DEF JudgedTable, Runners
    <2> QED
        BY <2>1, <2>2 DEF ScriptInvariant, ControlFlow
<1> QED
    BY <1>1, <1>2, <1>3, <1>4 DEF ScriptInvariant

LEMMA FailingEnd ==
    ASSUME ScriptInvariant, script \in Runners,
           script' = script, command' = command, args' = args, said' = said,
           at \notin {"end", "idle"}, at' = "end", rc' # 0,
           "summary" \in DOMAIN disk', disk'.summary = disk.summary
    PROVE  ScriptInvariant'
<1>1. EndedWell'
    BY DEF EndedWell
<1>2. said' \cap PassClaims = {}
    BY DEF ScriptInvariant, SaidPass
<1>3. DOMAIN disk'.summary = Runners
    BY DEF ScriptInvariant, SummariesThere
<1>4. NoNewDriverClaim
    BY DEF NoNewDriverClaim
<1> QED
    BY <1>1, <1>2, <1>3, <1>4, EndStep

LEMMA EntryPlaces ==
    ASSUME NEW s
    PROVE  /\ Entry(s) \notin {"cases", "end", "idle"}
           /\ Entry(s) = "call" <=> s \in Drivers
BY DEF Entry, Drivers, Builders

LEMMA CallStep ==
    ASSUME ScriptInvariant, NEW s, NEW flags, Call(s, flags), s \notin Drivers,
           said \cap PassClaims = {}, said \cap DriverClaims = {},
           command = "m2complete" =>
               /\ s \in {"suite", "divider"} /\ flags = {"requireRtl"}
               /\ s = "divider" => PassingTable("suite"),
           command = "controlflow" =>
               /\ s \in {"m3c", "m3d"} /\ flags = {"requireRtl"}
               /\ s = "m3d" => JudgedTable("m3c")
    PROVE  ScriptInvariant'
<1>1. /\ script' = s /\ args' = flags /\ at' = Entry(s) /\ rows' = << >>
      /\ command' = command /\ said' = said /\ disk' = disk
    BY DEF Call
<1>2. at' \notin {"cases", "end", "idle", "call"}
    BY <1>1, EntryPlaces
<1>3. Fresh' /\ InLoop' /\ EndedWell' /\ SaidPass'
    BY <1>1, <1>2 DEF Fresh, InLoop, EndedWell, SaidPass
<1>4. SummariesThere'
    BY <1>1 DEF ScriptInvariant, SummariesThere
<1>5. Milestone2'
    BY <1>1, TablesKept DEF Milestone2, DriverClaims
<1>6. ControlFlow'
    BY <1>1, TablesKept DEF ControlFlow, DriverClaims
<1> QED
    BY <1>3, <1>4, <1>5, <1>6 DEF ScriptInvariant

LEMMA ReturnStep ==
    ASSUME ScriptInvariant, NEW status, DriverReturns(status), command \in Drivers,
           said' \cap PassClaims = said \cap PassClaims,
           "milestone 2 complete" \in said' =>
               \/ "milestone 2 complete" \in said
               \/ command = "m2complete" /\ PassingTable("suite") /\ PassingTable("divider"),
           "control flow PASS" \in said' =>
               \/ "control flow PASS" \in said
               \/ command = "controlflow" /\ JudgedTable("m3c") /\ JudgedTable("m3d")
    PROVE  ScriptInvariant'
<1>1. /\ script' = command /\ command' = command /\ at' = "end" /\ disk' = disk
    BY DEF DriverReturns, Return
<1>2. command \notin {"m3", "m3c", "m3d", "m4", "m2", "suite", "divider"}
    BY DEF Drivers
<1>3. Fresh' /\ InLoop' /\ EndedWell'
    BY <1>1, <1>2 DEF Fresh, InLoop, EndedWell, Calibrated, CacheScripts
<1>4. SaidPass'
    BY <1>1, <1>2 DEF SaidPass
<1>5. SummariesThere'
    BY <1>1 DEF ScriptInvariant, SummariesThere
<1>6. Milestone2'
    BY <1>1, <1>2, TablesKept DEF ScriptInvariant, Milestone2, Calibrated
<1>7. ControlFlow'
    BY <1>1, <1>2, TablesKept DEF ScriptInvariant, ControlFlow, CacheScripts
<1> QED
    BY <1>3, <1>4, <1>5, <1>6, <1>7 DEF ScriptInvariant

-----------------------------------------------------------------------------
(* The steps of one process after the other.                               *)

LEMMA InitKeeps == Init => ScriptInvariant
<1> SUFFICES ASSUME Init PROVE ScriptInvariant
    OBVIOUS
<1>1. at = "idle" /\ said = {} /\ command = "none"
    BY DEF Init, ProcessInit
<1>2. SummariesThere
    BY DEF Init, SummariesThere
<1> QED
    BY <1>1, <1>2 DEF ScriptInvariant, Fresh, InLoop, EndedWell, SaidPass, Milestone2,
                   ControlFlow

LEMMA StartKeeps ==
    ASSUME ScriptInvariant, UserStarts PROVE ScriptInvariant'
<1>1. PICK c \in Commands : Start(c)
    BY DEF UserStarts
<1>2. /\ command' = c /\ script' = c /\ at' = Entry(c) /\ rows' = << >> /\ said' = {}
      /\ disk' = disk
    BY <1>1 DEF Start
<1>3. at' \notin {"cases", "end", "idle"} /\ (at' = "call" => c \in Drivers)
    BY <1>2, EntryPlaces
<1>4. SummariesThere'
    BY <1>2 DEF ScriptInvariant, SummariesThere
<1>5. Fresh' /\ InLoop' /\ EndedWell' /\ SaidPass' /\ Milestone2' /\ ControlFlow'
    BY <1>2, <1>3 DEF Fresh, InLoop, EndedWell, SaidPass, Milestone2, Calibrated, ControlFlow,
                      CacheScripts
<1> QED
    BY <1>4, <1>5 DEF ScriptInvariant

LEMMA FinishKeeps ==
    ASSUME ScriptInvariant, Finish, UNCHANGED <<runnerVars, fetchVars>> PROVE ScriptInvariant'
<1>1. /\ command' = command /\ script' = script /\ args' = args /\ said' = said
      /\ disk' = disk /\ at = "end" /\ at' = "idle" /\ script = command
    BY DEF Finish
<1>2. SummariesThere'
    BY <1>1 DEF ScriptInvariant, SummariesThere
<1>3. Fresh' /\ InLoop' /\ EndedWell'
    BY <1>1 DEF Fresh, InLoop, EndedWell
<1>4. SaidPass'
    BY <1>1 DEF ScriptInvariant, SaidPass
<1>5. Milestone2' /\ ControlFlow'
    BY <1>1, TablesKept DEF ScriptInvariant, Milestone2, ControlFlow
<1> QED
    BY <1>2, <1>3, <1>4, <1>5 DEF ScriptInvariant

LEMMA StutterKeeps ==
    ASSUME ScriptInvariant, UNCHANGED vars PROVE ScriptInvariant'
<1> USE DEF vars, processVars, runnerVars
<1>1. Fresh' /\ SummariesThere'
    BY DEF ScriptInvariant, Fresh, SummariesThere
<1>2. \A k : Established(k)' <=> Established(k)
    BY DEF Established, Correlated, TimingFact
<1>3. InLoop'
    BY <1>2 DEF ScriptInvariant, InLoop, SeqLike, Demanded, RowPasses, Correlated, TimingFact,
                Settled, ModelOnly
<1>4. AllCorrelate' <=> AllCorrelate
    BY DEF AllCorrelate, Correlated, TimingFact
<1>5. EndedWell'
    BY <1>4, TablesKept DEF ScriptInvariant, EndedWell, Demanded, CalibratedClaim, M2Claim
<1>6. SaidPass'
    BY <1>4 DEF ScriptInvariant, SaidPass, PassClaim, DividerClaim, Settled, Correlated, TimingFact
<1>7. Milestone2' /\ ControlFlow'
    BY TablesKept DEF ScriptInvariant, Milestone2, ControlFlow
<1> QED
    BY <1>1, <1>3, <1>5, <1>6, <1>7 DEF ScriptInvariant

-----------------------------------------------------------------------------
(* The scripts that explore, compare summaries, select and analyse.        *)

LEMMA DesignElsewhere ==
    ASSUME DesignNext
    PROVE  Elsewhere
<1> USE DEF InScript, Goto, Return, Raise
<1>1. script \in {"sweep", "m6a", "compare5b", "compare6b"}
    BY DEF DesignNext, DesignBuild, Simulate, SweepEnds, M6aDedupes, M6aReports, Compare5b,
           Compare6b
<1>2. script \notin Runners /\ script \notin Drivers
    BY <1>1 DEF Runners, Drivers
<1>3. /\ script' = script /\ command' = command /\ args' = args
      /\ at \in {"build", "cases", "report", "read"} /\ at' \in {"cases", "report", "end"}
    <2>1. CASE DesignBuild
        BY <2>1 DEF DesignBuild, Build
    <2>2. CASE Simulate
        BY <2>2 DEF Simulate
    <2>3. CASE SweepEnds \/ M6aDedupes
        BY <2>3 DEF SweepEnds, M6aDedupes
    <2>4. CASE M6aReports
        BY <2>4 DEF M6aReports
    <2>5. CASE Compare5b \/ Compare6b
        BY <2>5 DEF Compare5b, Compare6b
    <2> QED
        BY <2>1, <2>2, <2>3, <2>4, <2>5 DEF DesignNext
<1>4. said' \cap PassClaims = said \cap PassClaims
      /\ NoNewDriverClaim
    <2>1. \E line \in {"5b PASS", "5b MEASURE", "6b PASS", "6b CHECK"} :
             said' = said \/ said' = said \cup {line}
        <3>1. CASE Compare5b
            BY <3>1 DEF Compare5b
        <3>2. CASE Compare6b
            BY <3>2 DEF Compare6b
        <3> QED
            BY <3>1, <3>2 DEF DesignNext, DesignBuild, Build, Simulate, SweepEnds, M6aDedupes,
                              M6aReports
    <2> QED
        BY <2>1 DEF PassClaims, NoNewDriverClaim, DriverClaims
<1>5. ASSUME NEW file \in {"summary", "reference"} PROVE Kept(file)
    <2> USE DEF Kept
    <2>1. CASE UNCHANGED disk
        BY <2>1
    <2>2. CASE SweepEnds
        BY <1>5, <2>2 DEF SweepEnds
    <2>3. CASE M6aReports
        BY <1>5, <2>3 DEF M6aReports, Space
    <2> QED
        BY <2>1, <2>2, <2>3 DEF DesignNext, DesignBuild, Build, Simulate, M6aDedupes,
                                Compare5b, Compare6b
<1> QED
    BY <1>2, <1>3, <1>4, <1>5 DEF Elsewhere

LEMMA SelectionElsewhere ==
    ASSUME SelectionNext
    PROVE  Elsewhere
<1> USE DEF InScript, Goto, Return, Raise
<1>1. script \notin Runners /\ script \notin Drivers
    BY DEF SelectionNext, ReadFile, Merge, ClassifyAndReport, Runners, Drivers
<1>2. /\ script' = script /\ command' = command /\ args' = args
      /\ at \in {"read", "classify"} /\ at' \in {"read", "classify", "end"}
    BY DEF SelectionNext, ReadFile, Merge, ClassifyAndReport
<1>3. said' \cap PassClaims = said \cap PassClaims
      /\ NoNewDriverClaim
    <2>1. said' = said \/ said' = said \cup {"selection PASS", "selection PERF_512_64"}
        BY DEF SelectionNext, ReadFile, Merge, ClassifyAndReport
    <2> QED
        BY <2>1 DEF PassClaims, NoNewDriverClaim, DriverClaims
<1>4. Kept("summary") /\ Kept("reference")
    BY DEF SelectionNext, ReadFile, Merge, ClassifyAndReport, Kept
<1> QED
    BY <1>1, <1>2, <1>3, <1>4 DEF Elsewhere

LEMMA FetchElsewhere ==
    ASSUME FetchNext
    PROVE  Elsewhere
<1> USE DEF InScript, Goto, Return, Raise
<1>1. script \notin Runners /\ script \notin Drivers
    BY DEF FetchNext, ProbeReads, ProbeGroups, ProbeEnds, FetchCase, FetchEnds, FetchScripts,
           Runners, Drivers
<1>2. /\ script' = script /\ command' = command /\ args' = args /\ disk' = disk
      /\ at \in {"read", "group"} /\ at' \in {"read", "group", "end"}
    BY DEF FetchNext, ProbeReads, ProbeGroups, ProbeEnds, FetchCase, FetchEnds
<1>3. said' \cap PassClaims = said \cap PassClaims
      /\ NoNewDriverClaim
    BY DEF FetchNext, ProbeReads, ProbeGroups, ProbeEnds, FetchCase, FetchEnds, PassClaims,
           NoNewDriverClaim, DriverClaims
<1> QED
    BY <1>1, <1>2, <1>3 DEF Elsewhere, Kept

LEMMA GapsElsewhere ==
    ASSUME AnalyzeGaps
    PROVE  Elsewhere
BY DEF AnalyzeGaps, InScript, Return, Elsewhere, Kept, Runners, Drivers, NoNewDriverClaim

-----------------------------------------------------------------------------
(* The runners.                                                            *)

LEMMA RunnerBuildKeeps ==
    ASSUME ScriptInvariant, RunnerBuild PROVE ScriptInvariant'
<1>1. /\ script \in Runners /\ script' = script /\ command' = command /\ args' = args
      /\ said' = said /\ rows' = rows /\ disk' = disk /\ taken' = << >>
      /\ at = "build" /\ ((at' = "cases") \/ (at' = "end" /\ rc' # 0))
    BY DEF RunnerBuild, Build, InScript, Goto, Return, Raise, CmakeStatus
<1>2. "summary" \in DOMAIN disk' /\ disk'.summary = disk.summary
    BY <1>1 DEF ScriptInvariant, SummariesThere
<1>3. CASE at' = "cases"
    <2>1. rows' = << >>
        BY <1>1 DEF ScriptInvariant, Fresh
    <2>2. InLoop'
        BY <1>1, <2>1, EmptySeqLike DEF InLoop
    <2> QED
        BY <1>1, <1>2, <1>3, <2>2, LoopStep
<1>4. CASE at' = "end" /\ rc' # 0
    BY <1>1, <1>2, <1>4, FailingEnd
<1> QED
    BY <1>1, <1>3, <1>4

LEMMA SettledAppended ==
    ASSUME SeqLike(taken), script' = script, NEW fact, taken' = Append(taken, fact), Settled(fact),
           \A k \in DOMAIN taken : Settled(taken[k])
    PROVE  \A k \in DOMAIN taken' : Settled(taken[k])'
<1>1. PICK n : n = Len(taken) + 1
    OBVIOUS
<1>2. taken'[n] = fact /\ DOMAIN taken' = DOMAIN taken \cup {n}
    BY <1>1, Appended
<1>3. ASSUME NEW k \in DOMAIN taken PROVE Settled(taken[k])'
    <2>1. taken'[k] = taken[k]
        BY Appended
    <2> QED
        BY <2>1 DEF Settled, Correlated, TimingFact
<1>4. Settled(taken[n])'
    BY <1>2 DEF Settled, Correlated, TimingFact
<1> QED
    BY <1>2, <1>3, <1>4

LEMMA CalibratedModelFailsKeeps ==
    ASSUME ScriptInvariant, CalibratedModelFails PROVE ScriptInvariant'
<1>1. /\ script \in Calibrated /\ script' = script /\ command' = command /\ args' = args
      /\ said' = said /\ disk' = disk /\ at = "cases" /\ at' = "cases" /\ failure'
    BY DEF CalibratedModelFails, MoreCases, InScript, Goto
<1>2. script \in Runners /\ script \notin {"m2", "m3d", "m4"} /\ script \notin CacheScripts
    BY <1>1 DEF Runners, Calibrated, CacheScripts
<1>3. SeqLike(taken) /\ SeqLike(rows)
    BY <1>1, <1>2 DEF ScriptInvariant, InLoop
<1>4. SeqLike(taken)' /\ SeqLike(rows)'
    <2>1. PICK e \in Evidence[script] : Take(e)
        BY DEF CalibratedModelFails
    <2>2. SeqLike(taken')
        BY <1>3, <2>1, Appended DEF Take
    <2>3. SeqLike(rows')
        <3>1. rows' = rows \/ \E row : rows' = Append(rows, row)
            BY DEF CalibratedModelFails, Collect
        <3> QED
            BY <1>3, <3>1, Appended
    <2> QED
        BY <2>2, <2>3 DEF SeqLike
<1>5. InLoop'
    BY <1>1, <1>2, <1>4 DEF InLoop
<1>6. "summary" \in DOMAIN disk' /\ disk'.summary = disk.summary
    BY <1>1 DEF ScriptInvariant, SummariesThere
<1> QED
    BY <1>1, <1>2, <1>5, <1>6, LoopStep

LEMMA CalibratedWaitsKeeps ==
    ASSUME ScriptInvariant, CalibratedWaits PROVE ScriptInvariant'
<1>1. /\ script \in Calibrated /\ script' = script /\ command' = command /\ args' = args
      /\ said' = said /\ disk' = disk /\ at = "cases" /\ at' = "cases"
    BY DEF CalibratedWaits, MoreCases, InScript, Goto
<1>2. script \in Runners /\ script \notin {"m2", "m3d", "m4"} /\ script \notin CacheScripts
    BY <1>1 DEF Runners, Calibrated, CacheScripts
<1>3. SeqLike(taken) /\ SeqLike(rows)
    BY <1>1, <1>2 DEF ScriptInvariant, InLoop
<1>4. Demanded => failure'
    BY DEF CalibratedWaits, Demanded
<1>5. SeqLike(taken)' /\ SeqLike(rows)'
    <2>1. PICK e \in Evidence[script] : Take(e)
        BY DEF CalibratedWaits
    <2>2. SeqLike(taken')
        BY <1>3, <2>1, Appended DEF Take
    <2>3. SeqLike(rows')
        <3>1. \E row : rows' = Append(rows, row)
            BY DEF CalibratedWaits, Collect
        <3> QED
            BY <1>3, <3>1, Appended
    <2> QED
        BY <2>2, <2>3 DEF SeqLike
<1>6. ASSUME ~ModelOnly, ~failure'
      PROVE  \A k \in DOMAIN taken' : Settled(taken[k])'
    <2>1. PICK e \in Evidence[script] : /\ e.ran /\ ~e.hasRtl /\ FrozenOk(e) /\ ~failure
                                        /\ Take(e)
        BY <1>1, <1>6 DEF CalibratedWaits, ModelOnly
    <2>2. Settled(Facts(e, ThisCase))
        BY <2>1 DEF Settled, Facts, FrozenOk
    <2>3. taken' = Append(taken, Facts(e, ThisCase))
        BY <2>1 DEF Take
    <2>4. \A k \in DOMAIN taken : Settled(taken[k])
        BY <1>1, <1>2, <1>6, <2>1 DEF ScriptInvariant, InLoop
    <2> QED
        BY <1>1, <1>3, <2>2, <2>3, <2>4, SettledAppended
<1>7. InLoop'
    BY <1>1, <1>2, <1>4, <1>5, <1>6 DEF InLoop, Demanded, ModelOnly
<1>8. "summary" \in DOMAIN disk' /\ disk'.summary = disk.summary
    BY <1>1 DEF ScriptInvariant, SummariesThere
<1> QED
    BY <1>1, <1>2, <1>7, <1>8, LoopStep

LEMMA CalibratedJudgesKeeps ==
    ASSUME CollectorExact, ScriptInvariant, CalibratedJudges PROVE ScriptInvariant'
<1>1. /\ script \in Calibrated /\ script' = script /\ command' = command /\ args' = args
      /\ said' = said /\ disk' = disk /\ at = "cases" /\ at' = "cases"
    BY DEF CalibratedJudges, MoreCases, InScript, Goto
<1>2. script \in Runners /\ script \notin {"m2", "m3d", "m4"} /\ script \notin CacheScripts
    BY <1>1 DEF Runners, Calibrated, CacheScripts
<1>3. /\ SeqLike(taken) /\ SeqLike(rows)
      /\ Demanded /\ ~failure =>
           Len(rows) = Len(taken) /\ \A k \in DOMAIN taken : Established(k)
    BY <1>1, <1>2 DEF ScriptInvariant, InLoop
<1>4. PICK e \in Evidence[script] :
          /\ e.ran /\ e.hasRtl /\ Take(e)
          /\ Collect(Verdict(CompareArch(e.model, e.rtl)), Verdict(TimingOk(e)), "-")
          /\ ~failure' => ~failure /\ FrozenOk(e) /\ CompareArch(e.model, e.rtl) /\ TimingOk(e)
    BY DEF CalibratedJudges
<1> DEFINE fact == Facts(e, ThisCase)
           row == [case |-> ThisCase.name, arch |-> Verdict(CompareArch(e.model, e.rtl)),
                   timing |-> Verdict(TimingOk(e)), stats |-> "-"]
<1>5. taken' = Append(taken, fact) /\ rows' = Append(rows, row)
    BY <1>4 DEF Take, Collect
<1> HIDE DEF fact, row
<1>6. ~failure' => Correlated(fact) /\ fact.frozen /\ row.arch = "PASS" /\ row.timing = "PASS"
    BY <1>1, <1>4, JudgedIsCorrelated DEF fact, row, Verdict
<1>7. SeqLike(taken') /\ SeqLike(rows')
    BY <1>3, <1>5, Appended
<1>8. ASSUME Demanded, ~failure'
      PROVE  Len(rows') = Len(taken') /\ \A k \in DOMAIN taken' : Established(k)'
    <2>1. Len(rows) = Len(taken) /\ \A k \in DOMAIN taken : Established(k)
        BY <1>3, <1>4, <1>8
    <2>2. Len(rows') = Len(taken') /\ Len(taken) \in Nat
        BY <1>3, <1>5, <2>1, Appended
    <2>3. ASSUME NEW k \in DOMAIN taken
          PROVE  taken'[k] = taken[k] /\ rows'[k] = rows[k]
        BY <1>3, <1>5, <2>1, Appended
    <2>4. PICK n : n = Len(taken) + 1
        OBVIOUS
    <2>5. /\ taken'[n] = fact /\ rows'[n] = row
          /\ DOMAIN taken' = DOMAIN taken \cup {n}
        BY <1>3, <1>5, <2>1, <2>4, Appended
    <2>6. ASSUME NEW k \in DOMAIN taken PROVE Established(k)'
        BY <1>1, <2>1, <2>3 DEF Established, Correlated, TimingFact
    <2>7. Established(n)'
        BY <1>1, <1>6, <1>8, <2>5 DEF Established, Correlated, TimingFact
    <2> QED
        BY <2>2, <2>5, <2>6, <2>7
<1>9. ASSUME ~ModelOnly, ~failure'
      PROVE  \A k \in DOMAIN taken' : Settled(taken[k])'
    <2>1. \A k \in DOMAIN taken : Settled(taken[k])
        BY <1>1, <1>2, <1>4, <1>9 DEF ScriptInvariant, InLoop
    <2>2. Settled(fact)
        BY <1>6, <1>9 DEF Settled, Correlated
    <2> QED
        BY <1>1, <1>3, <1>5, <2>1, <2>2, SettledAppended
<1>10. InLoop'
    BY <1>1, <1>2, <1>7, <1>8, <1>9 DEF InLoop, SeqLike, Demanded, ModelOnly
<1>11. "summary" \in DOMAIN disk' /\ disk'.summary = disk.summary
    BY <1>1 DEF ScriptInvariant, SummariesThere
<1> QED
    BY <1>1, <1>2, <1>10, <1>11, LoopStep

LEMMA CalibratedEndsKeeps ==
    ASSUME ScriptInvariant, CalibratedEnds PROVE ScriptInvariant'
<1>1. /\ script \in Calibrated /\ script' = script /\ command' = command /\ args' = args
      /\ rows' = rows /\ taken' = taken /\ at = "cases" /\ at' = "end"
      /\ disk' = [disk EXCEPT !.summary[script] = rows]
      /\ Len(taken) = Len(Cases[script]) /\ (rc' = 0 => ~failure)
    <2>1. rc' = IF failure THEN 1 ELSE 0
        BY DEF CalibratedEnds, Return
    <2>2. rc' = 0 => ~failure
        BY <2>1
    <2> QED
        BY <2>2 DEF CalibratedEnds, AllTaken, InScript, Return, runnerVars
<1>2. script \in Runners /\ script \notin {"m2", "m3d", "m4"} /\ script \notin CacheScripts
    BY <1>1 DEF Runners, Calibrated, CacheScripts
<1>3. /\ "summary" \in DOMAIN disk' /\ DOMAIN disk'.summary = Runners
      /\ disk'.summary[script] = rows
      /\ \A s \in Runners \ {script} : disk'.summary[s] = disk.summary[s]
    BY <1>1, <1>2 DEF ScriptInvariant, SummariesThere
<1>4. /\ NoNewDriverClaim
      /\ said' \cap PassClaims # {} => script = "divider" /\ DividerClaim'
    <2>1. said \cap PassClaims = {}
        BY <1>1 DEF ScriptInvariant, SaidPass
    <2>2. /\ said' \subseteq said \cup {"divider exact"}
          /\ said' # said => script = "divider" /\ ~ModelOnly /\ ~failure
        BY DEF CalibratedEnds
    <2>3. ASSUME said' # said PROVE DividerClaim'
        <3>1. \A k \in DOMAIN taken : Settled(taken[k])
            BY <1>1, <1>2, <2>2, <2>3 DEF ScriptInvariant, InLoop
        <3> QED
            BY <1>1, <3>1 DEF DividerClaim, Settled, Correlated, TimingFact
    <2> QED
        BY <2>1, <2>2, <2>3 DEF NoNewDriverClaim, DriverClaims
<1>5. ASSUME rc' = 0, Demanded PROVE CalibratedClaim' /\ PassingTable(script)'
    <2>1. /\ SeqLike(taken) /\ SeqLike(rows) /\ Len(rows) = Len(taken)
          /\ \A k \in DOMAIN taken : Established(k)
        BY <1>1, <1>2, <1>5 DEF ScriptInvariant, InLoop
    <2>2. CalibratedClaim'
        BY <1>1, <2>1 DEF CalibratedClaim, AllCorrelate, Established, Correlated, TimingFact
    <2>3. DOMAIN rows = DOMAIN taken
        BY <2>1, Appended
    <2>4. PassingTable(script)'
        BY <1>1, <1>3, <2>1, <2>3 DEF PassingTable, Established
    <2> QED
        BY <2>2, <2>4
<1>6. EndedWell'
    BY <1>1, <1>2, <1>5 DEF EndedWell, Demanded, CacheScripts
<1> QED
    BY <1>1, <1>2, <1>3, <1>4, <1>6, EndStep

LEMMA M2CheckKeeps ==
    ASSUME ScriptInvariant, M2Check PROVE ScriptInvariant'
<1>1. /\ script = "m2" /\ script' = script /\ command' = command /\ args' = args
      /\ said' = said /\ rows' = rows /\ disk' = disk /\ at = "check"
      /\ ((at' = "build") \/ (at' = "end" /\ rc' # 0))
    BY DEF M2Check, InScript, Goto, Return
<1>2. script \in Runners /\ script \notin Calibrated
    BY <1>1 DEF Runners, Calibrated
<1>3. "summary" \in DOMAIN disk' /\ disk'.summary = disk.summary
    BY <1>1 DEF ScriptInvariant, SummariesThere
<1>4. CASE at' = "build"
    <2>1. Fresh' /\ InLoop' /\ EndedWell'
        BY <1>1, <1>4 DEF ScriptInvariant, Fresh, InLoop, EndedWell
    <2>2. SummariesThere' /\ SaidPass' /\ Milestone2' /\ ControlFlow'
        BY <1>1, <1>3, TablesKept DEF ScriptInvariant, SummariesThere, SaidPass, Milestone2,
                                      ControlFlow
    <2> QED
        BY <2>1, <2>2 DEF ScriptInvariant
<1>5. CASE at' = "end" /\ rc' # 0
    BY <1>1, <1>2, <1>3, <1>5, FailingEnd
<1> QED
    BY <1>1, <1>4, <1>5

LEMMA M2CaseKeeps ==
    ASSUME CollectorExact, ScriptInvariant, M2Case PROVE ScriptInvariant'
<1>1. /\ script = "m2" /\ script' = script /\ command' = command /\ args' = args
      /\ disk' = disk /\ at = "cases" /\ at' = "end"
    BY DEF M2Case, MoreCases, InScript, Raise, Return
<1>2. script \in Runners /\ script \notin Calibrated
    BY <1>1 DEF Runners, Calibrated
<1>3. /\ "summary" \in DOMAIN disk' /\ disk'.summary = disk.summary
      /\ DOMAIN disk'.summary = Runners
    BY <1>1 DEF ScriptInvariant, SummariesThere
<1>4. CASE rc' # 0 /\ said' = said
    BY <1>1, <1>2, <1>3, <1>4, FailingEnd
<1>5. CASE \E e \in Evidence[script] :
              /\ e.hasRtl /\ Take(e) /\ e.ran /\ CompareTraces(e.model, e.rtl, TRUE) = 0
              /\ said' = said \cup {"smoke timing completed"}
    <2>1. PICK e \in Evidence[script] : /\ e.hasRtl /\ Take(e) /\ e.ran
                                        /\ CompareTraces(e.model, e.rtl, TRUE) = 0
        BY <1>5, Zenon
    <2>2. Traced(e.model, e.rtl)
        BY <2>1, Zenon DEF Traced
    <2>3. e.rtl = e.truth
        BY <1>2, <2>1 DEF CollectorExact
    <2>4. \A t \in {e.model, e.truth} : Len(t) \in Nat /\ t = [k \in 1 .. Len(t) |-> t[k]]
        BY <1>2, ScriptAssumption
    <2>5. /\ Len(e.model) \in Nat /\ e.model = [k \in 1 .. Len(e.model) |-> e.model[k]]
          /\ Len(e.truth) \in Nat /\ e.truth = [k \in 1 .. Len(e.truth) |-> e.truth[k]]
        BY <2>4
    <2>6. DOMAIN e.model = 1 .. Len(e.model) /\ DOMAIN e.truth = 1 .. Len(e.truth)
        BY <2>5
    <2>7. /\ Len(e.model) = Len(e.truth) /\ Commits(e.model) = Commits(e.truth)
          /\ CycleValues(e.model) = CycleValues(e.truth)
        BY <2>2, <2>3, <2>5, <2>6, CompareTracesSound
    <2>8. LastCycle(e.model) = LastCycle(e.truth)
        BY <2>5, <2>7, SameCyclesSameEnd
    <2> DEFINE fact == Facts(e, ThisCase)
    <2>9. fact.ran /\ fact.there /\ fact.commits /\ fact.last /\ fact.cycles
        BY <2>1, <2>7, <2>8 DEF Facts
    <2>10. taken' = Append(taken, fact)
        BY <2>1 DEF Take
    <2> HIDE DEF fact
    <2>11. taken = << >>
        BY <1>1, <1>2 DEF ScriptInvariant, InLoop
    <2>12. Len(taken') = 1 /\ DOMAIN taken' = {1} /\ taken'[1] = fact
        BY <2>10, <2>11, EmptySeqLike, Appended
    <2>13. M2Claim'
        BY <1>1, <2>9, <2>12, ScriptAssumption DEF M2Claim, AllCorrelate, Correlated, TimingFact
    <2>14. EndedWell'
        BY <1>1, <1>2, <2>13 DEF EndedWell, CacheScripts
    <2>15. said' \cap PassClaims = {} /\ NoNewDriverClaim
        BY <1>1, <1>5 DEF ScriptInvariant, SaidPass, PassClaims, NoNewDriverClaim, DriverClaims
    <2> QED
        BY <1>1, <1>2, <1>3, <2>14, <2>15, EndStep
<1>6. \/ rc' # 0 /\ said' = said
      \/ \E e \in Evidence[script] :
              /\ e.hasRtl /\ Take(e) /\ e.ran /\ CompareTraces(e.model, e.rtl, TRUE) = 0
              /\ said' = said \cup {"smoke timing completed"}
    <2>1. PICK e \in Evidence[script] :
             /\ e.hasRtl /\ Take(e)
             /\ \/ Raise /\ UNCHANGED said
                \/ /\ e.ran /\ CompareTraces(e.model, e.rtl, TRUE) = 0
                   /\ said' = said \cup {"smoke timing completed"}
        BY Zenon DEF M2Case
    <2>2. CASE Raise /\ UNCHANGED said
        BY <2>2 DEF Raise, Return
    <2> QED
        BY <2>1, <2>2, Zenon
<1> QED
    BY <1>4, <1>5, <1>6

(* An iteration of a script whose rows carry the verdict.                  *)
LEMMA VerdictStep ==
    ASSUME ScriptInvariant, script \in CacheScripts \cup {"m4"}, script' = script, args' = args,
           at = "cases", NEW fact, NEW row,
           taken' = Append(taken, fact), rows' = Append(rows, row),
           script \in {"m3d", "m4"} /\ row.arch = "PASS" /\ row.timing = "PASS"
               /\ row.stats = "PASS" => Correlated(fact) /\ fact.agree,
           script \in CacheScripts /\ ~ModelOnly => row.arch \in {"PASS", "FAIL"}
    PROVE  InLoop'
<1>1. script \in Runners /\ script \notin Calibrated /\ script # "m2"
    BY DEF CacheScripts, Runners, Calibrated
<1>2. /\ SeqLike(taken) /\ SeqLike(rows)
      /\ script \in {"m3d", "m4"} =>
           /\ Len(rows) = Len(taken)
           /\ \A k \in DOMAIN taken : RowPasses(k) => Correlated(taken[k]) /\ taken[k].agree
    BY <1>1 DEF ScriptInvariant, InLoop
<1>3. SeqLike(taken') /\ SeqLike(rows')
    BY <1>2, Appended
<1>4. ASSUME script \in {"m3d", "m4"}
      PROVE  /\ Len(rows') = Len(taken')
             /\ \A k \in DOMAIN taken' :
                  RowPasses(k)' => Correlated(taken[k])' /\ taken'[k].agree
    <2>1. Len(rows') = Len(taken')
        BY <1>2, <1>4, Appended
    <2>2. PICK n : n = Len(taken) + 1
        OBVIOUS
    <2>3. /\ taken'[n] = fact /\ rows'[n] = row
          /\ DOMAIN taken' = DOMAIN taken \cup {n}
        BY <1>2, <1>4, <2>2, Appended
    <2>4. ASSUME NEW k \in DOMAIN taken
          PROVE  taken'[k] = taken[k] /\ rows'[k] = rows[k]
        BY <1>2, <1>4, Appended
    <2>5. ASSUME NEW k \in DOMAIN taken, RowPasses(k)'
          PROVE  Correlated(taken[k])' /\ taken'[k].agree
        BY <1>2, <1>4, <2>4, <2>5 DEF RowPasses, Correlated, TimingFact
    <2>6. RowPasses(n)' => Correlated(taken[n])' /\ taken'[n].agree
        BY <1>4, <2>3 DEF RowPasses, Correlated, TimingFact
    <2> QED
        BY <2>1, <2>3, <2>5, <2>6
<1>5. ASSUME script \in CacheScripts, ~ModelOnly
      PROVE  /\ Len(rows') = Len(taken')
             /\ \A k \in DOMAIN rows' : rows'[k].arch \in {"PASS", "FAIL"}
    <2>1. /\ Len(rows) = Len(taken)
          /\ \A k \in DOMAIN rows : rows[k].arch \in {"PASS", "FAIL"}
        BY <1>1, <1>5 DEF ScriptInvariant, InLoop
    <2>2. Len(rows') = Len(taken')
        BY <1>2, <2>1, Appended
    <2>3. PICK n : n = Len(rows) + 1
        OBVIOUS
    <2>4. rows'[n] = row /\ DOMAIN rows' = DOMAIN rows \cup {n}
        BY <1>2, <2>3, Appended
    <2>5. \A k \in DOMAIN rows : rows'[k] = rows[k]
        BY <1>2, Appended
    <2> QED
        BY <1>5, <2>1, <2>2, <2>4, <2>5
<1> QED
    BY <1>1, <1>3, <1>4, <1>5 DEF InLoop, SeqLike, ModelOnly

LEMMA CacheCaseRaisesKeeps ==
    ASSUME ScriptInvariant, CacheCaseRaises PROVE ScriptInvariant'
<1>1. /\ script \in CacheScripts /\ script' = script /\ command' = command /\ args' = args
      /\ said' = said /\ disk' = disk /\ at = "cases" /\ at' = "end" /\ rc' # 0
    BY DEF CacheCaseRaises, MoreCases, InScript, Raise, Return
<1>2. "summary" \in DOMAIN disk' /\ disk'.summary = disk.summary
    BY <1>1 DEF ScriptInvariant, SummariesThere
<1> QED
    BY <1>1, <1>2, FailingEnd DEF CacheScripts, Runners

LEMMA CacheCaseWaitsKeeps ==
    ASSUME ScriptInvariant, CacheCaseWaits PROVE ScriptInvariant'
<1>1. /\ script \in CacheScripts /\ script' = script /\ command' = command /\ args' = args
      /\ said' = said /\ disk' = disk /\ at = "cases" /\ at' = "cases"
    BY DEF CacheCaseWaits, MoreCases, InScript, Goto
<1>2. "summary" \in DOMAIN disk' /\ disk'.summary = disk.summary
    BY <1>1 DEF ScriptInvariant, SummariesThere
<1>3. PICK e \in Evidence[script] : Take(e)
    BY DEF CacheCaseWaits
<1> DEFINE row == [case |-> ThisCase.name, arch |-> "WAIT", timing |-> "WAIT", stats |-> "WAIT"]
<1>4. taken' = Append(taken, Facts(e, ThisCase)) /\ rows' = Append(rows, row)
    BY <1>3 DEF CacheCaseWaits, Take, Collect
<1>5. row.arch # "PASS" /\ ModelOnly
    BY <1>1 DEF CacheCaseWaits, ModelOnly, CacheScripts, Calibrated
<1> HIDE DEF row
<1>6. InLoop'
    BY <1>1, <1>4, <1>5, VerdictStep
<1> QED
    BY <1>1, <1>2, <1>6, LoopStep DEF CacheScripts, Runners

LEMMA CacheCaseJudgedKeeps ==
    ASSUME CollectorExact, ScriptInvariant, CacheCaseJudged PROVE ScriptInvariant'
<1>1. /\ script \in CacheScripts /\ script' = script /\ command' = command /\ args' = args
      /\ said' = said /\ disk' = disk /\ at = "cases" /\ at' = "cases"
    BY DEF CacheCaseJudged, MoreCases, InScript, Goto
<1>2. "summary" \in DOMAIN disk' /\ disk'.summary = disk.summary
    BY <1>1 DEF ScriptInvariant, SummariesThere
<1>3. PICK e \in Evidence[script] :
         /\ e.ran /\ e.hasRtl /\ Take(e)
         /\ Collect(Verdict(ArchEqual(e.model, e.rtl)),
                    Verdict(LastCycle(e.model) = LastCycle(e.rtl)), Verdict(StatsOk(e)))
    BY DEF CacheCaseJudged
<1> DEFINE row == [case |-> ThisCase.name, arch |-> Verdict(ArchEqual(e.model, e.rtl)),
                   timing |-> Verdict(LastCycle(e.model) = LastCycle(e.rtl)),
                   stats |-> Verdict(StatsOk(e))]
<1>4. taken' = Append(taken, Facts(e, ThisCase)) /\ rows' = Append(rows, row)
    BY <1>3 DEF Take, Collect
<1>5. ASSUME script \in {"m3d", "m4"}, row.arch = "PASS", row.timing = "PASS", row.stats = "PASS"
      PROVE  Correlated(Facts(e, ThisCase)) /\ Facts(e, ThisCase).agree
    <2>1. ArchEqual(e.model, e.rtl) /\ LastCycle(e.model) = LastCycle(e.rtl) /\ StatsOk(e)
        BY <1>5 DEF Verdict
    <2>2. script = "m3d"
        BY <1>1, <1>5 DEF CacheScripts
    <2>3. FetchCountersEqual(e.printed, e.counters)
        BY <2>1, <2>2 DEF StatsOk
    <2> QED
        BY <1>3, <2>1, <2>2, <2>3, MatchIsCorrelated, CountersAgree
<1>6. row.arch \in {"PASS", "FAIL"}
    BY DEF Verdict
<1> HIDE DEF row
<1>7. InLoop'
    BY <1>1, <1>4, <1>5, <1>6, VerdictStep
<1> QED
    BY <1>1, <1>2, <1>7, LoopStep DEF CacheScripts, Runners

LEMMA M4RaisesKeeps ==
    ASSUME ScriptInvariant, M4Fails \/ M4Misses PROVE ScriptInvariant'
<1>1. /\ script = "m4" /\ script' = script /\ command' = command /\ args' = args
      /\ said' = said /\ at = "cases" /\ at' = "end" /\ rc' # 0
    BY DEF M4Fails, M4Misses, MoreCases, InScript, Raise, Return
<1>2. "summary" \in DOMAIN disk' /\ disk'.summary = disk.summary
    BY DEF M4Fails, M4Misses, WriteModelSummary, ScriptInvariant, SummariesThere
<1> QED
    BY <1>1, <1>2, FailingEnd DEF Runners

LEMMA M4CaseKeeps ==
    ASSUME CollectorExact, ScriptInvariant, M4Case PROVE ScriptInvariant'
<1>1. /\ script = "m4" /\ script' = script /\ command' = command /\ args' = args
      /\ said' = said /\ at = "cases" /\ at' = "cases"
    BY DEF M4Case, MoreCases, InScript, Goto
<1>2. "summary" \in DOMAIN disk' /\ disk'.summary = disk.summary
    BY DEF M4Case, WriteModelSummary, ScriptInvariant, SummariesThere
<1>3. PICK e \in Evidence[script] :
         /\ e.ran /\ Take(e)
         /\ \/ /\ e.hasRtl
               /\ Collect(Verdict(ArchCompareStream(e.model, e.rtl)),
                          Measure(LastCycle(e.model) = LastCycle(e.rtl)),
                          Measure(AllCountersEqual(e.printed, e.counters)))
            \/ Collect("WAIT", "MEASURE", "MEASURE")
    BY DEF M4Case
<1>4. PICK row : /\ rows' = Append(rows, row)
                 /\ row.arch = "PASS" /\ row.timing = "PASS" /\ row.stats = "PASS" =>
                      /\ e.hasRtl /\ ArchCompareStream(e.model, e.rtl)
                      /\ LastCycle(e.model) = LastCycle(e.rtl)
                      /\ AllCountersEqual(e.printed, e.counters)
    <2>1. CASE /\ e.hasRtl
               /\ Collect(Verdict(ArchCompareStream(e.model, e.rtl)),
                          Measure(LastCycle(e.model) = LastCycle(e.rtl)),
                          Measure(AllCountersEqual(e.printed, e.counters)))
        BY <2>1 DEF Collect, Verdict, Measure
    <2>2. CASE Collect("WAIT", "MEASURE", "MEASURE")
        BY <2>2 DEF Collect
    <2> QED
        BY <1>3, <2>1, <2>2
<1>5. taken' = Append(taken, Facts(e, ThisCase))
    BY <1>3 DEF Take
<1>6. ASSUME row.arch = "PASS", row.timing = "PASS", row.stats = "PASS"
      PROVE  Correlated(Facts(e, ThisCase)) /\ Facts(e, ThisCase).agree
    BY <1>1, <1>3, <1>4, <1>6, MatchIsCorrelated, CountersAgree
<1>7. script \notin CacheScripts
    BY <1>1 DEF CacheScripts
<1>8. InLoop'
    BY <1>1, <1>4, <1>5, <1>6, <1>7, VerdictStep
<1> QED
    BY <1>1, <1>2, <1>8, LoopStep DEF Runners

(* The end of run_milestone3, 3c, 3d and 4.                                *)
LEMMA VerdictEndsKeeps ==
    ASSUME ScriptInvariant, CacheScriptEnds \/ M4Ends PROVE ScriptInvariant'
<1>1. /\ script \in CacheScripts \cup {"m4"} /\ script' = script /\ command' = command
      /\ args' = args /\ rows' = rows /\ taken' = taken /\ at = "cases" /\ at' = "end"
      /\ disk' = [disk EXCEPT !.summary[script] = rows]
      /\ Len(taken) = Len(Cases[script])
    BY DEF CacheScriptEnds, M4Ends, AllTaken, InScript, Return, runnerVars
<1>2. script \in Runners /\ script \notin Calibrated /\ script # "m2"
    BY <1>1 DEF CacheScripts, Runners, Calibrated
<1>3. /\ "summary" \in DOMAIN disk' /\ DOMAIN disk'.summary = Runners
      /\ \A s \in Runners \ {script} : disk'.summary[s] = disk.summary[s]
    BY <1>1, <1>2 DEF ScriptInvariant, SummariesThere
<1>4. said \cap PassClaims = {}
    BY <1>1 DEF ScriptInvariant, SaidPass
<1>5. \E lines \in SUBSET {"m3d PASS", "m3d FAIL", "m4 PASS", "m4 see gaps"} :
         /\ said' = said \cup lines
         /\ lines \cap PassClaims # {} => AllPass /\ script \in {"m3d", "m4"}
    <2>1. CASE CacheScriptEnds
        <3> DEFINE lines == IF script # "m3d" \/ ModelOnly THEN {}
                            ELSE IF AllPass THEN {"m3d PASS"} ELSE {"m3d FAIL"}
        <3>1. said' = said \cup lines
            BY <2>1 DEF CacheScriptEnds
        <3>2. lines \in SUBSET {"m3d PASS", "m3d FAIL", "m4 PASS", "m4 see gaps"}
            OBVIOUS
        <3>3. lines \cap PassClaims # {} => AllPass /\ script \in {"m3d", "m4"}
            BY DEF PassClaims
        <3> QED
            BY <3>1, <3>2, <3>3
    <2>2. CASE M4Ends
        <3> DEFINE lines == IF ModelOnly THEN {}
                            ELSE IF AllPass THEN {"m4 PASS"} ELSE {"m4 see gaps"}
        <3>1. said' = said \cup lines
            BY <2>2 DEF M4Ends
        <3>2. lines \in SUBSET {"m3d PASS", "m3d FAIL", "m4 PASS", "m4 see gaps"}
            OBVIOUS
        <3>3. lines \cap PassClaims # {} => AllPass /\ script \in {"m3d", "m4"}
            BY <2>2 DEF PassClaims, M4Ends
        <3> QED
            BY <3>1, <3>2, <3>3
    <2> QED
        BY <2>1, <2>2
<1>6. NoNewDriverClaim
    BY <1>5 DEF NoNewDriverClaim, DriverClaims
<1>7. ASSUME said' \cap PassClaims # {}
      PROVE  script \in {"m3d", "m4"} /\ PassClaim'
    <2>1. AllPass /\ script \in {"m3d", "m4"}
        BY <1>4, <1>5, <1>7
    <2>2. /\ SeqLike(taken) /\ SeqLike(rows) /\ Len(rows) = Len(taken)
          /\ \A k \in DOMAIN taken : RowPasses(k) => Correlated(taken[k]) /\ taken[k].agree
        BY <1>1, <1>2, <2>1 DEF ScriptInvariant, InLoop
    <2>3. DOMAIN rows = DOMAIN taken
        BY <2>2, Appended
    <2>4. \A k \in DOMAIN taken : Correlated(taken[k]) /\ taken[k].agree
        BY <2>1, <2>2, <2>3 DEF AllPass, RowPasses
    <2> QED
        BY <1>1, <2>1, <2>4 DEF PassClaim, AllCorrelate, Correlated, TimingFact
<1>8. ASSUME script \in CacheScripts, Demanded
      PROVE  JudgedTable(script)'
    <2>1. /\ Len(rows) = Len(taken)
          /\ \A k \in DOMAIN rows : rows[k].arch \in {"PASS", "FAIL"}
        BY <1>1, <1>2, <1>8 DEF ScriptInvariant, InLoop, ModelOnly, Demanded
    <2>2. disk'.summary[script] = rows
        BY <1>1, <1>2 DEF ScriptInvariant, SummariesThere
    <2> QED
        BY <1>1, <2>1, <2>2 DEF JudgedTable
<1>9. EndedWell'
    BY <1>1, <1>2, <1>8 DEF EndedWell, Demanded
<1> QED
    BY <1>1, <1>2, <1>3, <1>6, <1>7, <1>9, EndStep

-----------------------------------------------------------------------------
(* The drivers.                                                            *)

LEMMA DriverCallsKeeps ==
    ASSUME ScriptInvariant, DriverCalls PROVE ScriptInvariant'
<1>1. at = "call" /\ script = command /\ script \in Drivers
    BY DEF DriverCalls, ScriptInvariant, Fresh
<1>2. PICK flags : /\ Call(FirstChild(script), flags)
                   /\ script \in {"m2complete", "controlflow"} => flags = {"requireRtl"}
    BY DEF DriverCalls
<1>3. /\ FirstChild(script) \notin Drivers
      /\ script = "m2complete" => FirstChild(script) = "suite"
      /\ script = "controlflow" => FirstChild(script) = "m3c"
    BY <1>1 DEF FirstChild, Drivers
<1>4. said \cap PassClaims = {} /\ said \cap DriverClaims = {}
    BY <1>1 DEF ScriptInvariant, SaidPass, Milestone2, ControlFlow, DriverClaims
<1> QED
    BY <1>1, <1>2, <1>3, <1>4, CallStep

LEMMA M2CompleteKeeps ==
    ASSUME ScriptInvariant, M2CompleteNext PROVE ScriptInvariant'
<1>1. /\ command = "m2complete" /\ script # command /\ at = "end"
      /\ command \in Drivers /\ script \in {"suite", "divider"} /\ args = {"requireRtl"}
    BY DEF M2CompleteNext, ScriptInvariant, Milestone2, Drivers, Calibrated
<1>2. /\ said \cap DriverClaims = {}
      /\ script = "suite" => said \cap PassClaims = {}
    BY <1>1 DEF ScriptInvariant, SaidPass, Milestone2, ControlFlow, Drivers, DriverClaims
<1>3. rc = 0 => PassingTable(script)
    BY <1>1 DEF ScriptInvariant, EndedWell, Demanded, Calibrated
<1>4. CASE rc # 0 /\ DriverReturns(rc) /\ UNCHANGED said
    BY <1>1, <1>4, ReturnStep
<1>5. CASE rc = 0 /\ script = "suite" /\ Call("divider", {"requireRtl"})
    BY <1>1, <1>2, <1>3, <1>5, CallStep DEF Drivers
<1>6. CASE /\ rc = 0 /\ script = "divider"
           /\ DriverReturns(0) /\ said' = said \cup {"milestone 2 complete"}
    <2>1. PassingTable("suite") /\ PassingTable("divider")
        BY <1>1, <1>3, <1>6 DEF ScriptInvariant, Milestone2
    <2>2. said' \cap PassClaims = said \cap PassClaims
        BY <1>6 DEF PassClaims
    <2> QED
        BY <1>1, <1>6, <2>1, <2>2, ReturnStep
<1> QED
    BY <1>4, <1>5, <1>6 DEF M2CompleteNext

LEMMA OtherDriversKeep ==
    ASSUME ScriptInvariant, ControlflowNext \/ M3bNext \/ M4bNext PROVE ScriptInvariant'
<1>1. /\ command \in {"controlflow", "m3b", "m4b"} /\ command \in Drivers
      /\ script # command /\ at = "end"
    BY DEF ControlflowNext, M3bNext, M4bNext, Drivers
<1>2. said \cap DriverClaims = {}
    <2>1. "milestone 2 complete" \notin said
        BY <1>1 DEF ScriptInvariant, Milestone2
    <2>2. "control flow PASS" \notin said
        <3>1. "control flow PASS" \in said => command = "controlflow" /\ script = "controlflow"
            BY Zenon DEF ScriptInvariant, ControlFlow
        <3> QED
            BY <1>1, <3>1
    <2> QED
        BY <2>1, <2>2 DEF DriverClaims
<1>3. ASSUME NEW status, DriverReturns(status),
             said' = said \/ said' = said \cup {"milestone 3b target"}
      PROVE  ScriptInvariant'
    BY <1>1, <1>3, ReturnStep DEF PassClaims
<1>4. CASE ControlflowNext
    <2>1. /\ command = "controlflow" /\ script \in {"m3c", "m3d"} /\ args = {"requireRtl"}
          /\ rc = 0 => JudgedTable(script)
        <3>1. command = "controlflow" /\ script \in {"m3c", "m3d"}
            BY <1>1, <1>4 DEF ControlflowNext, ScriptInvariant, ControlFlow
        <3>2. script \in CacheScripts /\ args = {"requireRtl"}
            BY <3>1 DEF ScriptInvariant, ControlFlow, CacheScripts
        <3>3. rc = 0 => JudgedTable(script)
            BY <1>1, <3>2 DEF ScriptInvariant, EndedWell, Demanded
        <3> QED
            BY <3>1, <3>2, <3>3
    <2>2. CASE rc # 0 /\ DriverReturns(1) /\ UNCHANGED said
        BY <1>3, <2>2
    <2>3. CASE rc = 0 /\ script = "m3c" /\ Call("m3d", {"requireRtl"})
        <3>1. said \cap PassClaims = {}
            BY <2>3 DEF ScriptInvariant, SaidPass, Drivers
        <3> QED
            BY <1>2, <2>1, <2>3, <3>1, CallStep DEF Drivers
    <2>4. CASE /\ rc = 0 /\ script = "m3d"
               /\ DriverReturns(0) /\ said' = said \cup {"control flow PASS"}
        <3>1. JudgedTable("m3c") /\ JudgedTable("m3d")
            BY <2>1, <2>4 DEF ScriptInvariant, ControlFlow
        <3>2. said' \cap PassClaims = said \cap PassClaims
            BY <2>4 DEF PassClaims
        <3> QED
            BY <1>1, <2>1, <2>4, <3>1, <3>2, ReturnStep
    <2> QED
        BY <1>4, <2>2, <2>3, <2>4 DEF ControlflowNext
<1>5. CASE M3bNext
    <2>1. CASE script = "m3" /\ Call("icacheFetch", {}) /\ command = "m3b"
        <3>1. said \cap PassClaims = {}
            BY <2>1 DEF ScriptInvariant, SaidPass, Drivers
        <3> QED
            BY <1>2, <2>1, <3>1, CallStep DEF Drivers
    <2> QED
        BY <1>3, <1>5, <2>1 DEF M3bNext
<1>6. CASE M4bNext
    BY <1>3, <1>6 DEF M4bNext
<1> QED
    BY <1>4, <1>5, <1>6

-----------------------------------------------------------------------------

(* Every step of every script keeps the invariant.                         *)
LEMMA StepKeeps ==
    ASSUME CollectorExact, ScriptInvariant, [Next]_vars PROVE ScriptInvariant'
<1>1. CASE RunnerNext
    BY <1>1, RunnerBuildKeeps, CalibratedModelFailsKeeps, CalibratedWaitsKeeps,
       CalibratedJudgesKeeps, CalibratedEndsKeeps, M2CheckKeeps, M2CaseKeeps,
       CacheCaseRaisesKeeps, CacheCaseWaitsKeeps, CacheCaseJudgedKeeps, VerdictEndsKeeps,
       M4RaisesKeeps, M4CaseKeeps, GapsElsewhere, ElsewhereStep, DriverCallsKeeps, M2CompleteKeeps,
       OtherDriversKeep
    DEF RunnerNext
<1>2. CASE ScriptStep
    BY <1>1, <1>2, FinishKeeps, DesignElsewhere, SelectionElsewhere, FetchElsewhere,
       ElsewhereStep DEF ScriptStep
<1> QED
    BY <1>2, StartKeeps, StutterKeeps DEF Next

LEMMA InvariantClaims == ScriptInvariant => CorrelationClaims
BY DEF ScriptInvariant, EndedWell, SaidPass, Milestone2, ControlFlow, CorrelationClaims,
       CalibratedClaim, M2Claim, PassClaim, DividerClaim, Settled, PassClaims

(* If the collector writes down what the RTL committed, then whatever the  *)
(* cases, the evidence, the flags and the order of the commands are: the   *)
(* model commits and retires as the RTL did in every case after status 0   *)
(* of a calibrated script that required the RTL or of run_milestone2,      *)
(* after the PASS of run_milestone3d and 4 and after MILESTONE 2 COMPLETE; *)
(* in every case with an RTL trace after the divider's line that timing is *)
(* exact; and after the PASS of run_controlflow_validation every case was  *)
(* compared, which is all that line establishes.                           *)
THEOREM ConclusionsAreEstablished == CollectorExact => (Spec => []CorrelationClaims)
<1>1. ASSUME CollectorExact PROVE Spec => []CorrelationClaims
    <2>1. ScriptInvariant /\ [Next]_vars => ScriptInvariant'
        BY <1>1, StepKeeps
    <2> QED
        BY <2>1, InitKeeps, InvariantClaims, PTL DEF Spec
<1> QED
    BY <1>1

-----------------------------------------------------------------------------
(* Rows and files: what a row says of its case, and what a script leaves.  *)

(* Each row is of a case taken, in the order of the cases, and judges what *)
(* was taken for it.                                                       *)
Placed(place) ==
    /\ place \in [DOMAIN rows -> DOMAIN taken]
    /\ \A j, k \in DOMAIN rows : j < k => place[j] < place[k]
    /\ \A k \in DOMAIN rows :
         /\ rows[k].case = Cases[script][place[k]].name
         /\ CollectorExact => Judges(rows[k], taken[place[k]])

RowsPlaced ==
    script \in Runners =>
        /\ rows # << >> => DOMAIN taken \subseteq DOMAIN Cases[script]
        /\ \E place \in [DOMAIN rows -> DOMAIN taken] : Placed(place)

(* Only run_milestone2 and a divider script that has failed may have fewer *)
(* rows than cases taken.                                                  *)
AsManyRows == script # "m2" /\ (script = "divider" => ~failure)

LoopWhole ==
    /\ at \in {"build", "check"} => rows = << >>
    /\ at = "cases" /\ script \in Runners =>
         /\ SeqLike(taken) /\ SeqLike(rows) /\ Len(taken) <= Len(Cases[script])
         /\ AsManyRows => Len(rows) = Len(taken)

FilesWhole ==
    /\ "summary" \in DOMAIN disk /\ "reference" \in DOMAIN disk
    /\ DOMAIN disk.summary = Runners /\ disk.reference # "unsigned"
    /\ \A s \in Runners \ {"m2"} : WholeTable(disk.summary[s], s)

EndsWhole ==
    /\ at = "end" /\ rc = 0 /\ script \in Runners \ {"m2"} => LeftWhole(script)
    /\ at = "idle" /\ exit = 0 /\ command \in Runners \ {"m2"} => LeftWhole(command)

WholeInvariant == RowsPlaced /\ LoopWhole /\ FilesWhole /\ EndsWhole

-----------------------------------------------------------------------------
(* Verdicts.  A comparison passes exactly when the same was committed.     *)

LEMMA SameCommitIsSameRow ==
    ASSUME NEW m, NEW r, Commit(m) = Commit(r)
    PROVE  SameRow(m, r)
<1>1. m.pc = r.pc /\ m.insn = r.insn /\ m.write = r.write
    BY DEF Commit
<1>2. ASSUME m.write # 0 PROVE m.rd = r.rd /\ m.wdata = r.wdata
    <2>1. <<m.rd, m.wdata>> = <<r.rd, r.wdata>>
        BY <1>1, <1>2 DEF Commit
    <2> QED
        BY <2>1
<1> QED
    BY <1>1, <1>2 DEF SameRow, SameInsn, SameResult

LEMMA SameCommitsAreSameRows ==
    ASSUME NEW model, NEW rtl, Len(model) \in Nat, Len(rtl) \in Nat,
           DOMAIN model = 1 .. Len(model), DOMAIN rtl = 1 .. Len(rtl),
           Commits(model) = Commits(rtl)
    PROVE  Len(model) = Len(rtl) /\ \A k \in DOMAIN model : SameRow(model[k], rtl[k])
<1>1. DOMAIN Commits(model) = DOMAIN model /\ DOMAIN Commits(rtl) = DOMAIN rtl
    BY DEF Commits
<1>2. 1 .. Len(model) = 1 .. Len(rtl)
    BY <1>1
<1>3. Len(model) = Len(rtl)
    <2>1. ASSUME NEW m \in Nat, NEW n \in Nat, 1 .. m = 1 .. n PROVE m = n
        <3>1. m # 0 => m \in 1 .. n
            BY <2>1
        <3>2. n # 0 => n \in 1 .. m
            BY <2>1
        <3> QED
            BY <3>1, <3>2
    <2> QED
        BY <1>2, <2>1
<1>4. ASSUME NEW k \in DOMAIN model PROVE SameRow(model[k], rtl[k])
    <2>1. Commits(model)[k] = Commit(model[k]) /\ Commits(rtl)[k] = Commit(rtl[k])
        BY <1>1 DEF Commits
    <2> QED
        BY <2>1, SameCommitIsSameRow
<1> QED
    BY <1>3, <1>4

LEMMA ComparisonsAreExact ==
    ASSUME NEW model, NEW rtl, Len(model) \in Nat, Len(rtl) \in Nat,
           DOMAIN model = 1 .. Len(model), DOMAIN rtl = 1 .. Len(rtl)
    PROVE  /\ CompareArch(model, rtl) <=> Commits(model) = Commits(rtl)
           /\ ArchEqual(model, rtl) <=> Commits(model) = Commits(rtl)
           /\ ArchCompareStream(model, rtl) <=> Commits(model) = Commits(rtl)
<1>1. ASSUME Commits(model) = Commits(rtl)
      PROVE  CompareArch(model, rtl) /\ ArchEqual(model, rtl) /\ ArchCompareStream(model, rtl)
    <2>1. Len(model) = Len(rtl) /\ \A k \in DOMAIN model : SameRow(model[k], rtl[k])
        BY <1>1, SameCommitsAreSameRows
    <2>2. CompareArch(model, rtl)
        BY <2>1 DEF CompareArch
    <2>3. ArchEqual(model, rtl)
        BY <2>1 DEF ArchEqual, SameRow
    <2>4. ArchCompareStream(model, rtl)
        <3>1. Len(model) + 1 \in 1 .. Len(model) + 1
            OBVIOUS
        <3>2. ASSUME NEW k \in 1 .. (Len(model) + 1) - 1
              PROVE  k <= Len(model) /\ k <= Len(rtl) /\ SameRow(model[k], rtl[k])
            BY <2>1
        <3> QED
            BY <2>1, <3>1, <3>2 DEF ArchCompareStream
    <2> QED
        BY <2>2, <2>3, <2>4
<1> QED
    BY <1>1, CompareArchSound, ArchEqualSound, ArchCompareStreamSound

(* What a script finds of a case, when the collector is exact.             *)
LEMMA EvidenceIsExact ==
    ASSUME CollectorExact, script \in Runners, NEW e \in Evidence[script], e.hasRtl
    PROVE  /\ e.rtl = e.truth
           /\ CompareArch(e.model, e.rtl) <=> Commits(e.model) = Commits(e.truth)
           /\ ArchEqual(e.model, e.rtl) <=> Commits(e.model) = Commits(e.truth)
           /\ ArchCompareStream(e.model, e.rtl) <=> Commits(e.model) = Commits(e.truth)
<1>1. e.rtl = e.truth
    BY DEF CollectorExact
<1>2. /\ Len(e.model) \in Nat /\ DOMAIN e.model = 1 .. Len(e.model)
      /\ Len(e.truth) \in Nat /\ DOMAIN e.truth = 1 .. Len(e.truth)
    <2>1. ASSUME NEW t \in {e.model, e.truth} PROVE Len(t) \in Nat /\ DOMAIN t = 1 .. Len(t)
        BY ScriptAssumption
    <2> QED
        BY <2>1
<1> QED
    BY <1>1, <1>2, ComparisonsAreExact

(* A row whose columns say what was found judges it.                       *)
LEMMA RowJudges ==
    ASSUME NEW row, NEW f,
           row.arch = "PASS" <=> f.commits, row.timing = "PASS" <=> TimingFact(f),
           f.commits \in BOOLEAN, TimingFact(f) \in BOOLEAN,
           row.stats = "PASS" => f.agree, row.stats \in {"FAIL", "MEASURE"} => f.differ
    PROVE  Judges(row, f)
<1>1. (row.arch = "PASS") = f.commits
    OBVIOUS
<1>2. (row.timing = "PASS") = TimingFact(f)
    OBVIOUS
<1> QED
    BY <1>1, <1>2, Zenon DEF Judges

LEMMA CalibratedRowJudges ==
    ASSUME CollectorExact, script \in Calibrated, NEW e \in Evidence[script], e.hasRtl,
           NEW row, row.arch = Verdict(CompareArch(e.model, e.rtl)),
           row.timing = Verdict(TimingOk(e)), row.stats = "-"
    PROVE  Judges(row, Facts(e, ThisCase))
<1> DEFINE f == Facts(e, ThisCase)
<1>1. script \in Runners
    BY DEF Calibrated, Runners
<1>2. e.rtl = e.truth /\ (CompareArch(e.model, e.rtl) <=> Commits(e.model) = Commits(e.truth))
    BY <1>1, EvidenceIsExact
<1>3. f.commits \in BOOLEAN /\ (f.commits <=> Commits(e.model) = Commits(e.truth))
    BY DEF Facts
<1>4. TimingFact(f) \in BOOLEAN /\ (TimingFact(f) <=> TimingOk(e))
    <2>1. CASE script = "suite"
        <3>1. TimingFact(f) = (f.last /\ f.length)
            BY <2>1 DEF TimingFact
        <3>2. (f.last <=> LastCycle(e.model) = LastCycle(e.rtl))
              /\ (f.length <=> Len(e.model) = Len(e.rtl))
            BY <1>2 DEF Facts
        <3> QED
            BY <2>1, <3>1, <3>2 DEF TimingOk
    <2>2. CASE script = "divider"
        <3>1. TimingFact(f) = f.cycles
            BY <2>2 DEF TimingFact
        <3>2. f.cycles \in BOOLEAN /\ (f.cycles <=> CycleValues(e.model) = CycleValues(e.rtl))
            BY <1>2 DEF Facts
        <3> QED
            BY <2>2, <3>1, <3>2 DEF TimingOk
    <2> QED
        BY <2>1, <2>2 DEF Calibrated
<1> HIDE DEF f
<1>5. (row.arch = "PASS" <=> f.commits) /\ (row.timing = "PASS" <=> TimingFact(f))
    BY <1>2, <1>3, <1>4 DEF Verdict
<1>6. Judges(row, f)
    BY <1>3, <1>4, <1>5, RowJudges
<1> QED
    BY <1>6 DEF f

(* The columns of the other scripts: the counters of run_milestone3 are    *)
(* compared where both sides have them, an absent one of the others is 0.  *)
LEMMA CountersJudged ==
    ASSUME NEW e
    PROVE  /\ script \in CacheScripts /\ StatsOk(e) => Facts(e, ThisCase).agree
           /\ script \in CacheScripts /\ ~StatsOk(e) => Facts(e, ThisCase).differ
           /\ script = "m4" /\ AllCountersEqual(e.printed, e.counters) =>
                Facts(e, ThisCase).agree
           /\ script = "m4" /\ ~AllCountersEqual(e.printed, e.counters) =>
                Facts(e, ThisCase).differ
<1> DEFINE f == Facts(e, ThisCase)
<1>1. /\ f.agree <=> \A key \in Compared \cap DOMAIN e.printed \cap DOMAIN e.counters :
                        e.printed[key] = e.counters[key]
      /\ f.differ <=> \E key \in Compared : Read(e.printed, key) # Read(e.counters, key)
    BY DEF Facts
<1> HIDE DEF f
<1>2. CASE script = "m3"
    <2>1. Compared = CacheKeys /\ script \in CacheScripts /\ script # "m4"
        BY <1>2 DEF Compared, CacheScripts
    <2>2. StatsOk(e) <=> \A key \in CacheKeys \cap DOMAIN e.printed \cap DOMAIN e.counters :
                            e.printed[key] = e.counters[key]
        BY <1>2 DEF StatsOk, CommonCountersEqual
    <2> QED
        BY <1>1, <2>1, <2>2 DEF f, Read
<1>3. CASE script \in {"m3c", "m3d"}
    <2>1. Compared = {"iAccesses", "iHits", "iMisses"} /\ script # "m4"
        BY <1>3 DEF Compared
    <2>2. StatsOk(e) <=> \A key \in Compared : Read(e.printed, key) = Read(e.counters, key)
        BY <1>3, <2>1 DEF StatsOk, FetchCountersEqual
    <2> QED
        BY <1>1, <2>1, <2>2 DEF f, Read
<1>4. CASE script = "m4"
    <2>1. Compared = CacheKeys /\ script \notin CacheScripts
        BY <1>4 DEF Compared, CacheScripts
    <2>2. AllCountersEqual(e.printed, e.counters) <=>
             \A key \in Compared : Read(e.printed, key) = Read(e.counters, key)
        BY <2>1 DEF AllCountersEqual
    <2> QED
        BY <1>1, <2>1, <2>2 DEF f, Read
<1> QED
    BY <1>2, <1>3, <1>4 DEF CacheScripts

LEMMA OtherRowJudges ==
    ASSUME CollectorExact, script \in CacheScripts \cup {"m4"},
           NEW e \in Evidence[script], e.hasRtl, NEW row,
           \/ /\ script \in CacheScripts
              /\ row.arch = Verdict(ArchEqual(e.model, e.rtl))
              /\ row.timing = Verdict(LastCycle(e.model) = LastCycle(e.rtl))
              /\ row.stats = Verdict(StatsOk(e))
           \/ /\ script = "m4"
              /\ row.arch = Verdict(ArchCompareStream(e.model, e.rtl))
              /\ row.timing = Measure(LastCycle(e.model) = LastCycle(e.rtl))
              /\ row.stats = Measure(AllCountersEqual(e.printed, e.counters))
    PROVE  Judges(row, Facts(e, ThisCase))
<1> DEFINE f == Facts(e, ThisCase)
<1>1. script \in Runners /\ script \notin {"suite", "divider"}
    BY DEF CacheScripts, Runners
<1>2. /\ e.rtl = e.truth
      /\ ArchEqual(e.model, e.rtl) <=> Commits(e.model) = Commits(e.truth)
      /\ ArchCompareStream(e.model, e.rtl) <=> Commits(e.model) = Commits(e.truth)
    BY <1>1, EvidenceIsExact
<1>3. f.commits \in BOOLEAN /\ (f.commits <=> Commits(e.model) = Commits(e.truth))
    BY DEF Facts
<1>4. TimingFact(f) \in BOOLEAN /\ (TimingFact(f) <=> LastCycle(e.model) = LastCycle(e.rtl))
    <2>1. TimingFact(f) = f.last
        BY <1>1 DEF TimingFact
    <2>2. f.last \in BOOLEAN /\ (f.last <=> LastCycle(e.model) = LastCycle(e.rtl))
        BY <1>2 DEF Facts
    <2> QED
        BY <2>1, <2>2
<1>5. (row.stats = "PASS" => f.agree) /\ (row.stats \in {"FAIL", "MEASURE"} => f.differ)
    BY CountersJudged DEF Verdict, Measure
<1> HIDE DEF f
<1>6. (row.arch = "PASS" <=> f.commits) /\ (row.timing = "PASS" <=> TimingFact(f))
    BY <1>2, <1>3, <1>4 DEF Verdict, Measure
<1>7. Judges(row, f)
    BY <1>3, <1>4, <1>5, <1>6, RowJudges
<1> QED
    BY <1>7 DEF f

-----------------------------------------------------------------------------
(* The steps of the loops.                                                 *)

LEMMA NextCaseExists ==
    ASSUME script \in Runners, SeqLike(taken), MoreCases
    PROVE  /\ Len(taken) \in Nat /\ DOMAIN taken = 1 .. Len(taken)
           /\ Len(taken) + 1 <= Len(Cases[script])
           /\ DOMAIN taken \cup {Len(taken) + 1} \subseteq DOMAIN Cases[script]
<1>1. Len(taken) \in Nat /\ DOMAIN taken = 1 .. Len(taken)
    BY Appended
<1>2. Len(Cases[script]) \in Nat /\ DOMAIN Cases[script] = 1 .. Len(Cases[script])
    BY ScriptAssumption
<1> QED
    BY <1>1, <1>2 DEF MoreCases

(* A case is taken and has no row.                                         *)
LEMMA TakenOnly ==
    ASSUME RowsPlaced, LoopWhole, script \in Runners, MoreCases, script' = script,
           NEW fact, taken' = Append(taken, fact), rows' = rows
    PROVE  /\ RowsPlaced' /\ SeqLike(taken') /\ SeqLike(rows')
           /\ Len(taken') <= Len(Cases[script])
<1>1. /\ at = "cases" /\ SeqLike(taken) /\ SeqLike(rows)
    BY DEF MoreCases, LoopWhole
<1>2. /\ Len(taken) + 1 <= Len(Cases[script])
      /\ DOMAIN taken \cup {Len(taken) + 1} \subseteq DOMAIN Cases[script]
    BY <1>1, NextCaseExists
<1>3. /\ SeqLike(taken') /\ Len(taken') = Len(taken) + 1
      /\ DOMAIN taken' = DOMAIN taken \cup {Len(taken) + 1}
      /\ \A k \in DOMAIN taken : taken'[k] = taken[k]
    BY <1>1, Appended
<1>4. PICK place \in [DOMAIN rows -> DOMAIN taken] : Placed(place)
    BY DEF RowsPlaced
<1>5. place \in [DOMAIN rows' -> DOMAIN taken']
    BY <1>3
<1>6. ASSUME NEW k \in DOMAIN rows', CollectorExact
      PROVE  Judges(rows[k], taken[place[k]])'
    <2>1. Judges(rows[k], taken[place[k]]) /\ taken'[place[k]] = taken[place[k]]
        BY <1>3, <1>4, <1>6 DEF Placed
    <2> QED
        BY <2>1 DEF Judges, TimingFact
<1>7. Placed(place)'
    BY <1>4, <1>5, <1>6 DEF Placed
<1>8. RowsPlaced'
    BY <1>2, <1>3, <1>5, <1>7 DEF RowsPlaced
<1> QED
    BY <1>1, <1>2, <1>3, <1>8

(* A case is taken and gets a row that judges it.                          *)
LEMMA TakenWithRow ==
    ASSUME RowsPlaced, LoopWhole, script \in Runners, MoreCases, script' = script,
           NEW fact, NEW row, taken' = Append(taken, fact), rows' = Append(rows, row),
           row.case = ThisCase.name, CollectorExact => Judges(row, fact)
    PROVE  /\ RowsPlaced' /\ SeqLike(taken') /\ SeqLike(rows')
           /\ Len(taken') <= Len(Cases[script])
           /\ Len(rows) = Len(taken) => Len(rows') = Len(taken')
<1>1. /\ at = "cases" /\ SeqLike(taken) /\ SeqLike(rows)
    BY DEF MoreCases, LoopWhole
<1>2. PICK n : n = Len(taken) + 1
    OBVIOUS
<1>3. PICK m : m = Len(rows) + 1
    OBVIOUS
<1>4. /\ n <= Len(Cases[script]) /\ DOMAIN taken \cup {n} \subseteq DOMAIN Cases[script]
      /\ DOMAIN taken = 1 .. Len(taken) /\ Len(taken) \in Nat
    BY <1>1, <1>2, NextCaseExists
<1>5. /\ SeqLike(taken') /\ Len(taken') = n /\ DOMAIN taken' = DOMAIN taken \cup {n}
      /\ \A k \in DOMAIN taken : taken'[k] = taken[k]
      /\ taken'[n] = fact
    BY <1>1, <1>2, Appended
<1>6. /\ SeqLike(rows') /\ Len(rows') = m /\ DOMAIN rows' = DOMAIN rows \cup {m}
      /\ \A k \in DOMAIN rows : rows'[k] = rows[k] /\ k # m
      /\ rows'[m] = row
      /\ DOMAIN rows = 1 .. Len(rows) /\ Len(rows) \in Nat
    BY <1>1, <1>3, Appended
<1>7. PICK place \in [DOMAIN rows -> DOMAIN taken] : Placed(place)
    BY DEF RowsPlaced
<1>8. PICK further : further = [k \in DOMAIN rows' |-> IF k \in DOMAIN rows THEN place[k] ELSE n]
    OBVIOUS
<1>9. /\ further \in [DOMAIN rows' -> DOMAIN taken']
      /\ \A k \in DOMAIN rows : further[k] = place[k] /\ place[k] \in DOMAIN taken
      /\ further[m] = n
    <2>1. ASSUME NEW k \in DOMAIN rows' PROVE further[k] \in DOMAIN taken'
        BY <1>5, <1>7, <1>8
    <2>2. further \in [DOMAIN rows' -> DOMAIN taken']
        BY <1>8, <2>1
    <2>3. m \notin DOMAIN rows /\ m \in DOMAIN rows'
        BY <1>6
    <2> QED
        BY <1>6, <1>7, <1>8, <2>2, <2>3
<1>10. ASSUME NEW j \in DOMAIN rows', NEW k \in DOMAIN rows', j < k
      PROVE  further[j] < further[k]
    <2>1. j \in DOMAIN rows
        BY <1>3, <1>6, <1>10
    <2>2. CASE k \in DOMAIN rows
        BY <1>7, <1>9, <1>10, <2>1, <2>2 DEF Placed
    <2>3. CASE k = m
        <3>1. further[j] \in 1 .. Len(taken)
            BY <1>4, <1>9, <2>1
        <3> QED
            BY <1>2, <1>4, <1>9, <2>3, <3>1
    <2> QED
        BY <1>6, <2>2, <2>3
<1>11. ASSUME NEW k \in DOMAIN rows'
       PROVE  /\ rows'[k].case = Cases[script][further[k]].name
              /\ CollectorExact => Judges(rows[k], taken[further[k]])'
    <2>1. CASE k \in DOMAIN rows
        <3>1. /\ rows[k].case = Cases[script][place[k]].name
              /\ CollectorExact => Judges(rows[k], taken[place[k]])
            BY <1>7, <2>1 DEF Placed
        <3>2. rows'[k] = rows[k] /\ further[k] = place[k] /\ taken'[place[k]] = taken[place[k]]
            BY <1>5, <1>6, <1>9, <2>1
        <3> QED
            BY <3>1, <3>2 DEF Judges, TimingFact
    <2>2. CASE k = m
        <3>1. rows'[k] = row /\ further[k] = n /\ taken'[n] = fact
            BY <1>5, <1>6, <1>9, <2>2
        <3>2. row.case = Cases[script][n].name
            BY <1>2 DEF ThisCase
        <3> QED
            BY <3>1, <3>2 DEF Judges, TimingFact
    <2> QED
        BY <1>6, <2>1, <2>2
<1>12. Placed(further)'
    BY <1>9, <1>10, <1>11 DEF Placed
<1>13. RowsPlaced'
    BY <1>4, <1>5, <1>9, <1>12 DEF RowsPlaced
<1> QED
    BY <1>2, <1>3, <1>4, <1>5, <1>6, <1>13

(* An iteration that goes on to the next case, and one that ends the       *)
(* script by an exception or in run_milestone2.                            *)
LEMMA GoesOn ==
    ASSUME WholeInvariant, script \in Runners, script' = script, at' = "cases",
           RowsPlaced', FilesWhole', SeqLike(taken'), SeqLike(rows'),
           Len(taken') <= Len(Cases[script]), AsManyRows' => Len(rows') = Len(taken')
    PROVE  WholeInvariant'
<1>1. LoopWhole'
    BY DEF LoopWhole, SeqLike
<1>2. EndsWhole'
    BY DEF EndsWhole
<1> QED
    BY <1>1, <1>2 DEF WholeInvariant

LEMMA BreaksOff ==
    ASSUME WholeInvariant, script' = script, at' = "end",
           rc' # 0 \/ script \notin Runners \ {"m2"}, RowsPlaced', FilesWhole'
    PROVE  WholeInvariant'
<1>1. LoopWhole' /\ EndsWhole'
    BY DEF LoopWhole, EndsWhole
<1> QED
    BY <1>1 DEF WholeInvariant

LEMMA FilesKept ==
    ASSUME FilesWhole, Kept("summary"), Kept("reference") PROVE FilesWhole'
BY DEF FilesWhole, Kept, WholeTable

LEMMA RowsKept ==
    ASSUME RowsPlaced, script' = script, rows' = rows, taken' = taken PROVE RowsPlaced'
<1>1. CASE script \notin Runners
    BY <1>1 DEF RowsPlaced
<1>2. CASE script \in Runners
    <2>1. PICK place \in [DOMAIN rows -> DOMAIN taken] : Placed(place)
        BY <1>2 DEF RowsPlaced
    <2>2. Placed(place)'
        BY <2>1 DEF Placed, Judges, TimingFact
    <2> QED
        BY <1>2, <2>1, <2>2 DEF RowsPlaced
<1> QED
    BY <1>1, <1>2

LEMMA NoRowsPlaced ==
    ASSUME rows' = << >> PROVE RowsPlaced'
<1>1. PICK place : place = [k \in {} |-> k]
    OBVIOUS
<1>2. DOMAIN rows' = {}
    BY EmptySeqLike
<1>3. place \in [DOMAIN rows' -> DOMAIN taken']
    BY <1>1, <1>2
<1>4. Placed(place)'
    BY <1>2, <1>3 DEF Placed
<1> QED
    BY <1>3, <1>4 DEF RowsPlaced

LEMMA CalibratedIterationWhole ==
    ASSUME WholeInvariant, CalibratedModelFails \/ CalibratedWaits \/ CalibratedJudges
    PROVE  WholeInvariant'
<1>1. /\ script \in Calibrated /\ MoreCases /\ script' = script /\ at = "cases" /\ at' = "cases"
      /\ disk' = disk
    BY DEF CalibratedModelFails, CalibratedWaits, CalibratedJudges, MoreCases, InScript, Goto
<1>2. script \in Runners /\ script # "m2"
    BY <1>1 DEF Calibrated, Runners
<1>3. FilesWhole'
    BY <1>1, FilesKept DEF Kept, WholeInvariant
<1>4. /\ RowsPlaced /\ LoopWhole
      /\ AsManyRows => Len(rows) = Len(taken)
    BY <1>1, <1>2 DEF WholeInvariant, LoopWhole
<1>5. AsManyRows' => AsManyRows
    BY <1>1, <1>2
    DEF AsManyRows, CalibratedModelFails, CalibratedWaits, CalibratedJudges
<1>6. CASE CalibratedModelFails /\ script = "divider"
    <2>1. PICK e \in Evidence[script] : Take(e)
        BY <1>6 DEF CalibratedModelFails
    <2>2. taken' = Append(taken, Facts(e, ThisCase)) /\ rows' = rows /\ failure'
        BY <1>6, <2>1 DEF CalibratedModelFails, Take
    <2>3. ~AsManyRows'
        BY <1>1, <1>6, <2>2 DEF AsManyRows
    <2> QED
        BY <1>1, <1>2, <1>3, <1>4, <2>2, <2>3, TakenOnly, GoesOn
<1>7. ASSUME NEW e \in Evidence[script], NEW row, Take(e), rows' = Append(rows, row),
             row.case = ThisCase.name, CollectorExact => Judges(row, Facts(e, ThisCase))
      PROVE  WholeInvariant'
    <2>1. taken' = Append(taken, Facts(e, ThisCase))
        BY <1>7 DEF Take
    <2> QED
        BY <1>1, <1>2, <1>3, <1>4, <1>5, <1>7, <2>1, TakenWithRow, GoesOn
<1>8. CASE CalibratedModelFails /\ script # "divider"
    <2>1. PICK e \in Evidence[script] : ~e.ran /\ Take(e)
        BY <1>8 DEF CalibratedModelFails
    <2>2. PICK row : /\ row = [case |-> ThisCase.name, arch |-> "FAIL", timing |-> "N/A",
                               stats |-> "-"]
                     /\ rows' = Append(rows, row)
        BY <1>1, <1>8 DEF CalibratedModelFails, Collect, Calibrated
    <2>3. Judges(row, Facts(e, ThisCase))
        BY <2>1 DEF Judges, Facts
    <2>4. row.case = ThisCase.name
        BY <2>2
    <2> QED
        BY <1>7, <2>1, <2>2, <2>3, <2>4
<1>9. CASE CalibratedWaits
    <2>1. PICK e \in Evidence[script] : Take(e)
        BY <1>9 DEF CalibratedWaits
    <2>2. PICK row : /\ row = [case |-> ThisCase.name, arch |-> "WAIT", timing |-> "WAIT",
                               stats |-> "-"]
                     /\ rows' = Append(rows, row)
        BY <1>9 DEF CalibratedWaits, Collect
    <2>3. Judges(row, Facts(e, ThisCase)) /\ row.case = ThisCase.name
        BY <2>2 DEF Judges
    <2> QED
        BY <1>7, <2>1, <2>2, <2>3
<1>10. CASE CalibratedJudges
    <2>1. PICK e \in Evidence[script] :
             /\ e.hasRtl /\ Take(e)
             /\ Collect(Verdict(CompareArch(e.model, e.rtl)), Verdict(TimingOk(e)), "-")
        BY <1>10 DEF CalibratedJudges
    <2>2. PICK row : /\ row = [case |-> ThisCase.name,
                               arch |-> Verdict(CompareArch(e.model, e.rtl)),
                               timing |-> Verdict(TimingOk(e)), stats |-> "-"]
                     /\ rows' = Append(rows, row)
        BY <2>1 DEF Collect
    <2>3. /\ row.arch = Verdict(CompareArch(e.model, e.rtl)) /\ row.case = ThisCase.name
          /\ row.timing = Verdict(TimingOk(e)) /\ row.stats = "-"
        BY <2>2
    <2>4. CollectorExact => Judges(row, Facts(e, ThisCase))
        BY <1>1, <2>1, <2>3, CalibratedRowJudges
    <2> QED
        BY <1>7, <2>1, <2>2, <2>3, <2>4
<1> QED
    BY <1>6, <1>8, <1>9, <1>10

(* The other scripts go through their cases or break off.                  *)
LEMMA M2CaseShape ==
    ASSUME M2Case
    PROVE  /\ script = "m2" /\ MoreCases /\ (\E e \in Evidence[script] : Take(e))
           /\ InScript /\ at' = "end" /\ rows' = rows /\ disk' = disk
<1>1. at' = "end"
    BY Zenon DEF M2Case, Raise, Return
<1>2. rows' = rows /\ disk' = disk
    <2>1. UNCHANGED <<rows, disk, failure>>
        BY Zenon DEF M2Case
    <2> QED
        BY <2>1
<1> QED
    BY <1>1, <1>2, Zenon DEF M2Case

LEMMA RaisingIterationWhole ==
    ASSUME WholeInvariant, M2Case \/ CacheCaseRaises \/ M4Fails \/ M4Misses
    PROVE  WholeInvariant'
<1>1. /\ script \in Runners /\ MoreCases /\ script' = script /\ at' = "end" /\ rows' = rows
      /\ rc' # 0 \/ script \notin Runners \ {"m2"}
    <2>1. CASE M2Case
        BY <2>1, M2CaseShape DEF InScript, Runners
    <2>2. CASE CacheCaseRaises \/ M4Fails \/ M4Misses
        BY <2>2 DEF CacheCaseRaises, M4Fails, M4Misses, InScript, Raise, Return, CacheScripts,
                    Runners
    <2> QED
        BY <2>1, <2>2
<1>2. PICK e \in Evidence[script] : Take(e)
    BY M2CaseShape DEF CacheCaseRaises, M4Fails, M4Misses
<1>3. taken' = Append(taken, Facts(e, ThisCase))
    BY <1>2 DEF Take
<1>4. RowsPlaced'
    BY <1>1, <1>3, TakenOnly DEF WholeInvariant
<1>5. FilesWhole'
    <2>1. CASE disk' = disk
        BY <2>1, FilesKept DEF Kept, WholeInvariant
    <2>2. CASE M4Misses
        <3>1. disk' = [disk EXCEPT !.reference = "signed"]
            BY <2>2 DEF M4Misses, WriteModelSummary
        <3> QED
            BY <3>1 DEF WholeInvariant, FilesWhole, WholeTable
    <2> QED
        BY <2>1, <2>2, M2CaseShape DEF CacheCaseRaises, M4Fails
<1> QED
    BY <1>1, <1>4, <1>5, BreaksOff

LEMMA OtherIterationWhole ==
    ASSUME WholeInvariant, CacheCaseWaits \/ CacheCaseJudged \/ M4Case
    PROVE  WholeInvariant'
<1>1. /\ script \in CacheScripts \cup {"m4"} /\ MoreCases /\ script' = script
      /\ at = "cases" /\ at' = "cases"
    BY DEF CacheCaseWaits, CacheCaseJudged, M4Case, MoreCases, InScript, Goto
<1>2. script \in Runners /\ script \notin {"m2", "divider"}
    BY <1>1 DEF CacheScripts, Runners
<1>3. RowsPlaced /\ LoopWhole /\ Len(rows) = Len(taken)
    BY <1>1, <1>2 DEF WholeInvariant, LoopWhole, AsManyRows
<1>4. FilesWhole'
    <2>1. CASE disk' = disk
        BY <2>1, FilesKept DEF Kept, WholeInvariant
    <2>2. CASE M4Case
        <3>1. disk' = [disk EXCEPT !.reference = "signed"]
            BY <2>2 DEF M4Case, WriteModelSummary
        <3> QED
            BY <3>1 DEF WholeInvariant, FilesWhole, WholeTable
    <2> QED
        BY <2>1, <2>2 DEF CacheCaseWaits, CacheCaseJudged
<1>5. ASSUME NEW e \in Evidence[script], NEW row, Take(e), rows' = Append(rows, row),
             row.case = ThisCase.name, CollectorExact => Judges(row, Facts(e, ThisCase))
      PROVE  WholeInvariant'
    <2>1. taken' = Append(taken, Facts(e, ThisCase))
        BY <1>5 DEF Take
    <2> QED
        BY <1>1, <1>2, <1>3, <1>4, <1>5, <2>1, TakenWithRow, GoesOn
<1>6. ASSUME NEW e \in Evidence[script], NEW timing, NEW stats, Take(e),
             Collect("WAIT", timing, stats)
      PROVE  WholeInvariant'
    <2>1. PICK row : /\ row = [case |-> ThisCase.name, arch |-> "WAIT", timing |-> timing,
                               stats |-> stats]
                     /\ rows' = Append(rows, row)
        BY <1>6 DEF Collect
    <2>2. Judges(row, Facts(e, ThisCase)) /\ row.case = ThisCase.name
        BY <2>1 DEF Judges
    <2> QED
        BY <1>5, <1>6, <2>1, <2>2
<1>7. ASSUME NEW e \in Evidence[script], NEW arch, NEW timing, NEW stats, e.hasRtl, Take(e),
             Collect(arch, timing, stats),
             \/ /\ script \in CacheScripts
                /\ arch = Verdict(ArchEqual(e.model, e.rtl))
                /\ timing = Verdict(LastCycle(e.model) = LastCycle(e.rtl))
                /\ stats = Verdict(StatsOk(e))
             \/ /\ script = "m4"
                /\ arch = Verdict(ArchCompareStream(e.model, e.rtl))
                /\ timing = Measure(LastCycle(e.model) = LastCycle(e.rtl))
                /\ stats = Measure(AllCountersEqual(e.printed, e.counters))
      PROVE  WholeInvariant'
    <2>1. PICK row : /\ row = [case |-> ThisCase.name, arch |-> arch, timing |-> timing,
                               stats |-> stats]
                     /\ rows' = Append(rows, row)
        BY <1>7 DEF Collect
    <2>2. row.case = ThisCase.name /\ row.arch = arch /\ row.timing = timing /\ row.stats = stats
        BY <2>1
    <2>3. CollectorExact => Judges(row, Facts(e, ThisCase))
        BY <1>1, <1>7, <2>2, OtherRowJudges
    <2> QED
        BY <1>5, <1>7, <2>1, <2>2, <2>3
<1>8. CASE CacheCaseWaits
    BY <1>6, <1>8 DEF CacheCaseWaits
<1>9. CASE CacheCaseJudged
    BY <1>7, <1>9 DEF CacheCaseJudged
<1>10. CASE M4Case
    <2>1. PICK e \in Evidence[script] :
             /\ Take(e) /\ script = "m4"
             /\ \/ /\ e.hasRtl
                   /\ Collect(Verdict(ArchCompareStream(e.model, e.rtl)),
                              Measure(LastCycle(e.model) = LastCycle(e.rtl)),
                              Measure(AllCountersEqual(e.printed, e.counters)))
                \/ Collect("WAIT", "MEASURE", "MEASURE")
        BY <1>10 DEF M4Case
    <2> QED
        BY <1>6, <1>7, <2>1
<1> QED
    BY <1>8, <1>9, <1>10

(* The end of a loop: the rows become the summary.                         *)
LEMMA LoopEndsWhole ==
    ASSUME WholeInvariant, CalibratedEnds \/ CacheScriptEnds \/ M4Ends
    PROVE  WholeInvariant'
<1>1. /\ script \in Runners \ {"m2"} /\ script' = script /\ command' = command
      /\ at = "cases" /\ at' = "end" /\ rows' = rows /\ taken' = taken /\ failure' = failure
      /\ Len(taken) = Len(Cases[script])
      /\ disk' = [disk EXCEPT !.summary[script] = rows]
    BY DEF CalibratedEnds, CacheScriptEnds, M4Ends, AllTaken, InScript, Return, runnerVars,
           Calibrated, CacheScripts, Runners
<1>2. rc' = 0 => AsManyRows
    <2>1. CASE CalibratedEnds
        <3>1. rc' = IF failure THEN 1 ELSE 0
            BY <2>1 DEF CalibratedEnds, Return
        <3>2. rc' = 0 => ~failure
            BY <3>1
        <3> QED
            BY <1>1, <3>2 DEF AsManyRows
    <2>2. CASE CacheScriptEnds \/ M4Ends
        BY <2>2 DEF CacheScriptEnds, M4Ends, CacheScripts, AsManyRows
    <2> QED
        BY <2>1, <2>2
<1>3. RowsPlaced'
    BY <1>1, RowsKept DEF WholeInvariant
<1>4. /\ SeqLike(taken) /\ SeqLike(rows)
      /\ AsManyRows => Len(rows) = Len(Cases[script])
    BY <1>1 DEF WholeInvariant, LoopWhole
<1>5. DOMAIN taken = DOMAIN Cases[script]
    BY <1>1, <1>4, Appended, ScriptAssumption
<1>6. WholeTable(rows, script)
    <2>1. PICK place \in [DOMAIN rows -> DOMAIN taken] : Placed(place)
        BY <1>1 DEF WholeInvariant, RowsPlaced
    <2>2. script # "divider" => Len(rows) \in {0, Len(Cases[script])}
        BY <1>1, <1>4 DEF AsManyRows
    <2> QED
        BY <1>5, <2>1, <2>2 DEF WholeTable, Placed
<1>7. /\ "summary" \in DOMAIN disk' /\ "reference" \in DOMAIN disk'
      /\ DOMAIN disk'.summary = Runners /\ disk'.reference # "unsigned"
      /\ disk'.summary[script] = rows
      /\ \A s \in Runners \ {script} : disk'.summary[s] = disk.summary[s]
    BY <1>1 DEF WholeInvariant, FilesWhole
<1>8. FilesWhole'
    <2>1. ASSUME NEW s \in Runners \ {"m2"} PROVE WholeTable(disk.summary[s], s)'
        <3>1. CASE s = script
            BY <1>6, <1>7, <3>1 DEF WholeTable
        <3>2. CASE s # script
            BY <1>7, <3>2 DEF WholeInvariant, FilesWhole, WholeTable
        <3> QED
            BY <3>1, <3>2
    <2> QED
        BY <1>7, <2>1 DEF FilesWhole
<1>9. rc' = 0 => LeftWhole(script)'
    BY <1>1, <1>2, <1>4, <1>7 DEF LeftWhole
<1>10. LoopWhole' /\ EndsWhole'
    BY <1>1, <1>9 DEF LoopWhole, EndsWhole
<1> QED
    BY <1>3, <1>8, <1>10 DEF WholeInvariant

-----------------------------------------------------------------------------
(* The steps of a process outside its loop.                                *)

LEMMA InitWhole == Init => WholeInvariant
<1> SUFFICES ASSUME Init PROVE WholeInvariant
    OBVIOUS
<1>1. /\ at = "idle" /\ command = "none" /\ script = "none"
      /\ disk.reference = "old" /\ disk.summary = [s \in Runners |-> << >>]
      /\ "summary" \in DOMAIN disk /\ "reference" \in DOMAIN disk
    BY DEF Init, ProcessInit
<1>2. ASSUME NEW s PROVE WholeTable(<< >>, s)
    <2>1. PICK place : place = [k \in {} |-> k]
        OBVIOUS
    <2>2. place \in [DOMAIN << >> -> DOMAIN Cases[s]]
        BY <2>1, EmptySeqLike
    <2> QED
        BY <2>2, EmptySeqLike DEF WholeTable
<1>3. FilesWhole
    BY <1>1, <1>2 DEF FilesWhole
<1>4. RowsPlaced /\ LoopWhole /\ EndsWhole
    BY <1>1 DEF RowsPlaced, LoopWhole, EndsWhole, Runners
<1> QED
    BY <1>3, <1>4 DEF WholeInvariant

(* A script starts, as a command or as a child.                            *)
LEMMA BeginsWhole ==
    ASSUME WholeInvariant, NEW s, at' = Entry(s), rows' = << >>, disk' = disk
    PROVE  WholeInvariant'
<1>1. at' \notin {"cases", "end", "idle"}
    BY EntryPlaces
<1>2. RowsPlaced'
    BY NoRowsPlaced
<1>3. FilesWhole'
    BY FilesKept DEF Kept, WholeInvariant
<1>4. LoopWhole' /\ EndsWhole'
    BY <1>1 DEF LoopWhole, EndsWhole
<1> QED
    BY <1>2, <1>3, <1>4 DEF WholeInvariant

LEMMA ReturnsWhole ==
    ASSUME WholeInvariant, NEW status, DriverReturns(status), command \in Drivers
    PROVE  WholeInvariant'
<1>1. script' = command /\ command \notin Runners /\ at' = "end" /\ disk' = disk
    BY DEF DriverReturns, Return, Drivers, Runners
<1>2. RowsPlaced' /\ LoopWhole' /\ EndsWhole'
    BY <1>1 DEF RowsPlaced, LoopWhole, EndsWhole
<1>3. FilesWhole'
    BY <1>1, FilesKept DEF Kept, WholeInvariant
<1> QED
    BY <1>2, <1>3 DEF WholeInvariant

LEMMA DriversWhole ==
    ASSUME WholeInvariant,
           DriverCalls \/ M2CompleteNext \/ ControlflowNext \/ M3bNext \/ M4bNext
    PROVE  WholeInvariant'
<1>1. ASSUME NEW s, NEW flags, Call(s, flags) PROVE WholeInvariant'
    BY <1>1, BeginsWhole DEF Call
<1>2. CASE DriverCalls
    BY <1>1, <1>2 DEF DriverCalls
<1>3. CASE M2CompleteNext
    BY <1>1, <1>3, ReturnsWhole DEF M2CompleteNext, Drivers
<1>4. CASE ControlflowNext
    BY <1>1, <1>4, ReturnsWhole DEF ControlflowNext, Drivers
<1>5. CASE M3bNext
    BY <1>1, <1>5, ReturnsWhole DEF M3bNext, Drivers
<1>6. CASE M4bNext
    BY <1>6, ReturnsWhole DEF M4bNext, Drivers
<1> QED
    BY <1>2, <1>3, <1>4, <1>5, <1>6

LEMMA BuildWhole ==
    ASSUME WholeInvariant, RunnerBuild \/ M2Check PROVE WholeInvariant'
<1>1. /\ script \in Runners /\ script' = script /\ rows' = rows /\ disk' = disk
      /\ at \in {"build", "check"}
    BY DEF RunnerBuild, Build, M2Check, InScript, Runners
<1>2. rows = << >>
    BY <1>1 DEF WholeInvariant, LoopWhole
<1>3. FilesWhole' /\ RowsPlaced'
    BY <1>1, <1>2, FilesKept, NoRowsPlaced DEF Kept, WholeInvariant
<1>4. CASE at' = "cases"
    <2>1. taken' = << >>
        BY <1>4 DEF RunnerBuild, M2Check, Goto, Return
    <2>2. Len(Cases[script]) \in Nat
        BY <1>1, ScriptAssumption
    <2> QED
        BY <1>1, <1>2, <1>3, <1>4, <2>1, <2>2, EmptySeqLike, GoesOn
<1>5. CASE at' = "end" /\ rc' # 0
    BY <1>1, <1>3, <1>5, BreaksOff
<1>6. CASE at' = "build"
    <2>1. LoopWhole' /\ EndsWhole'
        BY <1>1, <1>2, <1>6 DEF LoopWhole, EndsWhole
    <2> QED
        BY <1>3, <2>1 DEF WholeInvariant
<1> QED
    BY <1>4, <1>5, <1>6 DEF RunnerBuild, Build, M2Check, Goto, Return, Raise, CmakeStatus

LEMMA ElsewhereWhole ==
    ASSUME WholeInvariant, Elsewhere PROVE WholeInvariant'
<1>1. FilesWhole'
    BY FilesKept DEF Elsewhere, WholeInvariant
<1>2. RowsPlaced' /\ LoopWhole' /\ EndsWhole'
    BY DEF Elsewhere, RowsPlaced, LoopWhole, EndsWhole
<1> QED
    BY <1>1, <1>2 DEF WholeInvariant

LEMMA FinishWhole ==
    ASSUME WholeInvariant, Finish, UNCHANGED runnerVars PROVE WholeInvariant'
<1>1. /\ at = "end" /\ at' = "idle" /\ script = command /\ exit' = rc /\ command' = command
      /\ script' = script /\ rows' = rows /\ disk' = disk /\ taken' = taken
    BY DEF Finish, runnerVars
<1>2. FilesWhole' /\ RowsPlaced'
    BY <1>1, FilesKept, RowsKept DEF Kept, WholeInvariant
<1>3. LoopWhole' /\ EndsWhole'
    BY <1>1 DEF WholeInvariant, LoopWhole, EndsWhole, LeftWhole
<1> QED
    BY <1>2, <1>3 DEF WholeInvariant

LEMMA StutterWhole ==
    ASSUME WholeInvariant, UNCHANGED vars PROVE WholeInvariant'
<1> USE DEF vars, processVars, runnerVars
<1>1. FilesWhole' /\ RowsPlaced'
    BY FilesKept, RowsKept DEF Kept, WholeInvariant
<1>2. LoopWhole' /\ EndsWhole'
    BY DEF WholeInvariant, LoopWhole, EndsWhole, LeftWhole, SeqLike, AsManyRows
<1> QED
    BY <1>1, <1>2 DEF WholeInvariant

LEMMA StepWhole ==
    ASSUME WholeInvariant, [Next]_vars PROVE WholeInvariant'
<1>1. CASE RunnerNext
    BY <1>1, BuildWhole, CalibratedIterationWhole, RaisingIterationWhole, OtherIterationWhole,
       LoopEndsWhole, GapsElsewhere, ElsewhereWhole, DriversWhole
    DEF RunnerNext
<1>2. CASE ScriptStep
    BY <1>1, <1>2, FinishWhole, DesignElsewhere, SelectionElsewhere, FetchElsewhere,
       ElsewhereWhole DEF ScriptStep
<1>3. CASE UserStarts
    BY <1>3, BeginsWhole DEF UserStarts, Start
<1> QED
    BY <1>2, <1>3, StutterWhole DEF Next

(* Whatever the cases, the evidence, the flags and the order of commands,  *)
(* what a script leaves in results/ and reference/ is whole: a summary in  *)
(* the order of the cases, without a hole but for the divider's failed     *)
(* model runs, and never a Dhrystone reference of an unsigned run.         *)
THEOREM FilesAreWhole == Spec => []SummaryWhole
<1>1. WholeInvariant => SummaryWhole
    BY DEF WholeInvariant, FilesWhole, EndsWhole, SummaryWhole
<1>2. WholeInvariant /\ [Next]_vars => WholeInvariant'
    BY StepWhole
<1> QED
    BY <1>1, <1>2, InitWhole, PTL DEF Spec

(* The case a row names is the one that was taken for it, because no two   *)
(* cases of a list have one name.                                          *)
LEMMA RowsFactIsPlaced ==
    ASSUME script \in Runners, DOMAIN taken \subseteq DOMAIN Cases[script],
           NEW place \in [DOMAIN rows -> DOMAIN taken], Placed(place), NEW k \in DOMAIN rows
    PROVE  FactsOf(rows[k]) = taken[place[k]]
<1>1. place[k] \in DOMAIN taken /\ rows[k].case = Cases[script][place[k]].name
    BY DEF Placed
<1>2. \A j \in DOMAIN taken : Cases[script][j].name = rows[k].case => j = place[k]
    BY <1>1, ScriptAssumption
<1>3. (CHOOSE j \in DOMAIN taken : Cases[script][j].name = rows[k].case) = place[k]
    BY <1>1, <1>2
<1> QED
    BY <1>3 DEF FactsOf

LEMMA WholeIsSound ==
    ASSUME CollectorExact, WholeInvariant PROVE VerdictsSound
<1>1. ASSUME script \in Runners, NEW k \in DOMAIN rows
      PROVE  Judges(rows[k], FactsOf(rows[k]))
    <2>1. rows # << >>
        BY EmptySeqLike
    <2>2. DOMAIN taken \subseteq DOMAIN Cases[script]
        BY <1>1, <2>1 DEF WholeInvariant, RowsPlaced
    <2>3. PICK place \in [DOMAIN rows -> DOMAIN taken] : Placed(place)
        BY <1>1 DEF WholeInvariant, RowsPlaced
    <2>4. FactsOf(rows[k]) = taken[place[k]]
        BY <1>1, <2>2, <2>3, RowsFactIsPlaced
    <2> QED
        BY <2>3, <2>4 DEF Placed
<1> QED
    BY <1>1 DEF VerdictsSound

(* If the collector writes down what the RTL committed, every verdict of   *)
(* every script is right in both directions: a row passes exactly if the   *)
(* model committed the same instructions, and in the same cycles by the    *)
(* script's measure, whichever of the comparison loops it uses.            *)
THEOREM VerdictsAreSound == CollectorExact => (Spec => []VerdictsSound)
<1>1. ASSUME CollectorExact PROVE Spec => []VerdictsSound
    <2>1. WholeInvariant => VerdictsSound
        BY <1>1, WholeIsSound
    <2>2. WholeInvariant /\ [Next]_vars => WholeInvariant'
        BY StepWhole
    <2> QED
        BY <2>1, <2>2, InitWhole, PTL DEF Spec
<1> QED
    BY <1>1
=============================================================================
