---------------------------- MODULE ScriptSystem ----------------------------
(***************************************************************************)
(* The scripts together: the user starts one command after another, and a  *)
(* command finds the files that earlier ones have left.                    *)
(***************************************************************************)
EXTENDS ValidationRunner, DesignSpace, ArchitectureSelection, FetchAnalysis

CONSTANT
    ShippedPredictions  \* reference/milestone6b as the repository has it

(* The TESTS and CASES are lists without two cases of one name, that of    *)
(* run_milestone2 has one case; traces and predictions are sequences.      *)
ASSUME ScriptAssumption ==
    /\ Len(Cases["m2"]) = 1
    /\ \A s \in Runners :
         /\ Len(Cases[s]) \in Nat /\ DOMAIN Cases[s] = 1 .. Len(Cases[s])
         /\ \A j, k \in DOMAIN Cases[s] : Cases[s][j].name = Cases[s][k].name => j = k
    /\ \A s \in Runners : \A e \in Evidence[s] : \A t \in {e.model, e.truth} :
         Len(t) \in Nat /\ t = [k \in 1 .. Len(t) |-> t[k]]
    /\ Len(ShippedPredictions) \in Nat
    /\ DOMAIN ShippedPredictions = 1 .. Len(ShippedPredictions)

vars == <<processVars, runnerVars, fetchVars>>

Init ==
    /\ ProcessInit /\ RunnerInit /\ FetchInit
    /\ disk = [summary |-> [s \in Runners |-> << >>], reference |-> "old",
               sweep |-> << >>, space |-> << >>, front |-> << >>,
               frozen |-> ShippedPredictions, selection |-> << >>]

UserStarts == \E c \in Commands : Start(c) /\ UNCHANGED <<runnerVars, fetchVars>>

ScriptStep ==
    \/ Finish /\ UNCHANGED <<runnerVars, fetchVars>>
    \/ RunnerNext /\ UNCHANGED fetchVars
    \/ (DesignNext \/ SelectionNext) /\ UNCHANGED <<runnerVars, fetchVars>>
    \/ FetchNext /\ UNCHANGED runnerVars

Next == UserStarts \/ ScriptStep

Spec == Init /\ [][Next]_vars

(* cmake, the model and every child process return: a script that can go   *)
(* on does.  Nothing makes the user start a command.                       *)
FairSpec == Spec /\ WF_vars(ScriptStep)

-----------------------------------------------------------------------------
(* What the verdicts and conclusions of the validation scripts mean.       *)

FactsOf(row) == taken[CHOOSE k \in DOMAIN taken : Cases[script][k].name = row.case]

TimingFact(f) == CASE script = "suite"   -> f.last /\ f.length
                   [] script = "divider" -> f.cycles
                   [] OTHER              -> f.last

Judges(row, f) ==
    f.ran /\ f.there /\ row.arch # "WAIT" =>
        /\ (row.arch = "PASS") = f.commits
        /\ (row.timing = "PASS") = TimingFact(f)
        /\ row.stats = "PASS" => f.agree
        /\ row.stats \in {"FAIL", "MEASURE"} => f.differ

(* A row says PASS exactly when the model committed what the RTL committed *)
(* and, by the script's own measure, in the same cycles, although the      *)
(* scripts see the RTL only through the collector's trace and compare with *)
(* five different loops.  Counters that pass agree where both sides have   *)
(* them, and counters that all agree pass.                                 *)
VerdictsSound ==
    script \in Runners => \A k \in DOMAIN rows : Judges(rows[k], FactsOf(rows[k]))

Correlated(f) == f.ran /\ f.there /\ f.commits /\ TimingFact(f)

AllCorrelate == /\ Len(taken) = Len(Cases[script])
                /\ \A k \in DOMAIN taken : Correlated(taken[k])

PassingTable(s) ==
    /\ Len(disk.summary[s]) = Len(Cases[s])
    /\ \A k \in DOMAIN disk.summary[s] :
         disk.summary[s][k].arch = "PASS" /\ disk.summary[s][k].timing = "PASS"

Demanded == "requireRtl" \in args /\ "modelOnly" \notin args

(* The trace file of the RTL is what the RTL committed.                    *)
CollectorExact == \A s \in Runners : \A e \in Evidence[s] : e.hasRtl => e.rtl = e.truth

(* Each case of both control-flow scripts was compared, whatever came out. *)
JudgedTable(s) ==
    /\ Len(disk.summary[s]) = Len(Cases[s])
    /\ \A k \in DOMAIN disk.summary[s] : disk.summary[s][k].arch \in {"PASS", "FAIL"}

(* What a status or a line of the validation scripts establishes.  Every   *)
(* case correlates if a calibrated script that was told to require the RTL *)
(* or run_milestone2 ends with 0, if run_milestone3d or 4 prints PASS, and *)
(* after MILESTONE 2 COMPLETE.  Two lines that read the same say less:     *)
(* "matches every characterization trace exactly" is printed without any   *)
(* trace too, and means that every model ran, is as frozen and correlates  *)
(* where there is a trace; the PASS of run_controlflow_validation only     *)
(* means that every case was compared (see ControlflowPassMeansPass).      *)
CorrelationClaims ==
    /\ at = "end" /\ rc = 0 /\ script \in Calibrated /\ Demanded =>
         AllCorrelate /\ \A k \in DOMAIN taken : taken[k].frozen
    /\ at = "end" /\ rc = 0 /\ script = "m2" =>
         AllCorrelate /\ \A k \in DOMAIN taken : taken[k].cycles
    /\ at = "end" /\ said \cap {"m3d PASS", "m4 PASS"} # {} /\ script \in {"m3d", "m4"} =>
         AllCorrelate /\ \A k \in DOMAIN taken : taken[k].agree
    /\ "milestone 2 complete" \in said => PassingTable("suite") /\ PassingTable("divider")
    /\ at = "end" /\ "divider exact" \in said /\ script = "divider" =>
         /\ Len(taken) = Len(Cases[script])
         /\ \A k \in DOMAIN taken :
              /\ taken[k].ran /\ taken[k].frozen
              /\ taken[k].there => Correlated(taken[k])
    /\ "control flow PASS" \in said => JudgedTable("m3c") /\ JudgedTable("m3d")

WholeTable(table, s) ==
    /\ s # "divider" => Len(table) \in {0, Len(Cases[s])}
    /\ \E place \in [DOMAIN table -> DOMAIN Cases[s]] :
         /\ \A j, k \in DOMAIN table : j < k => place[j] < place[k]
         /\ \A k \in DOMAIN table : table[k].case = Cases[s][place[k]].name

LeftWhole(s) == disk.summary[s] = rows /\ Len(rows) = Len(Cases[s])

(* What a script leaves for later commands is whole: a summary has a row   *)
(* for each case in order (the divider's, for each case whose model ran),  *)
(* a script that ends with 0 leaves its own, and the Dhrystone reference   *)
(* is only ever replaced by that of a run with the right signature.        *)
SummaryWhole ==
    /\ \A s \in Runners \ {"m2"} : WholeTable(disk.summary[s], s)
    /\ at = "idle" /\ exit = 0 /\ command \in Runners \ {"m2"} => LeftWhole(command)
    /\ disk.reference # "unsigned"

(* Every command ends.                                                     *)
ScriptsEnd == at # "idle" ~> at = "idle"

-----------------------------------------------------------------------------
(* Exploration and selection.                                              *)

Ordered(list) ==
    \A j, k \in DOMAIN list : j < k =>
        \/ Bytes(list[j]) < Bytes(list[k]) /\ list[j].cycles > list[k].cycles
        \/ Bytes(list[j]) = Bytes(list[k]) /\ list[j].cycles = list[k].cycles

(* The front printed and written by run_milestone6a, next to the rows it   *)
(* is taken from: from row to row bytes grow and cycles fall, or both are  *)
(* equal (ties are all kept, none removes another); and each grid point    *)
(* left out loses to one that is in.  No configuration is written twice.   *)
FrontExact ==
    at = "end" /\ script = "m6a" /\ rc = 0 =>
        LET front == disk.front
            In(r) == \E k \in DOMAIN front : front[k] = r
        IN  /\ front # << >> /\ Ordered(front)
            /\ \A k \in DOMAIN rows :
                 rows[k].family = "cache_grid" =>
                     (In(rows[k]) <=> ~\E j \in DOMAIN front : Beats(front[j], rows[k]))
            /\ \A k \in DOMAIN front : front[k].family = "cache_grid"
            /\ \A j, k \in DOMAIN disk.space :
                 disk.space[j].config = disk.space[k].config => j = k

Distinct(rtl) == \A j, k \in DOMAIN rtl : rtl[j].config = rtl[k].config => j = k

(* compare_milestone6b says PASS only if each prediction that the last     *)
(* exploration froze has an RTL row with its cycles and status PASS (for   *)
(* an RTL summary without doubled rows), and the frozen predictions are    *)
(* rows of the design space they were written with.                        *)
PredictionsValidated ==
    /\ script = "compare6b" /\ at = "end" /\ rc = 0 /\ Distinct(rows) =>
         \A p \in DOMAIN disk.frozen : \E k \in DOMAIN rows :
             /\ rows[k].config = disk.frozen[p].config
             /\ rows[k].cycles = disk.frozen[p].cycles
             /\ rows[k].status = "PASS"
    /\ disk.frozen # ShippedPredictions =>
         \A p \in DOMAIN disk.frozen : \E k \in DOMAIN disk.space :
             /\ disk.space[k].config = disk.frozen[p].config
             /\ disk.space[k].cycles = disk.frozen[p].cycles

(* A case called inefficient is dominated by an efficient one that its     *)
(* dominated_by column names; a winner by energy, by energy-delay product, *)
(* by speed, per watt or per area is dominated by no case that differs in  *)
(* the costs its measure is made of.                                       *)
MeasuredBy == [performance |-> {"runtime"}, perArea |-> {"runtime", "area"},
               perWatt |-> {"runtime", "total"}, energy |-> {"energy"},
               edp |-> {"energy", "runtime"}]

SelectionSound ==
    script = "select" /\ at = "end" /\ rc = 0 =>
        LET table == disk.selection.table
            RowOf(c) == CHOOSE k \in DOMAIN table : table[k].row.case = c
        IN  /\ \A k \in DOMAIN table :
                 table[k].efficient = "NO" =>
                     \E j \in DOMAIN table : /\ table[j].efficient = "YES"
                                             /\ table[j].row.case \in table[k].dominatedBy
                                             /\ Dominates(table[j].row, table[k].row)
            /\ \A measure \in DOMAIN MeasuredBy :
                 LET w == table[RowOf(disk.selection.winners[measure])]
                 IN  \A j \in DOMAIN table : \A key \in MeasuredBy[measure] :
                         table[j].row.case \in w.dominatedBy =>
                             table[j].row[key] = w.row[key]

(* Episode k is made of the rows from[k] .. from[k + 1] - 1 of a log, and  *)
(* together the episodes are its first n rows.                             *)
CutOf(episodes, log, n) ==
    \E from \in [1 .. Len(episodes) + 1 -> 1 .. n + 1] :
        /\ from[1] = 1 /\ from[Len(episodes) + 1] = n + 1
        /\ \A k \in DOMAIN episodes :
             /\ from[k] < from[k + 1] /\ Len(episodes[k].rows) = from[k + 1] - from[k]
             /\ \A m \in DOMAIN episodes[k].rows : episodes[k].rows[m] = log[from[k] + m - 1]

OneEpisode(e) ==
    /\ e.end - e.start + 1 = Len(e.rows)
    /\ \A m \in DOMAIN e.rows : e.rows[m].cycle = e.start + m - 1 /\ e.rows[m].key = e.key

(* The episodes the probe reports are the overlap rows cut into pieces     *)
(* that cannot be longer: in order, without loss, each with consecutive    *)
(* cycles and one key, two neighbours never one episode.                   *)
EpisodesMaximal ==
    script = "probe" /\ at = "end" /\ rc = 0 =>
        /\ CutOf(rows, input.log, Len(input.log))
        /\ \A k \in DOMAIN rows : OneEpisode(rows[k])
        /\ \A k \in 1 .. Len(rows) - 1 :
             rows[k].key = rows[k + 1].key => rows[k + 1].start # rows[k].end + 1

-----------------------------------------------------------------------------
(* Two statements of the repository that the code does not keep.           *)

(* "PASS: conditional branch + JAL/JALR directed correlation completed."   *)
(* is printed by run_controlflow_validation: every row of both scripts     *)
(* says PASS.                                                              *)
ControlflowPassMeansPass ==
    "control flow PASS" \in said => PassingTable("m3c") /\ PassingTable("m3d")

(* docs/REPRODUCIBILITY.md: with --strict, fallback reference data must be *)
(* rejected: no row of a strict selection is from the reference.           *)
StrictRejectsFallback ==
    script = "select" /\ at = "end" /\ rc = 0 /\ "strict" \in args =>
        \A k \in DOMAIN rows : rows[k].source7 = "csv" /\ rows[k].source8 = "csv"
=============================================================================
