----------------------- MODULE ArchitectureSelection -----------------------
(***************************************************************************)
(* run_architecture_selection: merges the timing results of one flow (m7)  *)
(* and the power results of another (m8), case by case and column by       *)
(* column, falling back to the bundled reference, and ranks the cases.     *)
(*                                                                         *)
(* A file is a function from the cases it has a row for to records of      *)
(* positive numbers, or Blank where a cell is empty.  Columns that are     *)
(* read the same way are one column here: area stands for itself, total    *)
(* for the three power columns, and the line counts are left out.          *)
(***************************************************************************)
EXTENDS ScriptProcess

CONSTANTS
    SelectionCases, \* the cases in order, the first one the baseline
    M7Files,        \* best_points.csv: [case -> [cycles, period, area]]
    M8Files,        \* power_summary.csv: [case -> [cycles, period, area, total, energy]]
    References      \* validated_reference.csv: as M8Files

Blank == -1

Prices == (Nat \ {0}) \cup {Blank}

(* The cases have different names; cells are blank or positive.            *)
ASSUME SelectionAssumption ==
    /\ Len(SelectionCases) \in Nat \ {0} /\ DOMAIN SelectionCases = 1 .. Len(SelectionCases)
    /\ \A j, k \in DOMAIN SelectionCases : SelectionCases[j] = SelectionCases[k] => j = k
    /\ \A file \in M7Files : \A c \in DOMAIN file :
         \A column \in {"cycles", "period", "area"} : file[c][column] \in Prices
    /\ \A file \in M8Files \cup References : \A c \in DOMAIN file :
         \A column \in {"cycles", "period", "area", "total", "energy"} :
             file[c][column] \in Prices

(* f(a, f(b, ...)): the first cell that has a number.                      *)
Prefer(cells) ==
    LET full == {k \in DOMAIN cells : cells[k] # Blank}
    IN  IF full = {} THEN Blank ELSE cells[CHOOSE k \in full : \A j \in full : k <= j]

Cell(file, c, column) == IF c \in DOMAIN file THEN file[c][column] ELSE Blank

(* merge_inputs for case c.  The source columns tell whether a file has a  *)
(* row for the case, not which cells were taken from it.                   *)
Merged(c, m7, m8, ref) ==
    LET Any(column) == Prefer(<<Cell(m7, c, column), Cell(m8, c, column), Cell(ref, c, column)>>)
        Power(column) == Prefer(<<Cell(m8, c, column), Cell(ref, c, column)>>)
        cycles == IF Any("cycles") = Blank THEN 0 ELSE Any("cycles")
        runtime == IF Any("period") = Blank THEN Blank ELSE cycles * Any("period")
    IN  [case    |-> c,
         runtime |-> runtime,
         area    |-> Any("area"),
         total   |-> Power("total"),
         energy  |-> IF Power("energy") = Blank /\ Power("total") # Blank
                     THEN Power("total") * runtime ELSE Power("energy"),
         source7 |-> IF c \in DOMAIN m7 THEN "csv" ELSE "validated_reference",
         source8 |-> IF c \in DOMAIN m8 THEN "csv" ELSE "validated_reference"]

(* add_metrics and classify compute with every column of every row: an     *)
(* unknown one or a division by zero raises.                               *)
Computable(list) ==
    \A k \in DOMAIN list : /\ list[k].runtime > 0
                           /\ Blank \notin {list[k].area, list[k].total, list[k].energy}

-----------------------------------------------------------------------------

Costs == {"runtime", "area", "total", "energy"}

Dominates(a, b) == /\ \A key \in Costs : a[key] <= b[key]
                   /\ \E key \in Costs : a[key] < b[key]

(* Mutated DominatedBy: cases with equal costs dominate each other.        *)
NotBetterThan(list, k) ==
    {list[j].case : j \in {x \in DOMAIN list \ {k} :
                              \A key \in Costs : list[x][key] <= list[k][key]}}

DominatedBy(list, k) == {list[j].case : j \in {x \in DOMAIN list \ {k} : Dominates(list[x], list[k])}}

Classify(list) ==
    [k \in DOMAIN list |->
        [row |-> list[k], dominatedBy |-> DominatedBy(list, k),
         efficient |-> IF DominatedBy(list, k) = {} THEN "YES" ELSE "NO"]]

(* write_reports names the first best row by each measure.  Every measure  *)
(* is the baseline's value, a constant, over a product of the row's costs. *)
Best(list, cost) ==
    list[CHOOSE k \in DOMAIN list :
            /\ \A j \in DOMAIN list : cost[k] <= cost[j]
            /\ \A j \in 1 .. k - 1 : cost[j] > cost[k]].case

Winners(list) ==
    [performance |-> Best(list, [k \in DOMAIN list |-> list[k].runtime]),
     perArea     |-> Best(list, [k \in DOMAIN list |-> list[k].runtime * list[k].area]),
     perWatt     |-> Best(list, [k \in DOMAIN list |-> list[k].runtime * list[k].total]),
     energy      |-> Best(list, [k \in DOMAIN list |-> list[k].energy]),
     edp         |-> Best(list, [k \in DOMAIN list |-> list[k].energy * list[k].runtime])]

-----------------------------------------------------------------------------

(* load_csv three times; a missing file is one without rows.               *)
ReadFile ==
    /\ script = "select" /\ at = "read" /\ Len(rows) < 3
    /\ \E file \in <<References, M7Files, M8Files>>[Len(rows) + 1] : rows' = Append(rows, file)
    /\ Goto("read") /\ InScript /\ UNCHANGED <<said, disk>>

(* --strict asks for two files that have rows, not for a row per case.     *)
Merge ==
    /\ script = "select" /\ at = "read" /\ Len(rows) = 3
    /\ LET merged == [k \in DOMAIN SelectionCases |->
                         Merged(SelectionCases[k], rows[2], rows[3], rows[1])]
       IN  IF \/ "strict" \in args /\ (DOMAIN rows[2] = {} \/ DOMAIN rows[3] = {})
              \/ \E k \in DOMAIN merged : merged[k].runtime = Blank
           THEN Raise /\ UNCHANGED rows
           ELSE Goto("classify") /\ rows' = merged
    /\ InScript /\ UNCHANGED <<said, disk>>

(* Nothing is written before everything has been computed.                 *)
ClassifyAndReport ==
    /\ script = "select" /\ at = "classify"
    /\ IF Computable(rows)
       THEN /\ Return(0)
            /\ disk' = [disk EXCEPT !.selection =
                    [table |-> Classify(rows), winners |-> Winners(rows)]]
            /\ said' = said \cup {"selection PASS", "selection PERF_512_64"}
       ELSE Raise /\ UNCHANGED <<disk, said>>
    /\ InScript /\ UNCHANGED rows

SelectionNext == ReadFile \/ Merge \/ ClassifyAndReport
=============================================================================
