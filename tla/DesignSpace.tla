---------------------------- MODULE DesignSpace ----------------------------
(***************************************************************************)
(* The exploration of cache sizes and memory latencies with Dhrystone:     *)
(* run_sensitivity_sweep and run_milestone6a simulate a list of            *)
(* configurations and write predictions, compare_milestone5b and           *)
(* compare_milestone6b hold the predictions of an earlier run against the  *)
(* summaries of RTL simulations made since.                                *)
(*                                                                         *)
(* A configuration is [i, d, lat, family]: lines of I$ and of D$, memory   *)
(* latency, and which of run_milestone6a's lists it is from.  It also      *)
(* stands for the row's name, which is made of these numbers.              *)
(***************************************************************************)
EXTENDS ScriptProcess

CONSTANTS
    SweepCases,     \* the configurations of run_sensitivity_sweep, in order
    Sizes,          \* the cache sizes of run_milestone6a's grid, in order
    Latencies,      \* its latencies other than BaseLat
    Mixed,          \* its mixed points, <<i, d, lat>>
    SelectedKeys,   \* the points it freezes, <<i, d, lat>>
    BaseLines,      \* lines of both caches in the calibrated baseline
    BaseLat,        \* its memory latency
    CycleCounts,    \* what a simulation may print
    RtlSummaries5b, \* the RTL summaries compare_milestone5b may find
    RtlSummaries6b  \* those compare_milestone6b may find

(* The lists of configurations and summaries are sequences, every size,    *)
(* latency and cycle count is a natural number, and the grid has a size.   *)
ASSUME DesignAssumption ==
    /\ Len(SweepCases) \in Nat
    /\ Sizes \in Seq(Nat) /\ Sizes # << >>
    /\ Latencies \in Seq(Nat)
    /\ Mixed \in Seq(Nat \X Nat \X Nat) /\ SelectedKeys \in Seq(Nat \X Nat \X Nat)
    /\ BaseLines \in Nat /\ BaseLat \in Nat
    /\ CycleCounts \subseteq Nat
    /\ \A rtl \in RtlSummaries6b : Len(rtl) \in Nat /\ DOMAIN rtl = 1 .. Len(rtl)

Key(r) == <<r.i, r.d, r.lat>>

BaseKey == <<BaseLines, BaseLines, BaseLat>>

Config(i, d, lat, family) == [i |-> i, d |-> d, lat |-> lat, family |-> family]

Grid == [n \in 1 .. Len(Sizes) * Len(Sizes) |->
            Config(Sizes[((n - 1) \div Len(Sizes)) + 1], Sizes[((n - 1) % Len(Sizes)) + 1],
                   BaseLat, "cache_grid")]

Configurations ==
    Grid \o [k \in DOMAIN Latencies |->
                Config(BaseLines, BaseLines, Latencies[k], "latency_sweep")]
         \o [k \in DOMAIN Mixed |->
                Config(Mixed[k][1], Mixed[k][2], Mixed[k][3], "mixed")]

ConfigList(s) == IF s = "sweep" THEN SweepCases ELSE Configurations

(* Bytes of the two data arrays, 4 per line.                               *)
Bytes(r) == 4 * (r.i + r.d)

-----------------------------------------------------------------------------
(* The rows at some places of a list, in the strict order before, a set of *)
(* pairs of places.                                                        *)
Sorted(list, places, before) ==
    LET Rank(k) == Cardinality({j \in places : <<j, k>> \in before})
    IN  [n \in 1 .. Cardinality(places) |-> list[CHOOSE k \in places : Rank(k) = n - 1]]

(* pareto(): fewer bytes and fewer cycles.  Equal rows do not remove each  *)
(* other, and Python's sort by bytes and cycles keeps their order.         *)

Beats(b, a) == /\ Bytes(b) <= Bytes(a) /\ b.cycles <= a.cycles
               /\ Bytes(b) < Bytes(a) \/ b.cycles < a.cycles

Cheaper(list, j, k) ==
    \/ Bytes(list[j]) < Bytes(list[k])
    \/ Bytes(list[j]) = Bytes(list[k]) /\ list[j].cycles < list[k].cycles
    \/ Bytes(list[j]) = Bytes(list[k]) /\ list[j].cycles = list[k].cycles /\ j < k

CheaperFirst(list, places) == {p \in places \X places : Cheaper(list, p[1], p[2])}

(* Mutated Pareto: equal points remove each other.                         *)
ParetoTiesLose(list, places) ==
    LET kept == {k \in places : ~\E j \in places \ {k} :
                    Bytes(list[j]) <= Bytes(list[k]) /\ list[j].cycles <= list[k].cycles}
    IN  Sorted(list, kept, CheaperFirst(list, places))

Pareto(list, places) ==
    LET kept == {k \in places : ~\E j \in places : Beats(list[j], list[k])}
    IN  Sorted(list, kept, CheaperFirst(list, places))

HasKey(list, key) == \E k \in DOMAIN list : Key(list[k]) = key

(* The first row of each configuration.                                    *)
FirstPlaces(list) == {k \in DOMAIN list : \A j \in 1 .. k - 1 : Key(list[j]) # Key(list[k])}

InOrder(places) == {p \in places \X places : p[1] < p[2]}

Unique(list) == Sorted(list, FirstPlaces(list), InOrder(FirstPlaces(list)))

(* next(r for r in rows if ...): the first match; it raises without one.   *)
First(list, key) == list[CHOOSE k \in DOMAIN list :
                            Key(list[k]) = key /\ \A j \in 1 .. k - 1 : Key(list[j]) # key]

-----------------------------------------------------------------------------

DesignBuild == script \in {"sweep", "m6a"} /\ Build

(* one() and simulate(): the model is deterministic, so a configuration    *)
(* simulated twice prints the same.  A failing run ends the script.        *)
Simulate ==
    /\ script \in {"sweep", "m6a"} /\ at = "cases"
    /\ Len(rows) < Len(ConfigList(script))
    /\ LET config == ConfigList(script)[Len(rows) + 1]
       IN  \/ Raise /\ UNCHANGED rows
           \/ \E cycles \in CycleCounts :
                /\ \A k \in DOMAIN rows : Key(rows[k]) = Key(config) => rows[k].cycles = cycles
                /\ rows' = Append(rows, [i |-> config.i, d |-> config.d, lat |-> config.lat,
                                         family |-> config.family, cycles |-> cycles])
                /\ Goto("cases")
    /\ InScript /\ UNCHANGED <<said, disk>>

(* cycle_delta_vs_base, signed; the other relative columns are this value  *)
(* over a constant of the row or the baseline.                             *)
Relative(list) ==
    LET base == First(list, BaseKey)
    IN  [k \in DOMAIN list |-> [config |-> Key(list[k]), cycles |-> list[k].cycles,
                                delta |-> list[k].cycles - base.cycles]]

SweepEnds ==
    /\ script = "sweep" /\ at = "cases" /\ Len(rows) = Len(SweepCases)
    /\ IF HasKey(rows, BaseKey)
       THEN Return(0) /\ disk' = [disk EXCEPT !.sweep = Relative(rows)]
       ELSE Raise /\ UNCHANGED disk
    /\ InScript /\ UNCHANGED <<said, rows>>

(* Equal configurations are dropped before anything is computed.           *)
M6aDedupes ==
    /\ script = "m6a" /\ at = "cases" /\ Len(rows) = Len(Configurations)
    /\ rows' = Unique(rows)
    /\ Goto("report")
    /\ InScript /\ UNCHANGED <<said, disk>>

(* The front is taken of the grid only.  The predictions are frozen last:  *)
(* a missing selected point raises when the other two files are written.   *)
GridPlaces == {k \in DOMAIN rows : rows[k].family = "cache_grid"}

Space == [disk EXCEPT !.space = Relative(rows), !.front = Pareto(rows, GridPlaces)]

FrozenPredictions ==
    [k \in DOMAIN SelectedKeys |->
        [config |-> SelectedKeys[k], cycles |-> First(rows, SelectedKeys[k]).cycles]]

M6aReports ==
    /\ script = "m6a" /\ at = "report"
    /\ IF ~HasKey(rows, BaseKey)
       THEN Raise /\ UNCHANGED disk
       ELSE IF \E k \in DOMAIN SelectedKeys : ~HasKey(rows, SelectedKeys[k])
       THEN Raise /\ disk' = Space
       ELSE Return(0) /\ disk' = [Space EXCEPT !.frozen = FrozenPredictions]
    /\ InScript /\ UNCHANGED <<said, rows>>

-----------------------------------------------------------------------------
(* The RTL summaries are made elsewhere, with rows [config, cycles,        *)
(* status]; both scripts look the prediction of a row up by its name.      *)

Predicts(predictions, config) == \E p \in DOMAIN predictions : predictions[p].config = config

(* compare_milestone5b trusts the status column: the cycles of the         *)
(* predictions and of the RTL are printed, not compared.  A row without a  *)
(* prediction raises.                                                      *)
Compare5b ==
    /\ script = "compare5b" /\ at = "read"
    /\ \/ disk.sweep = << >> /\ Raise /\ UNCHANGED <<rows, said>>
       \/ Raise /\ UNCHANGED <<rows, said>>                         \* no RTL summary
       \/ /\ disk.sweep # << >>
          /\ \E rtl \in RtlSummaries5b :
               /\ rows' = rtl
               /\ IF \E k \in DOMAIN rtl : ~Predicts(disk.sweep, rtl[k].config)
                  THEN Raise /\ UNCHANGED said
                  ELSE IF \A k \in DOMAIN rtl : rtl[k].status = "PASS"
                  THEN Return(0) /\ said' = said \cup {"5b PASS"}
                  ELSE Return(1) /\ said' = said \cup {"5b MEASURE"}
    /\ InScript /\ UNCHANGED disk

(* compare_milestone6b: every row of the RTL summary must be predicted,    *)
(* with these cycles and status PASS, and there must be as many rows as    *)
(* predictions.                                                            *)
(* Mutated Confirmed: the status alone decides, as in compare_milestone5b. *)
ConfirmedByStatus(predictions, row) ==
    Predicts(predictions, row.config) /\ row.status = "PASS"

Confirmed(predictions, row) ==
    \E p \in DOMAIN predictions :
        predictions[p].config = row.config /\ predictions[p].cycles = row.cycles
                                           /\ row.status = "PASS"

Compare6b ==
    /\ script = "compare6b" /\ at = "read"
    /\ \/ Return(2) /\ UNCHANGED <<rows, said>>                     \* no RTL summary
       \/ \E rtl \in RtlSummaries6b :
            /\ rows' = rtl
            /\ IF /\ \A k \in DOMAIN rtl : Confirmed(disk.frozen, rtl[k])
                  /\ Len(rtl) = Len(disk.frozen)
               THEN Return(0) /\ said' = said \cup {"6b PASS"}
               ELSE Return(1) /\ said' = said \cup {"6b CHECK"}
    /\ InScript /\ UNCHANGED disk

DesignNext == DesignBuild \/ Simulate \/ SweepEnds \/ M6aDedupes \/ M6aReports
              \/ Compare5b \/ Compare6b
=============================================================================
