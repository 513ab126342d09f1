----------------------------- MODULE MCScripts -----------------------------
(***************************************************************************)
(* Instances of ScriptSystem for TLC.                                      *)
(***************************************************************************)
EXTENDS ScriptSystem

MCCommands == {"suite", "divider", "m2", "m3", "m3c", "m3d", "m4", "gaps",
               "m2complete", "m3b", "m4b", "controlflow",
               "sweep", "m6a", "compare5b", "compare6b", "select",
               "icacheFetch", "branchFetch", "jumpFetch", "probe"}

Controlflow == {"controlflow"}

Select == {"select"}

MCFlags == [c \in MCCommands |->
    CASE c \in (Runners \ {"m2"}) \cup {"m4b"} -> SUBSET {"modelOnly", "requireRtl"}
      [] c = "select" -> SUBSET {"strict"}
      [] OTHER -> {{}}]

MCFollows == {<<"m4", "m4">>, <<"m4", "gaps">>, <<"sweep", "compare5b">>, <<"m6a", "compare6b">>}

-----------------------------------------------------------------------------
(* Evidence.  The RTL's writeback stage works off a list of items: a       *)
(* bubble, or an instruction that is held for some cycles before it        *)
(* retires.  What the list says retires, and when, is the truth; what the  *)
(* scripts get is what the collector makes of the stage's signals.         *)

Insn(pc, insn, write, wdata) ==
    [cycle |-> 0, pc |-> pc, insn |-> insn, write |-> write, rd |-> 1, wdata |-> wdata]

Add == Insn(0, "add", 1, 7)
AddWrong == Insn(0, "add", 1, 9)
Store == Insn(4, "sw", 0, 0)
StoreOther == Insn(4, "sw", 0, 5)

Item(row, held) == [row |-> row, held |-> held]
Bubble == [row |-> Add, held |-> -1]

Signals(item) ==
    IF item = Bubble THEN <<[valid |-> FALSE, memstall |-> FALSE, row |-> Add]>>
    ELSE [t \in 1 .. item.held + 1 |->
             [valid |-> TRUE, memstall |-> t <= item.held, row |-> item.row]]

Writeback(items) == FlattenSeq([k \in DOMAIN items |-> Signals(items[k])])

Truth(items) ==
    LET End(k) == SumFunction([j \in 1 .. k |-> Len(Signals(items[j]))])
        real == SetToSortSeq({k \in DOMAIN items : items[k] # Bubble}, <)
    IN  [n \in DOMAIN real |-> [items[real[n]].row EXCEPT !.cycle = End(real[n])]]

Works == {<<Item(Add, 0), Item(Store, 0)>>, <<Bubble, Item(Add, 0), Item(Store, 0)>>,
          <<Item(Add, 1), Item(Store, 0)>>, <<Item(Add, 0), Item(Store, 1)>>,
          <<Item(Add, 0), Bubble, Item(StoreOther, 0)>>, <<Item(AddWrong, 1), Item(Store, 0)>>,
          <<Bubble, Bubble, Item(Add, 0)>>, <<Bubble>>,
          <<Item(Store, 0), Item(Store, 0), Item(Store, 0)>>}

Model(first, second) == <<[Add EXCEPT !.cycle = first], [Store EXCEPT !.cycle = second]>>

Models == {Model(1, 2), Model(2, 3), Model(1, 3)}

Counters == [key \in CacheKeys |-> 1]

E(model, items) ==
    [ran |-> TRUE, model |-> model, printed |-> Counters, signed |-> TRUE,
     hasRtl |-> TRUE, rtl |-> Collected(Writeback(items)), truth |-> Truth(items),
     hasCounters |-> TRUE, counters |-> Counters]

Good == E(Model(2, 3), <<Item(Add, 1), Item(Store, 0)>>)

Failed == [Good EXCEPT !.ran = FALSE]
NoRtl == [Good EXCEPT !.hasRtl = FALSE]

TraceEvidence == {E(m, w) : m \in Models, w \in Works} \cup {Failed, NoRtl}

Without(key) == [k \in CacheKeys \ {key} |-> 1]

CounterEvidence ==
    {Good, Failed, NoRtl, [Good EXCEPT !.hasCounters = FALSE],
     [Good EXCEPT !.counters = << >>],
     [Good EXCEPT !.counters = Without("iMisses")],
     [Good EXCEPT !.counters["iMisses"] = 2],
     [Good EXCEPT !.counters["dWritebacks"] = 0],
     E(Model(1, 3), <<Item(Add, 1), Item(Store, 0)>>),
     E(Model(2, 3), <<Item(AddWrong, 1), Item(Store, 1)>>),
     E(Model(2, 3), <<Item(Add, 1), Item(StoreOther, 0)>>),
     E(Model(2, 3), <<Bubble>>)}

MCEvidence == [s \in Runners |->
    CASE s \in Calibrated \cup {"m2"} -> TraceEvidence
      [] s = "m4" -> CounterEvidence \cup {[Good EXCEPT !.signed = FALSE]}
      [] OTHER -> CounterEvidence]

Test(name) == [name |-> name, cycles |-> 3, retireCycles |-> <<2, 3>>]

MCCases == [s \in Runners |-> IF s \in {"m2", "m4"} THEN <<Test("c1")>>
                              ELSE <<Test("c1"), Test("c2")>>]

-----------------------------------------------------------------------------
(* Exploration: a grid of two sizes, one latency point, two mixed points   *)
(* of which one repeats the latency point.                                 *)

MCSizes == <<64, 256>>
MCLatencies == <<1>>
MCMixed == << <<256, 64, 2>>, <<64, 64, 1>> >>
MCSelectedKeys == << <<64, 64, 1>>, <<256, 64, 2>> >>
MCSweepCases == <<Config(16, 64, 3, "sweep"), Config(64, 64, 3, "sweep"), Config(64, 64, 1, "sweep")>>
MCShipped == << [config |-> <<64, 64, 1>>, cycles |-> 1], [config |-> <<256, 64, 2>>, cycles |-> 2] >>

RtlRow(config, cycles, status) == [config |-> config, cycles |-> cycles, status |-> status]

RowsFor(config) == {<< >>, <<RtlRow(config, 1, "CHECK")>>}
                       \cup {<<RtlRow(config, n, "PASS")>> : n \in 1 .. 3}

Stray == RtlRow(<<512, 64, 2>>, 1, "PASS")

MCRtl6b == {a \o b \o c : a \in RowsFor(MCSelectedKeys[1]), b \in RowsFor(MCSelectedKeys[2]),
                          c \in {<< >>, <<Stray>>}}

MCRtl5b == {a \o b : a \in RowsFor(<<64, 64, 1>>), b \in {<< >>, <<Stray>>}}

-----------------------------------------------------------------------------
(* Selection: costs 1 and 2; a file may lack a case or a cell.  The third  *)
(* case is only in the reference: it makes a middle case that is dominated *)
(* and dominates.                                                          *)

MCSelectionCases == <<"BASE", "PERF", "LOW">>

Line7(cycles, area) == [cycles |-> cycles, period |-> 1, area |-> area]

Line8(cycles, total, energy) ==
    [cycles |-> cycles, period |-> 1, area |-> 1, total |-> total, energy |-> energy]

Files(Lines) == UNION {[S -> Lines] : S \in SUBSET {"BASE", "PERF"}}

MCM7Files == Files({Line7(1, 1), Line7(2, 1), Line7(2, 2), Line7(1, Blank)})
MCM8Files == Files({Line8(2, 1, 1), Line8(2, 2, 1), Line8(2, 1, Blank), Line8(2, Blank, 2)})
MCReferences == {[c \in S \cup {"LOW"} |-> IF c = "LOW" THEN low ELSE Line8(1, 1, 1)] :
                    S \in {{"BASE", "PERF"}, {"PERF"}}, low \in {Line8(1, 1, 1), Line8(2, 2, 1)}}

-----------------------------------------------------------------------------
(* Stall overlaps: every log of up to four rows whose cycles rise by one   *)
(* or two, with two keys.                                                  *)

Overlap(cycles, keys) == [k \in DOMAIN cycles |-> [cycle |-> cycles[k], key |-> keys[k]]]

MCOverlapLogs ==
    UNION {{Overlap([k \in 1 .. n |-> SumFunction(SubSeq(steps, 1, k))], keys) :
               steps \in [1 .. n -> 1 .. 2], keys \in [1 .. n -> {"a", "b"}]} : n \in 0 .. 4}

Replay(observed, hit) == [expected |-> 0, observed |-> observed, hit |-> hit]

MCReplayLogs == {<< >>, <<Replay(0, TRUE), Replay(0, TRUE)>>, <<Replay(0, TRUE), Replay(4, TRUE)>>}

Fetch(pc, hit) == [pc |-> pc, hit |-> hit]
Retired(pc, kind, offset) == [pc |-> pc, kind |-> kind, offset |-> offset]

MCFetchLogs == {<<Fetch(0, FALSE), Fetch(4, FALSE), Fetch(0, TRUE)>>, <<Fetch(8, FALSE)>>}

MCRetirements == {<< >>, <<Retired(0, "branch", 4), Retired(4, "jal", 12), Retired(0, "branch", 8)>>,
                  <<Retired(8, "jalr", 0), Retired(0, "alu", 0)>>}

MCFetchCases == [s \in FetchScripts |-> 2]
=============================================================================
