--------------------------- MODULE FetchAnalysis ---------------------------
(***************************************************************************)
(* The scripts that look into traces of the RTL: analyze_milestone4b_probe *)
(* groups the cycles in which both caches stall; analyze_icache_fetch,     *)
(* analyze_branch_fetch and analyze_jump_fetch hold the stream of fetches  *)
(* against the instructions that retired.                                  *)
(***************************************************************************)
EXTENDS ScriptProcess, SequencesExt

CONSTANTS
    OverlapLogs,        \* overlap_cycles.csv: sequences of [cycle, key]
    ReplayLogs,         \* dcache_replays.csv: sequences of [expected, observed, hit]
    ExpectedOverlap,    \* the number of overlap cycles the probe looks for
    ExpectedReplays,    \* and of replays
    FetchCases,         \* the number of cases of each fetch script
    FetchLogs,          \* fetch files: sequences of [pc, hit]
    Retirements,        \* trace files: sequences of [pc, kind, offset]
    AddressSpace        \* addresses wrap at this number

FetchScripts == {"icacheFetch", "branchFetch", "jumpFetch"}

(* The probe's logs are sequences of rows with the number of their cycle;  *)
(* each fetch script has a list of cases.                                  *)
ASSUME LogAssumption ==
    /\ \A log \in OverlapLogs :
         /\ Len(log) \in Nat /\ DOMAIN log = 1 .. Len(log)
         /\ \A k \in DOMAIN log : log[k].cycle \in Nat
    /\ \A s \in FetchScripts : FetchCases[s] \in Nat

VARIABLES
    input,              \* the overlap rows the probe has read, and the next one
    missing             \* analyze_icache_fetch has not found a file

fetchVars == <<input, missing>>

FetchInit == input = [log |-> << >>, next |-> 1] /\ missing = FALSE

-----------------------------------------------------------------------------
(* The probe reads the rows in order: a row that continues the last        *)
(* episode in the next cycle and with the same addresses extends it.       *)

(* Mutated Continues: the next cycle extends an episode of other addresses.*)
ContinuesWithAnyKey(episode, row) == row.cycle = episode.end + 1

Continues(episode, row) == row.cycle = episode.end + 1 /\ row.key = episode.key

Extend(episodes, row) ==
    IF episodes # << >> /\ Continues(Last(episodes), row)
    THEN [episodes EXCEPT ![Len(episodes)].end = row.cycle,
                          ![Len(episodes)].rows = Append(@, row)]
    ELSE Append(episodes, [start |-> row.cycle, end |-> row.cycle, key |-> row.key,
                           rows |-> <<row>>])

ValidReplays(log) == {k \in DOMAIN log : log[k].expected = log[k].observed /\ log[k].hit}

ProbeReads ==
    /\ script = "probe" /\ at = "read"
    /\ \/ Raise /\ UNCHANGED input                               \* a file is missing
       \/ /\ Goto("group")
          /\ \E log \in OverlapLogs : input' = [log |-> log, next |-> 1]
    /\ InScript /\ UNCHANGED <<said, rows, disk, missing>>

ProbeGroups ==
    /\ script = "probe" /\ at = "group" /\ input.next <= Len(input.log)
    /\ rows' = Extend(rows, input.log[input.next])
    /\ input' = [input EXCEPT !.next = @ + 1]
    /\ Goto("group")
    /\ InScript /\ UNCHANGED <<said, disk, missing>>

ProbeEnds ==
    /\ script = "probe" /\ at = "group" /\ input.next > Len(input.log)
    /\ \E replays \in ReplayLogs :
         said' = said \cup IF /\ Len(input.log) = ExpectedOverlap
                              /\ Cardinality(ValidReplays(replays)) = ExpectedReplays
                           THEN {"probe PASS"} ELSE {"probe MEASURE"}
    /\ Return(0)
    /\ InScript /\ UNCHANGED <<rows, disk, input, missing>>

-----------------------------------------------------------------------------
(* A fetch report: how often each address was fetched, the addresses that  *)
(* never retired, and where the retired control transfers went.  Whether a *)
(* transfer was taken is inferred from the instruction that retired next.  *)

RetiredPcs(trace) == {trace[k].pc : k \in DOMAIN trace}

NeverRetired(log, trace) ==
    SelectSeq(log, LAMBDA r : r.pc \notin RetiredPcs(trace))

Refetched(log) == {log[k].pc : k \in {x \in DOMAIN log : \E j \in DOMAIN log \ {x} :
                                                             log[j].pc = log[x].pc}}

Target(r) == (r.pc + r.offset) % AddressSpace

(* The target of a JALR is not in the instruction: it is observed.         *)
Transfers(trace, kinds) ==
    {[pc |-> trace[k].pc,
      target |-> IF trace[k].kind = "jalr" THEN {} ELSE {Target(trace[k])},
      next |-> {trace[j].pc : j \in {k + 1} \cap DOMAIN trace}] :
     k \in {x \in DOMAIN trace : trace[x].kind \in kinds}}

Taken(transfer) == transfer.next = transfer.target

Report(s, log, trace) ==
    [hits      |-> Len(SelectSeq(log, LAMBDA r : r.hit)),
     misses    |-> Len(SelectSeq(log, LAMBDA r : ~r.hit)),
     never     |-> IF s = "icacheFetch"
                   THEN SelectSeq(NeverRetired(log, trace), LAMBDA r : ~r.hit)
                   ELSE NeverRetired(log, trace),
     refetched |-> Refetched(log),
     taken     |-> CASE s = "branchFetch" -> {t \in Transfers(trace, {"branch"}) : Taken(t)}
                     [] s = "jumpFetch"   -> Transfers(trace, {"jal", "jalr"})
                     [] OTHER             -> {}]

(* A case without its files is passed over.  analyze_icache_fetch remembers*)
(* it and takes the model's trace, which may be absent, for the            *)
(* retirements; the other two want the RTL's trace.                        *)
FetchCase ==
    /\ script \in FetchScripts /\ at = "read" /\ Len(rows) < FetchCases[script]
    /\ \/ /\ rows' = Append(rows, << >>)
          /\ missing' = (missing \/ script = "icacheFetch")
          /\ script = "icacheFetch" => command # "m3b"
          /\ Goto("read")
       \/ \E log \in FetchLogs, trace \in Retirements :
            /\ trace = << >> => script = "icacheFetch"
            /\ rows' = Append(rows, <<Report(script, log, trace)>>)
            /\ Goto("read") /\ UNCHANGED missing
       \/ /\ script = "icacheFetch" /\ Raise                 \* an empty counter file
          /\ missing' = FALSE /\ UNCHANGED rows
    /\ InScript /\ UNCHANGED <<said, disk, input>>

FetchEnds ==
    /\ script \in FetchScripts /\ at = "read" /\ Len(rows) = FetchCases[script]
    /\ Return(IF missing THEN 2 ELSE 0)
    /\ missing' = FALSE
    /\ InScript /\ UNCHANGED <<said, rows, disk, input>>

FetchNext == ProbeReads \/ ProbeGroups \/ ProbeEnds \/ FetchCase \/ FetchEnds
=============================================================================
