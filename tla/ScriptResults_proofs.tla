------------------------ MODULE ScriptResults_proofs ------------------------
(***************************************************************************)
(* What the scripts compute: the episodes of the probe, the design space,  *)
(* its front and the validation of its predictions, the selection of the   *)
(* architecture, what the RTL's collector writes, for every input; and     *)
(* that no command goes on for ever.                                       *)
(***************************************************************************)
EXTENDS ScriptSystem, FiniteSetTheorems, WellFoundedInduction, TLAPS

SeqLike(s) == \E S : s \in Seq(S)

LEMMA Appended ==
    ASSUME NEW s, SeqLike(s), NEW x
    PROVE  /\ SeqLike(Append(s, x))
           /\ Len(s) \in Nat /\ Len(Append(s, x)) = Len(s) + 1
           /\ DOMAIN s = 1 .. Len(s) /\ DOMAIN Append(s, x) = 1 .. Len(s) + 1
           /\ \A k \in 1 .. Len(s) : Append(s, x)[k] = s[k]
           /\ Append(s, x)[Len(s) + 1] = x
<1>1. PICK S : s \in Seq(S)
    BY DEF SeqLike
<1>2. Append(s, x) \in Seq(S \cup {x})
    BY <1>1
<1>3. SeqLike(Append(s, x))
    BY <1>2 DEF SeqLike
<1> QED
    BY <1>1, <1>3

LEMMA EmptySeqLike == SeqLike(<< >>) /\ DOMAIN << >> = {} /\ Len(<< >>) = 0
<1>1. << >> \in Seq({})
    OBVIOUS
<1> QED
    BY <1>1 DEF SeqLike

-----------------------------------------------------------------------------
(* Steps of other scripts, of the user and of the drivers: they leave the  *)
(* files alone, and where they lead to one of the scripts this module is   *)
(* about, it has just started or has gone back to idle.                    *)

Analyses == {"probe", "m6a", "compare6b", "select"}

Results == {"sweep", "space", "front", "frozen", "selection"}

Kept(file) == file \in DOMAIN disk => file \in DOMAIN disk' /\ disk'[file] = disk[file]

Aside == /\ \A file \in Results : Kept(file)
         /\ script' \in Analyses => at' = "idle" \/ (at' = Entry(script') /\ rows' = << >>)

FilesThere == Results \subseteq DOMAIN disk

LEMMA RunnersAside == ASSUME RunnerNext PROVE Aside
<1>1. ASSUME disk' = disk PROVE \A file \in Results : Kept(file)
    BY <1>1 DEF Kept
<1>2. ASSUME NEW s, NEW flags, Call(s, flags) PROVE Aside
    BY <1>1, <1>2 DEF Aside, Call
<1>3. ASSUME NEW status, DriverReturns(status), command \in Drivers PROVE Aside
    BY <1>1, <1>3 DEF Aside, DriverReturns, Drivers, Analyses
<1>4. CASE \/ RunnerBuild \/ CalibratedModelFails \/ CalibratedWaits \/ CalibratedJudges
           \/ M2Check \/ M2Case \/ CacheCaseRaises \/ CacheCaseWaits \/ CacheCaseJudged \/ M4Fails
           \/ AnalyzeGaps
    <2>1. disk' = disk
        BY <1>4, Zenon DEF RunnerBuild, Build, CalibratedModelFails, CalibratedWaits,
            CalibratedJudges, M2Check, M2Case, CacheCaseRaises, CacheCaseWaits, CacheCaseJudged,
            M4Fails, AnalyzeGaps
    <2>2. script' = script /\ script \in Runners \cup {"gaps"}
        BY <1>4, Zenon DEF RunnerBuild, Build, CalibratedModelFails, CalibratedWaits,
            CalibratedJudges, M2Check, M2Case, CacheCaseRaises, CacheCaseWaits, CacheCaseJudged,
            M4Fails, AnalyzeGaps, InScript, Runners, Calibrated, CacheScripts
    <2> QED
        BY <1>1, <2>1, <2>2 DEF Aside, Analyses, Runners
<1>5. CASE CalibratedEnds \/ CacheScriptEnds \/ M4Ends
    <2>1. disk' = [disk EXCEPT !.summary[script] = rows] /\ script' = script /\ script \in Runners
        BY <1>5 DEF CalibratedEnds, CacheScriptEnds, M4Ends, InScript, Runners, Calibrated,
                    CacheScripts
    <2> QED
        BY <2>1 DEF Aside, Analyses, Runners, Kept, Results
<1>6. CASE M4Misses \/ M4Case
    <2>1. PICK e : WriteModelSummary(e)
        BY <1>6 DEF M4Misses, M4Case
    <2>2. PICK reference : disk' = [disk EXCEPT !.reference = reference]
        BY <2>1 DEF WriteModelSummary
    <2>3. script' = script /\ script = "m4"
        BY <1>6 DEF M4Misses, M4Case, InScript
    <2> QED
        BY <2>2, <2>3 DEF Aside, Analyses, Kept, Results
<1>7. CASE DriverCalls
    BY <1>2, <1>7 DEF DriverCalls
<1>8. CASE M2CompleteNext \/ ControlflowNext
    BY <1>2, <1>3, <1>8 DEF M2CompleteNext, ControlflowNext, Drivers
<1>9. CASE M3bNext \/ M4bNext
    BY <1>2, <1>3, <1>9 DEF M3bNext, M4bNext, Drivers
<1> QED
    BY <1>4, <1>5, <1>6, <1>7, <1>8, <1>9 DEF RunnerNext

LEMMA StepKinds ==
    ASSUME [Next]_vars
    PROVE  UNCHANGED vars \/ Aside \/ DesignNext \/ SelectionNext \/ FetchNext
<1>1. CASE UserStarts
    BY <1>1 DEF UserStarts, Start, Aside, Kept
<1>2. CASE Finish
    <2>1. disk' = disk /\ at' = "idle"
        BY <1>2 DEF Finish
    <2> QED
        BY <2>1 DEF Aside, Kept
<1> QED
    BY <1>1, <1>2, RunnersAside DEF Next, ScriptStep

(* A fetch step changes no file and stays in its script.                   *)
LEMMA FetchStays ==
    ASSUME FetchNext
    PROVE  script' = script /\ script \in {"probe"} \cup FetchScripts /\ disk' = disk
BY DEF FetchNext, ProbeReads, ProbeGroups, ProbeEnds, FetchCase, FetchEnds, InScript

LEMMA DesignStays ==
    ASSUME DesignNext
    PROVE  script' = script /\ script \in {"sweep", "m6a", "compare5b", "compare6b"}
BY Zenon DEF DesignNext, DesignBuild, Build, Simulate, SweepEnds, M6aDedupes, M6aReports,
   Compare5b, Compare6b, InScript

LEMMA SelectionStays ==
    ASSUME SelectionNext PROVE script' = script /\ script = "select"
BY DEF SelectionNext, ReadFile, Merge, ClassifyAndReport, InScript

-----------------------------------------------------------------------------
(* The probe.                                                              *)

(* The episodes are a partition so far, and each has the shape of one.     *)
Episode(e) ==
    /\ {"start", "end", "key", "rows"} \subseteq DOMAIN e
    /\ e.start \in Int /\ e.end \in Int /\ SeqLike(e.rows) /\ OneEpisode(e)

Parted(episodes, log, n) ==
    /\ SeqLike(episodes)
    /\ CutOf(episodes, log, n)
    /\ \A k \in 1 .. Len(episodes) : Episode(episodes[k])
    /\ \A k \in 1 .. Len(episodes) - 1 :
         episodes[k].key = episodes[k + 1].key => episodes[k + 1].start # episodes[k].end + 1

(* A new row extends the last episode ...                                  *)
LEMMA ExtendLast ==
    ASSUME NEW log, NEW n \in Nat, NEW episodes, Parted(episodes, log, n),
           log[n + 1].cycle \in Int,
           Len(episodes) > 0, Continues(episodes[Len(episodes)], log[n + 1])
    PROVE  Parted([episodes EXCEPT ![Len(episodes)].end = log[n + 1].cycle,
                                   ![Len(episodes)].rows = Append(@, log[n + 1])], log, n + 1)
<1> DEFINE row == log[n + 1]
           last == Len(episodes)
           e == episodes[last]
           longer == [e EXCEPT !.end = row.cycle, !.rows = Append(@, row)]
           grown == [episodes EXCEPT ![last] = longer]
<1>1. PICK S : episodes \in Seq(S)
    BY DEF Parted, SeqLike
<1>2. last \in Nat /\ last \in 1 .. last /\ DOMAIN episodes = 1 .. last
    BY <1>1
<1>3. Episode(e) /\ row.cycle = e.end + 1 /\ row.key = e.key
    BY <1>2 DEF Parted, Continues, Episode
<1>4. /\ longer.start = e.start /\ longer.end = row.cycle /\ longer.key = e.key
      /\ longer.rows = Append(e.rows, row)
      /\ {"start", "end", "key", "rows"} \subseteq DOMAIN longer
    BY <1>3 DEF Episode
<1>5. /\ SeqLike(longer.rows) /\ Len(e.rows) \in Nat /\ Len(longer.rows) = Len(e.rows) + 1
      /\ DOMAIN e.rows = 1 .. Len(e.rows) /\ DOMAIN longer.rows = 1 .. Len(e.rows) + 1
      /\ \A k \in 1 .. Len(e.rows) : longer.rows[k] = e.rows[k]
      /\ longer.rows[Len(e.rows) + 1] = row
    BY <1>3, <1>4, Appended DEF Episode
<1>6. Episode(longer)
    <2>1. e.end - e.start + 1 = Len(e.rows) /\ e.start \in Int /\ e.end \in Int
        BY <1>3 DEF Episode, OneEpisode
    <2>2. longer.end - longer.start + 1 = Len(longer.rows)
        BY <1>3, <1>4, <1>5, <2>1
    <2>3. ASSUME NEW m \in DOMAIN longer.rows
          PROVE  longer.rows[m].cycle = longer.start + m - 1 /\ longer.rows[m].key = longer.key
        <3>1. CASE m = Len(e.rows) + 1
            BY <1>3, <1>4, <1>5, <2>1, <3>1
        <3>2. CASE m \in 1 .. Len(e.rows)
            BY <1>3, <1>4, <1>5, <3>2 DEF Episode, OneEpisode
        <3> QED
            BY <1>5, <3>1, <3>2
    <2> QED
        BY <1>3, <1>4, <1>5, <2>1, <2>2, <2>3 DEF Episode, OneEpisode
<1>7. grown \in Seq(S \cup {longer})
    BY <1>1, <1>2
<1>8. /\ SeqLike(grown) /\ Len(grown) = last /\ DOMAIN grown = 1 .. last
      /\ grown[last] = longer /\ \A k \in 1 .. last - 1 : grown[k] = episodes[k]
    BY <1>1, <1>2, <1>7 DEF SeqLike
<1> HIDE DEF row, last, e, longer, grown
<1>9. CutOf(grown, log, n + 1)
    <2>1. PICK from \in [1 .. last + 1 -> 1 .. n + 1] :
            /\ from[1] = 1 /\ from[last + 1] = n + 1
            /\ \A k \in 1 .. last :
                 /\ from[k] < from[k + 1] /\ Len(episodes[k].rows) = from[k + 1] - from[k]
                 /\ \A m \in DOMAIN episodes[k].rows : episodes[k].rows[m] = log[from[k] + m - 1]
        BY <1>2 DEF Parted, CutOf, last
    <2>2. PICK further : further = [from EXCEPT ![last + 1] = n + 2]
        OBVIOUS
    <2>3. /\ further \in [1 .. last + 1 -> 1 .. n + 2]
          /\ further[last + 1] = n + 2 /\ \A k \in 1 .. last : further[k] = from[k]
        BY <1>2, <2>2
    <2>4. further[1] = 1
        BY <1>2, <2>1, <2>3
    <2>5. ASSUME NEW k \in 1 .. last
          PROVE  /\ further[k] < further[k + 1]
                 /\ Len(grown[k].rows) = further[k + 1] - further[k]
                 /\ \A m \in DOMAIN grown[k].rows : grown[k].rows[m] = log[further[k] + m - 1]
        <3>1. CASE k = last
            <4>1. /\ from[last] \in Int /\ from[last] < n + 1
                  /\ Len(e.rows) = n + 1 - from[last]
                  /\ \A m \in DOMAIN e.rows : e.rows[m] = log[from[last] + m - 1]
                BY <1>2, <2>1 DEF e
            <4>2. log[from[last] + (Len(e.rows) + 1) - 1] = row
                BY <4>1 DEF row
            <4>3. \A m \in 1 .. Len(e.rows) + 1 : longer.rows[m] = log[from[last] + m - 1]
                <5>1. \A m \in 1 .. Len(e.rows) : longer.rows[m] = log[from[last] + m - 1]
                    BY <1>5, <4>1
                <5>2. \A m \in 1 .. Len(e.rows) + 1 :
                        m \in 1 .. Len(e.rows) \/ m = Len(e.rows) + 1
                    BY <1>5
                <5> QED
                    BY <1>5, <4>2, <5>1, <5>2
            <4>4. /\ from[last] < n + 2 /\ Len(longer.rows) = n + 2 - from[last]
                BY <1>5, <4>1
            <4> QED
                <5>1. /\ grown[last] = longer /\ DOMAIN longer.rows = 1 .. Len(e.rows) + 1
                      /\ further[last] = from[last] /\ further[last + 1] = n + 2
                    BY <1>2, <1>5, <1>8, <2>3
                <5>2. further[k] = from[last] /\ further[k + 1] = n + 2 /\ grown[k] = longer
                    BY <3>1, <5>1
                <5>3. \A m \in DOMAIN grown[k].rows : grown[k].rows[m] = log[further[k] + m - 1]
                    BY <4>3, <5>1, <5>2
                <5>4. further[k] < further[k + 1]
                    BY <4>1, <4>4, <5>2
                <5>5. Len(grown[k].rows) = further[k + 1] - further[k]
                    <6>1. Len(grown[k].rows) = n + 2 - from[last]
                        BY <4>4, <5>2, Zenon
                    <6>2. further[k + 1] - further[k] = n + 2 - from[last]
                        <7>1. \A x, y, z \in Int : x = n + 2 /\ y = z => x - y = n + 2 - z
                            OBVIOUS
                        <7>2. /\ further[k] \in Int /\ further[k + 1] \in Int
                              /\ further[k] = from[last] /\ further[k + 1] = n + 2
                            BY <4>1, <5>2
                        <7> QED
                            BY <4>1, <7>1, <7>2, Zenon
                    <6> QED
                        BY <6>1, <6>2, Zenon
                <5> QED
                    BY <5>3, <5>4, <5>5
        <3>2. CASE k # last
            <4>1. k \in 1 .. last - 1 /\ k + 1 \in 1 .. last
                BY <1>2, <3>2
            <4>2. grown[k] = episodes[k] /\ further[k] = from[k] /\ further[k + 1] = from[k + 1]
                BY <1>8, <2>3, <4>1
            <4> QED
                BY <2>1, <4>2
        <3> QED
            BY <3>1, <3>2
    <2> QED
        <3>1. further \in [1 .. Len(grown) + 1 -> 1 .. (n + 1) + 1] /\ n + 2 = (n + 1) + 1
            BY <1>8, <2>3
        <3>2. further[Len(grown) + 1] = (n + 1) + 1
            BY <1>8, <2>3
        <3>3. \A k \in DOMAIN grown :
                /\ further[k] < further[k + 1]
                /\ Len(grown[k].rows) = further[k + 1] - further[k]
                /\ \A m \in DOMAIN grown[k].rows : grown[k].rows[m] = log[further[k] + m - 1]
            BY <1>8, <2>5
        <3> QED
            BY <2>4, <3>1, <3>2, <3>3, Zenon DEF CutOf
<1>10. \A k \in 1 .. last : Episode(grown[k])
    BY <1>2, <1>6, <1>8 DEF Parted, last
<1>11. ASSUME NEW k \in 1 .. last - 1, grown[k].key = grown[k + 1].key
       PROVE  grown[k + 1].start # grown[k].end + 1
    <2>1. /\ grown[k] = episodes[k] /\ grown[k + 1].key = episodes[k + 1].key
          /\ grown[k + 1].start = episodes[k + 1].start
        <3>1. e = episodes[last] /\ k + 1 \in 1 .. last
            BY <1>2 DEF e
        <3>2. CASE k + 1 = last
            BY <1>4, <1>8, <3>1, <3>2
        <3>3. CASE k + 1 \in 1 .. last - 1
            BY <1>8, <3>3
        <3> QED
            BY <1>2, <1>8, <3>1, <3>2, <3>3
    <2> QED
        BY <1>11, <2>1 DEF Parted, last
<1>12. Parted(grown, log, n + 1)
    BY <1>8, <1>9, <1>10, <1>11 DEF Parted
<1>13. grown = [episodes EXCEPT ![Len(episodes)].end = log[n + 1].cycle,
                                ![Len(episodes)].rows = Append(@, log[n + 1])]
    BY <1>2, <1>3 DEF grown, longer, e, last, row, Episode
<1> QED
    BY <1>12, <1>13
(* ... or begins a new one.                                                *)
LEMMA AppendNew ==
    ASSUME NEW log, NEW n \in Nat, NEW episodes, Parted(episodes, log, n),
           log[n + 1].cycle \in Int,
           Len(episodes) > 0 => ~Continues(episodes[Len(episodes)], log[n + 1])
    PROVE  Parted(Append(episodes, [start |-> log[n + 1].cycle, end |-> log[n + 1].cycle,
                                    key |-> log[n + 1].key, rows |-> <<log[n + 1]>>]),
                  log, n + 1)
<1>1. PICK row : row = log[n + 1]
    OBVIOUS
<1>2. PICK e : e = [start |-> row.cycle, end |-> row.cycle, key |-> row.key, rows |-> <<row>>]
    OBVIOUS
<1>3. PICK grown : grown = Append(episodes, e)
    OBVIOUS
<1>4. PICK last \in Nat : last = Len(episodes)
    BY Appended DEF Parted
<1>5. /\ SeqLike(grown) /\ Len(grown) = last + 1 /\ DOMAIN grown = 1 .. last + 1
      /\ DOMAIN episodes = 1 .. last
      /\ \A k \in 1 .. last : grown[k] = episodes[k] /\ grown[last + 1] = e
      /\ grown[last + 1] = e
    BY <1>3, <1>4, Appended DEF Parted
<1>6. /\ e.start = row.cycle /\ e.end = row.cycle /\ e.key = row.key /\ e.rows = <<row>>
      /\ {"start", "end", "key", "rows"} \subseteq DOMAIN e
    BY <1>2
<1>7. SeqLike(e.rows) /\ DOMAIN e.rows = 1 .. 1 /\ Len(e.rows) = 1 /\ e.rows[1] = row
    <2>1. <<row>> \in Seq({row}) /\ Len(<<row>>) = 1 /\ <<row>>[1] = row
        OBVIOUS
    <2>2. DOMAIN <<row>> = 1 .. 1
        OBVIOUS
    <2> QED
        BY <1>6, <2>1, <2>2, Zenon DEF SeqLike
<1>8. Episode(e)
    BY <1>1, <1>6, <1>7 DEF Episode, OneEpisode
<1>9. CutOf(grown, log, n + 1)
    <2>1. PICK from \in [1 .. last + 1 -> 1 .. n + 1] :
            /\ from[1] = 1 /\ from[last + 1] = n + 1
            /\ \A k \in 1 .. last :
                 /\ from[k] < from[k + 1] /\ Len(episodes[k].rows) = from[k + 1] - from[k]
                 /\ \A m \in DOMAIN episodes[k].rows : episodes[k].rows[m] = log[from[k] + m - 1]
        BY <1>4, <1>5 DEF Parted, CutOf
    <2>2. PICK further :
             further = [k \in 1 .. (last + 1) + 1 |-> IF k = last + 2 THEN n + 2 ELSE from[k]]
        OBVIOUS
    <2>3. /\ further \in [1 .. (last + 1) + 1 -> 1 .. (n + 1) + 1]
          /\ further[(last + 1) + 1] = (n + 1) + 1
          /\ \A k \in 1 .. last + 1 : further[k] = from[k]
        <3>1. \A k \in 1 .. last + 1 : from[k] \in 1 .. (n + 1) + 1
            OBVIOUS
        <3>2. \A k \in 1 .. (last + 1) + 1 : k = last + 2 \/ k \in 1 .. last + 1
            OBVIOUS
        <3> QED
            BY <2>2, <3>1, <3>2
    <2>4. further[1] = 1
        BY <2>1, <2>3
    <2>5. ASSUME NEW k \in 1 .. last + 1
          PROVE  /\ further[k] < further[k + 1]
                 /\ Len(grown[k].rows) = further[k + 1] - further[k]
                 /\ \A m \in DOMAIN grown[k].rows : grown[k].rows[m] = log[further[k] + m - 1]
        <3>1. CASE k = last + 1
            <4>1. further[k] = n + 1 /\ further[k + 1] = n + 2 /\ grown[k] = e
                BY <1>5, <2>1, <2>3, <3>1
            <4>2. \A m \in DOMAIN e.rows : m = 1 /\ e.rows[m] = log[n + 1]
                BY <1>1, <1>7
            <4> QED
                <5>1. \A m \in DOMAIN grown[k].rows : grown[k].rows[m] = log[further[k] + m - 1]
                    BY <4>1, <4>2
                <5>2. Len(grown[k].rows) = 1
                    BY <1>7, <4>1, Zenon
                <5> QED
                    BY <4>1, <5>1, <5>2
        <3>2. CASE k \in 1 .. last
            <4>1. grown[k] = episodes[k] /\ further[k] = from[k] /\ further[k + 1] = from[k + 1]
                BY <1>5, <2>3, <3>2
            <4> QED
                BY <2>1, <3>2, <4>1
        <3> QED
            BY <3>1, <3>2
    <2>6. /\ further \in [1 .. Len(grown) + 1 -> 1 .. (n + 1) + 1]
          /\ further[Len(grown) + 1] = (n + 1) + 1
        BY <1>5, <2>3
    <2>7. \A k \in DOMAIN grown :
                /\ further[k] < further[k + 1]
                /\ Len(grown[k].rows) = further[k + 1] - further[k]
                /\ \A m \in DOMAIN grown[k].rows : grown[k].rows[m] = log[further[k] + m - 1]
        BY <1>5, <2>5
    <2> QED
        BY <2>4, <2>6, <2>7, Zenon DEF CutOf
<1>10. ASSUME NEW k \in 1 .. last + 1 PROVE Episode(grown[k])
    <2>1. CASE k = last + 1
        BY <1>5, <1>8, <2>1
    <2>2. CASE k \in 1 .. last
        <3>1. Episode(episodes[k])
            BY <1>4, <2>2 DEF Parted
        <3> QED
            BY <1>5, <2>2, <3>1
    <2> QED
        BY <2>1, <2>2
<1>11. ASSUME NEW k \in 1 .. last, grown[k].key = grown[k + 1].key
       PROVE  grown[k + 1].start # grown[k].end + 1
    <2>1. CASE k = last
        BY <1>1, <1>4, <1>5, <1>6, <1>11, <2>1 DEF Continues
    <2>2. CASE k \in 1 .. last - 1
        <3>1. grown[k] = episodes[k] /\ grown[k + 1] = episodes[k + 1]
            BY <1>5, <2>2
        <3> QED
            BY <1>4, <1>11, <2>2, <3>1 DEF Parted
    <2> QED
        BY <2>1, <2>2
<1>12. Parted(grown, log, n + 1)
    BY <1>5, <1>9, <1>10, <1>11 DEF Parted
<1> QED
    BY <1>1, <1>2, <1>3, <1>12

LEMMA NoEpisodes == ASSUME NEW log PROVE Parted(<< >>, log, 0)
<1>1. PICK from : from = [k \in 1 .. 1 |-> 1]
    OBVIOUS
<1>2. from \in [1 .. 1 -> 1 .. 1] /\ from[1] = 1
    BY <1>1
<1>3. from \in [1 .. Len(<< >>) + 1 -> 1 .. 0 + 1] /\ from[Len(<< >>) + 1] = 0 + 1
    BY <1>2, EmptySeqLike
<1>4. \A k \in DOMAIN << >> : FALSE
    BY EmptySeqLike
<1>5. CutOf(<< >>, log, 0)
    BY <1>2, <1>3, <1>4, Zenon DEF CutOf
<1> QED
    BY <1>5, EmptySeqLike DEF Parted

LEMMA ExtendParts ==
    ASSUME NEW log, NEW n \in Nat, NEW episodes, Parted(episodes, log, n),
           log[n + 1].cycle \in Int
    PROVE  Parted(Extend(episodes, log[n + 1]), log, n + 1)
<1>1. episodes # << >> <=> Len(episodes) > 0
    <2>1. PICK S : episodes \in Seq(S)
        BY DEF Parted, SeqLike
    <2> QED
        BY <2>1
<1>2. CASE episodes # << >> /\ Continues(Last(episodes), log[n + 1])
    <2>1. Continues(episodes[Len(episodes)], log[n + 1])
        BY <1>2 DEF Last
    <2> QED
        BY <1>1, <1>2, <2>1, ExtendLast DEF Extend
<1>3. CASE ~(episodes # << >> /\ Continues(Last(episodes), log[n + 1]))
    <2>1. Len(episodes) > 0 => ~Continues(episodes[Len(episodes)], log[n + 1])
        BY <1>1, <1>3 DEF Last
    <2> QED
        BY <1>3, <2>1, AppendNew DEF Extend
<1> QED
    BY <1>2, <1>3

(* The rows read so far, and only those, are in the episodes.              *)
ProbeInvariant ==
    script = "probe" =>
        /\ at = "read" => rows = << >>
        /\ at = "group" =>
             /\ input.log \in OverlapLogs /\ {"log", "next"} \subseteq DOMAIN input
             /\ \E n \in 0 .. Len(input.log) :
                  input.next = n + 1 /\ Parted(rows, input.log, n)
        /\ at = "end" /\ rc = 0 => Parted(rows, input.log, Len(input.log))
        /\ at \in {"idle", "read", "group", "end"}

LEMMA PartedIsMaximal ==
    ASSUME NEW log, NEW n, Parted(rows, log, n)
    PROVE  /\ CutOf(rows, log, n)
           /\ \A k \in DOMAIN rows : OneEpisode(rows[k])
           /\ \A k \in 1 .. Len(rows) - 1 :
                rows[k].key = rows[k + 1].key => rows[k + 1].start # rows[k].end + 1
<1>1. DOMAIN rows = 1 .. Len(rows)
    BY Appended DEF Parted
<1> QED
    BY <1>1 DEF Parted, Episode

LEMMA ProbeSteps ==
    ASSUME ProbeInvariant, ProbeReads \/ ProbeGroups \/ ProbeEnds PROVE ProbeInvariant'
<1>1. CASE ProbeReads
    <2>1. CASE at' = "group"
        <3>1. PICK log \in OverlapLogs : input' = [log |-> log, next |-> 1]
            BY <1>1, <2>1 DEF ProbeReads, Raise, Return
        <3>2. rows' = << >> /\ Len(log) \in Nat /\ script' = "probe"
            BY <1>1, <3>1, LogAssumption DEF ProbeReads, ProbeInvariant, InScript
        <3>3. Parted(rows, input.log, 0)'
            BY <3>1, <3>2, NoEpisodes
        <3>4. 0 \in 0 .. Len(input'.log) /\ input'.next = 0 + 1 /\ input'.log \in OverlapLogs
              /\ {"log", "next"} \subseteq DOMAIN input'
            BY <3>1, <3>2
        <3> QED
            BY <2>1, <3>2, <3>3, <3>4 DEF ProbeInvariant
    <2>2. CASE at' = "end" /\ rc' = 1
        BY <2>2 DEF ProbeInvariant
    <2> QED
        BY <1>1, <2>1, <2>2 DEF ProbeReads, Raise, Return, Goto
<1>2. CASE ProbeGroups
    <2>1. /\ script = "probe" /\ script' = "probe" /\ at = "group" /\ at' = "group"
          /\ input.next <= Len(input.log) /\ rows' = Extend(rows, input.log[input.next])
          /\ input' = [input EXCEPT !.next = @ + 1]
        BY <1>2 DEF ProbeGroups, Goto, InScript
    <2>2. PICK n \in 0 .. Len(input.log) : input.next = n + 1 /\ Parted(rows, input.log, n)
        BY <2>1 DEF ProbeInvariant
    <2>3. /\ input.log \in OverlapLogs /\ {"log", "next"} \subseteq DOMAIN input
          /\ Len(input.log) \in Nat /\ DOMAIN input.log = 1 .. Len(input.log)
        BY <2>1, LogAssumption DEF ProbeInvariant
    <2>4. /\ input'.log = input.log /\ input'.next = n + 2
          /\ {"log", "next"} \subseteq DOMAIN input'
        BY <2>1, <2>2, <2>3
    <2>5. n \in Nat /\ n + 1 \in 1 .. Len(input.log) /\ input.log[n + 1].cycle \in Int
        BY <2>1, <2>2, <2>3, LogAssumption
    <2>6. Parted(rows, input.log, n + 1)'
        BY <2>1, <2>2, <2>4, <2>5, ExtendParts
    <2>7. n + 1 \in 0 .. Len(input'.log) /\ input'.next = (n + 1) + 1
        BY <2>4, <2>5
    <2> QED
        BY <2>1, <2>3, <2>4, <2>6, <2>7 DEF ProbeInvariant
<1>3. CASE ProbeEnds
    <2>1. /\ script = "probe" /\ script' = "probe" /\ at = "group" /\ at' = "end"
          /\ input.next > Len(input.log) /\ rows' = rows /\ input' = input
        BY <1>3 DEF ProbeEnds, Return, InScript
    <2>2. PICK n \in 0 .. Len(input.log) : input.next = n + 1 /\ Parted(rows, input.log, n)
        BY <2>1 DEF ProbeInvariant
    <2>3. Len(input.log) \in Nat
        BY <2>1, LogAssumption DEF ProbeInvariant
    <2>4. n = Len(input.log)
        BY <2>1, <2>2, <2>3
    <2> QED
        BY <2>1, <2>2, <2>4 DEF ProbeInvariant
<1> QED
    BY <1>1, <1>2, <1>3

LEMMA ProbeStep == ProbeInvariant /\ [Next]_vars => ProbeInvariant'
<1> SUFFICES ASSUME ProbeInvariant, [Next]_vars PROVE ProbeInvariant'
    OBVIOUS
<1>1. CASE UNCHANGED vars
    BY <1>1 DEF vars, processVars, fetchVars, ProbeInvariant, Parted, SeqLike, CutOf
<1>2. CASE Aside
    BY <1>2 DEF Aside, Analyses, ProbeInvariant, Entry, Drivers, Builders
<1>3. CASE DesignNext \/ SelectionNext
    BY <1>3, DesignStays, SelectionStays DEF ProbeInvariant
<1>4. CASE FetchNext
    <2>1. CASE script \in FetchScripts
        BY <1>4, <2>1, FetchStays DEF ProbeInvariant, FetchScripts
    <2>2. CASE script = "probe"
        BY <1>4, <2>2, ProbeSteps DEF FetchNext, FetchCase, FetchEnds, FetchScripts
    <2> QED
        BY <1>4, <2>1, <2>2, FetchStays
<1> QED
    BY <1>1, <1>2, <1>3, <1>4, StepKinds

(* For every log of stall overlaps the probe's episodes are the log cut    *)
(* into maximal pieces: every row in one, none twice, none too short.      *)
THEOREM EpisodesAreMaximal == Spec => []EpisodesMaximal
<1>1. Init => ProbeInvariant
    BY DEF Init, ProcessInit, ProbeInvariant
<1>2. ProbeInvariant => EpisodesMaximal
    BY PartedIsMaximal DEF ProbeInvariant, EpisodesMaximal
<1>3. ProbeInvariant /\ [Next]_vars => ProbeInvariant'
    BY ProbeStep
<1> QED
    BY <1>1, <1>2, <1>3, PTL DEF Spec
-----------------------------------------------------------------------------
(* Least elements and sorting.                                             *)

Below == {p \in Nat \X Nat : p[1] < p[2]}

LEMMA BelowIsWellFounded == IsWellFoundedOn(Below, Nat)
BY NatLessThanWellFounded, Zenon DEF OpToRel, Below

LEMMA LeastNatural ==
    ASSUME NEW T \in SUBSET Nat, T # {}
    PROVE  \E x \in T : \A y \in T : x <= y
<1>1. PICK x \in T : \A y \in T : <<y, x>> \notin Below
    BY WFMin, BelowIsWellFounded
<1>2. \A y \in T : ~(y < x)
    BY <1>1 DEF Below
<1> QED
    BY <1>1, <1>2

(* A place with the least cost of all.                                     *)
LEMMA LeastCost ==
    ASSUME NEW S, S # {}, NEW cost \in [S -> Nat]
    PROVE  \E k \in S : \A j \in S : cost[k] <= cost[j]
<1>1. PICK x \in {cost[k] : k \in S} : \A y \in {cost[k] : k \in S} : x <= y
    <2>1. {cost[k] : k \in S} \in SUBSET Nat /\ {cost[k] : k \in S} # {}
        OBVIOUS
    <2> QED
        BY <2>1, LeastNatural
<1> QED
    BY <1>1

StrictOrder(before, places) ==
    /\ \A j \in places : <<j, j>> \notin before
    /\ \A j, k \in places : j # k => <<j, k>> \in before \/ <<k, j>> \in before
    /\ \A i, j, k \in places :
         <<i, j>> \in before /\ <<j, k>> \in before => <<i, k>> \in before

(* A sorted list shows every place once, in the order.                     *)
Enumerated(sorted, list, places, before) ==
    \E order \in [1 .. Cardinality(places) -> places] :
        /\ \A k \in places : \E n \in 1 .. Cardinality(places) : order[n] = k
        /\ \A m, n \in 1 .. Cardinality(places) : m < n => <<order[m], order[n]>> \in before
        /\ sorted = [n \in 1 .. Cardinality(places) |-> list[order[n]]]

(* Ranking by the number of smaller places is a bijection.                 *)
LEMMA SortedPlaces ==
    ASSUME NEW list, NEW places, IsFiniteSet(places), NEW before, StrictOrder(before, places)
    PROVE  Enumerated(Sorted(list, places, before), list, places, before)
<1> DEFINE Lower(k) == {j \in places : <<j, k>> \in before}
           c == Cardinality(places)
           rank == [k \in places |-> Cardinality(Lower(k))]
<1>1. c \in Nat
    BY FS_CardinalityType
<1>2. \A k \in places : IsFiniteSet(Lower(k)) /\ Cardinality(Lower(k)) \in Nat
    BY FS_Subset, FS_CardinalityType
<1>3. ASSUME NEW k \in places PROVE Cardinality(Lower(k)) \in 0 .. c - 1
    <2>1. Lower(k) \subseteq places /\ k \notin Lower(k)
        BY DEF StrictOrder
    <2>2. Cardinality(Lower(k)) <= c /\ Cardinality(Lower(k)) # c
        BY <2>1, FS_Subset
    <2> QED
        BY <1>1, <1>2, <2>2
<1>4. ASSUME NEW j \in places, NEW k \in places, <<j, k>> \in before
      PROVE  rank[j] < rank[k]
    <2>1. Lower(j) \subseteq Lower(k) /\ j \in Lower(k) /\ j \notin Lower(j)
        BY <1>4 DEF StrictOrder
    <2>2. Cardinality(Lower(j)) <= Cardinality(Lower(k))
          /\ Cardinality(Lower(j)) # Cardinality(Lower(k))
        BY <1>2, <2>1, FS_Subset
    <2> QED
        BY <1>2, <2>2
<1>5. /\ rank \in [places -> 0 .. c - 1]
      /\ \A j, k \in places : rank[j] = rank[k] => j = k
    <2>1. rank \in [places -> 0 .. c - 1]
        BY <1>3
    <2>2. ASSUME NEW j \in places, NEW k \in places, rank[j] = rank[k], j # k PROVE FALSE
        <3>1. rank[j] < rank[k] \/ rank[k] < rank[j]
            BY <1>4, <2>2 DEF StrictOrder
        <3> QED
            BY <1>1, <2>1, <2>2, <3>1
    <2> QED
        BY <2>1, <2>2
<1> HIDE DEF rank
<1>6. IsFiniteSet(0 .. c - 1) /\ Cardinality(0 .. c - 1) = c
    BY <1>1, FS_Interval
<1>7. \A x \in 0 .. c - 1 : \E k \in places : rank[k] = x
    <2>1. rank \in Injection(places, 0 .. c - 1)
        BY <1>5 DEF Injection, IsInjective
    <2>2. rank \in Surjection(places, 0 .. c - 1)
        BY <1>6, <2>1, FS_Injection
    <2> QED
        BY <2>2 DEF Surjection
<1>8. PICK order : order = [n \in 1 .. c |-> CHOOSE k \in places : rank[k] = n - 1]
    OBVIOUS
<1>9. ASSUME NEW n \in 1 .. c PROVE order[n] \in places /\ rank[order[n]] = n - 1
    <2>1. n - 1 \in 0 .. c - 1
        BY <1>1
    <2>2. \E k \in places : rank[k] = n - 1
        BY <1>7, <2>1
    <2> QED
        BY <1>8, <2>2
<1>10. order \in [1 .. c -> places]
    BY <1>8, <1>9
<1>11. ASSUME NEW k \in places PROVE \E n \in 1 .. c : order[n] = k
    <2>1. PICK m \in 1 .. c : m - 1 = rank[k]
        <3>1. rank[k] \in 0 .. c - 1
            BY <1>5
        <3>2. ASSUME NEW r \in 0 .. c - 1 PROVE \E m \in 1 .. c : m - 1 = r
            <4>1. r + 1 \in 1 .. c /\ (r + 1) - 1 = r
                BY <1>1
            <4> QED
                BY <4>1
        <3> QED
            BY <3>1, <3>2
    <2>2. rank[order[m]] = rank[k] /\ order[m] \in places
        BY <1>9, <2>1
    <2> QED
        BY <1>5, <2>1, <2>2
<1>12. ASSUME NEW m \in 1 .. c, NEW n \in 1 .. c, m < n
       PROVE  <<order[m], order[n]>> \in before
    <2>1. /\ order[m] \in places /\ order[n] \in places
          /\ rank[order[m]] = m - 1 /\ rank[order[n]] = n - 1
        BY <1>9
    <2>2. rank[order[m]] < rank[order[n]]
        BY <1>1, <1>12, <2>1
    <2>3. order[m] # order[n] /\ <<order[n], order[m]>> \notin before
        BY <1>1, <1>4, <1>12, <2>1, <2>2
    <2> QED
        BY <2>1, <2>3 DEF StrictOrder
<1>13. Sorted(list, places, before) = [n \in 1 .. c |-> list[order[n]]]
    <2>1. \A n \in 1 .. c : order[n] = CHOOSE k \in places : Cardinality(Lower(k)) = n - 1
        BY <1>8 DEF rank
    <2>2. Sorted(list, places, before)
            = [n \in 1 .. c |-> list[CHOOSE k \in places : Cardinality(Lower(k)) = n - 1]]
        BY Zenon DEF Sorted
    <2> HIDE DEF Lower, c
    <2> QED
        BY <2>1, <2>2, Zenon
<1> QED
    BY <1>10, <1>11, <1>12, <1>13 DEF Enumerated

-----------------------------------------------------------------------------
(* The lists of the exploration.                                           *)

Counted(list) == Len(list) \in Nat /\ DOMAIN list = 1 .. Len(list)

(* Unique keeps the first row of each configuration.                       *)
LEMMA UniqueRows ==
    ASSUME NEW list, Counted(list)
    PROVE  /\ Counted(Unique(list))
           /\ \A n \in DOMAIN Unique(list) : \E k \in DOMAIN list : Unique(list)[n] = list[k]
           /\ \A m, n \in DOMAIN Unique(list) :
                Key(Unique(list)[m]) = Key(Unique(list)[n]) => m = n
           /\ \A key : HasKey(list, key) => HasKey(Unique(list), key)
           /\ Len(list) > 0 => \E n \in DOMAIN Unique(list) : Unique(list)[n] = list[1]
<1> DEFINE places == FirstPlaces(list)
           c == Cardinality(places)
<1>1. places \subseteq 1 .. Len(list) /\ IsFiniteSet(places)
    <2>1. places \subseteq 1 .. Len(list)
        BY DEF FirstPlaces, Counted
    <2>2. IsFiniteSet(1 .. Len(list))
        BY FS_Interval DEF Counted
    <2> QED
        BY <2>1, <2>2, FS_Subset
<1>2. StrictOrder(InOrder(places), places)
    <2>1. \A j, k \in places : j \in Nat /\ (<<j, k>> \in InOrder(places) <=> j < k)
        BY <1>1 DEF InOrder, Counted
    <2> HIDE DEF places
    <2>2. /\ \A j \in places : ~(j < j)
          /\ \A j, k \in places : j # k => j < k \/ k < j
          /\ \A i, j, k \in places : i < j /\ j < k => i < k
        <3>1. \A j \in places : j \in Nat
            BY <2>1
        <3> QED
            BY <3>1
    <2> QED
        BY <2>1, <2>2, Zenon DEF StrictOrder
<1> HIDE DEF places, c
<1>3. PICK order \in [1 .. c -> places] :
        /\ \A k \in places : \E n \in 1 .. c : order[n] = k
        /\ \A m, n \in 1 .. c : m < n => <<order[m], order[n]>> \in InOrder(places)
        /\ Sorted(list, places, InOrder(places)) = [n \in 1 .. c |-> list[order[n]]]
    <2>1. Enumerated(Sorted(list, places, InOrder(places)), list, places, InOrder(places))
        BY <1>1, <1>2, SortedPlaces, Zenon
    <2> QED
        BY <2>1, Zenon DEF c, Enumerated
<1>4. c \in Nat
    BY <1>1, FS_CardinalityType DEF c
<1>5. PICK unique : unique = Unique(list)
    OBVIOUS
<1>6. unique = [n \in 1 .. c |-> list[order[n]]]
    BY <1>3, <1>5 DEF Unique, places
<1>7. Counted(unique) /\ DOMAIN unique = 1 .. c
    <2>1. unique \in Seq({list[order[n]] : n \in 1 .. c})
        BY <1>4, <1>6
    <2> QED
        BY <1>4, <1>6, <2>1 DEF Counted
<1>8. \A n \in 1 .. c : unique[n] = list[order[n]] /\ order[n] \in places
    BY <1>3, <1>6
<1>9. \A n \in 1 .. c : order[n] \in DOMAIN list
    BY <1>8 DEF places, FirstPlaces
<1>10. ASSUME NEW m \in 1 .. c, NEW n \in 1 .. c, m < n
       PROVE  Key(unique[m]) # Key(unique[n])
    <2>1. order[m] < order[n] /\ order[m] \in 1 .. Len(list) /\ order[n] \in 1 .. Len(list)
        BY <1>1, <1>3, <1>8, <1>10 DEF InOrder
    <2>2. order[m] \in 1 .. order[n] - 1
        BY <2>1 DEF Counted
    <2>3. Key(list[order[m]]) # Key(list[order[n]])
        BY <1>8, <2>2 DEF places, FirstPlaces
    <2> QED
        BY <1>8, <2>3
<1>11. \A m, n \in 1 .. c : Key(unique[m]) = Key(unique[n]) => m = n
    BY <1>4, <1>10
<1>12. ASSUME NEW key, HasKey(list, key) PROVE HasKey(unique, key)
    <2>1. PICK k \in {x \in 1 .. Len(list) : Key(list[x]) = key} :
             \A y \in {x \in 1 .. Len(list) : Key(list[x]) = key} : k <= y
        <3>1. {x \in 1 .. Len(list) : Key(list[x]) = key} # {}
            BY <1>12 DEF HasKey, Counted
        <3>2. {x \in 1 .. Len(list) : Key(list[x]) = key} \in SUBSET Nat
            OBVIOUS
        <3> QED
            BY <3>1, <3>2, LeastNatural
    <2>2. \A j \in 1 .. k - 1 : Key(list[j]) # key
        BY <2>1 DEF Counted
    <2>3. k \in places
        BY <2>1, <2>2 DEF places, FirstPlaces, Counted
    <2>4. PICK n \in 1 .. c : order[n] = k
        BY <1>3, <2>3
    <2>5. Key(unique[n]) = key
        BY <1>8, <2>1, <2>4
    <2> QED
        BY <1>7, <2>5 DEF HasKey
<1>13. Len(list) > 0 => \E n \in 1 .. c : unique[n] = list[1]
    <2>1. Len(list) > 0 => 1 \in places
        BY DEF places, FirstPlaces, Counted
    <2> QED
        BY <1>3, <1>8, <2>1
<1> QED
    BY <1>5, <1>7, <1>8, <1>9, <1>11, <1>12, <1>13

(* next() finds a row if there is one, and it has the key.                 *)
LEMMA FirstHasKey ==
    ASSUME NEW list, Counted(list), NEW key, HasKey(list, key)
    PROVE  \E k \in DOMAIN list : First(list, key) = list[k] /\ Key(list[k]) = key
<1>1. PICK k \in {x \in 1 .. Len(list) : Key(list[x]) = key} :
         \A y \in {x \in 1 .. Len(list) : Key(list[x]) = key} : k <= y
    <2>1. {x \in 1 .. Len(list) : Key(list[x]) = key} # {}
        BY DEF HasKey, Counted
    <2>2. {x \in 1 .. Len(list) : Key(list[x]) = key} \in SUBSET Nat
        OBVIOUS
    <2> QED
        BY <2>1, <2>2, LeastNatural
<1>2. k \in DOMAIN list /\ Key(list[k]) = key /\ \A j \in 1 .. k - 1 : Key(list[j]) # key
    BY <1>1 DEF Counted
<1>3. PICK f : f = CHOOSE x \in DOMAIN list :
                      Key(list[x]) = key /\ \A j \in 1 .. x - 1 : Key(list[j]) # key
    OBVIOUS
<1>4. f \in DOMAIN list /\ Key(list[f]) = key
    BY <1>2, <1>3
<1> QED
    BY <1>3, <1>4 DEF First

-----------------------------------------------------------------------------
(* The front.                                                              *)

Priced(list, places) ==
    \A k \in places : Bytes(list[k]) \in Nat /\ list[k].cycles \in Nat

LEMMA BeatsTransitive ==
    ASSUME NEW a, NEW b, NEW c, Beats(a, b), Beats(b, c),
           Bytes(a) \in Nat, Bytes(b) \in Nat, Bytes(c) \in Nat,
           a.cycles \in Nat, b.cycles \in Nat, c.cycles \in Nat
    PROVE  Beats(a, c) /\ Bytes(a) + a.cycles < Bytes(b) + b.cycles
BY DEF Beats

(* A row that is beaten is beaten by one that is not: by the cheapest of   *)
(* those that beat it.                                                     *)
LEMMA BeatenByTheFront ==
    ASSUME NEW list, NEW places, Priced(list, places), NEW k \in places,
           \E j \in places : Beats(list[j], list[k])
    PROVE  \E j \in places : /\ Beats(list[j], list[k])
                             /\ ~\E i \in places : Beats(list[i], list[j])
<1> DEFINE S == {j \in places : Beats(list[j], list[k])}
           cost == [j \in S |-> Bytes(list[j]) + list[j].cycles]
<1>1. cost \in [S -> Nat] /\ S # {}
    BY DEF Priced
<1>2. PICK j \in S : \A i \in S : cost[j] <= cost[i]
    <2> HIDE DEF cost, S
    <2> QED
        BY <1>1, LeastCost
<1>3. ASSUME NEW i \in places, Beats(list[i], list[j]) PROVE FALSE
    <2>1. i \in S /\ Bytes(list[i]) + list[i].cycles < Bytes(list[j]) + list[j].cycles
        BY <1>3, BeatsTransitive DEF Priced
    <2>2. cost[j] <= cost[i]
        BY <1>2, <2>1
    <2>3. cost[j] = Bytes(list[j]) + list[j].cycles /\ cost[i] = Bytes(list[i]) + list[i].cycles
        BY <2>1
    <2> QED
        BY <1>1, <2>1, <2>2, <2>3 DEF Priced
<1> QED
    BY <1>3

LEMMA CheaperOrders ==
    ASSUME NEW list, NEW places \in SUBSET Nat, Priced(list, places), NEW kept \in SUBSET places
    PROVE  StrictOrder(CheaperFirst(list, places), kept)
<1>1. \A j, k \in kept : <<j, k>> \in CheaperFirst(list, places) <=> Cheaper(list, j, k)
    BY DEF CheaperFirst
<1>2. \A k \in kept : Bytes(list[k]) \in Nat /\ list[k].cycles \in Nat /\ k \in Nat
    BY DEF Priced
<1>3. \A j \in kept : ~Cheaper(list, j, j)
    BY <1>2 DEF Cheaper
<1>4. \A j, k \in kept : j # k => Cheaper(list, j, k) \/ Cheaper(list, k, j)
    BY <1>2 DEF Cheaper
<1>5. \A i, j, k \in kept : Cheaper(list, i, j) /\ Cheaper(list, j, k) => Cheaper(list, i, k)
    BY <1>2 DEF Cheaper
<1> QED
    BY <1>1, <1>3, <1>4, <1>5 DEF StrictOrder

LEMMA ParetoFront ==
    ASSUME NEW list, Counted(list), NEW places, places \subseteq DOMAIN list, places # {},
           Priced(list, places)
    PROVE  LET front == Pareto(list, places)
           IN  /\ front # << >> /\ Counted(front) /\ Ordered(front)
               /\ \A n \in DOMAIN front : \E k \in places : front[n] = list[k]
               /\ \A k \in places : (\E n \in DOMAIN front : front[n] = list[k])
                                      <=> ~\E n \in DOMAIN front : Beats(front[n], list[k])
<1> DEFINE kept == {k \in places : ~\E j \in places : Beats(list[j], list[k])}
           c == Cardinality(kept)
           before == CheaperFirst(list, places)
<1>1. places \in SUBSET Nat /\ IsFiniteSet(kept)
    <2>1. IsFiniteSet(1 .. Len(list)) /\ kept \subseteq 1 .. Len(list)
        BY FS_Interval DEF Counted
    <2>2. places \subseteq Nat
        BY DEF Counted
    <2> QED
        BY <2>1, <2>2, FS_Subset
<1>2. StrictOrder(before, kept)
    BY <1>1, CheaperOrders
<1>3. \A k \in kept : k \in places /\ ~\E j \in places : Beats(list[j], list[k])
    OBVIOUS
<1>4. \A k \in places : k \in kept \/ \E j \in kept : Beats(list[j], list[k])
    BY BeatenByTheFront
<1> HIDE DEF kept, c
<1>5. PICK order \in [1 .. c -> kept] :
        /\ \A k \in kept : \E n \in 1 .. c : order[n] = k
        /\ \A m, n \in 1 .. c : m < n => <<order[m], order[n]>> \in before
        /\ Sorted(list, kept, before) = [n \in 1 .. c |-> list[order[n]]]
    <2>1. Enumerated(Sorted(list, kept, before), list, kept, before)
        BY <1>1, <1>2, SortedPlaces, Zenon
    <2> QED
        BY <2>1, Zenon DEF c, Enumerated
<1>6. c \in Nat
    BY <1>1, FS_CardinalityType DEF c
<1>7. PICK front : front = Pareto(list, places)
    OBVIOUS
<1>8. front = [n \in 1 .. c |-> list[order[n]]]
    BY <1>5, <1>7 DEF Pareto, kept
<1>9. Counted(front) /\ DOMAIN front = 1 .. c
    <2>1. front \in Seq({list[order[n]] : n \in 1 .. c})
        BY <1>6, <1>8
    <2> QED
        BY <1>6, <1>8, <2>1 DEF Counted
<1>10. \A n \in 1 .. c : front[n] = list[order[n]] /\ order[n] \in kept
    BY <1>5, <1>8
<1>11. front # << >>
    <2>1. kept # {}
        BY <1>4
    <2>2. PICK n : n \in DOMAIN front
        BY <1>5, <1>9, <2>1
    <2>3. DOMAIN << >> = {}
        BY Zenon, EmptySeqLike
    <2> QED
        BY <2>2, <2>3
<1>12. Ordered(front)
    <2>1. ASSUME NEW j \in 1 .. c, NEW k \in 1 .. c, j < k
          PROVE  \/ Bytes(front[j]) < Bytes(front[k]) /\ front[j].cycles > front[k].cycles
                 \/ Bytes(front[j]) = Bytes(front[k]) /\ front[j].cycles = front[k].cycles
        <3>1. /\ order[j] \in places /\ order[k] \in places
              /\ front[j] = list[order[j]] /\ front[k] = list[order[k]]
              /\ ~Beats(front[j], front[k])
            BY <1>3, <1>10
        <3>2. Cheaper(list, order[j], order[k])
            BY <1>5, <2>1 DEF CheaperFirst
        <3>3. /\ Bytes(front[j]) \in Nat /\ front[j].cycles \in Nat
              /\ Bytes(front[k]) \in Nat /\ front[k].cycles \in Nat
            BY <3>1 DEF Priced
        <3>4. \/ Bytes(front[j]) < Bytes(front[k])
              \/ Bytes(front[j]) = Bytes(front[k]) /\ front[j].cycles <= front[k].cycles
            BY <3>1, <3>2, <3>3 DEF Cheaper
        <3> QED
            BY <3>1, <3>3, <3>4 DEF Beats
    <2> QED
        BY <1>9, <2>1 DEF Ordered
<1>13. ASSUME NEW k \in places
       PROVE  (\E n \in 1 .. c : front[n] = list[k]) <=> ~\E n \in 1 .. c : Beats(front[n], list[k])
    <2>1. ASSUME NEW n \in 1 .. c, NEW m \in 1 .. c, front[n] = list[k], Beats(front[m], list[k])
          PROVE  FALSE
        BY <1>3, <1>10, <2>1
    <2>2. CASE k \in kept
        BY <1>5, <1>10, <2>1, <2>2
    <2>3. CASE \E j \in kept : Beats(list[j], list[k])
        BY <1>5, <1>10, <2>1, <2>3
    <2> QED
        BY <1>4, <2>2, <2>3
<1> QED
    BY <1>3, <1>7, <1>9, <1>10, <1>11, <1>12, <1>13

-----------------------------------------------------------------------------
(* run_milestone6a and compare_milestone6b.                                *)

Configured(r) == r.i \in Nat /\ r.d \in Nat /\ r.lat \in Nat

LEMMA GridConfigured ==
    /\ Counted(Grid) /\ Len(Grid) > 0
    /\ \A n \in DOMAIN Grid : Configured(Grid[n]) /\ Grid[n].family = "cache_grid"
<1> DEFINE m == Len(Sizes)
<1>1. m \in Nat /\ m > 0 /\ \A k \in 1 .. m : Sizes[k] \in Nat
    BY DesignAssumption
<1>2. m * m \in Nat /\ m * m > 0
    BY <1>1
<1>3. ASSUME NEW n \in 1 .. m * m
      PROVE  ((n - 1) \div m) + 1 \in 1 .. m /\ ((n - 1) % m) + 1 \in 1 .. m
    <2>1. (n - 1) % m \in 0 .. m - 1
        BY <1>1, <1>2
    <2>2. PICK q \in Int : q = (n - 1) \div m
        BY <1>1, <1>2
    <2>3. n - 1 = m * q + ((n - 1) % m)
        BY <1>1, <1>2, <2>2
    <2>4. n - 1 \in Nat /\ n - 1 < m * m
        BY <1>1, <1>2
    <2>5. q >= 0
        <3>1. SUFFICES ASSUME q < 0 PROVE FALSE
            OBVIOUS
        <3>2. PICK p \in Nat : q = 0 - p - 1
            <4>1. 0 - q - 1 \in Nat /\ q = 0 - (0 - q - 1) - 1
                BY <3>1
            <4> QED
                BY <4>1
        <3>3. m * p \in Nat /\ m * q = 0 - m * p - m
            BY <1>1, <3>2
        <3> QED
            BY <1>1, <2>1, <2>3, <2>4, <3>3
    <2>6. q < m
        <3>1. SUFFICES ASSUME q >= m PROVE FALSE
            BY <1>1
        <3>2. PICK p \in Nat : q = m + p
            <4>1. q - m \in Nat /\ q = m + (q - m)
                BY <1>1, <3>1
            <4> QED
                BY <4>1
        <3>3. m * p \in Nat /\ m * q = m * m + m * p
            BY <1>1, <3>2
        <3> QED
            BY <1>1, <1>2, <2>1, <2>3, <2>4, <3>3
    <2> QED
        BY <1>1, <2>1, <2>2, <2>5, <2>6
<1>4. Counted(Grid)
    BY <1>2 DEF Grid, Counted
<1>5. Len(Grid) = m * m /\ DOMAIN Grid = 1 .. m * m
    BY <1>2 DEF Grid
<1>6. ASSUME NEW n \in 1 .. m * m
      PROVE  Configured(Grid[n]) /\ Grid[n].family = "cache_grid"
    <2>1. PICK i \in Nat, d \in Nat : Grid[n] = Config(i, d, BaseLat, "cache_grid")
        <3>1. /\ Sizes[((n - 1) \div m) + 1] \in Nat
              /\ Sizes[((n - 1) % m) + 1] \in Nat
            BY <1>1, <1>3
        <3>2. Grid[n] = Config(Sizes[((n - 1) \div m) + 1], Sizes[((n - 1) % m) + 1],
                               BaseLat, "cache_grid")
            BY DEF Grid
        <3> QED
            BY <3>1, <3>2, Zenon
    <2>2. BaseLat \in Nat
        BY DesignAssumption
    <2> QED
        BY <2>1, <2>2 DEF Config, Configured
<1> QED
    BY <1>2, <1>4, <1>5, <1>6

LEMMA ConfigurationsAreConfigured ==
    /\ Counted(Configurations) /\ Len(Configurations) > 0
    /\ Configurations[1].family = "cache_grid"
    /\ \A k \in 1 .. Len(Configurations) : Configured(Configurations[k])
<1> DEFINE configs == [i : Nat, d : Nat, lat : Nat, family : {"cache_grid", "latency_sweep", "mixed"}]
           latency == [k \in DOMAIN Latencies |->
                          Config(BaseLines, BaseLines, Latencies[k], "latency_sweep")]
           points == [k \in DOMAIN Mixed |->
                         Config(Mixed[k][1], Mixed[k][2], Mixed[k][3], "mixed")]
<1>1. Grid \in Seq(configs)
    <2>1. \A n \in DOMAIN Grid : Grid[n] \in configs
        BY GridConfigured DEF Grid, Config, Configured
    <2>2. PICK grid : grid = Grid
        OBVIOUS
    <2>3. grid = [n \in 1 .. Len(Grid) |-> grid[n]] /\ Len(Grid) \in Nat
        BY <2>2, GridConfigured DEF Grid, Counted
    <2>4. grid \in Seq(configs)
        BY <2>1, <2>2, <2>3, GridConfigured DEF Counted
    <2> QED
        BY <2>2, <2>4
<1>2. latency \in Seq(configs)
    <2>1. /\ Len(Latencies) \in Nat /\ DOMAIN Latencies = 1 .. Len(Latencies)
          /\ \A k \in 1 .. Len(Latencies) : Latencies[k] \in Nat
        BY DesignAssumption
    <2>2. \A k \in 1 .. Len(Latencies) : latency[k] \in configs
        BY <2>1, DesignAssumption DEF Config
    <2>3. latency = [k \in 1 .. Len(Latencies) |-> latency[k]]
        BY <2>1
    <2> HIDE DEF latency, configs
    <2> QED
        BY <2>1, <2>2, <2>3
<1>3. points \in Seq(configs)
    <2>1. /\ Len(Mixed) \in Nat /\ DOMAIN Mixed = 1 .. Len(Mixed)
          /\ \A k \in 1 .. Len(Mixed) :
               Mixed[k][1] \in Nat /\ Mixed[k][2] \in Nat /\ Mixed[k][3] \in Nat
        <3>1. \A point \in Nat \X Nat \X Nat : point[1] \in Nat /\ point[2] \in Nat /\ point[3] \in Nat
            OBVIOUS
        <3>2. /\ Len(Mixed) \in Nat /\ DOMAIN Mixed = 1 .. Len(Mixed)
              /\ \A k \in 1 .. Len(Mixed) : Mixed[k] \in Nat \X Nat \X Nat
            BY DesignAssumption
        <3> QED
            BY <3>1, <3>2
    <2>2. \A k \in 1 .. Len(Mixed) : points[k] \in configs
        BY <2>1 DEF Config
    <2>3. points = [k \in 1 .. Len(Mixed) |-> points[k]]
        BY <2>1
    <2> HIDE DEF points, configs
    <2> QED
        BY <2>1, <2>2, <2>3
<1>4. PICK grid \in Seq(configs), a \in Seq(configs), b \in Seq(configs) :
         grid = Grid /\ a = latency /\ b = points
    BY <1>1, <1>2, <1>3
<1>5. Configurations = (grid \o a) \o b
    BY <1>4 DEF Configurations
<1> HIDE DEF configs, latency, points
<1>6. PICK list \in Seq(configs) : list = (grid \o a) \o b
    <2>1. grid \o a \in Seq(configs)
        OBVIOUS
    <2>2. (grid \o a) \o b \in Seq(configs)
        BY <2>1
    <2> QED
        BY <2>2
<1>7. Len(grid) > 0 /\ grid[1].family = "cache_grid"
    BY <1>4, GridConfigured DEF Counted
<1>8. Len(list) = Len(grid) + Len(a) + Len(b) /\ list[1] = grid[1]
    BY <1>6, <1>7
<1>9. \A k \in 1 .. Len(list) : Configured(list[k])
    <2>1. \A k \in 1 .. Len(list) : list[k] \in configs
        OBVIOUS
    <2>2. \A r \in configs : Configured(r)
        BY DEF configs, Configured
    <2> QED
        BY <2>1, <2>2
<1> QED
    BY <1>5, <1>6, <1>7, <1>8, <1>9 DEF Counted

(* The rows of run_milestone6a while it simulates: one for each            *)
(* configuration so far.                                                   *)
SimulatedAs(r, config) ==
    /\ r.i = config.i /\ r.d = config.d /\ r.lat = config.lat /\ r.family = config.family
    /\ r.cycles \in Nat

Simulated == /\ SeqLike(rows) /\ Len(rows) <= Len(Configurations)
             /\ \A k \in 1 .. Len(rows) : SimulatedAs(rows[k], Configurations[k])

(* The rows it reports on: each configuration once.                        *)
Reported ==
    /\ Counted(rows)
    /\ \A k \in DOMAIN rows : Configured(rows[k]) /\ rows[k].cycles \in Nat
    /\ \A j, k \in DOMAIN rows : Key(rows[j]) = Key(rows[k]) => j = k
    /\ \E k \in DOMAIN rows : rows[k].family = "cache_grid"
    /\ \A key : HasKey(rows, key) <=> HasKey(Configurations, key)

FrontOfRows ==
    /\ disk.front # << >> /\ Ordered(disk.front)
    /\ \A n \in DOMAIN disk.front : disk.front[n].family = "cache_grid"
    /\ \A k \in DOMAIN rows :
         rows[k].family = "cache_grid" =>
             ((\E n \in DOMAIN disk.front : disk.front[n] = rows[k])
                <=> ~\E n \in DOMAIN disk.front : Beats(disk.front[n], rows[k]))
    /\ \A j, k \in DOMAIN disk.space : disk.space[j].config = disk.space[k].config => j = k

ExplorationInvariant ==
    script = "m6a" =>
        /\ at \in {"build", "cases", "report", "end", "idle"}
        /\ at = "build" => rows = << >>
        /\ at = "cases" => Simulated
        /\ at = "report" => Reported
        /\ at = "end" /\ rc = 0 => FrontOfRows

Foretold ==
    /\ Counted(disk.frozen)
    /\ disk.frozen # ShippedPredictions =>
         /\ \A k \in DOMAIN SelectedKeys : HasKey(Configurations, SelectedKeys[k])
         /\ \A p \in DOMAIN disk.frozen : \E k \in DOMAIN disk.space :
              /\ disk.space[k].config = disk.frozen[p].config
              /\ disk.space[k].cycles = disk.frozen[p].cycles

Validated ==
    script = "compare6b" =>
        /\ at \in {"read", "end", "idle"}
        /\ at = "end" /\ rc = 0 =>
             /\ Counted(rows) /\ Len(rows) = Len(disk.frozen)
             /\ \A k \in DOMAIN rows : Confirmed(disk.frozen, rows[k])

DesignInvariant == FilesThere /\ ExplorationInvariant /\ Foretold /\ Validated

LEMMA SimulateOne ==
    ASSUME ExplorationInvariant, Simulate, script = "m6a" PROVE ExplorationInvariant'
<1>1. script' = "m6a" /\ at = "cases" /\ Simulated
    BY DEF Simulate, InScript, ExplorationInvariant
<1>2. CASE Raise
    BY <1>1, <1>2 DEF Raise, Return, ExplorationInvariant
<1>3. CASE ~Raise
    <2>1. PICK config : config = Configurations[Len(rows) + 1]
        OBVIOUS
    <2>2. PICK cycles \in CycleCounts :
             /\ rows' = Append(rows, [i |-> config.i, d |-> config.d, lat |-> config.lat,
                                      family |-> config.family, cycles |-> cycles])
             /\ at' = "cases"
        BY <1>3, <2>1 DEF Simulate, ConfigList, Goto
    <2>3. PICK row : row = [i |-> config.i, d |-> config.d, lat |-> config.lat,
                            family |-> config.family, cycles |-> cycles]
        OBVIOUS
    <2>4. SimulatedAs(row, config)
        BY <2>3, DesignAssumption DEF SimulatedAs
    <2>5. rows' = Append(rows, row)
        BY <2>2, <2>3
    <2>6. Len(rows) < Len(Configurations)
        BY DEF Simulate, ConfigList
    <2>7. Simulated'
        <3>1. /\ SeqLike(rows') /\ Len(rows) \in Nat /\ Len(rows') = Len(rows) + 1
              /\ \A k \in 1 .. Len(rows) : rows'[k] = rows[k]
              /\ rows'[Len(rows) + 1] = row
            BY <1>1, <2>5, Appended DEF Simulated
        <3>2. ASSUME NEW k \in 1 .. Len(rows) + 1 PROVE SimulatedAs(rows'[k], Configurations[k])
            BY <1>1, <2>1, <2>4, <3>1 DEF Simulated
        <3>3. Len(rows') <= Len(Configurations)
            BY <2>6, <3>1, ConfigurationsAreConfigured DEF Counted
        <3> QED
            BY <3>1, <3>2, <3>3 DEF Simulated
    <2> QED
        BY <1>1, <2>2, <2>7 DEF ExplorationInvariant
<1> QED
    BY <1>2, <1>3

LEMMA SimulatedKeys ==
    ASSUME Simulated, Len(rows) = Len(Configurations)
    PROVE  /\ Counted(rows) /\ Len(rows) > 0 /\ rows[1].family = "cache_grid"
           /\ \A k \in DOMAIN rows : Configured(rows[k]) /\ rows[k].cycles \in Nat
           /\ \A key : HasKey(rows, key) <=> HasKey(Configurations, key)
<1>1. Counted(rows) /\ DOMAIN rows = DOMAIN Configurations
    BY Appended, ConfigurationsAreConfigured DEF Simulated, Counted
<1>2. ASSUME NEW k \in DOMAIN rows
      PROVE  /\ Configured(rows[k]) /\ rows[k].cycles \in Nat
             /\ Key(rows[k]) = Key(Configurations[k])
             /\ rows[k].family = Configurations[k].family
    BY <1>1, ConfigurationsAreConfigured DEF Simulated, SimulatedAs, Configured, Counted, Key
<1>3. \A key : HasKey(rows, key) <=> HasKey(Configurations, key)
    BY <1>1, <1>2 DEF HasKey
<1> QED
    BY <1>1, <1>2, <1>3, ConfigurationsAreConfigured DEF Counted

LEMMA DedupeReports ==
    ASSUME ExplorationInvariant, M6aDedupes PROVE ExplorationInvariant'
<1>1. /\ script = "m6a" /\ script' = "m6a" /\ at = "cases" /\ at' = "report" /\ Simulated
      /\ Len(rows) = Len(Configurations)
    BY DEF M6aDedupes, InScript, ExplorationInvariant, Goto
<1>2. PICK list : list = rows
    OBVIOUS
<1>3. PICK unique : unique = Unique(list)
    OBVIOUS
<1>4. rows' = unique
    BY <1>2, <1>3 DEF M6aDedupes
<1>5. /\ Counted(list) /\ Len(list) > 0 /\ list[1].family = "cache_grid"
      /\ \A k \in DOMAIN list : Configured(list[k]) /\ list[k].cycles \in Nat
      /\ \A key : HasKey(list, key) <=> HasKey(Configurations, key)
    BY <1>1, <1>2, SimulatedKeys
<1>6. /\ Counted(unique)
      /\ \A n \in DOMAIN unique : \E k \in DOMAIN list : unique[n] = list[k]
      /\ \A m, n \in DOMAIN unique : Key(unique[m]) = Key(unique[n]) => m = n
      /\ \A key : HasKey(list, key) => HasKey(unique, key)
      /\ Len(list) > 0 => \E n \in DOMAIN unique : unique[n] = list[1]
    BY <1>3, <1>5, UniqueRows
<1>7. \A key : HasKey(unique, key) => HasKey(list, key)
    BY <1>6 DEF HasKey
<1>8. Reported'
    <2>1. \A k \in DOMAIN unique : Configured(unique[k]) /\ unique[k].cycles \in Nat
        BY <1>5, <1>6
    <2>2. \E k \in DOMAIN unique : unique[k].family = "cache_grid"
        BY <1>5, <1>6
    <2>3. \A key : HasKey(unique, key) <=> HasKey(Configurations, key)
        BY <1>5, <1>6, <1>7
    <2> QED
        BY <1>4, <1>6, <2>1, <2>2, <2>3 DEF Reported
<1> QED
    BY <1>1, <1>8 DEF ExplorationInvariant
LEMMA ReportedPrices ==
    ASSUME Reported
    PROVE  /\ GridPlaces \subseteq DOMAIN rows /\ GridPlaces # {}
           /\ Priced(rows, GridPlaces)
<1>1. \A k \in DOMAIN rows : Bytes(rows[k]) \in Nat /\ rows[k].cycles \in Nat
    BY DEF Reported, Configured, Bytes
<1> QED
    BY <1>1 DEF Reported, GridPlaces, Priced

(* The two files that are written in any case.                             *)
LEMMA SpaceFiles ==
    ASSUME FilesThere, NEW files, files = Space
    PROVE  /\ files.space = Relative(rows) /\ files.front = Pareto(rows, GridPlaces)
           /\ files.frozen = disk.frozen /\ Results \subseteq DOMAIN files
<1>1. PICK space, front : space = Relative(rows) /\ front = Pareto(rows, GridPlaces)
    OBVIOUS
<1>2. files = [disk EXCEPT !.space = space, !.front = front]
    BY <1>1 DEF Space
<1> QED
    BY <1>1, <1>2 DEF FilesThere, Results

LEMMA RelativeRows ==
    /\ DOMAIN Relative(rows) = DOMAIN rows
    /\ \A k \in DOMAIN rows : /\ Relative(rows)[k].config = Key(rows[k])
                              /\ Relative(rows)[k].cycles = rows[k].cycles
BY DEF Relative

LEMMA ReportIsExact ==
    ASSUME Reported, rows' = rows,
           disk'.space = Relative(rows), disk'.front = Pareto(rows, GridPlaces)
    PROVE  FrontOfRows'
<1>1. PICK front : front = Pareto(rows, GridPlaces)
    OBVIOUS
<1>2. PICK list : list = rows
    OBVIOUS
<1>3. PICK places : places = GridPlaces
    OBVIOUS
<1>4. /\ Counted(list) /\ places \subseteq DOMAIN list /\ places # {} /\ Priced(list, places)
      /\ front = Pareto(list, places)
    BY <1>1, <1>2, <1>3, ReportedPrices DEF Reported
<1>5. /\ front # << >> /\ Counted(front) /\ Ordered(front)
      /\ \A n \in DOMAIN front : \E k \in places : front[n] = list[k]
      /\ \A k \in places : (\E n \in DOMAIN front : front[n] = list[k])
                             <=> ~\E n \in DOMAIN front : Beats(front[n], list[k])
    BY <1>4, ParetoFront
<1>6. \A k \in DOMAIN list : k \in places <=> list[k].family = "cache_grid"
    BY <1>2, <1>3 DEF GridPlaces
<1>7. PICK space : space = disk'.space
    OBVIOUS
<1>8. \A j, k \in DOMAIN space : space[j].config = space[k].config => j = k
    <2>1. DOMAIN space = DOMAIN rows /\ \A k \in DOMAIN rows : space[k].config = Key(rows[k])
        BY <1>7, RelativeRows
    <2> QED
        BY <2>1 DEF Reported
<1>9. disk'.front = front /\ rows' = list
    BY <1>1, <1>2
<1>10. \A n \in DOMAIN front : front[n].family = "cache_grid"
    BY <1>4, <1>5, <1>6
<1>11. ASSUME NEW k \in DOMAIN list, list[k].family = "cache_grid"
       PROVE  (\E n \in DOMAIN front : front[n] = list[k])
                <=> ~\E n \in DOMAIN front : Beats(front[n], list[k])
    BY <1>5, <1>6, <1>11
<1> QED
    <2>1. disk'.front # << >> /\ Ordered(disk'.front)
        BY <1>5, <1>9, Zenon
    <2>2. \A n \in DOMAIN disk'.front : disk'.front[n].family = "cache_grid"
        BY <1>9, <1>10, Zenon
    <2>3. ASSUME NEW k \in DOMAIN rows', rows'[k].family = "cache_grid"
          PROVE  (\E n \in DOMAIN disk'.front : disk'.front[n] = rows'[k])
                   <=> ~\E n \in DOMAIN disk'.front : Beats(disk'.front[n], rows'[k])
        <3>1. k \in DOMAIN list /\ list[k].family = "cache_grid"
            BY <1>9, <2>3, Zenon
        <3>2. (\E n \in DOMAIN front : front[n] = list[k])
                <=> ~\E n \in DOMAIN front : Beats(front[n], list[k])
            BY <1>11, <3>1
        <3> QED
            BY <1>9, <3>2, Zenon
    <2>4. \A j, k \in DOMAIN disk'.space : disk'.space[j].config = disk'.space[k].config => j = k
        BY <1>7, <1>8, Zenon
    <2> QED
        BY <2>1, <2>2, <2>3, <2>4, Zenon DEF FrontOfRows

LEMMA FrozenRows ==
    ASSUME Reported, \A k \in DOMAIN SelectedKeys : HasKey(rows, SelectedKeys[k])
    PROVE  /\ Counted(FrozenPredictions)
           /\ \A p \in DOMAIN FrozenPredictions : \E k \in DOMAIN rows :
                /\ Key(rows[k]) = FrozenPredictions[p].config
                /\ rows[k].cycles = FrozenPredictions[p].cycles
<1>1. Len(SelectedKeys) \in Nat /\ DOMAIN SelectedKeys = 1 .. Len(SelectedKeys)
    BY DesignAssumption
<1>2. PICK frozen : frozen = FrozenPredictions
    OBVIOUS
<1>3. /\ frozen = [k \in 1 .. Len(SelectedKeys) |-> frozen[k]]
      /\ \A k \in 1 .. Len(SelectedKeys) :
           /\ frozen[k].config = SelectedKeys[k]
           /\ frozen[k].cycles = First(rows, SelectedKeys[k]).cycles
    BY <1>1, <1>2 DEF FrozenPredictions
<1>4. Counted(frozen)
    <2>1. frozen \in Seq({frozen[k] : k \in 1 .. Len(SelectedKeys)})
        BY <1>1, <1>3
    <2> QED
        BY <2>1 DEF Counted
<1>5. ASSUME NEW p \in DOMAIN frozen
      PROVE  \E k \in DOMAIN rows : /\ Key(rows[k]) = frozen[p].config
                                    /\ rows[k].cycles = frozen[p].cycles
    <2>1. p \in 1 .. Len(SelectedKeys)
        BY <1>3
    <2>2. PICK k \in DOMAIN rows :
             First(rows, SelectedKeys[p]) = rows[k] /\ Key(rows[k]) = SelectedKeys[p]
        BY <1>1, <2>1, FirstHasKey DEF Reported
    <2> QED
        BY <1>3, <2>1, <2>2
<1> QED
    BY <1>2, <1>4, <1>5

LEMMA ReportsKeep ==
    ASSUME DesignInvariant, M6aReports PROVE DesignInvariant'
<1>1. /\ script = "m6a" /\ script' = "m6a" /\ at = "report" /\ Reported /\ rows' = rows
      /\ at' = "end"
    BY DEF M6aReports, InScript, DesignInvariant, ExplorationInvariant, Raise, Return
<1>2. Validated'
    BY <1>1 DEF Validated
<1>3. FilesThere /\ Foretold
    BY DEF DesignInvariant
<1>4. CASE ~HasKey(rows, BaseKey)
    <2>1. disk' = disk /\ rc' = 1
        BY <1>4 DEF M6aReports, Raise, Return
    <2>2. FilesThere' /\ Foretold'
        BY <1>3, <2>1 DEF FilesThere, Foretold
    <2> QED
        BY <1>1, <1>2, <2>1, <2>2 DEF DesignInvariant, ExplorationInvariant
<1>5. PICK files : files = Space
    OBVIOUS
<1>6. /\ files.space = Relative(rows) /\ files.front = Pareto(rows, GridPlaces)
      /\ files.frozen = disk.frozen /\ Results \subseteq DOMAIN files
    BY <1>3, <1>5, SpaceFiles
<1>7. CASE HasKey(rows, BaseKey) /\ \E k \in DOMAIN SelectedKeys : ~HasKey(rows, SelectedKeys[k])
    <2>1. disk' = files /\ rc' = 1
        BY <1>5, <1>7 DEF M6aReports, Raise, Return
    <2>2. disk.frozen = ShippedPredictions
        BY <1>1, <1>3, <1>7 DEF Reported, Foretold
    <2>3. FilesThere' /\ Foretold'
        BY <1>3, <1>6, <2>1, <2>2 DEF FilesThere, Foretold
    <2> QED
        BY <1>1, <1>2, <2>1, <2>3 DEF DesignInvariant, ExplorationInvariant
<1>8. CASE HasKey(rows, BaseKey) /\ \A k \in DOMAIN SelectedKeys : HasKey(rows, SelectedKeys[k])
    <2>1. PICK frozen : frozen = FrozenPredictions
        OBVIOUS
    <2>2. disk' = [files EXCEPT !.frozen = frozen]
        BY <1>5, <1>8, <2>1 DEF M6aReports
    <2>3. /\ disk'.frozen = frozen /\ disk'.space = Relative(rows)
          /\ disk'.front = Pareto(rows, GridPlaces) /\ Results \subseteq DOMAIN disk'
        BY <1>6, <2>2 DEF Results
    <2>4. FilesThere'
        BY <2>3 DEF FilesThere
    <2>5. FrontOfRows'
        BY <1>1, <2>3, ReportIsExact
    <2>6. /\ Counted(frozen)
          /\ \A p \in DOMAIN frozen : \E k \in DOMAIN rows :
                Key(rows[k]) = frozen[p].config /\ rows[k].cycles = frozen[p].cycles
        BY <1>1, <1>8, <2>1, FrozenRows
    <2>7. PICK space : space = Relative(rows)
        OBVIOUS
    <2>8. DOMAIN space = DOMAIN rows
          /\ \A k \in DOMAIN rows : space[k].config = Key(rows[k]) /\ space[k].cycles = rows[k].cycles
        BY <2>7, RelativeRows
    <2>9. \A p \in DOMAIN frozen : \E k \in DOMAIN space :
             space[k].config = frozen[p].config /\ space[k].cycles = frozen[p].cycles
        BY <2>6, <2>8
    <2>10. \A k \in DOMAIN SelectedKeys : HasKey(Configurations, SelectedKeys[k])
        BY <1>1, <1>8 DEF Reported
    <2>11. Foretold'
        BY <2>3, <2>6, <2>7, <2>9, <2>10 DEF Foretold
    <2> QED
        BY <1>1, <1>2, <2>4, <2>5, <2>11 DEF DesignInvariant, ExplorationInvariant
<1> QED
    BY <1>4, <1>7, <1>8

LEMMA CompareKeeps ==
    ASSUME DesignInvariant, Compare6b PROVE DesignInvariant'
<1>1. script = "compare6b" /\ script' = "compare6b" /\ at' = "end" /\ disk' = disk
    BY DEF Compare6b, InScript, Return
<1>2. FilesThere' /\ Foretold' /\ ExplorationInvariant'
    BY <1>1 DEF DesignInvariant, FilesThere, Foretold, ExplorationInvariant
<1>3. CASE rc' = 0
    <2>1. PICK rtl \in RtlSummaries6b :
             /\ rows' = rtl /\ Len(rtl) = Len(disk.frozen)
             /\ \A k \in DOMAIN rtl : Confirmed(disk.frozen, rtl[k])
        <3>1. ~Return(2) /\ ~Return(1)
            BY <1>3 DEF Return
        <3>2. PICK rtl \in RtlSummaries6b :
                 /\ rows' = rtl
                 /\ IF /\ \A k \in DOMAIN rtl : Confirmed(disk.frozen, rtl[k])
                       /\ Len(rtl) = Len(disk.frozen)
                    THEN Return(0) /\ said' = said \cup {"6b PASS"}
                    ELSE Return(1) /\ said' = said \cup {"6b CHECK"}
            BY <3>1, Zenon DEF Compare6b
        <3> QED
            BY <3>1, <3>2, Zenon
    <2>2. Counted(rtl)
        BY DesignAssumption DEF Counted
    <2> QED
        BY <1>1, <1>2, <2>1, <2>2 DEF DesignInvariant, Validated
<1>4. CASE rc' # 0
    BY <1>1, <1>2, <1>4 DEF DesignInvariant, Validated
<1> QED
    BY <1>3, <1>4

LEMMA DesignKeeps ==
    ASSUME DesignInvariant, DesignNext PROVE DesignInvariant'
<1>1. CASE script = "m6a" /\ (DesignBuild \/ Simulate \/ M6aDedupes)
    <2>1. script' = "m6a" /\ disk' = disk
        BY <1>1 DEF DesignBuild, Build, Simulate, M6aDedupes, InScript
    <2>2. FilesThere' /\ Foretold' /\ Validated'
        BY <2>1 DEF DesignInvariant, FilesThere, Foretold, Validated
    <2>3. CASE DesignBuild
        <3>1. at = "build" /\ rows' = << >>
            BY <1>1, <2>3 DEF DesignBuild, Build, DesignInvariant, ExplorationInvariant
        <3>2. (at' = "cases") \/ (at' = "end" /\ rc' # 0)
            BY <2>3 DEF DesignBuild, Build, Goto, Return, Raise, CmakeStatus
        <3>3. Simulated'
            BY <3>1, EmptySeqLike, ConfigurationsAreConfigured DEF Simulated, Counted
        <3> QED
            BY <2>1, <2>2, <3>2, <3>3 DEF DesignInvariant, ExplorationInvariant
    <2>4. CASE Simulate \/ M6aDedupes
        BY <1>1, <2>2, <2>4, SimulateOne, DedupeReports DEF DesignInvariant
    <2> QED
        BY <1>1, <2>3, <2>4
<1>2. CASE script = "sweep"
    <2>1. script' = "sweep"
        BY <1>2, DesignStays
    <2>2. ExplorationInvariant' /\ Validated'
        BY <2>1 DEF ExplorationInvariant, Validated
    <2>3. CASE disk' = disk
        BY <2>2, <2>3 DEF DesignInvariant, FilesThere, Foretold
    <2>4. CASE SweepEnds /\ disk' # disk
        <3>1. PICK sweep : disk' = [disk EXCEPT !.sweep = sweep]
            BY <2>4 DEF SweepEnds
        <3>2. Results \subseteq DOMAIN disk' /\ disk'.frozen = disk.frozen /\ disk'.space = disk.space
            BY <3>1 DEF DesignInvariant, FilesThere, Results
        <3> QED
            BY <2>2, <3>2 DEF DesignInvariant, FilesThere, Foretold
    <2> QED
        BY <1>2, <2>3, <2>4 DEF DesignNext, DesignBuild, Build, Simulate, M6aDedupes, M6aReports,
                               Compare5b, Compare6b
<1>3. CASE Compare5b
    <2>1. script' = "compare5b" /\ disk' = disk
        BY <1>3 DEF Compare5b, InScript
    <2> QED
        BY <2>1 DEF DesignInvariant, FilesThere, Foretold, ExplorationInvariant, Validated
<1> QED
    BY <1>1, <1>2, <1>3, ReportsKeep, CompareKeeps
    DEF DesignNext, DesignBuild, Simulate, SweepEnds, M6aDedupes

LEMMA DesignStep == DesignInvariant /\ [Next]_vars => DesignInvariant'
<1> SUFFICES ASSUME DesignInvariant, [Next]_vars PROVE DesignInvariant'
    OBVIOUS
<1>1. CASE UNCHANGED vars
    BY <1>1 DEF vars, processVars, DesignInvariant, FilesThere, Foretold, ExplorationInvariant,
                Validated, Simulated, Reported, FrontOfRows
<1>2. ASSUME \A file \in Results : Kept(file) PROVE FilesThere' /\ Foretold'
    BY <1>2 DEF DesignInvariant, FilesThere, Foretold, Kept, Results
<1>3. CASE Aside
    <2>1. ExplorationInvariant' /\ Validated'
        BY <1>3 DEF Aside, Analyses, ExplorationInvariant, Validated, Entry, Drivers, Builders
    <2> QED
        BY <1>2, <1>3, <2>1 DEF Aside, DesignInvariant
<1>4. CASE SelectionNext
    <2>1. script' = "select"
        BY <1>4, SelectionStays
    <2>2. Kept("frozen") /\ Kept("space") /\ Results \subseteq DOMAIN disk'
        BY <1>4 DEF SelectionNext, ReadFile, Merge, ClassifyAndReport, Kept, DesignInvariant,
                    FilesThere, Results
    <2>3. disk'.frozen = disk.frozen /\ disk'.space = disk.space
        BY <2>2 DEF Kept, DesignInvariant, FilesThere, Results
    <2> QED
        BY <2>1, <2>2, <2>3 DEF DesignInvariant, FilesThere, Foretold, ExplorationInvariant, Validated
<1>5. CASE FetchNext
    <2>1. script' \notin {"m6a", "compare6b"} /\ disk' = disk
        BY <1>5, FetchStays DEF FetchScripts
    <2> QED
        BY <1>2, <2>1 DEF Kept, DesignInvariant, ExplorationInvariant, Validated
<1> QED
    BY <1>1, <1>3, <1>4, <1>5, DesignKeeps, StepKinds

(* As many RTL rows as predictions, each confirming one, no two of one     *)
(* configuration: every prediction is confirmed.                           *)
AllConfirmed(predictions, rtl) ==
    \A p \in DOMAIN predictions : \E k \in DOMAIN rtl :
        /\ rtl[k].config = predictions[p].config
        /\ rtl[k].cycles = predictions[p].cycles
        /\ rtl[k].status = "PASS"

LEMMA EveryPredictionConfirmed ==
    ASSUME NEW predictions, Counted(predictions), NEW rtl, Counted(rtl),
           Len(rtl) = Len(predictions), Distinct(rtl),
           \A k \in DOMAIN rtl : Confirmed(predictions, rtl[k])
    PROVE  AllConfirmed(predictions, rtl)
<1> SUFFICES ASSUME NEW p \in DOMAIN predictions
             PROVE  \E k \in DOMAIN rtl : /\ rtl[k].config = predictions[p].config
                                          /\ rtl[k].cycles = predictions[p].cycles
                                          /\ rtl[k].status = "PASS"
    BY DEF AllConfirmed
<1> DEFINE n == Len(rtl)
           Of(k) == CHOOSE q \in DOMAIN predictions :
                        /\ predictions[q].config = rtl[k].config
                        /\ predictions[q].cycles = rtl[k].cycles
                        /\ rtl[k].status = "PASS"
           of == [k \in 1 .. n |-> Of(k)]
<1>1. n \in Nat /\ DOMAIN rtl = 1 .. n /\ DOMAIN predictions = 1 .. n
    BY DEF Counted
<1>2. ASSUME NEW k \in 1 .. n
      PROVE  /\ of[k] \in 1 .. n
             /\ predictions[of[k]].config = rtl[k].config
             /\ predictions[of[k]].cycles = rtl[k].cycles
             /\ rtl[k].status = "PASS"
    <2>1. \E q \in DOMAIN predictions : /\ predictions[q].config = rtl[k].config
                                        /\ predictions[q].cycles = rtl[k].cycles
                                        /\ rtl[k].status = "PASS"
        BY <1>1 DEF Confirmed
    <2>2. /\ Of(k) \in DOMAIN predictions
          /\ predictions[Of(k)].config = rtl[k].config
          /\ predictions[Of(k)].cycles = rtl[k].cycles
          /\ rtl[k].status = "PASS"
        BY <2>1
    <2> HIDE DEF Of
    <2> QED
        BY <1>1, <2>2
<1> HIDE DEF of
<1>3. of \in Injection(1 .. n, 1 .. n)
    <2>1. of \in [1 .. n -> 1 .. n]
        BY <1>2 DEF of
    <2>2. \A j, k \in 1 .. n : of[j] = of[k] => j = k
        BY <1>1, <1>2 DEF Distinct
    <2> QED
        BY <2>1, <2>2 DEF Injection, IsInjective
<1>4. of \in Surjection(1 .. n, 1 .. n)
    <2>1. IsFiniteSet(1 .. n)
        BY <1>1, FS_Interval
    <2> QED
        BY <1>3, <2>1, FS_Injection
<1>5. PICK k \in 1 .. n : of[k] = p
    BY <1>1, <1>4 DEF Surjection
<1> QED
    BY <1>1, <1>2, <1>5

LEMMA DesignIsSound == DesignInvariant => FrontExact /\ PredictionsValidated
<1> SUFFICES ASSUME DesignInvariant PROVE FrontExact /\ PredictionsValidated
    OBVIOUS
<1>1. FrontExact
    BY DEF DesignInvariant, ExplorationInvariant, FrontOfRows, FrontExact
<1>2. ASSUME script = "compare6b", at = "end", rc = 0, Distinct(rows)
      PROVE  AllConfirmed(disk.frozen, rows)
    <2>1. /\ Counted(disk.frozen) /\ Counted(rows) /\ Len(rows) = Len(disk.frozen)
          /\ \A k \in DOMAIN rows : Confirmed(disk.frozen, rows[k])
        BY <1>2 DEF DesignInvariant, Foretold, Validated
    <2> QED
        BY <1>2, <2>1, EveryPredictionConfirmed, Zenon
<1>3. PredictionsValidated
    BY <1>2 DEF DesignInvariant, Foretold, PredictionsValidated, AllConfirmed
<1> QED
    BY <1>1, <1>3

LEMMA DesignBegins == Init => DesignInvariant
<1> SUFFICES ASSUME Init PROVE DesignInvariant
    OBVIOUS
<1>1. /\ script = "none" /\ disk.frozen = ShippedPredictions /\ Results \subseteq DOMAIN disk
    BY DEF Init, ProcessInit, Results
<1>2. Counted(ShippedPredictions)
    BY ScriptAssumption DEF Counted
<1> QED
    BY <1>1, <1>2 DEF DesignInvariant, FilesThere, Foretold, ExplorationInvariant, Validated

(* Whatever the costs of the configurations come out as, the front printed *)
(* and written by run_milestone6a is the front of the rows beside it: its  *)
(* rows are in order, none of the grid is left out unless one of the front *)
(* beats it, and no configuration is written twice.                        *)
THEOREM FrontIsExact == Spec => []FrontExact
<1>1. DesignInvariant => FrontExact
    BY DesignIsSound
<1> QED
    BY <1>1, DesignBegins, DesignStep, PTL DEF Spec

(* In every order of explorations and comparisons, compare_milestone6b     *)
(* passes an RTL summary without doubled rows only if it confirms every    *)
(* frozen prediction, and those predictions are rows of the design space   *)
(* that lies beside them.                                                  *)
THEOREM PredictionsAreValidated == Spec => []PredictionsValidated
<1>1. DesignInvariant => PredictionsValidated
    BY DesignIsSound
<1> QED
    BY <1>1, DesignBegins, DesignStep, PTL DEF Spec

-----------------------------------------------------------------------------
(* The selection.                                                          *)

Positive == Nat \ {0}

LEMMA Products ==
    ASSUME NEW a \in Positive, NEW b \in Positive
    PROVE  a * b \in Positive
BY DEF Positive

(* Costs that are not higher have a product that is not lower only if they *)
(* are equal.                                                              *)
LEMMA ProductsTell ==
    ASSUME NEW a \in Positive, NEW b \in Positive, NEW c \in Positive, NEW d \in Positive,
           a <= c, b <= d, c * d <= a * b
    PROVE  a = c /\ b = d
<1>1. a * b <= a * d /\ a * d <= c * d
    BY DEF Positive
<1>2. a * d = c * d /\ a * b = a * d
    BY <1>1, Products DEF Positive
<1>3. (c - a) * d = 0 /\ a * (d - b) = 0
    BY <1>2 DEF Positive
<1> QED
    BY <1>3 DEF Positive

LEMMA Preferred ==
    ASSUME NEW cells, SeqLike(cells), \A k \in DOMAIN cells : cells[k] \in Prices
    PROVE  Prefer(cells) \in Prices
<1> DEFINE full == {k \in DOMAIN cells : cells[k] # Blank}
<1>1. CASE full = {}
    BY <1>1 DEF Prefer, Prices
<1>2. CASE full # {}
    <2>1. full \in SUBSET Nat
        BY DEF SeqLike
    <2>2. \E k \in full : \A j \in full : k <= j
        BY <1>2, <2>1, LeastNatural
    <2>3. (CHOOSE k \in full : \A j \in full : k <= j) \in full
        BY <2>2
    <2> QED
        BY <1>2, <2>3 DEF Prefer
<1> QED
    BY <1>1, <1>2

(* The costs of a merged row; a runtime of zero comes from a missing cycle *)
(* count.                                                                  *)
HasPrices(r) ==
    /\ r.runtime \in Nat /\ r.area \in Prices /\ r.total \in Prices
    /\ r.energy \in Prices \/ r.runtime = 0

LEMMA MergedIsPriced ==
    ASSUME NEW c, NEW m7 \in M7Files, NEW m8 \in M8Files, NEW ref \in References,
           Merged(c, m7, m8, ref).runtime # Blank
    PROVE  HasPrices(Merged(c, m7, m8, ref)) /\ Merged(c, m7, m8, ref).case = c
<1> DEFINE Chosen(column) == Prefer(<<Cell(m7, c, column), Cell(m8, c, column), Cell(ref, c, column)>>)
           Power(column) == Prefer(<<Cell(m8, c, column), Cell(ref, c, column)>>)
           cycles == IF Chosen("cycles") = Blank THEN 0 ELSE Chosen("cycles")
           runtime == IF Chosen("period") = Blank THEN Blank ELSE cycles * Chosen("period")
           r == Merged(c, m7, m8, ref)
<1>1. ASSUME NEW column \in {"cycles", "period", "area"}
      PROVE  Chosen(column) \in Prices
    <2>1. /\ Cell(m7, c, column) \in Prices /\ Cell(m8, c, column) \in Prices
          /\ Cell(ref, c, column) \in Prices
        BY SelectionAssumption DEF Cell, Prices
    <2>2. PICK cells : cells = <<Cell(m7, c, column), Cell(m8, c, column), Cell(ref, c, column)>>
        OBVIOUS
    <2>3. cells \in Seq(Prices)
        BY <2>1, <2>2
    <2>4. Prefer(cells) \in Prices
        BY <2>3, Preferred DEF SeqLike
    <2> QED
        BY <2>2, <2>4, Zenon
<1>2. ASSUME NEW column \in {"total", "energy"}
      PROVE  Power(column) \in Prices
    <2>1. Cell(m8, c, column) \in Prices /\ Cell(ref, c, column) \in Prices
        BY SelectionAssumption DEF Cell, Prices
    <2>2. PICK cells : cells = <<Cell(m8, c, column), Cell(ref, c, column)>>
        OBVIOUS
    <2>3. cells \in Seq(Prices)
        BY <2>1, <2>2
    <2>4. Prefer(cells) \in Prices
        BY <2>3, Preferred DEF SeqLike
    <2> QED
        BY <2>2, <2>4, Zenon
<1>3. /\ r.case = c /\ r.runtime = runtime /\ r.area = Chosen("area") /\ r.total = Power("total")
      /\ r.energy = IF Power("energy") = Blank /\ Power("total") # Blank
                    THEN Power("total") * runtime ELSE Power("energy")
    BY DEF Merged
<1>4. runtime \in Nat
    <2>1. runtime # Blank /\ Chosen("period") # Blank
        BY <1>3
    <2>2. Chosen("period") \in Nat /\ cycles \in Nat
        BY <1>1, <2>1 DEF Prices
    <2> HIDE DEF Chosen, cycles
    <2>3. cycles * Chosen("period") \in Nat
        BY <2>2
    <2> QED
        BY <2>1, <2>3
<1> HIDE DEF Chosen, Power, cycles, runtime, r
<1>5. r.energy \in Prices \/ r.runtime = 0
    <2>1. CASE Power("energy") = Blank /\ Power("total") # Blank /\ runtime # 0
        <3>1. Power("total") \in Positive /\ runtime \in Positive
            BY <1>2, <1>4, <2>1 DEF Positive, Prices
        <3>2. Power("total") * runtime \in Prices
            BY <3>1, Products DEF Positive, Prices
        <3> QED
            BY <1>3, <2>1, <3>2
    <2> QED
        BY <1>2, <1>3, <2>1
<1> QED
    BY <1>1, <1>2, <1>3, <1>4, <1>5 DEF HasPrices, r

Costed(list) ==
    \A k \in DOMAIN list : \A key \in Costs : list[k][key] \in Positive

Named(list) ==
    /\ Len(list) \in Positive /\ DOMAIN list = 1 .. Len(list)
    /\ \A j, k \in DOMAIN list : list[j].case = list[k].case => j = k

(* A dominated row is dominated by one that is not: one with the least sum *)
(* of costs among its dominators.                                          *)
LEMMA EfficientDominator ==
    ASSUME NEW list, Named(list), Costed(list), NEW k \in DOMAIN list, DominatedBy(list, k) # {}
    PROVE  \E j \in DOMAIN list \ {k} : Dominates(list[j], list[k]) /\ DominatedBy(list, j) = {}
<1> DEFINE over == {x \in DOMAIN list \ {k} : Dominates(list[x], list[k])}
           Sum(x) == list[x].runtime + list[x].area + list[x].total + list[x].energy
           cost == [x \in over |-> Sum(x)]
<1>1. ASSUME NEW x \in DOMAIN list
      PROVE  /\ list[x].runtime \in Nat /\ list[x].area \in Nat
             /\ list[x].total \in Nat /\ list[x].energy \in Nat
    BY DEF Costed, Costs, Positive
<1>2. over # {} /\ cost \in [over -> Nat]
    <2>1. \A x \in over : Sum(x) \in Nat
        BY <1>1
    <2> QED
        BY <2>1 DEF DominatedBy
<1>3. PICK j \in over : \A x \in over : cost[j] <= cost[x]
    BY <1>2, LeastCost, Zenon
<1>4. ASSUME NEW x \in DOMAIN list, Dominates(list[x], list[j])
      PROVE  FALSE
    <2>1. /\ list[x].runtime <= list[j].runtime /\ list[x].area <= list[j].area
          /\ list[x].total <= list[j].total /\ list[x].energy <= list[j].energy
          /\ \/ list[x].runtime < list[j].runtime \/ list[x].area < list[j].area
             \/ list[x].total < list[j].total \/ list[x].energy < list[j].energy
        BY <1>4 DEF Dominates, Costs
    <2>2. /\ list[j].runtime <= list[k].runtime /\ list[j].area <= list[k].area
          /\ list[j].total <= list[k].total /\ list[j].energy <= list[k].energy
        BY DEF Dominates, Costs
    <2>3. Sum(x) < Sum(j)
        BY <1>1, <2>1
    <2>4. Dominates(list[x], list[k])
        <3>1. /\ list[x].runtime <= list[k].runtime /\ list[x].area <= list[k].area
              /\ list[x].total <= list[k].total /\ list[x].energy <= list[k].energy
              /\ \/ list[x].runtime < list[k].runtime \/ list[x].area < list[k].area
                 \/ list[x].total < list[k].total \/ list[x].energy < list[k].energy
            BY <1>1, <2>1, <2>2
        <3> QED
            BY <3>1 DEF Dominates, Costs
    <2>5. x # k
        BY <1>1, <2>1, <2>2
    <2>6. cost[j] <= cost[x]
        BY <1>3, <2>4, <2>5
    <2>7. cost[j] = Sum(j) /\ cost[x] = Sum(x)
        BY <2>4, <2>5
    <2>8. Sum(j) \in Nat /\ Sum(x) \in Nat
        BY <1>1
    <2> HIDE DEF Sum, cost
    <2> QED
        BY <2>3, <2>6, <2>7, <2>8
<1> QED
    BY <1>4 DEF DominatedBy

(* The place that Best names a row of.                                     *)
LEMMA BestIsLeast ==
    ASSUME NEW list, Named(list), NEW cost \in [DOMAIN list -> Nat]
    PROVE  \E k \in DOMAIN list : /\ Best(list, cost) = list[k].case
                                  /\ \A j \in DOMAIN list : cost[k] <= cost[j]
<1> DEFINE Leasts == {k \in DOMAIN list : \A j \in DOMAIN list : cost[k] <= cost[j]}
<1>1. DOMAIN list # {} /\ DOMAIN list \subseteq Nat
    BY DEF Named, Positive
<1>2. Leasts # {} /\ Leasts \in SUBSET Nat
    BY <1>1, LeastCost
<1>3. PICK first \in Leasts : \A k \in Leasts : first <= k
    BY <1>2, LeastNatural
<1>4. ASSUME NEW j \in 1 .. first - 1 PROVE cost[j] > cost[first]
    <2>1. j \in DOMAIN list /\ j \in Nat /\ first \in Nat /\ j < first
        BY DEF Named, Positive
    <2>2. j \notin Leasts
        BY <1>3, <2>1
    <2>3. PICK i \in DOMAIN list : ~(cost[j] <= cost[i])
        BY <2>1, <2>2
    <2>4. cost[first] <= cost[i] /\ cost[i] \in Nat /\ cost[j] \in Nat /\ cost[first] \in Nat
        BY <2>1
    <2> QED
        BY <2>3, <2>4
<1>5. \E k \in DOMAIN list : /\ \A j \in DOMAIN list : cost[k] <= cost[j]
                             /\ \A j \in 1 .. k - 1 : cost[j] > cost[k]
    BY <1>4
<1>6. PICK best : best = CHOOSE k \in DOMAIN list :
                            /\ \A j \in DOMAIN list : cost[k] <= cost[j]
                            /\ \A j \in 1 .. k - 1 : cost[j] > cost[k]
    OBVIOUS
<1>7. best \in DOMAIN list /\ \A j \in DOMAIN list : cost[best] <= cost[j]
    BY <1>5, <1>6
<1>8. Best(list, cost) = list[best].case
    BY <1>6 DEF Best
<1> QED
    BY <1>7, <1>8

(* The places of the winners.                                              *)
LEMMA WinnersAreLeast ==
    ASSUME NEW list, Named(list), Costed(list)
    PROVE  /\ \E k \in DOMAIN list :
                /\ Winners(list).performance = list[k].case
                /\ \A j \in DOMAIN list : list[k].runtime <= list[j].runtime
           /\ \E k \in DOMAIN list :
                /\ Winners(list).perArea = list[k].case
                /\ \A j \in DOMAIN list :
                     list[k].runtime * list[k].area <= list[j].runtime * list[j].area
           /\ \E k \in DOMAIN list :
                /\ Winners(list).perWatt = list[k].case
                /\ \A j \in DOMAIN list :
                     list[k].runtime * list[k].total <= list[j].runtime * list[j].total
           /\ \E k \in DOMAIN list :
                /\ Winners(list).energy = list[k].case
                /\ \A j \in DOMAIN list : list[k].energy <= list[j].energy
           /\ \E k \in DOMAIN list :
                /\ Winners(list).edp = list[k].case
                /\ \A j \in DOMAIN list :
                     list[k].energy * list[k].runtime <= list[j].energy * list[j].runtime
<1>1. ASSUME NEW k \in DOMAIN list
      PROVE  /\ list[k].runtime \in Positive /\ list[k].area \in Positive
             /\ list[k].total \in Positive /\ list[k].energy \in Positive
    BY DEF Costed, Costs
<1>2. ASSUME NEW cost \in [DOMAIN list -> Nat]
      PROVE  \E k \in DOMAIN list : /\ Best(list, cost) = list[k].case
                                    /\ \A j \in DOMAIN list : cost[k] <= cost[j]
    BY BestIsLeast
<1>3. \E k \in DOMAIN list :
         /\ Winners(list).performance = list[k].case
         /\ \A j \in DOMAIN list : list[k].runtime <= list[j].runtime
    <2>1. PICK cost : cost = [k \in DOMAIN list |-> list[k].runtime]
        OBVIOUS
    <2>2. cost \in [DOMAIN list -> Nat] /\ \A k \in DOMAIN list : cost[k] = list[k].runtime
        BY <1>1, <2>1 DEF Positive
    <2>3. Winners(list).performance = Best(list, cost)
        BY <2>1 DEF Winners
    <2> QED
        BY <1>2, <2>2, <2>3
<1>4. \E k \in DOMAIN list :
         /\ Winners(list).perArea = list[k].case
         /\ \A j \in DOMAIN list :
              list[k].runtime * list[k].area <= list[j].runtime * list[j].area
    <2>1. PICK cost : cost = [k \in DOMAIN list |-> list[k].runtime * list[k].area]
        OBVIOUS
    <2>2. cost \in [DOMAIN list -> Nat]
          /\ \A k \in DOMAIN list : cost[k] = list[k].runtime * list[k].area
        BY <1>1, <2>1, Products DEF Positive
    <2>3. Winners(list).perArea = Best(list, cost)
        BY <2>1 DEF Winners
    <2> QED
        BY <1>2, <2>2, <2>3
<1>5. \E k \in DOMAIN list :
         /\ Winners(list).perWatt = list[k].case
         /\ \A j \in DOMAIN list :
              list[k].runtime * list[k].total <= list[j].runtime * list[j].total
    <2>1. PICK cost : cost = [k \in DOMAIN list |-> list[k].runtime * list[k].total]
        OBVIOUS
    <2>2. cost \in [DOMAIN list -> Nat]
          /\ \A k \in DOMAIN list : cost[k] = list[k].runtime * list[k].total
        BY <1>1, <2>1, Products DEF Positive
    <2>3. Winners(list).perWatt = Best(list, cost)
        BY <2>1 DEF Winners
    <2> QED
        BY <1>2, <2>2, <2>3
<1>6. \E k \in DOMAIN list :
         /\ Winners(list).energy = list[k].case
         /\ \A j \in DOMAIN list : list[k].energy <= list[j].energy
    <2>1. PICK cost : cost = [k \in DOMAIN list |-> list[k].energy]
        OBVIOUS
    <2>2. cost \in [DOMAIN list -> Nat] /\ \A k \in DOMAIN list : cost[k] = list[k].energy
        BY <1>1, <2>1 DEF Positive
    <2>3. Winners(list).energy = Best(list, cost)
        BY <2>1 DEF Winners
    <2> QED
        BY <1>2, <2>2, <2>3
<1>7. \E k \in DOMAIN list :
         /\ Winners(list).edp = list[k].case
         /\ \A j \in DOMAIN list :
              list[k].energy * list[k].runtime <= list[j].energy * list[j].runtime
    <2>1. PICK cost : cost = [k \in DOMAIN list |-> list[k].energy * list[k].runtime]
        OBVIOUS
    <2>2. cost \in [DOMAIN list -> Nat]
          /\ \A k \in DOMAIN list : cost[k] = list[k].energy * list[k].runtime
        BY <1>1, <2>1, Products DEF Positive
    <2>3. Winners(list).edp = Best(list, cost)
        BY <2>1 DEF Winners
    <2> QED
        BY <1>2, <2>2, <2>3
<1> QED
    BY <1>3, <1>4, <1>5, <1>6, <1>7

(* A row that dominates another and has the same measure has the same      *)
(* costs in it.                                                            *)
LEMMA DominanceTells ==
    ASSUME NEW list, Costed(list), NEW j \in DOMAIN list, NEW k \in DOMAIN list,
           Dominates(list[j], list[k])
    PROVE  /\ list[k].runtime <= list[j].runtime => list[j].runtime = list[k].runtime
           /\ list[k].runtime * list[k].area <= list[j].runtime * list[j].area =>
                list[j].runtime = list[k].runtime /\ list[j].area = list[k].area
           /\ list[k].runtime * list[k].total <= list[j].runtime * list[j].total =>
                list[j].runtime = list[k].runtime /\ list[j].total = list[k].total
           /\ list[k].energy <= list[j].energy => list[j].energy = list[k].energy
           /\ list[k].energy * list[k].runtime <= list[j].energy * list[j].runtime =>
                list[j].energy = list[k].energy /\ list[j].runtime = list[k].runtime
<1>1. ASSUME NEW x \in {j, k}
      PROVE  /\ list[x].runtime \in Positive /\ list[x].area \in Positive
             /\ list[x].total \in Positive /\ list[x].energy \in Positive
    BY DEF Costed, Costs
<1>2. /\ list[j].runtime <= list[k].runtime /\ list[j].area <= list[k].area
      /\ list[j].total <= list[k].total /\ list[j].energy <= list[k].energy
    BY DEF Dominates, Costs
<1>3. /\ list[k].runtime <= list[j].runtime => list[j].runtime = list[k].runtime
      /\ list[k].energy <= list[j].energy => list[j].energy = list[k].energy
    BY <1>1, <1>2 DEF Positive
<1>4. list[k].runtime * list[k].area <= list[j].runtime * list[j].area =>
          list[j].runtime = list[k].runtime /\ list[j].area = list[k].area
    BY <1>1, <1>2, ProductsTell
<1>5. list[k].runtime * list[k].total <= list[j].runtime * list[j].total =>
          list[j].runtime = list[k].runtime /\ list[j].total = list[k].total
    BY <1>1, <1>2, ProductsTell
<1>6. list[k].energy * list[k].runtime <= list[j].energy * list[j].runtime =>
          list[j].energy = list[k].energy /\ list[j].runtime = list[k].runtime
    BY <1>1, <1>2, ProductsTell
<1> QED
    BY <1>3, <1>4, <1>5, <1>6

(* What a selection that has been written says of the rows it is made of.  *)
Selected(list) ==
    /\ Named(list) /\ Costed(list)
    /\ disk.selection = [table |-> Classify(list), winners |-> Winners(list)]

RowsSelected ==
    \A k \in DOMAIN SelectionCases : rows[k].case = SelectionCases[k] /\ HasPrices(rows[k])

ReadSoFar ==
    /\ SeqLike(rows)
    /\ Len(rows) > 0 => rows[1] \in References
    /\ Len(rows) > 1 => rows[2] \in M7Files
    /\ Len(rows) > 2 => rows[3] \in M8Files

SelectionInvariant ==
    /\ FilesThere
    /\ script = "select" =>
         /\ at = "read" => ReadSoFar
         /\ at = "classify" => RowsSelected /\ DOMAIN rows = DOMAIN SelectionCases
                               /\ Len(rows) = Len(SelectionCases)
         /\ at = "end" /\ rc = 0 => Selected(rows)

LEMMA SelectionIsSound == SelectionInvariant => SelectionSound
<1> SUFFICES ASSUME SelectionInvariant, script = "select", at = "end", rc = 0
             PROVE  LET table == disk.selection.table
                        RowOf(c) == CHOOSE k \in DOMAIN table : table[k].row.case = c
                    IN  /\ \A k \in DOMAIN table :
                             table[k].efficient = "NO" =>
                                 \E j \in DOMAIN table : /\ table[j].efficient = "YES"
                                                         /\ table[j].row.case \in table[k].dominatedBy
                                                         /\ Dominates(table[j].row, table[k].row)
                        /\ \A measure \in DOMAIN MeasuredBy :
                             LET w == table[RowOf(disk.selection.winners[measure])]
                             IN  \A j \in DOMAIN table : \A key \in MeasuredBy[measure] :
                                     table[j].row.case \in w.dominatedBy =>
                                         table[j].row[key] = w.row[key]
    BY Zenon DEF SelectionSound
<1>1. PICK list : list = rows
    OBVIOUS
<1>2. Selected(list)
    BY <1>1, Zenon DEF SelectionInvariant
<1> DEFINE table == disk.selection.table
           winners == disk.selection.winners
           RowOf(c) == CHOOSE k \in DOMAIN table : table[k].row.case = c
<1>3. /\ DOMAIN table = DOMAIN list /\ winners = Winners(list)
      /\ \A k \in DOMAIN list :
           /\ table[k].row = list[k] /\ table[k].dominatedBy = DominatedBy(list, k)
           /\ table[k].efficient = IF DominatedBy(list, k) = {} THEN "YES" ELSE "NO"
    BY <1>2 DEF Selected, Classify
<1>4. Named(list) /\ Costed(list)
    BY <1>2 DEF Selected
<1> HIDE DEF table, winners
<1>5. ASSUME NEW k \in DOMAIN table, table[k].efficient = "NO"
      PROVE  \E j \in DOMAIN table : /\ table[j].efficient = "YES"
                                     /\ table[j].row.case \in table[k].dominatedBy
                                     /\ Dominates(table[j].row, table[k].row)
    <2>1. k \in DOMAIN list /\ DominatedBy(list, k) # {}
        BY <1>3, <1>5
    <2>2. PICK j \in DOMAIN list \ {k} : Dominates(list[j], list[k]) /\ DominatedBy(list, j) = {}
        BY <1>4, <2>1, EfficientDominator
    <2>3. list[j].case \in DominatedBy(list, k)
        BY <2>2 DEF DominatedBy
    <2>4. table[j].efficient = "YES" /\ table[j].row = list[j] /\ table[k].row = list[k]
          /\ table[k].dominatedBy = DominatedBy(list, k) /\ j \in DOMAIN table
        BY <1>3, <2>1, <2>2
    <2> QED
        BY <2>2, <2>3, <2>4
<1>6. ASSUME NEW w \in DOMAIN list
      PROVE  /\ RowOf(list[w].case) = w
             /\ \A j \in DOMAIN list :
                  list[j].case \in DominatedBy(list, w) => Dominates(list[j], list[w])
    <2>1. RowOf(list[w].case) = w
        <3>1. w \in DOMAIN table /\ table[w].row.case = list[w].case
            BY <1>3
        <3>2. \A k \in DOMAIN table : table[k].row.case = list[w].case => k = w
            BY <1>3, <1>4 DEF Named
        <3> QED
            BY <3>1, <3>2
    <2>2. ASSUME NEW j \in DOMAIN list, list[j].case \in DominatedBy(list, w)
          PROVE  Dominates(list[j], list[w])
        <3>1. PICK x \in DOMAIN list : list[x].case = list[j].case /\ Dominates(list[x], list[w])
            BY <2>2 DEF DominatedBy
        <3> QED
            BY <1>4, <3>1 DEF Named
    <2> QED
        BY <2>1, <2>2
<1>7. ASSUME NEW measure \in DOMAIN MeasuredBy
      PROVE  \E w \in DOMAIN list :
                /\ winners[measure] = list[w].case
                /\ \A j \in DOMAIN list : Dominates(list[j], list[w]) =>
                       \A key \in MeasuredBy[measure] : list[j][key] = list[w][key]
    <2>1. measure \in {"performance", "perArea", "perWatt", "energy", "edp"}
        BY DEF MeasuredBy
    <2>2. \A j, k \in DOMAIN list : Dominates(list[j], list[k]) =>
           /\ list[k].runtime <= list[j].runtime => list[j].runtime = list[k].runtime
           /\ list[k].runtime * list[k].area <= list[j].runtime * list[j].area =>
                list[j].runtime = list[k].runtime /\ list[j].area = list[k].area
           /\ list[k].runtime * list[k].total <= list[j].runtime * list[j].total =>
                list[j].runtime = list[k].runtime /\ list[j].total = list[k].total
           /\ list[k].energy <= list[j].energy => list[j].energy = list[k].energy
           /\ list[k].energy * list[k].runtime <= list[j].energy * list[j].runtime =>
                list[j].energy = list[k].energy /\ list[j].runtime = list[k].runtime
        BY <1>4, DominanceTells
    <2>3. CASE measure = "performance"
        <3>1. MeasuredBy[measure] = {"runtime"} /\ winners[measure] = Winners(list).performance
            BY <1>3, <2>3 DEF MeasuredBy
        <3> QED
            BY <1>4, <2>2, <3>1, WinnersAreLeast
    <2>4. CASE measure = "perArea"
        <3>1. MeasuredBy[measure] = {"runtime", "area"} /\ winners[measure] = Winners(list).perArea
            BY <1>3, <2>4 DEF MeasuredBy
        <3> QED
            BY <1>4, <2>2, <3>1, WinnersAreLeast
    <2>5. CASE measure = "perWatt"
        <3>1. MeasuredBy[measure] = {"runtime", "total"} /\ winners[measure] = Winners(list).perWatt
            BY <1>3, <2>5 DEF MeasuredBy
        <3> QED
            BY <1>4, <2>2, <3>1, WinnersAreLeast
    <2>6. CASE measure = "energy"
        <3>1. MeasuredBy[measure] = {"energy"} /\ winners[measure] = Winners(list).energy
            BY <1>3, <2>6 DEF MeasuredBy
        <3> QED
            BY <1>4, <2>2, <3>1, WinnersAreLeast
    <2>7. CASE measure = "edp"
        <3>1. MeasuredBy[measure] = {"energy", "runtime"} /\ winners[measure] = Winners(list).edp
            BY <1>3, <2>7 DEF MeasuredBy
        <3> QED
            BY <1>4, <2>2, <3>1, WinnersAreLeast
    <2> QED
        BY <2>1, <2>3, <2>4, <2>5, <2>6, <2>7
<1>8. ASSUME NEW measure \in DOMAIN MeasuredBy, NEW j \in DOMAIN table,
             NEW key \in MeasuredBy[measure],
             table[j].row.case \in table[RowOf(winners[measure])].dominatedBy
      PROVE  table[j].row[key] = table[RowOf(winners[measure])].row[key]
    <2>1. PICK w \in DOMAIN list :
             /\ winners[measure] = list[w].case
             /\ \A i \in DOMAIN list : Dominates(list[i], list[w]) =>
                    \A k \in MeasuredBy[measure] : list[i][k] = list[w][k]
        BY <1>7
    <2>2. RowOf(winners[measure]) = w
        BY <1>6, <2>1
    <2> HIDE DEF RowOf
    <2>3. j \in DOMAIN list /\ list[j].case \in DominatedBy(list, w)
        BY <1>3, <1>8, <2>2
    <2>4. list[j][key] = list[w][key]
        BY <1>6, <2>1, <2>3
    <2> QED
        BY <1>3, <2>2, <2>3, <2>4
<1> QED
    BY <1>5, <1>8, Zenon DEF table, winners

LEMMA ReadKeeps ==
    ASSUME SelectionInvariant, ReadFile PROVE SelectionInvariant'
<1>1. script = "select" /\ script' = "select" /\ at = "read" /\ at' = "read" /\ disk' = disk
    BY DEF ReadFile, InScript, Goto
<1>2. Len(rows) \in Nat /\ Len(rows) < 3 /\ ReadSoFar
    BY <1>1 DEF ReadFile, SelectionInvariant, ReadSoFar, SeqLike
<1>3. PICK file \in <<References, M7Files, M8Files>>[Len(rows) + 1] : rows' = Append(rows, file)
    BY DEF ReadFile
<1>4. /\ SeqLike(rows') /\ Len(rows') = Len(rows) + 1
      /\ \A k \in 1 .. Len(rows) : rows'[k] = rows[k]
      /\ rows'[Len(rows) + 1] = file
    BY <1>2, <1>3, Appended DEF ReadSoFar
<1>5. CASE Len(rows) = 0
    <2>1. file \in References
        BY <1>3, <1>5
    <2> QED
        BY <1>1, <1>4, <1>5, <2>1 DEF SelectionInvariant, FilesThere, ReadSoFar
<1>6. CASE Len(rows) = 1
    <2>1. file \in M7Files
        BY <1>3, <1>6
    <2> QED
        BY <1>1, <1>2, <1>4, <1>6, <2>1 DEF SelectionInvariant, FilesThere, ReadSoFar
<1>7. CASE Len(rows) = 2
    <2>1. file \in M8Files
        BY <1>3, <1>7
    <2> QED
        BY <1>1, <1>2, <1>4, <1>7, <2>1 DEF SelectionInvariant, FilesThere, ReadSoFar
<1>8. Len(rows) = 0 \/ Len(rows) = 1 \/ Len(rows) = 2
    <2>1. \A n \in Nat : n < 3 => n = 0 \/ n = 1 \/ n = 2
        OBVIOUS
    <2> QED
        BY <1>2, <2>1, Zenon
<1> QED
    BY <1>5, <1>6, <1>7, <1>8

LEMMA MergeKeeps ==
    ASSUME SelectionInvariant, Merge PROVE SelectionInvariant'
<1>1. script = "select" /\ script' = "select" /\ at = "read" /\ Len(rows) = 3 /\ disk' = disk
    BY DEF Merge, InScript
<1>2. rows[1] \in References /\ rows[2] \in M7Files /\ rows[3] \in M8Files
    BY <1>1 DEF SelectionInvariant, ReadSoFar
<1>3. PICK merged : merged = [k \in DOMAIN SelectionCases |->
                                  Merged(SelectionCases[k], rows[2], rows[3], rows[1])]
    OBVIOUS
<1>4. \/ at' = "end" /\ rc' = 1
      \/ at' = "classify" /\ rows' = merged
         /\ \A k \in DOMAIN merged : merged[k].runtime # Blank
    BY <1>3 DEF Merge, Raise, Return, Goto
<1>5. CASE at' = "end" /\ rc' = 1
    BY <1>1, <1>5 DEF SelectionInvariant, FilesThere
<1>6. CASE at' = "classify" /\ rows' = merged /\ \A k \in DOMAIN merged : merged[k].runtime # Blank
    <2>1. ASSUME NEW k \in DOMAIN SelectionCases
          PROVE  merged[k].case = SelectionCases[k] /\ HasPrices(merged[k])
        <3>1. merged[k] = Merged(SelectionCases[k], rows[2], rows[3], rows[1])
            BY <1>3
        <3>2. merged[k].runtime # Blank
            BY <1>3, <1>6
        <3> QED
            BY <1>2, <3>1, <3>2, MergedIsPriced
    <2>2. DOMAIN merged = DOMAIN SelectionCases /\ Len(merged) = Len(SelectionCases)
        <3>1. Len(SelectionCases) \in Nat /\ DOMAIN SelectionCases = 1 .. Len(SelectionCases)
            BY SelectionAssumption
        <3>2. DOMAIN merged = 1 .. Len(SelectionCases)
            BY <1>3, <3>1
        <3> QED
            BY <1>3, <3>1, <3>2
    <2>3. RowsSelected' /\ (DOMAIN rows = DOMAIN SelectionCases)'
          /\ (Len(rows) = Len(SelectionCases))'
        BY <1>6, <2>1, <2>2 DEF RowsSelected
    <2> QED
        BY <1>1, <1>6, <2>3 DEF SelectionInvariant, FilesThere
<1> QED
    BY <1>4, <1>5, <1>6

LEMMA ClassifyKeeps ==
    ASSUME SelectionInvariant, ClassifyAndReport PROVE SelectionInvariant'
<1>1. script = "select" /\ script' = "select" /\ at = "classify" /\ rows' = rows /\ at' = "end"
    BY DEF ClassifyAndReport, InScript, Return, Raise
<1>2. RowsSelected /\ DOMAIN rows = DOMAIN SelectionCases /\ Len(rows) = Len(SelectionCases)
    BY <1>1 DEF SelectionInvariant
<1>3. CASE Computable(rows)
    <2>1. disk' = [disk EXCEPT !.selection = [table |-> Classify(rows), winners |-> Winners(rows)]]
        BY <1>3 DEF ClassifyAndReport
    <2>2. FilesThere'
          /\ disk'.selection = [table |-> Classify(rows), winners |-> Winners(rows)]
        BY <2>1 DEF SelectionInvariant, FilesThere, Results
    <2>3. Named(rows)
        BY <1>2, SelectionAssumption DEF Named, RowsSelected, Positive
    <2>4. Costed(rows)
        <3>1. ASSUME NEW k \in DOMAIN rows
              PROVE  /\ rows[k].runtime \in Positive /\ rows[k].area \in Positive
                     /\ rows[k].total \in Positive /\ rows[k].energy \in Positive
            BY <1>2, <1>3 DEF RowsSelected, HasPrices, Computable, Prices, Positive
        <3> QED
            BY <3>1 DEF Costed, Costs
    <2>5. PICK list : list = rows
        OBVIOUS
    <2>6. Selected(list)'
        BY <2>2, <2>3, <2>4, <2>5 DEF Selected
    <2>7. Selected(rows)'
        BY <1>1, <2>5, <2>6
    <2> QED
        BY <1>1, <2>2, <2>7 DEF SelectionInvariant
<1>4. CASE ~Computable(rows)
    <2>1. rc' = 1 /\ disk' = disk
        BY <1>4 DEF ClassifyAndReport, Raise, Return
    <2> QED
        BY <1>1, <2>1 DEF SelectionInvariant, FilesThere
<1> QED
    BY <1>3, <1>4

LEMMA SelectionStep == SelectionInvariant /\ [Next]_vars => SelectionInvariant'
<1> SUFFICES ASSUME SelectionInvariant, [Next]_vars PROVE SelectionInvariant'
    OBVIOUS
<1>1. CASE UNCHANGED vars
    BY <1>1 DEF vars, processVars, SelectionInvariant, FilesThere, ReadSoFar, RowsSelected, Selected
<1>2. CASE Aside
    <2>1. FilesThere'
        BY <1>2 DEF SelectionInvariant, FilesThere, Aside, Kept
    <2>2. script' = "select" => at' \in {"idle", "read"} /\ (at' = "read" => rows' = << >>)
        BY <1>2 DEF Aside, Analyses, Entry, Drivers, Builders
    <2>3. script' = "select" /\ at' = "read" => ReadSoFar'
        BY <2>2, EmptySeqLike DEF ReadSoFar
    <2> QED
        BY <2>1, <2>2, <2>3 DEF SelectionInvariant
<1>3. CASE DesignNext
    <2>1. script' # "select"
        BY <1>3, DesignStays
    <2>2. FilesThere'
        <3>1. disk' = disk \/ SweepEnds \/ M6aReports
            BY <1>3, Zenon DEF DesignNext, DesignBuild, Build, Simulate, M6aDedupes, Compare5b, Compare6b
        <3>2. CASE SweepEnds
            BY <3>2 DEF SweepEnds, SelectionInvariant, FilesThere
        <3>3. CASE M6aReports
            <4>1. PICK space : space = Space
                OBVIOUS
            <4>2. PICK frozen : frozen = FrozenPredictions
                OBVIOUS
            <4>3. disk' = disk \/ disk' = space \/ disk' = [space EXCEPT !.frozen = frozen]
                BY <3>3, <4>1, <4>2, Zenon DEF M6aReports
            <4>4. DOMAIN space = DOMAIN disk
                BY <4>1 DEF Space
            <4> QED
                BY <4>3, <4>4 DEF SelectionInvariant, FilesThere
        <3> QED
            BY <3>1, <3>2, <3>3 DEF SelectionInvariant, FilesThere
    <2> QED
        BY <2>1, <2>2 DEF SelectionInvariant
<1>4. CASE SelectionNext
    BY <1>4, ReadKeeps, MergeKeeps, ClassifyKeeps DEF SelectionNext
<1>5. CASE FetchNext
    <2>1. script' # "select" /\ disk' = disk
        BY <1>5, FetchStays DEF FetchScripts
    <2> QED
        BY <2>1 DEF SelectionInvariant, FilesThere
<1> QED
    BY <1>1, <1>2, <1>3, <1>4, <1>5, StepKinds

(* Whatever cells the three files have, the selection written calls no     *)
(* case inefficient that an efficient one does not dominate, and names no  *)
(* winner that a case with lower costs of its measure dominates.           *)
THEOREM SelectionsAreSound == Spec => []SelectionSound
<1>1. Init => SelectionInvariant
    <2>1. Init => script = "none" /\ Results \subseteq DOMAIN disk
        BY DEF Init, ProcessInit, Results
    <2> QED
        BY <2>1 DEF SelectionInvariant, FilesThere
<1> QED
    BY <1>1, SelectionStep, SelectionIsSound, PTL DEF Spec

-----------------------------------------------------------------------------
(* The collector.                                                          *)

(* The cycles in which an instruction leaves the writeback stage, and a    *)
(* trace that has for each of them, in order, a row with its number.       *)
RetireCycles(wb) == {t \in DOMAIN wb : Retires(wb[t])}

Enumerates(place, n, wb) ==
    /\ place \in [1 .. n -> RetireCycles(wb)]
    /\ \A i, j \in 1 .. n : i < j => place[i] < place[j]
    /\ \A t \in RetireCycles(wb) : \E i \in 1 .. n : place[i] = t

RowsAt(place, n, wb) == [k \in 1 .. n |-> [wb[place[k]].row EXCEPT !.cycle = place[k]]]

Records(trace, wb) ==
    \E place : Enumerates(place, Len(trace), wb) /\ trace = RowsAt(place, Len(trace), wb)

Upto(wb, t) == Cardinality({u \in 1 .. t : Retires(wb[u])})

(* The retirements up to the k-th are k.                                   *)
LEMMA RetirementsCounted ==
    ASSUME NEW S, NEW wb \in Seq(S), NEW n \in Nat, NEW place, Enumerates(place, n, wb)
    PROVE  /\ Upto(wb, Len(wb)) = n
           /\ \A k \in 1 .. n : place[k] \in DOMAIN wb /\ Upto(wb, place[k]) = k
<1>1. Len(wb) \in Nat /\ DOMAIN wb = 1 .. Len(wb)
    OBVIOUS
<1>2. \A i \in 1 .. n : place[i] \in 1 .. Len(wb) /\ Retires(wb[place[i]])
    BY <1>1 DEF Enumerates, RetireCycles
<1>3. ASSUME NEW k \in 0 .. n, NEW t \in 0 .. Len(wb),
             \A i \in 1 .. n : place[i] <= t <=> i <= k
      PROVE  Upto(wb, t) = k
    <2> DEFINE U == {u \in 1 .. t : Retires(wb[u])}
               f == [i \in 1 .. k |-> place[i]]
    <2>1. \A i \in 1 .. k : i \in 1 .. n
        OBVIOUS
    <2>2. f \in [1 .. k -> U]
        <3>1. ASSUME NEW i \in 1 .. k PROVE place[i] \in U
            BY <1>1, <1>2, <1>3, <2>1
        <3> QED
            BY <3>1
    <2>3. \A i, j \in 1 .. k : f[i] = f[j] => i = j
        <3> SUFFICES ASSUME NEW i \in 1 .. k, NEW j \in 1 .. k, i # j PROVE f[i] # f[j]
            OBVIOUS
        <3>1. i < j \/ j < i
            OBVIOUS
        <3>2. place[i] < place[j] \/ place[j] < place[i]
            BY <2>1, <3>1 DEF Enumerates
        <3>3. place[i] \in Nat /\ place[j] \in Nat
            BY <1>2, <2>1
        <3> QED
            BY <3>2, <3>3
    <2>4. ASSUME NEW u \in U PROVE \E i \in 1 .. k : f[i] = u
        <3>1. u \in RetireCycles(wb)
            BY <1>1 DEF RetireCycles
        <3>2. PICK i \in 1 .. n : place[i] = u
            BY <3>1 DEF Enumerates
        <3>3. i <= k
            BY <1>3, <3>2
        <3> QED
            BY <3>2, <3>3
    <2> HIDE DEF f, U
    <2>5. f \in Bijection(1 .. k, U)
        BY <2>2, <2>3, <2>4 DEF Bijection, Injection, Surjection, IsInjective
    <2>6. Cardinality(U) = k
        BY <2>5, FS_CountingElements DEF ExistsBijection
    <2> QED
        BY <2>6 DEF Upto, U
<1>4. Upto(wb, Len(wb)) = n
    <2>1. n \in 0 .. n /\ Len(wb) \in 0 .. Len(wb)
        BY <1>1
    <2>2. \A i \in 1 .. n : place[i] <= Len(wb) <=> i <= n
        BY <1>1, <1>2
    <2> QED
        BY <1>3, <2>1, <2>2
<1>5. ASSUME NEW k \in 1 .. n PROVE Upto(wb, place[k]) = k
    <2>1. k \in 0 .. n /\ place[k] \in 0 .. Len(wb)
        BY <1>2
    <2>2. ASSUME NEW i \in 1 .. n PROVE place[i] <= place[k] <=> i <= k
        <3>1. place[i] \in Nat /\ place[k] \in Nat
            BY <1>2
        <3>2. i < k => place[i] < place[k]
            BY DEF Enumerates
        <3>3. k < i => place[k] < place[i]
            BY DEF Enumerates
        <3> QED
            BY <3>1, <3>2, <3>3
    <2> QED
        BY <1>3, <2>1, <2>2
<1> QED
    BY <1>1, <1>2, <1>4, <1>5

LEMMA CollectedRows ==
    ASSUME NEW S, NEW wb \in Seq(S), NEW n \in Nat, NEW place, Enumerates(place, n, wb)
    PROVE  Collected(wb) = RowsAt(place, n, wb)
<1> DEFINE At(k) == CHOOSE t \in DOMAIN wb : Retires(wb[t]) /\ Upto(wb, t) = k
<1>1. Collected(wb) = [k \in 1 .. Upto(wb, Len(wb)) |-> [wb[At(k)].row EXCEPT !.cycle = At(k)]]
    BY Zenon DEF Collected, Upto
<1>2. ASSUME NEW k \in 1 .. n PROVE At(k) = place[k]
    <2>1. place[k] \in DOMAIN wb /\ Upto(wb, place[k]) = k
        BY RetirementsCounted
    <2>2. Retires(wb[place[k]])
        BY DEF Enumerates, RetireCycles
    <2>3. ASSUME NEW t \in DOMAIN wb, Retires(wb[t]), Upto(wb, t) = k PROVE t = place[k]
        <3>1. PICK i \in 1 .. n : place[i] = t
            BY <2>3 DEF Enumerates, RetireCycles
        <3>2. i = k
            BY <2>3, <3>1, RetirementsCounted
        <3> QED
            BY <3>1, <3>2
    <2> QED
        BY <2>1, <2>2, <2>3
<1>3. Upto(wb, Len(wb)) = n
    BY RetirementsCounted
<1> HIDE DEF At
<1> QED
    BY <1>1, <1>2, <1>3 DEF RowsAt

(* The retirements can be listed in order.                                 *)
LEMMA RetirementsInOrder ==
    ASSUME NEW S, NEW wb \in Seq(S)
    PROVE  \E n \in Nat : \E place : Enumerates(place, n, wb)
<1> DEFINE T == RetireCycles(wb)
           before == {p \in T \X T : p[1] < p[2]}
           n == Cardinality(T)
<1>1. T \subseteq 1 .. Len(wb) /\ Len(wb) \in Nat
    BY DEF RetireCycles
<1>2. IsFiniteSet(T) /\ n \in Nat
    <2>1. IsFiniteSet(1 .. Len(wb))
        BY <1>1, FS_Interval
    <2> QED
        BY <1>1, <2>1, FS_Subset, FS_CardinalityType
<1>3. StrictOrder(before, T)
    <2>1. \A j \in T : j \in Nat
        BY <1>1
    <2> HIDE DEF T
    <2> QED
        BY <2>1 DEF StrictOrder
<1> HIDE DEF T
<1>4. Enumerated(Sorted(wb, T, before), wb, T, before)
    <2> HIDE DEF before
    <2> QED
        BY <1>2, <1>3, SortedPlaces
<1>5. PICK order \in [1 .. n -> T] :
        /\ \A k \in T : \E i \in 1 .. n : order[i] = k
        /\ \A i, j \in 1 .. n : i < j => <<order[i], order[j]>> \in before
    BY <1>4 DEF Enumerated
<1>6. Enumerates(order, n, wb)
    BY <1>5 DEF Enumerates, T
<1> QED
    BY <1>2, <1>6

(* The collector writes the list of what retired, and no list but that is  *)
(* one: it misses no retirement, repeats none while a writeback is held,   *)
(* and gives each the number of its own cycle.                             *)
THEOREM CollectorRecords ==
    ASSUME NEW S, NEW wb \in Seq(S), NEW trace, SeqLike(trace)
    PROVE  Records(trace, wb) <=> trace = Collected(wb)
<1> PICK n \in Nat : \E place : Enumerates(place, n, wb)
    BY RetirementsInOrder
<1>1. PICK place : Enumerates(place, n, wb)
    OBVIOUS
<1>2. Collected(wb) = RowsAt(place, n, wb)
    BY <1>1, CollectedRows
<1>3. Len(trace) \in Nat
    BY DEF SeqLike
<1>4. ASSUME Records(trace, wb) PROVE trace = Collected(wb)
    BY <1>3, <1>4, CollectedRows DEF Records
<1>5. ASSUME trace = Collected(wb) PROVE Records(trace, wb)
    <2>1. trace = RowsAt(place, n, wb)
        BY <1>2, <1>5
    <2>2. Len(trace) = n
        <3>1. DOMAIN trace = 1 .. n
            BY <2>1 DEF RowsAt
        <3>2. DOMAIN trace = 1 .. Len(trace)
            BY DEF SeqLike
        <3> QED
            BY <1>1, <1>3, <3>1, <3>2
    <2> QED
        BY <1>1, <2>1, <2>2 DEF Records
<1> QED
    BY <1>4, <1>5

(* The evidence needs no more than that: where each trace was collected    *)
(* from a writeback stage, and the truth lists that stage's retirements,   *)
(* the two agree, which is what the theorems on verdicts assume.           *)
THEOREM CollectorIsExact ==
    ASSUME \A s \in Runners : \A e \in Evidence[s] : e.hasRtl =>
             /\ SeqLike(e.truth)
             /\ \E wb : SeqLike(wb) /\ e.rtl = Collected(wb) /\ Records(e.truth, wb)
    PROVE  CollectorExact
<1> SUFFICES ASSUME NEW s \in Runners, NEW e \in Evidence[s], e.hasRtl PROVE e.rtl = e.truth
    BY DEF CollectorExact
<1>1. PICK wb : SeqLike(wb) /\ e.rtl = Collected(wb) /\ Records(e.truth, wb)
    OBVIOUS
<1>2. PICK S : wb \in Seq(S)
    BY <1>1 DEF SeqLike
<1> QED
    BY <1>1, <1>2, CollectorRecords

-----------------------------------------------------------------------------
(* Termination                                                             *)

(* What is left of a command: the processes that have to end (a driver     *)
(* that has yet to call its first child, a first and a second child, the   *)
(* command's own script), the stages of main(), and the loop's iterations. *)
ProcessesLeft == CASE at = "idle" -> 0
                   [] at = "call" -> 4
                   [] OTHER -> IF script = command THEN 1
                               ELSE IF script \in {"divider", "m3d", "icacheFetch"} THEN 2
                               ELSE 3

Stage(place) == CASE place = "check" -> 4
                  [] place = "build" -> 3
                  [] place \in {"cases", "read"} -> 2
                  [] place \in {"report", "group", "classify"} -> 1
                  [] OTHER -> 0

CasesLeft ==
    CASE at = "cases" -> IF script \in Runners THEN Len(Cases[script]) - Len(taken)
                         ELSE Len(ConfigList(script)) - Len(rows)
      [] at = "read"  -> IF script = "select" THEN 3 - Len(rows)
                         ELSE FetchCases[script] - Len(rows)
      [] at = "group" -> Len(input.log) + 1 - input.next
      [] OTHER        -> 0

CaseDone == at' = at /\ CasesLeft' < CasesLeft /\ CasesLeft' \in Nat

(* One step takes from the first of these that it changes.                 *)
CommandDescends ==
    \/ ProcessesLeft' < ProcessesLeft
    \/ ProcessesLeft' = ProcessesLeft /\ Stage(at') < Stage(at)
    \/ ProcessesLeft' = ProcessesLeft /\ CaseDone

(* Where a loop counts, it counts a sequence that began empty.             *)
LoopsCount ==
    /\ at = "call" => script \in Drivers
    /\ at \in {"check", "build"} => rows = << >>
    /\ at = "cases" => IF script \in Runners THEN SeqLike(taken) ELSE SeqLike(rows)
    /\ at = "read" /\ script \in {"select"} \cup FetchScripts => SeqLike(rows)
    /\ at = "group" =>
          Len(input.log) \in Nat /\ input.next \in Nat /\ "next" \in DOMAIN input

Started == {"call", "check", "build", "read"}

(* A process that has just started.                                        *)
LEMMA EntryCounts ==
    ASSUME at' = Entry(script'), rows' = << >>
    PROVE  LoopsCount' /\ at' \in Started
<1>1. at' \in Started /\ (at' = "call" => script' \in Drivers)
    BY DEF Entry, Drivers, Builders, Started
<1>2. SeqLike(rows')
    BY EmptySeqLike
<1> QED
    BY <1>1, <1>2 DEF LoopsCount, Started

LEMMA CallCounts ==
    ASSUME NEW s, NEW flags, Call(s, flags), s \notin Drivers
    PROVE  LoopsCount' /\ at' \notin {"call", "idle", "end"} /\ script' = s /\ command' = command
<1>1. at' = Entry(script') /\ rows' = << >> /\ script' = s /\ command' = command
    BY DEF Call
<1>2. Entry(s) # "call"
    BY DEF Entry, Builders
<1> QED
    BY <1>1, <1>2, EntryCounts DEF Started

LEMMA ReturnCounts ==
    ASSUME NEW status, DriverReturns(status)
    PROVE  LoopsCount' /\ at' = "end" /\ script' = command /\ command' = command
BY DEF DriverReturns, Return, LoopsCount

(* A driver and its children.                                              *)
DriverWork == DriverCalls \/ M2CompleteNext \/ ControlflowNext \/ M3bNext \/ M4bNext

LEMMA DriverDescends ==
    ASSUME LoopsCount, DriverWork
    PROVE  LoopsCount' /\ CommandDescends
<1>1. CASE DriverCalls
    <2>1. at = "call" /\ script \in Drivers
        BY <1>1 DEF DriverCalls, LoopsCount
    <2>2. FirstChild(script) \notin Drivers
        BY <2>1 DEF Drivers, FirstChild
    <2>3. LoopsCount' /\ at' \notin {"call", "idle"}
        BY <1>1, <2>2, CallCounts DEF DriverCalls
    <2> QED
        BY <2>1, <2>3 DEF CommandDescends, ProcessesLeft
<1>2. ASSUME NEW s \in {"divider", "m3d", "icacheFetch"}, NEW flags, Call(s, flags),
             command \in Drivers, script # command, at = "end",
             script \in {"suite", "m3c", "m3"}
      PROVE  LoopsCount' /\ CommandDescends
    <2>1. /\ LoopsCount' /\ at' \notin {"call", "idle"}
          /\ script' = s /\ command' = command
        BY <1>2, CallCounts DEF Drivers
    <2>2. ProcessesLeft = 3 /\ ProcessesLeft' = 2
        BY <1>2, <2>1 DEF ProcessesLeft, Drivers
    <2> QED
        BY <2>1, <2>2 DEF CommandDescends
<1>3. ASSUME NEW status, DriverReturns(status), script # command, at = "end"
      PROVE  LoopsCount' /\ CommandDescends
    <2>1. LoopsCount' /\ at' = "end" /\ script' = command /\ command' = command
        BY <1>3, ReturnCounts
    <2>2. ProcessesLeft \in {2, 3} /\ ProcessesLeft' = 1
        BY <1>3, <2>1 DEF ProcessesLeft
    <2> QED
        BY <2>1, <2>2 DEF CommandDescends
<1>4. CASE M2CompleteNext
    <2>1. /\ command = "m2complete" /\ script # command /\ at = "end"
          /\ \/ DriverReturns(rc) \/ DriverReturns(0)
             \/ script = "suite" /\ Call("divider", {"requireRtl"})
        BY <1>4, Zenon DEF M2CompleteNext
    <2> QED
        BY <1>2, <1>3, <2>1, Zenon DEF Drivers
<1>5. CASE ControlflowNext
    <2>1. /\ command = "controlflow" /\ script # command /\ at = "end"
          /\ \/ DriverReturns(1) \/ DriverReturns(0)
             \/ script = "m3c" /\ Call("m3d", {"requireRtl"})
        BY <1>5, Zenon DEF ControlflowNext
    <2> QED
        BY <1>2, <1>3, <2>1, Zenon DEF Drivers
<1>6. CASE M3bNext
    <2>1. /\ command = "m3b" /\ script # command /\ at = "end"
          /\ \/ DriverReturns(1) \/ DriverReturns(0)
             \/ script = "m3" /\ Call("icacheFetch", {})
        BY <1>6, Zenon DEF M3bNext
    <2> QED
        BY <1>2, <1>3, <2>1, Zenon DEF Drivers
<1>7. CASE M4bNext
    BY <1>3, <1>7 DEF M4bNext
<1> QED
    BY <1>1, <1>4, <1>5, <1>6, <1>7 DEF DriverWork

(* An iteration of a runner's loop.                                        *)
RunnerLoops == \/ CalibratedModelFails \/ CalibratedWaits \/ CalibratedJudges
               \/ CacheCaseWaits \/ CacheCaseJudged \/ M4Case

InMain == {"check", "build", "cases", "read", "report", "group", "classify"}

LEMMA RunnerLoopDescends ==
    ASSUME LoopsCount, RunnerLoops
    PROVE  /\ InScript /\ at = "cases" /\ LoopsCount' /\ CaseDone
<1>1. /\ InScript /\ script \in Runners /\ at' = "cases" /\ MoreCases
      /\ \E e : Take(e)
    BY DEF RunnerLoops, CalibratedModelFails, CalibratedWaits, CalibratedJudges, CacheCaseWaits,
           CacheCaseJudged, M4Case, Goto, Runners, Calibrated, CacheScripts
<1>2. PICK e : Take(e)
    BY <1>1
<1>3. SeqLike(taken) /\ at = "cases" /\ Len(taken) < Len(Cases[script])
    BY <1>1 DEF LoopsCount, MoreCases
<1>4. SeqLike(taken') /\ Len(taken) \in Nat /\ Len(taken') = Len(taken) + 1
    BY <1>2, <1>3, Appended DEF Take
<1>5. Len(Cases[script]) \in Nat
    BY <1>1, ScriptAssumption
<1>6. script' = script
    BY <1>1 DEF InScript
<1>7. CasesLeft = Len(Cases[script]) - Len(taken) /\ CasesLeft' = Len(Cases[script]) - Len(taken')
    BY <1>1, <1>3, <1>6 DEF CasesLeft
<1>8. CaseDone
    BY <1>1, <1>3, <1>4, <1>5, <1>7 DEF CaseDone
<1>9. LoopsCount'
    BY <1>1, <1>4, <1>6 DEF LoopsCount
<1> QED
    BY <1>1, <1>3, <1>8, <1>9

(* The other steps of a runner leave its loop, or enter it.                *)
RunnerMoves == \/ RunnerBuild \/ CalibratedEnds \/ M2Check \/ M2Case \/ CacheCaseRaises
               \/ CacheScriptEnds \/ M4Fails \/ M4Misses \/ M4Ends \/ AnalyzeGaps

LEMMA RunnerMoveDescends ==
    ASSUME LoopsCount, RunnerMoves
    PROVE  InScript /\ at \in InMain /\ LoopsCount' /\ Stage(at') < Stage(at)
                    /\ at' \in InMain \cup {"end"}
<1>1. CASE RunnerBuild
    <2>1. /\ at = "build" /\ at' \in {"cases", "end"} /\ InScript /\ script' \in Runners
          /\ taken' = << >>
        BY <1>1 DEF RunnerBuild, Build, Goto, Return, Raise, InScript
    <2> QED
        BY <2>1, EmptySeqLike DEF Stage, InMain, LoopsCount
<1>2. CASE M2Check
    <2>1. /\ at = "check" /\ at' \in {"build", "end"} /\ InScript /\ rows' = << >>
        BY <1>2 DEF M2Check, Goto, Return, LoopsCount
    <2> QED
        BY <2>1 DEF Stage, InMain, LoopsCount
<1>3. ASSUME ~RunnerBuild, ~M2Check
      PROVE  at \in {"cases", "read"} /\ at' = "end" /\ InScript
    BY <1>3, Zenon DEF RunnerMoves, CalibratedEnds, M2Case, CacheCaseRaises, CacheScriptEnds, M4Fails,
                M4Misses, M4Ends, AnalyzeGaps, MoreCases, AllTaken, Return, Raise
<1>4. CASE ~RunnerBuild /\ ~M2Check
    BY <1>3, <1>4 DEF Stage, InMain, LoopsCount
<1> QED
    BY <1>1, <1>2, <1>4

(* The exploration, the selection and the analyses.                        *)
LEMMA DesignDescends ==
    ASSUME LoopsCount, DesignNext
    PROVE  /\ InScript /\ at \in InMain /\ LoopsCount' /\ at' \in InMain \cup {"end"}
           /\ Stage(at') < Stage(at) \/ CaseDone
<1>1. CASE DesignBuild
    <2>1. /\ at = "build" /\ at' \in {"cases", "end"} /\ InScript /\ script' \notin Runners
          /\ rows' = << >>
        BY <1>1 DEF DesignBuild, Build, Goto, Return, Raise, InScript, LoopsCount, Runners
    <2> QED
        BY <2>1, EmptySeqLike DEF Stage, InMain, LoopsCount
<1>2. CASE Simulate /\ at' = "end"
    BY <1>2 DEF Simulate, Stage, InMain, LoopsCount
<1>3. CASE Simulate /\ at' # "end"
    <2>1. /\ at = "cases" /\ at' = "cases" /\ InScript /\ script \in {"sweep", "m6a"}
          /\ Len(rows) < Len(ConfigList(script)) /\ script' = script
        BY <1>3 DEF Simulate, Raise, Return, Goto, InScript
    <2>2. PICK row : rows' = Append(rows, row)
        BY <1>3 DEF Simulate, Raise, Return
    <2>3. script \notin Runners /\ SeqLike(rows)
        BY <2>1 DEF LoopsCount, Runners
    <2>4. SeqLike(rows') /\ Len(rows) \in Nat /\ Len(rows') = Len(rows) + 1
        BY <2>2, <2>3, Appended
    <2>5. Len(ConfigList(script)) \in Nat
        BY <2>1, DesignAssumption, ConfigurationsAreConfigured DEF ConfigList, Counted
    <2>6. /\ CasesLeft = Len(ConfigList(script)) - Len(rows)
          /\ CasesLeft' = Len(ConfigList(script)) - Len(rows')
        BY <2>1, <2>3 DEF CasesLeft
    <2>7. CaseDone
        BY <2>1, <2>4, <2>5, <2>6 DEF CaseDone
    <2> QED
        BY <2>1, <2>3, <2>4, <2>7 DEF InMain, LoopsCount
<1>4. CASE M6aDedupes
    BY <1>4 DEF M6aDedupes, Goto, Stage, InMain, LoopsCount
<1>5. CASE SweepEnds \/ M6aReports \/ Compare5b \/ Compare6b
    <2>1. at \in {"cases", "report", "read"} /\ at' = "end" /\ InScript
        BY <1>5, Zenon DEF SweepEnds, M6aReports, Compare5b, Compare6b, Return, Raise
    <2> QED
        BY <2>1 DEF Stage, InMain, LoopsCount
<1> QED
    BY <1>1, <1>2, <1>3, <1>4, <1>5 DEF DesignNext

LEMMA SelectionDescends ==
    ASSUME LoopsCount, SelectionNext
    PROVE  /\ InScript /\ at \in InMain /\ LoopsCount' /\ at' \in InMain \cup {"end"}
           /\ Stage(at') < Stage(at) \/ CaseDone
<1>1. CASE ReadFile
    <2>1. /\ at = "read" /\ at' = "read" /\ InScript /\ script = "select" /\ script' = script
          /\ Len(rows) < 3
        BY <1>1 DEF ReadFile, Goto, InScript
    <2>2. PICK file : rows' = Append(rows, file)
        BY <1>1 DEF ReadFile
    <2>3. SeqLike(rows') /\ Len(rows) \in Nat /\ Len(rows') = Len(rows) + 1
        BY <2>1, <2>2, Appended DEF LoopsCount
    <2>4. CaseDone
        BY <2>1, <2>3 DEF CaseDone, CasesLeft
    <2> QED
        BY <2>1, <2>3, <2>4 DEF InMain, LoopsCount
<1>2. CASE Merge
    <2>1. at = "read" /\ at' \in {"classify", "end"} /\ InScript
        BY <1>2 DEF Merge, Goto, Raise, Return
    <2> QED
        BY <2>1 DEF Stage, InMain, LoopsCount
<1>3. CASE ClassifyAndReport
    <2>1. at = "classify" /\ at' = "end" /\ InScript
        BY <1>3, Zenon DEF ClassifyAndReport, Raise, Return
    <2> QED
        BY <2>1 DEF Stage, InMain, LoopsCount
<1> QED
    BY <1>1, <1>2, <1>3 DEF SelectionNext

LEMMA FetchDescends ==
    ASSUME LoopsCount, FetchNext
    PROVE  /\ InScript /\ at \in InMain /\ LoopsCount' /\ at' \in InMain \cup {"end"}
           /\ Stage(at') < Stage(at) \/ CaseDone
<1>1. CASE ProbeReads
    <2>1. at = "read" /\ at' \in {"group", "end"} /\ InScript
        BY <1>1 DEF ProbeReads, Goto, Raise, Return
    <2>2. ASSUME at' = "group"
          PROVE  Len(input'.log) \in Nat /\ input'.next \in Nat /\ "next" \in DOMAIN input'
        <3>1. PICK log \in OverlapLogs : input' = [log |-> log, next |-> 1]
            BY <1>1, <2>2 DEF ProbeReads, Raise, Return
        <3> QED
            BY <3>1, LogAssumption
    <2> QED
        BY <2>1, <2>2 DEF Stage, InMain, LoopsCount
<1>2. CASE ProbeGroups
    <2>1. /\ at = "group" /\ at' = "group" /\ InScript
          /\ input.next <= Len(input.log) /\ Len(input.log) \in Nat /\ input.next \in Nat
          /\ input' = [input EXCEPT !.next = @ + 1]
        BY <1>2 DEF ProbeGroups, Goto, LoopsCount
    <2>2. /\ input'.next = input.next + 1 /\ input'.log = input.log
          /\ DOMAIN input' = DOMAIN input /\ "next" \in DOMAIN input
        BY <1>2, <2>1 DEF LoopsCount
    <2>3. LoopsCount'
        BY <2>1, <2>2 DEF LoopsCount
    <2>4. CaseDone
        BY <2>1, <2>2 DEF CaseDone, CasesLeft
    <2> QED
        BY <2>1, <2>3, <2>4 DEF InMain
<1>3. CASE FetchCase /\ at' = "end"
    BY <1>3 DEF FetchCase, Stage, InMain, LoopsCount
<1>4. CASE FetchCase /\ at' # "end"
    <2>1. /\ at = "read" /\ at' = "read" /\ InScript /\ script \in FetchScripts
          /\ script' = script /\ Len(rows) < FetchCases[script]
        BY <1>4 DEF FetchCase, Goto, Raise, Return, InScript
    <2>2. PICK row : rows' = Append(rows, row)
        BY <1>4 DEF FetchCase, Raise, Return
    <2>3. SeqLike(rows') /\ Len(rows) \in Nat /\ Len(rows') = Len(rows) + 1
        BY <2>1, <2>2, Appended DEF LoopsCount
    <2>4. FetchCases[script] \in Nat /\ script # "select"
        BY <2>1, LogAssumption DEF FetchScripts
    <2>5. CaseDone
        BY <2>1, <2>3, <2>4 DEF CaseDone, CasesLeft
    <2> QED
        BY <2>1, <2>3, <2>5 DEF InMain, LoopsCount
<1>5. CASE ProbeEnds \/ FetchEnds
    <2>1. at \in {"read", "group"} /\ at' = "end" /\ InScript
        BY <1>5, Zenon DEF ProbeEnds, FetchEnds, Return
    <2> QED
        BY <2>1 DEF Stage, InMain, LoopsCount
<1> QED
    BY <1>1, <1>2, <1>3, <1>4, <1>5 DEF FetchNext

(* Within one script the processes left do not change.                     *)
LEMMA ScriptDescends ==
    ASSUME InScript, at \in InMain, at' \in InMain \cup {"end"},
           Stage(at') < Stage(at) \/ CaseDone
    PROVE  CommandDescends
<1>1. script' = script /\ command' = command
    BY DEF InScript
<1>2. ProcessesLeft' = ProcessesLeft
    BY <1>1 DEF ProcessesLeft, InMain
<1> QED
    BY <1>2 DEF CommandDescends

LEMMA ScriptStepDescends ==
    ASSUME LoopsCount, ScriptStep
    PROVE  LoopsCount' /\ CommandDescends
<1>1. CASE Finish
    <2>1. at = "end" /\ script = command /\ at' = "idle"
        BY <1>1 DEF Finish
    <2> QED
        BY <2>1 DEF CommandDescends, ProcessesLeft, LoopsCount
<1>2. CASE DriverWork
    BY <1>2, DriverDescends
<1>3. CASE RunnerLoops
    <2>1. at' \in InMain /\ at \in InMain
        BY <1>3, RunnerLoopDescends DEF CaseDone, InMain
    <2> QED
        BY <1>3, <2>1, RunnerLoopDescends, ScriptDescends
<1>4. CASE RunnerMoves
    BY <1>4, RunnerMoveDescends, ScriptDescends
<1>5. CASE DesignNext \/ SelectionNext \/ FetchNext
    BY <1>5, DesignDescends, SelectionDescends, FetchDescends, ScriptDescends
<1> QED
    BY <1>1, <1>2, <1>3, <1>4, <1>5
       DEF ScriptStep, RunnerNext, DriverWork, RunnerLoops, RunnerMoves

(* A command does not go on for ever: whatever is found, fails or is       *)
(* missing, each step until it is over leaves less to do, no child is      *)
(* called twice and no case is taken again.                                *)
THEOREM EveryCommandDescends == Spec => [][UserStarts \/ CommandDescends]_vars
<1>1. Init => LoopsCount
    BY DEF Init, ProcessInit, LoopsCount
<1>2. LoopsCount /\ [Next]_vars => LoopsCount' /\ [UserStarts \/ CommandDescends]_vars
    <2> SUFFICES ASSUME LoopsCount, [Next]_vars
                 PROVE  LoopsCount' /\ [UserStarts \/ CommandDescends]_vars
        OBVIOUS
    <2>1. CASE UserStarts
        <3>1. at' = Entry(script') /\ rows' = << >>
            BY <2>1 DEF UserStarts, Start
        <3> QED
            BY <2>1, <3>1, EntryCounts
    <2>2. CASE ScriptStep
        BY <2>2, ScriptStepDescends
    <2>3. CASE UNCHANGED vars
        BY <2>3 DEF vars, processVars, runnerVars, fetchVars, LoopsCount
    <2> QED
        BY <2>1, <2>2, <2>3 DEF Next
<1> QED
    BY <1>1, <1>2, PTL DEF Spec

=============================================================================
