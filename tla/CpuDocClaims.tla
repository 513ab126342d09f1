---------------------------- MODULE CpuDocClaims ----------------------------
(***************************************************************************)
(* Two statements the repository makes about cache overlap that step()     *)
(* does not keep; each is refuted by a run of its own.                     *)
(***************************************************************************)
EXTENDS CpuProperties

LesserOf(a, b) == IF a < b THEN a ELSE b

(* docs/archive/milestone-notes/README_MILESTONE4B.md:7, "If an older      *)
(* store D$ miss is active while the immediately younger EX-stage          *)
(* branch/JAL/JALR redirects to an I$-missing target, the I$ refill        *)
(* overlaps the tail of the D$ wait", the credit being the lesser of the   *)
(* clean refill and the D$ stall less one.  step() grants it only if the   *)
(* sequential fetches behind the store missed in I$ too.                   *)
EveryOverlapCredited ==
    [][ at = "mem" /\ at' = "retire" /\ Insn.op = "STORE" /\ cur.dstall > 0
        /\ Icfg.enabled /\ Redirects(Younger)
        /\ ~WouldHit(Icfg, icache, YoungerTarget)
        => overlap' - overlap = LesserOf(CleanMissPenalty(Icfg), cur.dstall - 1) ]_vars

(* CpuModel.cpp:481-485, effective load-use and divider holds "change      *)
(* access/hit counters" and only "Simultaneous cache-overlap cycles" are   *)
(* not counted a second time.  A hold of an instruction that is neither a  *)
(* store nor shortly behind one overlaps nothing, so it should add its     *)
(* replays; step() subtracts the overlap of the whole run from the holds   *)
(* of the whole run.                                                       *)
HoldsReplayed ==
    [][ at = "retire" /\ Icfg.enabled /\ timing.retired > 0
        /\ overlap = stats["overlap"] /\ owed = {}
        => stats'["holdReplays"] - stats["holdReplays"] =
              LoadUseStall(timing, Insn) + DividerStall(timing, Insn) ]_vars
=============================================================================
