--------------------------- MODULE ScriptProcess ---------------------------
(***************************************************************************)
(* The part all scripts/*.py share: a command is started with flags, it    *)
(* builds the model executable, works through its cases, may run another   *)
(* script as a child process, prints conclusions and ends with a status.   *)
(*                                                                         *)
(* One process runs at a time.  The files of results/ and reference/ that  *)
(* a later command reads outlive the process in `disk'; everything that    *)
(* the user, a simulator or another tool puts there is chosen when a       *)
(* script reads it.                                                        *)
(***************************************************************************)
EXTENDS Integers, Sequences, FiniteSets

CONSTANTS
    Commands,       \* the scripts the user starts
    Flags,          \* Flags[c]: the sets of flags the user may give to c
    MaxCommands,    \* bound: commands started one after the other
    Follows         \* bound: the pairs of commands started one after the other

VARIABLES
    command,        \* the script the user started
    script,         \* the one that runs now: command or its child
    args,           \* the flags script was given
    at,             \* where in main() it is, "idle" when no process runs
    rc,             \* status of script once it has ended
    exit,           \* status of the last command
    started,        \* commands started so far
    said,           \* the conclusions printed since command was started
    rows,           \* the result rows script has collected
    disk            \* the files that outlive a process

processVars == <<command, script, args, at, rc, exit, started, said, rows, disk>>

Running == -1

(* Status of a cmake that fails: any status but 0 and 1.                   *)
CmakeStatus == 2

(* Where a script begins: run_milestone2 looks for the RTL trace before it *)
(* builds, the five drivers run other scripts, the rest build or read.     *)
Drivers == {"m2complete", "m3b", "m4b", "controlflow"}

Builders == {"suite", "divider", "m2", "m3", "m3c", "m3d", "m4", "sweep", "m6a"}

Entry(s) == CASE s = "m2"         -> "check"
              [] s \in Drivers    -> "call"
              [] s \in Builders \ {"m2"} -> "build"
              [] OTHER            -> "read"

ProcessInit ==
    /\ command = "none" /\ script = "none" /\ args = {}
    /\ at = "idle" /\ rc = 0 /\ exit = 0 /\ started = 0
    /\ said = {} /\ rows = << >>

(* The user starts a command once the one before has ended.                *)
Start(c) ==
    /\ at = "idle" /\ started < MaxCommands
    /\ started = 0 \/ <<command, c>> \in Follows
    /\ command' = c /\ script' = c /\ args' \in Flags[c]
    /\ at' = Entry(c) /\ rc' = Running /\ exit' = Running
    /\ started' = started + 1 /\ said' = {} /\ rows' = << >>
    /\ UNCHANGED disk

(* Continue, end with a status, or end by an exception nobody catches:     *)
(* Python then ends with status 1.                                         *)
Goto(l) == at' = l /\ UNCHANGED rc

Return(status) == at' = "end" /\ rc' = status

Raise == Return(1)

InScript == UNCHANGED <<command, script, args, exit, started>>

(* subprocess.call: a driver waits until the child has ended.              *)
Call(s, flags) ==
    /\ script' = s /\ args' = flags /\ at' = Entry(s) /\ rc' = Running
    /\ rows' = << >>
    /\ UNCHANGED <<command, exit, started, said, disk>>

(* The driver ends after its child.                                        *)
DriverReturns(status) ==
    /\ script' = command /\ Return(status)
    /\ UNCHANGED <<command, args, exit, started, rows, disk>>

(* run_validation_suite and run_divider_characterization return the status *)
(* of cmake, the others raise; all raise when the executable is missing.   *)
Build ==
    /\ at = "build"
    /\ \/ Goto("cases")
       \/ Return(IF script \in {"suite", "divider"} THEN CmakeStatus ELSE 1)
       \/ Raise
    /\ InScript /\ UNCHANGED <<said, rows, disk>>

(* The command's own process ends.                                         *)
Finish ==
    /\ at = "end" /\ script = command
    /\ at' = "idle" /\ exit' = rc
    /\ UNCHANGED <<command, script, args, rc, started, said, rows, disk>>
=============================================================================
