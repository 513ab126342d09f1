------------------------------ MODULE Session ------------------------------
(***************************************************************************)
(* One run of the model executable: main.cpp or the SystemC driver loads   *)
(* an image word by word, resets the CPU and steps it until it halts, an   *)
(* exception ends the run, or it has ended before it began.                *)
(*                                                                         *)
(* The CPU is the one of CpuModel.tla with its control and its data memory *)
(* only: a word stands for an instruction that goes on, jumps, halts, is   *)
(* illegal, or loads or stores the one register that is kept here.         *)
(***************************************************************************)
EXTENDS Integers, FiniteSets, Sequences, FiniteSetsExt

CONSTANTS
    MemBytes,       \* --mem-size
    AddressSpace,   \* 2^32: addresses wrap here
    ByteSpace,      \* 256: the values of a byte
    MaxInsns,       \* --max-insns
    StartPcs,       \* --start-pc
    Behaviour,      \* what a word does: [op, addr, width, signed]
    Targets,        \* where a jump may go
    Programs,       \* hex files: sequences of tokens [kind, value]
    DataFiles       \* hex files for --dmem-hex, << >> for none

Ops == {"next", "jump", "halt", "illegal", "load", "store"}

(* ByteSpace^n: the weight of byte n of a word.                            *)
Weight(n) ==
    LET half == ByteSpace * ByteSpace IN <<1, ByteSpace, half, half * ByteSpace, half * half>>[n + 1]

WordSpace == Weight(4)

ASSUME SessionAssumption ==
    /\ AddressSpace \in Nat \ {0} /\ AddressSpace % 4 = 0 /\ MemBytes \in 0 .. AddressSpace
    /\ ByteSpace \in Nat \ {0} /\ ByteSpace % 2 = 0
    /\ StartPcs \cup Targets \subseteq 0 .. AddressSpace - 1
    /\ \A w \in 0 .. WordSpace - 1 :
         Behaviour[w] \in [op : Ops, addr : 0 .. AddressSpace - 1, width : {1, 2, 4},
                           signed : BOOLEAN]
    /\ Programs \cup DataFiles \subseteq Seq([kind : {"at", "word", "bad"}, value : Nat])

VARIABLES
    driver,         \* "cli" or "systemc"
    file,           \* the two files of this session, by memory
    at,             \* "main", "load", "run", "print" or "ended"
    memory,         \* instruction and data memory: the bytes of each
    loading,        \* the memory being loaded
    next,           \* the next token of its file
    addr,           \* where the next word goes
    pc, halted, reg,    \* of the CPU
    trace,          \* the rows of the trace file
    signal,         \* the output `halted' of the SystemC module
    stop,           \* sc_stop() has been called
    status          \* of the process, Running before it has ended

vars == <<driver, file, at, memory, loading, next, addr, pc, halted, reg, trace, signal, stop, status>>
loader == <<loading, next, addr>>
cpu == <<memory, pc, halted, reg, trace>>

Running == -1

-----------------------------------------------------------------------------
(* Memory: every access checks its range before it touches a byte, and the *)
(* least significant byte comes first.                                     *)

InRange(a, width) == a + width <= MemBytes

Empty == [a \in 0 .. MemBytes - 1 |-> 0]

Digit(value, n) == (value \div Weight(n)) % ByteSpace

ReadBytes(bytes, a, width) ==
    LET byte(n) == IF n < width THEN bytes[a + n] ELSE 0
    IN  byte(0) + ByteSpace * (byte(1) + ByteSpace * (byte(2) + ByteSpace * byte(3)))

(* Mutated WriteBytes: a word is written whatever the width.               *)
WriteWord(bytes, a, width, value) ==
    [x \in DOMAIN bytes |-> IF x \in a .. a + 3 THEN Digit(value, x - a) ELSE bytes[x]]

WriteBytes(bytes, a, width, value) ==
    [x \in DOMAIN bytes |->
        IF x \in a .. a + width - 1 THEN Digit(value, x - a) ELSE bytes[x]]

(* sign_extend: the upper half of the narrow numbers is negative.          *)
SignExtend(value, width) ==
    IF 2 * value < Weight(width) THEN value ELSE value + WordSpace - Weight(width)

-----------------------------------------------------------------------------

Init ==
    /\ driver \in {"cli", "systemc"}
    /\ file \in [program : Programs, data : IF driver = "cli" THEN DataFiles ELSE {<< >>}]
    /\ pc \in StartPcs
    /\ driver = "systemc" => pc = 0
    /\ at = "main" /\ memory = [program |-> Empty, data |-> Empty]
    /\ loading = "program" /\ next = 1 /\ addr = 0
    /\ halted = FALSE /\ reg = 0 /\ trace = << >>
    /\ signal = FALSE /\ stop = FALSE /\ status = Running

(* catch (const std::exception&) in both drivers.                          *)
Ends(code) == at' = "ended" /\ status' = code

Throws == Ends(1)

-----------------------------------------------------------------------------
(* No argument, --help, and an option, a cache size or a file that is      *)
(* refused.                                                                *)
EndsEarly ==
    /\ at = "main"
    /\ Ends(2) \/ (driver = "cli" /\ Ends(0)) \/ Throws
    /\ UNCHANGED <<driver, file, loader, cpu, signal, stop>>

Constructed ==
    /\ at = "main"
    /\ at' = "load"
    /\ UNCHANGED <<driver, file, loader, cpu, signal, stop, status>>

-----------------------------------------------------------------------------
(* load_hex_words, one token after the other.                              *)

Tokens == file[loading]

Token == Tokens[next]

Reading(kind) == at = "load" /\ next <= Len(Tokens) /\ Token.kind = kind

(* @index: the index is cut to a word, and so is four times the index.     *)
Directive ==
    /\ Reading("at")
    /\ addr' = ((Token.value % AddressSpace) * 4) % AddressSpace
    /\ next' = next + 1
    /\ UNCHANGED <<driver, file, at, loading, cpu, signal, stop, status>>

(* Mutated Write: the address moves on before the word is written.         *)
WriteBehind ==
    /\ Reading("word") /\ InRange(addr + 4, 4)
    /\ memory' = [memory EXCEPT ![loading] = WriteBytes(@, addr + 4, 4, Token.value % WordSpace)]
    /\ addr' = (addr + 4) % AddressSpace
    /\ next' = next + 1
    /\ UNCHANGED <<driver, file, at, loading, pc, halted, reg, trace, signal, stop, status>>

Write ==
    /\ Reading("word") /\ InRange(addr, 4)
    /\ memory' = [memory EXCEPT ![loading] = WriteBytes(@, addr, 4, Token.value % WordSpace)]
    /\ addr' = (addr + 4) % AddressSpace
    /\ next' = next + 1
    /\ UNCHANGED <<driver, file, at, loading, pc, halted, reg, trace, signal, stop, status>>

(* What is no number, and a word outside the memory; the words before it   *)
(* stay where they are.                                                    *)
Refuse ==
    /\ Reading("bad") \/ (Reading("word") /\ ~InRange(addr, 4))
    /\ Throws
    /\ UNCHANGED <<driver, file, loader, cpu, signal, stop>>

(* The program first, then the data, then reset(), which leaves both       *)
(* memories alone: of the state kept here it repeats the constructor.      *)
FileEnds ==
    /\ at = "load" /\ next > Len(Tokens)
    /\ IF loading = "program" /\ driver = "cli"
       THEN loading' = "data" /\ next' = 1 /\ addr' = 0 /\ UNCHANGED at
       ELSE at' = "run" /\ UNCHANGED <<loading, next, addr>>
    /\ UNCHANGED <<driver, file, cpu, signal, stop, status>>

-----------------------------------------------------------------------------
(* CpuModel::step of a CPU that has not halted.                            *)

Word == ReadBytes(memory.program, pc, 4)

Instr == Behaviour[Word]

Stored == [memory EXCEPT !.data = WriteBytes(@, Instr.addr, Instr.width, reg)]

Fetches == Len(trace) < MaxInsns /\ pc % 4 = 0 /\ InRange(pc, 4)

Executable ==
    /\ Fetches
    /\ Instr.op # "illegal"
    /\ Instr.op \in {"load", "store"} => InRange(Instr.addr, Instr.width)

(* LB and LH extend the sign, LBU and LHU do not, and LW has nothing to    *)
(* extend.                                                                 *)
Loaded ==
    LET value == ReadBytes(memory.data, Instr.addr, Instr.width)
    IN  IF Instr.signed THEN SignExtend(value, Instr.width) ELSE value

Retires ==
    /\ Executable
    /\ pc' \in IF Instr.op = "jump" THEN Targets ELSE {(pc + 4) % AddressSpace}
    /\ halted' = (Instr.op = "halt")
    /\ reg' = IF Instr.op = "load" THEN Loaded ELSE reg
    /\ memory' = IF Instr.op = "store" THEN Stored ELSE memory
    /\ trace' = Append(trace, [pc |-> pc, insn |-> Word,
                               wdata |-> IF Instr.op = "load" THEN Loaded ELSE 0])

(* CpuModel::run: the loop of the command-line driver.  A step that throws *)
(* changes nothing here, except a store that has been made when the        *)
(* instruction behind it, inspected for an overlap of both caches, turns   *)
(* out to lie outside the memory.  Only the command line switches caches on.*)
RunSteps ==
    /\ driver = "cli" /\ at = "run" /\ ~halted
    /\ \/ ~Executable /\ Throws /\ UNCHANGED cpu
       \/ /\ Executable /\ Instr.op = "store" /\ ~InRange((pc + 4) % AddressSpace, 4)
          /\ memory' = Stored
          /\ Throws /\ UNCHANGED <<pc, halted, reg, trace>>
       \/ Retires /\ UNCHANGED <<at, status>>
    /\ UNCHANGED <<driver, file, loader, signal, stop>>

RunReturns ==
    /\ driver = "cli" /\ at = "run" /\ halted
    /\ at' = "print"
    /\ UNCHANGED <<driver, file, loader, cpu, signal, stop, status>>

(* Mutated Tick: the output and the stop wait for the next edge.           *)
TickWithoutLookingBack ==
    /\ driver = "systemc" /\ at = "run"
    /\ \/ halted /\ signal' = TRUE /\ stop' = TRUE /\ UNCHANGED <<cpu, at, status>>
       \/ ~halted /\ ~Executable /\ Throws /\ UNCHANGED <<cpu, signal, stop>>
       \/ ~halted /\ Retires /\ UNCHANGED <<signal, stop, at, status>>
    /\ UNCHANGED <<driver, file, loader>>

(* RV32IMSystemC::tick: the output and the stop belong to the edge that    *)
(* halts the CPU; an edge after it only repeats them.  An exception leaves *)
(* sc_start() and is caught by sc_main.                                    *)
Tick ==
    /\ driver = "systemc" /\ at = "run"
    /\ \/ halted /\ signal' = TRUE /\ stop' = TRUE /\ UNCHANGED <<cpu, at, status>>
       \/ ~halted /\ ~Executable /\ Throws /\ UNCHANGED <<cpu, signal, stop>>
       \/ /\ ~halted /\ Retires
          /\ signal' = (signal \/ halted') /\ stop' = (stop \/ halted')
          /\ UNCHANGED <<at, status>>
    /\ UNCHANGED <<driver, file, loader>>

(* The kernel returns from sc_start() some time after sc_stop().           *)
SimulationStops ==
    /\ driver = "systemc" /\ at = "run" /\ stop
    /\ at' = "print"
    /\ UNCHANGED <<driver, file, loader, cpu, signal, stop, status>>

(* The statistics; the command-line driver may be told to read the trace   *)
(* of the RTL, which throws when it has no row or one that is no number.   *)
Prints ==
    /\ at = "print"
    /\ Ends(0) \/ (driver = "cli" /\ Throws)
    /\ UNCHANGED <<driver, file, loader, cpu, signal, stop>>

Next ==
    \/ EndsEarly \/ Constructed
    \/ Directive \/ Write \/ Refuse \/ FileEnds
    \/ RunSteps \/ RunReturns \/ Tick \/ SimulationStops \/ Prints

Spec == Init /\ [][Next]_vars

-----------------------------------------------------------------------------
(* What a hex file says, without a loader: a word's place is counted from  *)
(* the last @index before it, or from zero, and where two words have one   *)
(* place the later one counts.                                             *)

Between(tokens, first, last, kind) == {j \in first .. last : tokens[j].kind = kind}

Origin(tokens, k) ==
    LET marks == Between(tokens, 1, k, "at") IN IF marks = {} THEN 0 ELSE Max(marks)

PlaceOf(tokens, k) ==
    LET o == Origin(tokens, k)
        before == Cardinality(Between(tokens, o + 1, k - 1, "word"))
    IN  (4 * (before + IF o = 0 THEN 0 ELSE tokens[o].value)) % AddressSpace

Image(tokens) ==
    [a \in 0 .. MemBytes - 1 |->
        LET Covers(k) == tokens[k].kind = "word" /\ a - PlaceOf(tokens, k) \in 0 .. 3
            here == {k \in DOMAIN tokens : Covers(k)}
        IN  IF here = {} THEN 0
            ELSE LET k == Max(here) IN Digit(tokens[k].value, a - PlaceOf(tokens, k))]

(* While files are loaded, also after one was refused in the middle, a     *)
(* memory is the image of the tokens read so far; nothing is executed      *)
(* unless both files have been read to the end and all their words lie in  *)
(* the memory, and what is executed is the program file's whatever the     *)
(* program stores.                                                         *)
LoadedAsWritten ==
    /\ trace = << >> /\ at # "ended" =>
         memory[loading] = Image(SubSeq(Tokens, 1, next - 1))
    /\ loading = "data" => memory.program = Image(file.program)
    /\ loading = "program" =>
         /\ memory.program = Image(SubSeq(file.program, 1, next - 1))
         /\ trace = << >> => memory.data = Empty
    /\ trace # << >> =>
         /\ \A k \in DOMAIN trace :
              trace[k].insn = ReadBytes(Image(file.program), trace[k].pc, 4)
         /\ \A m \in {"program", "data"} : \A k \in DOMAIN file[m] :
              /\ file[m][k].kind # "bad"
              /\ file[m][k].kind = "word" => InRange(PlaceOf(file[m], k), 4)

(* What the program did to its data, told from the trace alone.            *)
InstrAt(k) == Behaviour[trace[k].insn]

Before(k, op) == {j \in 1 .. k - 1 : InstrAt(j).op = op}

RegBefore(k) == LET loads == Before(k, "load") IN IF loads = {} THEN 0 ELSE trace[Max(loads)].wdata

ByteBefore(k, a) ==
    LET stores == {j \in Before(k, "store") : a - InstrAt(j).addr \in 0 .. InstrAt(j).width - 1}
    IN  IF stores = {} THEN Image(file.data)[a]
        ELSE LET j == Max(stores) IN Digit(RegBefore(j), a - InstrAt(j).addr)

Told(a) == ByteBefore(Len(trace) + 1, a)

(* The store at the pc has been made and has no row: an exception came     *)
(* between, which is only possible at the end of the program memory.       *)
StoreWithoutRow ==
    /\ driver = "cli" /\ at = "ended" /\ status = 1
    /\ Executable /\ Instr.op = "store" /\ ~InRange((pc + 4) % AddressSpace, 4)
    /\ memory.data = [a \in 0 .. MemBytes - 1 |->
                         IF a - Instr.addr \in 0 .. Instr.width - 1
                         THEN Digit(RegBefore(Len(trace) + 1), a - Instr.addr) ELSE Told(a)]

(* A load of any width and alignment gives, byte by byte, what the last    *)
(* store to that byte wrote, or what the data file has there; the bytes    *)
(* above are the sign of the highest one or zero.  The whole data memory   *)
(* is what the trace says, also after an exception, but for one store: a   *)
(* step that throws leaves nothing else behind.                            *)
LoadsSeeStores ==
    /\ \A k \in Before(Len(trace) + 1, "load") :
         LET i == InstrAt(k)
             top == ByteBefore(k, i.addr + i.width - 1)
             fill == IF i.signed /\ 2 * top >= ByteSpace THEN ByteSpace - 1 ELSE 0
         IN  \A n \in 0 .. 3 :
                Digit(trace[k].wdata, n) =
                    IF n < i.width THEN ByteBefore(k, i.addr + n) ELSE fill
    /\ trace # << >> =>
         memory.data = [a \in 0 .. MemBytes - 1 |-> Told(a)] \/ StoreWithoutRow

(* A halting instruction is the last that retires.  The SystemC output and *)
(* the request to stop appear with it and not without it, and a process    *)
(* ends with 0 only after it or without having loaded anything.            *)
HaltIsFinal ==
    /\ \A k \in DOMAIN trace : InstrAt(k).op = "halt" => k = Len(trace)
    /\ driver = "systemc" =>
         signal = stop /\ (stop <=> \E k \in DOMAIN trace : InstrAt(k).op = "halt")
    /\ status = 0 => \/ trace # << >> /\ InstrAt(Len(trace)).op = "halt"
                     \/ memory.program = Empty /\ trace = << >>
=============================================================================
