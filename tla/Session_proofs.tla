--------------------------- MODULE Session_proofs ---------------------------
(***************************************************************************)
(* HaltIsFinal, LoadedAsWritten and LoadsSeeStores for every memory, pair  *)
(* of files, behaviour of the words and number of clock edges.             *)
(***************************************************************************)
EXTENDS Session, FiniteSetTheorems, SequenceTheorems, WellFoundedInduction, TLAPS

(* The last retired instruction halts.                                     *)
LastHalts == trace # << >> /\ InstrAt(Len(trace)).op = "halt"

(* Before the run nothing has retired; from then on halted, and in the     *)
(* SystemC driver the output and the stop, tell what retired last.         *)
HaltInvariant ==
    /\ \E Rows : trace \in Seq(Rows)
    /\ halted \in BOOLEAN /\ signal \in BOOLEAN /\ stop \in BOOLEAN
    /\ halted = LastHalts
    /\ \A k \in DOMAIN trace : InstrAt(k).op = "halt" => k = Len(trace)
    /\ driver = "systemc" => signal = stop /\ stop = halted
    /\ at \in {"main", "load"} => trace = << >>
    /\ at = "main" => memory.program = Empty
    /\ at = "print" => halted
    /\ at # "ended" => status = Running
    /\ status = 0 => halted \/ (memory.program = Empty /\ trace = << >>)

LEMMA HaltInit == Init => HaltInvariant
<1> SUFFICES ASSUME Init PROVE HaltInvariant
    OBVIOUS
<1>1. trace \in Seq({}) /\ DOMAIN trace = {}
    BY DEF Init
<1> QED
    BY <1>1 DEF Init, HaltInvariant, LastHalts, Running

(* A step that retires an instruction, from a CPU that has not halted.     *)
LEMMA HaltRetires ==
    ASSUME HaltInvariant, ~halted, Retires
    PROVE  /\ \E Rows : trace' \in Seq(Rows)
           /\ halted' \in BOOLEAN
           /\ halted' = LastHalts'
           /\ trace' # << >>
           /\ \A k \in DOMAIN trace' : InstrAt(k)'.op = "halt" => k = Len(trace')
<1> DEFINE row == [pc |-> pc, insn |-> Word,
                   wdata |-> IF Instr.op = "load" THEN Loaded ELSE 0]
<1>1. PICK Rows : trace \in Seq(Rows)
    BY DEF HaltInvariant
<1>2. trace' = Append(trace, row) /\ halted' = (Instr.op = "halt")
    BY DEF Retires
<1>3. row.insn = Word
    OBVIOUS
<1> HIDE DEF row
<1>4. trace' \in Seq(Rows \cup {row})
    BY <1>1, <1>2
<1>5. /\ Len(trace') = Len(trace) + 1 /\ Len(trace) \in Nat
      /\ DOMAIN trace = 1 .. Len(trace) /\ DOMAIN trace' = 1 .. Len(trace) + 1
      /\ trace'[Len(trace) + 1] = row
      /\ \A k \in DOMAIN trace : trace'[k] = trace[k]
    BY <1>1, <1>2
<1>6. InstrAt(Len(trace))' = Instr
    BY <1>3, <1>5 DEF InstrAt, Instr
<1>7. ASSUME NEW k \in DOMAIN trace', InstrAt(k)'.op = "halt", k # Len(trace')
      PROVE  FALSE
    <2>1. k \in DOMAIN trace /\ InstrAt(k)' = InstrAt(k)
        BY <1>5, <1>7 DEF InstrAt
    <2>2. k = Len(trace) /\ trace # << >>
        BY <1>5, <1>7, <2>1 DEF HaltInvariant
    <2> QED
        BY <1>7, <2>1, <2>2 DEF HaltInvariant, LastHalts
<1>8. trace' # << >>
    BY <1>5
<1> QED
    BY <1>2, <1>4, <1>6, <1>7, <1>8 DEF LastHalts

LEMMA HaltStep == HaltInvariant /\ [Next]_vars => HaltInvariant'
<1> SUFFICES ASSUME HaltInvariant, [Next]_vars PROVE HaltInvariant'
    OBVIOUS
<1>1. CASE EndsEarly
    BY <1>1 DEF EndsEarly, Ends, Throws, HaltInvariant, LastHalts, InstrAt, loader, cpu, Running
<1>2. CASE Constructed
    BY <1>2 DEF Constructed, HaltInvariant, LastHalts, InstrAt, loader, cpu, Running
<1>3. CASE Directive
    BY <1>3 DEF Directive, Reading, HaltInvariant, LastHalts, InstrAt, cpu, Running
<1>4. CASE Write
    BY <1>4 DEF Write, Reading, HaltInvariant, LastHalts, InstrAt, Running
<1>5. CASE Refuse
    BY <1>5 DEF Refuse, Reading, Throws, Ends, HaltInvariant, LastHalts, InstrAt, loader, cpu, Running
<1>6. CASE FileEnds
    BY <1>6 DEF FileEnds, HaltInvariant, LastHalts, InstrAt, cpu, Running
<1>7. CASE RunSteps
    <2>1. CASE ~Executable /\ Throws /\ UNCHANGED cpu
        BY <1>7, <2>1 DEF RunSteps, Throws, Ends, HaltInvariant, LastHalts, InstrAt, cpu, Running
    <2>2. CASE Throws /\ UNCHANGED <<pc, halted, reg, trace>>
        BY <1>7, <2>2 DEF RunSteps, Throws, Ends, HaltInvariant, LastHalts, InstrAt, Running
    <2>3. CASE Retires /\ UNCHANGED <<at, status>>
        <3>1. /\ driver' = driver /\ driver = "cli" /\ at = "run" /\ ~halted
              /\ signal' = signal /\ stop' = stop
            BY <1>7 DEF RunSteps
        <3>2. status' = Running /\ at' = "run"
            BY <2>3, <3>1 DEF HaltInvariant
        <3> QED
            BY <2>3, <3>1, <3>2, HaltRetires DEF HaltInvariant, Running
    <2> QED
        BY <1>7, <2>1, <2>2, <2>3 DEF RunSteps
<1>8. CASE RunReturns
    BY <1>8 DEF RunReturns, HaltInvariant, LastHalts, InstrAt, cpu, Running
<1>9. CASE Tick
    <2>1. driver = "systemc" /\ driver' = driver /\ at = "run"
        BY <1>9 DEF Tick
    <2>2. CASE halted /\ signal' = TRUE /\ stop' = TRUE /\ UNCHANGED <<cpu, at, status>>
        BY <2>1, <2>2 DEF HaltInvariant, LastHalts, InstrAt, cpu, Running
    <2>3. CASE ~halted /\ ~Executable /\ Throws /\ UNCHANGED <<cpu, signal, stop>>
        BY <2>1, <2>3 DEF Throws, Ends, HaltInvariant, LastHalts, InstrAt, cpu, Running
    <2>4. CASE /\ ~halted /\ Retires
               /\ signal' = (signal \/ halted') /\ stop' = (stop \/ halted')
               /\ UNCHANGED <<at, status>>
        <3>1. signal = FALSE /\ stop = FALSE
            BY <2>1, <2>4 DEF HaltInvariant
        <3>2. halted' \in BOOLEAN
            BY <2>4, HaltRetires
        <3>3. signal' = halted' /\ stop' = halted'
            BY <2>4, <3>1, <3>2
        <3>4. status' = Running /\ at' = "run"
            BY <2>1, <2>4 DEF HaltInvariant
        <3> QED
            BY <2>1, <2>4, <3>2, <3>3, <3>4, HaltRetires DEF HaltInvariant, Running
    <2> QED
        BY <1>9, <2>1, <2>2, <2>3, <2>4 DEF Tick
<1>10. CASE SimulationStops
    BY <1>10 DEF SimulationStops, HaltInvariant, LastHalts, InstrAt, loader, cpu, Running
<1>11. CASE Prints
    BY <1>11 DEF Prints, Ends, Throws, HaltInvariant, LastHalts, InstrAt, loader, cpu, Running
<1>12. CASE UNCHANGED vars
    BY <1>12 DEF vars, HaltInvariant, LastHalts, InstrAt, Running
<1> QED
    BY <1>1, <1>2, <1>3, <1>4, <1>5, <1>6, <1>7, <1>8, <1>9, <1>10, <1>11, <1>12 DEF Next

(* No instruction retires after the one that halts, the SystemC output and *)
(* the stop come with it, and a process that ends with 0 after loading has *)
(* halted: whatever the files, the memory size and the order of the edges. *)
THEOREM HaltEndsTheRun == Spec => []HaltIsFinal
<1>1. HaltInvariant => HaltIsFinal
    <2> SUFFICES ASSUME HaltInvariant PROVE HaltIsFinal
        OBVIOUS
    <2>1. DOMAIN trace = 1 .. Len(trace) /\ Len(trace) \in Nat /\ (trace # << >> <=> Len(trace) # 0)
        BY DEF HaltInvariant
    <2>2. LastHalts <=> \E k \in DOMAIN trace : InstrAt(k).op = "halt"
        BY <2>1 DEF LastHalts, HaltInvariant
    <2> QED
        BY <2>2 DEF HaltInvariant, HaltIsFinal, LastHalts
<1> QED
    BY <1>1, HaltInit, HaltStep, PTL DEF Spec

-----------------------------------------------------------------------------
(* Quotients and remainders.                                               *)

Pos == Nat \ {0}

LEMMA DivMod ==
    ASSUME NEW x \in Nat, NEW d \in Pos
    PROVE  \E q, m \in Nat : /\ x = (q * d) + m /\ m < d
                             /\ q = x \div d /\ m = x % d
BY DEF Pos

LEMMA DivUnique ==
    ASSUME NEW q \in Nat, NEW d \in Pos, NEW r \in Nat, r < d
    PROVE  ((q * d) + r) \div d = q /\ ((q * d) + r) % d = r
BY DEF Pos

LEMMA Product ==
    ASSUME NEW a \in Nat, NEW b \in Nat, NEW c \in Nat
    PROVE  /\ a * b \in Nat /\ a * b = b * a /\ (a + b) * c = (a * c) + (b * c)
           /\ (a * b) * c = a * (b * c)
OBVIOUS

LEMMA SameRemainder ==
    ASSUME NEW x \in Nat, NEW d \in Pos, NEW k \in Nat
    PROVE  (x + (k * d)) % d = x % d
<1>1. PICK q, m \in Nat : x = (q * d) + m /\ m < d /\ m = x % d
    BY DivMod
<1>2. (q + k) * d = (q * d) + (k * d) /\ q * d \in Nat /\ k * d \in Nat /\ q + k \in Nat
    BY Product DEF Pos
<1>3. x + (k * d) = ((q + k) * d) + m
    <2>2. PICK a, b \in Nat : a = q * d /\ b = k * d
       BY <1>2
    <2>3. x = a + m /\ (q + k) * d = a + b
        BY <1>1, <1>2, <2>2
    <2> QED BY <2>2, <2>3
<1>4. (((q + k) * d) + m) % d = m
    BY <1>1, <1>2, DivUnique
<1> QED
    BY <1>1, <1>3, <1>4

LEMMA ModPlus ==
    ASSUME NEW x \in Nat, NEW d \in Pos, NEW y \in Nat
    PROVE  ((x % d) + y) % d = (x + y) % d
<1>1. PICK q, m \in Nat : x = (q * d) + m /\ m = x % d
    BY DivMod
<1>2. PICK a \in Nat : a = q * d
    BY Product DEF Pos
<1>3. x + y = (m + y) + (q * d)
    BY <1>1, <1>2
<1> QED
    BY <1>1, <1>3, SameRemainder

LEMMA ModTimes ==
    ASSUME NEW x \in Nat, NEW d \in Pos
    PROVE  ((x % d) * 4) % d = (4 * x) % d
<1>1. PICK q, m \in Nat : x = (q * d) + m /\ m = x % d
    BY DivMod
<1>2. PICK a \in Nat : a = q * d
    BY Product DEF Pos
<1>3. (4 * q) * d = 4 * a
    BY <1>2, Product DEF Pos
<1>4. 4 * x = (m * 4) + ((4 * q) * d)
    BY <1>1, <1>2, <1>3
<1>5. m * 4 \in Nat /\ 4 * q \in Nat
    OBVIOUS
<1>6. ((m * 4) + ((4 * q) * d)) % d = (m * 4) % d
    BY <1>5, SameRemainder
<1> QED
    BY <1>1, <1>4, <1>6

LEMMA DivDiv ==
    ASSUME NEW x \in Nat, NEW c \in Pos, NEW d \in Pos
    PROVE  x \div (c * d) = (x \div c) \div d
<1>1. PICK q, m \in Nat : x = (q * c) + m /\ m < c /\ q = x \div c
    BY DivMod
<1>2. PICK p, r \in Nat : q = (p * d) + r /\ r < d /\ p = q \div d
    BY DivMod
<1>3. c * d \in Pos /\ r * c \in Nat /\ p * (c * d) \in Nat
    BY DEF Pos
<1>4. q * c = (p * (c * d)) + (r * c)
    <2>1. q * c = ((p * d) * c) + (r * c)
        BY <1>2, Product DEF Pos
    <2>2. (p * d) * c = p * (c * d)
        BY Product DEF Pos
    <2> QED
        BY <2>1, <2>2
<1>5. PICK e, f \in Nat : e = p * (c * d) /\ f = r * c
    BY <1>3
<1>6. x = e + (f + m)
    BY <1>1, <1>4, <1>5
<1>7. f + m < c * d
    <2>1. r + 1 <= d /\ c \in Nat /\ d \in Nat
        BY <1>2 DEF Pos
    <2>2. PICK s \in Nat : d = (r + 1) + s
        <3>1. d - (r + 1) \in Nat
          BY <2>1
        <3> QED BY <3>1, <2>1
    <2>3. d * c = (((r + 1) * c) + (s * c)) /\ (r + 1) * c = (r * c) + c
        BY <2>1, <2>2, Product
    <2>4. PICK g, h \in Nat : g = s * c /\ h = c * d
        BY <1>3, <2>1, Product DEF Pos
    <2>5. h = f + c + g
        BY <1>5, <2>1, <2>3, <2>4, Product
    <2> QED
        BY <1>1, <2>1, <2>4, <2>5
<1>8. ((p * (c * d)) + (f + m)) \div (c * d) = p
    BY <1>3, <1>7, DivUnique
<1> QED
    BY <1>1, <1>2, <1>5, <1>6, <1>8

(* The first digits of a number are those of its remainder.                *)
LEMMA DigitOfRest ==
    ASSUME NEW v \in Nat, NEW b \in Pos, NEW c \in Pos, NEW d \in Pos
    PROVE  ((v % (c * (b * d))) \div c) % b = (v \div c) % b
<1>1. b * d \in Pos /\ c * (b * d) \in Pos
    <2>1. \A x, y \in Pos : x * y \in Pos
        BY DEF Pos
    <2> QED
        BY <2>1
<1>2. PICK q, m \in Nat : v = (q * (c * (b * d))) + m /\ m = v % (c * (b * d))
    BY <1>1, DivMod
<1>3. PICK p, r \in Nat : m = (p * c) + r /\ r < c /\ p = m \div c
    BY DivMod
<1>4. q * (c * (b * d)) = (q * (b * d)) * c /\ q * (b * d) \in Nat
    BY <1>1, Product DEF Pos
<1>5. ((q * (b * d)) + p) * c = ((q * (b * d)) * c) + (p * c)
    BY <1>4, Product DEF Pos
<1>6. PICK e, f \in Nat : e = (q * (b * d)) * c /\ f = p * c
    BY <1>4, Product DEF Pos
<1>7. v = (((q * (b * d)) + p) * c) + r
    <2>1. PICK w \in Nat : w = q * (c * (b * d))
        BY <1>4, <1>6
    <2>3. v = w + (f + r) /\ w = e
        BY <1>2, <1>3, <1>4, <1>6, <2>1
    <2>2. ((q * (b * d)) + p) * c = e + f
        BY <1>5, <1>6
    <2> QED
        BY <2>2, <2>3
<1>8. v \div c = (q * (b * d)) + p
    <2>1. (q * (b * d)) + p \in Nat
        BY <1>4
    <2> QED
        BY <1>3, <1>7, <2>1, DivUnique
<1>9. (q * (b * d)) + p = p + ((q * d) * b)
    <2>1. q * (b * d) = (q * d) * b
        BY Product DEF Pos
    <2> QED
        BY <1>4, <2>1
<1>10. (p + ((q * d) * b)) % b = p % b
    <2>1. q * d \in Nat
        BY Product DEF Pos
    <2> QED
        BY <2>1, SameRemainder
<1> QED
    BY <1>2, <1>3, <1>8, <1>9, <1>10

LEMMA Weights ==
    /\ Weight(0) = 1 /\ Weight(1) = ByteSpace /\ \A n \in 0 .. 4 : Weight(n) \in Pos
    /\ \A n \in 0 .. 3 : Weight(n + 1) = Weight(n) * ByteSpace
    /\ \A n \in 0 .. 3 : WordSpace = Weight(n) * (ByteSpace * Weight(3 - n))
<1>1. ByteSpace \in Pos
    BY SessionAssumption DEF Pos
<1>2. PICK half : half = ByteSpace * ByteSpace
    OBVIOUS
<1>3. half \in Pos /\ half * ByteSpace \in Pos /\ half * half \in Pos
    BY <1>1, <1>2 DEF Pos
<1>4. /\ Weight(0) = 1 /\ Weight(1) = ByteSpace /\ Weight(2) = half
      /\ Weight(3) = half * ByteSpace /\ Weight(4) = half * half /\ WordSpace = half * half
    BY <1>2 DEF Weight, WordSpace
<1>5. /\ half * half = (half * ByteSpace) * ByteSpace
      /\ half * half = ByteSpace * (half * ByteSpace)
      /\ half * half = half * (ByteSpace * ByteSpace)
      /\ half * half = 1 * (ByteSpace * (half * ByteSpace))
      /\ half * half = ByteSpace * (ByteSpace * half)
      /\ half * half = (half * ByteSpace) * (ByteSpace * 1)
      /\ 1 * ByteSpace = ByteSpace
    BY <1>1, <1>2, <1>3, Product DEF Pos
<1>6. \A n \in 0 .. 4 : Weight(n) \in Pos
    <2>1. \A n \in 0 .. 4 : n = 0 \/ n = 1 \/ n = 2 \/ n = 3 \/ n = 4
        OBVIOUS
    <2> QED
        BY <1>1, <1>3, <1>4, <2>1 DEF Pos
<1>7. \A n \in 0 .. 3 : n = 0 \/ n = 1 \/ n = 2 \/ n = 3
    OBVIOUS
<1>8. \A n \in 0 .. 3 : Weight(n + 1) = Weight(n) * ByteSpace
    BY <1>2, <1>4, <1>5, <1>7
<1>9. \A n \in 0 .. 3 : WordSpace = Weight(n) * (ByteSpace * Weight(3 - n))
    BY <1>2, <1>4, <1>5, <1>7
<1> QED
    BY <1>4, <1>6, <1>8, <1>9

LEMMA DigitOfWord ==
    ASSUME NEW v \in Nat, NEW n \in 0 .. 3
    PROVE  Digit(v % WordSpace, n) = Digit(v, n)
<1>1. /\ ByteSpace \in Pos /\ Weight(n) \in Pos /\ Weight(3 - n) \in Pos
      /\ WordSpace = Weight(n) * (ByteSpace * Weight(3 - n))
    <2>1. 3 - n \in 0 .. 4 /\ n \in 0 .. 4
        OBVIOUS
    <2> QED
        BY <2>1, Weights, SessionAssumption DEF Pos
<1> QED
    BY <1>1, DigitOfRest DEF Digit

LEMMA Counted ==
    ASSUME NEW a \in Int, NEW p \in Nat, NEW w \in Nat
    PROVE  a \in p .. p + w - 1 <=> a - p \in 0 .. w - 1
OBVIOUS

LEMMA Wrapped == ASSUME NEW x \in Nat PROVE (x % AddressSpace) \in Nat
<1>1. PICK d \in Nat \ {0} : d = AddressSpace
    BY SessionAssumption
<1>2. (x % d) \in Nat
    BY <1>1
<1> QED
    BY <1>1, <1>2

-----------------------------------------------------------------------------
(* Tokens and places.                                                      *)

TokenSet == [kind : {"at", "word", "bad"}, value : Nat]

TokenList == Seq(TokenSet)

LEMMA TokensOfList ==
    ASSUME NEW t \in TokenList
    PROVE  /\ Len(t) \in Nat /\ DOMAIN t = 1 .. Len(t)
           /\ \A k \in DOMAIN t : t[k] \in TokenSet /\ t[k].value \in Nat
<1>1. Len(t) \in Nat /\ DOMAIN t = 1 .. Len(t) /\ \A k \in DOMAIN t : t[k] \in TokenSet
    BY DEF TokenList
<1> QED
    BY <1>1 DEF TokenSet

Below == {p \in Nat \X Nat : p[1] < p[2]}

LEMMA LeastNatural ==
    ASSUME NEW T \in SUBSET Nat, T # {}
    PROVE  \E x \in T : \A y \in T : x <= y
<1>1. IsWellFoundedOn(Below, Nat)
    BY NatLessThanWellFounded, Zenon DEF OpToRel, Below
<1>2. PICK x \in T : \A y \in T : <<y, x>> \notin Below
    BY <1>1, WFMin
<1>3. \A y \in T : ~(y < x)
    BY <1>2 DEF Below
<1> QED
    BY <1>2, <1>3

LEMMA GreatestPlace ==
    ASSUME NEW k \in Nat, NEW T \in SUBSET (1 .. k), T # {}
    PROVE  \E x \in T : \A y \in T : y <= x
<1> DEFINE R == {k - x : x \in T}
<1>1. R \in SUBSET Nat /\ R # {}
    <2>1. \A x \in T : k - x \in Nat
        OBVIOUS
    <2> QED
        BY <2>1
<1>2. PICK r \in R : \A y \in R : r <= y
    BY <1>1, LeastNatural
<1>3. PICK x \in T : r = k - x
    OBVIOUS
<1>4. \A y \in T : k - x <= k - y
    BY <1>2, <1>3
<1> QED
    BY <1>4

LEMMA GreatestIsMax ==
    ASSUME NEW k \in Nat, NEW T \in SUBSET (1 .. k), T # {}
    PROVE  Max(T) \in T /\ \A y \in T : y <= Max(T)
<1>1. \E x \in T : \A y \in T : x >= y
    BY GreatestPlace
<1>2. Max(T) \in T /\ \A y \in T : Max(T) >= y
    BY <1>1 DEF Max
<1> QED
    BY <1>2

LEMMA OriginInPlace ==
    ASSUME NEW t, NEW k \in Nat
    PROVE  /\ Origin(t, k) \in 0 .. k
           /\ Between(t, 1, k, "at") = {} => Origin(t, k) = 0
           /\ \A j \in Between(t, 1, k, "at") : j <= Origin(t, k)
<1>1. Between(t, 1, k, "at") \in SUBSET (1 .. k)
    BY DEF Between
<1>2. CASE Between(t, 1, k, "at") # {}
    <2>1. Origin(t, k) = Max(Between(t, 1, k, "at"))
        BY <1>2 DEF Origin
    <2>2. Max(Between(t, 1, k, "at")) \in 1 .. k
        BY <1>1, <1>2, GreatestIsMax
    <2>3. \A j \in Between(t, 1, k, "at") : j <= Max(Between(t, 1, k, "at"))
        BY <1>1, <1>2, GreatestIsMax
    <2> QED
        BY <1>2, <2>1, <2>2, <2>3
<1> QED
    BY <1>2 DEF Origin

LEMMA OriginBefore ==
    ASSUME NEW t, NEW n \in Nat, t[n + 1].kind # "at"
    PROVE  Origin(t, n + 1) = Origin(t, n)
<1>1. Between(t, 1, n + 1, "at") = Between(t, 1, n, "at")
    BY DEF Between
<1> QED
    BY <1>1 DEF Origin

(* Where the word after the first n tokens goes.                           *)
Ahead(t, n) ==
    LET o == Origin(t, n)
    IN  (4 * (Cardinality(Between(t, o + 1, n, "word")) + IF o = 0 THEN 0 ELSE t[o].value))
            % AddressSpace

LEMMA PlaceIsAhead ==
    ASSUME NEW t, NEW n \in Nat, t[n + 1].kind # "at"
    PROVE  PlaceOf(t, n + 1) = Ahead(t, n)
<1>1. (n + 1) - 1 = n
    OBVIOUS
<1> QED
    BY <1>1, OriginBefore DEF PlaceOf, Ahead

LEMMA PlaceOfPrefix ==
    ASSUME NEW s, NEW t, NEW k \in Nat, \A j \in 1 .. k : s[j] = t[j]
    PROVE  PlaceOf(s, k) = PlaceOf(t, k)
<1>1. Between(s, 1, k, "at") = Between(t, 1, k, "at")
    BY DEF Between
<1>2. Origin(s, k) = Origin(t, k)
    BY <1>1 DEF Origin
<1>3. PICK o : o = Origin(s, k)
    OBVIOUS
<1>4. o \in 0 .. k
    BY <1>3, OriginInPlace
<1>5. Between(s, o + 1, k - 1, "word") = Between(t, o + 1, k - 1, "word")
    BY <1>4 DEF Between
<1>6. o # 0 => s[o] = t[o]
    BY <1>4
<1> QED
    BY <1>2, <1>3, <1>5, <1>6 DEF PlaceOf

LEMMA AheadOfStart ==
    ASSUME NEW t PROVE Ahead(t, 0) = 0
<1>1. Between(t, 1, 0, "at") = {} /\ Between(t, 0 + 1, 0, "word") = {}
    BY DEF Between
<1>2. Origin(t, 0) = 0
    BY <1>1, OriginInPlace
<1>3. Cardinality({}) = 0
    BY FS_EmptySet
<1>4. 0 % AddressSpace = 0
    BY SessionAssumption
<1>5. Ahead(t, 0) = (4 * (0 + 0)) % AddressSpace
    BY <1>1, <1>2, <1>3 DEF Ahead
<1> QED
    BY <1>4, <1>5

LEMMA AheadAfterAt ==
    ASSUME NEW t, NEW n \in Nat, t[n + 1].kind = "at", t[n + 1].value \in Nat
    PROVE  Ahead(t, n + 1) = ((t[n + 1].value % AddressSpace) * 4) % AddressSpace
<1>1. Origin(t, n + 1) = n + 1
    <2>1. n + 1 \in Between(t, 1, n + 1, "at")
        BY DEF Between
    <2>2. Origin(t, n + 1) \in 0 .. n + 1 /\ n + 1 <= Origin(t, n + 1)
        BY <2>1, OriginInPlace
    <2> QED
        BY <2>2
<1>2. Between(t, (n + 1) + 1, n + 1, "word") = {}
    BY DEF Between
<1>3. Cardinality({}) = 0
    BY FS_EmptySet
<1>4. PICK v \in Nat : v = t[n + 1].value
    OBVIOUS
<1>5. Ahead(t, n + 1) = (4 * (0 + v)) % AddressSpace
    <2>1. PICK o \in Nat \ {0} : o = n + 1
        OBVIOUS
    <2> QED
        BY <1>1, <1>2, <1>3, <1>4, <2>1 DEF Ahead
<1>6. ((v % AddressSpace) * 4) % AddressSpace = (4 * v) % AddressSpace
    BY ModTimes, SessionAssumption DEF Pos
<1> QED
    BY <1>4, <1>5, <1>6

LEMMA AheadAfterWord ==
    ASSUME NEW t \in TokenList, NEW n \in Nat, n + 1 \in DOMAIN t, t[n + 1].kind = "word"
    PROVE  Ahead(t, n + 1) = (Ahead(t, n) + 4) % AddressSpace
<1>1. PICK o : o = Origin(t, n) /\ o = Origin(t, n + 1)
    BY OriginBefore
<1>2. o \in 0 .. n
    BY <1>1, OriginInPlace
<1>3. PICK words : words = Between(t, o + 1, n, "word")
    OBVIOUS
<1>4. Between(t, o + 1, n + 1, "word") = words \cup {n + 1} /\ n + 1 \notin words
    BY <1>2, <1>3 DEF Between
<1>5. IsFiniteSet(words)
    <2>1. IsFiniteSet(o + 1 .. n) /\ words \subseteq o + 1 .. n
        BY <1>2, <1>3, FS_Interval DEF Between
    <2> QED
        BY <2>1, FS_Subset
<1>6. PICK c \in Nat : c = Cardinality(words) /\ c + 1 = Cardinality(words \cup {n + 1})
    BY <1>4, <1>5, FS_CardinalityType, FS_AddElement
<1>7. PICK base \in Nat : base = IF o = 0 THEN 0 ELSE t[o].value
    <2>1. CASE o # 0
        <3>1. o \in DOMAIN t
            BY <1>2, <2>1, TokensOfList
        <3> QED
            BY <2>1, <3>1, TokensOfList
    <2> QED
        BY <2>1
<1>8. /\ Ahead(t, n) = (4 * (c + base)) % AddressSpace
      /\ Ahead(t, n + 1) = (4 * ((c + 1) + base)) % AddressSpace
    BY <1>1, <1>3, <1>4, <1>6, <1>7 DEF Ahead
<1>9. PICK x \in Nat : x = 4 * (c + base) /\ x + 4 = 4 * ((c + 1) + base)
    OBVIOUS
<1>10. ((x % AddressSpace) + 4) % AddressSpace = (x + 4) % AddressSpace
    BY ModPlus, SessionAssumption DEF Pos
<1> QED
    BY <1>8, <1>9, <1>10

-----------------------------------------------------------------------------
(* Images.                                                                 *)

Here(t, a) == {k \in DOMAIN t : t[k].kind = "word" /\ a - PlaceOf(t, k) \in 0 .. 3}

ByteOf(t, a) ==
    IF Here(t, a) = {} THEN 0
    ELSE Digit(t[Max(Here(t, a))].value, a - PlaceOf(t, Max(Here(t, a))))

LEMMA ImageBytes ==
    ASSUME NEW t PROVE Image(t) = [a \in 0 .. MemBytes - 1 |-> ByteOf(t, a)]
BY Zenon DEF Image, ByteOf, Here

LEMMA ImageOfNothing == Image(<< >>) = Empty
<1>1. DOMAIN << >> = {}
    OBVIOUS
<1>2. \A a \in 0 .. MemBytes - 1 : ByteOf(<< >>, a) = 0
    BY <1>1 DEF ByteOf, Here
<1> QED
    BY <1>2, ImageBytes DEF Empty

(* u is s and one token more.                                              *)
OneMore(s, u) ==
    /\ s \in TokenList /\ u \in TokenList /\ Len(u) = Len(s) + 1
    /\ \A k \in DOMAIN s : u[k] = s[k]

LEMMA HereBefore ==
    ASSUME NEW s, NEW u, OneMore(s, u), NEW a
    PROVE  /\ \A k \in DOMAIN s : PlaceOf(u, k) = PlaceOf(s, k)
           /\ Here(u, a) \cap DOMAIN s = Here(s, a)
           /\ Here(u, a) \subseteq DOMAIN s \cup {Len(s) + 1}
           /\ Here(s, a) # {} => Max(Here(s, a)) \in DOMAIN s
<1>1. /\ Len(s) \in Nat /\ DOMAIN s = 1 .. Len(s) /\ DOMAIN u = 1 .. Len(s) + 1
      /\ \A k \in DOMAIN s : u[k] = s[k]
    BY TokensOfList DEF OneMore
<1>2. \A k \in DOMAIN s : PlaceOf(u, k) = PlaceOf(s, k)
    BY <1>1, PlaceOfPrefix
<1>3. Here(s, a) \in SUBSET (1 .. Len(s))
    BY <1>1 DEF Here
<1>4. Here(s, a) # {} => Max(Here(s, a)) \in DOMAIN s
    BY <1>1, <1>3, GreatestIsMax
<1>5. Here(u, a) \cap DOMAIN s = Here(s, a)
    BY <1>1, <1>2 DEF Here
<1>6. Here(u, a) \subseteq DOMAIN s \cup {Len(s) + 1}
    BY <1>1 DEF Here
<1> QED
    BY <1>2, <1>4, <1>5, <1>6

LEMMA ByteKept ==
    ASSUME NEW s, NEW u, OneMore(s, u), NEW a, Len(s) + 1 \notin Here(u, a)
    PROVE  ByteOf(u, a) = ByteOf(s, a)
<1>1. Here(u, a) = Here(s, a)
    BY HereBefore
<1>2. CASE Here(s, a) # {}
    <2>1. PICK k \in DOMAIN s : k = Max(Here(s, a))
        BY <1>2, HereBefore
    <2>2. u[k] = s[k] /\ PlaceOf(u, k) = PlaceOf(s, k)
        BY HereBefore DEF OneMore
    <2> QED
        BY <1>1, <2>1, <2>2 DEF ByteOf
<1> QED
    BY <1>1, <1>2 DEF ByteOf

LEMMA ImageKept ==
    ASSUME NEW s, NEW u, OneMore(s, u), u[Len(s) + 1].kind # "word"
    PROVE  Image(u) = Image(s)
<1>1. \A a : Len(s) + 1 \notin Here(u, a)
    BY DEF Here
<1>2. \A a \in 0 .. MemBytes - 1 : ByteOf(u, a) = ByteOf(s, a)
    BY <1>1, ByteKept
<1> QED
    BY <1>2, ImageBytes

LEMMA ImageWritten ==
    ASSUME NEW s, NEW u, OneMore(s, u), u[Len(s) + 1].kind = "word",
           NEW place \in Nat, place = PlaceOf(u, Len(s) + 1)
    PROVE  Image(u) = WriteBytes(Image(s), place, 4, u[Len(s) + 1].value % WordSpace)
<1>1. PICK n \in Nat : n = Len(s) + 1
    BY TokensOfList DEF OneMore
<1>2. n \in DOMAIN u /\ u[n].value \in Nat /\ u[n].kind = "word"
    BY <1>1, TokensOfList DEF OneMore
<1>3. ASSUME NEW a \in 0 .. MemBytes - 1
      PROVE  ByteOf(u, a) = IF a \in place .. place + 4 - 1
                            THEN Digit(u[n].value % WordSpace, a - place)
                            ELSE ByteOf(s, a)
    <2>0. a \in Int /\ (a - place \in 0 .. 3 <=> a \in place .. place + 4 - 1)
        BY SessionAssumption
    <2>1. CASE a \in place .. place + 4 - 1
        <3>1. n \in Here(u, a)
            BY <1>1, <1>2, <2>0, <2>1 DEF Here
        <3>2. Here(u, a) \in SUBSET (1 .. n)
            <4>1. DOMAIN s = 1 .. n - 1
                BY <1>1, TokensOfList DEF OneMore
            <4> QED
                BY <1>1, <4>1, HereBefore
        <3>3. Max(Here(u, a)) = n
            <4>1. Max(Here(u, a)) \in Here(u, a) /\ n <= Max(Here(u, a))
                BY <3>1, <3>2, GreatestIsMax
            <4> QED
                BY <3>2, <4>1
        <3>4. ByteOf(u, a) = Digit(u[n].value, a - place)
            BY <1>1, <3>1, <3>3 DEF ByteOf
        <3>5. Digit(u[n].value % WordSpace, a - place) = Digit(u[n].value, a - place)
            BY <1>2, <2>0, <2>1, DigitOfWord
        <3> QED
            BY <2>1, <3>4, <3>5
    <2>2. CASE a \notin place .. place + 4 - 1
        <3>1. n \notin Here(u, a)
            BY <1>1, <2>0, <2>2 DEF Here
        <3> QED
            BY <1>1, <2>2, <3>1, ByteKept
    <2> QED
        BY <2>1, <2>2
<1>4. DOMAIN Image(s) = 0 .. MemBytes - 1
      /\ \A a \in 0 .. MemBytes - 1 : Image(s)[a] = ByteOf(s, a)
    BY ImageBytes
<1> QED
    BY <1>1, <1>3, <1>4, ImageBytes DEF WriteBytes

-----------------------------------------------------------------------------
(* The loader.                                                             *)

LEMMA Prefixes ==
    ASSUME NEW t \in TokenList, NEW n \in 0 .. Len(t)
    PROVE  /\ SubSeq(t, 1, n) \in TokenList /\ Len(SubSeq(t, 1, n)) = n
           /\ \A k \in 1 .. n : SubSeq(t, 1, n)[k] = t[k]
<1>1. /\ Len(t) \in Nat /\ n \in Nat /\ n \in Int /\ 1 \in Int
      /\ \A i \in 1 .. n : t[i] \in TokenSet
    BY TokensOfList
<1>2. /\ SubSeq(t, 1, n) \in Seq(TokenSet)
      /\ Len(SubSeq(t, 1, n)) = IF 1 <= n THEN n - 1 + 1 ELSE 0
      /\ \A i \in 1 .. n - 1 + 1 : SubSeq(t, 1, n)[i] = t[1 + i - 1]
    BY <1>1, SubSeqProperties
<1> QED
    BY <1>1, <1>2 DEF TokenList

LEMMA PrefixGrows ==
    ASSUME NEW t \in TokenList, NEW n \in Nat, n < Len(t)
    PROVE  /\ OneMore(SubSeq(t, 1, n), SubSeq(t, 1, n + 1))
           /\ SubSeq(t, 1, n + 1)[n + 1] = t[n + 1]
           /\ PlaceOf(SubSeq(t, 1, n + 1), n + 1) = PlaceOf(t, n + 1)
<1>1. n \in 0 .. Len(t) /\ n + 1 \in 0 .. Len(t)
    BY TokensOfList
<1>2. PICK s, u : s = SubSeq(t, 1, n) /\ u = SubSeq(t, 1, n + 1)
    OBVIOUS
<1>3. /\ s \in TokenList /\ Len(s) = n /\ \A k \in 1 .. n : s[k] = t[k]
      /\ u \in TokenList /\ Len(u) = n + 1 /\ \A k \in 1 .. n + 1 : u[k] = t[k]
    BY <1>1, <1>2, Prefixes
<1>4. OneMore(s, u)
    BY <1>3, TokensOfList DEF OneMore
<1>5. PlaceOf(u, n + 1) = PlaceOf(t, n + 1)
    BY <1>3, PlaceOfPrefix
<1> QED
    BY <1>2, <1>3, <1>4, <1>5

LEMMA PrefixEnds ==
    ASSUME NEW t \in TokenList
    PROVE  SubSeq(t, 1, 0) = << >> /\ SubSeq(t, 1, Len(t)) = t
<1>1. Len(t) \in Nat /\ Len(t) \in 0 .. Len(t)
    BY TokensOfList
<1>2. SubSeq(t, 1, 0) = << >>
    BY SubSeqEmpty
<1>3. PICK u : u = SubSeq(t, 1, Len(t))
    OBVIOUS
<1>4. u \in TokenList /\ Len(u) = Len(t) /\ \A k \in 1 .. Len(t) : u[k] = t[k]
    BY <1>1, <1>3, Prefixes
<1>5. u = t
    BY <1>4 DEF TokenList
<1> QED
    BY <1>2, <1>3, <1>5

(* The first n tokens of a file are numbers in their place.                *)
Fits(tokens, n) ==
    \A k \in 1 .. n : /\ tokens[k].kind # "bad"
                      /\ tokens[k].kind = "word" => InRange(PlaceOf(tokens, k), 4)

(* How far the files have been read, and what the memories hold of them.   *)
ReadSoFar ==
    /\ next \in 1 .. Len(Tokens) + 1 /\ addr \in Nat /\ addr = Ahead(Tokens, next - 1)
    /\ Fits(Tokens, next - 1)
    /\ loading = "data" => Fits(file.program, Len(file.program))

Holds ==
    /\ DOMAIN memory = {"program", "data"}
    /\ loading = "program" => /\ memory.program = Image(SubSeq(file.program, 1, next - 1))
                              /\ trace = << >> => memory.data = Empty
    /\ loading = "data" => /\ memory.program = Image(file.program)
                           /\ trace = << >> /\ at # "ended" =>
                                memory.data = Image(SubSeq(file.data, 1, next - 1))

AllRead == next = Len(Tokens) + 1 /\ (driver = "cli" => loading = "data")

LoadInvariant ==
    /\ file.program \in TokenList /\ file.data \in TokenList
    /\ loading \in {"program", "data"} /\ driver \in {"cli", "systemc"}
    /\ driver = "systemc" => loading = "program" /\ file.data = << >>
    /\ ReadSoFar /\ Holds
    /\ at \in {"main", "load"} => trace = << >>
    /\ at \in {"run", "print"} \/ trace # << >> => AllRead
    /\ \E Rows : trace \in Seq(Rows)
    /\ \A k \in DOMAIN trace : trace[k].insn = ReadBytes(Image(file.program), trace[k].pc, 4)

LEMMA LoadIsAsWritten == LoadInvariant => LoadedAsWritten
<1> SUFFICES ASSUME LoadInvariant PROVE LoadedAsWritten
    OBVIOUS
<1>1. /\ Len(file.program) \in Nat /\ DOMAIN file.program = 1 .. Len(file.program)
      /\ Len(file.data) \in Nat /\ DOMAIN file.data = 1 .. Len(file.data)
    BY TokensOfList DEF LoadInvariant
<1>2. trace = << >> /\ at # "ended" => memory[loading] = Image(SubSeq(Tokens, 1, next - 1))
    BY DEF LoadInvariant, Holds, Tokens
<1>3. ASSUME trace # << >>, NEW m \in {"program", "data"}, NEW k \in DOMAIN file[m]
      PROVE  /\ file[m][k].kind # "bad"
             /\ file[m][k].kind = "word" => InRange(PlaceOf(file[m], k), 4)
    <2>1. AllRead
        BY <1>3 DEF LoadInvariant
    <2>2. CASE loading = m
        BY <1>1, <1>3, <2>1, <2>2 DEF LoadInvariant, ReadSoFar, Fits, AllRead, Tokens
    <2>3. CASE loading = "data" /\ m = "program"
        BY <1>1, <1>3, <2>3 DEF LoadInvariant, ReadSoFar, Fits
    <2>4. CASE loading = "program" /\ m = "data"
        <3>1. file.data = << >>
            BY <2>1, <2>4 DEF AllRead, LoadInvariant
        <3> QED
            BY <1>3, <2>4, <3>1
    <2> QED
        BY <2>2, <2>3, <2>4 DEF LoadInvariant
<1> QED
    BY <1>2, <1>3 DEF LoadInvariant, Holds, LoadedAsWritten

LEMMA LoadInit == Init => LoadInvariant
<1> SUFFICES ASSUME Init PROVE LoadInvariant
    OBVIOUS
<1>1. file.program \in TokenList /\ file.data \in TokenList
    <2>1. << >> \in TokenList
        BY DEF TokenList
    <2>2. Programs \cup DataFiles \subseteq TokenList
        BY SessionAssumption DEF TokenList, TokenSet
    <2> QED
        BY <2>1, <2>2 DEF Init
<1>2. /\ loading = "program" /\ next = 1 /\ addr = 0 /\ trace = << >> /\ at = "main"
      /\ memory.program = Empty /\ memory.data = Empty /\ DOMAIN memory = {"program", "data"}
      /\ driver \in {"cli", "systemc"} /\ (driver = "systemc" => file.data = << >>)
    BY DEF Init
<1>3. trace \in Seq({}) /\ DOMAIN trace = {}
    BY <1>2
<1>4. ReadSoFar
    <2>1. next \in 1 .. Len(Tokens) + 1
        BY <1>1, <1>2, TokensOfList DEF Tokens
    <2>2. next - 1 = 0 /\ 1 .. 0 = {}
        BY <1>2
    <2> QED
        BY <1>2, <2>1, <2>2, AheadOfStart DEF ReadSoFar, Fits
<1>5. Holds
    <2>1. next - 1 = 0
        BY <1>2
    <2> QED
        BY <1>1, <1>2, <2>1, PrefixEnds, ImageOfNothing DEF Holds
<1> QED
    BY <1>1, <1>2, <1>3, <1>4, <1>5 DEF LoadInvariant

(* A token has been read that is in its place.                             *)
LEMMA TokenRead ==
    ASSUME LoadInvariant, at = "load", next <= Len(Tokens), next' = next + 1,
           UNCHANGED <<driver, file, at, loading, trace>>, addr' \in Nat,
           addr' = Ahead(Tokens, next), Token.kind # "bad",
           Token.kind = "word" => InRange(PlaceOf(Tokens, next), 4),
           DOMAIN memory' = {"program", "data"},
           \A m \in {"program", "data"} : m # loading => memory'[m] = memory[m],
           memory'[loading] = Image(SubSeq(Tokens, 1, next))
    PROVE  LoadInvariant'
<1>1. trace = << >> /\ next \in Nat /\ next - 1 \in Nat /\ Len(Tokens) \in Nat
    BY TokensOfList DEF LoadInvariant, ReadSoFar, Tokens
<1>2. next' - 1 = next
    BY <1>1
<1>3. Tokens' = Tokens
    BY DEF Tokens
<1>4. ReadSoFar'
    <2>1. next' \in 1 .. Len(Tokens) + 1
        BY <1>1
    <2>2. Fits(Tokens, next)
        <3>1. \A k \in 1 .. next : k = next \/ k \in 1 .. next - 1
            BY <1>1
        <3> QED
            BY <3>1 DEF LoadInvariant, ReadSoFar, Fits, Token
    <2> QED
        BY <1>2, <1>3, <2>1, <2>2 DEF LoadInvariant, ReadSoFar, Fits
<1>5. Holds'
    BY <1>1, <1>2 DEF LoadInvariant, Holds, Tokens
<1> QED
    BY <1>1, <1>4, <1>5 DEF LoadInvariant

LEMMA DirectiveLoads == ASSUME LoadInvariant, Directive PROVE LoadInvariant'
<1>1. /\ at = "load" /\ next <= Len(Tokens) /\ Token.kind = "at" /\ next' = next + 1
      /\ UNCHANGED <<driver, file, at, loading, trace, memory>>
      /\ addr' = ((Token.value % AddressSpace) * 4) % AddressSpace
    BY DEF Directive, Reading, cpu
<1>2. PICK n \in Nat : n = next - 1 /\ n + 1 = next
    BY DEF LoadInvariant, ReadSoFar
<1>3. Tokens \in TokenList /\ n < Len(Tokens) /\ next \in DOMAIN Tokens
    BY <1>1, <1>2, TokensOfList DEF LoadInvariant, Tokens
<1>4. Token.value \in Nat /\ Token = Tokens[n + 1]
    BY <1>2, <1>3, TokensOfList DEF Token
<1>5. addr' = Ahead(Tokens, next)
    BY <1>1, <1>2, <1>4, AheadAfterAt
<1>6. addr' \in Nat
    <2>1. (Token.value % AddressSpace) * 4 \in Nat
        BY <1>4, Wrapped
    <2> QED
        BY <1>1, <2>1, Wrapped
<1>7. memory[loading] = Image(SubSeq(Tokens, 1, n))
    BY <1>1, <1>2 DEF LoadInvariant, Holds, Tokens
<1>8. Image(SubSeq(Tokens, 1, n + 1)) = Image(SubSeq(Tokens, 1, n))
    <2>1. PICK s, u : s = SubSeq(Tokens, 1, n) /\ u = SubSeq(Tokens, 1, n + 1)
        OBVIOUS
    <2>2. OneMore(s, u) /\ u[n + 1] = Token /\ Len(s) = n
        <3>1. n \in 0 .. Len(Tokens)
            BY <1>3, TokensOfList
        <3> QED
            BY <1>3, <1>4, <2>1, <3>1, PrefixGrows, Prefixes
    <2> QED
        BY <1>1, <2>1, <2>2, ImageKept
<1> QED
    BY <1>1, <1>2, <1>5, <1>6, <1>7, <1>8, TokenRead DEF LoadInvariant, Holds

LEMMA WriteLoads == ASSUME LoadInvariant, Write PROVE LoadInvariant'
<1>1. /\ at = "load" /\ next <= Len(Tokens) /\ Token.kind = "word" /\ next' = next + 1
      /\ UNCHANGED <<driver, file, at, loading, trace>> /\ InRange(addr, 4)
      /\ addr' = (addr + 4) % AddressSpace
      /\ memory' = [memory EXCEPT ![loading] = WriteBytes(@, addr, 4, Token.value % WordSpace)]
    BY DEF Write, Reading
<1>2. PICK n \in Nat : n = next - 1 /\ n + 1 = next
    BY DEF LoadInvariant, ReadSoFar
<1>3. Tokens \in TokenList /\ n < Len(Tokens) /\ next \in DOMAIN Tokens
    BY <1>1, <1>2, TokensOfList DEF LoadInvariant, Tokens
<1>4. Token = Tokens[n + 1] /\ n + 1 \in DOMAIN Tokens
    BY <1>2, <1>3 DEF Token
<1>5. addr = Ahead(Tokens, n) /\ addr \in Nat
    BY <1>2 DEF LoadInvariant, ReadSoFar
<1>6. addr' = Ahead(Tokens, next)
    BY <1>1, <1>2, <1>3, <1>4, <1>5, AheadAfterWord
<1>7. addr' \in Nat
    <2>1. addr + 4 \in Nat
        BY <1>5
    <2> QED
        BY <1>1, <2>1, Wrapped
<1>8. addr = PlaceOf(Tokens, n + 1)
    BY <1>1, <1>4, <1>5, PlaceIsAhead
<1>9. memory[loading] = Image(SubSeq(Tokens, 1, n))
    BY <1>1, <1>2 DEF LoadInvariant, Holds, Tokens
<1>10. /\ DOMAIN memory' = {"program", "data"}
       /\ \A m \in {"program", "data"} : m # loading => memory'[m] = memory[m]
       /\ memory'[loading] = WriteBytes(memory[loading], addr, 4, Token.value % WordSpace)
    BY <1>1 DEF LoadInvariant, Holds
<1>11. Image(SubSeq(Tokens, 1, n + 1)) =
          WriteBytes(Image(SubSeq(Tokens, 1, n)), addr, 4, Token.value % WordSpace)
    <2>1. PICK s, u : s = SubSeq(Tokens, 1, n) /\ u = SubSeq(Tokens, 1, n + 1)
        OBVIOUS
    <2>2. /\ OneMore(s, u) /\ u[n + 1] = Token /\ Len(s) = n
          /\ PlaceOf(u, n + 1) = PlaceOf(Tokens, n + 1)
        <3>1. n \in 0 .. Len(Tokens)
            BY <1>3, TokensOfList
        <3> QED
            BY <1>3, <1>4, <2>1, <3>1, PrefixGrows, Prefixes
    <2> QED
        BY <1>1, <1>5, <1>8, <2>1, <2>2, ImageWritten
<1> QED
    BY <1>1, <1>2, <1>6, <1>7, <1>8, <1>9, <1>10, <1>11, TokenRead

(* The end of a file: the data file is next, or the run.                   *)
LEMMA FileEndLoads == ASSUME LoadInvariant, FileEnds PROVE LoadInvariant'
<1>1. /\ at = "load" /\ next > Len(Tokens) /\ UNCHANGED <<driver, file, memory, trace>>
      /\ \/ /\ loading = "program" /\ driver = "cli"
            /\ loading' = "data" /\ next' = 1 /\ addr' = 0 /\ at' = at
         \/ /\ ~(loading = "program" /\ driver = "cli")
            /\ at' = "run" /\ UNCHANGED <<loading, next, addr>>
    BY DEF FileEnds, cpu
<1>2. trace = << >> /\ Tokens \in TokenList /\ Len(Tokens) \in Nat
    BY <1>1, TokensOfList DEF LoadInvariant, Tokens
<1>3. next = Len(Tokens) + 1 /\ next - 1 = Len(Tokens)
    BY <1>1, <1>2 DEF LoadInvariant, ReadSoFar
<1>4. CASE /\ loading = "program" /\ driver = "cli"
           /\ loading' = "data" /\ next' = 1 /\ addr' = 0 /\ at' = at
    <2>1. /\ Tokens = file.program /\ Tokens' = file.data
          /\ Len(file.data) \in Nat /\ file.data \in TokenList
        BY <1>1, <1>4, TokensOfList DEF LoadInvariant, Tokens
    <2>2. next' - 1 = 0 /\ 1 .. 0 = {}
        BY <1>4
    <2>3. Fits(file.program, Len(file.program))
        BY <1>3, <2>1 DEF LoadInvariant, ReadSoFar
    <2>4. ReadSoFar'
        BY <1>1, <1>4, <2>1, <2>2, <2>3, AheadOfStart DEF ReadSoFar, Fits
    <2>5. memory.program = Image(file.program)
        BY <1>2, <1>3, <1>4, <2>1, PrefixEnds DEF LoadInvariant, Holds
    <2>6. memory.data = Image(SubSeq(file.data, 1, 0))
        BY <1>2, <1>4, <2>1, PrefixEnds, ImageOfNothing DEF LoadInvariant, Holds
    <2>7. Holds'
        BY <1>1, <1>4, <2>2, <2>5, <2>6 DEF LoadInvariant, Holds
    <2> QED
        BY <1>1, <1>2, <1>4, <2>4, <2>7 DEF LoadInvariant
<1>5. CASE /\ ~(loading = "program" /\ driver = "cli")
           /\ at' = "run" /\ UNCHANGED <<loading, next, addr>>
    <2>1. ReadSoFar'
        BY <1>1, <1>5 DEF LoadInvariant, ReadSoFar, Tokens
    <2>2. Holds'
        BY <1>1, <1>5 DEF LoadInvariant, Holds
    <2>3. AllRead'
        BY <1>1, <1>3, <1>5 DEF LoadInvariant, AllRead, Tokens
    <2> QED
        BY <1>1, <1>5, <2>1, <2>2, <2>3 DEF LoadInvariant
<1> QED
    BY <1>1, <1>4, <1>5

(* Steps that leave the loader, the program and the trace alone.           *)
LEMMA LoaderRests ==
    ASSUME LoadInvariant, UNCHANGED <<driver, file, loader, trace>>,
           DOMAIN memory' = {"program", "data"}, memory'.program = memory.program,
           memory'.data = memory.data \/ (AllRead /\ driver = "cli" /\ at' = "ended"),
           at' \in {"main", "load"} => trace = << >>,
           at' \in {"run", "print"} => AllRead,
           at' # "ended" => at # "ended"
    PROVE  LoadInvariant'
<1>1. UNCHANGED <<loading, next, addr>>
    BY DEF loader
<1>2. ReadSoFar' /\ (AllRead => AllRead')
    BY <1>1 DEF LoadInvariant, ReadSoFar, AllRead, Tokens
<1>3. Holds'
    BY <1>1 DEF LoadInvariant, Holds, AllRead
<1> QED
    BY <1>1, <1>2, <1>3 DEF LoadInvariant

(* An instruction retires: what it executed is a word of the program file, *)
(* whatever has been stored.                                               *)
LEMMA RetiresLoaded ==
    ASSUME LoadInvariant, at = "run", Retires, UNCHANGED <<at, driver, file, loader>>
    PROVE  LoadInvariant'
<1>1. UNCHANGED <<loading, next, addr>> /\ AllRead
    BY DEF loader, LoadInvariant
<1>2. PICK row : /\ trace' = Append(trace, row)
                 /\ row.pc = pc /\ row.insn = Word
    BY DEF Retires
<1>3. DOMAIN memory' = {"program", "data"} /\ memory'.program = memory.program
    BY DEF LoadInvariant, Holds, Retires, Stored
<1>4. /\ Len(trace) \in Nat /\ Len(trace') = Len(trace) + 1
      /\ DOMAIN trace' = 1 .. Len(trace') /\ trace' # << >>
      /\ \A k \in 1 .. Len(trace) : trace'[k] = trace[k]
      /\ trace'[Len(trace) + 1] = row
      /\ DOMAIN trace = 1 .. Len(trace)
      /\ \E Rows : trace' \in Seq(Rows)
    <2>1. PICK Rows : trace \in Seq(Rows)
        BY DEF LoadInvariant
    <2>2. trace \in Seq(Rows \cup {row}) /\ row \in Rows \cup {row}
        BY <2>1
    <2>3. trace' \in Seq(Rows \cup {row})
        BY <1>2, <2>2
    <2> QED
        BY <1>2, <2>2, <2>3
<1>5. memory.program = Image(file.program)
    <2>1. CASE loading = "data"
        BY <2>1 DEF LoadInvariant, Holds
    <2>2. CASE loading = "program"
        <3>1. next - 1 = Len(file.program) /\ file.program \in TokenList
            BY <1>1, <2>2, TokensOfList DEF LoadInvariant, AllRead, Tokens
        <3> QED
            BY <2>2, <3>1, PrefixEnds DEF LoadInvariant, Holds
    <2> QED
        BY <2>1, <2>2 DEF LoadInvariant
<1>6. row.insn = ReadBytes(Image(file.program), row.pc, 4)
    BY <1>2, <1>5 DEF Word
<1>7. \A k \in DOMAIN trace' :
          trace'[k].insn = ReadBytes(Image(file'.program), trace'[k].pc, 4)
    <2> SUFFICES ASSUME NEW k \in DOMAIN trace'
                 PROVE  trace'[k].insn = ReadBytes(Image(file.program), trace'[k].pc, 4)
        OBVIOUS
    <2>1. CASE k \in 1 .. Len(trace)
        BY <1>4, <2>1 DEF LoadInvariant
    <2>2. CASE k = Len(trace) + 1
        BY <1>4, <1>6, <2>2
    <2> QED
        BY <1>4, <2>1, <2>2
<1>8. ReadSoFar' /\ AllRead'
    BY <1>1 DEF LoadInvariant, ReadSoFar, AllRead, Tokens
<1>9. Holds'
    BY <1>1, <1>3, <1>4 DEF LoadInvariant, Holds
<1> QED
    BY <1>1, <1>4, <1>7, <1>8, <1>9 DEF LoadInvariant

LEMMA LoadStep == LoadInvariant /\ [Next]_vars => LoadInvariant'
<1> SUFFICES ASSUME LoadInvariant, [Next]_vars PROVE LoadInvariant'
    OBVIOUS
<1>a. DOMAIN memory = {"program", "data"} /\ (at \in {"run", "print"} => AllRead)
    BY DEF LoadInvariant, Holds
<1>1. CASE EndsEarly \/ Constructed
    BY <1>1, <1>a, LoaderRests DEF EndsEarly, Constructed, Ends, Throws, cpu, LoadInvariant
<1>2. CASE Directive
    BY <1>2, DirectiveLoads
<1>3. CASE Write
    BY <1>3, WriteLoads
<1>4. CASE Refuse
    BY <1>4, <1>a, LoaderRests DEF Refuse, Reading, Ends, Throws, cpu, LoadInvariant
<1>5. CASE FileEnds
    BY <1>5, FileEndLoads
<1>6. CASE RunSteps
    <2>1. driver = "cli" /\ at = "run" /\ UNCHANGED <<driver, file, loader>>
        BY <1>6 DEF RunSteps
    <2>2. CASE Throws /\ UNCHANGED cpu
        BY <1>a, <2>1, <2>2, LoaderRests DEF Ends, Throws, cpu
    <2>3. CASE memory' = Stored /\ Throws /\ UNCHANGED trace
        <3>1. DOMAIN memory' = {"program", "data"} /\ memory'.program = memory.program
            BY <1>a, <2>3 DEF Stored
        <3> QED
            BY <1>a, <2>1, <2>3, <3>1, LoaderRests DEF Ends, Throws
    <2>4. CASE Retires /\ UNCHANGED at
        BY <2>1, <2>4, RetiresLoaded
    <2> QED
        BY <1>6, <2>2, <2>3, <2>4 DEF RunSteps
<1>7. CASE RunReturns \/ SimulationStops \/ Prints
    BY <1>7, <1>a, LoaderRests DEF RunReturns, SimulationStops, Prints, Ends, Throws, cpu
<1>8. CASE Tick
    <2>1. at = "run" /\ UNCHANGED <<driver, file, loader>>
        BY <1>8 DEF Tick
    <2>2. CASE UNCHANGED <<cpu, at>>
        BY <1>a, <2>1, <2>2, LoaderRests DEF cpu
    <2>3. CASE Throws /\ UNCHANGED cpu
        BY <1>a, <2>1, <2>3, LoaderRests DEF Ends, Throws, cpu
    <2>4. CASE Retires /\ UNCHANGED at
        BY <2>1, <2>4, RetiresLoaded
    <2> QED
        BY <1>8, <2>2, <2>3, <2>4 DEF Tick
<1>9. CASE UNCHANGED vars
    BY <1>9, <1>a, LoaderRests DEF vars, loader, LoadInvariant
<1> QED
    BY <1>1, <1>2, <1>3, <1>4, <1>5, <1>6, <1>7, <1>8, <1>9 DEF Next

(* For every pair of files, well formed or not: while they are read the    *)
(* memory that is loaded is the image of what has been read; nothing       *)
(* retires before both have been read to the end without a bad token or a  *)
(* word outside the memory; and every row of the trace holds the word of   *)
(* the program file at its pc, so a store never reaches an instruction.    *)
THEOREM FilesAreLoaded == Spec => []LoadedAsWritten
<1> QED
    BY LoadInit, LoadStep, LoadIsAsWritten, PTL DEF Spec

-----------------------------------------------------------------------------
(* Bytes and the words they make.                                          *)

Byte == 0 .. ByteSpace - 1

Bytes == [0 .. MemBytes - 1 -> Byte]

LEMMA DigitIsByte ==
    ASSUME NEW v \in Nat, NEW n \in 0 .. 3 PROVE Digit(v, n) \in Byte
<1>1. Weight(n) \in Pos /\ ByteSpace \in Pos
    <2>1. n \in 0 .. 4
        OBVIOUS
    <2> QED
        BY <2>1, Weights, SessionAssumption DEF Pos
<1>2. PICK q : q = v \div Weight(n)
    OBVIOUS
<1>3. q \in Nat
    <2>1. PICK w \in Pos : w = Weight(n)
        BY <1>1
    <2> QED
        BY <1>2, <2>1 DEF Pos
<1>4. q % ByteSpace \in Byte
    BY <1>1, <1>3 DEF Byte, Pos
<1> QED
    BY <1>2, <1>4 DEF Digit

(* One byte below a number of bytes.                                       *)
LEMMA ByteBelow ==
    ASSUME NEW b \in Byte, NEW y \in Nat, NEW w \in Pos, y < w
    PROVE  /\ b + ByteSpace * y \in Nat /\ b + ByteSpace * y < w * ByteSpace
           /\ (b + ByteSpace * y) \div ByteSpace = y
           /\ (b + ByteSpace * y) % ByteSpace = b
<1>1. PICK d \in Pos : d = ByteSpace
    BY SessionAssumption DEF Pos
<1>2. d \in Nat /\ w \in Nat /\ b \in Nat /\ b < d
    BY <1>1 DEF Pos, Byte
<1>3. PICK e \in Nat : e = y * d /\ e = d * y
    BY <1>2, Product
<1>4. (b + d * y) \div d = y /\ (b + d * y) % d = b
    <2>1. b + d * y = (y * d) + b
        BY <1>2, <1>3
    <2> QED
        BY <1>2, <2>1, DivUnique
<1>5. e + b < w * d
    <2>1. w - (y + 1) \in Nat
        BY <1>2
    <2>2. PICK r \in Nat : w = (y + 1) + r
        BY <1>2, <2>1
    <2>3. w * d = ((y + 1) * d) + (r * d) /\ (y + 1) * d = (y * d) + (1 * d) /\ r * d \in Nat
        BY <1>2, <2>2, Product
    <2>4. PICK g \in Nat : g = r * d
        BY <2>3
    <2>5. w * d = e + d + g
        BY <1>2, <1>3, <2>3, <2>4
    <2> QED
        BY <1>2, <2>4, <2>5
<1> QED
    BY <1>1, <1>2, <1>3, <1>4, <1>5

WordOf(b0, b1, b2, b3) ==
    b0 + ByteSpace * (b1 + ByteSpace * (b2 + ByteSpace * b3))

LEMMA DigitsOfBytes ==
    ASSUME NEW b0 \in Byte, NEW b1 \in Byte, NEW b2 \in Byte, NEW b3 \in Byte
    PROVE  /\ WordOf(b0, b1, b2, b3) \in 0 .. WordSpace - 1
           /\ Digit(WordOf(b0, b1, b2, b3), 0) = b0
           /\ Digit(WordOf(b0, b1, b2, b3), 1) = b1
           /\ Digit(WordOf(b0, b1, b2, b3), 2) = b2
           /\ Digit(WordOf(b0, b1, b2, b3), 3) = b3
<1>1. PICK d \in Pos : d = ByteSpace /\ d \in Nat
    BY SessionAssumption DEF Pos
<1>2. /\ Weight(0) = 1 /\ Weight(1) = d /\ Weight(2) = d * d /\ Weight(3) = (d * d) * d
      /\ WordSpace = ((d * d) * d) * d /\ d * d \in Pos /\ (d * d) * d \in Pos
    <2>1. /\ Weight(0 + 1) = Weight(0) * d /\ Weight(1 + 1) = Weight(1) * d
          /\ Weight(2 + 1) = Weight(2) * d /\ Weight(3 + 1) = Weight(3) * d
        BY <1>1, Weights
    <2>2. 0 + 1 = 1 /\ 1 + 1 = 2 /\ 2 + 1 = 3 /\ 3 + 1 = 4
        OBVIOUS
    <2>3. Weight(2) \in Pos /\ Weight(3) \in Pos
        BY Weights
    <2> QED
        BY <1>1, <2>1, <2>2, <2>3, Weights DEF WordSpace
<1>3. PICK y2, y1, y0 : y2 = b2 + d * b3 /\ y1 = b1 + d * y2 /\ y0 = b0 + d * y1
    OBVIOUS
<1>4. b3 \in Nat /\ b3 < d /\ b3 % d = b3 /\ b0 \in Nat
    BY <1>1 DEF Byte, Pos
<1>5. y2 \in Nat /\ y2 < d * d /\ y2 \div d = b3 /\ y2 % d = b2
    BY <1>1, <1>3, <1>4, ByteBelow
<1>6. y1 \in Nat /\ y1 < (d * d) * d /\ y1 \div d = y2 /\ y1 % d = b1
    BY <1>1, <1>2, <1>3, <1>5, ByteBelow
<1>7. y0 \in Nat /\ y0 < ((d * d) * d) * d /\ y0 \div d = y1 /\ y0 % d = b0
    BY <1>1, <1>2, <1>3, <1>6, ByteBelow
<1>8. y0 \div (d * d) = y2 /\ y0 \div ((d * d) * d) = b3
    <2>1. y0 \div (d * d) = (y0 \div d) \div d
        BY <1>1, <1>7, DivDiv
    <2>2. y0 \div ((d * d) * d) = (y0 \div (d * d)) \div d
        <3>1. PICK c \in Pos : c = d * d
            BY <1>2
        <3>2. y0 \div (c * d) = (y0 \div c) \div d
            BY <1>1, <1>7, DivDiv
        <3> QED
            BY <3>1, <3>2
    <2> QED
        BY <1>5, <1>6, <1>7, <2>1, <2>2, Zenon
<1>9. WordOf(b0, b1, b2, b3) = y0 /\ y0 \div 1 = y0
    BY <1>1, <1>3, <1>7 DEF WordOf
<1>10. y0 \in 0 .. WordSpace - 1
    <2>1. PICK w : w = ((d * d) * d) * d
        OBVIOUS
    <2>2. w \in Nat
        BY <1>2, <2>1, Weights DEF WordSpace, Pos
    <2> QED
        BY <1>2, <1>7, <2>1, <2>2
<1>11. /\ Digit(y0, 0) = (y0 \div 1) % d /\ Digit(y0, 1) = (y0 \div d) % d
       /\ Digit(y0, 2) = (y0 \div (d * d)) % d /\ Digit(y0, 3) = (y0 \div ((d * d) * d)) % d
    BY <1>1, <1>2, Zenon DEF Digit
<1> QED
    BY <1>4, <1>5, <1>6, <1>7, <1>8, <1>9, <1>10, <1>11

LEMMA BytesRead ==
    ASSUME NEW bytes \in Bytes, NEW a \in Nat, NEW width \in {1, 2, 4}, InRange(a, width)
    PROVE  \E b0, b1, b2, b3 \in Byte :
              /\ ReadBytes(bytes, a, width) = WordOf(b0, b1, b2, b3)
              /\ b0 = bytes[a] /\ bytes[a + width - 1] \in Byte
              /\ b1 = IF 1 < width THEN bytes[a + 1] ELSE 0
              /\ b2 = IF 2 < width THEN bytes[a + 2] ELSE 0
              /\ b3 = IF 3 < width THEN bytes[a + 3] ELSE 0
<1>1. \A n \in 0 .. width - 1 : a + n \in 0 .. MemBytes - 1
    BY SessionAssumption DEF InRange
<1>2. \A n \in 0 .. width - 1 : bytes[a + n] \in Byte
    BY <1>1 DEF Bytes
<1>3. 0 \in Byte
    BY SessionAssumption DEF Byte
<1>4. a + 0 = a /\ a + width - 1 = a + (width - 1)
    OBVIOUS
<1> DEFINE b(n) == IF n < width THEN bytes[a + n] ELSE 0
<1>5. b(0) \in Byte /\ b(1) \in Byte /\ b(2) \in Byte /\ b(3) \in Byte
    BY <1>2, <1>3
<1>6. ReadBytes(bytes, a, width) = WordOf(b(0), b(1), b(2), b(3))
    BY DEF ReadBytes, WordOf
<1>7. b(0) = bytes[a] /\ bytes[a + width - 1] \in Byte
    BY <1>2, <1>4
<1> QED
    BY <1>5, <1>6, <1>7

LEMMA ReadDigits ==
    ASSUME NEW bytes \in Bytes, NEW a \in Nat, NEW width \in {1, 2, 4}, InRange(a, width)
    PROVE  /\ ReadBytes(bytes, a, width) \in 0 .. WordSpace - 1
           /\ \A n \in 0 .. 3 : Digit(ReadBytes(bytes, a, width), n) =
                                    IF n < width THEN bytes[a + n] ELSE 0
<1>1. PICK b0, b1, b2, b3 \in Byte :
              /\ ReadBytes(bytes, a, width) = WordOf(b0, b1, b2, b3)
              /\ b0 = bytes[a] /\ bytes[a + width - 1] \in Byte
              /\ b1 = IF 1 < width THEN bytes[a + 1] ELSE 0
              /\ b2 = IF 2 < width THEN bytes[a + 2] ELSE 0
              /\ b3 = IF 3 < width THEN bytes[a + 3] ELSE 0
    BY BytesRead
<1>2. \A n \in 0 .. 3 : n = 0 \/ n = 1 \/ n = 2 \/ n = 3
    OBVIOUS
<1>3. a + 0 = a /\ 0 < width
    OBVIOUS
<1> QED
    BY <1>1, <1>2, <1>3, DigitsOfBytes

(* The bytes above a negative narrow number.                               *)
LEMMA FillBytes ==
    ASSUME NEW f, f = ByteSpace - 1, NEW b \in Byte, NEW c \in Byte
    PROVE  /\ WordOf(b, f, f, f) = b + WordSpace - Weight(1)
           /\ WordOf(b, c, f, f) = b + ByteSpace * c + WordSpace - Weight(2)
<1>1. PICK d \in Nat : d = ByteSpace /\ d \in Pos
    BY SessionAssumption DEF Pos
<1>2. PICK h, t, q \in Nat : h = d * d /\ t = d * h /\ q = d * t
    BY <1>1, Product
<1>3. Weight(1) = d /\ Weight(2) = h /\ WordSpace = q
    <2>1. /\ Weight(1) = d /\ Weight(2) = d * d /\ Weight(4) = (d * d) * (d * d)
        BY <1>1 DEF Weight
    <2>2. (d * d) * (d * d) = d * (d * (d * d))
        BY <1>2, Product
    <2> QED
        BY <1>2, <2>1, <2>2 DEF WordSpace
<1>4. \A x \in Int : d * (x - d) = d * x - h /\ d * (x - 1) = d * x - d
    BY <1>1, <1>2
<1>5. d * f = h - d /\ f + (h - d) = h - 1 /\ d * (h - 1) = t - d
    BY <1>1, <1>2, <1>4
<1>6. f + (t - d) = t - 1 /\ d * (t - 1) = q - d
    BY <1>1, <1>2, <1>4
<1>7. b \in Nat /\ c \in Nat
    BY DEF Byte
<1>8. WordOf(b, f, f, f) = b + (q - d)
    BY <1>1, <1>5, <1>6 DEF WordOf
<1>9. d * (c + (t - d)) = d * c + (q - h)
    <2>1. d * (c + (t - d)) = d * c + d * (t - d)
        BY <1>1, <1>2, <1>7
    <2>2. d * (t - d) = q - h
        BY <1>2, <1>4
    <2> QED
        BY <2>1, <2>2
<1>10. WordOf(b, c, f, f) = b + (d * c + (q - h))
    BY <1>1, <1>5, <1>9 DEF WordOf
<1>11. PICK e \in Nat : e = d * c
    BY <1>1, <1>7, Product
<1> QED
    BY <1>1, <1>2, <1>3, <1>7, <1>8, <1>10, <1>11

(* Twice a number of two bytes reaches half its range when twice its       *)
(* higher byte does: the values of a byte are even in number.              *)
LEMMA SignIsOfTheTop ==
    ASSUME NEW b \in Byte, NEW c \in Byte
    PROVE  (2 * (b + ByteSpace * c) < Weight(2)) = (2 * c < ByteSpace)
<1>1. PICK d \in Nat : d = ByteSpace /\ d \in Pos
    BY SessionAssumption DEF Pos
<1>2. PICK h \in Nat : d = 2 * h
    BY <1>1, SessionAssumption
<1>3. b \in Nat /\ c \in Nat /\ b < d
    BY <1>1 DEF Byte
<1>4. Weight(2) = d * d
    BY <1>1 DEF Weight
<1>5. PICK e \in Nat : e = d * c
    BY <1>1, <1>3, Product
<1>6. CASE c < h
    <2>1. PICK r \in Nat : h = c + 1 + r
        <3>1. h - (c + 1) \in Nat
            BY <1>2, <1>3, <1>6
        <3> QED
            BY <3>1, <1>3
    <2>2. d * d = d * (2 * (c + 1 + r))
        BY <1>2, <2>1
    <2>3. d * (2 * (c + 1 + r)) = 2 * (d * c) + 2 * d + 2 * (d * r) /\ d * r \in Nat
        BY <1>1, <1>3, <2>1
    <2>4. PICK g \in Nat : g = d * r
        BY <2>3
    <2>5. d * d = 2 * e + 2 * d + 2 * g
        BY <1>5, <2>2, <2>3, <2>4
    <2>6. 2 * (b + e) < 2 * e + 2 * d + 2 * g
        BY <1>3, <1>5, <2>4
    <2> QED
        BY <1>1, <1>2, <1>3, <1>4, <1>5, <1>6, <2>5, <2>6
<1>7. CASE ~(c < h)
    <2>1. PICK r \in Nat : c = h + r
        <3>1. c - h \in Nat
            BY <1>2, <1>3, <1>7
        <3> QED
            BY <3>1, <1>3
    <2>2. 2 * (d * c) = d * (2 * h) + 2 * (d * r) /\ d * r \in Nat
        BY <1>1, <1>2, <2>1
    <2>3. PICK g \in Nat : g = d * r
        BY <2>2
    <2>4. PICK w \in Nat : w = d * d
        BY <1>1, Product
    <2>5. 2 * e = w + 2 * g
        BY <1>2, <1>5, <2>2, <2>3, <2>4
    <2>6. ~(2 * (b + e) < w)
        BY <1>3, <1>5, <2>3, <2>4, <2>5
    <2> QED
        BY <1>1, <1>2, <1>3, <1>4, <1>5, <1>7, <2>4, <2>6
<1> QED
    BY <1>6, <1>7

FillOf(bytes, a, width) == IF 2 * bytes[a + width - 1] >= ByteSpace THEN ByteSpace - 1 ELSE 0

LEMMA ExtendDigits ==
    ASSUME NEW bytes \in Bytes, NEW a \in Nat, NEW width \in {1, 2, 4}, InRange(a, width),
           NEW v, v = SignExtend(ReadBytes(bytes, a, width), width)
    PROVE  /\ v \in Nat
           /\ \A n \in 0 .. 3 : Digit(v, n) =
                    IF n < width THEN bytes[a + n] ELSE FillOf(bytes, a, width)
<1>1. PICK b0, b1, b2, b3 \in Byte :
              /\ ReadBytes(bytes, a, width) = WordOf(b0, b1, b2, b3)
              /\ b0 = bytes[a] /\ bytes[a + width - 1] \in Byte
              /\ b1 = IF 1 < width THEN bytes[a + 1] ELSE 0
              /\ b2 = IF 2 < width THEN bytes[a + 2] ELSE 0
              /\ b3 = IF 3 < width THEN bytes[a + 3] ELSE 0
    BY BytesRead
<1>2. PICK f : f = FillOf(bytes, a, width)
    OBVIOUS
<1>3. f \in Byte /\ ByteSpace - 1 \in Byte /\ 0 \in Byte /\ ByteSpace \in Nat /\ WordSpace \in Nat
    BY <1>2, SessionAssumption, Weights DEF FillOf, Byte, Pos, WordSpace
<1>4. \A n \in 0 .. 3 : n = 0 \/ n = 1 \/ n = 2 \/ n = 3
    OBVIOUS
<1>5. CASE width = 4
    <2>1. WordOf(b0, b1, b2, b3) \in Nat
        BY DigitsOfBytes, <1>3
    <2>2. v = WordOf(b0, b1, b2, b3)
        <3>1. Weight(4) = WordSpace
            BY DEF WordSpace
        <3> QED
            BY <1>1, <1>3, <1>5, <2>1, <3>1 DEF SignExtend
    <2> QED
        BY <1>1, <1>4, <1>5, <2>1, <2>2, DigitsOfBytes
<1>6. CASE width = 2
    <2>1. b0 \in Nat /\ b1 \in Nat /\ b2 = 0 /\ b3 = 0 /\ a + width - 1 = a + 1 /\ b1 = bytes[a + 1]
        BY <1>1, <1>6 DEF Byte
    <2>2. WordOf(b0, b1, b2, b3) = b0 + ByteSpace * b1
        BY <1>3, <2>1 DEF WordOf
    <2>3. v = IF 2 * b1 < ByteSpace THEN WordOf(b0, b1, 0, 0) ELSE WordOf(b0, b1, ByteSpace - 1, ByteSpace - 1)
        BY <1>1, <1>6, <2>1, <2>2, SignIsOfTheTop, FillBytes DEF SignExtend
    <2>4. v = WordOf(b0, b1, f, f)
        BY <1>2, <1>3, <2>1, <2>3 DEF FillOf
    <2>5. v \in 0 .. WordSpace - 1 /\ Digit(v, 0) = b0 /\ Digit(v, 1) = b1 /\ Digit(v, 2) = f /\ Digit(v, 3) = f
        BY <1>3, <2>4, DigitsOfBytes
    <2> QED
        BY <1>1, <1>2, <1>3, <1>4, <1>6, <2>5
<1>7. CASE width = 1
    <2>1. b0 \in Nat /\ b1 = 0 /\ b2 = 0 /\ b3 = 0 /\ a + width - 1 = a
        BY <1>1, <1>7 DEF Byte
    <2>2. WordOf(b0, b1, b2, b3) = b0 /\ Weight(1) = ByteSpace
        BY <1>3, <2>1, Weights DEF WordOf
    <2>3. v = IF 2 * b0 < ByteSpace THEN WordOf(b0, 0, 0, 0)
              ELSE WordOf(b0, ByteSpace - 1, ByteSpace - 1, ByteSpace - 1)
        BY <1>1, <1>7, <2>1, <2>2, FillBytes DEF SignExtend
    <2>4. v = WordOf(b0, f, f, f)
        BY <1>1, <1>2, <1>3, <2>1, <2>3 DEF FillOf
    <2>5. v \in 0 .. WordSpace - 1 /\ Digit(v, 0) = b0 /\ Digit(v, 1) = f /\ Digit(v, 2) = f /\ Digit(v, 3) = f
        BY <1>3, <2>4, DigitsOfBytes
    <2> QED
        BY <1>1, <1>2, <1>3, <1>4, <1>7, <2>5
<1> QED
    BY <1>5, <1>6, <1>7
-----------------------------------------------------------------------------
(* The history of the data memory, of any trace t over any image of the    *)
(* data file.                                                              *)

InstrIn(t, k) == Behaviour[t[k].insn]

BeforeIn(t, k, op) == {j \in 1 .. k - 1 : InstrIn(t, j).op = op}

RegIn(t, k) ==
    IF BeforeIn(t, k, "load") = {} THEN 0 ELSE t[Max(BeforeIn(t, k, "load"))].wdata

StoresIn(t, k, a) ==
    {j \in BeforeIn(t, k, "store") : a - InstrIn(t, j).addr \in 0 .. InstrIn(t, j).width - 1}

ByteIn(t, image, k, a) ==
    IF StoresIn(t, k, a) = {} THEN image[a]
    ELSE Digit(RegIn(t, Max(StoresIn(t, k, a))), a - InstrIn(t, Max(StoresIn(t, k, a))).addr)

DataIn(t, image) == [a \in 0 .. MemBytes - 1 |-> ByteIn(t, image, Len(t) + 1, a)]

(* A load of row k gave what the rows before it left.                      *)
Sees(t, image, k) ==
    LET i == InstrIn(t, k)
        top == ByteIn(t, image, k, i.addr + i.width - 1)
        fill == IF i.signed /\ 2 * top >= ByteSpace THEN ByteSpace - 1 ELSE 0
    IN  i.op = "load" =>
            \A n \in 0 .. 3 : Digit(t[k].wdata, n) =
                IF n < i.width THEN ByteIn(t, image, k, i.addr + n) ELSE fill

LEMMA HistoryOfTrace ==
    /\ \A k : \A op : Before(k, op) = BeforeIn(trace, k, op)
    /\ \A k : RegBefore(k) = RegIn(trace, k)
    /\ \A k, a : ByteBefore(k, a) = ByteIn(trace, Image(file.data), k, a)
<1>1. \A k : InstrAt(k) = InstrIn(trace, k)
    BY DEF InstrAt, InstrIn
<1>2. \A k : \A op : Before(k, op) = BeforeIn(trace, k, op)
    BY <1>1 DEF Before, BeforeIn
<1>3. \A k : RegBefore(k) = RegIn(trace, k)
    BY <1>2, Zenon DEF RegBefore, RegIn
<1>4. ASSUME NEW k, NEW a PROVE ByteBefore(k, a) = ByteIn(trace, Image(file.data), k, a)
    <2>1. {j \in Before(k, "store") : a - InstrAt(j).addr \in 0 .. InstrAt(j).width - 1}
              = StoresIn(trace, k, a)
        BY <1>1, <1>2 DEF StoresIn
    <2>2. /\ InstrAt(Max(StoresIn(trace, k, a))) = InstrIn(trace, Max(StoresIn(trace, k, a)))
          /\ RegBefore(Max(StoresIn(trace, k, a))) = RegIn(trace, Max(StoresIn(trace, k, a)))
        BY <1>1, <1>3
    <2> QED
        BY <2>1, <2>2, Zenon DEF ByteBefore, ByteIn
<1> QED
    BY <1>2, <1>3, <1>4

RowSet == [pc : Nat, insn : 0 .. WordSpace - 1, wdata : Nat]

Rows == Seq(RowSet)

LEMMA InstrOfRow ==
    ASSUME NEW w \in 0 .. WordSpace - 1
    PROVE  /\ Behaviour[w].addr \in Nat /\ Behaviour[w].width \in {1, 2, 4}
           /\ Behaviour[w].signed \in BOOLEAN
BY SessionAssumption

LEMMA RowsOf ==
    ASSUME NEW t \in Rows
    PROVE  /\ Len(t) \in Nat /\ DOMAIN t = 1 .. Len(t)
           /\ \A k \in 1 .. Len(t) : /\ t[k].wdata \in Nat /\ InstrIn(t, k).addr \in Nat
                                     /\ InstrIn(t, k).width \in {1, 2, 4}
<1>1. Len(t) \in Nat /\ DOMAIN t = 1 .. Len(t) /\ \A k \in 1 .. Len(t) : t[k] \in RowSet
    BY DEF Rows
<1>2. \A k \in 1 .. Len(t) : t[k].wdata \in Nat /\ t[k].insn \in 0 .. WordSpace - 1
    BY <1>1 DEF RowSet
<1> QED
    BY <1>1, <1>2, InstrOfRow DEF InstrIn

LEMMA RegIsNat ==
    ASSUME NEW t \in Rows, NEW k \in 1 .. Len(t) + 1 PROVE RegIn(t, k) \in Nat
<1>1. Len(t) \in Nat /\ \A j \in 1 .. Len(t) : t[j].wdata \in Nat
    BY RowsOf
<1>2. BeforeIn(t, k, "load") \in SUBSET (1 .. k - 1) /\ k - 1 \in Nat /\ k - 1 <= Len(t)
    BY <1>1 DEF BeforeIn
<1>3. CASE BeforeIn(t, k, "load") # {}
    <2>1. Max(BeforeIn(t, k, "load")) \in 1 .. k - 1
        BY <1>2, <1>3, GreatestIsMax
    <2>2. Max(BeforeIn(t, k, "load")) \in 1 .. Len(t)
        BY <1>1, <1>2, <2>1
    <2> QED
        BY <1>1, <1>3, <2>2 DEF RegIn
<1> QED
    BY <1>3 DEF RegIn

(* One row more changes nothing that is told from the rows before it.      *)
LEMMA HistoryKept ==
    ASSUME NEW t \in Rows, NEW u, u = Append(t, u[Len(t) + 1]), NEW image
    PROVE  \A k \in 1 .. Len(t) + 1 :
              /\ \A op : BeforeIn(u, k, op) = BeforeIn(t, k, op)
              /\ RegIn(u, k) = RegIn(t, k)
              /\ \A a : StoresIn(u, k, a) = StoresIn(t, k, a)
              /\ \A a : ByteIn(u, image, k, a) = ByteIn(t, image, k, a)
<1>1. Len(t) \in Nat /\ \A j \in 1 .. Len(t) : u[j] = t[j]
    BY DEF Rows
<1>2. \A j \in 1 .. Len(t) : InstrIn(u, j) = InstrIn(t, j)
    BY <1>1 DEF InstrIn
<1>3. ASSUME NEW k \in 1 .. Len(t) + 1, NEW op
      PROVE  /\ BeforeIn(u, k, op) = BeforeIn(t, k, op)
             /\ BeforeIn(t, k, op) \in SUBSET (1 .. k - 1) /\ k - 1 \in Nat
             /\ \A j \in 1 .. k - 1 : j \in 1 .. Len(t)
    BY <1>1, <1>2 DEF BeforeIn
<1>4. ASSUME NEW k \in 1 .. Len(t) + 1 PROVE RegIn(u, k) = RegIn(t, k)
    <2>1. BeforeIn(u, k, "load") = BeforeIn(t, k, "load")
        BY <1>3
    <2>2. CASE BeforeIn(t, k, "load") # {}
        <3>1. PICK j : j = Max(BeforeIn(t, k, "load"))
            OBVIOUS
        <3>2. j \in 1 .. k - 1
            BY <1>3, <2>2, <3>1, GreatestIsMax
        <3>3. u[j] = t[j]
            BY <1>1, <1>3, <3>2
        <3> QED
            BY <2>1, <2>2, <3>1, <3>3 DEF RegIn
    <2> QED
        BY <2>1, <2>2 DEF RegIn
<1>5. ASSUME NEW k \in 1 .. Len(t) + 1, NEW a
      PROVE  StoresIn(u, k, a) = StoresIn(t, k, a) /\ StoresIn(t, k, a) \in SUBSET (1 .. k - 1)
    <2>1. BeforeIn(u, k, "store") = BeforeIn(t, k, "store")
          /\ BeforeIn(t, k, "store") \in SUBSET (1 .. k - 1)
        BY <1>3
    <2>2. \A j \in 1 .. k - 1 : InstrIn(u, j) = InstrIn(t, j)
        BY <1>2, <1>3
    <2> QED
        BY <2>1, <2>2 DEF StoresIn
<1>6. ASSUME NEW k \in 1 .. Len(t) + 1, NEW a PROVE ByteIn(u, image, k, a) = ByteIn(t, image, k, a)
    <2>1. CASE StoresIn(t, k, a) # {}
        <3>1. PICK j : j = Max(StoresIn(t, k, a))
            OBVIOUS
        <3>2. j \in 1 .. k - 1
            BY <1>3, <1>5, <2>1, <3>1, GreatestIsMax
        <3>3. InstrIn(u, j) = InstrIn(t, j) /\ RegIn(u, j) = RegIn(t, j)
            <4>1. j \in 1 .. Len(t) /\ j \in 1 .. Len(t) + 1
                BY <1>1, <1>3, <3>2
            <4> QED
                BY <1>2, <1>4, <4>1
        <3> QED
            BY <1>5, <2>1, <3>1, <3>3, Zenon DEF ByteIn
    <2> QED
        BY <1>5, <2>1 DEF ByteIn
<1> QED
    BY <1>3, <1>4, <1>5, <1>6

(* What a new row adds.                                                    *)
LEMMA LastOfBefore ==
    ASSUME NEW n \in Nat, 1 <= n, NEW S \in SUBSET (1 .. n - 1)
    PROVE  Max(S \cup {n}) = n
<1>1. S \cup {n} \in SUBSET (1 .. n) /\ S \cup {n} # {}
    OBVIOUS
<1>2. PICK m : m = Max(S \cup {n}) /\ m \in S \cup {n} /\ n <= m
    BY <1>1, GreatestIsMax
<1>3. \A y \in S : y < n
    OBVIOUS
<1> QED
    BY <1>1, <1>2, <1>3

LEMMA RowAdds ==
    ASSUME NEW t \in Rows, NEW n \in Nat, n = Len(t) + 1,
           NEW u \in Rows, u = Append(t, u[n]), NEW image
    PROVE  /\ RegIn(u, n + 1) = IF InstrIn(u, n).op = "load" THEN u[n].wdata ELSE RegIn(t, n)
           /\ \A a : ByteIn(u, image, n + 1, a) =
                IF /\ InstrIn(u, n).op = "store"
                   /\ a - InstrIn(u, n).addr \in 0 .. InstrIn(u, n).width - 1
                THEN Digit(RegIn(t, n), a - InstrIn(u, n).addr)
                ELSE ByteIn(t, image, n, a)
<1>1. Len(t) \in Nat /\ n - 1 = Len(t) /\ (n + 1) - 1 = n /\ n \in 1 .. Len(t) + 1 /\ n - 1 \in Nat
      /\ 1 <= n
    BY RowsOf
<1>2. \A k \in 1 .. n : k = n \/ k \in 1 .. n - 1
    BY <1>1
<1>3. /\ \A op : BeforeIn(u, n, op) = BeforeIn(t, n, op)
      /\ RegIn(u, n) = RegIn(t, n)
      /\ \A a : StoresIn(u, n, a) = StoresIn(t, n, a)
      /\ \A a : ByteIn(u, image, n, a) = ByteIn(t, image, n, a)
    BY <1>1, HistoryKept
<1>4. \A op : BeforeIn(u, n + 1, op) =
                BeforeIn(u, n, op) \cup (IF InstrIn(u, n).op = op THEN {n} ELSE {})
    <2>1. n \in 1 .. n /\ \A k \in 1 .. n - 1 : k \in 1 .. n
        BY <1>1
    <2> QED
        BY <1>1, <1>2, <2>1 DEF BeforeIn
<1>5. \A op : BeforeIn(u, n, op) \in SUBSET (1 .. n - 1)
    BY DEF BeforeIn
<1>6. RegIn(u, n + 1) = IF InstrIn(u, n).op = "load" THEN u[n].wdata ELSE RegIn(t, n)
    <2>1. CASE InstrIn(u, n).op = "load"
        <3>1. BeforeIn(u, n + 1, "load") = BeforeIn(u, n, "load") \cup {n}
            BY <1>4, <2>1
        <3>2. Max(BeforeIn(u, n, "load") \cup {n}) = n
            BY <1>1, <1>5, LastOfBefore
        <3> QED
            BY <2>1, <3>1, <3>2 DEF RegIn
    <2>2. CASE InstrIn(u, n).op # "load"
        <3>1. BeforeIn(u, n + 1, "load") = BeforeIn(u, n, "load") \cup {}
            BY <1>4, <2>2
        <3>2. RegIn(u, n + 1) = RegIn(u, n)
            BY <3>1 DEF RegIn
        <3> QED
            BY <1>3, <2>2, <3>2
    <2> QED
        BY <2>1, <2>2
<1>7. ASSUME NEW a
      PROVE  ByteIn(u, image, n + 1, a) =
                IF /\ InstrIn(u, n).op = "store"
                   /\ a - InstrIn(u, n).addr \in 0 .. InstrIn(u, n).width - 1
                THEN Digit(RegIn(t, n), a - InstrIn(u, n).addr)
                ELSE ByteIn(t, image, n, a)
    <2>1. CASE /\ InstrIn(u, n).op = "store"
               /\ a - InstrIn(u, n).addr \in 0 .. InstrIn(u, n).width - 1
        <3>1. StoresIn(u, n + 1, a) = StoresIn(u, n, a) \cup {n}
            <4>1. BeforeIn(u, n + 1, "store") = BeforeIn(u, n, "store") \cup {n}
                BY <1>4, <2>1
            <4> QED
                BY <2>1, <4>1 DEF StoresIn
        <3>2. StoresIn(u, n, a) \in SUBSET (1 .. n - 1)
            BY <1>5 DEF StoresIn
        <3>3. Max(StoresIn(u, n, a) \cup {n}) = n
            BY <1>1, <3>2, LastOfBefore
        <3>4. StoresIn(u, n + 1, a) # {} /\ Max(StoresIn(u, n + 1, a)) = n
            BY <3>1, <3>3
        <3>5. ByteIn(u, image, n + 1, a) = Digit(RegIn(u, n), a - InstrIn(u, n).addr)
            BY <3>4, Zenon DEF ByteIn
        <3> QED
            BY <1>3, <2>1, <3>5
    <2>2. CASE ~(/\ InstrIn(u, n).op = "store"
                 /\ a - InstrIn(u, n).addr \in 0 .. InstrIn(u, n).width - 1)
        <3>1. StoresIn(u, n + 1, a) = StoresIn(u, n, a)
            BY <1>4, <2>2 DEF StoresIn
        <3>2. ByteIn(u, image, n + 1, a) = ByteIn(u, image, n, a)
            BY <3>1, Zenon DEF ByteIn
        <3> QED
            BY <1>3, <2>2, <3>2
    <2> QED
        BY <2>1, <2>2
<1> QED
    BY <1>6, <1>7
-----------------------------------------------------------------------------
(* The store that an exception left without a row.                         *)
LeftOver ==
    /\ driver = "cli" /\ at = "ended" /\ status = 1
    /\ Executable /\ Instr.op = "store" /\ ~InRange((pc + 4) % AddressSpace, 4)
    /\ memory.data = WriteBytes(DataIn(trace, Image(file.data)), Instr.addr, Instr.width, reg)

(* What the CPU knows of its data memory is what the trace says.           *)
StoreInvariant ==
    /\ memory \in [{"program", "data"} -> Bytes]
    /\ pc \in Nat /\ reg \in Nat
    /\ trace \in Rows
    /\ reg = RegIn(trace, Len(trace) + 1)
    /\ trace # << >> => memory.data = DataIn(trace, Image(file.data)) \/ LeftOver
    /\ \A k \in 1 .. Len(trace) : Sees(trace, Image(file.data), k)

LEMMA StoreInit == Init => StoreInvariant
<1> SUFFICES ASSUME Init PROVE StoreInvariant
    OBVIOUS
<1>1. trace = << >> /\ reg = 0 /\ memory = [program |-> Empty, data |-> Empty]
    BY DEF Init
<1>2. Empty \in Bytes
    BY SessionAssumption DEF Empty, Bytes, Byte
<1>3. pc \in Nat
    BY SessionAssumption DEF Init
<1>4. trace \in Rows /\ Len(trace) = 0 /\ 1 .. 0 = {} /\ Len(trace) + 1 = 1 /\ 1 - 1 = 0
    BY <1>1 DEF Rows
<1>5. RegIn(trace, Len(trace) + 1) = 0
    <2>1. BeforeIn(trace, 1, "load") = {}
        BY <1>4 DEF BeforeIn
    <2> QED
        BY <1>4, <2>1 DEF RegIn
<1> QED
    BY <1>1, <1>2, <1>3, <1>4, <1>5 DEF StoreInvariant

(* When the first instruction executes, data memory is its file's image.   *)
LEMMA DataNow ==
    ASSUME LoadInvariant, HaltInvariant, StoreInvariant, at = "run"
    PROVE  memory.data = DataIn(trace, Image(file.data))
<1>1. CASE trace # << >>
    BY <1>1 DEF StoreInvariant, LeftOver
<1>2. CASE trace = << >>
    <2>1. memory.data = Image(file.data)
        <3>1. CASE driver = "cli"
            <4>1. loading = "data" /\ next - 1 = Len(file.data) /\ file.data \in TokenList
                BY <3>1, TokensOfList DEF LoadInvariant, AllRead, Tokens
            <4> QED
                BY <1>2, <4>1, PrefixEnds DEF LoadInvariant, Holds
        <3>2. CASE driver = "systemc"
            BY <1>2, <3>2, ImageOfNothing DEF LoadInvariant, Holds
        <3> QED
            BY <3>1, <3>2 DEF LoadInvariant
    <2>2. Len(trace) + 1 = 1 /\ 1 - 1 = 0 /\ 1 .. 0 = {}
        BY <1>2
    <2>3. \A a : StoresIn(trace, 1, a) = {}
        BY <2>2 DEF StoresIn, BeforeIn
    <2>4. \A a : ByteIn(trace, Image(file.data), 1, a) = Image(file.data)[a]
        BY <2>3 DEF ByteIn
    <2>5. Image(file.data) = [a \in 0 .. MemBytes - 1 |-> Image(file.data)[a]]
        BY ImageBytes
    <2> QED
        BY <2>1, <2>2, <2>4, <2>5 DEF DataIn
<1> QED
    BY <1>1, <1>2

LEMMA WrittenBytes ==
    ASSUME NEW bytes \in Bytes, NEW a \in Nat, NEW width \in {1, 2, 4}, NEW v \in Nat
    PROVE  WriteBytes(bytes, a, width, v) \in Bytes
<1>1. DOMAIN bytes = 0 .. MemBytes - 1 /\ \A x \in 0 .. MemBytes - 1 : bytes[x] \in Byte
    BY DEF Bytes
<1>2. ASSUME NEW x \in 0 .. MemBytes - 1, x \in a .. a + width - 1 PROVE Digit(v, x - a) \in Byte
    <2>1. x - a \in 0 .. 3
        BY <1>2
    <2> QED
        BY <2>1, DigitIsByte
<1> QED
    BY <1>1, <1>2 DEF WriteBytes, Bytes

(* The instruction that executes is a word of bytes.                       *)
LEMMA InstrNow ==
    ASSUME StoreInvariant, Executable
    PROVE  /\ Word \in 0 .. WordSpace - 1 /\ Instr.addr \in Nat /\ Instr.width \in {1, 2, 4}
           /\ Instr.signed \in BOOLEAN
           /\ memory.data \in Bytes
<1>1. memory.program \in Bytes /\ memory.data \in Bytes
    BY DEF StoreInvariant
<1>2. Word \in 0 .. WordSpace - 1
    BY <1>1, ReadDigits DEF StoreInvariant, Executable, Fetches, Word
<1> QED
    BY <1>1, <1>2, InstrOfRow DEF Instr

(* Byte by byte, what the store left over has made of what the trace says. *)
LEMMA LeftOverIsStore ==
    ASSUME StoreInvariant, LeftOver,
           DataIn(trace, Image(file.data)) = [a \in 0 .. MemBytes - 1 |-> Told(a)]
    PROVE  StoreWithoutRow
<1>1. Instr.addr \in Nat /\ Instr.width \in {1, 2, 4} /\ MemBytes \in Nat
    BY InstrNow, SessionAssumption DEF LeftOver
<1>2. PICK i, told : i = Instr /\ told = DataIn(trace, Image(file.data))
    OBVIOUS
<1>3. reg = RegBefore(Len(trace) + 1)
    BY HistoryOfTrace DEF StoreInvariant
<1>4. \A a \in 0 .. MemBytes - 1 :
          a \in i.addr .. i.addr + i.width - 1 <=> a - i.addr \in 0 .. i.width - 1
    <2>1. i.width \in Nat /\ \A a \in 0 .. MemBytes - 1 : a \in Int
        BY <1>1, <1>2
    <2> QED
        BY <1>1, <1>2, <2>1, Counted
<1>5. WriteBytes(told, i.addr, i.width, reg) =
          [a \in 0 .. MemBytes - 1 |->
              IF a - i.addr \in 0 .. i.width - 1 THEN Digit(reg, a - i.addr) ELSE Told(a)]
    BY <1>2, <1>4 DEF WriteBytes
<1> QED
    BY <1>2, <1>3, <1>5, Zenon DEF LeftOver, StoreWithoutRow

LEMMA StoreIsSeen == StoreInvariant => LoadsSeeStores
<1> SUFFICES ASSUME StoreInvariant PROVE LoadsSeeStores
    OBVIOUS
<1>1. ASSUME NEW k \in Before(Len(trace) + 1, "load")
      PROVE  LET i == InstrAt(k)
                 top == ByteBefore(k, i.addr + i.width - 1)
                 fill == IF i.signed /\ 2 * top >= ByteSpace THEN ByteSpace - 1 ELSE 0
             IN  \A n \in 0 .. 3 :
                    Digit(trace[k].wdata, n) =
                        IF n < i.width THEN ByteBefore(k, i.addr + n) ELSE fill
    <2>1. Len(trace) \in Nat
        BY RowsOf DEF StoreInvariant
    <2>2. k \in 1 .. Len(trace) /\ InstrAt(k).op = "load" /\ InstrAt(k) = InstrIn(trace, k)
        BY <1>1, <2>1 DEF Before, InstrAt, InstrIn
    <2>3. Sees(trace, Image(file.data), k)
        BY <2>2 DEF StoreInvariant
    <2> QED
        BY <2>2, <2>3, HistoryOfTrace, Zenon DEF Sees
<1>2. DataIn(trace, Image(file.data)) = [a \in 0 .. MemBytes - 1 |-> Told(a)]
    BY HistoryOfTrace DEF DataIn, Told
<1>3. LeftOver => StoreWithoutRow
    BY <1>2, LeftOverIsStore
<1>4. trace # << >> => memory.data = [a \in 0 .. MemBytes - 1 |-> Told(a)] \/ StoreWithoutRow
    BY <1>2, <1>3 DEF StoreInvariant
<1> QED
    BY <1>1, <1>4, Zenon DEF LoadsSeeStores

LEMMA LoadedDigits ==
    ASSUME StoreInvariant, Executable, Instr.op = "load"
    PROVE  /\ Loaded \in Nat
           /\ \A n \in 0 .. 3 : Digit(Loaded, n) =
                IF n < Instr.width THEN memory.data[Instr.addr + n]
                ELSE IF Instr.signed /\ 2 * memory.data[Instr.addr + Instr.width - 1] >= ByteSpace
                     THEN ByteSpace - 1 ELSE 0
<1>1. /\ Instr.addr \in Nat /\ Instr.width \in {1, 2, 4} /\ memory.data \in Bytes
      /\ Instr.signed \in BOOLEAN
      /\ InRange(Instr.addr, Instr.width)
    BY InstrNow DEF Executable
<1>2. PICK a, w, bytes, v : /\ a = Instr.addr /\ w = Instr.width /\ bytes = memory.data
                            /\ v = ReadBytes(bytes, a, w)
    OBVIOUS
<1>3. CASE Instr.signed
    <2>1. Loaded = SignExtend(v, w)
        BY <1>2, <1>3 DEF Loaded
    <2> QED
        BY <1>1, <1>2, <1>3, <2>1, ExtendDigits DEF FillOf
<1>4. CASE ~Instr.signed
    <2>1. Loaded = v
        BY <1>2, <1>4 DEF Loaded
    <2>2. v \in 0 .. WordSpace - 1 /\ WordSpace \in Nat
        BY <1>1, <1>2, ReadDigits, Weights DEF WordSpace, Pos
    <2> QED
        BY <1>1, <1>2, <1>4, <2>1, <2>2, ReadDigits
<1> QED
    BY <1>1, <1>3, <1>4

LEMMA RetiresSees ==
    ASSUME LoadInvariant, HaltInvariant, StoreInvariant, at = "run", Retires, UNCHANGED file
    PROVE  StoreInvariant'
<1>1. PICK row : /\ trace' = Append(trace, row)
                 /\ row = [pc |-> pc, insn |-> Word,
                           wdata |-> IF Instr.op = "load" THEN Loaded ELSE 0]
    BY DEF Retires
<1>2. PICK t, u, n, image, i, r, data :
          /\ t = trace /\ u = trace' /\ n = Len(trace) + 1 /\ image = Image(file.data)
          /\ i = Instr /\ r = reg /\ data = memory.data
    OBVIOUS
<1>3. Executable
    BY DEF Retires
<1>4. /\ i.addr \in Nat /\ i.width \in {1, 2, 4} /\ i.signed \in BOOLEAN /\ data \in Bytes
      /\ Word \in 0 .. WordSpace - 1 /\ r \in Nat /\ pc \in Nat
    BY <1>2, <1>3, InstrNow DEF StoreInvariant
<1>5. row \in RowSet
    BY <1>1, <1>3, <1>4, LoadedDigits DEF RowSet
<1>6. /\ t \in Rows /\ Len(t) \in Nat /\ n \in Nat /\ n = Len(t) + 1
      /\ u \in Rows /\ Len(u) = n /\ u[n] = row /\ u = Append(t, u[n])
      /\ u # << >>
      /\ \A k \in 1 .. Len(t) : u[k] = t[k]
    BY <1>1, <1>2, <1>5 DEF StoreInvariant, Rows
<1>7. InstrIn(u, n) = i
    BY <1>1, <1>2, <1>6 DEF InstrIn, Instr
<1>8. data = DataIn(t, image) /\ r = RegIn(t, n)
    BY <1>2, DataNow DEF StoreInvariant
<1>9. /\ RegIn(u, n + 1) = IF i.op = "load" THEN row.wdata ELSE r
      /\ \A a : ByteIn(u, image, n + 1, a) =
            IF i.op = "store" /\ a - i.addr \in 0 .. i.width - 1
            THEN Digit(r, a - i.addr) ELSE ByteIn(t, image, n, a)
    BY <1>6, <1>7, <1>8, RowAdds
<1>10. reg' = RegIn(u, n + 1) /\ reg' \in Nat
    <2>1. CASE i.op = "load"
        <3>1. reg' = Loaded /\ Loaded \in Nat /\ row.wdata = Loaded
            BY <1>1, <1>2, <1>3, <2>1, LoadedDigits DEF Retires
        <3> QED
            BY <1>9, <2>1, <3>1
    <2>2. CASE i.op # "load"
        BY <1>2, <1>4, <1>9, <2>2 DEF Retires
    <2> QED
        BY <2>1, <2>2
<1>11. pc' \in Nat
    <2>1. pc' \in Targets \/ pc' = (pc + 4) % AddressSpace
        BY DEF Retires
    <2>2. (pc + 4) % AddressSpace \in Nat
        <3>1. pc + 4 \in Nat
            BY <1>4
        <3> QED
            BY <3>1, Wrapped
    <2>3. Targets \subseteq Nat
        BY SessionAssumption
    <2> QED
        BY <2>1, <2>2, <2>3
<1>12. memory' \in [{"program", "data"} -> Bytes]
       /\ memory'.data = IF i.op = "store" THEN WriteBytes(data, i.addr, i.width, r) ELSE data
    <2>1. CASE i.op = "store"
        <3>1. WriteBytes(data, i.addr, i.width, r) \in Bytes
            BY <1>4, WrittenBytes
        <3>2. memory' = [memory EXCEPT !.data = WriteBytes(data, i.addr, i.width, r)]
            BY <1>2, <2>1 DEF Retires, Stored
        <3> QED
            BY <2>1, <3>1, <3>2 DEF StoreInvariant
    <2>2. CASE i.op # "store"
        BY <1>2, <2>2 DEF Retires, StoreInvariant
    <2> QED
        BY <2>1, <2>2
<1>13. memory'.data = DataIn(u, image)
    <2>1. DataIn(u, image) = [a \in 0 .. MemBytes - 1 |-> ByteIn(u, image, n + 1, a)]
        BY <1>6 DEF DataIn
    <2>2. /\ data = [a \in 0 .. MemBytes - 1 |-> ByteIn(t, image, n, a)]
          /\ DOMAIN data = 0 .. MemBytes - 1
        BY <1>6, <1>8 DEF DataIn
    <2>3. CASE i.op # "store"
        BY <1>9, <1>12, <2>1, <2>2, <2>3
    <2>4. CASE i.op = "store"
        <3>1. \A a \in 0 .. MemBytes - 1 :
                  a \in i.addr .. i.addr + i.width - 1 <=> a - i.addr \in 0 .. i.width - 1
            <4>1. MemBytes \in Nat /\ i.width \in Nat
                BY <1>4, SessionAssumption
            <4>2. \A a \in 0 .. MemBytes - 1 : a \in Int
                BY <4>1
            <4> QED
                BY <1>4, <4>1, <4>2, Counted
        <3> QED
            BY <1>9, <1>12, <2>1, <2>2, <2>4, <3>1 DEF WriteBytes
    <2> QED
        BY <2>3, <2>4
<1>14. \A k \in 1 .. Len(t) + 1 : \A a : ByteIn(u, image, k, a) = ByteIn(t, image, k, a)
    BY <1>6, HistoryKept
<1>15. ASSUME NEW k \in 1 .. n PROVE Sees(u, image, k)
    <2>1. CASE k \in 1 .. Len(t)
        <3>1. Sees(t, image, k)
            BY <1>2, <2>1 DEF StoreInvariant
        <3>2. u[k] = t[k] /\ InstrIn(u, k) = InstrIn(t, k) /\ k \in 1 .. Len(t) + 1
            BY <1>6, <2>1 DEF InstrIn
        <3>3. \A a : ByteIn(u, image, k, a) = ByteIn(t, image, k, a)
            BY <1>14, <3>2
        <3> QED
            BY <3>1, <3>2, <3>3, Zenon DEF Sees
    <2>2. CASE k = n /\ i.op = "load"
        <3>1. \A a : ByteIn(u, image, n, a) = ByteIn(t, image, n, a)
            <4>1. n \in 1 .. Len(t) + 1
                BY <1>6
            <4> QED
                BY <1>14, <4>1
        <3>2. \A a \in 0 .. MemBytes - 1 : data[a] = ByteIn(u, image, n, a)
            BY <1>6, <1>8, <3>1 DEF DataIn
        <3>3. \A m \in 0 .. i.width - 1 : i.addr + m \in 0 .. MemBytes - 1
            <4>1. i.addr + i.width <= MemBytes /\ MemBytes \in Nat
                BY <1>2, <1>3, <2>2, SessionAssumption DEF Executable, InRange
            <4> QED
                BY <1>4, <4>1
        <3>4. i.addr + i.width - 1 \in 0 .. MemBytes - 1
            BY <1>4, <3>3
        <3>5. u[n].wdata = Loaded
            BY <1>1, <1>2, <1>6, <2>2
        <3>6. \A m \in 0 .. 3 : Digit(u[n].wdata, m) =
                IF m < i.width THEN data[i.addr + m]
                ELSE IF i.signed /\ 2 * data[i.addr + i.width - 1] >= ByteSpace
                     THEN ByteSpace - 1 ELSE 0
            BY <1>2, <1>3, <2>2, <3>5, LoadedDigits
        <3>7. data[i.addr + i.width - 1] = ByteIn(u, image, n, i.addr + i.width - 1)
            BY <3>2, <3>4
        <3>8. \A m \in 0 .. 3 : m < i.width => data[i.addr + m] = ByteIn(u, image, n, i.addr + m)
            BY <1>4, <3>2, <3>3
        <3> QED
            BY <1>7, <2>2, <3>6, <3>7, <3>8 DEF Sees
    <2>3. CASE k = n /\ i.op # "load"
        BY <1>7, <2>3 DEF Sees
    <2> QED
        BY <1>6, <2>1, <2>2, <2>3
<1> QED
    BY <1>2, <1>6, <1>10, <1>11, <1>12, <1>13, <1>15 DEF StoreInvariant

(* Every other step leaves the trace alone.                                *)
LEMMA StoreRests ==
    ASSUME StoreInvariant, UNCHANGED <<file, trace, pc, reg>>,
           memory' \in [{"program", "data"} -> Bytes],
           trace # << >> => (memory'.data = memory.data /\ ~LeftOver) \/ LeftOver'
    PROVE  StoreInvariant'
BY DEF StoreInvariant

LEMMA StoreStep ==
    LoadInvariant /\ HaltInvariant /\ StoreInvariant /\ [Next]_vars => StoreInvariant'
<1> SUFFICES ASSUME LoadInvariant, HaltInvariant, StoreInvariant, [Next]_vars
             PROVE  StoreInvariant'
    OBVIOUS
<1>a. memory \in [{"program", "data"} -> Bytes]
    BY DEF StoreInvariant
<1>b. at # "ended" => ~LeftOver
    BY DEF LeftOver
<1>1. CASE EndsEarly \/ Constructed \/ Refuse \/ FileEnds \/ RunReturns \/ SimulationStops \/ Prints
    <2>1. UNCHANGED <<file, cpu>> /\ at # "ended"
        BY <1>1 DEF EndsEarly, Constructed, Refuse, Reading, FileEnds, RunReturns,
                    SimulationStops, Prints
    <2> QED
        BY <1>a, <1>b, <2>1, StoreRests DEF cpu
<1>2. CASE Directive
    BY <1>2, <1>a, <1>b, StoreRests DEF Directive, Reading, cpu
<1>3. CASE Write
    <2>1. /\ memory' = [memory EXCEPT ![loading] =
                            WriteBytes(memory[loading], addr, 4, Token.value % WordSpace)]
          /\ trace = << >> /\ UNCHANGED <<file, trace, pc, reg>>
        BY <1>3 DEF Write, Reading, LoadInvariant
    <2>2. addr \in Nat /\ loading \in {"program", "data"}
        BY DEF LoadInvariant, ReadSoFar
    <2>3. Token.value % WordSpace \in Nat
        <3>1. next \in DOMAIN Tokens /\ Tokens \in TokenList
            BY <1>3, TokensOfList DEF Write, Reading, LoadInvariant, ReadSoFar, Tokens
        <3>2. Token.value \in Nat
            BY <3>1, TokensOfList DEF Token
        <3>3. WordSpace \in Pos
            BY Weights DEF WordSpace
        <3> QED
            BY <3>2, <3>3 DEF Pos
    <2>4. WriteBytes(memory[loading], addr, 4, Token.value % WordSpace) \in Bytes
        BY <1>a, <2>2, <2>3, WrittenBytes
    <2>5. memory' \in [{"program", "data"} -> Bytes]
        BY <1>a, <2>1, <2>2, <2>4
    <2> QED
        BY <2>1, <2>5, StoreRests
<1>4. CASE RunSteps
    <2>1. at = "run" /\ UNCHANGED file
        BY <1>4 DEF RunSteps
    <2>2. CASE Throws /\ UNCHANGED cpu
        BY <1>a, <1>b, <2>1, <2>2, StoreRests DEF cpu
    <2>3. CASE /\ Executable /\ Instr.op = "store" /\ ~InRange((pc + 4) % AddressSpace, 4)
               /\ memory' = Stored /\ Throws /\ UNCHANGED <<pc, reg, trace>>
        <3>1. WriteBytes(memory.data, Instr.addr, Instr.width, reg) \in Bytes
            BY <2>3, InstrNow, WrittenBytes DEF StoreInvariant
        <3>2. memory' \in [{"program", "data"} -> Bytes]
            BY <1>a, <2>3, <3>1 DEF Stored
        <3>3. /\ memory'.program = memory.program
              /\ memory'.data = WriteBytes(memory.data, Instr.addr, Instr.width, reg)
            BY <1>a, <2>3 DEF Stored
        <3>4. memory.data = DataIn(trace, Image(file.data))
            BY <2>1, DataNow
        <3>5. Word' = Word
            BY <2>3, <3>3 DEF Word
        <3>6. Instr' = Instr
            BY <3>5 DEF Instr
        <3>7. Executable'
            BY <2>3, <3>6 DEF Executable, Fetches, InRange
        <3>8. driver' = "cli" /\ at' = "ended" /\ status' = 1
            BY <1>4, <2>3 DEF RunSteps, Throws, Ends
        <3>9. ~InRange((pc + 4) % AddressSpace, 4)'
            BY <2>3 DEF InRange
        <3>10. LeftOver'
            BY <2>1, <2>3, <3>3, <3>4, <3>6, <3>7, <3>8, <3>9 DEF LeftOver
        <3> QED
            BY <2>1, <2>3, <3>2, <3>10, StoreRests
    <2>4. CASE Retires
        BY <2>1, <2>4, RetiresSees
    <2> QED
        BY <1>4, <2>2, <2>3, <2>4 DEF RunSteps
<1>5. CASE Tick
    <2>1. at = "run" /\ UNCHANGED file
        BY <1>5 DEF Tick
    <2>2. CASE Retires
        BY <2>1, <2>2, RetiresSees
    <2>3. CASE UNCHANGED cpu
        BY <1>a, <1>b, <2>1, <2>3, StoreRests DEF cpu
    <2> QED
        BY <1>5, <2>2, <2>3 DEF Tick
<1>6. CASE UNCHANGED vars
    <2>1. LeftOver => LeftOver'
        BY <1>6 DEF vars, LeftOver, Executable, Fetches, InRange, Instr, Word
    <2>2. UNCHANGED <<file, trace, pc, reg, memory>>
        BY <1>6 DEF vars
    <2> QED
        BY <1>a, <2>1, <2>2, StoreRests
<1> QED
    BY <1>1, <1>2, <1>3, <1>4, <1>5, <1>6 DEF Next

(* For every program, data file and behaviour of the words: each byte of a *)
(* loaded value is what the last store to that byte before it wrote, or    *)
(* the data file's; the bytes above are its sign or zero; and the data     *)
(* memory holds what the trace says, but for the one store that an         *)
(* exception at the end of the program memory leaves without a row.        *)
THEOREM DataIsTold == Spec => []LoadsSeeStores
<1> QED
    BY HaltInit, HaltStep, LoadInit, LoadStep, StoreInit, StoreStep, StoreIsSeen, PTL DEF Spec
=============================================================================
