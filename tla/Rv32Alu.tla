------------------------------ MODULE Rv32Alu ------------------------------
(***************************************************************************)
(* The OP-IMM and OP/M results step() computes (src/src/CpuModel.cpp), on  *)
(* words of WordBits bits in place of 32.  A word is a natural below       *)
(* 2^WordBits, AsSigned is as_i32, and every result is cut back to a word. *)
(* Powers and words are recursive functions and not the operators of       *)
(* Bitwise, so that theorems can be proved about them.                     *)
(***************************************************************************)
EXTENDS Integers

CONSTANT WordBits   \* 32 in the code; a power of two where shifts are used

ASSUME WordAssumption == WordBits \in Nat \ {0}

Pow2[n \in Nat] == IF n = 0 THEN 1 ELSE 2 * Pow2[n - 1]

Modulus == Pow2[WordBits]
Half == Pow2[WordBits - 1]
MaxWord == Modulus - 1

AsSigned(a) == IF a >= Half THEN a - Modulus ELSE a
Cut(n) == n % Modulus
Flag(p) == IF p THEN 1 ELSE 0

(* A word as the set of its bits that are 1, and back.                     *)
BitsOf(a) == {i \in 0 .. WordBits - 1 : (a \div Pow2[i]) % 2 = 1}
WordOf(S) ==
    LET low[n \in Nat] == IF n = 0 THEN 0
                          ELSE low[n - 1] + (IF n - 1 \in S THEN Pow2[n - 1] ELSE 0)
    IN  low[WordBits]

(* The shift amount is masked to log2(WordBits) bits (0x1f for 32).        *)
Shamt(b) == b % WordBits

(* C++ division of signed integers truncates toward zero. *)
Magnitude(n) == IF n < 0 THEN -n ELSE n
Quotient(n, d) == LET q == Magnitude(n) \div Magnitude(d)
                  IN  IF (n < 0) = (d < 0) THEN q ELSE -q
Remainder(n, d) == n - d * Quotient(n, d)

AluResult(fn, a, b) ==
    CASE fn \in {"ADD", "ADDI"}   -> Cut(a + b)
      [] fn = "SUB"               -> Cut(a - b)
      [] fn \in {"SLT", "SLTI"}   -> Flag(AsSigned(a) < AsSigned(b))
      [] fn \in {"SLTU", "SLTIU"} -> Flag(a < b)
      [] fn \in {"XOR", "XORI"}   -> WordOf((BitsOf(a) \cup BitsOf(b)) \ (BitsOf(a) \cap BitsOf(b)))
      [] fn \in {"OR", "ORI"}     -> WordOf(BitsOf(a) \cup BitsOf(b))
      [] fn \in {"AND", "ANDI"}   -> WordOf(BitsOf(a) \cap BitsOf(b))
      [] fn \in {"SLL", "SLLI"}   -> Cut(a * Pow2[Shamt(b)])
      [] fn \in {"SRL", "SRLI"}   -> a \div Pow2[Shamt(b)]
      [] fn \in {"SRA", "SRAI"}   -> Cut(AsSigned(a) \div Pow2[Shamt(b)])
      [] fn = "MUL"    -> Cut(AsSigned(a) * AsSigned(b))
      [] fn = "MULH"   -> Cut((AsSigned(a) * AsSigned(b)) \div Modulus)
      [] fn = "MULHSU" -> Cut((AsSigned(a) * b) \div Modulus)
      [] fn = "MULHU"  -> Cut((a * b) \div Modulus)
      [] fn = "DIV"    -> IF b = 0 THEN MaxWord
                          ELSE IF a = Half /\ b = MaxWord THEN Half
                          ELSE Cut(Quotient(AsSigned(a), AsSigned(b)))
      [] fn = "DIVU"   -> IF b = 0 THEN MaxWord ELSE a \div b
      [] fn = "REM"    -> IF b = 0 THEN a
                          ELSE IF a = Half /\ b = MaxWord THEN 0
                          ELSE Cut(Remainder(AsSigned(a), AsSigned(b)))
      [] fn = "REMU"   -> IF b = 0 THEN a ELSE a % b
=============================================================================
