------------------------------ MODULE WordOps ------------------------------
(***************************************************************************)
(* The two-operand functions the ALU handlers of the interpreter apply     *)
(* (src/interpreter/interp.cc), on words of WordBits bits.  Bit positions  *)
(* are folded over, so that the same definition serves every word width.   *)
(***************************************************************************)
EXTENDS Isa, FiniteSetsExt

WordBits == CHOOSE n \in 1 .. 32 : 2 ^ n = WordMod

ASSUME WordBitsAssumption == \E n \in 1 .. 32 : 2 ^ n = WordMod

\* A fact of arithmetic, named for the proofs: no backend knows it of the exponent.
ASSUME PowersAssumption == \A n \in 0 .. WordBits - 1 : 2 ^ n > 0

Bit(w, k) == (w \div 2 ^ k) % 2
FromBits(f(_)) == MapThenSumSet(LAMBDA k : f(k) * 2 ^ k, 0 .. WordBits - 1)

BitAnd(a, b) == FromBits(LAMBDA k : Bit(a, k) * Bit(b, k))
BitOr(a, b)  == FromBits(LAMBDA k : IF Bit(a, k) + Bit(b, k) > 0 THEN 1 ELSE 0)
BitXor(a, b) == FromBits(LAMBDA k : (Bit(a, k) + Bit(b, k)) % 2)

\* slice<4, 0>: as many low bits of the shift amount as number the word's bits.
ShiftAmount(b) == b % WordBits

sllHelper(a, b) == ToWord(a * 2 ^ ShiftAmount(b))
srlHelper(a, b) == a \div 2 ^ ShiftAmount(b)
sraHelper(a, b) == ToWord(Signed(a) \div 2 ^ ShiftAmount(b))

BoolToWord(p) == IF p THEN 1 ELSE 0

AluOf(opc, a, b) ==
  CASE opc \in {"ADD", "ADDI"}   -> ToWord(a + b)
    [] opc = "SUB"               -> ToWord(a - b)
    [] opc \in {"AND", "ANDI"}   -> BitAnd(a, b)
    [] opc \in {"OR", "ORI"}     -> BitOr(a, b)
    [] opc \in {"XOR", "XORI"}   -> BitXor(a, b)
    [] opc \in {"SLL", "SLLI"}   -> sllHelper(a, b)
    [] opc \in {"SRL", "SRLI"}   -> srlHelper(a, b)
    [] opc \in {"SRA", "SRAI"}   -> sraHelper(a, b)
    [] opc \in {"SLT", "SLTI"}   -> BoolToWord(signedLess(a, b))
    [] opc \in {"SLTU", "SLTIU"} -> BoolToWord(a < b)
============================================================================
