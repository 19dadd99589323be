-------------------------------- MODULE Isa --------------------------------
(***************************************************************************)
(* The instruction set the simulator is written against (src/isa).         *)
(*                                                                         *)
(* Words keep their structure and lose their width: a word is four bytes   *)
(* of ByteMod values each, so all arithmetic is modulo ByteMod^4, a half   *)
(* is ByteMod^2, an instruction occupies four byte addresses and the       *)
(* address space wraps where the machine's does.  The code has             *)
(* ByteMod = 256 and NumRegs = 32; the checked instances are smaller.      *)
(***************************************************************************)
EXTENDS Integers, Sequences

CONSTANTS ByteMod,      \* values of a byte
          NumRegs       \* general registers, x0 included

ASSUME ByteModAssumption == ByteMod \in Nat /\ ByteMod > 1 /\ ByteMod % 2 = 0
ASSUME NumRegsAssumption == NumRegs \in Nat /\ NumRegs > 0

kWordSize == 4
HalfMod == ByteMod * ByteMod
WordMod == HalfMod * HalfMod

Byte == 0 .. ByteMod - 1
Word == 0 .. WordMod - 1
Reg  == 0 .. NumRegs - 1

\* Unsigned arithmetic wraps.
ToWord(n) == n % WordMod

\* static_cast to the signed word type: two's complement.
Signed(w) == IF w < WordMod \div 2 THEN w ELSE w - WordMod

signedLess(lhs, rhs) == Signed(lhs) < Signed(rhs)

\* signExtend from a field of "mod" values to a word.
signExtend(v, mod) == IF v < mod \div 2 THEN v ELSE WordMod - mod + v

AluRegOps == {"ADD", "SUB", "AND", "OR", "XOR", "SLL", "SRL", "SRA", "SLT", "SLTU"}
AluImmOps == {"ADDI", "ANDI", "ORI", "XORI", "SLLI", "SRLI", "SRAI", "SLTI", "SLTIU"}
BranchOps == {"BEQ", "BNE", "BLT", "BGE", "BLTU", "BGEU"}
LoadOps   == {"LB", "LBU", "LH", "LHU", "LW"}
StoreOps  == {"SB", "SH", "SW"}
NoEffectOps == {"EBREAK", "FENCE", "PAUSE", "SBREAK", "SCALL"}

Opcode == AluRegOps \cup AluImmOps \cup BranchOps \cup LoadOps \cup StoreOps
            \cup NoEffectOps \cup {"AUIPC", "LUI", "JAL", "JALR", "ECALL"}

\* Mistake: the exit call does not end a block.
isTerminatorButECALL(opc) ==
  opc \in BranchOps \cup {"EBREAK", "FENCE", "JAL", "JALR"}

\* Mistake: an indirect jump does not end a block.
isTerminatorButJALR(opc) ==
  opc \in BranchOps \cup {"EBREAK", "ECALL", "FENCE", "JAL"}

\* What ends a basic block ...
isTerminator(opc) ==
  opc \in BranchOps \cup {"EBREAK", "ECALL", "FENCE", "JAL", "JALR"}

\* ... and what writes the program counter itself.
changesPC(opc) == opc \in BranchOps \cup {"JAL", "JALR"}

Instruction == [opc : Opcode, rd : Reg, rs1 : Reg, rs2 : Reg, imm : Word]

\* Instruction::decode as a table over the words that decode at all; the
\* encodings themselves are the subject of module Decoder.
CONSTANT Decode
ASSUME DecodeAssumption == /\ DOMAIN Decode \subseteq Word
                           /\ \A w \in DOMAIN Decode : Decode[w] \in Instruction
============================================================================
