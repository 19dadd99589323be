------------------------------ MODULE Decoder ------------------------------
(***************************************************************************)
(* Instruction::decode (src/isa/isa.cc) on real instruction words.         *)
(*                                                                         *)
(* A word is its six fields, so that every number stays small; an          *)
(* immediate is the signed value of the 32 bits stored in it.  decode      *)
(* tries four switches in the order of the code, each over more or fewer   *)
(* fields.  Opposite it stands the assembler, which is not in this         *)
(* repository: the bit patterns decode's comments document, and the        *)
(* scrambled immediates of the instruction formats.                        *)
(*                                                                         *)
(* One step decodes one word: one that was assembled, or any word.         *)
(***************************************************************************)
EXTENDS Integers

CONSTANTS Insns,   \* instructions to assemble
          Words    \* words to decode whatever they are

Reg == 0 .. 31
Word == [funct7 : 0 .. 127, rs2 : Reg, rs1 : Reg, funct3 : 0 .. 7, rd : Reg, opcode : 0 .. 127]

ASSUME WordsAssumption == Words \subseteq Word

NoInsn == [opc |-> "none", rd |-> 0, rs1 |-> 0, rs2 |-> 0, imm |-> 0]

----------------------------------------------------------------------------
(* The four switches: opcode and funct3; all fixed fields; opcode; all bits. *)

LOAD == 3
OP_IMM == 19
STORE == 35
OP == 51
BRANCH == 99

ByFunct3(w) ==
  LET op == w.opcode
      f3 == w.funct3
  IN  CASE op = LOAD /\ f3 = 0 -> "LB" [] op = LOAD /\ f3 = 1 -> "LH"
        [] op = LOAD /\ f3 = 2 -> "LW" [] op = LOAD /\ f3 = 4 -> "LBU"
        [] op = LOAD /\ f3 = 5 -> "LHU" [] op = 15 /\ f3 = 0 -> "FENCE"
        [] op = OP_IMM /\ f3 = 0 -> "ADDI" [] op = OP_IMM /\ f3 = 1 -> "SLLI"
        [] op = OP_IMM /\ f3 = 2 -> "SLTI" [] op = OP_IMM /\ f3 = 3 -> "SLTIU"
        [] op = OP_IMM /\ f3 = 4 -> "XORI" [] op = OP_IMM /\ f3 = 6 -> "ORI"
        [] op = OP_IMM /\ f3 = 7 -> "ANDI" [] op = STORE /\ f3 = 0 -> "SB"
        [] op = STORE /\ f3 = 1 -> "SH" [] op = STORE /\ f3 = 2 -> "SW"
        [] op = BRANCH /\ f3 = 0 -> "BEQ" [] op = BRANCH /\ f3 = 1 -> "BNE"
        [] op = BRANCH /\ f3 = 4 -> "BLT" [] op = BRANCH /\ f3 = 5 -> "BGE"
        [] op = BRANCH /\ f3 = 6 -> "BLTU" [] op = BRANCH /\ f3 = 7 -> "BGEU"
        [] OTHER -> "none"

ByFunct7(w) ==
  LET fixed == <<w.funct7, w.funct3, w.opcode>>
  IN  CASE fixed = <<0, 5, OP_IMM>> -> "SRLI" [] fixed = <<32, 5, OP_IMM>> -> "SRAI"
        [] fixed = <<0, 0, OP>> -> "ADD" [] fixed = <<0, 1, OP>> -> "SLL"
        [] fixed = <<0, 2, OP>> -> "SLT" [] fixed = <<0, 3, OP>> -> "SLTU"
        [] fixed = <<0, 4, OP>> -> "XOR" [] fixed = <<0, 5, OP>> -> "SRL"
        [] fixed = <<0, 6, OP>> -> "OR" [] fixed = <<0, 7, OP>> -> "AND"
        [] fixed = <<32, 0, OP>> -> "SUB" [] fixed = <<32, 5, OP>> -> "SRA"
        [] OTHER -> "none"

ByOpcode(w) ==
  CASE w.opcode = 23 -> "AUIPC" [] w.opcode = 55 -> "LUI" [] w.opcode = 103 -> "JALR"
    [] w.opcode = 111 -> "JAL" [] OTHER -> "none"

System(w) == w.opcode = 115 /\ w.funct7 = 0 /\ w.rs1 = 0 /\ w.funct3 = 0 /\ w.rd = 0
ByWord(w) ==
  CASE System(w) /\ w.rs2 = 0 -> "ECALL" [] System(w) /\ w.rs2 = 1 -> "EBREAK" [] OTHER -> "none"

decodeOpcode(w) ==
  IF ByFunct3(w) # "none" THEN ByFunct3(w)
  ELSE IF ByFunct7(w) # "none" THEN ByFunct7(w)
  ELSE IF ByOpcode(w) # "none" THEN ByOpcode(w)
  ELSE ByWord(w)

----------------------------------------------------------------------------
(* The operands of each format.  Immediate fields are or-ed from slices    *)
(* that do not overlap, hence sums -- but FENCE's three, which do.         *)

IOps == {"LB", "LH", "LW", "LBU", "LHU", "ADDI", "SLTI", "SLTIU", "XORI", "ORI", "ANDI", "JALR"}
ShiftOps == {"SLLI", "SRLI", "SRAI"}
SOps == {"SB", "SH", "SW"}
BOps == {"BEQ", "BNE", "BLT", "BGE", "BLTU", "BGEU"}
UOps == {"LUI", "AUIPC"}
ROps == {"ADD", "SUB", "SLL", "SLT", "SLTU", "XOR", "SRL", "SRA", "OR", "AND"}
SystemOps == {"ECALL", "EBREAK"}

Format(opc) ==
  CASE opc \in IOps -> "I" [] opc \in ShiftOps -> "Shift" [] opc \in SOps -> "S"
    [] opc \in BOps -> "B" [] opc \in UOps -> "U" [] opc = "JAL" -> "J" [] opc \in ROps -> "R"
    [] opc = "FENCE" -> "Fence" [] OTHER -> "None"

WritesRd == {"I", "Shift", "U", "J", "R"}
ReadsRs1 == {"I", "Shift", "S", "B", "R"}
ReadsRs2 == {"S", "B", "R"}

\* (slice<31,31> << 31) >> n: the sign, carried down to the bit of this weight from bit 31.
Sign(w, weight) == IF w.funct7 < 64 THEN 0 ELSE -weight
\* slice<30,25> and slice<30,20>
Bits30_25(w) == w.funct7 % 64
Bits30_20(w) == Bits30_25(w) * 32 + w.rs2

immI(w) == Sign(w, 2048) + Bits30_20(w)
immS(w) == Sign(w, 2048) + Bits30_25(w) * 32 + w.rd
immU(w) == Sign(w, 1073741824) + Sign(w, 1073741824)
             + Bits30_20(w) * 1048576 + w.rs1 * 32768 + w.funct3 * 4096

\* Mistake: the two out-of-place bits trade places with the sign.
immBPlain(w) == Sign(w, 2048) + Bits30_25(w) * 32 + (w.rd \div 2) * 2 + (w.rd % 2)
immB(w) == Sign(w, 4096) + Bits30_25(w) * 32 + (w.rd \div 2) * 2 + (w.rd % 2) * 2048

\* Mistake: bit 20 of the word is dropped.
immJNoBit11(w) ==
  Sign(w, 1048576) + (Bits30_20(w) \div 2) * 2 + w.rs1 * 32768 + w.funct3 * 4096
immJ(w) ==
  Sign(w, 1048576) + (Bits30_20(w) \div 2) * 2 + (w.rs2 % 2) * 2048
    + w.rs1 * 32768 + w.funct3 * 4096

\* slice<31,28>, slice<27,24> and slice<23,20>, or-ed bit by bit.
immFence(w) ==
  LET bit(n, weight) == (n \div weight) % 2
      or(weight) == IF 1 \in {bit(w.funct7 \div 8, weight),
                              bit((w.funct7 % 8) * 2 + w.rs2 \div 16, weight),
                              bit(w.rs2 % 16, weight)}
                    THEN weight ELSE 0
  IN  or(1) + or(2) + or(4) + or(8)

decodeImm(f, w) ==
  CASE f = "I" -> immI(w) [] f = "S" -> immS(w) [] f = "B" -> immB(w) [] f = "U" -> immU(w)
    [] f = "J" -> immJ(w) [] f = "Shift" -> w.rs2 [] f = "Fence" -> immFence(w) [] OTHER -> 0

decode(w) ==
  LET opc == decodeOpcode(w)
      f == Format(opc)
  IN  [opc |-> opc,
       rd  |-> IF f \in WritesRd \cup {"Fence"} THEN w.rd ELSE 0,
       rs1 |-> IF f \in ReadsRs1 \cup {"Fence"} THEN w.rs1 ELSE 0,
       rs2 |-> IF f \in ReadsRs2 THEN w.rs2 ELSE 0,
       imm |-> decodeImm(f, w)]

----------------------------------------------------------------------------
(* The assembler.                                                          *)

Free == -1
\* The fixed fields <<funct7, funct3, opcode>> of decode's comments (//! lines).
Pattern(opc) ==
  CASE opc = "LB" -> <<Free, 0, LOAD>> [] opc = "LH" -> <<Free, 1, LOAD>>
    [] opc = "LW" -> <<Free, 2, LOAD>> [] opc = "LBU" -> <<Free, 4, LOAD>>
    [] opc = "LHU" -> <<Free, 5, LOAD>> [] opc = "FENCE" -> <<Free, 0, 15>>
    [] opc = "ADDI" -> <<Free, 0, OP_IMM>> [] opc = "SLLI" -> <<0, 1, OP_IMM>>
    [] opc = "SLTI" -> <<Free, 2, OP_IMM>> [] opc = "SLTIU" -> <<Free, 3, OP_IMM>>
    [] opc = "XORI" -> <<Free, 4, OP_IMM>> [] opc = "ORI" -> <<Free, 6, OP_IMM>>
    [] opc = "ANDI" -> <<Free, 7, OP_IMM>> [] opc = "SB" -> <<Free, 0, STORE>>
    [] opc = "SH" -> <<Free, 1, STORE>> [] opc = "SW" -> <<Free, 2, STORE>>
    [] opc = "BEQ" -> <<Free, 0, BRANCH>> [] opc = "BNE" -> <<Free, 1, BRANCH>>
    [] opc = "BLT" -> <<Free, 4, BRANCH>> [] opc = "BGE" -> <<Free, 5, BRANCH>>
    [] opc = "BLTU" -> <<Free, 6, BRANCH>> [] opc = "BGEU" -> <<Free, 7, BRANCH>>
    [] opc = "SRLI" -> <<0, 5, OP_IMM>> [] opc = "SRAI" -> <<32, 5, OP_IMM>>
    [] opc = "ADD" -> <<0, 0, OP>> [] opc = "SLL" -> <<0, 1, OP>> [] opc = "SLT" -> <<0, 2, OP>>
    [] opc = "SLTU" -> <<0, 3, OP>> [] opc = "XOR" -> <<0, 4, OP>> [] opc = "SRL" -> <<0, 5, OP>>
    [] opc = "OR" -> <<0, 6, OP>> [] opc = "AND" -> <<0, 7, OP>> [] opc = "SUB" -> <<32, 0, OP>>
    [] opc = "SRA" -> <<32, 5, OP>> [] opc = "AUIPC" -> <<Free, Free, 23>>
    [] opc = "LUI" -> <<Free, Free, 55>> [] opc = "JALR" -> <<Free, 0, 103>>
    [] opc = "JAL" -> <<Free, Free, 111>> [] OTHER -> <<0, 0, 115>>

\* A format has the bits for this immediate.
Fits(f, v) ==
  CASE f \in {"I", "S"} -> -2048 <= v /\ v < 2048
    [] f = "B" -> -4096 <= v /\ v < 4096 /\ v % 2 = 0
    [] f = "U" -> -1073741824 - 1073741824 <= v /\ v <= 2147483647 /\ v % 4096 = 0
    [] f = "J" -> -1048576 <= v /\ v < 1048576 /\ v % 2 = 0
    [] f = "Shift" -> 0 <= v /\ v < 32
    [] OTHER -> v = 0

Assembled == IOps \cup ShiftOps \cup SOps \cup BOps \cup UOps \cup ROps \cup SystemOps \cup {"JAL"}

\* An instruction an assembler takes: without the operands its format has not.
Assemblable(insn) ==
  LET f == Format(insn.opc)
  IN  /\ insn \in [opc : Assembled, rd : Reg, rs1 : Reg, rs2 : Reg, imm : Int]
      /\ Fits(f, insn.imm)
      /\ f \notin WritesRd => insn.rd = 0
      /\ f \notin ReadsRs1 => insn.rs1 = 0
      /\ f \notin ReadsRs2 => insn.rs2 = 0

ASSUME InsnsAssumption == \A insn \in Insns : Assemblable(insn)

\* A slice of a number's two's complement: from the bit of this weight, n values of it.
Bits(v, weight, n) == (v \div weight) % n

Encode(insn) ==
  LET f == Format(insn.opc)
      pat == Pattern(insn.opc)
      v == insn.imm
      fixed(x, else) == IF x = Free THEN else ELSE x
  IN  [opcode |-> pat[3],
       rd |-> CASE f = "S" -> Bits(v, 1, 32)
                [] f = "B" -> Bits(v, 2, 16) * 2 + Bits(v, 2048, 2)
                [] OTHER -> insn.rd,
       funct3 |-> fixed(pat[2], Bits(v, 4096, 8)),
       rs1 |-> IF f \in {"U", "J"} THEN Bits(v, 32768, 32) ELSE insn.rs1,
       rs2 |-> CASE f \in {"I", "Shift"} -> Bits(v, 1, 32)
                 [] f = "U" -> Bits(v, 1048576, 32)
                 [] f = "J" -> Bits(v, 2, 16) * 2 + Bits(v, 2048, 2)
                 [] insn.opc = "EBREAK" -> 1
                 [] OTHER -> insn.rs2,
       funct7 |-> fixed(pat[1],
                   CASE f \in {"I", "S"} -> Bits(v, 32, 128)
                     [] f = "B" -> Bits(v, 4096, 2) * 64 + Bits(v, 32, 64)
                     [] f = "U" -> Bits(v, 33554432, 128)
                     [] f = "J" -> Bits(v, 1048576, 2) * 64 + Bits(v, 32, 64)
                     [] OTHER -> 0)]

Documented(opc, w) ==
  LET pat == Pattern(opc)
  IN  /\ pat[1] \in {Free, w.funct7} /\ pat[2] \in {Free, w.funct3} /\ pat[3] = w.opcode

----------------------------------------------------------------------------
VARIABLES assembled,  \* the instruction the word was assembled from, or NoInsn
          word,       \* the word
          decoded,    \* what decode returned; NoInsn for nullopt
          done        \* whether it was called

vars == <<assembled, word, decoded, done>>

Init ==
  /\ \/ assembled \in Insns /\ word = Encode(assembled)
     \/ assembled = NoInsn /\ word \in Words
  /\ decoded = NoInsn
  /\ done = FALSE

DecodeWord ==
  /\ ~done
  /\ decoded' = decode(word)
  /\ done' = TRUE
  /\ UNCHANGED <<assembled, word>>

Spec == Init /\ [][DecodeWord]_vars

----------------------------------------------------------------------------
\* Every assembled instruction is decoded as what it is, scrambled immediates and
\* sign extensions included: no earlier switch takes another one's words.
RoundTrip == done /\ assembled # NoInsn => decoded = assembled

\* A word that decodes, and matches its documented pattern, assembles back to the same
\* word: decode drops no bit that tells two instructions apart (FENCE's are dropped).
LosesNothing ==
  done /\ decoded.opc \notin {"none", "FENCE"} /\ Documented(decoded.opc, word)
    => Encode(decoded) = word

\* Every word decodes to an instruction only when it has that instruction's documented
\* pattern (the //! comments of decode).
DecodesAsDocumented == done /\ decoded.opc # "none" => Documented(decoded.opc, word)
============================================================================
