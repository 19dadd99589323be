--------------------------- MODULE DecoderProofs ---------------------------
(***************************************************************************)
(* decode inverts the assembler on every instruction and loses nothing of  *)
(* any word, not only at the joints of the fields.                         *)
(***************************************************************************)
EXTENDS Decoder, TLAPS

----------------------------------------------------------------------------
(* Formats.                                                                *)

LEMMA FormatOf ==
  /\ \A opc \in IOps : Format(opc) = "I"
  /\ \A opc \in ShiftOps : Format(opc) = "Shift"
  /\ \A opc \in SOps : Format(opc) = "S"
  /\ \A opc \in BOps : Format(opc) = "B"
  /\ \A opc \in UOps : Format(opc) = "U"
  /\ Format("JAL") = "J"
  /\ \A opc \in ROps : Format(opc) = "R"
  /\ \A opc \in SystemOps : Format(opc) = "None"
  BY DEF Format, IOps, ShiftOps, SOps, BOps, UOps, ROps, SystemOps

----------------------------------------------------------------------------
(* The fixed fields tell the opcode.                                       *)

\* The free fields are those the operands fill.
LEMMA OpcodeOfPattern ==
  ASSUME NEW opc \in Assembled \ SystemOps, NEW w \in Word,
         Documented(opc, w)
  PROVE  decodeOpcode(w) = opc
<1> USE DEF LOAD, OP_IMM, STORE, OP, BRANCH
<1>1. /\ w.funct7 \in 0 .. 127 /\ w.funct3 \in 0 .. 7 /\ w.opcode \in 0 .. 127
      /\ Pattern(opc)[1] = Free \/ Pattern(opc)[1] = w.funct7
      /\ Pattern(opc)[2] = Free \/ Pattern(opc)[2] = w.funct3
      /\ Pattern(opc)[3] = w.opcode
  BY DEF Word, Documented
<1>2. CASE opc \in IOps \ {"JALR"}
  <2>1. ByFunct3(w) = opc
    BY <1>1, <1>2 DEF IOps, Pattern, ByFunct3, Free
  <2> QED
    BY <1>2, <2>1 DEF IOps, decodeOpcode
<1>3. CASE opc \in SOps \cup BOps
  <2>1. ByFunct3(w) = opc
    BY <1>1, <1>3 DEF SOps, BOps, Pattern, ByFunct3, Free
  <2> QED
    BY <1>3, <2>1 DEF SOps, BOps, decodeOpcode
<1>4. CASE opc \in UOps \cup {"JAL", "JALR"}
  <2>1. ByFunct3(w) = "none" /\ ByFunct7(w) = "none" /\ ByOpcode(w) = opc
    BY <1>1, <1>4 DEF UOps, Pattern, ByFunct3, ByFunct7, ByOpcode, Free
  <2> QED
    BY <1>4, <2>1 DEF UOps, decodeOpcode
<1>5. CASE opc \in ROps
  <2>1. ByFunct3(w) = "none" /\ ByFunct7(w) = opc
    BY <1>1, <1>5 DEF ROps, Pattern, ByFunct3, ByFunct7, Free
  <2> QED
    BY <1>5, <2>1 DEF ROps, decodeOpcode
<1>6. CASE opc = "SLLI"
  <2>1. ByFunct3(w) = opc
    BY <1>1, <1>6 DEF Pattern, ByFunct3, Free
  <2> QED
    BY <1>6, <2>1 DEF decodeOpcode
<1>7. CASE opc \in {"SRLI", "SRAI"}
  <2>1. ByFunct3(w) = "none" /\ ByFunct7(w) = opc
    BY <1>1, <1>7 DEF Pattern, ByFunct3, ByFunct7, Free
  <2> QED
    BY <1>7, <2>1 DEF decodeOpcode
<1> QED
  BY <1>2, <1>3, <1>4, <1>5, <1>6, <1>7 DEF Assembled, ShiftOps

\* The last switch knows two words.
LEMMA OpcodeOfSystem ==
  ASSUME NEW w \in Word
  PROVE  /\ System(w) /\ w.rs2 = 0 => decodeOpcode(w) = "ECALL"
         /\ System(w) /\ w.rs2 = 1 => decodeOpcode(w) = "EBREAK"
         /\ decodeOpcode(w) = "ECALL" => System(w) /\ w.rs2 = 0
         /\ decodeOpcode(w) = "EBREAK" => System(w) /\ w.rs2 = 1
<1> USE DEF LOAD, OP_IMM, STORE, OP, BRANCH
<1>1. System(w) => ByFunct3(w) = "none" /\ ByFunct7(w) = "none" /\ ByOpcode(w) = "none"
  BY DEF System, ByFunct3, ByFunct7, ByOpcode
<1>2. /\ ByFunct3(w) \notin SystemOps /\ ByFunct7(w) \notin SystemOps
      /\ ByOpcode(w) \notin SystemOps
  BY DEF ByFunct3, ByFunct7, ByOpcode, SystemOps
<1>3. CASE decodeOpcode(w) \in SystemOps
  BY <1>2, <1>3 DEF decodeOpcode, ByWord, SystemOps
<1>4. CASE System(w)
  BY <1>1, <1>4 DEF decodeOpcode, ByWord
<1> QED
  BY <1>3, <1>4 DEF SystemOps

\* There is no other result.
LEMMA DecodedOpcodes ==
  ASSUME NEW w
  PROVE  decodeOpcode(w) \in Assembled \cup {"FENCE", "none"}
<1>1. ByFunct3(w) \in Assembled \cup {"FENCE", "none"}
  BY DEF ByFunct3, Assembled, IOps, ShiftOps, SOps, BOps
<1>2. ByFunct7(w) \in Assembled \cup {"FENCE", "none"}
  BY DEF ByFunct7, Assembled, ShiftOps, ROps
<1>3. ByOpcode(w) \in Assembled \cup {"FENCE", "none"} /\ ByWord(w) \in Assembled \cup {"none"}
  BY DEF ByOpcode, ByWord, Assembled, IOps, UOps, SystemOps
<1> QED
  BY <1>1, <1>2, <1>3 DEF decodeOpcode

----------------------------------------------------------------------------
(* An assembled word.                                                      *)

LEMMA BitsRange ==
  ASSUME NEW v \in Int
  PROVE  /\ Bits(v, 1, 32) \in Reg /\ Bits(v, 32768, 32) \in Reg /\ Bits(v, 1048576, 32) \in Reg
         /\ Bits(v, 2, 16) \in 0 .. 15 /\ Bits(v, 2048, 2) \in 0 .. 1
         /\ Bits(v, 4096, 8) \in 0 .. 7 /\ Bits(v, 4096, 2) \in 0 .. 1
         /\ Bits(v, 1048576, 2) \in 0 .. 1 /\ Bits(v, 32, 64) \in 0 .. 63
         /\ Bits(v, 32, 128) \in 0 .. 127 /\ Bits(v, 33554432, 128) \in 0 .. 127
  BY DEF Bits, Reg

LEMMA PatternRange ==
  ASSUME NEW opc
  PROVE  /\ Pattern(opc)[1] \in {Free} \cup 0 .. 127
         /\ Pattern(opc)[2] \in {Free} \cup 0 .. 7
         /\ Pattern(opc)[3] \in 0 .. 127
  BY DEF Pattern, LOAD, OP_IMM, STORE, OP, BRANCH

LEMMA EncodedWord ==
  ASSUME NEW insn, Assemblable(insn)
  PROVE  Encode(insn) \in Word /\ Documented(insn.opc, Encode(insn))
<1> DEFINE v == insn.imm
           w == Encode(insn)
<1>1. v \in Int /\ insn.rd \in Reg /\ insn.rs1 \in Reg /\ insn.rs2 \in Reg
  BY DEF Assemblable
<1>2. w.rd \in Reg /\ w.rs1 \in Reg /\ w.rs2 \in Reg
  BY <1>1, BitsRange DEF Encode, Reg
<1>3. w.funct3 \in 0 .. 7 /\ w.funct7 \in 0 .. 127 /\ w.opcode \in 0 .. 127
  BY <1>1, BitsRange, PatternRange DEF Encode, Free
<1>4. w = [funct7 |-> w.funct7, rs2 |-> w.rs2, rs1 |-> w.rs1, funct3 |-> w.funct3, rd |-> w.rd,
           opcode |-> w.opcode]
  BY DEF Encode
<1>5. w \in Word
  BY <1>2, <1>3, <1>4 DEF Word
<1>6. Documented(insn.opc, w)
  BY DEF Documented, Encode
<1> QED
  BY <1>5, <1>6

\* So the switches find the instruction again.
LEMMA EncodedOpcode ==
  ASSUME NEW insn, Assemblable(insn)
  PROVE  decodeOpcode(Encode(insn)) = insn.opc
<1> DEFINE w == Encode(insn)
<1>1. w \in Word /\ Documented(insn.opc, w) /\ insn.opc \in Assembled
  BY EncodedWord DEF Assemblable
<1>2. CASE insn.opc \notin SystemOps
  BY <1>1, <1>2, OpcodeOfPattern
<1>3. CASE insn.opc \in SystemOps
  <2>1. Format(insn.opc) = "None" /\ Pattern(insn.opc) = <<0, 0, 115>>
    BY <1>3, FormatOf DEF SystemOps, Pattern
  <2>2. insn.rd = 0 /\ insn.rs1 = 0 /\ insn.rs2 = 0
    BY <2>1 DEF Assemblable, WritesRd, ReadsRs1, ReadsRs2
  <2>3. System(w) /\ w.rs2 = IF insn.opc = "EBREAK" THEN 1 ELSE 0
    BY <2>1, <2>2 DEF Encode, System, Free
  <2> QED
    BY <1>1, <1>3, <2>3, OpcodeOfSystem DEF SystemOps
<1> QED
  BY <1>2, <1>3

----------------------------------------------------------------------------
(* The scattered immediates.                                               *)

\* What a format's fields are cut from is put together again, ...
LEMMA ImmediateI ==
  ASSUME NEW w \in Word, NEW v \in Int, Fits("I", v),
         w.funct7 = Bits(v, 32, 128), w.rs2 = Bits(v, 1, 32)
  PROVE  immI(w) = v
  BY DEF Fits, Bits, immI, Sign, Bits30_20, Bits30_25

LEMMA ImmediateS ==
  ASSUME NEW w \in Word, NEW v \in Int, Fits("S", v),
         w.funct7 = Bits(v, 32, 128), w.rd = Bits(v, 1, 32)
  PROVE  immS(w) = v
  BY DEF Fits, Bits, immS, Sign, Bits30_25

LEMMA ImmediateB ==
  ASSUME NEW w \in Word, NEW v \in Int, Fits("B", v),
         w.funct7 = Bits(v, 4096, 2) * 64 + Bits(v, 32, 64),
         w.rd = Bits(v, 2, 16) * 2 + Bits(v, 2048, 2)
  PROVE  immB(w) = v
<1>1. -4096 <= v /\ v < 4096 /\ v % 2 = 0
  BY DEF Fits
<1> QED
  BY <1>1, SMTT(60) DEF Bits, immB, Sign, Bits30_25

LEMMA ImmediateU ==
  ASSUME NEW w \in Word, NEW v \in Int, Fits("U", v),
         w.funct7 = Bits(v, 33554432, 128), w.rs2 = Bits(v, 1048576, 32),
         w.rs1 = Bits(v, 32768, 32), w.funct3 = Bits(v, 4096, 8)
  PROVE  immU(w) = v
<1>1. -1073741824 - 1073741824 <= v /\ v <= 2147483647 /\ v % 4096 = 0
  BY DEF Fits
<1> QED
  BY <1>1, SMTT(60) DEF Bits, immU, Sign, Bits30_20, Bits30_25

LEMMA ImmediateJ ==
  ASSUME NEW w \in Word, NEW v \in Int, Fits("J", v),
         w.funct7 = Bits(v, 1048576, 2) * 64 + Bits(v, 32, 64),
         w.rs2 = Bits(v, 2, 16) * 2 + Bits(v, 2048, 2),
         w.rs1 = Bits(v, 32768, 32), w.funct3 = Bits(v, 4096, 8)
  PROVE  immJ(w) = v
<1> DEFINE s == Bits(v, 1048576, 2)
           p == Bits(v, 32768, 32)
           q == Bits(v, 4096, 8)
           c == Bits(v, 2048, 2)
           a == Bits(v, 32, 64)
           d == Bits(v, 2, 16)
<1>1. -1048576 <= v /\ v < 1048576 /\ v % 2 = 0
  BY DEF Fits
<1>2. /\ s \in 0 .. 1 /\ p \in 0 .. 31 /\ q \in 0 .. 7
      /\ c \in 0 .. 1 /\ a \in 0 .. 63 /\ d \in 0 .. 15
  BY BitsRange DEF Reg
<1>3. v = -1048576 * s + 32768 * p + 4096 * q + 2048 * c + 32 * a + 2 * d
  <2>1. v = 32 * (v \div 32) + 2 * d
    BY <1>1 DEF Bits
  <2>2. v \div 32 = 64 * (v \div 2048) + a
    BY DEF Bits
  <2>3. v \div 2048 = 2 * (v \div 4096) + c
    BY DEF Bits
  <2>4. v \div 4096 = 8 * (v \div 32768) + q
    BY DEF Bits
  <2>5. v \div 32768 = 32 * (v \div 1048576) + p
    BY DEF Bits
  <2>6. v \div 1048576 = -s
    BY <1>1 DEF Bits
  <2> HIDE DEF s, p, q, c, a, d
  <2> QED
    BY <1>2, <2>1, <2>2, <2>3, <2>4, <2>5, <2>6
<1>4. w.funct7 = s * 64 + a /\ w.rs2 = d * 2 + c /\ w.rs1 = p /\ w.funct3 = q
  OBVIOUS
<1> HIDE DEF s, p, q, c, a, d
<1>5. Sign(w, 1048576) = -1048576 * s
  BY <1>2, <1>4 DEF Sign
<1>6. (Bits30_20(w) \div 2) * 2 = 32 * a + 2 * d /\ w.rs2 % 2 = c
  BY <1>2, <1>4 DEF Bits30_20, Bits30_25
<1> QED
  BY <1>2, <1>3, <1>4, <1>5, <1>6 DEF immJ

\* ... and what it is put together from is cut out of it again.
LEMMA FieldsI ==
  ASSUME NEW w \in Word
  PROVE  /\ immI(w) \in Int /\ Fits("I", immI(w))
         /\ w.funct7 = Bits(immI(w), 32, 128) /\ w.rs2 = Bits(immI(w), 1, 32)
<1> DEFINE v == immI(w)
           f == w.funct7
           b == w.rs2
           s == w.funct7 \div 64
           a == w.funct7 % 64
<1>1. f \in 0 .. 127 /\ b \in 0 .. 31
  BY DEF Word, Reg
<1>2. s \in 0 .. 1 /\ a \in 0 .. 63 /\ f = 64 * s + a
  BY <1>1
<1>3. v = -2048 * s + 32 * a + b
  BY <1>1 DEF immI, Sign, Bits30_20, Bits30_25
<1> HIDE DEF v, f, b, s, a
<1>4. v \in Int /\ -2048 <= v /\ v < 2048
  BY <1>1, <1>2, <1>3
<1>5. (v \div 32) % 128 = f /\ (v \div 1) % 32 = b
  BY <1>1, <1>2, <1>3
<1> QED
  BY <1>4, <1>5 DEF Fits, Bits, v, f, b

LEMMA FieldsS ==
  ASSUME NEW w \in Word
  PROVE  /\ immS(w) \in Int /\ Fits("S", immS(w))
         /\ w.funct7 = Bits(immS(w), 32, 128) /\ w.rd = Bits(immS(w), 1, 32)
<1> DEFINE v == immS(w)
           f == w.funct7
           b == w.rd
           s == w.funct7 \div 64
           a == w.funct7 % 64
<1>1. f \in 0 .. 127 /\ b \in 0 .. 31
  BY DEF Word, Reg
<1>2. s \in 0 .. 1 /\ a \in 0 .. 63 /\ f = 64 * s + a
  BY <1>1
<1>3. v = -2048 * s + 32 * a + b
  BY <1>1 DEF immS, Sign, Bits30_25
<1> HIDE DEF v, f, b, s, a
<1>4. v \in Int /\ -2048 <= v /\ v < 2048
  BY <1>1, <1>2, <1>3
<1>5. (v \div 32) % 128 = f /\ (v \div 1) % 32 = b
  BY <1>1, <1>2, <1>3
<1> QED
  BY <1>4, <1>5 DEF Fits, Bits, v, f, b

LEMMA FieldsB ==
  ASSUME NEW w \in Word
  PROVE  /\ immB(w) \in Int /\ Fits("B", immB(w))
         /\ w.funct7 = Bits(immB(w), 4096, 2) * 64 + Bits(immB(w), 32, 64)
         /\ w.rd = Bits(immB(w), 2, 16) * 2 + Bits(immB(w), 2048, 2)
<1> DEFINE v == immB(w)
           s == w.funct7 \div 64
           a == w.funct7 % 64
           c == w.rd % 2
           d == w.rd \div 2
<1>1. w.funct7 \in 0 .. 127 /\ w.rd \in 0 .. 31
  BY DEF Word, Reg
<1>2. /\ s \in 0 .. 1 /\ a \in 0 .. 63 /\ c \in 0 .. 1 /\ d \in 0 .. 15
      /\ w.funct7 = s * 64 + a /\ w.rd = d * 2 + c
  BY <1>1
<1>3. v = -4096 * s + 2048 * c + 32 * a + 2 * d
  BY <1>1 DEF immB, Sign, Bits30_25
<1> HIDE DEF v, s, a, c, d
<1>4. v \in Int /\ -4096 <= v /\ v < 4096 /\ v % 2 = 0
  BY <1>2, <1>3
<1>5. (v \div 4096) % 2 = s /\ (v \div 32) % 64 = a
  BY <1>2, <1>3
<1>6. (v \div 2) % 16 = d /\ (v \div 2048) % 2 = c
  BY <1>2, <1>3
<1> QED
  BY <1>2, <1>4, <1>5, <1>6 DEF Fits, Bits, v

LEMMA FieldsU ==
  ASSUME NEW w \in Word
  PROVE  /\ immU(w) \in Int /\ Fits("U", immU(w))
         /\ w.funct7 = Bits(immU(w), 33554432, 128) /\ w.rs2 = Bits(immU(w), 1048576, 32)
         /\ w.rs1 = Bits(immU(w), 32768, 32) /\ w.funct3 = Bits(immU(w), 4096, 8)
<1> DEFINE v == immU(w)
           f == w.funct7
           b == w.rs2
           c == w.rs1
           d == w.funct3
           s == w.funct7 \div 64
           a == w.funct7 % 64
<1>1. f \in 0 .. 127 /\ b \in 0 .. 31 /\ c \in 0 .. 31 /\ d \in 0 .. 7
  BY DEF Word, Reg
<1>2. s \in 0 .. 1 /\ a \in 0 .. 63 /\ f = 64 * s + a
  BY <1>1
<1>3. v = -1073741824 * (2 * s) + 33554432 * a + 1048576 * b + 32768 * c + 4096 * d
  BY <1>1 DEF immU, Sign, Bits30_20, Bits30_25
<1> HIDE DEF v, f, b, c, d, s, a
<1>4. v \in Int /\ -1073741824 - 1073741824 <= v /\ v <= 2147483647 /\ v % 4096 = 0
  BY <1>1, <1>2, <1>3
<1>5. (v \div 33554432) % 128 = f /\ (v \div 1048576) % 32 = b
  <2>1. v \div 33554432 = 128 * (-s) + f
    BY <1>1, <1>2, <1>3
  <2>2. v \div 1048576 = 32 * (-64 * s + a) + b
    BY <1>1, <1>2, <1>3
  <2> QED
    BY <1>1, <1>2, <2>1, <2>2
<1>6. (v \div 32768) % 32 = c
  <2>1. v \div 32768 = 32 * (-2048 * s + 32 * a + b) + c
    BY <1>1, <1>2, <1>3
  <2> QED
    BY <1>1, <1>2, <2>1
<1>7. (v \div 4096) % 8 = d
  <2>1. v \div 4096 = 8 * (-65536 * s + 1024 * a + 32 * b + c) + d
    BY <1>1, <1>2, <1>3
  <2> QED
    BY <1>1, <1>2, <2>1
<1> QED
  BY <1>4, <1>5, <1>6, <1>7 DEF Fits, Bits, v, f, b, c, d

LEMMA FieldsJ ==
  ASSUME NEW w \in Word
  PROVE  /\ immJ(w) \in Int /\ Fits("J", immJ(w))
         /\ w.funct7 = Bits(immJ(w), 1048576, 2) * 64 + Bits(immJ(w), 32, 64)
         /\ w.rs2 = Bits(immJ(w), 2, 16) * 2 + Bits(immJ(w), 2048, 2)
         /\ w.rs1 = Bits(immJ(w), 32768, 32) /\ w.funct3 = Bits(immJ(w), 4096, 8)
<1> DEFINE v == immJ(w)
           s == w.funct7 \div 64
           a == w.funct7 % 64
           c == w.rs2 % 2
           d == w.rs2 \div 2
           p == w.rs1
           q == w.funct3
<1>1. w.funct7 \in 0 .. 127 /\ w.rs2 \in 0 .. 31 /\ p \in 0 .. 31 /\ q \in 0 .. 7
  BY DEF Word, Reg
<1>2. /\ s \in 0 .. 1 /\ a \in 0 .. 63 /\ c \in 0 .. 1 /\ d \in 0 .. 15
      /\ w.funct7 = s * 64 + a /\ w.rs2 = d * 2 + c
  BY <1>1
<1>3. v = -1048576 * s + 32768 * p + 4096 * q + 2048 * c + 32 * a + 2 * d
  <2>1. Sign(w, 1048576) = -1048576 * s
    BY <1>1 DEF Sign
  <2>2. (Bits30_20(w) \div 2) * 2 = 32 * a + 2 * d
    BY <1>1 DEF Bits30_20, Bits30_25
  <2>3. v = Sign(w, 1048576) + (Bits30_20(w) \div 2) * 2 + c * 2048 + p * 32768 + q * 4096
    BY DEF immJ
  <2> HIDE DEF v, s, a, c, d, p, q
  <2> QED
    BY <1>1, <1>2, <2>1, <2>2, <2>3
<1> HIDE DEF v, s, a, c, d, p, q
<1>4. v \in Int /\ -1048576 <= v /\ v < 1048576 /\ v % 2 = 0
  BY <1>1, <1>2, <1>3
<1>5. (v \div 1048576) % 2 = s
  <2>1. v \div 1048576 = 2 * (-s) + s
    BY <1>1, <1>2, <1>3
  <2> QED
    BY <1>2, <2>1
<1>6. (v \div 32) % 64 = a
  <2>1. v \div 32 = 64 * (-512 * s + 16 * p + 2 * q + c) + a
    BY <1>1, <1>2, <1>3
  <2> QED
    BY <1>1, <1>2, <2>1
<1>7. (v \div 2) % 16 = d
  <2>1. v \div 2 = 16 * (-32768 * s + 1024 * p + 128 * q + 64 * c + a) + d
    BY <1>1, <1>2, <1>3
  <2> QED
    BY <1>1, <1>2, <2>1
<1>8. (v \div 2048) % 2 = c
  <2>1. v \div 2048 = 2 * (-256 * s + 8 * p + q) + c
    BY <1>1, <1>2, <1>3
  <2> QED
    BY <1>1, <1>2, <2>1
<1>9. (v \div 32768) % 32 = p
  <2>1. v \div 32768 = 32 * (-s) + p
    BY <1>1, <1>2, <1>3
  <2> QED
    BY <1>1, <1>2, <2>1
<1>10. (v \div 4096) % 8 = q
  <2>1. v \div 4096 = 8 * (-32 * s + p) + q
    BY <1>1, <1>2, <1>3
  <2> QED
    BY <1>1, <1>2, <2>1
<1> QED
  BY <1>2, <1>4, <1>5, <1>6, <1>7, <1>8, <1>9, <1>10 DEF Fits, Bits, v, p, q

----------------------------------------------------------------------------
(* The assembler's word, field by field.                                   *)

\* A format has its opcodes, ...
LEMMA OpcodesOf ==
  ASSUME NEW opc \in Assembled
  PROVE  /\ Format(opc) = "I" <=> opc \in IOps
         /\ Format(opc) = "Shift" <=> opc \in ShiftOps
         /\ Format(opc) = "S" <=> opc \in SOps
         /\ Format(opc) = "B" <=> opc \in BOps
         /\ Format(opc) = "U" <=> opc \in UOps
         /\ Format(opc) = "J" <=> opc = "JAL"
         /\ Format(opc) = "R" <=> opc \in ROps
         /\ Format(opc) = "None" <=> opc \in SystemOps
<1>1. \/ opc \in IOps \/ opc \in ShiftOps \/ opc \in SOps \/ opc \in BOps
      \/ opc \in UOps \/ opc = "JAL" \/ opc \in ROps \/ opc \in SystemOps
  BY DEF Assembled
<1> QED
  BY <1>1, FormatOf

\* ... and leaves the same fields of the pattern free in all of them.
LEMMA FreeFields ==
  ASSUME NEW opc \in Assembled
  PROVE  /\ Format(opc) \in {"I", "S", "B"} => Pattern(opc)[1] = Free /\ Pattern(opc)[2] # Free
         /\ Format(opc) \in {"U", "J"} => Pattern(opc)[1] = Free /\ Pattern(opc)[2] = Free
         /\ Format(opc) \in {"Shift", "R", "None"} => Pattern(opc)[1] # Free /\ Pattern(opc)[2] # Free
<1>1. CASE opc \in IOps
  <2>1. Pattern(opc) \in {<<Free, 0, LOAD>>, <<Free, 1, LOAD>>, <<Free, 2, LOAD>>, <<Free, 4, LOAD>>,
                     <<Free, 5, LOAD>>, <<Free, 0, OP_IMM>>, <<Free, 2, OP_IMM>>,
                     <<Free, 3, OP_IMM>>, <<Free, 4, OP_IMM>>, <<Free, 6, OP_IMM>>,
                     <<Free, 7, OP_IMM>>, <<Free, 0, 103>>}
    BY <1>1 DEF Pattern, IOps
  <2>2. Format(opc) = "I"
    BY <1>1, FormatOf
  <2> QED
    BY <2>1, <2>2 DEF Free
<1>2. CASE opc \in SOps
  <2>1. Pattern(opc) \in {<<Free, 0, STORE>>, <<Free, 1, STORE>>, <<Free, 2, STORE>>}
    BY <1>2 DEF Pattern, SOps
  <2>2. Format(opc) = "S"
    BY <1>2, FormatOf
  <2> QED
    BY <2>1, <2>2 DEF Free
<1>3. CASE opc \in BOps
  <2>1. Pattern(opc) \in {<<Free, 0, BRANCH>>, <<Free, 1, BRANCH>>, <<Free, 4, BRANCH>>,
                     <<Free, 5, BRANCH>>, <<Free, 6, BRANCH>>, <<Free, 7, BRANCH>>}
    BY <1>3 DEF Pattern, BOps
  <2>2. Format(opc) = "B"
    BY <1>3, FormatOf
  <2> QED
    BY <2>1, <2>2 DEF Free
<1>4. CASE opc \in UOps
  <2>1. Pattern(opc) \in {<<Free, Free, 23>>, <<Free, Free, 55>>}
    BY <1>4 DEF Pattern, UOps
  <2>2. Format(opc) = "U"
    BY <1>4, FormatOf
  <2> QED
    BY <2>1, <2>2 DEF Free
<1>5. CASE opc = "JAL"
  <2>1. Pattern(opc) \in {<<Free, Free, 111>>}
    BY <1>5 DEF Pattern
  <2>2. Format(opc) = "J"
    BY <1>5, FormatOf
  <2> QED
    BY <2>1, <2>2 DEF Free
<1>6. CASE opc \in ShiftOps
  <2>1. Pattern(opc) \in {<<0, 1, OP_IMM>>, <<0, 5, OP_IMM>>, <<32, 5, OP_IMM>>}
    BY <1>6 DEF Pattern, ShiftOps
  <2>2. Format(opc) = "Shift"
    BY <1>6, FormatOf
  <2> QED
    BY <2>1, <2>2 DEF Free
<1>7. CASE opc \in ROps
  <2>1. Pattern(opc) \in {<<0, 0, OP>>, <<0, 1, OP>>, <<0, 2, OP>>, <<0, 3, OP>>, <<0, 4, OP>>,
                     <<0, 5, OP>>, <<0, 6, OP>>, <<0, 7, OP>>, <<32, 0, OP>>, <<32, 5, OP>>}
    BY <1>7 DEF Pattern, ROps
  <2>2. Format(opc) = "R"
    BY <1>7, FormatOf
  <2> QED
    BY <2>1, <2>2 DEF Free
<1>8. CASE opc \in SystemOps
  <2>1. Pattern(opc) \in {<<0, 0, 115>>}
    BY <1>8 DEF Pattern, SystemOps
  <2>2. Format(opc) = "None"
    BY <1>8, FormatOf
  <2> QED
    BY <2>1, <2>2 DEF Free
<1> QED
  BY <1>1, <1>2, <1>3, <1>4, <1>5, <1>6, <1>7, <1>8 DEF Assembled

\* The fields of w hold the operands of insn, laid out as its format says.
LaidOut(insn, w) ==
  LET f == Format(insn.opc)
      v == insn.imm
  IN  /\ f = "I" => w.funct7 = Bits(v, 32, 128) /\ w.rs2 = Bits(v, 1, 32)
      /\ f = "S" => w.funct7 = Bits(v, 32, 128) /\ w.rd = Bits(v, 1, 32)
      /\ f = "B" => /\ w.funct7 = Bits(v, 4096, 2) * 64 + Bits(v, 32, 64)
                    /\ w.rd = Bits(v, 2, 16) * 2 + Bits(v, 2048, 2)
      /\ f = "U" => /\ w.funct7 = Bits(v, 33554432, 128) /\ w.rs2 = Bits(v, 1048576, 32)
                    /\ w.rs1 = Bits(v, 32768, 32) /\ w.funct3 = Bits(v, 4096, 8)
      /\ f = "J" => /\ w.funct7 = Bits(v, 1048576, 2) * 64 + Bits(v, 32, 64)
                    /\ w.rs2 = Bits(v, 2, 16) * 2 + Bits(v, 2048, 2)
                    /\ w.rs1 = Bits(v, 32768, 32) /\ w.funct3 = Bits(v, 4096, 8)
      /\ f = "Shift" => w.rs2 = Bits(v, 1, 32)
      /\ f = "None" => /\ w.rd = insn.rd /\ w.rs1 = insn.rs1
                       /\ w.rs2 = IF insn.opc = "EBREAK" THEN 1 ELSE insn.rs2
      /\ f \in WritesRd => w.rd = insn.rd
      /\ f \in ReadsRs1 => w.rs1 = insn.rs1
      /\ f \in ReadsRs2 => w.rs2 = insn.rs2

LEMMA EncodedFields ==
  ASSUME NEW insn, insn.opc \in Assembled
  PROVE  LaidOut(insn, Encode(insn))
<1> DEFINE w == Encode(insn)
           f == Format(insn.opc)
           v == insn.imm
           pat == Pattern(insn.opc)
<1>1. w.rd = CASE f = "S" -> Bits(v, 1, 32)
               [] f = "B" -> Bits(v, 2, 16) * 2 + Bits(v, 2048, 2)
               [] OTHER -> insn.rd
  BY DEF Encode
<1>2. w.funct3 = IF pat[2] = Free THEN Bits(v, 4096, 8) ELSE pat[2]
  BY DEF Encode
<1>3. w.rs1 = IF f \in {"U", "J"} THEN Bits(v, 32768, 32) ELSE insn.rs1
  BY DEF Encode
<1>4. w.rs2 = CASE f \in {"I", "Shift"} -> Bits(v, 1, 32)
                [] f = "U" -> Bits(v, 1048576, 32)
                [] f = "J" -> Bits(v, 2, 16) * 2 + Bits(v, 2048, 2)
                [] insn.opc = "EBREAK" -> 1
                [] OTHER -> insn.rs2
  BY DEF Encode
<1>5. pat[1] = Free => w.funct7 = CASE f \in {"I", "S"} -> Bits(v, 32, 128)
                     [] f = "B" -> Bits(v, 4096, 2) * 64 + Bits(v, 32, 64)
                     [] f = "U" -> Bits(v, 33554432, 128)
                     [] f = "J" -> Bits(v, 1048576, 2) * 64 + Bits(v, 32, 64)
                     [] OTHER -> 0
  BY DEF Encode
<1>6. /\ f \in {"I", "S", "B", "U", "J"} => pat[1] = Free
      /\ f \in {"U", "J"} => pat[2] = Free
      /\ f # "None" => insn.opc # "EBREAK"
  BY OpcodesOf, FreeFields, FormatOf DEF SystemOps
<1> HIDE DEF w, f, v, pat
<1>7. f \in WritesRd => w.rd = insn.rd
  BY <1>1 DEF WritesRd
<1>8. f \in ReadsRs1 => w.rs1 = insn.rs1
  BY <1>3 DEF ReadsRs1
<1>9. f \in ReadsRs2 => w.rs2 = insn.rs2
  BY <1>4, <1>6 DEF ReadsRs2
<1>10. f = "I" => w.funct7 = Bits(v, 32, 128) /\ w.rs2 = Bits(v, 1, 32)
  BY <1>4, <1>5, <1>6
<1>11. f = "S" => w.funct7 = Bits(v, 32, 128) /\ w.rd = Bits(v, 1, 32)
  BY <1>1, <1>5, <1>6
<1>12. f = "B" => /\ w.funct7 = Bits(v, 4096, 2) * 64 + Bits(v, 32, 64)
                  /\ w.rd = Bits(v, 2, 16) * 2 + Bits(v, 2048, 2)
  BY <1>1, <1>5, <1>6
<1>13. f = "U" => /\ w.funct7 = Bits(v, 33554432, 128) /\ w.rs2 = Bits(v, 1048576, 32)
                  /\ w.rs1 = Bits(v, 32768, 32) /\ w.funct3 = Bits(v, 4096, 8)
  BY <1>2, <1>3, <1>4, <1>5, <1>6
<1>14. f = "J" => /\ w.funct7 = Bits(v, 1048576, 2) * 64 + Bits(v, 32, 64)
                  /\ w.rs2 = Bits(v, 2, 16) * 2 + Bits(v, 2048, 2)
                  /\ w.rs1 = Bits(v, 32768, 32) /\ w.funct3 = Bits(v, 4096, 8)
  BY <1>2, <1>3, <1>4, <1>5, <1>6
<1>15. f = "Shift" => w.rs2 = Bits(v, 1, 32)
  BY <1>4, <1>6
<1>16. f = "None" => /\ w.rd = insn.rd /\ w.rs1 = insn.rs1
                    /\ w.rs2 = IF insn.opc = "EBREAK" THEN 1 ELSE insn.rs2
  BY <1>1, <1>3, <1>4
<1> QED
  BY <1>7, <1>8, <1>9, <1>10, <1>11, <1>12, <1>13, <1>14, <1>15, <1>16 DEF LaidOut, w, f, v

----------------------------------------------------------------------------
(* decode after the assembler.                                             *)

LEMMA DecodeEncode ==
  ASSUME NEW insn, Assemblable(insn)
  PROVE  decode(Encode(insn)) = insn
<1> DEFINE w == Encode(insn)
           v == insn.imm
           f == Format(insn.opc)
           d == decode(w)
<1>1. w \in Word /\ decodeOpcode(w) = insn.opc
  BY EncodedWord, EncodedOpcode
<1>2. /\ insn = [opc |-> insn.opc, rd |-> insn.rd, rs1 |-> insn.rs1, rs2 |-> insn.rs2, imm |-> v]
      /\ v \in Int /\ insn.opc \in Assembled /\ Fits(f, v)
      /\ f \notin WritesRd => insn.rd = 0
      /\ f \notin ReadsRs1 => insn.rs1 = 0
      /\ f \notin ReadsRs2 => insn.rs2 = 0
  BY DEF Assemblable
<1>3. f \in {"I", "Shift", "S", "B", "U", "J", "R", "None"}
  BY <1>2, FormatOf DEF Assembled
<1>4. /\ d.opc = insn.opc
      /\ d.rd = IF f \in WritesRd \cup {"Fence"} THEN w.rd ELSE 0
      /\ d.rs1 = IF f \in ReadsRs1 \cup {"Fence"} THEN w.rs1 ELSE 0
      /\ d.rs2 = IF f \in ReadsRs2 THEN w.rs2 ELSE 0
      /\ d.imm = decodeImm(f, w)
      /\ d = [opc |-> d.opc, rd |-> d.rd, rs1 |-> d.rs1, rs2 |-> d.rs2, imm |-> d.imm]
  BY <1>1 DEF decode
<1>5. LaidOut(insn, w)
  BY <1>2, EncodedFields
<1> HIDE DEF w, v, f, d
<1>6. decodeImm(f, w) = v
  <2>1. CASE f = "I"
    BY <1>1, <1>2, <1>5, <2>1, ImmediateI DEF decodeImm, LaidOut, f, v
  <2>2. CASE f = "S"
    BY <1>1, <1>2, <1>5, <2>2, ImmediateS DEF decodeImm, LaidOut, f, v
  <2>3. CASE f = "B"
    BY <1>1, <1>2, <1>5, <2>3, ImmediateB DEF decodeImm, LaidOut, f, v
  <2>4. CASE f = "U"
    BY <1>1, <1>2, <1>5, <2>4, ImmediateU DEF decodeImm, LaidOut, f, v
  <2>5. CASE f = "J"
    BY <1>1, <1>2, <1>5, <2>5, ImmediateJ DEF decodeImm, LaidOut, f, v
  <2>6. CASE f = "Shift"
    <3>1. 0 <= v /\ v < 32
      BY <1>2, <2>6 DEF Fits
    <3>2. Bits(v, 1, 32) = v
      BY <1>2, <3>1 DEF Bits
    <3> QED
      BY <1>5, <2>6, <3>2 DEF decodeImm, LaidOut, f, v
  <2>7. CASE f \in {"R", "None"}
    BY <1>2, <2>7 DEF Fits, decodeImm
  <2> QED
    BY <1>3, <2>1, <2>2, <2>3, <2>4, <2>5, <2>6, <2>7
<1>7. d.rd = insn.rd /\ d.rs1 = insn.rs1 /\ d.rs2 = insn.rs2
  BY <1>2, <1>3, <1>4, <1>5 DEF LaidOut, f
<1> QED
  BY <1>2, <1>4, <1>6, <1>7 DEF d, w
----------------------------------------------------------------------------
(* The assembler after decode.                                             *)

LEMMA EncodeDecode ==
  ASSUME NEW w \in Word, decode(w).opc \notin {"none", "FENCE"}, Documented(decode(w).opc, w)
  PROVE  Encode(decode(w)) = w
<1> DEFINE d == decode(w)
           e == Encode(d)
           f == Format(d.opc)
           pat == Pattern(d.opc)
<1>1. d.opc = decodeOpcode(w) /\ d.opc \in Assembled
  BY DecodedOpcodes DEF decode
<1>2. f \in {"I", "Shift", "S", "B", "U", "J", "R", "None"}
  BY <1>1, FormatOf DEF Assembled
<1>3. /\ f \in WritesRd => d.rd = w.rd
      /\ f \in ReadsRs1 => d.rs1 = w.rs1
      /\ f \in ReadsRs2 => d.rs2 = w.rs2
      /\ f = "None" => d.rd = 0 /\ d.rs1 = 0 /\ d.rs2 = 0
      /\ d.imm = decodeImm(f, w)
  BY <1>1 DEF decode, WritesRd, ReadsRs1, ReadsRs2
<1>4. LaidOut(d, e)
  BY <1>1, EncodedFields
<1>5. /\ e.opcode = pat[3]
      /\ pat[2] # Free => e.funct3 = pat[2]
      /\ pat[1] # Free => e.funct7 = pat[1]
      /\ e = [funct7 |-> e.funct7, rs2 |-> e.rs2, rs1 |-> e.rs1, funct3 |-> e.funct3,
              rd |-> e.rd, opcode |-> e.opcode]
  BY DEF Encode
<1>6. /\ w.opcode = pat[3]
      /\ pat[2] # Free => w.funct3 = pat[2]
      /\ pat[1] # Free => w.funct7 = pat[1]
      /\ w = [funct7 |-> w.funct7, rs2 |-> w.rs2, rs1 |-> w.rs1, funct3 |-> w.funct3,
              rd |-> w.rd, opcode |-> w.opcode]
      /\ w.funct7 \in 0 .. 127 /\ w.rs2 \in 0 .. 31
  BY DEF Documented, Word, Reg
<1>7. /\ f \in {"I", "S", "B"} => pat[1] = Free /\ pat[2] # Free
      /\ f \in {"U", "J"} => pat[1] = Free /\ pat[2] = Free
      /\ f \in {"Shift", "R", "None"} => pat[1] # Free /\ pat[2] # Free
  BY <1>1, FreeFields
<1> HIDE DEF d, e, f, pat
<1>8. CASE f = "I"
  <2>1. d.imm = immI(w)
    BY <1>3, <1>8 DEF decodeImm
  <2>2. e.funct7 = w.funct7 /\ e.rs2 = w.rs2
    BY <1>4, <1>8, <2>1, FieldsI DEF LaidOut, f
  <2>3. e.rd = w.rd /\ e.rs1 = w.rs1
    BY <1>3, <1>4, <1>8 DEF LaidOut, WritesRd, ReadsRs1, f
  <2> QED
    BY <1>5, <1>6, <1>7, <1>8, <2>2, <2>3 DEF d, e
<1>9. CASE f = "S"
  <2>1. d.imm = immS(w)
    BY <1>3, <1>9 DEF decodeImm
  <2>2. e.funct7 = w.funct7 /\ e.rd = w.rd
    BY <1>4, <1>9, <2>1, FieldsS DEF LaidOut, f
  <2>3. e.rs1 = w.rs1 /\ e.rs2 = w.rs2
    BY <1>3, <1>4, <1>9 DEF LaidOut, ReadsRs1, ReadsRs2, f
  <2> QED
    BY <1>5, <1>6, <1>7, <1>9, <2>2, <2>3 DEF d, e
<1>10. CASE f = "B"
  <2>1. d.imm = immB(w)
    BY <1>3, <1>10 DEF decodeImm
  <2>2. e.funct7 = w.funct7 /\ e.rd = w.rd
    BY <1>4, <1>10, <2>1, FieldsB DEF LaidOut, f
  <2>3. e.rs1 = w.rs1 /\ e.rs2 = w.rs2
    BY <1>3, <1>4, <1>10 DEF LaidOut, ReadsRs1, ReadsRs2, f
  <2> QED
    BY <1>5, <1>6, <1>7, <1>10, <2>2, <2>3 DEF d, e
<1>11. CASE f = "U"
  <2>1. d.imm = immU(w)
    BY <1>3, <1>11 DEF decodeImm
  <2>2. e.funct7 = w.funct7 /\ e.rs2 = w.rs2 /\ e.rs1 = w.rs1 /\ e.funct3 = w.funct3
    BY <1>4, <1>11, <2>1, FieldsU DEF LaidOut, f
  <2>3. e.rd = w.rd
    BY <1>3, <1>4, <1>11 DEF LaidOut, WritesRd, f
  <2> QED
    BY <1>5, <1>6, <2>2, <2>3 DEF d, e
<1>12. CASE f = "J"
  <2>1. d.imm = immJ(w)
    BY <1>3, <1>12 DEF decodeImm
  <2>2. e.funct7 = w.funct7 /\ e.rs2 = w.rs2 /\ e.rs1 = w.rs1 /\ e.funct3 = w.funct3
    BY <1>4, <1>12, <2>1, FieldsJ DEF LaidOut, f
  <2>3. e.rd = w.rd
    BY <1>3, <1>4, <1>12 DEF LaidOut, WritesRd, f
  <2> QED
    BY <1>5, <1>6, <2>2, <2>3 DEF d, e
<1>13. CASE f = "Shift"
  <2>1. d.imm = w.rs2
    BY <1>3, <1>13 DEF decodeImm
  <2>2. Bits(w.rs2, 1, 32) = w.rs2
    BY <1>6 DEF Bits
  <2>3. e.rs2 = w.rs2
    BY <1>4, <1>13, <2>1, <2>2 DEF LaidOut, f
  <2>4. e.rd = w.rd /\ e.rs1 = w.rs1
    BY <1>3, <1>4, <1>13 DEF LaidOut, WritesRd, ReadsRs1, f
  <2> QED
    BY <1>5, <1>6, <1>7, <1>13, <2>3, <2>4 DEF d, e
<1>14. CASE f = "R"
  <2>1. e.rd = w.rd /\ e.rs1 = w.rs1 /\ e.rs2 = w.rs2
    BY <1>3, <1>4, <1>14 DEF LaidOut, WritesRd, ReadsRs1, ReadsRs2, f
  <2> QED
    BY <1>5, <1>6, <1>7, <1>14, <2>1 DEF d, e
<1>15. CASE f = "None"
  <2>1. /\ System(w) /\ w.rs2 = IF d.opc = "EBREAK" THEN 1 ELSE 0
    BY <1>1, <1>15, OpcodesOf, OpcodeOfSystem DEF SystemOps, f
  <2>2. e.rd = w.rd /\ e.rs1 = w.rs1 /\ e.rs2 = w.rs2
    BY <1>3, <1>4, <1>15, <2>1 DEF LaidOut, System, f
  <2> QED
    BY <1>5, <1>6, <1>7, <1>15, <2>2 DEF d, e
<1> QED
  BY <1>2, <1>8, <1>9, <1>10, <1>11, <1>12, <1>13, <1>14, <1>15

----------------------------------------------------------------------------
(* What decode makes of any word.                                          *)

LEMMA DecodedAssemblable ==
  ASSUME NEW w \in Word, decode(w).opc \notin {"none", "FENCE"}
  PROVE  Assemblable(decode(w))
<1> DEFINE d == decode(w)
           f == Format(d.opc)
<1>1. d.opc \in Assembled
  BY DecodedOpcodes DEF decode
<1>2. f \in {"I", "Shift", "S", "B", "U", "J", "R", "None"}
  BY <1>1, FormatOf DEF Assembled
<1>3. /\ d = [opc |-> d.opc, rd |-> d.rd, rs1 |-> d.rs1, rs2 |-> d.rs2, imm |-> d.imm]
      /\ d.rd = IF f \in WritesRd \cup {"Fence"} THEN w.rd ELSE 0
      /\ d.rs1 = IF f \in ReadsRs1 \cup {"Fence"} THEN w.rs1 ELSE 0
      /\ d.rs2 = IF f \in ReadsRs2 THEN w.rs2 ELSE 0
      /\ d.imm = decodeImm(f, w)
  BY DEF decode
<1>4. w.rd \in Reg /\ w.rs1 \in Reg /\ w.rs2 \in Reg
  BY DEF Word
<1> HIDE DEF d, f
<1>5. d.imm \in Int /\ Fits(f, d.imm)
  <2>1. CASE f = "I"
    BY <1>3, <2>1, FieldsI DEF decodeImm
  <2>2. CASE f = "S"
    BY <1>3, <2>2, FieldsS DEF decodeImm
  <2>3. CASE f = "B"
    BY <1>3, <2>3, FieldsB DEF decodeImm
  <2>4. CASE f = "U"
    BY <1>3, <2>4, FieldsU DEF decodeImm
  <2>5. CASE f = "J"
    BY <1>3, <2>5, FieldsJ DEF decodeImm
  <2>6. CASE f = "Shift"
    BY <1>3, <1>4, <2>6 DEF decodeImm, Fits, Reg
  <2>7. CASE f \in {"R", "None"}
    BY <1>3, <2>7 DEF decodeImm, Fits
  <2> QED
    BY <1>2, <2>1, <2>2, <2>3, <2>4, <2>5, <2>6, <2>7
<1>6. d.rd \in Reg /\ d.rs1 \in Reg /\ d.rs2 \in Reg
  BY <1>3, <1>4 DEF Reg
<1>7. d \in [opc : Assembled, rd : Reg, rs1 : Reg, rs2 : Reg, imm : Int]
  BY <1>1, <1>3, <1>5, <1>6
<1>8. /\ f \notin WritesRd => d.rd = 0
      /\ f \notin ReadsRs1 => d.rs1 = 0
      /\ f \notin ReadsRs2 => d.rs2 = 0
  BY <1>2, <1>3
<1> QED
  BY <1>5, <1>7, <1>8 DEF Assemblable, d, f

\* A word without any instruction's documented pattern that decodes all the same is taken for an
\* instruction that has one, operands in range: decode invents none of its own.
THEOREM DecodedIsDocumented ==
  ASSUME NEW w \in Word, decode(w).opc \notin {"none", "FENCE"}
  PROVE  \E x \in Word : Documented(decode(w).opc, x) /\ decode(x) = decode(w)
<1>1. Assemblable(decode(w))
  BY DecodedAssemblable
<1>2. /\ Encode(decode(w)) \in Word /\ Documented(decode(w).opc, Encode(decode(w)))
      /\ decode(Encode(decode(w))) = decode(w)
  BY <1>1, EncodedWord, DecodeEncode
<1> QED
  BY <1>2

\* The fields of a 32-bit word.
FieldsOf(n) ==
  [opcode |-> n % 128, rd |-> (n \div 128) % 32, funct3 |-> (n \div 4096) % 8,
   rs1 |-> (n \div 32768) % 32, rs2 |-> (n \div 1048576) % 32, funct7 |-> (n \div 33554432) % 128]

LEMMA FieldsOfType ==
  ASSUME NEW n \in Int
  PROVE  FieldsOf(n) \in Word
<1>1. /\ n % 128 \in 0 .. 127 /\ (n \div 128) % 32 \in Reg /\ (n \div 4096) % 8 \in 0 .. 7
      /\ (n \div 32768) % 32 \in Reg /\ (n \div 1048576) % 32 \in Reg
      /\ (n \div 33554432) % 128 \in 0 .. 127
  BY DEF Reg
<1> QED
  BY <1>1 DEF FieldsOf, Word

Mod32 == 65536 * 65536

\* decode as the other modules have it: a table over the numbers that decode, with immediates of
\* 32 bits.
DecodeTable ==
  [n \in {k \in 0 .. Mod32 - 1 : decode(FieldsOf(k)).opc # "none"} |->
     [decode(FieldsOf(n)) EXCEPT !.imm = @ % Mod32]]

Machine == INSTANCE Isa WITH ByteMod <- 256, NumRegs <- 32, Decode <- DecodeTable

\* What the other modules assume of their table holds of decode's, at the machine's own size: it
\* has instructions only, no SBREAK or SCALL, and no shift by more than the word's 32 bits.
THEOREM DecodeIsAdmissible ==
  /\ DOMAIN DecodeTable \subseteq Machine!Word
  /\ \A n \in DOMAIN DecodeTable :
       /\ DecodeTable[n] \in Machine!Instruction
       /\ DecodeTable[n].opc \notin {"SBREAK", "SCALL"}
       /\ DecodeTable[n].opc \in ShiftOps => DecodeTable[n].imm < 32
<1>1. Machine!Word = 0 .. Mod32 - 1 /\ Machine!Reg = Reg /\ Mod32 \in Nat /\ Mod32 > 0
  <2>1. Machine!WordMod = Mod32 /\ Mod32 \in Nat /\ Mod32 > 0
    BY DEF Machine!WordMod, Machine!HalfMod, Mod32
  <2> QED
    BY <2>1 DEF Machine!Word, Machine!Reg, Reg
<1>2. Assembled \cup {"FENCE"} \subseteq Machine!Opcode
  BY DEF Assembled, IOps, ShiftOps, SOps, BOps, UOps, ROps, SystemOps, Machine!Opcode,
     Machine!AluRegOps, Machine!AluImmOps, Machine!BranchOps, Machine!LoadOps, Machine!StoreOps,
     Machine!NoEffectOps
<1>3. ASSUME NEW n \in DOMAIN DecodeTable
      PROVE  /\ DecodeTable[n] \in Machine!Instruction
             /\ DecodeTable[n].opc \notin {"SBREAK", "SCALL"}
             /\ DecodeTable[n].opc \in ShiftOps => DecodeTable[n].imm < 32
  <2> DEFINE w == FieldsOf(n)
             d == decode(w)
  <2>1. n \in Int /\ d.opc # "none" /\ DecodeTable[n] = [d EXCEPT !.imm = @ % Mod32]
    BY DEF DecodeTable
  <2>2. w \in Word
    BY <2>1, FieldsOfType
  <2>3. /\ d = [opc |-> d.opc, rd |-> d.rd, rs1 |-> d.rs1, rs2 |-> d.rs2, imm |-> d.imm]
        /\ d.opc \in Assembled \cup {"FENCE"}
    BY <2>1, DecodedOpcodes DEF decode
  <2>4. d.rd \in Reg /\ d.rs1 \in Reg /\ d.rs2 \in Reg /\ d.imm \in Int
    <3>1. CASE d.opc = "FENCE"
      <4>1. /\ d.rd \in {0, w.rd} /\ d.rs1 \in {0, w.rs1} /\ d.rs2 \in {0, w.rs2}
        BY DEF decode
      <4>2. Format("FENCE") = "Fence"
        BY DEF Format, IOps, ShiftOps, SOps, BOps, UOps, ROps
      <4>3. d.imm = immFence(w)
        BY <3>1, <4>2 DEF decode, decodeImm
      <4>4. immFence(w) \in Int
        BY DEF immFence
      <4> QED
        BY <2>2, <4>1, <4>3, <4>4 DEF Word, Reg
    <3>2. CASE d.opc # "FENCE"
      BY <2>1, <2>2, <3>2, DecodedAssemblable DEF Assemblable
    <3> QED
      BY <3>1, <3>2
  <2>5. d.opc \notin {"SBREAK", "SCALL"}
    BY <2>3 DEF Assembled, IOps, ShiftOps, SOps, BOps, UOps, ROps, SystemOps
  <2>6. d.opc \in ShiftOps => d.imm \in 0 .. 31
    <3> SUFFICES ASSUME d.opc \in ShiftOps PROVE d.imm \in 0 .. 31
      OBVIOUS
    <3>1. d.opc # "FENCE" /\ Format(d.opc) = "Shift"
      BY FormatOf DEF ShiftOps
    <3> QED
      BY <2>1, <2>2, <2>4, <3>1, DecodedAssemblable DEF Assemblable, Fits
  <2> HIDE DEF d
  <2>7. d.imm % Mod32 \in 0 .. Mod32 - 1
    BY <1>1, <2>4
  <2>8. d.opc \in ShiftOps => d.imm % Mod32 < 32
    BY <2>6 DEF Mod32
  <2> QED
    BY <1>1, <1>2, <2>1, <2>3, <2>4, <2>5, <2>7, <2>8 DEF Machine!Instruction
<1> QED
  BY <1>1, <1>3 DEF DecodeTable

----------------------------------------------------------------------------
(* The invariant: where the word is from, and that decoded is of this word. *)

WordInv ==
  /\ \/ assembled \in Insns /\ word = Encode(assembled)
     \/ assembled = NoInsn /\ word \in Words
  /\ done => decoded = decode(word)

LEMMA DecoderInvariant == Spec => []WordInv
<1>1. Init => WordInv
  BY DEF Init, WordInv
<1>2. WordInv /\ [DecodeWord]_vars => WordInv'
  BY DEF WordInv, DecodeWord, vars
<1> QED
  BY <1>1, <1>2, PTL DEF Spec

\* RoundTrip, for every instruction an assembler takes.
THEOREM DecodeInvertsAssembler == Spec => []RoundTrip
<1>1. WordInv => RoundTrip
  <2> SUFFICES ASSUME WordInv, done, assembled # NoInsn
               PROVE  decoded = assembled
    BY DEF RoundTrip
  <2>1. Assemblable(assembled) /\ decoded = decode(Encode(assembled))
    BY InsnsAssumption DEF WordInv
  <2> QED
    BY <2>1, DecodeEncode
<1> QED
  BY <1>1, DecoderInvariant, PTL

\* LosesNothing, for every word.
THEOREM AssemblerInvertsDecode == Spec => []LosesNothing
<1>1. WordInv => LosesNothing
  <2> SUFFICES ASSUME WordInv, done, decoded.opc \notin {"none", "FENCE"},
                      Documented(decoded.opc, word)
               PROVE  Encode(decoded) = word
    BY DEF LosesNothing
  <2>1. word \in Word
    BY InsnsAssumption, WordsAssumption, EncodedWord DEF WordInv
  <2>2. decoded = decode(word)
    BY DEF WordInv
  <2> QED
    BY <2>1, <2>2, EncodeDecode
<1> QED
  BY <1>1, DecoderInvariant, PTL
=============================================================================
