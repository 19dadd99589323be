----------------------------- MODULE SmallGuest -----------------------------
(***************************************************************************)
(* A small guest for the engines: bytes of two values, so words of sixteen *)
(* and an address space of four instruction words, with four registers --  *)
(* x0, x1 as a0, x2 as sp and x3 as a7.  The sixteen words decode as       *)
(* listed; 0 is no instruction.                                            *)
(***************************************************************************)
EXTENDS Hart, WordOps

Insn(opc, rd, rs1, rs2, imm) ==
  [opc |-> opc, rd |-> rd, rs1 |-> rs1, rs2 |-> rs2, imm |-> imm]

MCAlu(opc, a, b) == AluOf(opc, a, b)

\* Entry w is what word w decodes to.
MCDecode == <<
  Insn("ECALL", 0, 0, 0, 0),
  Insn("ADDI", 3, 0, 0, 5),     \*  2  li a7, exit
  Insn("ADDI", 1, 1, 0, 1),     \*  3  a0 = a0 + 1
  Insn("BNE", 0, 1, 3, 12),     \*  4  back one instruction unless a0 = a7
  Insn("JAL", 1, 0, 0, 8),      \*  5  skip one instruction, link in a0
  Insn("JALR", 1, 1, 0, 0),     \*  6  jump through a0, link in a0
  Insn("SW", 0, 0, 1, 4),       \*  7  a0 becomes the second instruction
  Insn("SLL", 1, 1, 3, 0),      \*  8  a0 = a0 << a7, past the word once a7 is exit
  Insn("LW", 1, 0, 0, 4),       \*  9  a0 = the second instruction
  Insn("BEQ", 0, 0, 0, 8),      \* 10  two instructions on, or back
  Insn("SB", 0, 2, 1, 0),       \* 11  a byte at sp
  Insn("LB", 1, 2, 0, 0),       \* 12
  Insn("JALR", 0, 2, 0, 0),     \* 13  jump to sp, which is no multiple of 4
  Insn("AUIPC", 1, 0, 0, 4),    \* 14
  Insn("SW", 0, 2, 1, 7) >>     \* 15  a word that crosses the end of memory

\* A memory holding the four instruction words t[0] .. t[3].
Image(t) == [a \in Word |-> NthByte(t[a \div kWordSize], a % kWordSize)]

\* Texts that begin with one of "first" and end with one of "last".
ProgramsOver(first, words, last) ==
  {Image(t) : t \in {u \in [0 .. 3 -> first \cup words \cup last] :
                       u[0] \in first /\ u[1] \in words /\ u[2] \in words /\ u[3] \in last}}
============================================================================
