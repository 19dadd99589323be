------------------------------ MODULE LlvmBackend ------------------------------
(***************************************************************************)
(* The LLVM IR that src/jit/llvm/builder builds for one instruction, which *)
(* the translators llvm and tpde compile.  Registers are read from memory, *)
(* x0 included.  The value of an instruction is a set: a shift past the    *)
(* width is poison, of which a compiler may make any word.                 *)
(***************************************************************************)
EXTENDS HostCode

\* shl, lshr, ashr.
IRShift(op, a, b) == IF b < WordBits THEN {HostOp(op, a, b)} ELSE Word

\* icmp, and its result zero-extended or driving a select.
ICmp(pred, a, b) == BoolToWord(Holds(pred, a, b))
Select(bit, a, b) == IF bit = 1 THEN a ELSE b

----------------------------------------------------------------------------
(* One definition for each family of xxxbuildIR functions.                 *)

LlvmAddSub(opc, a, b) == HostOp(IF opc = "ADD" THEN "add" ELSE "sub", a, b)
LlvmLogic(opc, a, b) == HostOp(CASE opc = "XOR" -> "xor" [] opc = "OR" -> "or" [] opc = "AND" -> "and", a, b)
LlvmSet(opc, a, b) == ICmp(IF opc = "SLT" THEN "slt" ELSE "ult", a, b)
LlvmShift(opc, a, b) == IRShift(CASE opc = "SLL" -> "shl" [] opc = "SRL" -> "shr" [] opc = "SRA" -> "sar", a, b)

\* The immediate forms.
LlvmADDI(a, imm) == HostOp("add", a, imm)
LlvmSetImm(opc, a, imm) == ICmp(IF opc = "SLTI" THEN "slt" ELSE "ult", a, imm)
LlvmLogicImm(opc, a, imm) ==
  HostOp(CASE opc = "XORI" -> "xor" [] opc = "ORI" -> "or" [] opc = "ANDI" -> "and", a, imm)
LlvmShiftImm(opc, a, imm) ==
  IRShift(CASE opc = "SLLI" -> "shl" [] opc = "SRLI" -> "shr" [] opc = "SRAI" -> "sar", a, imm)

LlvmAlu(insn, c) ==
  LET a == Slot(c, insn.rs1)
      b == Slot(c, insn.rs2)
  IN  CASE insn.opc \in {"ADD", "SUB"}          -> {LlvmAddSub(insn.opc, a, b)}
        [] insn.opc \in {"XOR", "OR", "AND"}    -> {LlvmLogic(insn.opc, a, b)}
        [] insn.opc \in {"SLT", "SLTU"}         -> {LlvmSet(insn.opc, a, b)}
        [] insn.opc \in {"SLL", "SRL", "SRA"}   -> LlvmShift(insn.opc, a, b)
        [] insn.opc = "ADDI"                    -> {LlvmADDI(a, insn.imm)}
        [] insn.opc \in {"SLTI", "SLTIU"}       -> {LlvmSetImm(insn.opc, a, insn.imm)}
        [] insn.opc \in {"XORI", "ORI", "ANDI"} -> {LlvmLogicImm(insn.opc, a, insn.imm)}
        [] OTHER                                -> LlvmShiftImm(insn.opc, a, insn.imm)

LlvmEqual(insn, a, b) == ICmp(IF insn.opc = "BEQ" THEN "eq" ELSE "ne", a, b)
LlvmSignedLess(insn, a, b) == ICmp(IF insn.opc = "BLT" THEN "slt" ELSE "sge", a, b)
LlvmUnsignedLess(insn, a, b) == ICmp(IF insn.opc = "BLTU" THEN "ult" ELSE "uge", a, b)

\* A select between the two pcs, stored.
LlvmBranch(insn, c) ==
  LET a == Slot(c, insn.rs1)
      b == Slot(c, insn.rs2)
      cond == CASE insn.opc \in {"BEQ", "BNE"} -> LlvmEqual(insn, a, b)
                [] insn.opc \in {"BLT", "BGE"} -> LlvmSignedLess(insn, a, b)
                [] OTHER                       -> LlvmUnsignedLess(insn, a, b)
  IN  setPC(c, Select(cond, HostOp("add", c.pc, insn.imm), HostOp("add", c.pc, kWordSize)))

generateLoad(insn, c, m) ==
  CallLoad(insn, c, m, HostOp("add", Slot(c, insn.rs1), insn.imm), {"LB", "LH"})

\* The value is loaded at the width of the store.
generateStore(insn, c, m) ==
  CallStore(insn, c, m, HostOp("add", Slot(c, insn.rs1), insn.imm),
            Slot(c, insn.rs2) % Modulus(AccessSize(insn.opc)))

LlvmLUI(insn, c) == setDst(c, insn.rd, insn.imm)
LlvmAUIPC(insn, c) == setDst(c, insn.rd, HostOp("add", insn.imm, c.pc))

\* The pc is loaded once, stored, then rd is.
LlvmJAL(insn, c) ==
  setDst(setPC(c, HostOp("add", insn.imm, c.pc)), insn.rd, ReturnAddress(c))

\* rs1 and the pc are loaded before rd is stored.
LlvmJALR(insn, c) ==
  setPC(setDst(c, insn.rd, ReturnAddress(c)), Even(HostOp("add", Slot(c, insn.rs1), insn.imm)))

\* SBREAK and SCALL have no case, and no encoding.
Llvm(insn, c, m) ==
  {Advance(insn, out) : out \in
     CASE insn.opc \in AluOps    -> {Return(setDst(c, insn.rd, v), m) : v \in LlvmAlu(insn, c)}
       [] insn.opc \in BranchOps -> {Return(LlvmBranch(insn, c), m)}
       [] insn.opc \in LoadOps   -> {generateLoad(insn, c, m)}
       [] insn.opc \in StoreOps  -> {generateStore(insn, c, m)}
       [] insn.opc = "LUI"       -> {Return(LlvmLUI(insn, c), m)}
       [] insn.opc = "AUIPC"     -> {Return(LlvmAUIPC(insn, c), m)}
       [] insn.opc = "JAL"       -> {Return(LlvmJAL(insn, c), m)}
       [] insn.opc = "JALR"      -> {Return(LlvmJALR(insn, c), m)}
       [] insn.opc = "ECALL"     -> {CallSyscall(c, m)}
       [] insn.opc \in {"FENCE", "PAUSE", "EBREAK"} -> {Return(c, m)}}
============================================================================
