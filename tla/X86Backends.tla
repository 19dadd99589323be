----------------------------- MODULE X86Backends -----------------------------
(***************************************************************************)
(* The translators that emit x86 themselves: asmjit (src/jit/asmjit) and   *)
(* xbyak (src/jit/xbyak).  A condition code is that of cmp lhs, rhs.       *)
(***************************************************************************)
EXTENDS HostCode

----------------------------------------------------------------------------
(* asmjit: operands are loaded into virtual registers first, zero for x0.  *)

AsmJitOp == [ADD |-> "add", AND |-> "and", OR |-> "or", XOR |-> "xor",
             SLL |-> "shl", SRA |-> "sar", SRL |-> "shr", SUB |-> "sub"]

\* Mistake: the compare keeps its operand order where the condition is swapped.
AsmJitSetSameOrder(opc, rs1, b) ==
  BoolToWord(CASE opc = "SLT" -> Holds("sgt", rs1, b) [] opc = "SLTU" -> Holds("ugt", rs1, b)
               [] opc = "SLTI" -> Holds("slt", rs1, b) [] opc = "SLTIU" -> Holds("ult", rs1, b))

\* Register forms compare rs2 with rs1 and set on greater.
AsmJitSet(opc, rs1, b) ==
  BoolToWord(CASE opc = "SLT" -> Holds("sgt", b, rs1) [] opc = "SLTU" -> Holds("ugt", b, rs1)
               [] opc = "SLTI" -> Holds("slt", rs1, b) [] opc = "SLTIU" -> Holds("ult", rs1, b))

AsmJitCond == [BEQ |-> "eq", BNE |-> "ne", BLT |-> "slt", BGE |-> "sge", BLTU |-> "ult", BGEU |-> "uge"]

AsmJitAlu(insn, c) ==
  LET rs1 == SlotOrZero(c, insn.rs1)
      b   == IF insn.opc \in AluImmOps THEN insn.imm ELSE SlotOrZero(c, insn.rs2)
  IN  setDst(c, insn.rd, IF Base(insn.opc) \in DOMAIN AsmJitOp
                         THEN HostOp(AsmJitOp[Base(insn.opc)], rs1, b)
                         ELSE AsmJitSet(insn.opc, rs1, b))

\* cmov picks what is added to the pc.
AsmJitBranch(insn, c) ==
  LET step == IF Holds(AsmJitCond[insn.opc], SlotOrZero(c, insn.rs1), SlotOrZero(c, insn.rs2))
              THEN insn.imm ELSE kWordSize
  IN  setPC(c, ToWord(c.pc + step))

AsmJitAddress(insn, c) == HostOp("add", SlotOrZero(c, insn.rs1), insn.imm)
AsmJitLoad(insn, c, m) == CallLoad(insn, c, m, AsmJitAddress(insn, c), {"LB", "LH"})
AsmJitStore(insn, c, m) == CallStore(insn, c, m, AsmJitAddress(insn, c), SlotOrZero(c, insn.rs2))

\* The target of JALR is computed before rd is written.
AsmJitJump(insn, c) ==
  LET target == IF insn.opc = "JAL" THEN HostOp("add", c.pc, insn.imm)
                ELSE Even(HostOp("add", SlotOrZero(c, insn.rs1), insn.imm))
  IN  setPC(setDst(c, insn.rd, ReturnAddress(c)), target)

AsmJitUpper(insn, c) ==
  setDst(c, insn.rd, IF insn.opc = "LUI" THEN insn.imm ELSE HostOp("add", c.pc, insn.imm))

AsmJit(insn, c, m) ==
  Advance(insn,
    CASE insn.opc \in AluOps    -> Return(AsmJitAlu(insn, c), m)
      [] insn.opc \in BranchOps -> Return(AsmJitBranch(insn, c), m)
      [] insn.opc \in LoadOps   -> AsmJitLoad(insn, c, m)
      [] insn.opc \in StoreOps  -> AsmJitStore(insn, c, m)
      [] insn.opc \in JumpOps   -> Return(AsmJitJump(insn, c), m)
      [] insn.opc \in UpperOps  -> Return(AsmJitUpper(insn, c), m)
      [] insn.opc = "ECALL"     -> CallSyscall(c, m)
      [] insn.opc \in NoEffectOps -> Return(c, m))

----------------------------------------------------------------------------
(* xbyak: operands are read from memory, x0 included.                      *)

XByakOp == [ADD |-> "add", AND |-> "and", OR |-> "or", XOR |-> "xor",
            SLL |-> "shl", SRA |-> "sar", SRL |-> "shr", SUB |-> "sub"]

XByakSet == [SLT |-> "slt", SLTU |-> "ult"]

XByakCond == [BEQ |-> "eq", BGE |-> "sge", BGEU |-> "uge", BLT |-> "slt", BLTU |-> "ult", BNE |-> "ne"]

XByakAlu(insn, c) ==
  LET rs1 == Slot(c, insn.rs1)
      b   == IF insn.opc \in AluImmOps THEN insn.imm ELSE Slot(c, insn.rs2)
      op  == Base(insn.opc)
  IN  setDst(c, insn.rd, IF op \in DOMAIN XByakSet THEN BoolToWord(Holds(XByakSet[op], rs1, b))
                         ELSE HostOp(XByakOp[op], rs1, b))

XByakBranch(insn, c) ==
  LET step == IF Holds(XByakCond[insn.opc], Slot(c, insn.rs1), Slot(c, insn.rs2))
              THEN insn.imm ELSE kWordSize
  IN  setPC(c, ToWord(c.pc + step))

\* cbw and cwde after the call.
XByakLoad(insn, c, m) ==
  CallLoad(insn, c, m, HostOp("add", Slot(c, insn.rs1), insn.imm), {"LB", "LH"})

XByakStore(insn, c, m) ==
  CallStore(insn, c, m, HostOp("add", Slot(c, insn.rs1), insn.imm), Slot(c, insn.rs2))

XByakJAL(insn, c) ==
  setPC(setDst(c, insn.rd, ReturnAddress(c)), HostOp("add", c.pc, insn.imm))

\* pc, then rd, both from temporaries.
XByakJALR(insn, c) ==
  setDst(setPC(c, Even(HostOp("add", Slot(c, insn.rs1), insn.imm))), insn.rd, ReturnAddress(c))

XByak(insn, c, m) ==
  Advance(insn,
    CASE insn.opc \in AluOps    -> Return(XByakAlu(insn, c), m)
      [] insn.opc \in BranchOps -> Return(XByakBranch(insn, c), m)
      [] insn.opc \in LoadOps   -> XByakLoad(insn, c, m)
      [] insn.opc \in StoreOps  -> XByakStore(insn, c, m)
      [] insn.opc = "JAL"       -> Return(XByakJAL(insn, c), m)
      [] insn.opc = "JALR"      -> Return(XByakJALR(insn, c), m)
      [] insn.opc = "LUI"       -> Return(setDst(c, insn.rd, insn.imm), m)
      [] insn.opc = "AUIPC"     -> Return(setDst(c, insn.rd, HostOp("add", c.pc, insn.imm)), m)
      [] insn.opc = "ECALL"     -> CallSyscall(c, m)
      [] insn.opc \in NoEffectOps -> Return(c, m))
============================================================================
