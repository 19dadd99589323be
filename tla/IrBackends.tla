------------------------------ MODULE IrBackends ------------------------------
(***************************************************************************)
(* The translators that build an intermediate representation of a block    *)
(* and have a library compile it: mir (src/jit/mir) and ir (src/jit/ir).   *)
(* Both keep the pc in a value of the representation and store it when the *)
(* block ends.                                                             *)
(***************************************************************************)
EXTENDS HostCode

----------------------------------------------------------------------------
(* mir: the 32-bit instructions of MIR on registers loaded without sign.   *)

MirOp == [ADD |-> "add", AND |-> "and", OR |-> "or", XOR |-> "xor",
          SLL |-> "shl", SRL |-> "shr", SRA |-> "sar", SUB |-> "sub"]

MirSet == [SLT |-> "slt", SLTU |-> "ult"]

MirCond == [BEQ |-> "eq", BNE |-> "ne", BLT |-> "slt", BGE |-> "sge", BLTU |-> "ult", BGEU |-> "uge"]

MirResult(op, rs1, b) ==
  IF op \in DOMAIN MirSet THEN BoolToWord(Holds(MirSet[op], rs1, b)) ELSE HostOp(MirOp[op], rs1, b)

MirRegOp(insn, c) ==
  setDst(c, insn.rd, MirResult(insn.opc, SlotOrZero(c, insn.rs1), SlotOrZero(c, insn.rs2)))

MirImmOp(insn, c) ==
  setDst(c, insn.rd, MirResult(Base(insn.opc), SlotOrZero(c, insn.rs1), insn.imm))

\* A jump to the label that adds the immediate, past the addition of four.
MirBranch(insn, c) ==
  LET taken == Holds(MirCond[insn.opc], SlotOrZero(c, insn.rs1), SlotOrZero(c, insn.rs2))
  IN  setPC(c, HostOp("add", c.pc, IF taken THEN insn.imm ELSE kWordSize))

\* The prototypes of the byte and half helpers are signed for LB and LH, unsigned for LBU and LHU.
MirLoad(insn, c, m) ==
  CallLoad(insn, c, m, HostOp("add", SlotOrZero(c, insn.rs1), insn.imm), {"LB", "LH"})

\* The value stored is read from memory, x0 too.
MirStore(insn, c, m) ==
  CallStore(insn, c, m, HostOp("add", SlotOrZero(c, insn.rs1), insn.imm), Slot(c, insn.rs2))

MirJAL(insn, c) == setPC(setDst(c, insn.rd, ReturnAddress(c)), HostOp("add", c.pc, insn.imm))

\* rs1 is loaded and the pc register set before rd is written.
MirJALR(insn, c) ==
  LET rd     == ReturnAddress(c)
      target == Even(HostOp("add", SlotOrZero(c, insn.rs1), insn.imm))
  IN  setDst(setPC(c, target), insn.rd, rd)

MirUpper(insn, c) ==
  setDst(c, insn.rd, IF insn.opc = "LUI" THEN insn.imm ELSE HostOp("add", c.pc, insn.imm))

Mir(insn, c, m) ==
  Advance(insn,
    CASE insn.opc \in AluRegOps -> Return(MirRegOp(insn, c), m)
      [] insn.opc \in AluImmOps -> Return(MirImmOp(insn, c), m)
      [] insn.opc \in BranchOps -> Return(MirBranch(insn, c), m)
      [] insn.opc \in LoadOps   -> MirLoad(insn, c, m)
      [] insn.opc \in StoreOps  -> MirStore(insn, c, m)
      [] insn.opc = "JAL"       -> Return(MirJAL(insn, c), m)
      [] insn.opc = "JALR"      -> Return(MirJALR(insn, c), m)
      [] insn.opc \in UpperOps  -> Return(MirUpper(insn, c), m)
      [] insn.opc = "ECALL"     -> CallSyscall(c, m)
      [] insn.opc \in NoEffectOps -> Return(c, m))

----------------------------------------------------------------------------
(* ir: x0 is a constant; the compiled shifts are those of the host.        *)

\* No mask is emitted for the count of a shift's register form.
IrOp == [ADD |-> "add", AND |-> "and", OR |-> "or", XOR |-> "xor", SUB |-> "sub",
         SLL |-> "shl", SRL |-> "shr", SRA |-> "sar"]

IrCompare == [SLT |-> "slt", SLTU |-> "ult"]

IrCond == [BEQ |-> "eq", BNE |-> "ne", BLT |-> "slt", BGE |-> "sge", BLTU |-> "ult", BGEU |-> "uge"]

IrResult(op, rs1, b) ==
  IF op \in DOMAIN IrCompare THEN BoolToWord(Holds(IrCompare[op], rs1, b))
  ELSE HostOp(IrOp[op], rs1, b)

IrRegOp(insn, c) ==
  setDst(c, insn.rd, IrResult(insn.opc, SlotOrZero(c, insn.rs1), SlotOrZero(c, insn.rs2)))

IrImmOp(insn, c) ==
  setDst(c, insn.rd, IrResult(Base(insn.opc), SlotOrZero(c, insn.rs1), insn.imm))

\* A conditional value becomes the pc.
IrBranch(insn, c) ==
  setPC(c, IF Holds(IrCond[insn.opc], SlotOrZero(c, insn.rs1), SlotOrZero(c, insn.rs2))
           THEN HostOp("add", c.pc, insn.imm) ELSE HostOp("add", c.pc, kWordSize))

\* The extension of what the helper's prototype returns; LW is wide already.
IrLoad(insn, c, m) ==
  CallLoad(insn, c, m, HostOp("add", SlotOrZero(c, insn.rs1), insn.imm), {"LB", "LH"})

IrStore(insn, c, m) ==
  CallStore(insn, c, m, HostOp("add", SlotOrZero(c, insn.rs1), insn.imm), SlotOrZero(c, insn.rs2))

IrJAL(insn, c) == setPC(setDst(c, insn.rd, ReturnAddress(c)), HostOp("add", c.pc, insn.imm))

\* rd is stored before rs1 is loaded: with rd = rs1 the jump goes to the return address.
IrJALR(insn, c) ==
  LET linked == setDst(c, insn.rd, ReturnAddress(c))
  IN  setPC(linked, Even(HostOp("add", SlotOrZero(linked, insn.rs1), insn.imm)))

IrUpper(insn, c) ==
  setDst(c, insn.rd, IF insn.opc = "LUI" THEN insn.imm ELSE HostOp("add", c.pc, insn.imm))

Ir(insn, c, m) ==
  Advance(insn,
    CASE insn.opc \in AluRegOps -> Return(IrRegOp(insn, c), m)
      [] insn.opc \in AluImmOps -> Return(IrImmOp(insn, c), m)
      [] insn.opc \in BranchOps -> Return(IrBranch(insn, c), m)
      [] insn.opc \in LoadOps   -> IrLoad(insn, c, m)
      [] insn.opc \in StoreOps  -> IrStore(insn, c, m)
      [] insn.opc = "JAL"       -> Return(IrJAL(insn, c), m)
      [] insn.opc = "JALR"      -> Return(IrJALR(insn, c), m)
      [] insn.opc \in UpperOps  -> Return(IrUpper(insn, c), m)
      [] insn.opc = "ECALL"     -> CallSyscall(c, m)
      [] insn.opc \in NoEffectOps -> Return(c, m))
============================================================================
