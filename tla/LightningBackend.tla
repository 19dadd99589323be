--------------------------- MODULE LightningBackend ---------------------------
(***************************************************************************)
(* The translator that uses GNU Lightning (src/jit/lightning).  A host     *)
(* register is two guest words wide: it matters how a guest register is    *)
(* loaded, and a result is stored as its low word.                         *)
(***************************************************************************)
EXTENDS HostCode

HostMod == WordMod * WordMod
ToHost(n) == n % HostMod
HostSigned(h) == IF h < HostMod \div 2 THEN h ELSE h - HostMod
LowWord(h) == h % WordMod

\* loadReg: ldxi_ui, and ldxi_i where the operation is to see a sign.
LoadUnsigned(c, id) == IF id = 0 THEN 0 ELSE Slot(c, id)
LoadSigned(c, id) == IF id = 0 THEN 0 ELSE ToHost(Signed(Slot(c, id)))

\* The immediate sign-extended to a host register.
SextImm(insn) == ToHost(Signed(insn.imm))

\* storeReg
StoreReg(c, id, h) == setDst(c, id, LowWord(h))

\* Comparisons of host registers.
LightningHolds(cc, a, b) ==
  CASE cc = "eqr" -> a = b [] cc = "ner" -> a # b
    [] cc = "ltr" -> HostSigned(a) < HostSigned(b) [] cc = "ger" -> HostSigned(a) >= HostSigned(b)
    [] cc = "ltr_u" -> a < b [] cc = "ger_u" -> a >= b

\* The macro's immediates are not sign-extended, the low words do not show it.
LightningArith(insn, c) ==
  LET r0 == LoadUnsigned(c, insn.rs1)
      r1 == IF insn.opc \in AluImmOps THEN insn.imm ELSE LoadUnsigned(c, insn.rs2)
  IN  CASE Base(insn.opc) = "ADD" -> ToHost(r0 + r1)
        [] Base(insn.opc) = "AND" -> BitAnd(r0, r1)
        [] Base(insn.opc) = "OR"  -> BitOr(r0, r1)
        [] Base(insn.opc) = "XOR" -> BitXor(r0, r1)
        [] insn.opc = "SUB"       -> ToHost(r0 - r1)

\* The count is masked in the register forms; a decoded immediate needs no mask.
LightningShift(insn, c) ==
  LET count == IF insn.opc \in AluImmOps THEN insn.imm ELSE LoadUnsigned(c, insn.rs2) % WordBits
  IN  CASE Base(insn.opc) = "SRA" -> ToHost(HostSigned(LoadSigned(c, insn.rs1)) \div 2 ^ count)
        [] Base(insn.opc) = "SRL" -> LoadUnsigned(c, insn.rs1) \div 2 ^ count
        [] Base(insn.opc) = "SLL" -> ToHost(LoadUnsigned(c, insn.rs1) * 2 ^ count)

\* SLTU compares zero-extended words as signed host words.
LightningSet(insn, c) ==
  BoolToWord(
    CASE insn.opc = "SLT"   -> LightningHolds("ltr", LoadSigned(c, insn.rs1), LoadSigned(c, insn.rs2))
      [] insn.opc = "SLTU"  -> LightningHolds("ltr", LoadUnsigned(c, insn.rs1), LoadUnsigned(c, insn.rs2))
      [] insn.opc = "SLTI"  -> LightningHolds("ltr", LoadSigned(c, insn.rs1), SextImm(insn))
      [] insn.opc = "SLTIU" -> LightningHolds("ltr_u", LoadUnsigned(c, insn.rs1), insn.imm))

LightningAlu(insn, c) ==
  StoreReg(c, insn.rd,
           CASE Base(insn.opc) \in {"ADD", "AND", "OR", "XOR", "SUB"} -> LightningArith(insn, c)
             [] Base(insn.opc) \in {"SRA", "SRL", "SLL"} -> LightningShift(insn, c)
             [] OTHER -> LightningSet(insn, c))

LightningCond == [BEQ |-> "eqr", BGE |-> "ger", BGEU |-> "ger_u", BLT |-> "ltr", BLTU |-> "ltr_u", BNE |-> "ner"]

\* Both registers are sign-extended, for the unsigned comparisons too.
LightningBranch(insn, c) ==
  LET taken == LightningHolds(LightningCond[insn.opc], LoadSigned(c, insn.rs1), LoadSigned(c, insn.rs2))
  IN  setPC(c, LowWord(c.pc + IF taken THEN insn.imm ELSE kWordSize))

\* The helper's address parameter is a guest word.
LightningAddress(insn, c) == LowWord(ToHost(LoadUnsigned(c, insn.rs1) + insn.imm))
LightningLoad(insn, c, m) == CallLoad(insn, c, m, LightningAddress(insn, c), {"LB", "LH"})
LightningStore(insn, c, m) ==
  CallStore(insn, c, m, LightningAddress(insn, c), LoadUnsigned(c, insn.rs2))

\* JALR loads rs1 before it stores rd; the mask clears the upper word as well.
LightningJump(insn, c) ==
  LET target == IF insn.opc = "JAL" THEN LowWord(c.pc + insn.imm)
                ELSE Even(LowWord(ToHost(LoadUnsigned(c, insn.rs1) + insn.imm)))
  IN  setPC(StoreReg(c, insn.rd, ToHost(c.pc + kWordSize)), target)

LightningUpper(insn, c) ==
  StoreReg(c, insn.rd, IF insn.opc = "LUI" THEN insn.imm ELSE ToHost(c.pc + insn.imm))

Lightning(insn, c, m) ==
  Advance(insn,
    CASE insn.opc \in AluOps    -> Return(LightningAlu(insn, c), m)
      [] insn.opc \in BranchOps -> Return(LightningBranch(insn, c), m)
      [] insn.opc \in LoadOps   -> LightningLoad(insn, c, m)
      [] insn.opc \in StoreOps  -> LightningStore(insn, c, m)
      [] insn.opc \in JumpOps   -> Return(LightningJump(insn, c), m)
      [] insn.opc \in UpperOps  -> Return(LightningUpper(insn, c), m)
      [] insn.opc = "ECALL"     -> CallSyscall(c, m)
      [] insn.opc \in NoEffectOps -> Return(c, m))
============================================================================
