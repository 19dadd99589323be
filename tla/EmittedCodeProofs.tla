-------------------------- MODULE EmittedCodeProofs --------------------------
(***************************************************************************)
(* Every backend's code does what the interpreter's handler does, for      *)
(* every word width, register file, CPU state, memory and instruction, but *)
(* where Deviates says; and what it does there.                            *)
(***************************************************************************)
EXTENDS EmittedCode, InterpProofs

\* The guests emitted code runs on, and the instructions it is emitted for.
CPU == {c \in CPUState : c.regs[0] = 0}
Decoded == {i \in Instruction : Decodable(i)}

----------------------------------------------------------------------------
(* Words and operands.                                                     *)

LEMMA Operands ==
  ASSUME NEW i \in Decoded, NEW c \in CPU
  PROVE  /\ i \in Instruction /\ c \in CPUState
         /\ i.rd \in Reg /\ i.rs1 \in Reg /\ i.rs2 \in Reg /\ i.imm \in Word
         /\ c.pc \in Word /\ c.regs[i.rs1] \in Word /\ c.regs[i.rs2] \in Word
  BY DEF Decoded, CPU, Instruction, CPUState

\* A backend may read x0 or take it for a constant.
LEMMA SlotsRead ==
  ASSUME NEW c \in CPU, NEW r \in Reg
  PROVE  Slot(c, r) = c.regs[r] /\ SlotOrZero(c, r) = c.regs[r]
  BY DEF CPU, Slot, SlotOrZero

\* The write of rd is the interpreter's.
LEMMA setDstIsSetReg ==
  ASSUME NEW c, NEW r, NEW v
  PROVE  setDst(c, r, v) = setReg(c, r, v)
  BY DEF setDst, setReg

\* A pc and a register can be written in either order.
LEMMA WritesCommute ==
  ASSUME NEW c \in CPUState, NEW r, NEW v, NEW w
  PROVE  setReg(setPC(c, v), r, w) = setPC(setReg(c, r, w), v)
<1>1. CASE r = 0
  BY <1>1 DEF setReg
<1>2. CASE r # 0
  <2> DEFINE x == setReg(setPC(c, v), r, w)
             y == setPC(setReg(c, r, w), v)
  <2>1. x = [c EXCEPT !.pc = v, !.regs = [c.regs EXCEPT ![r] = w]]
    BY <1>2 DEF setReg, setPC, CPUState
  <2>2. y = [c EXCEPT !.regs = [c.regs EXCEPT ![r] = w], !.pc = v]
    BY <1>2 DEF setReg, setPC, CPUState
  <2> QED
    BY <2>1, <2>2 DEF CPUState
<1> QED
  BY <1>1, <1>2

LEMMA WordBitsType == WordBits \in 1 .. 32
  BY WordBitsAssumption DEF WordBits

LEMMA SignedType ==
  ASSUME NEW w \in Word
  PROVE  Signed(w) \in Int
  BY ModsOrdered DEF Signed, Word

\* Behind the switch, advancing from where the handler has left the pc is advancing from
\* where it was.
LEMMA HandlerKeepsPc ==
  ASSUME NEW i \in Instruction, NEW c \in CPUState, NEW m \in Memory,
         ~changesPC(i.opc), handler(i, c, m).trap = "none"
  PROVE  handler(i, c, m).cpu.pc = c.pc
<1>1. \A r, v : setReg(c, r, v).pc = c.pc
  BY DEF setReg, CPUState
<1>2. i.opc \notin BranchOps /\ i.opc # "JAL" /\ i.opc # "JALR"
  BY DEF changesPC
<1>3. executeRegisterRegisterOp(i, c, m).cpu.pc = c.pc
  BY <1>1 DEF executeRegisterRegisterOp, Return
<1>4. executeRegisterImmOp(i, c, m).cpu.pc = c.pc
  BY <1>1 DEF executeRegisterImmOp, Return
<1>5. loadHelper(i, c, m).cpu.pc = c.pc
  BY <1>1, Zenon DEF loadHelper, Return, Raise
<1>6. storeHelper(i, c, m).cpu.pc = c.pc
  BY DEF storeHelper, Return, Raise
<1>7. doLUI(i, c, m).cpu.pc = c.pc /\ doAUIPC(i, c, m).cpu.pc = c.pc
  BY <1>1 DEF doLUI, doAUIPC, Return
<1>8. emulateSysCall(c, m).cpu.pc = c.pc
  BY DEF emulateSysCall, doExit, Return, Raise, CPUState
<1>9. Return(c, m).cpu.pc = c.pc
  BY DEF Return
<1> QED
  BY <1>2, <1>3, <1>4, <1>5, <1>6, <1>7, <1>8, <1>9 DEF handler

LEMMA ExecuteAdvancesHandler ==
  ASSUME NEW i \in Instruction, NEW c \in CPUState, NEW m \in Memory
  PROVE  Execute(i, c, m) = Advance(i, handler(i, c, m))
  BY HandlerKeepsPc DEF Execute, Advance
----------------------------------------------------------------------------
(* The helpers: a load or a store by the helper is the interpreter's.      *)

LEMMA LoadsAgree ==
  ASSUME NEW i \in Instruction, i.opc \in LoadOps, NEW c \in CPUState, NEW m \in Memory
  PROVE  CallLoad(i, c, m, ToWord(c.regs[i.rs1] + i.imm), {"LB", "LH"})
           = loadHelper(i, c, m)
<1> DEFINE addr == ToWord(c.regs[i.rs1] + i.imm)
           size == AccessSize(i.opc)
           loaded == ReadBytes(m, addr, size)
           dst == IF i.opc \in {"LB", "LH"} THEN signExtend(loaded, Modulus(size)) ELSE loaded
           value == CASE i.opc = "LB"  -> signExtend(ByteAt(m, addr), ByteMod)
                      [] i.opc = "LBU" -> ByteAt(m, addr)
                      [] i.opc = "LH"  -> signExtend(HalfAt(m, addr), HalfMod)
                      [] i.opc = "LHU" -> HalfAt(m, addr)
                      [] OTHER            -> WordAt(m, addr)
<1> HIDE DEF addr
<1>1. dst = value
  BY DEF LoadOps, AccessSize, ReadBytes, Modulus
<1>2. setDst(c, i.rd, dst) = setReg(c, i.rd, value)
  BY <1>1, setDstIsSetReg
<1> QED
  BY <1>2 DEF CallLoad, loadHelper, addr

LEMMA StoresAgree ==
  ASSUME NEW i, NEW c, NEW m
  PROVE  CallStore(i, c, m, ToWord(c.regs[i.rs1] + i.imm), c.regs[i.rs2])
           = storeHelper(i, c, m)
  BY DEF CallStore, storeHelper

----------------------------------------------------------------------------
(* The operations.  SetOps compare, the others are one host instruction.   *)

SetOps == {"SLT", "SLTU", "SLTI", "SLTIU"}

\* What the tables of asmjit, xbyak, mir and ir have in common.
IsOpTable(op) ==
  /\ DOMAIN op = {"ADD", "SUB", "AND", "OR", "XOR", "SLL", "SRL", "SRA"}
  /\ op["ADD"] = "add" /\ op["SUB"] = "sub"
  /\ op["AND"] = "and" /\ op["OR"] = "or" /\ op["XOR"] = "xor"
  /\ op["SLL"] = "shl" /\ op["SRL"] = "shr" /\ op["SRA"] = "sar"

LEMMA OpTables == IsOpTable(AsmJitOp) /\ IsOpTable(XByakOp) /\ IsOpTable(MirOp) /\ IsOpTable(IrOp)
  BY DEF IsOpTable, AsmJitOp, XByakOp, MirOp, IrOp

LEMMA SetTables ==
  /\ DOMAIN XByakSet = {"SLT", "SLTU"} /\ XByakSet["SLT"] = "slt" /\ XByakSet["SLTU"] = "ult"
  /\ DOMAIN MirSet = {"SLT", "SLTU"} /\ MirSet["SLT"] = "slt" /\ MirSet["SLTU"] = "ult"
  /\ DOMAIN IrCompare = {"SLT", "SLTU"} /\ IrCompare["SLT"] = "slt" /\ IrCompare["SLTU"] = "ult"
  BY DEF XByakSet, MirSet, IrCompare

\* Immediate and register form share their host operation.
LEMMA Bases ==
  /\ \A opc \in {"ADD", "ADDI"} : Base(opc) = "ADD"
  /\ Base("SUB") = "SUB"
  /\ \A opc \in {"AND", "ANDI"} : Base(opc) = "AND"
  /\ \A opc \in {"OR", "ORI"} : Base(opc) = "OR"
  /\ \A opc \in {"XOR", "XORI"} : Base(opc) = "XOR"
  /\ \A opc \in {"SLL", "SLLI"} : Base(opc) = "SLL"
  /\ \A opc \in {"SRL", "SRLI"} : Base(opc) = "SRL"
  /\ \A opc \in {"SRA", "SRAI"} : Base(opc) = "SRA"
  /\ \A opc \in {"SLT", "SLTI"} : Base(opc) = "SLT"
  /\ \A opc \in {"SLTU", "SLTIU"} : Base(opc) = "SLTU"
  BY DEF Base

\* A register form is its own base, and no immediate form.
LEMMA RegisterForms ==
  \A opc \in AluRegOps : Base(opc) = opc /\ opc \notin AluImmOps
  BY DEF AluRegOps, AluImmOps, Base

\* The opcodes, by what they compute.
LEMMA AluOpsByBase ==
  ASSUME NEW opc \in AluOps
  PROVE  \/ opc \in {"ADD", "ADDI"} \/ opc = "SUB" \/ opc \in {"AND", "ANDI"}
         \/ opc \in {"OR", "ORI"} \/ opc \in {"XOR", "XORI"} \/ opc \in {"SLL", "SLLI"}
         \/ opc \in {"SRL", "SRLI"} \/ opc \in {"SRA", "SRAI"} \/ opc \in SetOps
  BY DEF AluOps, AluRegOps, AluImmOps, SetOps

LEMMA HostOps ==
  ASSUME NEW a, NEW b
  PROVE  /\ \A opc \in {"ADD", "ADDI"} : HostOp("add", a, b) = AluOf(opc, a, b)
         /\ HostOp("sub", a, b) = AluOf("SUB", a, b)
         /\ \A opc \in {"AND", "ANDI"} : HostOp("and", a, b) = AluOf(opc, a, b)
         /\ \A opc \in {"OR", "ORI"} : HostOp("or", a, b) = AluOf(opc, a, b)
         /\ \A opc \in {"XOR", "XORI"} : HostOp("xor", a, b) = AluOf(opc, a, b)
         /\ \A opc \in {"SLL", "SLLI"} : HostOp("shl", a, b) = AluOf(opc, a, b)
         /\ \A opc \in {"SRL", "SRLI"} : HostOp("shr", a, b) = AluOf(opc, a, b)
         /\ \A opc \in {"SRA", "SRAI"} : HostOp("sar", a, b) = AluOf(opc, a, b)
<1>1. \A opc \in {"ADD", "ADDI"} : HostOp("add", a, b) = AluOf(opc, a, b)
  BY DEF HostOp, AluOf
<1>2. HostOp("sub", a, b) = AluOf("SUB", a, b)
  BY DEF HostOp, AluOf
<1>3. \A opc \in {"AND", "ANDI"} : HostOp("and", a, b) = AluOf(opc, a, b)
  BY DEF HostOp, AluOf
<1>4. \A opc \in {"OR", "ORI"} : HostOp("or", a, b) = AluOf(opc, a, b)
  BY DEF HostOp, AluOf
<1>5. \A opc \in {"XOR", "XORI"} : HostOp("xor", a, b) = AluOf(opc, a, b)
  BY DEF HostOp, AluOf
<1>6. \A opc \in {"SLL", "SLLI"} : HostOp("shl", a, b) = AluOf(opc, a, b)
  BY DEF HostOp, AluOf, sllHelper, ShiftAmount
<1>7. \A opc \in {"SRL", "SRLI"} : HostOp("shr", a, b) = AluOf(opc, a, b)
  BY DEF HostOp, AluOf, srlHelper, ShiftAmount
<1>8. \A opc \in {"SRA", "SRAI"} : HostOp("sar", a, b) = AluOf(opc, a, b)
  BY DEF HostOp, AluOf, sraHelper, ShiftAmount
<1> QED
  BY <1>1, <1>2, <1>3, <1>4, <1>5, <1>6, <1>7, <1>8

\* One host instruction does what the handler's function does.
LEMMA OpTableAgrees ==
  ASSUME NEW op, IsOpTable(op), NEW opc \in AluOps, NEW a \in Word, NEW b \in Word
  PROVE  /\ Base(opc) \in DOMAIN op <=> opc \notin SetOps
         /\ opc \notin SetOps => HostOp(op[Base(opc)], a, b) = AluOf(opc, a, b)
<1>1. CASE opc \in {"ADD", "ADDI"}
  BY <1>1, Bases, HostOps DEF IsOpTable, SetOps
<1>2. CASE opc = "SUB"
  BY <1>2, Bases, HostOps DEF IsOpTable, SetOps
<1>3. CASE opc \in {"AND", "ANDI"}
  BY <1>3, Bases, HostOps DEF IsOpTable, SetOps
<1>4. CASE opc \in {"OR", "ORI"}
  BY <1>4, Bases, HostOps DEF IsOpTable, SetOps
<1>5. CASE opc \in {"XOR", "XORI"}
  BY <1>5, Bases, HostOps DEF IsOpTable, SetOps
<1>6. CASE opc \in {"SLL", "SLLI"}
  BY <1>6, Bases, HostOps DEF IsOpTable, SetOps
<1>7. CASE opc \in {"SRL", "SRLI"}
  BY <1>7, Bases, HostOps DEF IsOpTable, SetOps
<1>8. CASE opc \in {"SRA", "SRAI"}
  BY <1>8, Bases, HostOps DEF IsOpTable, SetOps
<1>9. CASE opc \in SetOps
  BY <1>9, Bases DEF IsOpTable, SetOps
<1> QED
  BY <1>1, <1>2, <1>3, <1>4, <1>5, <1>6, <1>7, <1>8, <1>9, AluOpsByBase

\* A set instruction compares as the handler does, whichever way round.
LEMMA SetsAgree ==
  ASSUME NEW a \in Word, NEW b \in Word
  PROVE  /\ \A opc \in {"SLT", "SLTI"} :
              /\ AluOf(opc, a, b) = BoolToWord(Holds("slt", a, b))
              /\ AluOf(opc, a, b) = BoolToWord(Holds("sgt", b, a))
         /\ \A opc \in {"SLTU", "SLTIU"} :
              /\ AluOf(opc, a, b) = BoolToWord(Holds("ult", a, b))
              /\ AluOf(opc, a, b) = BoolToWord(Holds("ugt", b, a))
<1>1. Signed(a) \in Int /\ Signed(b) \in Int /\ a \in Int /\ b \in Int
  BY SignedType, ModsOrdered DEF Word
<1>2. /\ Holds("slt", a, b) <=> signedLess(a, b)
      /\ Holds("sgt", b, a) <=> signedLess(a, b)
      /\ Holds("ult", a, b) <=> a < b
      /\ Holds("ugt", b, a) <=> a < b
  BY <1>1 DEF Holds, signedLess
<1>3. \A opc \in {"SLT", "SLTI"} : AluOf(opc, a, b) = BoolToWord(signedLess(a, b))
  BY DEF AluOf
<1>4. \A opc \in {"SLTU", "SLTIU"} : AluOf(opc, a, b) = BoolToWord(a < b)
  BY DEF AluOf
<1> QED
  BY <1>2, <1>3, <1>4 DEF BoolToWord

\* Every condition a branch is translated to is the handler's.
LEMMA ConditionsAgree ==
  ASSUME NEW a \in Word, NEW b \in Word
  PROVE  /\ Taken("BEQ", a, b) <=> Holds("eq", a, b)
         /\ Taken("BNE", a, b) <=> Holds("ne", a, b)
         /\ Taken("BLT", a, b) <=> Holds("slt", a, b)
         /\ Taken("BGE", a, b) <=> Holds("sge", a, b)
         /\ Taken("BLTU", a, b) <=> Holds("ult", a, b)
         /\ Taken("BGEU", a, b) <=> Holds("uge", a, b)
<1>1. Signed(a) \in Int /\ Signed(b) \in Int /\ a \in Int /\ b \in Int
  BY SignedType, ModsOrdered DEF Word
<1> QED
  BY <1>1 DEF Taken, Holds, signedLess

\* What the condition tables of asmjit, xbyak, mir and ir have in common.
IsCondTable(cond) ==
  /\ cond["BEQ"] = "eq" /\ cond["BNE"] = "ne" /\ cond["BLT"] = "slt"
  /\ cond["BGE"] = "sge" /\ cond["BLTU"] = "ult" /\ cond["BGEU"] = "uge"

LEMMA CondTables ==
  IsCondTable(AsmJitCond) /\ IsCondTable(XByakCond) /\ IsCondTable(MirCond) /\ IsCondTable(IrCond)
  BY DEF IsCondTable, AsmJitCond, XByakCond, MirCond, IrCond

LEMMA CondTableAgrees ==
  ASSUME NEW cond, IsCondTable(cond), NEW opc \in BranchOps, NEW a \in Word, NEW b \in Word
  PROVE  Holds(cond[opc], a, b) <=> Taken(opc, a, b)
  BY ConditionsAgree DEF IsCondTable, BranchOps
----------------------------------------------------------------------------
(* The handlers, family by family.                                         *)

\* The second operand of an ALU instruction.
SecondOf(i, c) == IF i.opc \in AluImmOps THEN i.imm ELSE c.regs[i.rs2]

\* What an ALU instruction leaves in rd.
AluResult(i, c) == AluOf(i.opc, c.regs[i.rs1], SecondOf(i, c))

LEMMA Families ==
  ASSUME NEW i \in Decoded
  PROVE  \/ i.opc \in AluOps \/ i.opc \in BranchOps \/ i.opc \in LoadOps
         \/ i.opc \in StoreOps \/ i.opc \in {"JAL", "JALR", "LUI", "AUIPC", "ECALL"}
         \/ i.opc \in {"EBREAK", "FENCE", "PAUSE"}
  BY DEF Decoded, Decodable, Instruction, Opcode, AluOps, NoEffectOps

LEMMA Disjoint ==
  ASSUME NEW opc
  PROVE  /\ opc \in AluOps =>
              opc \notin BranchOps \cup LoadOps \cup StoreOps \cup JumpOps \cup UpperOps
                           \cup {"ECALL"} \cup NoEffectOps
         /\ opc \in BranchOps =>
              opc \notin AluOps \cup LoadOps \cup StoreOps \cup JumpOps \cup UpperOps
                           \cup {"ECALL"} \cup NoEffectOps
         /\ opc \in LoadOps =>
              opc \notin AluOps \cup BranchOps \cup StoreOps \cup JumpOps \cup UpperOps
                           \cup {"ECALL"} \cup NoEffectOps
         /\ opc \in StoreOps =>
              opc \notin AluOps \cup BranchOps \cup LoadOps \cup JumpOps \cup UpperOps
                           \cup {"ECALL"} \cup NoEffectOps
         /\ opc \in JumpOps \cup UpperOps \cup {"ECALL"} \cup NoEffectOps =>
              opc \notin AluOps \cup BranchOps \cup LoadOps \cup StoreOps
<1> USE DEF AluOps, AluRegOps, AluImmOps, BranchOps, LoadOps, StoreOps, JumpOps, UpperOps, NoEffectOps
<1>1. opc \in AluOps =>
        opc \notin BranchOps \cup LoadOps \cup StoreOps \cup JumpOps \cup UpperOps
                     \cup {"ECALL"} \cup NoEffectOps
  OBVIOUS
<1>2. opc \in BranchOps =>
        opc \notin LoadOps \cup StoreOps \cup JumpOps \cup UpperOps \cup {"ECALL"} \cup NoEffectOps
  OBVIOUS
<1>3. opc \in LoadOps =>
        opc \notin StoreOps \cup JumpOps \cup UpperOps \cup {"ECALL"} \cup NoEffectOps
  OBVIOUS
<1>4. opc \in StoreOps =>
        opc \notin JumpOps \cup UpperOps \cup {"ECALL"} \cup NoEffectOps
  OBVIOUS
<1> HIDE DEF AluOps, AluRegOps, AluImmOps, BranchOps, LoadOps, StoreOps, JumpOps, UpperOps, NoEffectOps
<1> QED
  BY <1>1, <1>2, <1>3, <1>4

LEMMA HandlerOf ==
  ASSUME NEW i, NEW c, NEW m
  PROVE  /\ i.opc \in AluRegOps => handler(i, c, m) = executeRegisterRegisterOp(i, c, m)
         /\ i.opc \in AluImmOps => handler(i, c, m) = executeRegisterImmOp(i, c, m)
         /\ i.opc \in BranchOps => handler(i, c, m) = brHelper(i, c, m)
         /\ i.opc \in LoadOps => handler(i, c, m) = loadHelper(i, c, m)
         /\ i.opc \in StoreOps => handler(i, c, m) = storeHelper(i, c, m)
         /\ i.opc = "LUI" => handler(i, c, m) = doLUI(i, c, m)
         /\ i.opc = "AUIPC" => handler(i, c, m) = doAUIPC(i, c, m)
         /\ i.opc = "JAL" => handler(i, c, m) = doJAL(i, c, m)
         /\ i.opc = "JALR" => handler(i, c, m) = doJALR(i, c, m)
         /\ i.opc = "ECALL" => handler(i, c, m) = emulateSysCall(c, m)
         /\ i.opc \in {"EBREAK", "FENCE", "PAUSE"} => handler(i, c, m) = Return(c, m)
<1> USE DEF AluRegOps, AluImmOps, BranchOps, LoadOps, StoreOps
<1>7. i.opc \in AluRegOps => handler(i, c, m) = executeRegisterRegisterOp(i, c, m)
  BY DEF handler
<1>8. i.opc \in AluImmOps => handler(i, c, m) = executeRegisterImmOp(i, c, m)
  BY DEF handler
<1>1. i.opc \in BranchOps => handler(i, c, m) = brHelper(i, c, m)
  BY DEF handler
<1>2. i.opc \in LoadOps => handler(i, c, m) = loadHelper(i, c, m)
  BY DEF handler
<1>3. i.opc \in StoreOps => handler(i, c, m) = storeHelper(i, c, m)
  BY DEF handler
<1>4. /\ i.opc = "LUI" => handler(i, c, m) = doLUI(i, c, m)
      /\ i.opc = "AUIPC" => handler(i, c, m) = doAUIPC(i, c, m)
  BY DEF handler
<1>5. /\ i.opc = "JAL" => handler(i, c, m) = doJAL(i, c, m)
      /\ i.opc = "JALR" => handler(i, c, m) = doJALR(i, c, m)
  BY DEF handler
<1>6. /\ i.opc = "ECALL" => handler(i, c, m) = emulateSysCall(c, m)
      /\ i.opc \in {"EBREAK", "FENCE", "PAUSE"} => handler(i, c, m) = Return(c, m)
  BY DEF handler
<1> QED
  BY <1>1, <1>2, <1>3, <1>4, <1>5, <1>6, <1>7, <1>8

LEMMA AluHandler ==
  ASSUME NEW i \in Decoded, i.opc \in AluOps, NEW c \in CPU, NEW m
  PROVE  /\ SecondOf(i, c) \in Word /\ AluResult(i, c) \in Word
         /\ handler(i, c, m) = Return(setReg(c, i.rd, AluResult(i, c)), m)
<1> DEFINE a == c.regs[i.rs1]
           b == SecondOf(i, c)
<1>1. a \in Word /\ b \in Word
  BY Operands DEF SecondOf
<1>2. Alu(i.opc, a, b) = AluOf(i.opc, a, b) /\ Alu(i.opc, a, b) \in Word
  BY <1>1, AluIsAluOf, AluAssumption DEF AluOps
<1>3. handler(i, c, m) = Return(setReg(c, i.rd, Alu(i.opc, a, b)), m)
  <2>1. CASE i.opc \in AluRegOps
    <3>1. b = c.regs[i.rs2]
      BY <2>1 DEF SecondOf, AluRegOps, AluImmOps
    <3>2. handler(i, c, m) = executeRegisterRegisterOp(i, c, m)
      BY <2>1, HandlerOf
    <3> HIDE DEF b
    <3> QED
      BY <3>1, <3>2 DEF executeRegisterRegisterOp
  <2>2. CASE i.opc \in AluImmOps
    <3>1. b = i.imm /\ i.opc \notin AluRegOps
      BY <2>2 DEF SecondOf, AluRegOps, AluImmOps
    <3>2. handler(i, c, m) = executeRegisterImmOp(i, c, m)
      BY <2>2, HandlerOf
    <3> HIDE DEF b
    <3> QED
      BY <3>1, <3>2 DEF executeRegisterImmOp
  <2> QED
    BY <2>1, <2>2 DEF AluOps
<1> QED
  BY <1>1, <1>2, <1>3 DEF AluResult

----------------------------------------------------------------------------
(* asmjit.                                                                 *)

LEMMA AsmJitAluAgrees ==
  ASSUME NEW i \in Decoded, i.opc \in AluOps, NEW c \in CPU, NEW m
  PROVE  Return(AsmJitAlu(i, c), m) = handler(i, c, m)
<1> DEFINE a == c.regs[i.rs1]
           b == SecondOf(i, c)
<1>1. a \in Word /\ b \in Word
  BY Operands, AluHandler
<1>2. SlotOrZero(c, i.rs1) = a /\ SlotOrZero(c, i.rs2) = c.regs[i.rs2]
  BY Operands, SlotsRead
<1>3. i.opc \notin SetOps =>
        /\ Base(i.opc) \in DOMAIN AsmJitOp
        /\ HostOp(AsmJitOp[Base(i.opc)], a, b) = AluResult(i, c)
  BY <1>1, OpTables, OpTableAgrees DEF AluResult
<1>4. i.opc \in SetOps =>
        /\ Base(i.opc) \notin DOMAIN AsmJitOp
        /\ AsmJitSet(i.opc, a, b) = AluResult(i, c)
  <2>1. i.opc \in SetOps => Base(i.opc) \notin DOMAIN AsmJitOp
    BY <1>1, OpTables, OpTableAgrees
  <2>2. i.opc \in SetOps => AsmJitSet(i.opc, a, b) = AluResult(i, c)
    BY <1>1, SetsAgree DEF AluResult, AsmJitSet, SetOps
  <2> QED
    BY <2>1, <2>2
<1>5. AsmJitAlu(i, c) = setDst(c, i.rd, AluResult(i, c))
  BY <1>2, <1>3, <1>4 DEF AsmJitAlu, SecondOf
<1> QED
  BY <1>5, AluHandler, setDstIsSetReg

LEMMA AsmJitAgrees ==
  ASSUME NEW i \in Decoded, NEW c \in CPU, NEW m \in Memory
  PROVE  AsmJit(i, c, m) = Execute(i, c, m)
<1> DEFINE h == handler(i, c, m)
<1>1. /\ SlotOrZero(c, i.rs1) = c.regs[i.rs1]
      /\ SlotOrZero(c, i.rs2) = c.regs[i.rs2]
  BY Operands, SlotsRead
<1>2. \A r, v : setDst(c, r, v) = setReg(c, r, v)
  BY setDstIsSetReg
<1>3. AsmJitAddress(i, c) = ToWord(c.regs[i.rs1] + i.imm)
  BY <1>1 DEF AsmJitAddress, HostOp
<1>4. i.opc \in AluOps => Return(AsmJitAlu(i, c), m) = h
  BY AsmJitAluAgrees
<1>5. i.opc \in BranchOps => Return(AsmJitBranch(i, c), m) = h
  <2>1. i.opc \in BranchOps =>
          (Holds(AsmJitCond[i.opc], SlotOrZero(c, i.rs1), SlotOrZero(c, i.rs2))
             <=> Taken(i.opc, c.regs[i.rs1], c.regs[i.rs2]))
    BY <1>1, Operands, CondTables, CondTableAgrees
  <2> QED
    BY <2>1, HandlerOf DEF AsmJitBranch, brHelper
<1>6. i.opc \in LoadOps => AsmJitLoad(i, c, m) = h
  BY <1>3, HandlerOf, LoadsAgree, Operands DEF AsmJitLoad
<1>7. i.opc \in StoreOps => AsmJitStore(i, c, m) = h
  BY <1>1, <1>3, HandlerOf, StoresAgree DEF AsmJitStore
<1>8. i.opc \in JumpOps => Return(AsmJitJump(i, c), m) = h
  <2>1. i.opc = "JAL" => Return(AsmJitJump(i, c), m) = h
    BY <1>2, HandlerOf DEF AsmJitJump, HostOp, ReturnAddress, doJAL
  <2>2. i.opc = "JALR" => Return(AsmJitJump(i, c), m) = h
    BY <1>1, <1>2, Operands, WritesCommute, HandlerOf
    DEF AsmJitJump, HostOp, ReturnAddress, Even, doJALR
  <2> QED
    BY <2>1, <2>2 DEF JumpOps
<1>9. i.opc \in UpperOps => Return(AsmJitUpper(i, c), m) = h
  BY <1>2, HandlerOf DEF AsmJitUpper, HostOp, doLUI, doAUIPC, UpperOps
<1>10. /\ i.opc = "ECALL" => CallSyscall(c, m) = h
       /\ i.opc \in {"EBREAK", "FENCE", "PAUSE"} => Return(c, m) = h
  BY HandlerOf DEF CallSyscall
<1> HIDE DEF h
<1>11. AsmJit(i, c, m) = Advance(i, h)
  BY Families, Disjoint, <1>4, <1>5, <1>6, <1>7, <1>8, <1>9, <1>10
  DEF AsmJit, JumpOps, UpperOps, NoEffectOps
<1> QED
  BY <1>11, ExecuteAdvancesHandler, Operands DEF h

----------------------------------------------------------------------------
(* xbyak.                                                                  *)

LEMMA XByakAluAgrees ==
  ASSUME NEW i \in Decoded, i.opc \in AluOps, NEW c \in CPU, NEW m
  PROVE  Return(XByakAlu(i, c), m) = handler(i, c, m)
<1> DEFINE a == c.regs[i.rs1]
           b == SecondOf(i, c)
           op == Base(i.opc)
<1>1. a \in Word /\ b \in Word
  BY Operands, AluHandler
<1>2. Slot(c, i.rs1) = a /\ Slot(c, i.rs2) = c.regs[i.rs2]
  BY DEF Slot
<1>3. i.opc \notin SetOps =>
        op \notin DOMAIN XByakSet /\ HostOp(XByakOp[op], a, b) = AluResult(i, c)
  <2>1. i.opc \notin SetOps => op \in DOMAIN XByakOp
    BY <1>1, OpTables, OpTableAgrees
  <2>2. op \in DOMAIN XByakOp => op \notin DOMAIN XByakSet
    BY OpTables, SetTables DEF IsOpTable
  <2>3. i.opc \notin SetOps => HostOp(XByakOp[op], a, b) = AluResult(i, c)
    BY <1>1, OpTables, OpTableAgrees DEF AluResult
  <2> QED
    BY <2>1, <2>2, <2>3
<1>4. i.opc \in SetOps =>
        op \in DOMAIN XByakSet /\ BoolToWord(Holds(XByakSet[op], a, b)) = AluResult(i, c)
  BY <1>1, Bases, SetTables, SetsAgree DEF AluResult, SetOps
<1>5. XByakAlu(i, c) = setDst(c, i.rd, AluResult(i, c))
  BY <1>2, <1>3, <1>4 DEF XByakAlu, SecondOf
<1> QED
  BY <1>5, AluHandler, setDstIsSetReg

LEMMA XByakAgrees ==
  ASSUME NEW i \in Decoded, NEW c \in CPU, NEW m \in Memory
  PROVE  XByak(i, c, m) = Execute(i, c, m)
<1> DEFINE h == handler(i, c, m)
<1>1. \A r : Slot(c, r) = c.regs[r]
  BY DEF Slot
<1>2. \A r, v : setDst(c, r, v) = setReg(c, r, v)
  BY setDstIsSetReg
<1>3. i.opc \in AluOps => Return(XByakAlu(i, c), m) = h
  BY XByakAluAgrees
<1>4. i.opc \in BranchOps => Return(XByakBranch(i, c), m) = h
  <2>1. i.opc \in BranchOps =>
          (Holds(XByakCond[i.opc], Slot(c, i.rs1), Slot(c, i.rs2))
             <=> Taken(i.opc, c.regs[i.rs1], c.regs[i.rs2]))
    BY <1>1, Operands, CondTables, CondTableAgrees
  <2> QED
    BY <2>1, HandlerOf DEF XByakBranch, brHelper
<1>5. i.opc \in LoadOps => XByakLoad(i, c, m) = h
  BY <1>1, HandlerOf, LoadsAgree, Operands DEF XByakLoad, HostOp
<1>6. i.opc \in StoreOps => XByakStore(i, c, m) = h
  BY <1>1, HandlerOf, StoresAgree DEF XByakStore, HostOp
<1>7. i.opc = "JAL" => Return(XByakJAL(i, c), m) = h
  BY <1>2, HandlerOf DEF XByakJAL, HostOp, ReturnAddress, doJAL
<1>8. i.opc = "JALR" => Return(XByakJALR(i, c), m) = h
  BY <1>1, setDstIsSetReg, HandlerOf DEF XByakJALR, HostOp, Even, ReturnAddress, doJALR
<1>9. /\ i.opc = "LUI" => Return(setDst(c, i.rd, i.imm), m) = h
      /\ i.opc = "AUIPC" => Return(setDst(c, i.rd, HostOp("add", c.pc, i.imm)), m) = h
  BY <1>2, HandlerOf DEF HostOp, doLUI, doAUIPC
<1>10. /\ i.opc = "ECALL" => CallSyscall(c, m) = h
       /\ i.opc \in {"EBREAK", "FENCE", "PAUSE"} => Return(c, m) = h
  BY HandlerOf DEF CallSyscall
<1> HIDE DEF h
<1>11. XByak(i, c, m) = Advance(i, h)
  BY Families, Disjoint, <1>3, <1>4, <1>5, <1>6, <1>7, <1>8, <1>9, <1>10
  DEF XByak, JumpOps, UpperOps, NoEffectOps
<1> QED
  BY <1>11, ExecuteAdvancesHandler, Operands DEF h
----------------------------------------------------------------------------
(* mir.                                                                    *)

LEMMA MirResultAgrees ==
  ASSUME NEW opc \in AluOps, NEW a \in Word, NEW b \in Word
  PROVE  MirResult(Base(opc), a, b) = AluOf(opc, a, b)
<1> DEFINE op == Base(opc)
<1>1. CASE opc \notin SetOps
  <2>1. op \in DOMAIN MirOp /\ HostOp(MirOp[op], a, b) = AluOf(opc, a, b)
    BY <1>1, OpTables, OpTableAgrees
  <2>2. op \notin DOMAIN MirSet
    BY <2>1, OpTables, SetTables DEF IsOpTable
  <2> QED
    BY <2>1, <2>2 DEF MirResult
<1>2. CASE opc \in SetOps
  BY <1>2, Bases, SetTables, SetsAgree DEF MirResult, SetOps
<1> QED
  BY <1>1, <1>2

LEMMA MirAgrees ==
  ASSUME NEW i \in Decoded, NEW c \in CPU, NEW m \in Memory
  PROVE  Mir(i, c, m) = Execute(i, c, m)
<1> DEFINE h == handler(i, c, m)
<1>1. /\ SlotOrZero(c, i.rs1) = c.regs[i.rs1]
      /\ SlotOrZero(c, i.rs2) = c.regs[i.rs2]
      /\ Slot(c, i.rs2) = c.regs[i.rs2]
  BY Operands, SlotsRead
<1>2. \A r, v : setDst(c, r, v) = setReg(c, r, v)
  BY setDstIsSetReg
<1>3. i.opc \in AluRegOps => Return(MirRegOp(i, c), m) = h
  BY <1>1, <1>2, Operands, RegisterForms, MirResultAgrees, AluHandler
  DEF MirRegOp, AluResult, SecondOf, AluOps
<1>4. i.opc \in AluImmOps => Return(MirImmOp(i, c), m) = h
  BY <1>1, <1>2, Operands, MirResultAgrees, AluHandler
  DEF MirImmOp, AluResult, SecondOf, AluOps
<1>5. i.opc \in BranchOps => Return(MirBranch(i, c), m) = h
  <2>1. i.opc \in BranchOps =>
          (Holds(MirCond[i.opc], SlotOrZero(c, i.rs1), SlotOrZero(c, i.rs2))
             <=> Taken(i.opc, c.regs[i.rs1], c.regs[i.rs2]))
    BY <1>1, Operands, CondTables, CondTableAgrees
  <2> QED
    BY <2>1, HandlerOf DEF MirBranch, brHelper, HostOp
<1>6. i.opc \in LoadOps => MirLoad(i, c, m) = h
  BY <1>1, HandlerOf, LoadsAgree, Operands DEF MirLoad, HostOp
<1>7. i.opc \in StoreOps => MirStore(i, c, m) = h
  BY <1>1, HandlerOf, StoresAgree DEF MirStore, HostOp
<1>8. i.opc = "JAL" => Return(MirJAL(i, c), m) = h
  BY <1>2, HandlerOf DEF MirJAL, HostOp, ReturnAddress, doJAL
<1>9. i.opc = "JALR" => Return(MirJALR(i, c), m) = h
  BY <1>1, setDstIsSetReg, HandlerOf DEF MirJALR, HostOp, Even, ReturnAddress, doJALR
<1>10. i.opc \in UpperOps => Return(MirUpper(i, c), m) = h
  BY <1>2, HandlerOf DEF MirUpper, HostOp, doLUI, doAUIPC, UpperOps
<1>11. /\ i.opc = "ECALL" => CallSyscall(c, m) = h
       /\ i.opc \in {"EBREAK", "FENCE", "PAUSE"} => Return(c, m) = h
  BY HandlerOf DEF CallSyscall
<1> HIDE DEF h
<1>12. Mir(i, c, m) = Advance(i, h)
  BY Families, Disjoint, RegisterForms, <1>3, <1>4, <1>5, <1>6, <1>7, <1>8, <1>9, <1>10, <1>11
  DEF Mir, JumpOps, UpperOps, NoEffectOps, AluOps
<1> QED
  BY <1>12, ExecuteAdvancesHandler, Operands DEF h

----------------------------------------------------------------------------
(* ir.                                                                     *)

LEMMA IrResultAgrees ==
  ASSUME NEW opc \in AluOps, NEW a \in Word, NEW b \in Word
  PROVE  IrResult(Base(opc), a, b) = AluOf(opc, a, b)
<1> DEFINE op == Base(opc)
<1>1. CASE opc \notin SetOps
  <2>1. op \in DOMAIN IrOp /\ HostOp(IrOp[op], a, b) = AluOf(opc, a, b)
    BY <1>1, OpTables, OpTableAgrees
  <2>2. op \notin DOMAIN IrCompare
    BY <2>1, OpTables, SetTables DEF IsOpTable
  <2> QED
    BY <2>1, <2>2 DEF IrResult
<1>2. CASE opc \in SetOps
  BY <1>2, Bases, SetTables, SetsAgree DEF IrResult, SetOps
<1> QED
  BY <1>1, <1>2

\* Where the link register is not the base, or is x0, linking first does no harm.
LEMMA IrAgrees ==
  ASSUME NEW i \in Decoded, NEW c \in CPU, NEW m \in Memory
  PROVE  \/ i.opc = "JALR" /\ i.rd = i.rs1 /\ i.rd # 0
         \/ Ir(i, c, m) = Execute(i, c, m)
<1> SUFFICES ASSUME ~(i.opc = "JALR" /\ i.rd = i.rs1 /\ i.rd # 0)
             PROVE  Ir(i, c, m) = Execute(i, c, m)
  OBVIOUS
<1> DEFINE h == handler(i, c, m)
<1>1. /\ SlotOrZero(c, i.rs1) = c.regs[i.rs1]
      /\ SlotOrZero(c, i.rs2) = c.regs[i.rs2]
      /\ Slot(c, i.rs2) = c.regs[i.rs2]
  BY Operands, SlotsRead
<1>2. \A r, v : setDst(c, r, v) = setReg(c, r, v)
  BY setDstIsSetReg
<1>3. i.opc \in AluRegOps => Return(IrRegOp(i, c), m) = h
  BY <1>1, <1>2, Operands, RegisterForms, IrResultAgrees, AluHandler
  DEF IrRegOp, AluResult, SecondOf, AluOps
<1>4. i.opc \in AluImmOps => Return(IrImmOp(i, c), m) = h
  BY <1>1, <1>2, Operands, IrResultAgrees, AluHandler
  DEF IrImmOp, AluResult, SecondOf, AluOps
<1>5. i.opc \in BranchOps => Return(IrBranch(i, c), m) = h
  <2>1. i.opc \in BranchOps =>
          (Holds(IrCond[i.opc], SlotOrZero(c, i.rs1), SlotOrZero(c, i.rs2))
             <=> Taken(i.opc, c.regs[i.rs1], c.regs[i.rs2]))
    BY <1>1, Operands, CondTables, CondTableAgrees
  <2> QED
    BY <2>1, HandlerOf DEF IrBranch, brHelper, HostOp
<1>6. i.opc \in LoadOps => IrLoad(i, c, m) = h
  BY <1>1, HandlerOf, LoadsAgree, Operands DEF IrLoad, HostOp
<1>7. i.opc \in StoreOps => IrStore(i, c, m) = h
  BY <1>1, HandlerOf, StoresAgree DEF IrStore, HostOp
<1>8. i.opc = "JAL" => Return(IrJAL(i, c), m) = h
  BY <1>2, HandlerOf DEF IrJAL, HostOp, ReturnAddress, doJAL
<1>9. i.opc = "JALR" => Return(IrJALR(i, c), m) = h
  <2> DEFINE linked == setDst(c, i.rd, ReturnAddress(c))
  <2>1. i.opc = "JALR" => SlotOrZero(linked, i.rs1) = c.regs[i.rs1]
    <3>1. ASSUME i.opc = "JALR", i.rs1 = 0
          PROVE  SlotOrZero(linked, i.rs1) = c.regs[i.rs1]
      BY <3>1 DEF SlotOrZero, CPU
    <3>2. ASSUME i.opc = "JALR", i.rs1 # 0
          PROVE  SlotOrZero(linked, i.rs1) = c.regs[i.rs1]
      <4>1. i.rd = 0 \/ i.rd # i.rs1
        BY <3>2
      <4>2. CASE i.rd = 0
        BY <3>2, <4>2 DEF SlotOrZero, Slot, setDst
      <4>3. CASE i.rd # 0 /\ i.rd # i.rs1
        <5>1. linked.regs = [c.regs EXCEPT ![i.rd] = ReturnAddress(c)]
          BY <4>3, Operands DEF setDst, CPUState
        <5>2. linked.regs[i.rs1] = c.regs[i.rs1]
          BY <5>1, <4>3, Operands DEF CPUState
        <5> QED
          BY <5>2, <3>2 DEF SlotOrZero, Slot
      <4> QED
        BY <4>1, <4>2, <4>3
    <3> QED
      BY <3>1, <3>2
  <2>2. i.opc = "JALR" =>
          IrJALR(i, c) = setPC(setReg(c, i.rd, ReturnAddress(c)),
                                  Even(ToWord(c.regs[i.rs1] + i.imm)))
    BY <1>2, <2>1 DEF IrJALR, HostOp
  <2> QED
    BY <2>2, Operands, WritesCommute, HandlerOf DEF Even, ReturnAddress, doJALR
<1>10. i.opc \in UpperOps => Return(IrUpper(i, c), m) = h
  BY <1>2, HandlerOf DEF IrUpper, HostOp, doLUI, doAUIPC, UpperOps
<1>11. /\ i.opc = "ECALL" => CallSyscall(c, m) = h
       /\ i.opc \in {"EBREAK", "FENCE", "PAUSE"} => Return(c, m) = h
  BY HandlerOf DEF CallSyscall
<1> HIDE DEF h
<1>12. Ir(i, c, m) = Advance(i, h)
  BY Families, Disjoint, RegisterForms, <1>3, <1>4, <1>5, <1>6, <1>7, <1>8, <1>9, <1>10, <1>11
  DEF Ir, JumpOps, UpperOps, NoEffectOps, AluOps
<1> QED
  BY <1>12, ExecuteAdvancesHandler, Operands DEF h
----------------------------------------------------------------------------
(* llvm and tpde.                                                          *)

\* The n-th byte of a word is in what a store of more than n bytes passes on.
LEMMA BytesKept ==
  ASSUME NEW v \in Word
  PROVE  /\ NthByte(v % ByteMod, 0) = NthByte(v, 0)
         /\ NthByte(v % HalfMod, 0) = NthByte(v, 0)
         /\ NthByte(v % HalfMod, 1) = NthByte(v, 1)
         /\ v % WordMod = v
<1>1. v \in Nat /\ v < WordMod /\ ByteMod \in Nat /\ ByteMod > 0
  BY ByteModAssumption, ModsOrdered DEF Word
<1>2. (v % ByteMod) % ByteMod = v % ByteMod
  BY <1>1, ModMod
<1>3. (v % HalfMod) % ByteMod = v % ByteMod
  BY <1>1, ModMod DEF HalfMod
<1>4. ((v % HalfMod) \div ByteMod) % ByteMod = (v \div ByteMod) % ByteMod
  <2> DEFINE q == v \div HalfMod
             r == v % HalfMod
             p == r \div ByteMod
  <2>1. q \in Int /\ r \in Int /\ v = HalfMod * q + r
    BY <1>1, ModsOrdered, DivMod, ModRange
  <2>2. p \in Int /\ r = ByteMod * p + (r % ByteMod) /\ r % ByteMod \in 0 .. ByteMod - 1
    BY <1>1, <2>1, DivMod, ModRange
  <2> HIDE DEF q, r, p
  <2>3. v = ByteMod * (ByteMod * q + p) + (r % ByteMod)
    <3>1. HalfMod * q = ByteMod * (ByteMod * q)
      BY <1>1, <2>1 DEF HalfMod
    <3>2. ByteMod * (ByteMod * q + p) = ByteMod * (ByteMod * q) + ByteMod * p
      BY <1>1, <2>1, <2>2
    <3>3. /\ HalfMod * q \in Int /\ ByteMod * p \in Int /\ r % ByteMod \in Int
          /\ ByteMod * (ByteMod * q) \in Int
      BY <1>1, <2>1, <2>2, ModsOrdered
    <3> DEFINE x == HalfMod * q
               y == ByteMod * p
               z == r % ByteMod
    <3> HIDE DEF x, y, z
    <3>4. v = x + (y + z)
      BY <2>1, <2>2 DEF x, y, z
    <3>5. ByteMod * (ByteMod * q + p) = x + y
      BY <3>1, <3>2 DEF x, y
    <3>6. v = (x + y) + z
      BY <3>3, <3>4 DEF x, y, z
    <3> QED
      BY <3>5, <3>6 DEF z
  <2>4. v \div ByteMod = ByteMod * q + p
    <3> DEFINE x == ByteMod * q + p
               t == v \div ByteMod
    <3>1. t \in Int /\ v = ByteMod * t + (v % ByteMod) /\ v % ByteMod \in 0 .. ByteMod - 1
      BY <1>1, DivMod, ModRange
    <3>2. x \in Int
      BY <1>1, <2>1, <2>2
    <3> HIDE DEF x, t
    <3>3. ByteMod * x + (r % ByteMod) = ByteMod * t + (v % ByteMod)
      BY <2>3, <3>1 DEF x
    <3>4. r % ByteMod = v % ByteMod
      BY <1>1, <2>2, <3>1, <3>2, <3>3, RemainderUnique
    <3>5. ByteMod * x = ByteMod * t
      BY <1>1, <2>2, <3>1, <3>2, <3>3, <3>4
    <3>6. x = t
      BY <1>1, <3>1, <3>2, <3>5
    <3> QED
      BY <3>6 DEF x, t
  <2>5. (ByteMod * q + p) % ByteMod = p % ByteMod
    <3>1. (ByteMod * q) % ByteMod = 0
      BY <1>1, <2>1, DivMod, ModRange, RemainderUnique
    <3>2. ByteMod * q \in Int
      BY <1>1, <2>1
    <3>3. (((ByteMod * q) % ByteMod) + p) % ByteMod = (ByteMod * q + p) % ByteMod
      BY <1>1, <2>2, <3>2, ModSum
    <3> QED
      BY <2>2, <3>1, <3>3
  <2> QED
    BY <2>4, <2>5 DEF p, r
<1>5. v % WordMod = v
  BY <1>1, ModsOrdered
<1> QED
  BY <1>2, <1>3, <1>4, <1>5 DEF NthByte
\* Storing the truncated value stores the same bytes.
LEMMA NarrowStoresAgree ==
  ASSUME NEW m, NEW addr \in Int, NEW v \in Word, NEW opc \in StoreOps
  PROVE  WriteBytes(m, addr, v % Modulus(AccessSize(opc)), AccessSize(opc))
           = WriteBytes(m, addr, v, AccessSize(opc))
<1> DEFINE size == AccessSize(opc)
           narrow == v % Modulus(size)
<1>1. \A a \in Word : a \in addr .. addr + size - 1 => NthByte(narrow, a - addr) = NthByte(v, a - addr)
  <2>0. \A a \in Word : a \in Int
    BY ModsOrdered DEF Word
  <2>1. CASE opc = "SB"
    <3>1. size = 1 /\ narrow = v % ByteMod
      BY <2>1 DEF AccessSize, Modulus
    <3> HIDE DEF size, narrow
    <3>2. \A a \in Word : a \in addr .. addr + size - 1 => a - addr = 0
      BY <2>0, <3>1
    <3> QED
      BY <3>1, <3>2, BytesKept
  <2>2. CASE opc = "SH"
    <3>1. size = 2 /\ narrow = v % HalfMod
      BY <2>2 DEF AccessSize, Modulus
    <3> HIDE DEF size, narrow
    <3>2. \A a \in Word : a \in addr .. addr + size - 1 => a - addr \in {0, 1}
      BY <2>0, <3>1
    <3> QED
      BY <3>1, <3>2, BytesKept
  <2>3. CASE opc = "SW"
    <3>1. narrow = v % WordMod
      BY <2>3 DEF AccessSize, Modulus
    <3> QED
      BY <3>1, BytesKept
  <2> QED
    BY <2>1, <2>2, <2>3 DEF StoreOps
<1> HIDE DEF size, narrow
<1>2. WriteBytes(m, addr, narrow, size) = WriteBytes(m, addr, v, size)
  BY <1>1 DEF WriteBytes
<1> QED
  BY <1>2 DEF size, narrow

\* A shift by a register is excepted where its count is past the word.
LEMMA LlvmAluAgrees ==
  ASSUME NEW i \in Decoded, i.opc \in AluOps, NEW c \in CPU,
         i.opc \in {"SLL", "SRL", "SRA"} => c.regs[i.rs2] < WordBits
  PROVE  LlvmAlu(i, c) = {AluResult(i, c)}
<1> DEFINE opc == i.opc
           a == c.regs[i.rs1]
           b == c.regs[i.rs2]
           imm == i.imm
<1>1. /\ a \in Word /\ b \in Word /\ imm \in Word
      /\ Slot(c, i.rs1) = a /\ Slot(c, i.rs2) = b
  BY Operands DEF Slot
<1>2. /\ opc \in AluRegOps => AluResult(i, c) = AluOf(opc, a, b)
      /\ opc \in AluImmOps => AluResult(i, c) = AluOf(opc, a, imm)
  BY RegisterForms DEF AluResult, SecondOf
<1>3. opc \in {"SLLI", "SRLI", "SRAI"} => imm < WordBits
  BY DEF Decoded, Decodable, ShiftImmOps
<1> HIDE DEF a, b, imm
<1>4. CASE opc \in {"ADD", "SUB"}
  <2>1. LlvmAlu(i, c) = {LlvmAddSub(opc, a, b)}
    BY <1>1, <1>4 DEF LlvmAlu
  <2>2. LlvmAddSub(opc, a, b) = AluOf(opc, a, b)
    BY <1>4, HostOps DEF LlvmAddSub
  <2> QED
    BY <1>2, <1>4, <2>1, <2>2 DEF AluRegOps
<1>5. CASE opc \in {"XOR", "OR", "AND"}
  <2>1. LlvmAlu(i, c) = {LlvmLogic(opc, a, b)}
    BY <1>1, <1>5 DEF LlvmAlu
  <2>2. LlvmLogic(opc, a, b) = AluOf(opc, a, b)
    BY <1>5, HostOps DEF LlvmLogic
  <2> QED
    BY <1>2, <1>5, <2>1, <2>2 DEF AluRegOps
<1>6. CASE opc \in {"SLT", "SLTU"}
  <2>1. LlvmAlu(i, c) = {LlvmSet(opc, a, b)}
    BY <1>1, <1>6 DEF LlvmAlu
  <2>2. LlvmSet(opc, a, b) = AluOf(opc, a, b)
    BY <1>1, <1>6, SetsAgree DEF LlvmSet, ICmp
  <2> QED
    BY <1>2, <1>6, <2>1, <2>2 DEF AluRegOps
<1>7. CASE opc \in {"SLL", "SRL", "SRA"}
  <2>1. LlvmAlu(i, c) = LlvmShift(opc, a, b)
    BY <1>1, <1>7 DEF LlvmAlu
  <2>2. b < WordBits
    BY <1>7 DEF b
  <2>3. LlvmShift(opc, a, b) = {AluOf(opc, a, b)}
    BY <1>7, <2>2, HostOps DEF LlvmShift, IRShift
  <2> QED
    BY <1>2, <1>7, <2>1, <2>3 DEF AluRegOps
<1>8. CASE opc = "ADDI"
  <2>1. LlvmAlu(i, c) = {LlvmADDI(a, imm)}
    BY <1>1, <1>8 DEF LlvmAlu, imm
  <2>2. LlvmADDI(a, imm) = AluOf(opc, a, imm)
    BY <1>8, HostOps DEF LlvmADDI
  <2> QED
    BY <1>2, <1>8, <2>1, <2>2 DEF AluImmOps
<1>9. CASE opc \in {"SLTI", "SLTIU"}
  <2>1. LlvmAlu(i, c) = {LlvmSetImm(opc, a, imm)}
    BY <1>1, <1>9 DEF LlvmAlu, imm
  <2>2. LlvmSetImm(opc, a, imm) = AluOf(opc, a, imm)
    BY <1>1, <1>9, SetsAgree DEF LlvmSetImm, ICmp
  <2> QED
    BY <1>2, <1>9, <2>1, <2>2 DEF AluImmOps
<1>10. CASE opc \in {"XORI", "ORI", "ANDI"}
  <2>1. LlvmAlu(i, c) = {LlvmLogicImm(opc, a, imm)}
    BY <1>1, <1>10 DEF LlvmAlu, imm
  <2>2. LlvmLogicImm(opc, a, imm) = AluOf(opc, a, imm)
    BY <1>10, HostOps DEF LlvmLogicImm
  <2> QED
    BY <1>2, <1>10, <2>1, <2>2 DEF AluImmOps
<1>11. CASE opc \in {"SLLI", "SRLI", "SRAI"}
  <2>1. LlvmAlu(i, c) = LlvmShiftImm(opc, a, imm)
    BY <1>1, <1>11 DEF LlvmAlu, imm
  <2>2. LlvmShiftImm(opc, a, imm) = {AluOf(opc, a, imm)}
    BY <1>3, <1>11, HostOps DEF LlvmShiftImm, IRShift
  <2> QED
    BY <1>2, <1>11, <2>1, <2>2 DEF AluImmOps
<1> QED
  BY <1>4, <1>5, <1>6, <1>7, <1>8, <1>9, <1>10, <1>11 DEF AluOps, AluRegOps, AluImmOps

LEMMA LlvmBranchAgrees ==
  ASSUME NEW i \in Decoded, i.opc \in BranchOps, NEW c \in CPU, NEW m
  PROVE  Return(LlvmBranch(i, c), m) = handler(i, c, m)
<1> DEFINE a == c.regs[i.rs1]
           b == c.regs[i.rs2]
           cond == CASE i.opc \in {"BEQ", "BNE"} -> LlvmEqual(i, a, b)
                     [] i.opc \in {"BLT", "BGE"} -> LlvmSignedLess(i, a, b)
                     [] OTHER                       -> LlvmUnsignedLess(i, a, b)
<1>1. a \in Word /\ b \in Word
  BY Operands
<1>2. cond = BoolToWord(Taken(i.opc, a, b))
  <2> HIDE DEF a, b
  <2>1. CASE i.opc \in {"BEQ", "BNE"}
    BY <1>1, <2>1, ConditionsAgree DEF LlvmEqual, ICmp, BoolToWord
  <2>2. CASE i.opc \in {"BLT", "BGE"}
    BY <1>1, <2>2, ConditionsAgree DEF LlvmSignedLess, ICmp, BoolToWord
  <2>3. CASE i.opc \in {"BLTU", "BGEU"}
    BY <1>1, <2>3, ConditionsAgree DEF LlvmUnsignedLess, ICmp, BoolToWord
  <2> QED
    BY <2>1, <2>2, <2>3 DEF BranchOps
<1>3. LlvmBranch(i, c)
        = setPC(c, Select(cond, HostOp("add", c.pc, i.imm), HostOp("add", c.pc, kWordSize)))
  BY DEF LlvmBranch, Slot
<1> HIDE DEF cond
<1> QED
  BY <1>2, <1>3, HandlerOf DEF brHelper, Select, BoolToWord, HostOp
\* No outcome of the IR but the handler's, unless a shift is poison.
LEMMA LlvmAgrees ==
  ASSUME NEW i \in Decoded, NEW c \in CPU, NEW m \in Memory
  PROVE  \/ i.opc \in {"SLL", "SRL", "SRA"} /\ c.regs[i.rs2] >= WordBits
         \/ Llvm(i, c, m) = {Execute(i, c, m)}
<1> SUFFICES ASSUME ~(i.opc \in {"SLL", "SRL", "SRA"} /\ c.regs[i.rs2] >= WordBits)
             PROVE  Llvm(i, c, m) = {Execute(i, c, m)}
  OBVIOUS
<1> DEFINE h == handler(i, c, m)
           addr == ToWord(c.regs[i.rs1] + i.imm)
<1>1. \A r : Slot(c, r) = c.regs[r]
  BY DEF Slot
<1>2. \A r, v : setDst(c, r, v) = setReg(c, r, v)
  BY setDstIsSetReg
<1>3. i.imm \in Int /\ c.pc \in Int /\ addr \in Int
  BY Operands, WordSum, ModsOrdered DEF Word
<1>4. i.opc \in AluOps => {Return(setDst(c, i.rd, v), m) : v \in LlvmAlu(i, c)} = {h}
  <2>1. c.regs[i.rs2] \in Int /\ WordBits \in Int
    BY Operands, ModsOrdered, WordBitsType DEF Word
  <2>2. i.opc \in AluOps => LlvmAlu(i, c) = {AluResult(i, c)}
    BY <2>1, LlvmAluAgrees
  <2> QED
    BY <1>2, <2>2, AluHandler
<1>5. i.opc \in BranchOps => Return(LlvmBranch(i, c), m) = h
  BY LlvmBranchAgrees
<1>6. i.opc \in LoadOps => generateLoad(i, c, m) = h
  BY <1>1, HandlerOf, LoadsAgree, Operands DEF generateLoad, HostOp
<1>7. i.opc \in StoreOps => generateStore(i, c, m) = h
  <2>1. i.opc \in StoreOps =>
          WriteBytes(m, addr, c.regs[i.rs2] % Modulus(AccessSize(i.opc)), AccessSize(i.opc))
            = WriteBytes(m, addr, c.regs[i.rs2], AccessSize(i.opc))
    BY <1>3, Operands, NarrowStoresAgree
  <2>2. generateStore(i, c, m)
          = CallStore(i, c, m, addr, c.regs[i.rs2] % Modulus(AccessSize(i.opc)))
    BY <1>1 DEF generateStore, HostOp
  <2>3. i.opc \in StoreOps =>
          generateStore(i, c, m) = CallStore(i, c, m, addr, c.regs[i.rs2])
    BY <2>1, <2>2 DEF CallStore
  <2> QED
    BY <2>3, HandlerOf, StoresAgree
<1>8. i.opc = "LUI" => Return(LlvmLUI(i, c), m) = h
  BY <1>2, HandlerOf DEF LlvmLUI, doLUI
<1>9. HostOp("add", i.imm, c.pc) = ToWord(c.pc + i.imm)
  <2>1. i.imm + c.pc = c.pc + i.imm
    BY <1>3
  <2> QED
    BY <2>1 DEF HostOp
<1>10. i.opc = "AUIPC" => Return(LlvmAUIPC(i, c), m) = h
  BY <1>2, <1>9, HandlerOf DEF LlvmAUIPC, doAUIPC
<1>11. i.opc = "JAL" => Return(LlvmJAL(i, c), m) = h
  BY <1>9, setDstIsSetReg, WritesCommute, Operands, HandlerOf DEF LlvmJAL, ReturnAddress, doJAL
<1>12. i.opc = "JALR" => Return(LlvmJALR(i, c), m) = h
  BY <1>1, <1>2, WritesCommute, Operands, HandlerOf DEF LlvmJALR, HostOp, Even, ReturnAddress, doJALR
<1>13. /\ i.opc = "ECALL" => CallSyscall(c, m) = h
       /\ i.opc \in {"EBREAK", "FENCE", "PAUSE"} => Return(c, m) = h
  BY HandlerOf DEF CallSyscall
<1> HIDE DEF h
<1>14. Llvm(i, c, m) = {Advance(i, h)}
  <2> DEFINE outs ==
        CASE i.opc \in AluOps    -> {Return(setDst(c, i.rd, v), m) : v \in LlvmAlu(i, c)}
          [] i.opc \in BranchOps -> {Return(LlvmBranch(i, c), m)}
          [] i.opc \in LoadOps   -> {generateLoad(i, c, m)}
          [] i.opc \in StoreOps  -> {generateStore(i, c, m)}
          [] i.opc = "LUI"       -> {Return(LlvmLUI(i, c), m)}
          [] i.opc = "AUIPC"     -> {Return(LlvmAUIPC(i, c), m)}
          [] i.opc = "JAL"       -> {Return(LlvmJAL(i, c), m)}
          [] i.opc = "JALR"      -> {Return(LlvmJALR(i, c), m)}
          [] i.opc = "ECALL"     -> {CallSyscall(c, m)}
          [] i.opc \in {"FENCE", "PAUSE", "EBREAK"} -> {Return(c, m)}
  <2>1. outs = {h}
    BY Families, Disjoint, <1>4, <1>5, <1>6, <1>7, <1>8, <1>10, <1>11, <1>12, <1>13
    DEF JumpOps, UpperOps, NoEffectOps
  <2>2. Llvm(i, c, m) = {Advance(i, out) : out \in outs}
    BY DEF Llvm
  <2> HIDE DEF outs
  <2> QED
    BY <2>1, <2>2
<1> QED
  BY <1>14, ExecuteAdvancesHandler, Operands DEF h
----------------------------------------------------------------------------
(* lightning: host registers of two words.                                 *)

LEMMA HostModIsLarge ==
  /\ WordMod \in Nat /\ WordMod >= 2 /\ HostMod \in Nat /\ HostMod >= 2 * WordMod
  /\ HostMod \div 2 \in Nat /\ HostMod \div 2 >= WordMod
  /\ 2 * (HostMod \div 2) <= HostMod
<1>1. WordMod \in Nat /\ WordMod >= 2
  <2>1. HalfMod \in Nat /\ HalfMod >= 2
    BY ByteModAssumption, ModsOrdered
  <2> QED
    BY <2>1, ModsOrdered
<1>2. HostMod \in Nat /\ HostMod >= 2 * WordMod
  BY <1>1 DEF HostMod
<1> QED
  BY <1>1, <1>2

\* The low word of a host result is the guest's result.
LEMMA LowWordOfHost ==
  ASSUME NEW n \in Int
  PROVE  LowWord(ToHost(n)) = ToWord(n)
  BY HostModIsLarge, ModMod DEF LowWord, ToHost, HostMod, ToWord

LEMMA LowWordOfWord ==
  ASSUME NEW w \in Word
  PROVE  LowWord(w) = w
  BY HostModIsLarge DEF LowWord, Word

\* A word loaded with its sign.
LEMMA Extended ==
  ASSUME NEW w \in Word
  PROVE  /\ ToHost(Signed(w)) = IF w < WordMod \div 2 THEN w ELSE HostMod - WordMod + w
         /\ HostSigned(ToHost(Signed(w))) = Signed(w)
<1>1. w \in Nat /\ w < WordMod
  BY HostModIsLarge DEF Word
<1>2. CASE w < WordMod \div 2
  <2>1. w \in 0 .. HostMod - 1 /\ w % HostMod = w
    BY <1>1, HostModIsLarge
  <2> QED
    BY <1>1, <1>2, <2>1, HostModIsLarge DEF ToHost, Signed, HostSigned
<1>3. CASE ~(w < WordMod \div 2)
  <2> DEFINE x == HostMod - WordMod + w
  <2>1. x \in 0 .. HostMod - 1
    BY <1>1, HostModIsLarge
  <2>2. (w - WordMod) % HostMod = x
    <3> DEFINE q == (w - WordMod) \div HostMod
               r == (w - WordMod) % HostMod
    <3>1. q \in Int /\ w - WordMod = HostMod * q + r /\ r \in 0 .. HostMod - 1
      BY <1>1, HostModIsLarge, DivMod, ModRange
    <3> HIDE DEF q, r
    <3>2. HostMod * (-1) + x = w - WordMod
      BY <1>1, HostModIsLarge
    <3>3. r = x
      BY <2>1, <3>1, <3>2, HostModIsLarge, RemainderUnique
    <3> QED
      BY <3>3 DEF r
  <2>3. ToHost(Signed(w)) = x
    BY <1>3, <2>2 DEF ToHost, Signed
  <2>4. ~(x < HostMod \div 2)
    BY <1>1, <1>3, HostModIsLarge
  <2>5. HostSigned(x) = w - WordMod
    BY <1>1, <2>4, HostModIsLarge DEF HostSigned
  <2> QED
    BY <1>3, <2>3, <2>5 DEF Signed
<1> QED
  BY <1>2, <1>3

\* Extension keeps every order and equality.
LEMMA ExtensionOrdered ==
  ASSUME NEW a \in Word, NEW b \in Word
  PROVE  /\ LightningHolds("eqr", ToHost(Signed(a)), ToHost(Signed(b))) <=> Holds("eq", a, b)
         /\ LightningHolds("ner", ToHost(Signed(a)), ToHost(Signed(b))) <=> Holds("ne", a, b)
         /\ LightningHolds("ltr", ToHost(Signed(a)), ToHost(Signed(b))) <=> Holds("slt", a, b)
         /\ LightningHolds("ger", ToHost(Signed(a)), ToHost(Signed(b))) <=> Holds("sge", a, b)
         /\ LightningHolds("ltr_u", ToHost(Signed(a)), ToHost(Signed(b))) <=> Holds("ult", a, b)
         /\ LightningHolds("ger_u", ToHost(Signed(a)), ToHost(Signed(b))) <=> Holds("uge", a, b)
<1> DEFINE x == ToHost(Signed(a))
           y == ToHost(Signed(b))
<1>1. a \in Nat /\ b \in Nat /\ a < WordMod /\ b < WordMod
  BY HostModIsLarge DEF Word
<1>2. /\ x = IF a < WordMod \div 2 THEN a ELSE HostMod - WordMod + a
      /\ y = IF b < WordMod \div 2 THEN b ELSE HostMod - WordMod + b
      /\ HostSigned(x) = Signed(a) /\ HostSigned(y) = Signed(b)
  BY Extended
<1> HIDE DEF x, y
<1>3. (x = y <=> a = b) /\ (x < y <=> a < b) /\ (x >= y <=> a >= b)
  BY <1>1, <1>2, HostModIsLarge
<1>4. /\ LightningHolds("eqr", x, y) <=> Holds("eq", a, b)
      /\ LightningHolds("ner", x, y) <=> Holds("ne", a, b)
  BY <1>3 DEF LightningHolds, Holds
<1>5. /\ LightningHolds("ltr", x, y) <=> Holds("slt", a, b)
      /\ LightningHolds("ger", x, y) <=> Holds("sge", a, b)
  BY <1>2 DEF LightningHolds, Holds
<1>6. /\ LightningHolds("ltr_u", x, y) <=> Holds("ult", a, b)
      /\ LightningHolds("ger_u", x, y) <=> Holds("uge", a, b)
  BY <1>3 DEF LightningHolds, Holds
<1> QED
  BY <1>4, <1>5, <1>6 DEF x, y

\* Zero-extended words keep their order in a signed comparison.
LEMMA UnsignedInSigned ==
  ASSUME NEW a \in Word, NEW b \in Word
  PROVE  LightningHolds("ltr", a, b) <=> a < b
<1>1. HostSigned(a) = a /\ HostSigned(b) = b
  BY HostModIsLarge DEF HostSigned, Word
<1> QED
  BY <1>1 DEF LightningHolds
LEMMA LightningLoads ==
  ASSUME NEW c \in CPU, NEW r \in Reg
  PROVE  LoadUnsigned(c, r) = c.regs[r] /\ LoadSigned(c, r) = ToHost(Signed(c.regs[r]))
<1>1. CASE r # 0
  BY <1>1 DEF LoadUnsigned, LoadSigned, Slot
<1>2. CASE r = 0
  <2>1. c.regs[r] = 0 /\ Signed(0) = 0 /\ ToHost(0) = 0
    BY <1>2, HostModIsLarge DEF CPU, Signed, ToHost
  <2> QED
    BY <1>2, <2>1 DEF LoadUnsigned, LoadSigned
<1> QED
  BY <1>1, <1>2

LEMMA LightningArithAgrees ==
  ASSUME NEW i \in Decoded, NEW c \in CPU,
         i.opc \in {"ADD", "ADDI", "SUB", "AND", "ANDI", "OR", "ORI", "XOR", "XORI"}
  PROVE  LowWord(LightningArith(i, c)) = AluResult(i, c)
<1> DEFINE a == c.regs[i.rs1]
           b == SecondOf(i, c)
           opc == i.opc
<1>1. opc \in AluOps
  BY DEF AluOps, AluRegOps, AluImmOps
<1>2. a \in Word /\ b \in Word /\ AluOf(opc, a, b) \in Word /\ AluResult(i, c) = AluOf(opc, a, b)
  BY <1>1, Operands, AluHandler DEF AluResult
<1>3. a \in Int /\ b \in Int /\ a + b \in Int /\ a - b \in Int
  BY <1>2, HostModIsLarge DEF Word
<1>4. LoadUnsigned(c, i.rs1) = a
      /\ (IF opc \in AluImmOps THEN i.imm ELSE LoadUnsigned(c, i.rs2)) = b
  BY Operands, LightningLoads DEF SecondOf
<1> HIDE DEF a, b
<1>5. CASE opc \in {"ADD", "ADDI"}
  <2>1. LightningArith(i, c) = ToHost(a + b)
    BY <1>4, <1>5, Bases DEF LightningArith
  <2>2. AluOf(opc, a, b) = ToWord(a + b)
    BY <1>5 DEF AluOf
  <2> QED
    BY <1>2, <1>3, <2>1, <2>2, LowWordOfHost
<1>6. CASE opc = "SUB"
  <2>1. LightningArith(i, c) = ToHost(a - b)
    BY <1>4, <1>6, Bases DEF LightningArith
  <2>2. AluOf(opc, a, b) = ToWord(a - b)
    BY <1>6 DEF AluOf
  <2> QED
    BY <1>2, <1>3, <2>1, <2>2, LowWordOfHost
<1>7. CASE opc \in {"AND", "ANDI"}
  <2>1. LightningArith(i, c) = BitAnd(a, b)
    BY <1>4, <1>7, Bases DEF LightningArith
  <2>2. AluOf(opc, a, b) = BitAnd(a, b)
    BY <1>7 DEF AluOf
  <2> QED
    BY <1>2, <2>1, <2>2, LowWordOfWord
<1>8. CASE opc \in {"OR", "ORI"}
  <2>1. LightningArith(i, c) = BitOr(a, b)
    BY <1>4, <1>8, Bases DEF LightningArith
  <2>2. AluOf(opc, a, b) = BitOr(a, b)
    BY <1>8 DEF AluOf
  <2> QED
    BY <1>2, <2>1, <2>2, LowWordOfWord
<1>9. CASE opc \in {"XOR", "XORI"}
  <2>1. LightningArith(i, c) = BitXor(a, b)
    BY <1>4, <1>9, Bases DEF LightningArith
  <2>2. AluOf(opc, a, b) = BitXor(a, b)
    BY <1>9 DEF AluOf
  <2> QED
    BY <1>2, <2>1, <2>2, LowWordOfWord
<1> QED
  BY <1>5, <1>6, <1>7, <1>8, <1>9

LEMMA LightningShiftAgrees ==
  ASSUME NEW i \in Decoded, NEW c \in CPU,
         i.opc \in {"SLL", "SLLI", "SRL", "SRLI", "SRA", "SRAI"}
  PROVE  LowWord(LightningShift(i, c)) = AluResult(i, c)
<1> DEFINE a == c.regs[i.rs1]
           b == SecondOf(i, c)
           opc == i.opc
           n == b % WordBits
<1>1. opc \in AluOps
  BY DEF AluOps, AluRegOps, AluImmOps
<1>2. a \in Word /\ b \in Word /\ AluOf(opc, a, b) \in Word /\ AluResult(i, c) = AluOf(opc, a, b)
  BY <1>1, Operands, AluHandler DEF AluResult
<1>3. a \in Int /\ b \in Nat /\ Signed(a) \in Int
  BY <1>2, HostModIsLarge, SignedType DEF Word
<1>4. n \in 0 .. WordBits - 1 /\ 2 ^ n \in Int /\ 2 ^ n > 0
  <2>1. n \in 0 .. WordBits - 1
    BY <1>3, WordBitsType, ModRange
  <2> QED
    BY <2>1, WordBitsType, PowersAssumption
<1>5. (IF opc \in AluImmOps THEN i.imm ELSE LoadUnsigned(c, i.rs2) % WordBits) = n
  <2>1. CASE opc \in AluImmOps
    <3>1. b = i.imm /\ i.imm < WordBits
      BY <2>1 DEF SecondOf, Decoded, Decodable, ShiftImmOps, AluImmOps
    <3> QED
      BY <2>1, <3>1, <1>3, WordBitsType
  <2>2. CASE opc \notin AluImmOps
    BY <2>2, Operands, LightningLoads DEF SecondOf
  <2> QED
    BY <2>1, <2>2
<1>6. /\ LoadUnsigned(c, i.rs1) = a
      /\ HostSigned(LoadSigned(c, i.rs1)) = Signed(a)
  BY Operands, LightningLoads, Extended
<1> HIDE DEF a, b, n
<1>7. CASE opc \in {"SLL", "SLLI"}
  <2>1. LightningShift(i, c) = ToHost(a * 2 ^ n)
    BY <1>5, <1>6, <1>7, Bases DEF LightningShift
  <2>2. AluOf(opc, a, b) = ToWord(a * 2 ^ n)
    BY <1>7 DEF AluOf, sllHelper, ShiftAmount, n
  <2>3. a * 2 ^ n \in Int
    BY <1>3, <1>4
  <2> QED
    BY <1>2, <2>1, <2>2, <2>3, LowWordOfHost
<1>8. CASE opc \in {"SRL", "SRLI"}
  <2>1. LightningShift(i, c) = a \div 2 ^ n
    BY <1>5, <1>6, <1>8, Bases DEF LightningShift
  <2>2. AluOf(opc, a, b) = a \div 2 ^ n
    BY <1>8 DEF AluOf, srlHelper, ShiftAmount, n
  <2> QED
    BY <1>2, <2>1, <2>2, LowWordOfWord
<1>9. CASE opc \in {"SRA", "SRAI"}
  <2>1. LightningShift(i, c) = ToHost(Signed(a) \div 2 ^ n)
    BY <1>5, <1>6, <1>9, Bases DEF LightningShift
  <2>2. AluOf(opc, a, b) = ToWord(Signed(a) \div 2 ^ n)
    BY <1>9 DEF AluOf, sraHelper, ShiftAmount, n
  <2>3. Signed(a) \div 2 ^ n \in Int
    BY <1>3, <1>4, DivMod
  <2> QED
    BY <1>2, <2>1, <2>2, <2>3, LowWordOfHost
<1> QED
  BY <1>7, <1>8, <1>9

LEMMA LightningSetAgrees ==
  ASSUME NEW i \in Decoded, NEW c \in CPU, i.opc \in SetOps
  PROVE  LowWord(LightningSet(i, c)) = AluResult(i, c)
<1> DEFINE a == c.regs[i.rs1]
           b == SecondOf(i, c)
           opc == i.opc
<1>1. opc \in AluOps
  BY DEF SetOps, AluOps, AluRegOps, AluImmOps
<1>2. a \in Word /\ b \in Word /\ AluOf(opc, a, b) \in Word /\ AluResult(i, c) = AluOf(opc, a, b)
  BY <1>1, Operands, AluHandler DEF AluResult
<1>3. /\ LoadUnsigned(c, i.rs1) = a /\ LoadSigned(c, i.rs1) = ToHost(Signed(a))
      /\ opc \in {"SLT", "SLTU"} =>
           LoadUnsigned(c, i.rs2) = b /\ LoadSigned(c, i.rs2) = ToHost(Signed(b))
      /\ opc \in {"SLTI", "SLTIU"} => i.imm = b /\ SextImm(i) = ToHost(Signed(b))
  BY Operands, LightningLoads DEF SecondOf, SextImm, AluImmOps
<1> HIDE DEF a, b
<1>4. LightningSet(i, c) = AluOf(opc, a, b)
  <2>1. CASE opc = "SLT"
    <3>1. LightningSet(i, c)
            = BoolToWord(LightningHolds("ltr", ToHost(Signed(a)), ToHost(Signed(b))))
      BY <2>1, <1>3 DEF LightningSet
    <3>2. AluOf(opc, a, b) = BoolToWord(Holds("slt", a, b))
      BY <2>1, <1>2, SetsAgree
    <3>3. LightningHolds("ltr", ToHost(Signed(a)), ToHost(Signed(b))) <=> Holds("slt", a, b)
      BY <1>2, ExtensionOrdered
    <3> QED
      BY <3>1, <3>2, <3>3 DEF BoolToWord
  <2>2. CASE opc = "SLTU"
    <3>1. LightningSet(i, c) = BoolToWord(LightningHolds("ltr", a, b))
      BY <2>2, <1>3 DEF LightningSet
    <3>2. AluOf(opc, a, b) = BoolToWord(a < b)
      BY <2>2 DEF AluOf
    <3>3. LightningHolds("ltr", a, b) <=> a < b
      BY <1>2, UnsignedInSigned
    <3> QED
      BY <3>1, <3>2, <3>3 DEF BoolToWord
  <2>3. CASE opc = "SLTI"
    <3>1. LightningSet(i, c)
            = BoolToWord(LightningHolds("ltr", ToHost(Signed(a)), ToHost(Signed(b))))
      BY <2>3, <1>3 DEF LightningSet
    <3>2. AluOf(opc, a, b) = BoolToWord(Holds("slt", a, b))
      BY <2>3, <1>2, SetsAgree
    <3>3. LightningHolds("ltr", ToHost(Signed(a)), ToHost(Signed(b))) <=> Holds("slt", a, b)
      BY <1>2, ExtensionOrdered
    <3> QED
      BY <3>1, <3>2, <3>3 DEF BoolToWord
  <2>4. CASE opc = "SLTIU"
    BY <2>4, <1>2, <1>3 DEF LightningSet, LightningHolds, AluOf
  <2> QED
    BY <2>1, <2>2, <2>3, <2>4 DEF SetOps
<1> QED
  BY <1>2, <1>4, LowWordOfWord

LEMMA LightningAluAgrees ==
  ASSUME NEW i \in Decoded, i.opc \in AluOps, NEW c \in CPU, NEW m
  PROVE  Return(LightningAlu(i, c), m) = handler(i, c, m)
<1> DEFINE opc == i.opc
           Result(x) == LightningAlu(i, c) = setDst(c, i.rd, LowWord(x))
           arith == {"ADD", "ADDI", "SUB", "AND", "ANDI", "OR", "ORI", "XOR", "XORI"}
           shift == {"SLL", "SLLI", "SRL", "SRLI", "SRA", "SRAI"}
<1>1. opc \in arith => LightningAlu(i, c) = setDst(c, i.rd, AluResult(i, c))
  <2>1. opc \in arith => Result(LightningArith(i, c))
    BY Bases DEF LightningAlu, StoreReg
  <2> QED
    BY <2>1, LightningArithAgrees
<1>2. opc \in shift => LightningAlu(i, c) = setDst(c, i.rd, AluResult(i, c))
  <2>1. opc \in shift => Result(LightningShift(i, c))
    BY Bases DEF LightningAlu, StoreReg
  <2> QED
    BY <2>1, LightningShiftAgrees
<1>3. opc \in SetOps => LightningAlu(i, c) = setDst(c, i.rd, AluResult(i, c))
  <2>1. opc \in SetOps => Result(LightningSet(i, c))
    BY Bases DEF LightningAlu, StoreReg, SetOps
  <2> QED
    BY <2>1, LightningSetAgrees
<1>4. opc \in arith \/ opc \in shift \/ opc \in SetOps
  BY AluOpsByBase
<1> HIDE DEF arith, shift
<1>5. LightningAlu(i, c) = setDst(c, i.rd, AluResult(i, c))
  BY <1>1, <1>2, <1>3, <1>4
<1> QED
  BY <1>5, AluHandler, setDstIsSetReg

LEMMA LightningConditionsAgree ==
  ASSUME NEW opc \in BranchOps, NEW a \in Word, NEW b \in Word
  PROVE  LightningHolds(LightningCond[opc], ToHost(Signed(a)), ToHost(Signed(b)))
           <=> Taken(opc, a, b)
<1>1. /\ LightningCond["BEQ"] = "eqr" /\ LightningCond["BNE"] = "ner"
      /\ LightningCond["BLT"] = "ltr" /\ LightningCond["BGE"] = "ger"
      /\ LightningCond["BLTU"] = "ltr_u" /\ LightningCond["BGEU"] = "ger_u"
  BY DEF LightningCond
<1> QED
  BY <1>1, ExtensionOrdered, ConditionsAgree DEF BranchOps

LEMMA LightningAgrees ==
  ASSUME NEW i \in Decoded, NEW c \in CPU, NEW m \in Memory
  PROVE  Lightning(i, c, m) = Execute(i, c, m)
<1> DEFINE h == handler(i, c, m)
<1>1. /\ LoadUnsigned(c, i.rs1) = c.regs[i.rs1]
      /\ LoadUnsigned(c, i.rs2) = c.regs[i.rs2]
      /\ LoadSigned(c, i.rs1) = ToHost(Signed(c.regs[i.rs1]))
      /\ LoadSigned(c, i.rs2) = ToHost(Signed(c.regs[i.rs2]))
  BY Operands, LightningLoads
<1>2. \A r, v : setDst(c, r, v) = setReg(c, r, v)
  BY setDstIsSetReg
<1>3. \A n \in Int : LowWord(ToHost(n)) = ToWord(n)
  BY LowWordOfHost
<1>4. /\ c.regs[i.rs1] + i.imm \in Int
      /\ c.pc + i.imm \in Int /\ c.pc + kWordSize \in Int
  BY Operands, ModsOrdered DEF Word, kWordSize
<1>5. LightningAddress(i, c) = ToWord(c.regs[i.rs1] + i.imm)
  BY <1>1, <1>3, <1>4 DEF LightningAddress
<1>6. i.opc \in AluOps => Return(LightningAlu(i, c), m) = h
  BY LightningAluAgrees
<1>7. i.opc \in BranchOps => Return(LightningBranch(i, c), m) = h
  <2>1. i.opc \in BranchOps =>
          (LightningHolds(LightningCond[i.opc], LoadSigned(c, i.rs1), LoadSigned(c, i.rs2))
             <=> Taken(i.opc, c.regs[i.rs1], c.regs[i.rs2]))
    BY <1>1, Operands, LightningConditionsAgree
  <2> QED
    BY <2>1, HandlerOf DEF LightningBranch, LowWord, brHelper, ToWord
<1>8. i.opc \in LoadOps => LightningLoad(i, c, m) = h
  BY <1>5, HandlerOf, LoadsAgree, Operands DEF LightningLoad
<1>9. i.opc \in StoreOps => LightningStore(i, c, m) = h
  BY <1>1, <1>5, HandlerOf, StoresAgree DEF LightningStore
<1>10. StoreReg(c, i.rd, ToHost(c.pc + kWordSize)) = setReg(c, i.rd, ReturnAddress(c))
  BY <1>2, <1>3, <1>4 DEF StoreReg, ReturnAddress
<1>11. i.opc = "JAL" => Return(LightningJump(i, c), m) = h
  BY <1>10, HandlerOf DEF LightningJump, LowWord, ToWord, ReturnAddress, doJAL
<1>12. i.opc = "JALR" => Return(LightningJump(i, c), m) = h
  <2>1. LowWord(ToHost(LoadUnsigned(c, i.rs1) + i.imm)) = ToWord(c.regs[i.rs1] + i.imm)
    BY <1>1, <1>3, <1>4
  <2> QED
    BY <2>1, <1>10, Operands, WritesCommute, HandlerOf
    DEF LightningJump, Even, ReturnAddress, doJALR
<1>13. i.opc = "LUI" => Return(LightningUpper(i, c), m) = h
  BY <1>2, Operands, LowWordOfWord, HandlerOf DEF LightningUpper, StoreReg, doLUI
<1>14. i.opc = "AUIPC" => Return(LightningUpper(i, c), m) = h
  BY <1>2, <1>3, <1>4, HandlerOf DEF LightningUpper, StoreReg, doAUIPC
<1>15. /\ i.opc = "ECALL" => CallSyscall(c, m) = h
       /\ i.opc \in {"EBREAK", "FENCE", "PAUSE"} => Return(c, m) = h
  BY HandlerOf DEF CallSyscall
<1> HIDE DEF h
<1>16. Lightning(i, c, m) = Advance(i, h)
  BY Families, Disjoint, <1>6, <1>7, <1>8, <1>9, <1>11, <1>12, <1>13, <1>14, <1>15
  DEF Lightning, JumpOps, UpperOps, NoEffectOps
<1> QED
  BY <1>16, ExecuteAdvancesHandler, Operands DEF h

----------------------------------------------------------------------------
(* All of them.                                                            *)

\* Every outcome a backend can have is the interpreter's, outside the two divergences.
LEMMA AfterAgrees ==
  ASSUME NEW b \in Backend, NEW i \in Decoded, NEW c \in CPU, NEW m \in Memory,
         ~Deviates(b, i, c),
         NEW out \in After(b, i, c, m)
  PROVE  out = Execute(i, c, m)
<1>1. CASE b = "asmjit"
  BY <1>1, AsmJitAgrees DEF After
<1>2. CASE b = "xbyak"
  BY <1>2, XByakAgrees DEF After
<1>3. CASE b = "lightning"
  BY <1>3, LightningAgrees DEF After
<1>4. CASE b = "mir"
  BY <1>4, MirAgrees DEF After
<1>5. CASE b = "ir"
  BY <1>5, IrAgrees DEF After, Deviates, LinksOverItsBase
<1>6. CASE b \in {"llvm", "tpde"}
  BY <1>6, LlvmAgrees DEF After, Deviates, ShiftsPastTheWord, ShiftRegOps
<1> QED
  BY <1>1, <1>2, <1>3, <1>4, <1>5, <1>6 DEF Backend

\* The instruction where rd is linked already, and the shift whose result is v.
Linked(i, c) == setReg(c, i.rd, ToWord(c.pc + kWordSize))
ShiftedTo(i, c, m, v) == Return(setPC(setReg(c, i.rd, v), ToWord(c.pc + kWordSize)), m)

\* ir's JALR over its own base is the interpreter's, run with the link in place.
LEMMA IrLinksFirst ==
  ASSUME NEW i \in Decoded, NEW c \in CPU, NEW m \in Memory,
         i.opc = "JALR", i.rd = i.rs1, i.rd # 0
  PROVE  Ir(i, c, m) = Execute(i, Linked(i, c), m)
<1> DEFINE link == ToWord(c.pc + kWordSize)
           d == Linked(i, c)
           target == ToWord(d.regs[i.rs1] + i.imm)
<1>1. i \in Instruction /\ c \in CPUState /\ i.rd \in Reg /\ link \in Word
  BY Operands, WordSum
<1>2. d \in CPUState /\ d.pc = c.pc /\ setReg(d, i.rd, link) = d
  BY <1>1 DEF Linked, setReg, CPUState
<1>3. changesPC(i.opc)
  BY DEF changesPC
<1>4. IrJALR(i, c) = setPC(d, target - (target % 2))
  BY DEF IrJALR, Linked, setDst, setReg, SlotOrZero, Slot, HostOp, Even, ReturnAddress
<1>5. doJALR(i, d, m) = Return(setPC(d, target - (target % 2)), m)
  <2> HIDE DEF d
  <2>1. doJALR(i, d, m) = Return(setReg(setPC(d, target - (target % 2)), i.rd, link), m)
    BY <1>2 DEF doJALR
  <2>2. setReg(setPC(d, target - (target % 2)), i.rd, link) = setPC(d, target - (target % 2))
    BY <1>2, WritesCommute
  <2> QED
    BY <2>1, <2>2
<1>6. Ir(i, c, m) = Return(IrJALR(i, c), m)
  <2>1. /\ i.opc \notin AluRegOps /\ i.opc \notin AluImmOps /\ i.opc \notin BranchOps
        /\ i.opc \notin LoadOps /\ i.opc \notin StoreOps /\ i.opc # "JAL"
        /\ i.opc \notin UpperOps /\ i.opc # "ECALL" /\ i.opc \notin NoEffectOps
    BY DEF AluRegOps, AluImmOps, BranchOps, LoadOps, StoreOps, UpperOps, NoEffectOps
  <2>2. Ir(i, c, m) = Advance(i, Return(IrJALR(i, c), m))
    BY <2>1 DEF Ir
  <2> QED
    BY <1>3, <2>2 DEF Advance
<1>7. Execute(i, d, m) = doJALR(i, d, m)
  <2> HIDE DEF d
  <2> QED
    BY <1>3, HandlerOf DEF Execute
<1> QED
  BY <1>4, <1>5, <1>6, <1>7

\* A poisoned shift leaves some word in rd, and nothing else that is not the interpreter's.
LEMMA LlvmShiftsFreely ==
  ASSUME NEW i \in Decoded, NEW c \in CPU, NEW m \in Memory,
         i.opc \in ShiftRegOps, c.regs[i.rs2] >= WordBits,
         NEW out \in Llvm(i, c, m)
  PROVE  \E v \in Word : out = ShiftedTo(i, c, m, v)
<1>1. i.opc \in AluOps /\ ~changesPC(i.opc)
  BY DEF ShiftRegOps, AluOps, AluRegOps, changesPC, BranchOps
<1>2. LlvmAlu(i, c) = LlvmShift(i.opc, c.regs[i.rs1], c.regs[i.rs2])
  BY DEF LlvmAlu, Slot, ShiftRegOps
<1>3. LlvmAlu(i, c) = Word
  <2>1. ~(c.regs[i.rs2] < WordBits)
    BY Operands, WordBitsType, ModsOrdered DEF Word
  <2> QED
    BY <1>2, <2>1 DEF LlvmShift, IRShift
<1> DEFINE outs == {Return(setDst(c, i.rd, v), m) : v \in LlvmAlu(i, c)}
<1>4. Llvm(i, c, m) = {Advance(i, o) : o \in outs}
  <2> DEFINE all ==
        CASE i.opc \in AluOps    -> outs
          [] i.opc \in BranchOps -> {Return(LlvmBranch(i, c), m)}
          [] i.opc \in LoadOps   -> {generateLoad(i, c, m)}
          [] i.opc \in StoreOps  -> {generateStore(i, c, m)}
          [] i.opc = "LUI"       -> {Return(LlvmLUI(i, c), m)}
          [] i.opc = "AUIPC"     -> {Return(LlvmAUIPC(i, c), m)}
          [] i.opc = "JAL"       -> {Return(LlvmJAL(i, c), m)}
          [] i.opc = "JALR"      -> {Return(LlvmJALR(i, c), m)}
          [] i.opc = "ECALL"     -> {CallSyscall(c, m)}
          [] i.opc \in {"FENCE", "PAUSE", "EBREAK"} -> {Return(c, m)}
  <2>1. Llvm(i, c, m) = {Advance(i, o) : o \in all}
    BY DEF Llvm
  <2> HIDE DEF outs
  <2>2. all = outs
    BY <1>1, Disjoint DEF JumpOps, UpperOps, NoEffectOps
  <2> HIDE DEF all
  <2> QED
    BY <2>1, <2>2
<1> HIDE DEF outs
<1>5. PICK o \in outs : out = Advance(i, o)
  BY <1>4
<1>6. PICK v \in Word : o = Return(setReg(c, i.rd, v), m)
  <2>1. PICK v \in Word : o = Return(setDst(c, i.rd, v), m)
    BY <1>3, <1>5 DEF outs
  <2> QED
    BY <2>1, setDstIsSetReg
<1>7. setReg(c, i.rd, v).pc = c.pc
  BY DEF setReg, CPU, CPUState
<1>8. out = ShiftedTo(i, c, m, v)
  BY <1>1, <1>5, <1>6, <1>7 DEF Advance, Return, ShiftedTo
<1> QED
  BY <1>8

\* All a backend's code can do.
LEMMA AfterCases ==
  ASSUME NEW b \in Backend, NEW i \in Decoded, NEW c \in CPU, NEW m \in Memory,
         NEW out \in After(b, i, c, m)
  PROVE  \/ out = Execute(i, c, m)
         \/ LinksOverItsBase(b, i) /\ out = Execute(i, Linked(i, c), m)
         \/ ShiftsPastTheWord(b, i, c) /\ \E v \in Word : out = ShiftedTo(i, c, m, v)
<1>1. CASE ~Deviates(b, i, c)
  BY <1>1, AfterAgrees
<1>2. CASE LinksOverItsBase(b, i)
  BY <1>2, IrLinksFirst DEF LinksOverItsBase, After
<1>3. CASE ShiftsPastTheWord(b, i, c)
  BY <1>3, LlvmShiftsFreely DEF ShiftsPastTheWord, After
<1> QED
  BY <1>1, <1>2, <1>3 DEF Deviates

----------------------------------------------------------------------------
(* What all of it keeps.                                                   *)

LEMMA WritesKeepZero ==
  ASSUME NEW c \in CPU
  PROVE  /\ \A r, v : setReg(c, r, v).regs[0] = 0
         /\ \A v : setPC(c, v).regs[0] = 0
         /\ \A r, v, w : setPC(setReg(c, r, w), v).regs[0] = 0
         /\ \A r, v, w : setReg(setPC(c, v), r, w).regs[0] = 0
         /\ \A v : doExit(c, v).regs[0] = 0
<1>1. 0 \in Reg
  BY NumRegsAssumption DEF Reg
<1> QED
  BY <1>1 DEF CPU, CPUState, setReg, setPC, doExit

LEMMA ExecuteKeepsZero ==
  ASSUME NEW i \in Instruction, NEW c \in CPU, NEW m \in Memory
  PROVE  Execute(i, c, m).cpu.regs[0] = 0
<1> DEFINE h == handler(i, c, m)
<1>1. /\ \A d, n : Return(d, n).cpu = d
      /\ \A d, n, why : Raise(d, n, why).cpu = d
  BY DEF Return, Raise
<1>2. h.cpu.regs[0] = 0
  <2>1. /\ executeRegisterRegisterOp(i, c, m).cpu.regs[0] = 0
        /\ executeRegisterImmOp(i, c, m).cpu.regs[0] = 0
    BY <1>1, WritesKeepZero DEF executeRegisterRegisterOp, executeRegisterImmOp
  <2>2. /\ brHelper(i, c, m).cpu.regs[0] = 0
        /\ doLUI(i, c, m).cpu.regs[0] = 0 /\ doAUIPC(i, c, m).cpu.regs[0] = 0
    BY <1>1, WritesKeepZero DEF brHelper, doLUI, doAUIPC
  <2>3. doJAL(i, c, m).cpu.regs[0] = 0 /\ doJALR(i, c, m).cpu.regs[0] = 0
    BY <1>1, WritesKeepZero DEF doJAL, doJALR
  <2>4. loadHelper(i, c, m).cpu.regs[0] = 0
    BY <1>1, WritesKeepZero DEF loadHelper, CPU
  <2>5. storeHelper(i, c, m).cpu.regs[0] = 0 /\ Return(c, m).cpu.regs[0] = 0
    BY <1>1 DEF storeHelper, CPU
  <2>6. emulateSysCall(c, m).cpu.regs[0] = 0
    BY <1>1, WritesKeepZero DEF emulateSysCall, CPU
  <2> QED
    BY <2>1, <2>2, <2>3, <2>4, <2>5, <2>6 DEF handler
<1>3. h \in Outcome
  BY HandlerOrderly DEF Orderly, CPU
<1>4. setPC(h.cpu, ToWord(c.pc + kWordSize)).regs = h.cpu.regs
  BY <1>3 DEF setPC, Outcome, CPUState
<1> HIDE DEF h
<1> QED
  BY <1>2, <1>3, <1>4 DEF Execute, h, Outcome

LEMMA LinkedType ==
  ASSUME NEW i \in Decoded, NEW c \in CPU
  PROVE  /\ Linked(i, c) \in CPU /\ Linked(i, c).finished = c.finished
         /\ Linked(i, c).icount = c.icount
<1>1. c \in CPUState /\ i.rd \in Reg /\ ToWord(c.pc + kWordSize) \in Word
  BY Operands, WordSum
<1>2. Linked(i, c) \in CPUState /\ Linked(i, c).finished = c.finished
  BY <1>1, setRegType DEF Linked
<1>3. Linked(i, c).icount = c.icount
  BY <1>1 DEF Linked, setReg, CPUState
<1>4. Linked(i, c).regs[0] = 0
  BY WritesKeepZero DEF Linked
<1> QED
  BY <1>2, <1>3, <1>4 DEF CPU

\* Whatever the backend, its code keeps a well-formed guest with a zero x0, leaves the guest
\* as it was when a helper throws, finishes it by the system call only, counts nothing by
\* itself, and goes on one word further where the instruction is not a jump.
LEMMA AfterOrderly ==
  ASSUME NEW b \in Backend, NEW i \in Decoded, NEW c \in CPU, NEW m \in Memory,
         NEW out \in After(b, i, c, m)
  PROVE  /\ out \in Orderly(i, c, m)
         /\ out.cpu.regs[0] = 0
         /\ out.cpu.icount = c.icount
         /\ ~changesPC(i.opc) /\ out.trap = "none" => out.cpu.pc = ToWord(c.pc + kWordSize)
<1>1. i \in Instruction /\ c \in CPUState
  BY Operands
<1>2. CASE out = Execute(i, c, m)
  BY <1>1, <1>2, ExecuteOrderly, ExecuteKeepsZero, ExecuteKeepsCount, ExecuteAdvances
<1>3. CASE LinksOverItsBase(b, i) /\ out = Execute(i, Linked(i, c), m)
  <2> DEFINE d == Linked(i, c)
  <2>1. d \in CPU /\ d \in CPUState /\ d.finished = c.finished /\ d.icount = c.icount
    BY LinkedType DEF CPU
  <2>2. i.opc = "JALR" /\ changesPC(i.opc)
    BY <1>3 DEF LinksOverItsBase, changesPC
  <2> HIDE DEF d
  <2>3. out = doJALR(i, d, m)
    BY <1>3, <2>2, HandlerOf DEF Execute, d
  <2>4. out.trap = "none"
    BY <2>3 DEF doJALR, Return
  <2>5. out \in Orderly(i, d, m) /\ out.cpu.regs[0] = 0 /\ out.cpu.icount = d.icount
    BY <1>1, <1>3, <2>1, ExecuteOrderly, ExecuteKeepsZero, ExecuteKeepsCount DEF d
  <2> QED
    BY <2>1, <2>2, <2>4, <2>5 DEF Orderly
<1>4. CASE ShiftsPastTheWord(b, i, c) /\ \E v \in Word : out = ShiftedTo(i, c, m, v)
  <2>1. PICK v \in Word : out = ShiftedTo(i, c, m, v)
    BY <1>4
  <2> DEFINE d == setPC(setReg(c, i.rd, v), ToWord(c.pc + kWordSize))
  <2>2. setReg(c, i.rd, v) \in CPUState /\ ToWord(c.pc + kWordSize) \in Word
    BY <1>1, Operands, WordSum, setRegType
  <2>3. d \in CPUState /\ d.finished = c.finished /\ d.regs[0] = 0
    BY <2>2, <1>1, Operands, setRegType, setPCType, WritesKeepZero
  <2>4. d.icount = c.icount /\ d.pc = ToWord(c.pc + kWordSize)
    BY <1>1, <2>2 DEF setPC, setReg, CPUState
  <2> HIDE DEF d
  <2>5. out = Return(d, m)
    BY <2>1 DEF ShiftedTo, d
  <2> QED
    BY <2>3, <2>4, <2>5, ReturnOrderly DEF Return
<1> QED
  BY <1>2, <1>3, <1>4, AfterCases
=============================================================================
