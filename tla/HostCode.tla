------------------------------ MODULE HostCode ------------------------------
(***************************************************************************)
(* What the translators of src/jit share: the host operations they emit,   *)
(* the helpers their code calls back, and the write of a destination.      *)
(*                                                                         *)
(* c is the CPU state the emitted code runs on.  Its pc is the host        *)
(* register mir and ir keep the pc in until the block ends, and the field  *)
(* in memory for the other backends.                                       *)
(***************************************************************************)
EXTENDS Interp, WordOps

AluOps == AluRegOps \cup AluImmOps

\* The opcode without its immediate form.
Base(opc) == CASE opc = "ADDI" -> "ADD" [] opc = "ANDI" -> "AND" [] opc = "ORI" -> "OR"
               [] opc = "XORI" -> "XOR" [] opc = "SLLI" -> "SLL" [] opc = "SRLI" -> "SRL"
               [] opc = "SRAI" -> "SRA" [] opc = "SLTI" -> "SLT" [] opc = "SLTIU" -> "SLTU"
               [] OTHER -> opc

----------------------------------------------------------------------------
(* Operations of the host, or of the library that emits for it.            *)

\* Two-operand instructions of the width of a guest word; a shift uses the low bits of its count.
HostOp(op, a, b) ==
  CASE op = "add" -> ToWord(a + b) [] op = "sub" -> ToWord(a - b)
    [] op = "and" -> BitAnd(a, b) [] op = "or" -> BitOr(a, b) [] op = "xor" -> BitXor(a, b)
    [] op = "shl" -> ToWord(a * 2 ^ (b % WordBits))
    [] op = "shr" -> a \div 2 ^ (b % WordBits)
    [] op = "sar" -> ToWord(Signed(a) \div 2 ^ (b % WordBits))

\* The relation of lhs and rhs that a condition code or a compare stands for.
Holds(cc, lhs, rhs) ==
  CASE cc = "eq"  -> lhs = rhs
    [] cc = "ne"  -> lhs # rhs
    [] cc = "slt" -> Signed(lhs) < Signed(rhs)
    [] cc = "sge" -> Signed(lhs) >= Signed(rhs)
    [] cc = "sgt" -> Signed(lhs) > Signed(rhs)
    [] cc = "ult" -> lhs < rhs
    [] cc = "uge" -> lhs >= rhs
    [] cc = "ugt" -> lhs > rhs

----------------------------------------------------------------------------
(* The CPU state as emitted code sees it.                                  *)

\* regs[id] as it is in memory ...
Slot(c, id) == c.regs[id]

\* ... and a constant for x0.
SlotOrZero(c, id) == IF id = 0 THEN 0 ELSE Slot(c, id)

\* No code is emitted for a write of x0.
setDst(c, id, dst) == IF id = 0 THEN c ELSE [c EXCEPT !.regs = [c.regs EXCEPT ![id] = dst]]

ReturnAddress(c) == ToWord(c.pc + kWordSize)
Even(w) == w - (w % 2)

\* Behind the switch: the pc moves on unless the opcode has changed it.
Advance(insn, out) ==
  IF out.trap # "none" \/ changesPC(insn.opc)
  THEN out ELSE [out EXCEPT !.cpu = setPC(out.cpu, ToWord(out.cpu.pc + kWordSize))]

JumpOps == {"JAL", "JALR"}
UpperOps == {"LUI", "AUIPC"}

----------------------------------------------------------------------------
(* The helpers.  They go to the guest's memory.                            *)

ReadBytes(m, addr, size) ==
  CASE size = 1 -> ByteAt(m, addr) [] size = 2 -> HalfAt(m, addr) [] OTHER -> WordAt(m, addr)

Modulus(size) ==
  CASE size = 1 -> ByteMod [] size = 2 -> HalfMod [] OTHER -> WordMod

\* signs: the opcodes whose result is sign-extended.
CallLoad(insn, c, m, addr, signs) ==
  LET size   == AccessSize(insn.opc)
      loaded == ReadBytes(m, addr, size)
      dst    == IF insn.opc \in signs THEN signExtend(loaded, Modulus(size)) ELSE loaded
  IN  IF InMapping(addr, size) THEN Return(setDst(c, insn.rd, dst), m) ELSE Raise(c, m, "wild")

CallStore(insn, c, m, addr, val) ==
  LET size == AccessSize(insn.opc)
  IN  IF InMapping(addr, size) THEN Return(c, WriteBytes(m, addr, val, size)) ELSE Raise(c, m, "wild")

CallSyscall(c, m) == emulateSysCall(c, m)
============================================================================
