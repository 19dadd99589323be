------------------------------- MODULE Interp -------------------------------
(***************************************************************************)
(* Interpreter::execute (src/interpreter): the effect of one decoded       *)
(* instruction on the CPU state and the memory, and CPUState's system      *)
(* call (src/cpu_state).                                                   *)
(*                                                                         *)
(* Execute(insn, c, m) is the Outcome of the call: the CPU and memory it   *)
(* leaves, and a trap when it does not return normally -- "syscall" for    *)
(* the exception an unknown system call raises, "wild" for an access that  *)
(* leaves the host mapping of guest memory, of which nothing is claimed.   *)
(*                                                                         *)
(* Memory is the flat memory tools/sim builds: the whole address space     *)
(* from address 0, byte by byte.                                           *)
(***************************************************************************)
EXTENDS Isa

CONSTANTS
  Alu(_, _, _),   \* the std::plus<>, sllHelper, ... handed to the ALU handlers
  SysNumReg,      \* a7, the register getSysCallNum reads
  SysArg0Reg,     \* a0, the register getSysCallArg(0) reads
  kExit,          \* the one system call there is
  IcountMod       \* values of the instruction counter

ASSUME SysAssumption == /\ SysNumReg \in Reg
                        /\ SysArg0Reg \in Reg
                        /\ kExit \in Word
ASSUME IcountModAssumption == IcountMod \in Nat /\ IcountMod > 0
ASSUME AluAssumption ==
  \A opc \in AluRegOps \cup AluImmOps : \A a, b \in Word : Alu(opc, a, b) \in Word

Icount == 0 .. IcountMod - 1
Memory == [Word -> Byte]
CPUState == [regs : [Reg -> Word], pc : Word, finished : BOOLEAN,
             icount : Icount, exitCode : Word]
Trap == {"none", "syscall", "wild"}
Outcome == [cpu : CPUState, mem : Memory, trap : Trap]

----------------------------------------------------------------------------
(* Memory accesses of one, two or four bytes, little endian.               *)

InMapping(addr, size) == addr + size <= WordMod

ByteAt(m, addr) == m[addr]
HalfAt(m, addr) == m[addr] + ByteMod * m[addr + 1]
WordAt(m, addr) == HalfAt(m, addr) + HalfMod * HalfAt(m, addr + 2)

\* The n-th byte of a word, n in 0 .. 3.
NthByte(val, n) ==
  (CASE n = 0 -> val [] n = 1 -> val \div ByteMod
     [] n = 2 -> val \div HalfMod [] OTHER -> val \div (HalfMod * ByteMod)) % ByteMod

WriteBytes(m, addr, val, size) ==
  [a \in Word |-> IF a \in addr .. addr + size - 1 THEN NthByte(val, a - addr) ELSE m[a]]

AccessSize(opc) == CASE opc \in {"LB", "LBU", "SB"} -> 1
                     [] opc \in {"LH", "LHU", "SH"} -> 2
                     [] OTHER -> 4

----------------------------------------------------------------------------
(* The handlers.                                                           *)

\* x0 is never written.
setReg(c, id, val) ==
  IF id = 0 THEN c ELSE [c EXCEPT !.regs = [c.regs EXCEPT ![id] = val]]

setPC(c, newPC) == [c EXCEPT !.pc = newPC]

Return(c, m) == [cpu |-> c, mem |-> m, trap |-> "none"]
Raise(c, m, why) == [cpu |-> c, mem |-> m, trap |-> why]

executeRegisterRegisterOp(insn, c, m) ==
  Return(setReg(c, insn.rd, Alu(insn.opc, c.regs[insn.rs1], c.regs[insn.rs2])), m)

executeRegisterImmOp(insn, c, m) ==
  Return(setReg(c, insn.rd, Alu(insn.opc, c.regs[insn.rs1], insn.imm)), m)

doLUI(insn, c, m) == Return(setReg(c, insn.rd, insn.imm), m)
doAUIPC(insn, c, m) == Return(setReg(c, insn.rd, ToWord(c.pc + insn.imm)), m)

Taken(opc, lhs, rhs) ==
  \/ opc = "BEQ" /\ lhs = rhs
  \/ opc = "BNE" /\ lhs # rhs
  \/ opc = "BLT" /\ signedLess(lhs, rhs)
  \/ opc = "BGE" /\ ~signedLess(lhs, rhs)
  \/ opc = "BLTU" /\ lhs < rhs
  \/ opc = "BGEU" /\ lhs >= rhs

\* Mistake: the target is not reduced to a word.
brHelperNoWrap(insn, c, m) ==
  LET offset == IF Taken(insn.opc, c.regs[insn.rs1], c.regs[insn.rs2])
                THEN insn.imm ELSE kWordSize
  IN  Return(setPC(c, c.pc + offset), m)

brHelper(insn, c, m) ==
  LET offset == IF Taken(insn.opc, c.regs[insn.rs1], c.regs[insn.rs2])
                THEN insn.imm ELSE kWordSize
  IN  Return(setPC(c, ToWord(c.pc + offset)), m)

doJAL(insn, c, m) ==
  Return(setPC(setReg(c, insn.rd, ToWord(c.pc + kWordSize)), ToWord(c.pc + insn.imm)), m)

\* The target is read before the link register is written.
doJALR(insn, c, m) ==
  LET target == ToWord(c.regs[insn.rs1] + insn.imm)
  IN  Return(setReg(setPC(c, target - (target % 2)), insn.rd, ToWord(c.pc + kWordSize)), m)

loadHelper(insn, c, m) ==
  LET addr == ToWord(c.regs[insn.rs1] + insn.imm)
      loaded == CASE insn.opc = "LB"  -> signExtend(ByteAt(m, addr), ByteMod)
                  [] insn.opc = "LBU" -> ByteAt(m, addr)
                  [] insn.opc = "LH"  -> signExtend(HalfAt(m, addr), HalfMod)
                  [] insn.opc = "LHU" -> HalfAt(m, addr)
                  [] OTHER            -> WordAt(m, addr)
  IN  IF InMapping(addr, AccessSize(insn.opc))
      THEN Return(setReg(c, insn.rd, loaded), m)
      ELSE Raise(c, m, "wild")

storeHelper(insn, c, m) ==
  LET addr == ToWord(c.regs[insn.rs1] + insn.imm)
      size == AccessSize(insn.opc)
  IN  IF InMapping(addr, size)
      THEN Return(c, WriteBytes(m, addr, c.regs[insn.rs2], size))
      ELSE Raise(c, m, "wild")

doExit(c, code) == [c EXCEPT !.finished = TRUE, !.exitCode = code]

emulateSysCall(c, m) ==
  IF c.regs[SysNumReg] = kExit
  THEN Return(doExit(c, c.regs[SysArg0Reg]), m)
  ELSE Raise(c, m, "syscall")

handler(insn, c, m) ==
  CASE insn.opc \in AluRegOps -> executeRegisterRegisterOp(insn, c, m)
    [] insn.opc \in AluImmOps -> executeRegisterImmOp(insn, c, m)
    [] insn.opc \in BranchOps -> brHelper(insn, c, m)
    [] insn.opc \in LoadOps   -> loadHelper(insn, c, m)
    [] insn.opc \in StoreOps  -> storeHelper(insn, c, m)
    [] insn.opc = "LUI"       -> doLUI(insn, c, m)
    [] insn.opc = "AUIPC"     -> doAUIPC(insn, c, m)
    [] insn.opc = "JAL"       -> doJAL(insn, c, m)
    [] insn.opc = "JALR"      -> doJALR(insn, c, m)
    [] insn.opc = "ECALL"     -> emulateSysCall(c, m)
    [] OTHER                  -> Return(c, m)

\* An exception leaves the pc at the instruction that raised it.
Execute(insn, c, m) ==
  LET out == handler(insn, c, m)
  IN  IF out.trap # "none" \/ changesPC(insn.opc)
      THEN out
      ELSE [out EXCEPT !.cpu = setPC(out.cpu, ToWord(c.pc + kWordSize))]
============================================================================
