---------------------------- MODULE InterpProofs ----------------------------
(***************************************************************************)
(* What the interpreter's handlers guarantee for every word width, register *)
(* file, memory and instruction: the facts about Execute the proofs about   *)
(* the engines rest on.                                                     *)
(***************************************************************************)
EXTENDS Interp, TLAPS

\* A remainder lies below its modulus.
LEMMA ModRange ==
  ASSUME NEW n \in Int, NEW m \in Nat, m > 0
  PROVE  n % m \in 0 .. m - 1
  OBVIOUS

\* Euclid's equation.
LEMMA DivMod ==
  ASSUME NEW n \in Int, NEW m \in Nat, m > 0
  PROVE  n \div m \in Int /\ n = m * (n \div m) + (n % m)
  OBVIOUS

\* Quotient and remainder are unique.
LEMMA RemainderUnique ==
  ASSUME NEW m \in Nat, m > 0, NEW q \in Int, NEW p \in Int,
         NEW r \in 0 .. m - 1, NEW s \in 0 .. m - 1, m * q + r = m * p + s
  PROVE  r = s
  OBVIOUS

\* Reducing an operand first does not change a sum's remainder.
LEMMA ModSum ==
  ASSUME NEW a \in Int, NEW b \in Int, NEW m \in Nat, m > 0
  PROVE  ((a % m) + b) % m = (a + b) % m
<1> DEFINE r == a % m
           q == a \div m
           x == (r + b) % m
           y == (a + b) % m
<1>1. q \in Int /\ r \in Int /\ a = m * q + r
  BY DivMod, ModRange
<1>2. PICK p \in Int : r + b = m * p + x
  BY <1>1, DivMod
<1>3. PICK s \in Int : a + b = m * s + y
  BY DivMod
<1>4. x \in 0 .. m - 1 /\ y \in 0 .. m - 1
  BY <1>1, ModRange
<1>5. m * (p + q) + x = m * s + y
  <2> HIDE DEF r, q, x, y
  <2>1. m * (p + q) = m * p + m * q
    BY <1>1, <1>2
  <2> QED
    BY <2>1, <1>1, <1>2, <1>3, <1>4
<1> HIDE DEF x, y, q
<1>6. p + q \in Int
  BY <1>1
<1>7. x = y
  BY <1>4, <1>5, <1>6, <1>3, RemainderUnique
<1> QED
  BY <1>7 DEF x, y

\* Reducing by a multiple of the modulus first changes nothing.
LEMMA ModMod ==
  ASSUME NEW n \in Int, NEW m \in Nat, m > 0, NEW k \in Nat, k > 0
  PROVE  (n % (m * k)) % m = n % m
<1> DEFINE q == n \div (m * k)
           r == n % (m * k)
           p == r \div m
           t == n \div m
<1>1. m * k \in Nat /\ m * k > 0
  OBVIOUS
<1>2. q \in Int /\ r \in Int /\ n = (m * k) * q + r
  BY <1>1, DivMod, ModRange
<1>3. p \in Int /\ r = m * p + (r % m) /\ r % m \in 0 .. m - 1
  BY <1>2, DivMod, ModRange
<1>4. t \in Int /\ n = m * t + (n % m) /\ n % m \in 0 .. m - 1
  BY DivMod, ModRange
<1> HIDE DEF q, r, p, t
<1>5. m * (k * q + p) + (r % m) = m * t + (n % m)
  <2>1. (m * k) * q = m * (k * q)
    BY <1>2
  <2>2. m * (k * q + p) = m * (k * q) + m * p
    BY <1>2, <1>3
  <2> QED
    BY <2>1, <2>2, <1>2, <1>3, <1>4
<1>6. k * q + p \in Int
  BY <1>2, <1>3
<1>7. r % m = n % m
  BY <1>3, <1>4, <1>5, <1>6, RemainderUnique
<1> QED
  BY <1>7 DEF r

LEMMA ModsOrdered ==
  /\ HalfMod \in Nat /\ WordMod \in Nat
  /\ ByteMod <= HalfMod /\ HalfMod <= WordMod /\ ByteMod <= WordMod
  /\ HalfMod > 0 /\ WordMod > 0
  BY ByteModAssumption DEF HalfMod, WordMod

\* Bytes and halves are words.
LEMMA NarrowIsWord ==
  /\ \A v \in 0 .. ByteMod - 1 : v \in Word
  /\ \A v \in 0 .. HalfMod - 1 : v \in Word
  BY ModsOrdered, ByteModAssumption DEF Word

\* Reduction modulo the word size gives a word.
LEMMA ToWordType == ASSUME NEW n \in Int PROVE ToWord(n) \in Word
  BY ModsOrdered, ModRange DEF ToWord, Word

----------------------------------------------------------------------------
(* Memory accesses.                                                        *)

LEMMA HalfAtType ==
  ASSUME NEW m \in Memory, NEW a \in Word, a + 1 \in Word
  PROVE  HalfAt(m, a) \in 0 .. HalfMod - 1
<1>1. m[a] \in 0 .. ByteMod - 1 /\ m[a + 1] \in 0 .. ByteMod - 1
  BY DEF Memory, Byte
<1>2. \A x, y \in 0 .. ByteMod - 1 : x + ByteMod * y \in 0 .. ByteMod * ByteMod - 1
  <2> SUFFICES ASSUME NEW x \in 0 .. ByteMod - 1, NEW y \in 0 .. ByteMod - 1
               PROVE  x + ByteMod * y \in 0 .. ByteMod * ByteMod - 1
    OBVIOUS
  <2>1. ByteMod * y >= 0 /\ ByteMod * y <= ByteMod * (ByteMod - 1)
    BY ByteModAssumption
  <2> QED
    BY <2>1, ByteModAssumption
<1> QED
  BY <1>1, <1>2 DEF HalfAt, HalfMod

LEMMA WordAtType ==
  ASSUME NEW m \in Memory, NEW a \in Word, InMapping(a, 4)
  PROVE  WordAt(m, a) \in Word
<1>1. a + 1 \in Word /\ a + 2 \in Word /\ (a + 2) + 1 \in Word
  BY ModsOrdered DEF InMapping, Word
<1>2. HalfAt(m, a) \in 0 .. HalfMod - 1 /\ HalfAt(m, a + 2) \in 0 .. HalfMod - 1
  BY <1>1, HalfAtType
<1>3. \A x, y \in 0 .. HalfMod - 1 : x + HalfMod * y \in 0 .. HalfMod * HalfMod - 1
  <2> SUFFICES ASSUME NEW x \in 0 .. HalfMod - 1, NEW y \in 0 .. HalfMod - 1
               PROVE  x + HalfMod * y \in 0 .. HalfMod * HalfMod - 1
    OBVIOUS
  <2>1. HalfMod * y >= 0 /\ HalfMod * y <= HalfMod * (HalfMod - 1)
    BY ModsOrdered
  <2> QED
    BY <2>1, ModsOrdered
<1> QED
  BY <1>2, <1>3 DEF WordAt, Word, WordMod

LEMMA signExtendType ==
  ASSUME NEW mod \in Nat, mod > 0, mod <= WordMod, NEW v \in 0 .. mod - 1
  PROVE  signExtend(v, mod) \in Word
  BY ModsOrdered DEF signExtend, Word

LEMMA WriteBytesType ==
  ASSUME NEW m \in Memory, NEW a \in Word, NEW v \in Word, NEW n \in Nat
  PROVE  WriteBytes(m, a, v, n) \in Memory
<1>1. \A k \in Int : NthByte(v, k) \in Byte
  <2> SUFFICES ASSUME NEW k \in Int PROVE NthByte(v, k) \in Byte
    OBVIOUS
  <2>1. v \in Int /\ v \div ByteMod \in Int /\ v \div HalfMod \in Int
    BY ByteModAssumption, ModsOrdered DEF Word
  <2>2. HalfMod * ByteMod \in Nat /\ HalfMod * ByteMod > 0
    BY ByteModAssumption, ModsOrdered
  <2>3. v \div (HalfMod * ByteMod) \in Int
    BY <2>1, <2>2, DivMod
  <2> DEFINE x == CASE k = 0 -> v [] k = 1 -> v \div ByteMod [] k = 2 -> v \div HalfMod
                    [] OTHER -> v \div (HalfMod * ByteMod)
  <2>4. x \in Int
    BY <2>1, <2>3
  <2> HIDE DEF x
  <2>5. x % ByteMod \in Byte
    BY <2>4, ByteModAssumption, ModRange DEF Byte
  <2> QED
    BY <2>5 DEF NthByte, x
<1>2. \A b \in Word : b - a \in Int /\ m[b] \in Byte
  BY ModsOrdered DEF Word, Memory
<1> QED
  BY <1>1, <1>2 DEF WriteBytes, Memory
----------------------------------------------------------------------------
(* The handlers.                                                           *)

\* What every handler leaves: a well-formed outcome, the state untouched when an exception
\* is raised, and "finished" untouched by anything but the system call.
Orderly(insn, c, m) ==
  {out \in Outcome : /\ out.trap # "none" => out.cpu = c /\ out.mem = m
                     /\ insn.opc # "ECALL" => out.cpu.finished = c.finished}

\* An instruction that traps leaves the guest as it was.
LEMMA OrderlyStops ==
  ASSUME NEW insn, NEW c, NEW m, NEW out \in Orderly(insn, c, m), out.trap # "none"
  PROVE  out.cpu = c /\ out.mem = m
  BY DEF Orderly

\* Only the system call finishes the guest.
LEMMA OrderlyRuns ==
  ASSUME NEW insn, NEW c, NEW m, NEW out \in Orderly(insn, c, m),
         insn.opc # "ECALL", ~c.finished
  PROVE  ~out.cpu.finished
  BY DEF Orderly

LEMMA setRegType ==
  ASSUME NEW c \in CPUState, NEW r \in Reg, NEW v \in Word
  PROVE  /\ setReg(c, r, v) \in CPUState
         /\ setReg(c, r, v).finished = c.finished
  BY DEF setReg, CPUState

LEMMA setPCType ==
  ASSUME NEW c \in CPUState, NEW v \in Word
  PROVE  /\ setPC(c, v) \in CPUState
         /\ setPC(c, v).finished = c.finished
  BY DEF setPC, CPUState

LEMMA ReturnOrderly ==
  ASSUME NEW insn, NEW c, NEW d \in CPUState, d.finished = c.finished,
         NEW m, NEW n \in Memory
  PROVE  Return(d, n) \in Orderly(insn, c, m)
  BY DEF Return, Orderly, Outcome, Trap

LEMMA RaiseOrderly ==
  ASSUME NEW insn, NEW c \in CPUState, NEW m \in Memory, NEW why \in Trap
  PROVE  Raise(c, m, why) \in Orderly(insn, c, m)
  BY DEF Raise, Orderly, Outcome

LEMMA WordSum ==
  ASSUME NEW a \in Word, NEW b \in Word
  PROVE  /\ ToWord(a + b) \in Word /\ ToWord(a + kWordSize) \in Word
         /\ a - (a % 2) \in Word
<1>1. a \in Nat /\ b \in Nat
  BY ModsOrdered DEF Word
<1>2. a % 2 \in 0 .. 1 /\ a % 2 <= a
  BY <1>1
<1>3. a - (a % 2) \in Word
  BY <1>1, <1>2, ModsOrdered DEF Word
<1> QED
  BY <1>1, <1>3, ToWordType DEF kWordSize

\* Loads deliver a word.
LEMMA LoadType ==
  ASSUME NEW insn \in Instruction, insn.opc \in LoadOps, NEW c \in CPUState, NEW m \in Memory
  PROVE  loadHelper(insn, c, m) \in Orderly(insn, c, m)
<1> DEFINE addr == ToWord(c.regs[insn.rs1] + insn.imm)
           opc == insn.opc
<1>1. addr \in Word /\ insn.rd \in Reg
  BY WordSum DEF CPUState, Instruction
<1>2. ASSUME NEW v \in Word PROVE Return(setReg(c, insn.rd, v), m) \in Orderly(insn, c, m)
  BY <1>1, <1>2, setRegType, ReturnOrderly
<1>3. Raise(c, m, "wild") \in Orderly(insn, c, m)
  BY RaiseOrderly DEF Trap
<1> HIDE DEF addr
<1>4. ByteAt(m, addr) \in 0 .. ByteMod - 1
  BY <1>1 DEF ByteAt, Memory, Byte
<1>5. CASE opc \in {"LB", "LBU"}
  <2>1. ByteAt(m, addr) \in Word /\ signExtend(ByteAt(m, addr), ByteMod) \in Word
    <3>1. ByteAt(m, addr) \in Word
      BY <1>4, NarrowIsWord
    <3>2. ByteMod \in Nat /\ ByteMod > 0 /\ ByteMod <= WordMod
      BY ByteModAssumption, ModsOrdered
    <3>3. signExtend(ByteAt(m, addr), ByteMod) \in Word
      BY <1>4, <3>2, signExtendType
    <3> QED
      BY <3>1, <3>3
  <2>2. CASE opc = "LB"
    BY <2>1, <2>2, <1>2, <1>3 DEF loadHelper, addr
  <2>3. CASE opc = "LBU"
    BY <2>1, <2>3, <1>2, <1>3 DEF loadHelper, addr
  <2> QED
    BY <1>5, <2>2, <2>3
<1>6. CASE opc \in {"LH", "LHU"}
  <2>1. AccessSize(opc) = 2
    BY <1>6 DEF AccessSize
  <2>2. ASSUME InMapping(addr, 2)
        PROVE  HalfAt(m, addr) \in Word /\ signExtend(HalfAt(m, addr), HalfMod) \in Word
    <3>1. addr + 1 \in Word
      BY <1>1, <2>2, ModsOrdered DEF InMapping, Word
    <3>2. HalfAt(m, addr) \in 0 .. HalfMod - 1
      BY <1>1, <3>1, HalfAtType
    <3> QED
      BY <3>2, NarrowIsWord, ModsOrdered, signExtendType
  <2>3. CASE opc = "LH"
    BY <2>1, <2>2, <2>3, <1>2, <1>3 DEF loadHelper, addr
  <2>4. CASE opc = "LHU"
    BY <2>1, <2>2, <2>4, <1>2, <1>3 DEF loadHelper, addr
  <2> QED
    BY <1>6, <2>3, <2>4
<1>7. CASE opc = "LW"
  <2>1. AccessSize(opc) = 4
    BY <1>7 DEF AccessSize
  <2>2. InMapping(addr, 4) => WordAt(m, addr) \in Word
    BY <1>1, WordAtType
  <2> QED
    BY <2>1, <2>2, <1>2, <1>3, <1>7 DEF loadHelper, addr
<1> QED
  BY <1>5, <1>6, <1>7 DEF LoadOps

LEMMA StoreType ==
  ASSUME NEW insn \in Instruction, NEW c \in CPUState, NEW m \in Memory
  PROVE  storeHelper(insn, c, m) \in Orderly(insn, c, m)
<1> DEFINE addr == ToWord(c.regs[insn.rs1] + insn.imm)
           size == AccessSize(insn.opc)
<1>1. addr \in Word /\ c.regs[insn.rs2] \in Word
  BY WordSum DEF CPUState, Instruction
<1>2. size \in Nat
  BY DEF AccessSize
<1> HIDE DEF addr, size
<1>3. WriteBytes(m, addr, c.regs[insn.rs2], size) \in Memory
  BY <1>1, <1>2, WriteBytesType
<1>4. Return(c, WriteBytes(m, addr, c.regs[insn.rs2], size)) \in Orderly(insn, c, m)
  BY <1>3, ReturnOrderly
<1>5. Raise(c, m, "wild") \in Orderly(insn, c, m)
  BY RaiseOrderly DEF Trap
<1> QED
  BY <1>4, <1>5 DEF storeHelper, addr, size

----------------------------------------------------------------------------
(* Execute.                                                                *)

LEMMA HandlerOrderly ==
  ASSUME NEW insn \in Instruction, NEW c \in CPUState, NEW m \in Memory
  PROVE  handler(insn, c, m) \in Orderly(insn, c, m)
<1> DEFINE S == Orderly(insn, c, m)
<1>1. /\ insn.rd \in Reg /\ insn.rs1 \in Reg /\ insn.rs2 \in Reg
      /\ insn.imm \in Word /\ c.pc \in Word
      /\ c.regs[insn.rs1] \in Word /\ c.regs[insn.rs2] \in Word
  BY DEF Instruction, CPUState
<1>2. ASSUME NEW d \in CPUState, d.finished = c.finished PROVE Return(d, m) \in S
  BY <1>2, ReturnOrderly
<1> HIDE DEF S
<1>3. insn.opc \in AluRegOps => executeRegisterRegisterOp(insn, c, m) \in S
  BY <1>1, <1>2, setRegType, AluAssumption DEF executeRegisterRegisterOp
<1>4. insn.opc \in AluImmOps => executeRegisterImmOp(insn, c, m) \in S
  BY <1>1, <1>2, setRegType, AluAssumption DEF executeRegisterImmOp
<1>5. brHelper(insn, c, m) \in S
  BY <1>1, <1>2, setPCType, WordSum DEF brHelper
<1>6. insn.opc \in LoadOps => loadHelper(insn, c, m) \in S
  BY LoadType DEF S
<1>7. storeHelper(insn, c, m) \in S
  BY StoreType DEF S
<1>8. doLUI(insn, c, m) \in S
  BY <1>1, <1>2, setRegType DEF doLUI
<1>9. doAUIPC(insn, c, m) \in S
  BY <1>1, <1>2, setRegType, WordSum DEF doAUIPC
<1>10. doJAL(insn, c, m) \in S
  <2> DEFINE d == setReg(c, insn.rd, ToWord(c.pc + kWordSize))
  <2>1. d \in CPUState /\ d.finished = c.finished /\ ToWord(c.pc + insn.imm) \in Word
    BY <1>1, setRegType, WordSum
  <2> HIDE DEF d
  <2>2. Return(setPC(d, ToWord(c.pc + insn.imm)), m) \in S
    BY <2>1, <1>2, setPCType
  <2> QED
    BY <2>2 DEF doJAL, d
<1>11. doJALR(insn, c, m) \in S
  <2> DEFINE target == ToWord(c.regs[insn.rs1] + insn.imm)
             d == setPC(c, target - (target % 2))
             link == ToWord(c.pc + kWordSize)
  <2>1. target \in Word /\ link \in Word
    BY <1>1, WordSum
  <2> HIDE DEF target, link
  <2>2. target - (target % 2) \in Word
    BY <2>1, WordSum
  <2>3. d \in CPUState /\ d.finished = c.finished
    BY <2>2, setPCType
  <2> HIDE DEF d
  <2>4. Return(setReg(d, insn.rd, link), m) \in S
    BY <2>1, <2>3, <1>1, <1>2, setRegType
  <2> QED
    BY <2>4 DEF doJALR, target, link, d
<1>12. insn.opc = "ECALL" => emulateSysCall(c, m) \in S
  <2>1. doExit(c, c.regs[SysArg0Reg]) \in CPUState
    BY SysAssumption DEF doExit, CPUState
  <2>2. insn.opc = "ECALL" => Return(doExit(c, c.regs[SysArg0Reg]), m) \in S
    BY <2>1 DEF Return, S, Orderly, Outcome, Trap
  <2>3. Raise(c, m, "syscall") \in S
    BY RaiseOrderly DEF Trap, S
  <2> QED
    BY <2>2, <2>3 DEF emulateSysCall
<1>13. Return(c, m) \in S
  BY <1>2
<1>14. handler(insn, c, m) \in S
  BY <1>3, <1>4, <1>5, <1>6, <1>7, <1>8, <1>9, <1>10, <1>11, <1>12, <1>13 DEF handler
<1> QED
  BY <1>14 DEF S

\* Executing an instruction leaves a well-formed CPU state and memory, and leaves both as
\* they were when it raises an exception; only the system call can finish the guest.
THEOREM ExecuteOrderly ==
  ASSUME NEW insn \in Instruction, NEW c \in CPUState, NEW m \in Memory
  PROVE  Execute(insn, c, m) \in Orderly(insn, c, m)
<1> DEFINE out == handler(insn, c, m)
<1>1. out \in Orderly(insn, c, m)
  BY HandlerOrderly
<1>2. ToWord(c.pc + kWordSize) \in Word
  BY WordSum DEF CPUState
<1>3. /\ setPC(out.cpu, ToWord(c.pc + kWordSize)) \in CPUState
      /\ setPC(out.cpu, ToWord(c.pc + kWordSize)).finished = out.cpu.finished
  BY <1>1, <1>2, setPCType DEF Outcome, Orderly
<1> QED
  BY <1>1, <1>3 DEF Execute, Outcome, Orderly

\* An instruction that does not write the pc itself advances it by one word.
LEMMA ExecuteAdvances ==
  ASSUME NEW insn \in Instruction, NEW c \in CPUState, NEW m \in Memory,
         ~changesPC(insn.opc), Execute(insn, c, m).trap = "none"
  PROVE  Execute(insn, c, m).cpu.pc = ToWord(c.pc + kWordSize)
<1> DEFINE out == handler(insn, c, m)
<1>1. out \in Outcome
  BY HandlerOrderly DEF Orderly
<1>2. out.trap = "none"
  BY <1>1 DEF Execute, Outcome
<1> QED
  BY <1>1, <1>2 DEF Execute, Outcome, CPUState, setPC

----------------------------------------------------------------------------
(* The instruction counter is none of an instruction's business.           *)

\* A CPU state with another count.
Recounted(c, n) == [c EXCEPT !.icount = n]
Recount(out, n) == [out EXCEPT !.cpu = Recounted(out.cpu, n)]

LEMMA RecountedWrites ==
  ASSUME NEW c \in CPUState, NEW n \in Icount
  PROVE  /\ Recounted(c, n) \in CPUState
         /\ Recounted(c, n).regs = c.regs /\ Recounted(c, n).pc = c.pc
         /\ \A r, v : setReg(Recounted(c, n), r, v) = Recounted(setReg(c, r, v), n)
         /\ \A v : setPC(Recounted(c, n), v) = Recounted(setPC(c, v), n)
         /\ \A v : doExit(Recounted(c, n), v) = Recounted(doExit(c, v), n)
<1>1. \A r, v : setReg(Recounted(c, n), r, v) = Recounted(setReg(c, r, v), n)
  BY DEF setReg, Recounted, CPUState
<1>2. \A v : setPC(Recounted(c, n), v) = Recounted(setPC(c, v), n)
  BY DEF setPC, Recounted, CPUState
<1>3. \A v : doExit(Recounted(c, n), v) = Recounted(doExit(c, v), n)
  BY DEF doExit, Recounted, CPUState
<1> QED
  BY <1>1, <1>2, <1>3 DEF Recounted, CPUState

\* Whatever the count is, an instruction does the same and leaves it alone.
LEMMA HandlerRecounts ==
  ASSUME NEW insn, NEW c \in CPUState, NEW m, NEW n \in Icount
  PROVE  handler(insn, Recounted(c, n), m) = Recount(handler(insn, c, m), n)
<1> DEFINE d == Recounted(c, n)
<1>1. /\ \A e, k : Return(Recounted(e, n), k) = Recount(Return(e, k), n)
      /\ \A e, k, why : Raise(Recounted(e, n), k, why) = Recount(Raise(e, k, why), n)
  BY DEF Return, Raise, Recount
<1>2. /\ d.regs = c.regs /\ d.pc = c.pc
      /\ \A r, v : setReg(d, r, v) = Recounted(setReg(c, r, v), n)
      /\ \A v : setPC(d, v) = Recounted(setPC(c, v), n)
      /\ \A v : doExit(d, v) = Recounted(doExit(c, v), n)
      /\ d = Recounted(c, n)
  BY RecountedWrites
<1> HIDE DEF d
<1>3. executeRegisterRegisterOp(insn, d, m) = Recount(executeRegisterRegisterOp(insn, c, m), n)
  BY <1>1, <1>2 DEF executeRegisterRegisterOp
<1>4. executeRegisterImmOp(insn, d, m) = Recount(executeRegisterImmOp(insn, c, m), n)
  BY <1>1, <1>2 DEF executeRegisterImmOp
<1>5. brHelper(insn, d, m) = Recount(brHelper(insn, c, m), n)
  BY <1>1, <1>2 DEF brHelper
<1>6. loadHelper(insn, d, m) = Recount(loadHelper(insn, c, m), n)
  <2> DEFINE addr == ToWord(c.regs[insn.rs1] + insn.imm)
             fits == InMapping(addr, AccessSize(insn.opc))
             loaded == CASE insn.opc = "LB"  -> signExtend(ByteAt(m, addr), ByteMod)
                         [] insn.opc = "LBU" -> ByteAt(m, addr)
                         [] insn.opc = "LH"  -> signExtend(HalfAt(m, addr), HalfMod)
                         [] insn.opc = "LHU" -> HalfAt(m, addr)
                         [] OTHER            -> WordAt(m, addr)
             Loads(e) == IF fits THEN Return(setReg(e, insn.rd, loaded), m) ELSE Raise(e, m, "wild")
  <2>1. loadHelper(insn, c, m) = Loads(c)
    BY DEF loadHelper
  <2>2. loadHelper(insn, d, m) = Loads(d)
    <3>1. d.regs = c.regs
      BY <1>2
    <3> QED
      BY <3>1, Zenon DEF loadHelper
  <2> HIDE DEF loaded, fits
  <2> QED
    BY <1>1, <1>2, <2>1, <2>2
<1>7. storeHelper(insn, d, m) = Recount(storeHelper(insn, c, m), n)
  BY <1>1, <1>2 DEF storeHelper
<1>8. /\ doLUI(insn, d, m) = Recount(doLUI(insn, c, m), n)
      /\ doAUIPC(insn, d, m) = Recount(doAUIPC(insn, c, m), n)
  BY <1>1, <1>2 DEF doLUI, doAUIPC
<1>9. doJAL(insn, d, m) = Recount(doJAL(insn, c, m), n)
  <2> DEFINE e == setReg(c, insn.rd, ToWord(c.pc + kWordSize))
  <2>1. setPC(Recounted(e, n), ToWord(c.pc + insn.imm))
          = Recounted(setPC(e, ToWord(c.pc + insn.imm)), n)
    BY DEF setPC, Recounted, setReg, CPUState
  <2> QED
    BY <1>1, <1>2, <2>1 DEF doJAL
<1>10. doJALR(insn, d, m) = Recount(doJALR(insn, c, m), n)
  <2> DEFINE target == ToWord(c.regs[insn.rs1] + insn.imm)
             e == setPC(c, target - (target % 2))
             v == ToWord(c.pc + kWordSize)
  <2>1. setReg(Recounted(e, n), insn.rd, v) = Recounted(setReg(e, insn.rd, v), n)
    BY DEF setPC, Recounted, setReg, CPUState
  <2> QED
    BY <1>1, <1>2, <2>1 DEF doJALR
<1>11. emulateSysCall(d, m) = Recount(emulateSysCall(c, m), n)
  BY <1>1, <1>2 DEF emulateSysCall
<1>12. Return(d, m) = Recount(Return(c, m), n)
  BY <1>1, <1>2
<1> QED
  BY <1>3, <1>4, <1>5, <1>6, <1>7, <1>8, <1>9, <1>10, <1>11, <1>12 DEF handler, d

LEMMA ExecuteRecounts ==
  ASSUME NEW insn \in Instruction, NEW c \in CPUState, NEW m \in Memory, NEW n \in Icount
  PROVE  Execute(insn, Recounted(c, n), m) = Recount(Execute(insn, c, m), n)
<1> DEFINE out == handler(insn, c, m)
           next == ToWord(c.pc + kWordSize)
<1>1. out \in Outcome
  BY HandlerOrderly DEF Orderly
<1>2. Recounted(c, n).pc = c.pc
  BY RecountedWrites
<1>3. handler(insn, Recounted(c, n), m) = Recount(out, n)
  BY HandlerRecounts
<1> HIDE DEF out
<1>4. Recount(out, n).trap = out.trap /\ Recount(out, n).cpu = Recounted(out.cpu, n)
  BY <1>1 DEF Recount, Outcome
<1>5. [Recount(out, n) EXCEPT !.cpu = setPC(Recounted(out.cpu, n), next)]
        = Recount([out EXCEPT !.cpu = setPC(out.cpu, next)], n)
  BY <1>1 DEF Recount, Recounted, setPC, Outcome, CPUState
<1> QED
  BY <1>2, <1>3, <1>4, <1>5 DEF Execute, out

\* Only step and the end of the code count.
LEMMA ExecuteKeepsCount ==
  ASSUME NEW insn \in Instruction, NEW c \in CPUState, NEW m \in Memory
  PROVE  Execute(insn, c, m).cpu.icount = c.icount
<1> DEFINE out == Execute(insn, c, m)
<1>1. out.cpu \in CPUState /\ out \in Outcome
  BY ExecuteOrderly DEF Orderly, Outcome
<1>2. c.icount \in Icount /\ Recounted(c, c.icount) = c
  BY DEF Recounted, CPUState
<1>3. out = Recount(out, c.icount)
  BY <1>2, ExecuteRecounts
<1> HIDE DEF out
<1>4. Recount(out, c.icount).cpu = Recounted(out.cpu, c.icount)
  BY <1>1 DEF Recount, Outcome
<1>5. Recounted(out.cpu, c.icount).icount = c.icount
  BY <1>1 DEF Recounted, CPUState
<1> QED
  BY <1>3, <1>4, <1>5 DEF out
============================================================================
