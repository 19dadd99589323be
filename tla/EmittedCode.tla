---------------------------- MODULE EmittedCode ----------------------------
(***************************************************************************)
(* The code each --jit backend emits for one guest instruction (src/jit).  *)
(*                                                                         *)
(* After(backend, insn, c, m) is the set of outcomes the emitted code can  *)
(* have in CPU state c and memory m: one outcome, or several where the     *)
(* emitted operation is undefined.  llvm and tpde compile the same IR, the *)
(* latter without the optimizer.                                           *)
(***************************************************************************)
EXTENDS X86Backends, LightningBackend, IrBackends, LlvmBackend

Backend == {"asmjit", "xbyak", "lightning", "mir", "ir", "llvm", "tpde"}

ShiftImmOps == {"SLLI", "SRLI", "SRAI"}
ShiftRegOps == {"SLL", "SRL", "SRA"}

\* What decode can yield: it has no SBREAK and SCALL, and its shifts stay in the word.
Decodable(insn) ==
  /\ insn \in Instruction
  /\ insn.opc \notin {"SBREAK", "SCALL"}
  /\ insn.opc \in ShiftImmOps => insn.imm < WordBits

ASSUME DecodableAssumption == \A w \in DOMAIN Decode : Decodable(Decode[w])
\* The interpreter is given the functions of WordOps.
ASSUME AluIsAluOf ==
  \A opc \in AluOps : \A a, b \in Word : Alu(opc, a, b) = AluOf(opc, a, b)

After(backend, insn, c, m) ==
  CASE backend = "asmjit" -> {AsmJit(insn, c, m)}
    [] backend = "xbyak" -> {XByak(insn, c, m)}
    [] backend = "lightning" -> {Lightning(insn, c, m)}
    [] backend = "mir" -> {Mir(insn, c, m)}
    [] backend = "ir" -> {Ir(insn, c, m)}
    [] backend \in {"llvm", "tpde"} -> Llvm(insn, c, m)

\* The two places where emitted code does not do what the interpreter does.
LinksOverItsBase(backend, insn) ==
  backend = "ir" /\ insn.opc = "JALR" /\ insn.rd = insn.rs1 /\ insn.rd # 0
ShiftsPastTheWord(backend, insn, c) ==
  /\ backend \in {"llvm", "tpde"}
  /\ insn.opc \in ShiftRegOps
  /\ c.regs[insn.rs2] >= WordBits
Deviates(backend, insn, c) ==
  LinksOverItsBase(backend, insn) \/ ShiftsPastTheWord(backend, insn, c)
============================================================================
