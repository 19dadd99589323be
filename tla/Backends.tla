------------------------------ MODULE Backends ------------------------------
(***************************************************************************)
(* One instruction run by the code a backend emits for it and, beside it,  *)
(* by the interpreter.                                                     *)
(***************************************************************************)
EXTENDS EmittedCode

CONSTANTS Tested,    \* the backends of the instance
          States,    \* CPU states to start from
          Memories,  \* memories to start from
          Insns      \* instructions to run

ASSUME TestedAssumption == Tested \subseteq Backend
\* setReg never writes x0.
ASSUME StatesAssumption == \A c \in States : c \in CPUState /\ c.regs[0] = 0
ASSUME MemoriesAssumption == Memories \subseteq Memory
ASSUME InsnsAssumption == \A i \in Insns : Decodable(i)

VARIABLES backend,   \* the backend tried
          insn,      \* the instruction run
          before,    \* the guest it was run on
          translated,\* the outcome of the emitted code
          interpreted\* the outcome of the interpreter

vars == <<backend, insn, before, translated, interpreted>>

NotRun == [opc |-> "none", rd |-> 0, rs1 |-> 0, rs2 |-> 0, imm |-> 0]

Init ==
  /\ backend \in Tested
  /\ \E c \in States, m \in Memories : before = Return(c, m)
  /\ insn = NotRun
  /\ translated = before
  /\ interpreted = before

Run ==
  /\ insn = NotRun
  /\ insn' \in Insns
  /\ translated' \in After(backend, insn', before.cpu, before.mem)
  /\ interpreted' = Execute(insn', before.cpu, before.mem)
  /\ UNCHANGED <<backend, before>>

Spec == Init /\ [][Run]_vars

----------------------------------------------------------------------------
\* Every backend's code leaves registers, pc, memory and exit state as the interpreter's
\* handler does, for every instruction and operand, but where ir's JALR links over its
\* base and LLVM's shifts pass the word.
BackendsAgree == Deviates(backend, insn, before.cpu) \/ translated = interpreted

\* The same without exception.
TranslatesLikeInterpreter == translated = interpreted
============================================================================
