---------------------------- MODULE BackendProofs ----------------------------
(***************************************************************************)
(* The emitted code of every backend beside the interpreter, for every     *)
(* instance of Backends.                                                   *)
(***************************************************************************)
EXTENDS Backends, EmittedCodeProofs

----------------------------------------------------------------------------
(* The state machine.                                                      *)

\* Until an instruction has run, nothing has happened to a guest of the instance.
BackendsInv ==
  /\ backend \in Tested
  /\ \E c \in States, m \in Memories : before = Return(c, m)
  /\ insn = NotRun => translated = interpreted
  /\ BackendsAgree

LEMMA InitBackends == Init => BackendsInv
  BY DEF Init, BackendsInv, BackendsAgree

LEMMA RunBackends == BackendsInv /\ [Run]_vars => BackendsInv'
<1> SUFFICES ASSUME BackendsInv, [Run]_vars
             PROVE  BackendsInv'
  OBVIOUS
<1>1. CASE Run
  <2>1. PICK c \in States, m \in Memories : before = Return(c, m)
    BY DEF BackendsInv
  <2>2. before.cpu = c /\ before.mem = m
    BY <2>1 DEF Return
  <2>3. backend \in Backend /\ insn' \in Decoded /\ c \in CPU /\ m \in Memory
    BY <1>1, TestedAssumption, InsnsAssumption, StatesAssumption, MemoriesAssumption
    DEF Run, BackendsInv, Decoded, Decodable, CPU
  <2>4. translated' \in After(backend, insn', c, m) /\ interpreted' = Execute(insn', c, m)
    BY <1>1, <2>2 DEF Run
  <2>5. insn' # NotRun
    <3>1. insn'.opc \in Opcode
      BY <2>3 DEF Decoded, Instruction
    <3>2. NotRun.opc = "none"
      BY DEF NotRun
    <3>3. "none" \notin Opcode
      BY DEF Opcode, AluRegOps, AluImmOps, BranchOps, LoadOps, StoreOps, NoEffectOps
    <3> QED
      BY <3>1, <3>2, <3>3
  <2>6. BackendsAgree'
    <3>1. UNCHANGED <<backend, before>>
      BY <1>1 DEF Run
    <3>2. backend' = backend /\ before'.cpu = c
      BY <3>1, <2>2
    <3>3. Deviates(backend, insn', c) \/ translated' = interpreted'
      BY <2>3, <2>4, AfterAgrees
    <3> QED
      BY <3>2, <3>3 DEF BackendsAgree
  <2> QED
    BY <1>1, <2>5, <2>6 DEF Run, BackendsInv
<1>2. CASE UNCHANGED vars
  BY <1>2 DEF vars, BackendsInv, BackendsAgree
<1> QED
  BY <1>1, <1>2

\* Whatever the width of a word, the register file, the memory, the guest and the decoded
\* instruction: the code each of the seven backends emits for it (src/jit) does what the
\* interpreter's handler does (src/interpreter/interpreter.cc), but for ir's link over its
\* own base and the LLVM shifts by a word or more.
THEOREM BackendsAgreeAlways == Spec => []BackendsAgree
<1>1. BackendsInv => BackendsAgree
  BY DEF BackendsInv
<1> QED
  BY <1>1, InitBackends, RunBackends, PTL DEF Spec
=============================================================================
