----------------------------- MODULE MCBackends -----------------------------
(***************************************************************************)
(* Backends on words of four bits and three registers, two of which take   *)
(* every pair of values, with every opcode that decodes, every pair of     *)
(* source registers, and immediates decoding can produce (a shift's is     *)
(* below the width).  x1 is a7 and x2 is a0.                               *)
(***************************************************************************)
EXTENDS Backends

MCAlu(opc, a, b) == AluOf(opc, a, b)
MCDecode == [w \in {} |-> [opc |-> "ECALL", rd |-> 0, rs1 |-> 0, rs2 |-> 0, imm |-> 0]]

MCStates ==
  {[regs |-> [r \in Reg |-> IF r = 0 THEN 0 ELSE IF r = 1 THEN x1 ELSE x2], pc |-> 4,
    finished |-> FALSE, icount |-> 0, exitCode |-> 0] :
     x1 \in Word, x2 \in Word}

\* Bytes with and without the sign, in every order a half can have.
MCMemories == {[a \in Word |-> IF a % 3 = 0 THEN 1 ELSE IF a % 5 = 1 THEN 1 ELSE 0]}

Insn(opcs, rds, rs1s, rs2s, imms) ==
  {[opc |-> o, rd |-> d, rs1 |-> s, rs2 |-> t, imm |-> i] :
     o \in opcs, d \in rds, s \in rs1s, t \in rs2s, i \in imms}

MCInsns ==
  Insn(AluRegOps, {0, 1}, Reg, Reg, {0})
    \cup Insn(ShiftImmOps, {0, 1}, Reg, {0}, {0, 1, 3})
    \cup Insn(AluImmOps \ ShiftImmOps, {0, 1}, Reg, {0}, {0, 1, 8, 15})
    \cup Insn(BranchOps, {0}, Reg, Reg, {8})
    \cup Insn(LoadOps, {0, 1, 2}, {1}, {0}, {0, 15})
    \cup Insn(StoreOps, {0}, {1, 2}, {0, 1}, {0, 15})
    \cup Insn({"LUI", "AUIPC"}, {0, 2}, {0}, {0}, {8, 12})
    \cup Insn({"JAL"}, {0, 1}, {0}, {0}, {8, 12})
    \cup Insn({"JALR"}, {0, 1, 2}, Reg, {0}, {0, 3, 12})
    \cup Insn({"EBREAK", "FENCE", "ECALL"}, {0}, {0}, {0}, {0})
============================================================================
