----------------------------- MODULE MCDecoder -----------------------------
(***************************************************************************)
(* Every instruction with operands and immediates at the ends and at the   *)
(* joints of the immediate fields, and every combination of the values at  *)
(* the ends of the six fields with every opcode and funct3.                *)
(***************************************************************************)
EXTENDS Decoder

Of(opcs, rds, rs1s, rs2s, imms) ==
  {[opc |-> o, rd |-> d, rs1 |-> s, rs2 |-> t, imm |-> i] :
     o \in opcs, d \in rds, s \in rs1s, t \in rs2s, i \in imms}

SomeRegs == {0, 1, 16, 31}
Powers(lo, hi) == {2 ^ n : n \in lo .. hi}
Signed(top, lo) == {0, 2 ^ lo, 2 ^ top - 2 ^ lo, -2 ^ lo} \cup Powers(lo, top - 1)
                     \cup {-p : p \in Powers(lo, top)}

MCInsns ==
  Of(IOps, SomeRegs, SomeRegs, {0}, Signed(11, 0))
    \cup Of(ShiftOps, SomeRegs, SomeRegs, {0}, {0, 1, 16, 31})
    \cup Of(SOps, {0}, SomeRegs, SomeRegs, Signed(11, 0))
    \cup Of(BOps, {0}, SomeRegs, SomeRegs, Signed(12, 1))
    \cup Of(UOps, SomeRegs, {0}, {0},
            {0, -2 ^ 30 - 2 ^ 30} \cup Powers(12, 30) \cup {-p : p \in Powers(12, 30)})
    \cup Of({"JAL"}, SomeRegs, {0}, {0}, Signed(20, 1))
    \cup Of(ROps, SomeRegs, SomeRegs, SomeRegs, {0})
    \cup {[NoInsn EXCEPT !.opc = o] : o \in SystemOps}

MCWords ==
  [funct7 : {0, 1, 32, 64, 127}, rs2 : {0, 1, 31}, rs1 : {0, 31}, funct3 : 0 .. 7,
   rd : {0, 1, 31}, opcode : 0 .. 127]
============================================================================
