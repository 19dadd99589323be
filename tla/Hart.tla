-------------------------------- MODULE Hart --------------------------------
(***************************************************************************)
(* The hart a run starts from (src/hart, tools/sim): the pc at the entry   *)
(* point, the stack pointer set, and every other register zero.            *)
(***************************************************************************)
EXTENDS Interp

CONSTANTS SpReg,      \* x2
          StackTop    \* --stack-top

ASSUME HartAssumption == SpReg \in Reg \ {0} /\ StackTop \in Word

\* CPUState's initializers, then Hart::load's setPC and main's setSP.
BootState(entry) ==
  [regs |-> [r \in Reg |-> IF r = SpReg THEN StackTop ELSE 0],
   pc |-> entry, finished |-> FALSE, icount |-> 0, exitCode |-> 0]
============================================================================
