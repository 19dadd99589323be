---------------------------- MODULE InterpEngine ----------------------------
(***************************************************************************)
(* The plain interpreter: Hart::run calling ExecEngine::step               *)
(* (src/exec_engine) until the guest has exited or a step has thrown.      *)
(* One action is one call of step; an exception leaves run and the engine. *)
(* Simulator starts it.                                                    *)
(***************************************************************************)
EXTENDS Hart

VARIABLES cpu,    \* CPUState
          mem,    \* guest memory
          phase,  \* "running", or "exited" once run has returned
          fault   \* "none", or the exception that left run

vars == <<cpu, mem, phase, fault>>

TypeOK ==
  /\ cpu \in CPUState
  /\ mem \in Memory
  /\ phase \in {"running", "exited"}
  /\ fault \in {"none", "misaligned", "decode", "syscall", "wild"}

InStep == phase = "running" /\ fault = "none" /\ ~cpu.finished

Misaligned == cpu.pc % kWordSize # 0

Throw(why) == fault' = why /\ UNCHANGED <<cpu, mem, phase>>

stepMisaligned == InStep /\ Misaligned /\ Throw("misaligned")

\* An aligned fetch never leaves the mapping.
Fetched == WordAt(mem, cpu.pc)

stepUndefined ==
  InStep /\ ~Misaligned /\ Fetched \notin DOMAIN Decode /\ Throw("decode")

\* Mistake: the counter is not advanced.
stepExecuteNotCounting ==
  /\ InStep
  /\ ~Misaligned
  /\ Fetched \in DOMAIN Decode
  /\ LET out == Execute(Decode[Fetched], cpu, mem)
     IN  /\ cpu' = out.cpu
         /\ mem' = out.mem
         /\ fault' = out.trap
  /\ UNCHANGED phase

\* icount is advanced only when execute returns.
stepExecute ==
  /\ InStep
  /\ ~Misaligned
  /\ Fetched \in DOMAIN Decode
  /\ LET out == Execute(Decode[Fetched], cpu, mem)
     IN  /\ cpu' = IF out.trap = "none"
                   THEN [out.cpu EXCEPT !.icount = (@ + 1) % IcountMod]
                   ELSE out.cpu
         /\ mem' = out.mem
         /\ fault' = out.trap
  /\ UNCHANGED phase

\* run leaves its loop.
runReturn ==
  /\ phase = "running" /\ fault = "none" /\ cpu.finished
  /\ phase' = "exited"
  /\ UNCHANGED <<cpu, mem, fault>>

Terminated == (phase = "exited" \/ fault # "none") /\ UNCHANGED vars

Next == stepMisaligned \/ stepUndefined \/ stepExecute \/ runReturn \/ Terminated
============================================================================
