---------------------------- MODULE GuestMachine ----------------------------
(***************************************************************************)
(* What every execution engine promises its guest, with no cache, no basic *)
(* block and no translated code: one instruction after another, each the   *)
(* one the interpreter would execute at the pc.                            *)
(*                                                                         *)
(* The engines differ in four ways a guest can see, and the promise names  *)
(* each one:                                                               *)
(*  - an engine that caches instructions (CachesText) may execute any word *)
(*    the memory has held at the pc so far, not only the one it holds now; *)
(*  - an engine that decodes ahead reports an undecodable word before the  *)
(*    straight-line code in front of it has run (Lookahead);               *)
(*  - an engine may refuse a misaligned pc (ChecksAlignment);              *)
(*  - emitted code may take liberties with two instructions: JALR may find *)
(*    the link it has just written in its base ("links-first"), and a      *)
(*    shift past the width of a word may give any word ("shifts-freely").  *)
(***************************************************************************)
EXTENDS Hart, WordOps

CONSTANTS CachesText,       \* instructions are cached and stores do not invalidate them
          Lookahead,        \* how many instructions ahead of the pc are decoded
          ChecksAlignment,  \* a misaligned pc is an error
          HostMayFail       \* the engine needs host memory to go on

VARIABLES cpu,       \* CPUState
          mem,       \* guest memory
          held,      \* held[a]: the words a fetch at address a may return
          fault,     \* "none", or the exception that ended the run
          liberties  \* those of the engine that runs

guestVars == <<cpu, mem, held, fault, liberties>>

Liberty == {"links-first", "shifts-freely"}

Held == [Word -> SUBSET Word]
FetchAddr == {a \in Word : InMapping(a, kWordSize)}

NothingHeld == [a \in Word |-> {}]
Holding(h, m) ==
  [a \in Word |-> IF a \in FetchAddr THEN h[a] \cup {WordAt(m, a)} ELSE h[a]]

Aligned == cpu.pc % kWordSize = 0
MayRun == fault = "none" /\ ~cpu.finished
MayFetch == MayRun /\ (ChecksAlignment => Aligned)

Init ==
  /\ mem \in Memory
  /\ \E entry \in Word : cpu = BootState(entry)
  /\ held = Holding(NothingHeld, mem)
  /\ fault = "none"
  /\ liberties \in SUBSET Liberty

Retire(out) ==
  /\ out.trap = "none"
  /\ cpu' = [out.cpu EXCEPT !.icount = (cpu.icount + 1) % IcountMod]
  /\ mem' = out.mem
  /\ held' = Holding(IF CachesText THEN held ELSE NothingHeld, mem')
  /\ UNCHANGED <<fault, liberties>>

Stop(why) == fault' = why /\ UNCHANGED <<cpu, mem, held, liberties>>

LinkedFirst(insn) ==
  IF "links-first" \in liberties /\ insn.opc = "JALR" /\ insn.rd = insn.rs1
  THEN {Execute(insn, setReg(cpu, insn.rd, ToWord(cpu.pc + kWordSize)), mem)} ELSE {}

ShiftedFreely(insn) ==
  IF /\ "shifts-freely" \in liberties
     /\ insn.opc \in {"SLL", "SRL", "SRA"} /\ cpu.regs[insn.rs2] >= WordBits
  THEN {Return(setPC(setReg(cpu, insn.rd, v), ToWord(cpu.pc + kWordSize)), mem) : v \in Word}
  ELSE {}

Outcomes(insn) ==
  {Execute(insn, cpu, mem)} \cup LinkedFirst(insn) \cup ShiftedFreely(insn)

Step ==
  /\ MayFetch
  /\ cpu.pc \in FetchAddr
  /\ \E w \in held[cpu.pc] \cap DOMAIN Decode : \E out \in Outcomes(Decode[w]) :
       \/ Retire(out)
       \/ out.trap # "none" /\ Stop(out.trap)

\* The word n instructions after the pc, reached over straight-line code.
Ahead(n) == ToWord(cpu.pc + kWordSize * n)
StraightLine(n) ==
  \A i \in 0 .. n - 1 : \E w \in held[Ahead(i)] \cap DOMAIN Decode :
    ~isTerminator(Decode[w].opc)

DecodeFault ==
  /\ MayFetch
  /\ \E n \in 0 .. Lookahead :
       /\ StraightLine(n)
       /\ \/ Ahead(n) \in FetchAddr /\ held[Ahead(n)] \ DOMAIN Decode # {} /\ Stop("decode")
          \/ Ahead(n) \notin FetchAddr /\ Stop("wild")

AlignmentFault == MayRun /\ ChecksAlignment /\ ~Aligned /\ Stop("misaligned")

HostFault == MayRun /\ HostMayFail /\ Stop("host")

Next == Step \/ DecodeFault \/ AlignmentFault \/ HostFault

Spec == Init /\ [][Next]_guestVars
============================================================================
