----------------------------- MODULE Simulator -----------------------------
(***************************************************************************)
(* sim without --jit (tools/sim): the ELF file is loaded into a plain      *)
(* memory, the hart is set to the entry point and the stack top, and the   *)
(* interpreter runs the guest in the memory the loader has filled.         *)
(* Loader and InterpEngine, joined by that memory.                         *)
(***************************************************************************)
EXTENDS InterpEngine

CONSTANT Elfs   \* the files

VARIABLES
  elf, kind, stage, seg, filled,   \* the loader's
  m_storage, page, lastPage,       \* the paged memory it does not use
  call, loadFault,                 \* the call of the memory that is served
  started                          \* Hart::run has been called

loadVars == <<elf, kind, stage, seg, filled, m_storage, page, lastPage, call, loadFault>>
simVars == <<vars, loadVars, started>>

\* makePlain for the whole address space; nothing uses the pages.
Loading == INSTANCE Loader WITH
             AddrMod <- WordMod, WordSize <- kWordSize, SizeMod <- WordMod * WordMod,
             Kinds <- {"plain"}, ReadBacks <- {},
             PlainStart <- 0, PlainSize <- WordMod, PageSize <- WordMod, NumPages <- 1,
             m_data <- mem, fault <- loadFault

\* The image of a file is that of a well-formed one; see Loader.
ASSUME FilesAssumption == \A e \in Elfs : e \in Loading!Elf /\ Loading!WellFormed(e)

\* CPUState's initializers.
NewCPU == [regs |-> [r \in Reg |-> 0], pc |-> 0, finished |-> FALSE, icount |-> 0, exitCode |-> 0]

SimInit ==
  /\ Loading!Init
  /\ cpu = NewCPU
  /\ phase = "running" /\ fault = "none"
  /\ started = FALSE

LoadStep ==
  /\ ~started
  /\ Loading!Load \/ Loading!Serve
  /\ UNCHANGED <<cpu, phase, fault, started>>

\* The rest of Hart::load, and setSP.
Start ==
  /\ ~started
  /\ stage = "loaded" /\ Loading!Idle
  /\ cpu' = BootState(elf.entry)
  /\ started' = TRUE
  /\ UNCHANGED <<mem, phase, fault, loadVars>>

\* main has caught what the loader threw, or the copy has left the mapping.
LoadFailed == ~started /\ (stage = "rejected" \/ loadFault # "none") /\ UNCHANGED simVars

RunStep == started /\ Next /\ UNCHANGED <<loadVars, started>>

SimNext == LoadStep \/ Start \/ LoadFailed \/ RunStep

SimSpec == SimInit /\ [][SimNext]_simVars

----------------------------------------------------------------------------
(* What the user of sim is promised: the machine of the file's image.      *)

FileImage == [a \in Word |-> Loading!ImageByte(a)]

guestCpu == IF started THEN cpu ELSE BootState(elf.entry)
guestMem == IF started THEN mem ELSE FileImage
guestHeld ==
  [a \in Word |-> IF InMapping(a, kWordSize) THEN {WordAt(guestMem, a)} ELSE {}]

Guest == INSTANCE GuestMachine WITH
           cpu <- guestCpu,
           mem <- guestMem,
           held <- guestHeld,
           liberties <- {},
           CachesText <- FALSE,
           Lookahead <- 0,
           ChecksAlignment <- TRUE,
           HostMayFail <- FALSE

\* sim executes the program of the file: the guest starts at the entry point with every
\* byte where the last segment that covers it puts it, and from then on the interpreter
\* executes exactly the instruction memory holds at an aligned pc, and its errors name
\* the instruction at the pc (ElfLoader, Hart::load, ExecEngine::step).
ImplementsGuest == Guest!Spec
============================================================================
