----------------------------- MODULE JitEngine -----------------------------
(***************************************************************************)
(* JitEngine (src/jit/base): basic blocks are collected once, interpreted  *)
(* and counted until they are hot, then translated; the translation is     *)
(* kept in a direct-mapped cache keyed by the guest address.               *)
(*                                                                         *)
(* "phase" is where JitEngine::step is:                                    *)
(*   loop     at the head of its while loop                                *)
(*   collect  in the loop that decodes a new block                         *)
(*   block    holding the block of the current pc                          *)
(*   interp   in interpret(), about to execute instruction "pos"           *)
(*   code     in translated code, about to execute instruction "pos"       *)
(*   exited   returned, and Hart::run with it                              *)
(* An exception leaves step and run where they were: "fault" is set and    *)
(* nothing moves any more.                                                 *)
(*                                                                         *)
(* Translated code performs each instruction as module EmittedCode says of *)
(* its backend; when pc and icount reach the CPU state is modelled here.   *)
(***************************************************************************)
EXTENDS Hart, EmittedCode

CONSTANTS
  Programs,         \* the memories a loaded file can leave
  Entries,          \* and the entry points
  Backends,         \* the --jit backends of the instance
  Configs,          \* JitEngine::Config records
  kSize,            \* entries of the translation cache
  NumExecMod,       \* values of a block's execution counter
  NarrowIcountMod,  \* values of the counter some backends update as 32 bits
  MaxBlockLen       \* instructions the host has memory for in one block

AllBackends == Backend \cup {"cached-interp"}

ASSUME ProgramsAssumption == Programs \subseteq Memory /\ Entries \subseteq Word
ASSUME BackendsAssumption == Backends \subseteq AllBackends
ASSUME SizeAssumption ==
  /\ kSize \in Nat /\ kSize > 0
  /\ NumExecMod \in Nat /\ NumExecMod > 0
  /\ NarrowIcountMod \in Nat /\ NarrowIcountMod > 0
  /\ IcountMod % NarrowIcountMod = 0
  /\ MaxBlockLen \in Nat /\ MaxBlockLen > 0

\* num_exec is a size_t, and icount has 64 bits.
ASSUME NumExecAssumption == NumExecMod % IcountMod = 0

NumExec == 0 .. NumExecMod - 1
Config == [execThreshold : NumExec, singleStep : BOOLEAN]

ASSUME ConfigsAssumption == Configs \subseteq Config

BBInfo == [insns : Seq(Instruction), num_exec : NumExec]

TbSlot == 0 .. kSize - 1

\* func is a translated block, or null; code is what it was translated from.
TbEntry == [null : BOOLEAN, code : Seq(Instruction), gpa : Word]

VARIABLES
  m_config,      \* Config
  m_translator,  \* the backend; "cached-interp" has no translator
  m_cacheBB,     \* collected blocks by address
  m_tbCache,     \* translated blocks by slot
  cpu,           \* CPUState
  mem,           \* guest memory
  phase,         \* see above
  fault,         \* "none", or the exception that left run
  bbPc,          \* the address step looked up: its local pc
  curAddr,       \* the address being decoded
  pos,           \* the next instruction of the block, counted from 1
  code,          \* the translated block being run
  fresh,         \* whether it was translated in this iteration
  hostPc         \* the guest pc as the translated code holds it

engineVars == <<m_config, m_translator>>
cacheVars  == <<m_cacheBB, m_tbCache>>
guestVars  == <<cpu, mem>>
frameVars  == <<bbPc, curAddr, pos, code, fresh, hostPc>>
vars == <<engineVars, cacheVars, guestVars, phase, fault, frameVars>>

Phase == {"loop", "collect", "block", "interp", "code", "exited"}
Fault == {"none", "decode", "syscall", "wild", "host"}

TypeOK ==
  /\ m_config \in Config
  /\ m_translator \in AllBackends
  /\ DOMAIN m_cacheBB \subseteq Word
  /\ \A a \in DOMAIN m_cacheBB : m_cacheBB[a] \in BBInfo
  /\ m_tbCache \in [TbSlot -> TbEntry]
  /\ cpu \in CPUState
  /\ mem \in Memory
  /\ phase \in Phase
  /\ fault \in Fault
  /\ bbPc \in Word
  /\ curAddr \in Word
  /\ pos \in Nat
  /\ code \in Seq(Instruction)
  /\ fresh \in BOOLEAN
  /\ hostPc \in Word

----------------------------------------------------------------------------
(* Translators.                                                            *)

HasTranslator == m_translator # "cached-interp"

\* The code keeps the pc in a register and stores it when the block ends.
KeepsPcInRegister == m_translator \in {"mir", "ir"}

\* The code counts each instruction; the others add the block's length at its end.
CountsEachInsn == m_translator = "xbyak"

\* The code adds to the low 32 bits of the counter only.
NarrowIcount == m_translator \in {"asmjit", "lightning", "mir"}

\* Mistake: a block counts as one instruction.
addIcountOfBlock(n) ==
  IF NarrowIcount
  THEN LET low == cpu.icount % NarrowIcountMod
       IN  cpu.icount - low + ((low + 1) % NarrowIcountMod)
  ELSE (cpu.icount + 1) % IcountMod

addIcount(n) ==
  IF NarrowIcount
  THEN LET low == cpu.icount % NarrowIcountMod
       IN  cpu.icount - low + ((low + n) % NarrowIcountMod)
  ELSE (cpu.icount + n) % IcountMod

----------------------------------------------------------------------------
(* TbCache.                                                                *)

getHash(gpa) == (gpa \div kWordSize) % kSize

NullEntry == [null |-> TRUE, code |-> <<>>, gpa |-> 0]

\* Mistake: the slot is taken for the address.
lookupHitsBySlot(gpa) == ~m_tbCache[getHash(gpa)].null

\* Mistake: address 0 is taken for an unused entry's.
lookupHitsButZero(gpa) ==
  LET entry == m_tbCache[getHash(gpa)] IN entry.gpa = gpa /\ gpa # 0

lookupHits(gpa) ==
  LET entry == m_tbCache[getHash(gpa)] IN entry.gpa = gpa /\ ~entry.null

----------------------------------------------------------------------------
Init ==
  /\ m_config \in Configs
  /\ m_translator \in Backends
  /\ m_cacheBB = [a \in {} |-> [insns |-> <<>>, num_exec |-> 0]]
  /\ m_tbCache = [s \in TbSlot |-> NullEntry]
  /\ mem \in Programs
  /\ \E pc \in Entries : cpu = BootState(pc)
  /\ phase = "loop"
  /\ fault = "none"
  /\ bbPc = 0 /\ curAddr = 0 /\ pos = 0
  /\ code = <<>> /\ fresh = FALSE /\ hostPc = 0

At(p) == phase = p /\ fault = "none"

Throw(why) ==
  /\ fault' = why
  /\ UNCHANGED <<engineVars, cacheVars, guestVars, phase, frameVars>>

\* Call the translated code of the block at the current pc.
Call(func, isFresh) ==
  /\ phase' = "code"
  /\ code' = func
  /\ fresh' = isFresh
  /\ hostPc' = cpu.pc
  /\ pos' = 1
  /\ UNCHANGED <<engineVars, cacheVars, guestVars, fault, curAddr>>

\* The translation cache has the code: run it.
RunCached ==
  /\ At("loop") /\ ~cpu.finished
  /\ HasTranslator /\ lookupHits(cpu.pc)
  /\ bbPc' = cpu.pc
  /\ Call(m_tbCache[getHash(cpu.pc)].code, FALSE)

MustLookUpBlock == At("loop") /\ ~cpu.finished /\ ~(HasTranslator /\ lookupHits(cpu.pc))

\* try_emplace found the block.
FindBlock ==
  /\ MustLookUpBlock
  /\ cpu.pc \in DOMAIN m_cacheBB
  /\ bbPc' = cpu.pc
  /\ phase' = "block"
  /\ UNCHANGED <<engineVars, cacheVars, guestVars, fault, curAddr, pos, code, fresh, hostPc>>

SetBlock(a, bb) ==
  m_cacheBB' = [x \in DOMAIN m_cacheBB \cup {a} |-> IF x = a THEN bb ELSE m_cacheBB[x]]

\* try_emplace inserted an empty block, to be filled.
NewBlock ==
  /\ MustLookUpBlock
  /\ cpu.pc \notin DOMAIN m_cacheBB
  /\ SetBlock(cpu.pc, [insns |-> <<>>, num_exec |-> 0])
  /\ bbPc' = cpu.pc
  /\ curAddr' = cpu.pc
  /\ phase' = "collect"
  /\ UNCHANGED <<engineVars, m_tbCache, guestVars, fault, pos, code, fresh, hostPc>>

----------------------------------------------------------------------------
(* Collecting a block.                                                     *)

Fetchable == InMapping(curAddr, kWordSize)
Fetched == WordAt(mem, curAddr)
Block == m_cacheBB[bbPc]

\* Mistake: a block may run through a terminator.
CollectInsnStopsLate ==
  /\ At("collect")
  /\ Fetchable /\ Fetched \in DOMAIN Decode
  /\ Len(Block.insns) < MaxBlockLen
  /\ SetBlock(bbPc, [Block EXCEPT !.insns = Append(@, Decode[Fetched])])
  /\ IF \/ m_config.singleStep
        \/ Block.insns # <<>> /\ isTerminator(Block.insns[Len(Block.insns)].opc)
     THEN phase' = "block" /\ UNCHANGED curAddr
     ELSE curAddr' = ToWord(curAddr + kWordSize) /\ UNCHANGED phase
  /\ UNCHANGED <<engineVars, m_tbCache, guestVars, fault, bbPc, pos, code, fresh, hostPc>>

\* Mistake: the next word is looked for half a word on.
CollectInsnHalfStep ==
  /\ At("collect")
  /\ Fetchable /\ Fetched \in DOMAIN Decode
  /\ Len(Block.insns) < MaxBlockLen
  /\ SetBlock(bbPc, [Block EXCEPT !.insns = Append(@, Decode[Fetched])])
  /\ IF m_config.singleStep \/ isTerminator(Decode[Fetched].opc)
     THEN phase' = "block" /\ UNCHANGED curAddr
     ELSE curAddr' = ToWord(curAddr + 2) /\ UNCHANGED phase
  /\ UNCHANGED <<engineVars, m_tbCache, guestVars, fault, bbPc, pos, code, fresh, hostPc>>

CollectInsn ==
  /\ At("collect")
  /\ Fetchable /\ Fetched \in DOMAIN Decode
  /\ Len(Block.insns) < MaxBlockLen
  /\ SetBlock(bbPc, [Block EXCEPT !.insns = Append(@, Decode[Fetched])])
  /\ IF m_config.singleStep \/ isTerminator(Decode[Fetched].opc)
     THEN phase' = "block" /\ UNCHANGED curAddr
     ELSE curAddr' = ToWord(curAddr + kWordSize) /\ UNCHANGED phase
  /\ UNCHANGED <<engineVars, m_tbCache, guestVars, fault, bbPc, pos, code, fresh, hostPc>>

\* Mistake: an undecodable word ends the block instead of the run.
CollectUndecodableEndsBlock ==
  /\ At("collect")
  /\ Fetchable /\ Fetched \notin DOMAIN Decode
  /\ phase' = "block"
  /\ UNCHANGED <<engineVars, cacheVars, guestVars, fault, frameVars>>

\* The block decoded so far stays in the map.
CollectUndecodable ==
  At("collect") /\ Fetchable /\ Fetched \notin DOMAIN Decode /\ Throw("decode")

\* push_back finds no memory: straight-line code that never ends.
CollectOutOfMemory ==
  /\ At("collect")
  /\ Fetchable /\ Fetched \in DOMAIN Decode
  /\ Len(Block.insns) = MaxBlockLen
  /\ Throw("host")

CollectWild == At("collect") /\ ~Fetchable /\ Throw("wild")

----------------------------------------------------------------------------
(* Running the block.                                                      *)

\* Mistake: one visit too many is interpreted.
HotLate == HasTranslator /\ Block.num_exec > m_config.execThreshold

Hot == HasTranslator /\ Block.num_exec >= m_config.execThreshold

Translate ==
  /\ At("block") /\ Hot
  /\ Call(Block.insns, TRUE)
  /\ UNCHANGED bbPc

\* The backend returns no code or throws: no memory for it, a failed compilation.
TranslateFails == At("block") /\ Hot /\ Throw("host")

Interpret ==
  /\ At("block") /\ ~Hot
  /\ phase' = "interp"
  /\ pos' = 1
  /\ UNCHANGED <<engineVars, cacheVars, guestVars, fault, bbPc, curAddr, code, fresh, hostPc>>

InterpretInsn ==
  /\ At("interp") /\ pos <= Len(Block.insns)
  /\ LET out == Execute(Block.insns[pos], cpu, mem)
     IN  /\ fault' = out.trap
         /\ mem' = out.mem
         /\ IF out.trap = "none"
            THEN /\ cpu' = [out.cpu EXCEPT !.icount = (@ + 1) % IcountMod]
                 /\ pos' = pos + 1
            ELSE /\ cpu' = out.cpu
                 /\ UNCHANGED pos
  /\ UNCHANGED <<engineVars, cacheVars, phase, bbPc, curAddr, code, fresh, hostPc>>

\* Mistake: only complete passes that end at the loop head again are counted.
InterpretEndNotCounting ==
  /\ At("interp") /\ pos > Len(Block.insns)
  /\ phase' = "loop"
  /\ IF cpu.pc = bbPc
     THEN UNCHANGED m_cacheBB
     ELSE SetBlock(bbPc, [Block EXCEPT !.num_exec = (@ + 1) % NumExecMod])
  /\ UNCHANGED <<engineVars, m_tbCache, guestVars, fault, frameVars>>

InterpretEnd ==
  /\ At("interp") /\ pos > Len(Block.insns)
  /\ SetBlock(bbPc, [Block EXCEPT !.num_exec = (@ + 1) % NumExecMod])
  /\ phase' = "loop"
  /\ UNCHANGED <<engineVars, m_tbCache, guestVars, fault, frameVars>>

----------------------------------------------------------------------------
(* Inside translated code.                                                 *)

CodeInsn ==
  /\ At("code") /\ pos <= Len(code)
  /\ \E out \in After(m_translator, code[pos], [cpu EXCEPT !.pc = hostPc], mem) :
       LET stored == IF KeepsPcInRegister THEN [out.cpu EXCEPT !.pc = cpu.pc] ELSE out.cpu
       IN  /\ fault' = out.trap
           /\ mem' = out.mem
           /\ hostPc' = out.cpu.pc
           /\ IF out.trap = "none"
              THEN /\ cpu' = IF CountsEachInsn
                             THEN [stored EXCEPT !.icount = (@ + 1) % IcountMod]
                             ELSE stored
                   /\ pos' = pos + 1
              ELSE /\ cpu' = stored
                   /\ UNCHANGED pos
  /\ UNCHANGED <<engineVars, cacheVars, phase, bbPc, curAddr, code, fresh>>

\* Mistake: the code is filed under the address it leaves the guest at.
CodeReturnFilesByExit ==
  /\ At("code") /\ pos > Len(code)
  /\ cpu' = [cpu EXCEPT !.pc = hostPc,
                        !.icount = IF CountsEachInsn THEN @ ELSE addIcount(Len(code))]
  /\ m_tbCache' = IF fresh
                  THEN [m_tbCache EXCEPT ![getHash(hostPc)] =
                          [null |-> FALSE, code |-> code, gpa |-> hostPc]]
                  ELSE m_tbCache
  /\ phase' = "loop"
  /\ UNCHANGED <<engineVars, m_cacheBB, mem, fault, frameVars>>

\* The end of the code, then insert() when it was translated in this iteration.
CodeReturn ==
  /\ At("code") /\ pos > Len(code)
  /\ cpu' = [cpu EXCEPT !.pc = hostPc,
                        !.icount = IF CountsEachInsn THEN @ ELSE addIcount(Len(code))]
  /\ m_tbCache' = IF fresh
                  THEN [m_tbCache EXCEPT ![getHash(bbPc)] =
                          [null |-> FALSE, code |-> code, gpa |-> bbPc]]
                  ELSE m_tbCache
  /\ phase' = "loop"
  /\ UNCHANGED <<engineVars, m_cacheBB, mem, fault, frameVars>>

----------------------------------------------------------------------------
\* step and Hart::run leave their loops.
RunReturns ==
  /\ At("loop") /\ cpu.finished
  /\ phase' = "exited"
  /\ UNCHANGED <<engineVars, cacheVars, guestVars, fault, frameVars>>

Stopped == phase = "exited" \/ fault # "none"
Terminated == Stopped /\ UNCHANGED vars

Collect == CollectInsn \/ CollectUndecodable \/ CollectOutOfMemory \/ CollectWild
RunBlock == Translate \/ TranslateFails \/ Interpret \/ InterpretInsn \/ InterpretEnd
RunCode == CodeInsn \/ CodeReturn

Next == \/ RunCached \/ FindBlock \/ NewBlock
        \/ Collect \/ RunBlock \/ RunCode
        \/ RunReturns \/ Terminated

Spec == Init /\ [][Next]_vars

\* One host thread runs the loop, and nothing in it waits for anything.
FairSpec == Spec /\ WF_vars(Next)

----------------------------------------------------------------------------
(* Properties.                                                             *)

\* A finished or abandoned block: not the one being collected now.
Complete(a) == a \in DOMAIN m_cacheBB /\ ~(phase = "collect" /\ a = bbPc)

\* A cached block is never empty; only its last instruction may end a block,
\* and it does unless blocks are single instructions (the collecting loop of step).
BlockShape ==
  \A a \in DOMAIN m_cacheBB :
    LET insns == m_cacheBB[a].insns
    IN  /\ \A i \in 1 .. Len(insns) - 1 : ~isTerminator(insns[i].opc)
        /\ m_config.singleStep => Len(insns) <= 1
        /\ IF Complete(a)
           THEN /\ Len(insns) > 0
                /\ m_config.singleStep \/ isTerminator(insns[Len(insns)].opc)
           ELSE m_config.singleStep => Len(insns) = 0 \/ fault # "none"

\* A translation is found only at the address of the block it was made from, it is
\* the translation of the whole block, and the block was hot when it was made.
TbMatchesBlock ==
  \A s \in TbSlot : LET entry == m_tbCache[s] IN
    ~entry.null =>
      /\ getHash(entry.gpa) = s
      /\ Complete(entry.gpa)
      /\ entry.code = m_cacheBB[entry.gpa].insns
      /\ HasTranslator
      /\ m_cacheBB[entry.gpa].num_exec = m_config.execThreshold

\* With a translator a block is interpreted until it is hot and never after:
\* its counter stops at the threshold, so the counter cannot wrap round.
CounterStopsAtThreshold ==
  HasTranslator =>
    \A a \in DOMAIN m_cacheBB : m_cacheBB[a].num_exec <= m_config.execThreshold

\* Running a block, interpreted or translated, the guest pc is the address the
\* next instruction was decoded from: leaving the block's straight line is its
\* last instruction's business (changesPC and isTerminator agree).
GuestPc == IF phase = "code" THEN hostPc ELSE cpu.pc
Running == IF phase = "code" THEN code ELSE Block.insns
PcFollowsBlock ==
  phase \in {"interp", "code"} =>
    /\ phase = "code" => code = Block.insns
    /\ pos \in 1 .. Len(Running) + 1
    /\ pos <= Len(Running) => GuestPc = ToWord(bbPc + kWordSize * (pos - 1))

\* Blocks begin at word addresses: ExecEngine::step reports any other pc as an error
\* ("Misaligned PC detected"), JitEngine::step overrides it without the check.
BlocksAreAligned == \A a \in DOMAIN m_cacheBB : a % kWordSize = 0

\* After the exit system call the guest executes nothing more: an ECALL ends its
\* block, so nothing behind it is run before step looks at "finished".
ExitStopsGuest ==
  [][cpu.finished => cpu'.regs = cpu.regs /\ mem' = mem /\ cpu'.exitCode = cpu.exitCode]_vars
============================================================================
