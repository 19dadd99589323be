-------------------------- MODULE JitEngineProofs --------------------------
(***************************************************************************)
(* JitEngine keeps its types and its cache discipline for every word       *)
(* width, program, backend, threshold and cache size.                      *)
(*                                                                         *)
(* First TypeInv: TypeOK with what a frame of step knows about its block,  *)
(* and with what emitted code relies on: x0 is zero, and no instruction is *)
(* one decode cannot yield.                                                *)
(* Then, on top of it, CacheInv: the invariants about cached blocks and    *)
(* their translations, strengthened by what each phase remembers.          *)
(***************************************************************************)
EXTENDS JitEngine, EmittedCodeProofs

----------------------------------------------------------------------------
(* Counters and slots.                                                     *)

LEMMA HashType == ASSUME NEW a \in Word PROVE getHash(a) \in TbSlot
<1>1. a \div kWordSize \in Int
  BY ModsOrdered DEF Word, kWordSize
<1> QED
  BY <1>1, SizeAssumption, ModRange DEF getHash, TbSlot

\* Adding to the low part of the instruction counter stays within the counter,
\* because the narrow counter divides the wide one.
LEMMA addIcountType ==
  ASSUME NEW n \in Nat, cpu.icount \in Icount
  PROVE  addIcount(n) \in Icount
<1> DEFINE N == NarrowIcountMod
           low == cpu.icount % N
           q == cpu.icount \div N
           k == IcountMod \div N
           r == (low + n) % N
<1>1. N \in Nat /\ N > 0 /\ IcountMod \in Nat /\ IcountMod > 0 /\ IcountMod % N = 0
  BY SizeAssumption, IcountModAssumption
<1>2. cpu.icount \in Nat /\ cpu.icount < IcountMod
  BY <1>1 DEF Icount
<1>3. CASE ~NarrowIcount
  BY <1>1, <1>2, <1>3, ModRange DEF addIcount, Icount
<1>4. CASE NarrowIcount
  <2>1. /\ low \in 0 .. N - 1 /\ q \in Int /\ cpu.icount = N * q + low
        /\ k \in Int /\ IcountMod = N * k
    BY <1>1, <1>2, ModRange, DivMod
  <2>2. r \in 0 .. N - 1
    BY <1>1, <2>1, ModRange
  <2> HIDE DEF low, q, k, r
  <2>3. q >= 0 /\ q + 1 <= k
    <3>1. N * q < N * k
      BY <1>1, <1>2, <2>1
    <3>2. N * q > -N
      BY <1>1, <1>2, <2>1
    <3> QED
      BY <1>1, <2>1, <3>1, <3>2
  <2>4. N * q >= 0 /\ N * q + N <= N * k
    <3>1. N * (q + 1) <= N * k /\ N * (q + 1) = N * q + N
      BY <1>1, <2>1, <2>3
    <3> QED
      BY <1>1, <2>1, <2>3, <3>1
  <2>5. (cpu.icount - low) + r \in 0 .. IcountMod - 1
    BY <1>1, <2>1, <2>2, <2>4
  <2> QED
    BY <2>5, <1>4 DEF addIcount, Icount, low, r
<1> QED
  BY <1>3, <1>4

----------------------------------------------------------------------------
(* Types.                                                                  *)

\* x0 is zero, and whatever is cached or run has been decoded.
DecodedInv ==
  /\ cpu.regs[0] = 0
  /\ \A a \in DOMAIN m_cacheBB : m_cacheBB[a].insns \in Seq(Decoded)
  /\ \A s \in TbSlot : m_tbCache[s].code \in Seq(Decoded)
  /\ code \in Seq(Decoded)
  /\ phase = "code" => HasTranslator

TypeInv ==
  /\ TypeOK
  /\ phase \in {"collect", "block", "interp"} => bbPc \in DOMAIN m_cacheBB
  /\ phase \in {"interp", "code"} => pos > 0
  /\ DecodedInv

LEMMA BootType == ASSUME NEW pc \in Entries PROVE BootState(pc) \in CPUState
<1>1. 0 \in Word /\ 0 \in Icount
  BY ModsOrdered, IcountModAssumption DEF Word, Icount
<1> QED
  BY <1>1, HartAssumption, ProgramsAssumption DEF BootState, CPUState

LEMMA InitType == Init => TypeInv
<1> SUFFICES ASSUME Init PROVE TypeInv
  OBVIOUS
<1>1. 0 \in Word /\ 0 \in Nat
  BY ModsOrdered DEF Word
<1>2. <<>> \in Seq(Instruction)
  OBVIOUS
<1>3. NullEntry \in TbEntry
  BY <1>1, <1>2 DEF NullEntry, TbEntry
<1>4. DecodedInv
  <2>1. cpu.regs[0] = 0
    BY NumRegsAssumption, HartAssumption DEF Init, BootState, Reg
  <2>2. <<>> \in Seq(Decoded)
    OBVIOUS
  <2> QED
    BY <2>1, <2>2 DEF Init, DecodedInv, NullEntry
<1> QED
  BY <1>1, <1>2, <1>3, <1>4, BootType, BackendsAssumption, ConfigsAssumption, ProgramsAssumption
     DEF Init, TypeInv, TypeOK, Phase, Fault

\* Storing a block keeps the block map well-formed.
LEMMA SetBlockType ==
  ASSUME \A a \in DOMAIN m_cacheBB : m_cacheBB[a] \in BBInfo, DOMAIN m_cacheBB \subseteq Word,
         NEW a \in Word, NEW bb \in BBInfo, SetBlock(a, bb)
  PROVE  /\ DOMAIN m_cacheBB' = DOMAIN m_cacheBB \cup {a}
         /\ DOMAIN m_cacheBB' \subseteq Word
         /\ \A x \in DOMAIN m_cacheBB' : m_cacheBB'[x] \in BBInfo
         /\ m_cacheBB'[a] = bb
         /\ \A x \in DOMAIN m_cacheBB \ {a} : m_cacheBB'[x] = m_cacheBB[x]
  BY DEF SetBlock

LEMMA BlockType ==
  ASSUME TypeInv, phase \in {"collect", "block", "interp"}
  PROVE  /\ Block \in BBInfo /\ Block.insns \in Seq(Instruction) /\ Block.num_exec \in NumExec
         /\ Len(Block.insns) \in Nat
  BY DEF TypeInv, TypeOK, Block, BBInfo

\* The guest as translated code has it.
RunningOn == [cpu EXCEPT !.pc = hostPc]

\* What the code of one instruction makes of its outcome.
StoredCpu(out) == IF KeepsPcInRegister THEN [out.cpu EXCEPT !.pc = cpu.pc] ELSE out.cpu
Leaves(out) ==
  /\ fault' = out.trap /\ mem' = out.mem /\ hostPc' = out.cpu.pc
  /\ IF out.trap = "none"
     THEN /\ cpu' = IF CountsEachInsn
                    THEN [StoredCpu(out) EXCEPT !.icount = (@ + 1) % IcountMod]
                    ELSE StoredCpu(out)
          /\ pos' = pos + 1
     ELSE cpu' = StoredCpu(out) /\ pos' = pos

\* Translated code runs a decoded instruction, with one of the outcomes of its backend.
LEMMA CodeInsnRuns ==
  ASSUME TypeInv, CodeInsn
  PROVE  /\ phase = "code" /\ fault = "none" /\ pos \in 1 .. Len(code)
         /\ m_translator \in Backend /\ code[pos] \in Decoded /\ code[pos] \in Instruction
         /\ RunningOn \in CPU /\ RunningOn \in CPUState /\ mem \in Memory
         /\ RunningOn.pc = hostPc /\ RunningOn.finished = cpu.finished
         /\ RunningOn.icount = cpu.icount
         /\ \E out \in After(m_translator, code[pos], RunningOn, mem) : Leaves(out)
         /\ UNCHANGED <<m_config, m_translator, m_cacheBB, m_tbCache, phase, bbPc, curAddr,
                        code, fresh>>
<1>1. /\ phase = "code" /\ fault = "none" /\ pos <= Len(code)
      /\ UNCHANGED <<m_config, m_translator, m_cacheBB, m_tbCache, phase, bbPc, curAddr,
                     code, fresh>>
      /\ \E out \in After(m_translator, code[pos], RunningOn, mem) : Leaves(out)
  BY DEF CodeInsn, At, engineVars, cacheVars, RunningOn, Leaves, StoredCpu
<1>2. /\ pos \in 1 .. Len(code) /\ cpu \in CPUState /\ mem \in Memory /\ hostPc \in Word
      /\ code \in Seq(Decoded) /\ cpu.regs[0] = 0 /\ m_translator \in Backend
  BY <1>1 DEF TypeInv, TypeOK, DecodedInv, HasTranslator, AllBackends
<1>3. /\ RunningOn \in CPUState /\ RunningOn.pc = hostPc /\ RunningOn.finished = cpu.finished
      /\ RunningOn.icount = cpu.icount /\ RunningOn.regs = cpu.regs
  BY <1>2 DEF RunningOn, CPUState
<1>4. code[pos] \in Decoded /\ code[pos] \in Instruction
  BY <1>2 DEF Decoded
<1> QED
  BY <1>1, <1>2, <1>3, <1>4 DEF CPU

\* Whatever the backend, the instruction leaves a guest.
LEMMA StoredType ==
  ASSUME TypeInv, NEW out \in Outcome
  PROVE  /\ StoredCpu(out) \in CPUState
         /\ [StoredCpu(out) EXCEPT !.icount = (@ + 1) % IcountMod] \in CPUState
         /\ StoredCpu(out).regs = out.cpu.regs
         /\ StoredCpu(out).finished = out.cpu.finished
<1>1. cpu.pc \in Word /\ out.cpu \in CPUState
  BY DEF TypeInv, TypeOK, CPUState, Outcome
<1>2. /\ StoredCpu(out) \in CPUState /\ StoredCpu(out).regs = out.cpu.regs
      /\ StoredCpu(out).finished = out.cpu.finished
  BY <1>1 DEF StoredCpu, CPUState
<1>3. (StoredCpu(out).icount + 1) % IcountMod \in Icount
  BY <1>2, IcountModAssumption, ModRange DEF CPUState, Icount
<1> HIDE DEF StoredCpu
<1> QED
  BY <1>2, <1>3 DEF CPUState

LEMMA NextFrame ==
  TypeInv /\ [Next]_vars =>
    /\ TypeOK'
    /\ (phase \in {"collect", "block", "interp"} => bbPc \in DOMAIN m_cacheBB)'
    /\ (phase \in {"interp", "code"} => pos > 0)'
<1> SUFFICES ASSUME TypeInv, [Next]_vars
             PROVE  /\ TypeOK'
                    /\ (phase \in {"collect", "block", "interp"} => bbPc \in DOMAIN m_cacheBB)'
                    /\ (phase \in {"interp", "code"} => pos > 0)'
  OBVIOUS
<1> USE DEF TypeInv
<1>0. TypeOK /\ cpu.pc \in Word /\ cpu.icount \in Icount
  BY DEF TypeOK, CPUState
<1>1. CASE RunCached
  <2>1. m_tbCache[getHash(cpu.pc)].code \in Seq(Instruction)
    BY <1>0, HashType DEF TypeOK, TbEntry
  <2>2. /\ bbPc' = cpu.pc /\ hostPc' = cpu.pc /\ fresh' \in BOOLEAN /\ pos' = 1
        /\ code' = m_tbCache[getHash(cpu.pc)].code /\ phase' = "code"
        /\ UNCHANGED <<m_config, m_translator, m_cacheBB, m_tbCache, cpu, mem, fault, curAddr>>
    BY <1>1 DEF RunCached, Call, engineVars, cacheVars, guestVars
  <2> QED
    BY <1>0, <2>1, <2>2 DEF TypeOK, Phase
<1>2. CASE FindBlock
  BY <1>0, <1>2
     DEF FindBlock, MustLookUpBlock, At, TypeOK, engineVars, cacheVars, guestVars, Phase
<1>3. CASE NewBlock
  <2>1. [insns |-> <<>>, num_exec |-> 0] \in BBInfo
    BY SizeAssumption DEF BBInfo, NumExec
  <2>2. /\ DOMAIN m_cacheBB' = DOMAIN m_cacheBB \cup {cpu.pc}
        /\ DOMAIN m_cacheBB' \subseteq Word
        /\ \A x \in DOMAIN m_cacheBB' : m_cacheBB'[x] \in BBInfo
    BY <1>0, <1>3, <2>1, SetBlockType DEF NewBlock, TypeOK
  <2>3. bbPc' \in DOMAIN m_cacheBB' /\ bbPc' \in Word /\ curAddr' \in Word
    BY <1>0, <1>3, <2>2 DEF NewBlock
  <2> HIDE DEF TypeInv
  <2>4. phase' = "collect"
    BY <1>3 DEF NewBlock
  <2> QED
    BY <1>0, <1>3, <2>2, <2>3, <2>4
       DEF NewBlock, TypeInv, TypeOK, engineVars, guestVars, Phase
<1>4. CASE CollectInsn
  <2>1. Decode[Fetched] \in Instruction
    BY <1>4, DecodeAssumption DEF CollectInsn
  <2>2. [Block EXCEPT !.insns = Append(@, Decode[Fetched])] \in BBInfo
    <3>1. Block \in BBInfo
      BY <1>4, BlockType DEF CollectInsn, At
    <3> QED
      BY <2>1, <3>1 DEF BBInfo
  <2>3. /\ DOMAIN m_cacheBB' = DOMAIN m_cacheBB \cup {bbPc}
        /\ DOMAIN m_cacheBB' \subseteq Word
        /\ \A x \in DOMAIN m_cacheBB' : m_cacheBB'[x] \in BBInfo
    BY <1>0, <1>4, <2>2, SetBlockType DEF CollectInsn, TypeOK
  <2>4. curAddr' \in Word /\ phase' \in {"collect", "block"}
    BY <1>0, <1>4, WordSum DEF CollectInsn, At, TypeOK
  <2> QED
    BY <1>0, <1>4, <2>3, <2>4 DEF CollectInsn, At, TypeOK, engineVars, guestVars, Phase
<1>5. CASE CollectUndecodable \/ CollectOutOfMemory \/ CollectWild \/ TranslateFails
  BY <1>0, <1>5 DEF CollectUndecodable, CollectOutOfMemory, CollectWild, TranslateFails, Throw,
     At, TypeOK, engineVars, cacheVars, guestVars, frameVars, Fault
<1>6. CASE Translate
  <2>1. Block.insns \in Seq(Instruction)
    BY <1>6, BlockType DEF Translate, At
  <2> QED
    BY <1>0, <1>6, <2>1
       DEF Translate, Call, At, TypeOK, engineVars, cacheVars, guestVars, Phase
<1>7. CASE Interpret
  BY <1>0, <1>7 DEF Interpret, At, TypeOK, engineVars, cacheVars, guestVars, Phase
<1>8. CASE InterpretInsn
  <2> DEFINE out == Execute(Block.insns[pos], cpu, mem)
  <2>1. Block.insns[pos] \in Instruction
    BY <1>0, <1>8 DEF InterpretInsn, At, TypeOK, Block, BBInfo
  <2>2. out \in Outcome
    BY <1>0, <2>1, ExecuteOrderly DEF TypeOK, Orderly
  <2>3. (out.cpu.icount + 1) % IcountMod \in Icount
    BY <2>2, IcountModAssumption, ModRange DEF Outcome, CPUState, Icount
  <2>4. [out.cpu EXCEPT !.icount = (@ + 1) % IcountMod] \in CPUState
    BY <2>2, <2>3 DEF Outcome, CPUState
  <2> HIDE DEF out
  <2>5. cpu' \in CPUState /\ mem' \in Memory /\ fault' \in Fault
    BY <1>8, <2>2, <2>4 DEF InterpretInsn, Outcome, Trap, Fault, out
  <2>6. pos' \in Nat /\ pos' > 0
    BY <1>0, <1>8 DEF InterpretInsn, At, TypeOK
  <2> QED
    BY <1>0, <1>8, <2>5, <2>6 DEF InterpretInsn, At, TypeOK, engineVars, cacheVars
<1>9. CASE InterpretEnd
  <2>1. (Block.num_exec + 1) % NumExecMod \in NumExec
    <3>1. Block.num_exec \in NumExec
      BY <1>9, BlockType DEF InterpretEnd, At
    <3> QED
      BY <3>1, SizeAssumption, ModRange DEF NumExec
  <2>2. [Block EXCEPT !.num_exec = (@ + 1) % NumExecMod] \in BBInfo
    <3>1. Block \in BBInfo
      BY <1>9, BlockType DEF InterpretEnd, At
    <3> QED
      BY <2>1, <3>1 DEF BBInfo
  <2>3. /\ DOMAIN m_cacheBB' = DOMAIN m_cacheBB \cup {bbPc}
        /\ DOMAIN m_cacheBB' \subseteq Word
        /\ \A x \in DOMAIN m_cacheBB' : m_cacheBB'[x] \in BBInfo
    BY <1>0, <1>9, <2>2, SetBlockType DEF InterpretEnd, TypeOK
  <2> QED
    BY <1>0, <1>9, <2>3 DEF InterpretEnd, At, TypeOK, engineVars, guestVars, frameVars, Phase
<1>10. CASE CodeInsn
  <2>1. PICK out \in After(m_translator, code[pos], RunningOn, mem) : Leaves(out)
    BY <1>10, CodeInsnRuns
  <2>2. out \in Outcome
    BY <1>10, <2>1, CodeInsnRuns, AfterOrderly DEF Orderly
  <2>3. /\ StoredCpu(out) \in CPUState
        /\ [StoredCpu(out) EXCEPT !.icount = (@ + 1) % IcountMod] \in CPUState
    BY <2>2, StoredType
  <2>4. cpu' \in CPUState
    BY <2>1, <2>3 DEF Leaves
  <2>5. mem' \in Memory /\ fault' \in Fault /\ hostPc' \in Word
    BY <2>1, <2>2 DEF Leaves, Outcome, CPUState, Trap, Fault
  <2>6. pos' \in Nat /\ pos' > 0
    BY <1>0, <1>10, <2>1, CodeInsnRuns DEF Leaves, TypeOK
  <2>7. phase = "code" /\ UNCHANGED <<m_config, m_translator, m_cacheBB, m_tbCache, phase, bbPc,
                                      curAddr, code, fresh>>
    BY <1>10, CodeInsnRuns
  <2> QED
    BY <1>0, <2>4, <2>5, <2>6, <2>7 DEF TypeOK
<1>11. CASE CodeReturn
  <2>1. Len(code) \in Nat
    BY <1>0 DEF TypeOK
  <2>2. cpu' \in CPUState
    BY <1>0, <1>11, <2>1, addIcountType DEF CodeReturn, TypeOK, CPUState
  <2>3. [null |-> FALSE, code |-> code, gpa |-> bbPc] \in TbEntry
    BY <1>0 DEF TypeOK, TbEntry
  <2>4. m_tbCache' \in [TbSlot -> TbEntry]
    BY <1>0, <1>11, <2>3 DEF CodeReturn, TypeOK
  <2> QED
    BY <1>0, <1>11, <2>2, <2>4 DEF CodeReturn, At, TypeOK, engineVars, frameVars, Phase
<1>12. CASE RunReturns
  BY <1>0, <1>12
     DEF RunReturns, At, TypeOK, engineVars, cacheVars, guestVars, frameVars, Phase
<1>13. CASE UNCHANGED vars
  BY <1>0, <1>13
     DEF vars, TypeOK, engineVars, cacheVars, guestVars, frameVars
<1> QED
  BY <1>1, <1>2, <1>3, <1>4, <1>5, <1>6, <1>7, <1>8, <1>9, <1>10, <1>11, <1>12, <1>13
     DEF Next, Collect, RunBlock, RunCode, Terminated

\* One more block of decoded instructions is one.
LEMMA SetBlockDecoded ==
  ASSUME DecodedInv, NEW a \in Word, NEW bb, bb.insns \in Seq(Decoded), SetBlock(a, bb)
  PROVE  \A x \in DOMAIN m_cacheBB' : m_cacheBB'[x].insns \in Seq(Decoded)
  BY DEF SetBlock, DecodedInv

LEMMA NextDecoded == TypeInv /\ [Next]_vars => DecodedInv'
<1> SUFFICES ASSUME TypeInv, [Next]_vars PROVE DecodedInv'
  OBVIOUS
<1>1. DecodedInv /\ cpu \in CPUState /\ cpu.pc \in Word /\ bbPc \in Word /\ mem \in Memory
  BY DEF TypeInv, TypeOK, CPUState
<1>2. CASE RunCached
  <2>1. /\ phase' = "code" /\ HasTranslator /\ code' = m_tbCache[getHash(cpu.pc)].code
        /\ UNCHANGED <<m_translator, m_cacheBB, m_tbCache, cpu>>
    BY <1>2 DEF RunCached, Call, engineVars, cacheVars, guestVars
  <2>2. code' \in Seq(Decoded)
    BY <1>1, <2>1, HashType DEF DecodedInv
  <2> QED
    BY <1>1, <2>1, <2>2 DEF DecodedInv, HasTranslator
<1>3. CASE Translate
  <2>1. /\ phase = "block" /\ phase' = "code" /\ HasTranslator /\ code' = Block.insns
        /\ UNCHANGED <<m_translator, m_cacheBB, m_tbCache, cpu>>
    BY <1>3 DEF Translate, Hot, At, Call, engineVars, cacheVars, guestVars
  <2>2. code' \in Seq(Decoded)
    BY <1>1, <2>1 DEF DecodedInv, TypeInv, Block
  <2> QED
    BY <1>1, <2>1, <2>2 DEF DecodedInv, HasTranslator
<1>4. CASE NewBlock
  <2> DEFINE bb == [insns |-> <<>>, num_exec |-> 0]
  <2>1. SetBlock(cpu.pc, bb) /\ bb.insns \in Seq(Decoded)
        /\ phase' = "collect" /\ UNCHANGED <<m_tbCache, cpu, code>>
    BY <1>4 DEF NewBlock, guestVars
  <2> HIDE DEF bb
  <2> QED
    BY <1>1, <2>1, SetBlockDecoded DEF DecodedInv
<1>5. CASE CollectInsn
  <2> DEFINE bb == [Block EXCEPT !.insns = Append(@, Decode[Fetched])]
  <2>1. /\ SetBlock(bbPc, bb) /\ phase = "collect" /\ phase' \in {"collect", "block"}
        /\ Fetched \in DOMAIN Decode /\ UNCHANGED <<m_tbCache, cpu, code>>
    BY <1>5 DEF CollectInsn, At, guestVars
  <2>2. Decode[Fetched] \in Decoded
    BY <2>1, DecodableAssumption DEF Decoded, Decodable
  <2>3. Block \in BBInfo /\ Block.insns \in Seq(Decoded)
    BY <1>1, <2>1, BlockType DEF DecodedInv, TypeInv, Block
  <2>4. bb.insns \in Seq(Decoded)
    BY <2>2, <2>3 DEF BBInfo
  <2> HIDE DEF bb
  <2> QED
    BY <1>1, <2>1, <2>4, SetBlockDecoded DEF DecodedInv
<1>6. CASE InterpretEnd
  <2> DEFINE bb == [Block EXCEPT !.num_exec = (@ + 1) % NumExecMod]
  <2>1. /\ SetBlock(bbPc, bb) /\ phase = "interp" /\ phase' = "loop"
        /\ UNCHANGED <<m_tbCache, cpu, code>>
    BY <1>6 DEF InterpretEnd, At, guestVars, frameVars
  <2>2. Block \in BBInfo /\ Block.insns \in Seq(Decoded)
    BY <1>1, <2>1, BlockType DEF DecodedInv, TypeInv, Block
  <2>3. bb.insns \in Seq(Decoded)
    BY <2>2 DEF BBInfo
  <2> HIDE DEF bb
  <2> QED
    BY <1>1, <2>1, <2>3, SetBlockDecoded DEF DecodedInv
<1>7. CASE InterpretInsn
  <2> DEFINE insn == Block.insns[pos]
             out == Execute(insn, cpu, mem)
  <2>1. insn \in Instruction
    BY <1>7 DEF TypeInv, TypeOK, InterpretInsn, At, Block, BBInfo
  <2>2. out.cpu \in CPUState /\ out.cpu.regs[0] = 0
    BY <1>1, <2>1, ExecuteOrderly, ExecuteKeepsZero DEF Orderly, Outcome, CPU, DecodedInv
  <2>3. /\ cpu' = IF out.trap = "none"
                  THEN [out.cpu EXCEPT !.icount = (out.cpu.icount + 1) % IcountMod] ELSE out.cpu
        /\ phase = "interp" /\ UNCHANGED <<m_cacheBB, m_tbCache, code, phase>>
    BY <1>7 DEF InterpretInsn, At, cacheVars
  <2> HIDE DEF out
  <2>4. cpu'.regs[0] = 0
    BY <2>2, <2>3 DEF CPUState
  <2> QED
    BY <1>1, <2>3, <2>4 DEF DecodedInv
<1>8. CASE CodeInsn
  <2>1. PICK out \in After(m_translator, code[pos], RunningOn, mem) : Leaves(out)
    BY <1>8, CodeInsnRuns
  <2>2. out \in Outcome /\ out.cpu.regs[0] = 0
    BY <1>8, <2>1, CodeInsnRuns, AfterOrderly DEF Orderly
  <2>3. StoredCpu(out) \in CPUState /\ StoredCpu(out).regs[0] = 0
    BY <2>2, StoredType
  <2>4. cpu'.regs[0] = 0
    BY <2>1, <2>3 DEF Leaves, CPUState
  <2>5. UNCHANGED <<m_translator, m_cacheBB, m_tbCache, phase, code>>
    BY <1>8, CodeInsnRuns
  <2> QED
    BY <1>1, <2>4, <2>5 DEF DecodedInv, HasTranslator
<1>9. CASE CodeReturn
  <2>1. /\ cpu'.regs = cpu.regs /\ phase' = "loop" /\ UNCHANGED <<m_cacheBB, code>>
    BY <1>1, <1>9 DEF CodeReturn, frameVars, CPUState
  <2>2. \A s \in TbSlot : m_tbCache'[s].code \in Seq(Decoded)
    BY <1>1, <1>9 DEF CodeReturn, DecodedInv, TypeInv, TypeOK
  <2> QED
    BY <1>1, <2>1, <2>2 DEF DecodedInv
<1>10. CASE \/ FindBlock \/ CollectUndecodable \/ CollectOutOfMemory \/ CollectWild
            \/ TranslateFails \/ Interpret \/ RunReturns \/ UNCHANGED vars
  <2>1. /\ UNCHANGED <<m_translator, m_cacheBB, m_tbCache, cpu, code>>
        /\ phase' # "code" \/ phase' = phase
    BY <1>10 DEF FindBlock, CollectUndecodable, CollectOutOfMemory, CollectWild, TranslateFails,
       Interpret, RunReturns, Throw, vars, engineVars, cacheVars, guestVars, frameVars
  <2> QED
    BY <1>1, <2>1 DEF DecodedInv, HasTranslator
<1> QED
  BY <1>2, <1>3, <1>4, <1>5, <1>6, <1>7, <1>8, <1>9, <1>10
     DEF Next, Collect, RunBlock, RunCode, Terminated

LEMMA NextType == TypeInv /\ [Next]_vars => TypeInv'
  BY NextFrame, NextDecoded DEF TypeInv

\* TypeInv is invariant.
THEOREM TypeInvariant == Spec => []TypeInv
  BY InitType, NextType, PTL DEF Spec

\* The engine's variables keep their types: no address, counter or slot leaves its range,
\* whatever the guest computes.
THEOREM TypeCorrect == Spec => []TypeOK
<1>1. TypeInv => TypeOK
  BY DEF TypeInv
<1> QED
  BY <1>1, TypeInvariant, PTL
----------------------------------------------------------------------------
(* The cache discipline.                                                   *)

\* What each phase remembers: the block being collected has no end yet; a block about to
\* run begins at the guest's pc; an interpreted block is not hot; code is a hot block's.
PhaseInv ==
  /\ phase = "collect" /\ fault = "none" =>
       /\ \A i \in 1 .. Len(Block.insns) : ~isTerminator(Block.insns[i].opc)
       /\ m_config.singleStep => Len(Block.insns) = 0
  /\ phase \in {"collect", "block"} => cpu.pc = bbPc
  /\ phase = "interp" /\ HasTranslator => Block.num_exec < m_config.execThreshold
  /\ phase = "code" =>
       /\ bbPc \in DOMAIN m_cacheBB
       /\ HasTranslator
       /\ Block.num_exec = m_config.execThreshold

CacheInv ==
  /\ BlockShape
  /\ TbMatchesBlock
  /\ CounterStopsAtThreshold
  /\ PcFollowsBlock
  /\ PhaseInv

LEMMA InitCache == Init => CacheInv
  BY DEF Init, CacheInv, BlockShape, TbMatchesBlock, CounterStopsAtThreshold, PcFollowsBlock,
     PhaseInv, NullEntry, TbSlot

\* Nothing in CacheInv looks at more than these, and a fault only relaxes it.
LEMMA CacheFramed ==
  ASSUME CacheInv, fault' = fault \/ fault' # "none",
         UNCHANGED <<m_config, m_translator, m_cacheBB, m_tbCache, cpu, phase, bbPc, pos, code, hostPc>>
  PROVE  CacheInv'
<1>1. BlockShape' /\ TbMatchesBlock'
  BY DEF CacheInv, BlockShape, TbMatchesBlock, Complete, HasTranslator
<1>2. CounterStopsAtThreshold' /\ PcFollowsBlock'
  BY DEF CacheInv, CounterStopsAtThreshold, HasTranslator, PcFollowsBlock, Running, GuestPc, Block
<1>3. PhaseInv'
  BY DEF CacheInv, PhaseInv, Block, HasTranslator
<1> QED
  BY <1>1, <1>2, <1>3 DEF CacheInv

\* The first instruction of a block is at the block's address.
LEMMA FirstAddress == ASSUME NEW a \in Word PROVE ToWord(a + kWordSize * (1 - 1)) = a
<1>1. a % WordMod = a
  BY ModsOrdered DEF Word
<1>2. a + kWordSize * (1 - 1) = a
  BY ModsOrdered DEF Word, kWordSize
<1> QED
  BY <1>1, <1>2 DEF ToWord

\* The instruction behind the n-th is one word on, wrapping round as addresses do.
LEMMA NextAddress ==
  ASSUME NEW a \in Word, NEW n \in Nat
  PROVE  ToWord(ToWord(a + kWordSize * (n - 1)) + kWordSize) = ToWord(a + kWordSize * ((n + 1) - 1))
<1> DEFINE b == a + kWordSize * (n - 1)
<1>1. b \in Int /\ b + kWordSize = a + kWordSize * ((n + 1) - 1)
  BY ModsOrdered DEF Word, kWordSize
<1> HIDE DEF b
<1>2. ToWord(ToWord(b) + kWordSize) = ToWord(b + kWordSize)
  BY <1>1, ModSum, ModsOrdered DEF ToWord, kWordSize
<1> QED
  BY <1>1, <1>2 DEF b

\* Only the last instruction of a block can leave its straight line.
LEMMA InnerAdvances ==
  ASSUME BlockShape, NEW a \in DOMAIN m_cacheBB, NEW i \in Nat,
         i > 0, Len(m_cacheBB[a].insns) \in Nat, i < Len(m_cacheBB[a].insns)
  PROVE  ~changesPC(m_cacheBB[a].insns[i].opc)
<1>1. i \in 1 .. Len(m_cacheBB[a].insns) - 1
  OBVIOUS
<1>2. ~isTerminator(m_cacheBB[a].insns[i].opc)
  BY <1>1 DEF BlockShape
<1> QED
  BY <1>2 DEF isTerminator, changesPC

LEMMA RunCachedCache == ASSUME TypeInv, CacheInv, RunCached PROVE CacheInv'
<1> DEFINE e == m_tbCache[getHash(cpu.pc)]
<1>1. cpu.pc \in Word
  BY DEF TypeInv, TypeOK, CPUState
<1>2. /\ phase = "loop" /\ HasTranslator /\ e.gpa = cpu.pc /\ ~e.null
      /\ bbPc' = cpu.pc /\ hostPc' = cpu.pc /\ pos' = 1 /\ code' = e.code /\ phase' = "code"
      /\ UNCHANGED <<m_config, m_translator, m_cacheBB, m_tbCache, cpu, fault>>
  BY DEF RunCached, At, Call, engineVars, cacheVars, guestVars, lookupHits
<1>3. /\ cpu.pc \in DOMAIN m_cacheBB /\ e.code = m_cacheBB[cpu.pc].insns
      /\ m_cacheBB[cpu.pc].num_exec = m_config.execThreshold
  BY <1>1, <1>2, HashType DEF CacheInv, TbMatchesBlock, Complete
<1> HIDE DEF e
<1>4. BlockShape' /\ TbMatchesBlock' /\ CounterStopsAtThreshold'
  BY <1>2 DEF CacheInv, BlockShape, TbMatchesBlock, Complete, CounterStopsAtThreshold,
     HasTranslator
<1>5. PcFollowsBlock'
  <2>1. Len(m_cacheBB[cpu.pc].insns) \in Nat
    BY <1>3 DEF TypeInv, TypeOK, BBInfo
  <2> QED
    BY <1>1, <1>2, <1>3, <2>1, FirstAddress DEF PcFollowsBlock, GuestPc, Running, Block
<1>6. PhaseInv'
  BY <1>2, <1>3 DEF PhaseInv, Block, HasTranslator
<1> QED
  BY <1>4, <1>5, <1>6 DEF CacheInv

LEMMA NewBlockCache == ASSUME TypeInv, CacheInv, NewBlock PROVE CacheInv'
<1> DEFINE bb == [insns |-> <<>>, num_exec |-> 0]
<1>1. /\ phase = "loop" /\ cpu.pc \notin DOMAIN m_cacheBB
      /\ SetBlock(cpu.pc, bb) /\ phase' = "collect" /\ bbPc' = cpu.pc
      /\ UNCHANGED <<m_config, m_translator, m_tbCache, cpu, fault>>
  BY DEF NewBlock, MustLookUpBlock, At, engineVars, guestVars
<1>2. /\ DOMAIN m_cacheBB' = DOMAIN m_cacheBB \cup {cpu.pc}
      /\ m_cacheBB'[cpu.pc] = bb
      /\ \A x \in DOMAIN m_cacheBB : m_cacheBB'[x] = m_cacheBB[x]
  BY <1>1 DEF SetBlock
<1>3. bb.insns = <<>> /\ bb.num_exec = 0 /\ Len(<<>>) = 0
  OBVIOUS
<1> HIDE DEF bb
<1>4. BlockShape'
  BY <1>1, <1>2, <1>3 DEF CacheInv, BlockShape, Complete
<1>5. TbMatchesBlock'
  BY <1>1, <1>2 DEF CacheInv, TbMatchesBlock, Complete, HasTranslator
<1>6. CounterStopsAtThreshold'
  <2>1. m_config.execThreshold \in Nat
    BY SizeAssumption DEF TypeInv, TypeOK, Config, NumExec
  <2> QED
    BY <1>1, <1>2, <1>3, <2>1 DEF CacheInv, CounterStopsAtThreshold, HasTranslator
<1>7. PcFollowsBlock'
  BY <1>1 DEF PcFollowsBlock
<1>8. PhaseInv'
  BY <1>1, <1>2, <1>3 DEF PhaseInv, Block
<1> QED
  BY <1>4, <1>5, <1>6, <1>7, <1>8 DEF CacheInv

LEMMA CollectInsnCache == ASSUME TypeInv, CacheInv, CollectInsn PROVE CacheInv'
<1> DEFINE insn == Decode[Fetched]
           bb == [Block EXCEPT !.insns = Append(@, insn)]
<1>1. /\ phase = "collect" /\ fault = "none" /\ SetBlock(bbPc, bb)
      /\ phase' = IF m_config.singleStep \/ isTerminator(insn.opc) THEN "block" ELSE "collect"
      /\ UNCHANGED <<m_config, m_translator, m_tbCache, cpu, fault, bbPc>>
  BY DEF CollectInsn, At, engineVars, guestVars
<1>2. insn \in Instruction /\ Block \in BBInfo /\ bbPc \in DOMAIN m_cacheBB
  BY <1>1, BlockType, DecodeAssumption DEF CollectInsn, TypeInv
<1>3. /\ DOMAIN m_cacheBB' = DOMAIN m_cacheBB
      /\ m_cacheBB'[bbPc] = bb
      /\ \A x \in DOMAIN m_cacheBB \ {bbPc} : m_cacheBB'[x] = m_cacheBB[x]
  BY <1>1, <1>2 DEF SetBlock
<1> HIDE DEF insn
<1>4. /\ bb.num_exec = Block.num_exec
      /\ Len(Block.insns) \in Nat /\ Len(bb.insns) = Len(Block.insns) + 1
      /\ bb.insns[Len(bb.insns)] = insn
      /\ \A i \in 1 .. Len(Block.insns) : bb.insns[i] = Block.insns[i]
  BY <1>2 DEF BBInfo
<1> HIDE DEF bb
<1>5. /\ \A i \in 1 .. Len(bb.insns) - 1 : ~isTerminator(bb.insns[i].opc)
      /\ m_config.singleStep => Len(bb.insns) = 1
  BY <1>1, <1>4 DEF CacheInv, PhaseInv
<1>6. BlockShape'
  <2> SUFFICES ASSUME NEW a \in DOMAIN m_cacheBB'
               PROVE  LET insns == m_cacheBB'[a].insns
                      IN  /\ \A i \in 1 .. Len(insns) - 1 : ~isTerminator(insns[i].opc)
                          /\ m_config.singleStep => Len(insns) <= 1
                          /\ IF Complete(a)'
                             THEN /\ Len(insns) > 0
                                  /\ m_config.singleStep \/ isTerminator(insns[Len(insns)].opc)
                             ELSE m_config.singleStep => Len(insns) = 0 \/ fault' # "none"
    BY <1>1 DEF BlockShape
  <2>1. CASE a = bbPc
    BY <2>1, <1>1, <1>3, <1>4, <1>5 DEF Complete
  <2>2. CASE a # bbPc
    BY <2>2, <1>1, <1>3 DEF CacheInv, BlockShape, Complete
  <2> QED
    BY <2>1, <2>2
<1>7. TbMatchesBlock'
  BY <1>1, <1>3 DEF CacheInv, TbMatchesBlock, Complete, HasTranslator
<1>8. CounterStopsAtThreshold'
  BY <1>1, <1>2, <1>3, <1>4 DEF CacheInv, CounterStopsAtThreshold, HasTranslator, Block
<1>9. PcFollowsBlock'
  BY <1>1 DEF PcFollowsBlock
<1>10. PhaseInv'
  <2>1. cpu'.pc = bbPc'
    BY <1>1 DEF CacheInv, PhaseInv
  <2>2. phase' = "collect" => /\ ~isTerminator(insn.opc) /\ ~m_config.singleStep
    BY <1>1
  <2>3. phase' = "collect" => \A i \in 1 .. Len(bb.insns) : ~isTerminator(bb.insns[i].opc)
    BY <2>2, <1>4, <1>5
  <2> QED
    BY <1>1, <1>3, <2>1, <2>2, <2>3 DEF PhaseInv, Block
<1> QED
  BY <1>6, <1>7, <1>8, <1>9, <1>10 DEF CacheInv

LEMMA FindBlockCache == ASSUME TypeInv, CacheInv, FindBlock PROVE CacheInv'
<1>1. /\ phase = "loop" /\ phase' = "block" /\ bbPc' = cpu.pc
      /\ UNCHANGED <<m_config, m_translator, m_cacheBB, m_tbCache, cpu, fault>>
  BY DEF FindBlock, MustLookUpBlock, At, engineVars, cacheVars, guestVars
<1>2. BlockShape' /\ TbMatchesBlock' /\ CounterStopsAtThreshold'
  BY <1>1 DEF CacheInv, BlockShape, TbMatchesBlock, Complete, CounterStopsAtThreshold,
     HasTranslator
<1>3. PcFollowsBlock' /\ PhaseInv'
  BY <1>1 DEF PcFollowsBlock, PhaseInv
<1> QED
  BY <1>2, <1>3 DEF CacheInv

LEMMA TranslateCache == ASSUME TypeInv, CacheInv, Translate PROVE CacheInv'
<1>1. /\ phase = "block" /\ Hot /\ phase' = "code"
      /\ hostPc' = cpu.pc /\ pos' = 1 /\ code' = Block.insns
      /\ UNCHANGED <<m_config, m_translator, m_cacheBB, m_tbCache, cpu, fault, bbPc>>
  BY DEF Translate, At, Call, engineVars, cacheVars, guestVars
<1>2. bbPc \in DOMAIN m_cacheBB /\ bbPc \in Word /\ cpu.pc = bbPc
  BY <1>1 DEF TypeInv, TypeOK, CacheInv, PhaseInv
<1>3. Block.num_exec = m_config.execThreshold
  <2>1. Block.num_exec <= m_config.execThreshold
    BY <1>1, <1>2 DEF CacheInv, CounterStopsAtThreshold, Block, Hot
  <2>2. Block.num_exec \in Nat /\ m_config.execThreshold \in Nat
    BY <1>1, BlockType, SizeAssumption DEF TypeInv, TypeOK, Config, NumExec
  <2> QED
    BY <1>1, <2>1, <2>2 DEF Hot
<1>4. BlockShape' /\ TbMatchesBlock' /\ CounterStopsAtThreshold'
  BY <1>1 DEF CacheInv, BlockShape, TbMatchesBlock, Complete, CounterStopsAtThreshold,
     HasTranslator
<1>5. PcFollowsBlock'
  <2>1. Len(Block.insns) \in Nat
    BY <1>1, BlockType
  <2> QED
    BY <1>1, <1>2, <2>1, FirstAddress DEF PcFollowsBlock, GuestPc, Running, Block
<1>6. PhaseInv'
  BY <1>1, <1>2, <1>3 DEF PhaseInv, Block, HasTranslator, Hot
<1> QED
  BY <1>4, <1>5, <1>6 DEF CacheInv

LEMMA InterpretCache == ASSUME TypeInv, CacheInv, Interpret PROVE CacheInv'
<1>1. /\ phase = "block" /\ ~Hot /\ phase' = "interp" /\ pos' = 1
      /\ UNCHANGED <<m_config, m_translator, m_cacheBB, m_tbCache, cpu, fault, bbPc>>
  BY DEF Interpret, At, engineVars, cacheVars, guestVars
<1>2. bbPc \in DOMAIN m_cacheBB /\ bbPc \in Word /\ cpu.pc = bbPc
  BY <1>1 DEF TypeInv, TypeOK, CacheInv, PhaseInv
<1>3. HasTranslator => Block.num_exec < m_config.execThreshold
  <2>1. Block.num_exec \in Nat /\ m_config.execThreshold \in Nat
    BY <1>1, BlockType, SizeAssumption DEF TypeInv, TypeOK, Config, NumExec
  <2> QED
    BY <1>1, <2>1 DEF Hot
<1>4. BlockShape' /\ TbMatchesBlock' /\ CounterStopsAtThreshold'
  BY <1>1 DEF CacheInv, BlockShape, TbMatchesBlock, Complete, CounterStopsAtThreshold,
     HasTranslator
<1>5. PcFollowsBlock'
  <2>1. Len(Block.insns) \in Nat
    BY <1>1, BlockType
  <2> QED
    BY <1>1, <1>2, <2>1, FirstAddress DEF PcFollowsBlock, GuestPc, Running, Block
<1>6. PhaseInv'
  BY <1>1, <1>3 DEF PhaseInv, Block, HasTranslator
<1> QED
  BY <1>4, <1>5, <1>6 DEF CacheInv

LEMMA InterpretInsnCache == ASSUME TypeInv, CacheInv, InterpretInsn PROVE CacheInv'
<1> DEFINE insn == Block.insns[pos]
           out == Execute(insn, cpu, mem)
<1>1. /\ phase = "interp" /\ fault = "none" /\ pos <= Len(Block.insns)
      /\ fault' = out.trap
      /\ IF out.trap = "none"
         THEN cpu' = [out.cpu EXCEPT !.icount = (@ + 1) % IcountMod] /\ pos' = pos + 1
         ELSE cpu' = out.cpu /\ pos' = pos
      /\ UNCHANGED <<m_config, m_translator, m_cacheBB, m_tbCache, phase, bbPc>>
  BY DEF InterpretInsn, At, engineVars, cacheVars
<1>2. /\ bbPc \in DOMAIN m_cacheBB /\ bbPc \in Word /\ pos \in Nat /\ pos > 0
      /\ cpu \in CPUState /\ mem \in Memory
      /\ Block.insns \in Seq(Instruction) /\ Len(Block.insns) \in Nat
  BY <1>1, BlockType DEF TypeInv, TypeOK
<1>3. insn \in Instruction
  BY <1>1, <1>2
<1>4. out \in Orderly(insn, cpu, mem)
  BY <1>2, <1>3, ExecuteOrderly
<1>5. cpu.pc = ToWord(bbPc + kWordSize * (pos - 1))
  BY <1>1 DEF CacheInv, PcFollowsBlock, GuestPc, Running
<1>6. out.trap = "none" /\ pos < Len(Block.insns) => out.cpu.pc = ToWord(cpu.pc + kWordSize)
  <2>1. pos < Len(Block.insns) => ~changesPC(insn.opc)
    BY <1>2, InnerAdvances DEF CacheInv, Block
  <2> QED
    BY <2>1, <1>2, <1>3, ExecuteAdvances
<1> HIDE DEF insn, out
<1>7. BlockShape' /\ TbMatchesBlock' /\ CounterStopsAtThreshold'
  BY <1>1 DEF CacheInv, BlockShape, TbMatchesBlock, Complete, CounterStopsAtThreshold,
     HasTranslator
<1>8. PcFollowsBlock'
  <2>1. CASE out.trap = "none"
    <3>1. cpu'.pc = out.cpu.pc
      BY <1>1, <1>4, <2>1 DEF Orderly, Outcome, CPUState
    <3>2. pos' = pos + 1 /\ Block' = Block
      BY <1>1, <2>1 DEF Block
    <3>3. pos + 1 <= Len(Block.insns) => cpu'.pc = ToWord(bbPc + kWordSize * ((pos + 1) - 1))
      BY <1>2, <1>5, <1>6, <2>1, <3>1, NextAddress
    <3> QED
      BY <1>1, <1>2, <3>2, <3>3 DEF PcFollowsBlock, GuestPc, Running
  <2>2. CASE out.trap # "none"
    <3>1. out.cpu = cpu
      BY <1>4, <2>2, OrderlyStops
    <3>2. cpu' = cpu /\ pos' = pos
      BY <1>1, <2>2, <3>1
    <3>3. Block' = Block
      BY <1>1 DEF Block
    <3> QED
      BY <1>1, <3>2, <3>3 DEF CacheInv, PcFollowsBlock, GuestPc, Running
  <2> QED
    BY <2>1, <2>2
<1>9. PhaseInv'
  BY <1>1 DEF CacheInv, PhaseInv, Block, HasTranslator
<1> QED
  BY <1>7, <1>8, <1>9 DEF CacheInv

LEMMA InterpretEndCache == ASSUME TypeInv, CacheInv, InterpretEnd PROVE CacheInv'
<1> DEFINE bb == [Block EXCEPT !.num_exec = (@ + 1) % NumExecMod]
<1>1. /\ phase = "interp" /\ SetBlock(bbPc, bb) /\ phase' = "loop"
      /\ UNCHANGED <<m_config, m_translator, m_tbCache, cpu, fault, bbPc>>
  BY DEF InterpretEnd, At, engineVars, guestVars, frameVars
<1>2. Block \in BBInfo /\ bbPc \in DOMAIN m_cacheBB
  BY <1>1, BlockType DEF TypeInv
<1>3. /\ DOMAIN m_cacheBB' = DOMAIN m_cacheBB
      /\ m_cacheBB'[bbPc] = bb
      /\ \A x \in DOMAIN m_cacheBB \ {bbPc} : m_cacheBB'[x] = m_cacheBB[x]
  BY <1>1, <1>2 DEF SetBlock
<1>4. bb.insns = Block.insns
  BY <1>2 DEF BBInfo
<1>5. HasTranslator => /\ Block.num_exec < m_config.execThreshold
                       /\ bb.num_exec <= m_config.execThreshold
  <2>1. /\ Block.num_exec \in Nat /\ m_config.execThreshold \in Nat
        /\ m_config.execThreshold < NumExecMod
    BY <1>2, SizeAssumption DEF TypeInv, TypeOK, BBInfo, Config, NumExec
  <2>2. bb.num_exec = (Block.num_exec + 1) % NumExecMod
    BY <1>2 DEF BBInfo
  <2>3. HasTranslator => Block.num_exec < m_config.execThreshold
    BY <1>1 DEF CacheInv, PhaseInv
  <2>4. HasTranslator => (Block.num_exec + 1) % NumExecMod = Block.num_exec + 1
    BY <2>1, <2>3, SizeAssumption
  <2> QED
    BY <2>1, <2>2, <2>3, <2>4
<1> HIDE DEF bb
<1>6. BlockShape'
  <2>1. \A a \in DOMAIN m_cacheBB : m_cacheBB'[a].insns = m_cacheBB[a].insns
    BY <1>3, <1>4 DEF Block
  <2> QED
    BY <2>1, <1>1, <1>3 DEF CacheInv, BlockShape, Complete
<1>7. TbMatchesBlock'
  <2>1. \A s \in TbSlot : ~m_tbCache[s].null => m_tbCache[s].gpa # bbPc
    <3>1. m_config.execThreshold \in Nat /\ Block.num_exec \in Nat
      BY <1>2, SizeAssumption DEF TypeInv, TypeOK, BBInfo, Config, NumExec
    <3> QED
      BY <1>5, <3>1 DEF CacheInv, TbMatchesBlock, Block
  <2> QED
    BY <2>1, <1>1, <1>3 DEF CacheInv, TbMatchesBlock, Complete, HasTranslator
<1>8. CounterStopsAtThreshold'
  BY <1>1, <1>3, <1>5 DEF CacheInv, CounterStopsAtThreshold, HasTranslator
<1>9. PcFollowsBlock' /\ PhaseInv'
  BY <1>1 DEF PcFollowsBlock, PhaseInv
<1> QED
  BY <1>6, <1>7, <1>8, <1>9 DEF CacheInv

LEMMA CodeInsnCache == ASSUME TypeInv, CacheInv, CodeInsn PROVE CacheInv'
<1> DEFINE insn == code[pos]
           before == RunningOn
<1>0. PICK out \in After(m_translator, insn, before, mem) : Leaves(out)
  BY CodeInsnRuns
<1>1. /\ phase = "code" /\ fault = "none" /\ pos <= Len(code)
      /\ hostPc' = out.cpu.pc
      /\ pos' = IF out.trap = "none" THEN pos + 1 ELSE pos
      /\ UNCHANGED <<m_config, m_translator, m_cacheBB, m_tbCache, phase, bbPc, code>>
  BY <1>0, CodeInsnRuns DEF Leaves
<1>2. /\ bbPc \in DOMAIN m_cacheBB /\ bbPc \in Word /\ pos \in Nat /\ pos > 0
      /\ before.pc = hostPc
      /\ code \in Seq(Instruction) /\ Len(code) \in Nat /\ code = Block.insns
  BY <1>1, CodeInsnRuns DEF TypeInv, TypeOK, CacheInv, PhaseInv, PcFollowsBlock
<1>3. out.trap = "none" /\ ~changesPC(insn.opc) => out.cpu.pc = ToWord(hostPc + kWordSize)
  BY <1>0, <1>2, CodeInsnRuns, AfterOrderly
<1>4. out \in Orderly(insn, before, mem)
  BY <1>0, CodeInsnRuns, AfterOrderly
<1>5. hostPc = ToWord(bbPc + kWordSize * (pos - 1))
  BY <1>1 DEF CacheInv, PcFollowsBlock, GuestPc, Running
<1> HIDE DEF before
<1>6. out.trap = "none" /\ pos < Len(code) => out.cpu.pc = ToWord(hostPc + kWordSize)
  <2>1. pos < Len(code) => ~changesPC(insn.opc)
    BY <1>2, InnerAdvances DEF CacheInv, Block
  <2> QED
    BY <2>1, <1>3
<1> HIDE DEF insn
<1>7. BlockShape' /\ TbMatchesBlock' /\ CounterStopsAtThreshold'
  BY <1>1 DEF CacheInv, BlockShape, TbMatchesBlock, Complete, CounterStopsAtThreshold,
     HasTranslator
<1>8. PcFollowsBlock'
  <2>1. Block' = Block
    BY <1>1 DEF Block
  <2>2. CASE out.trap = "none"
    <3>1. pos + 1 <= Len(code) => hostPc' = ToWord(bbPc + kWordSize * ((pos + 1) - 1))
      BY <1>1, <1>2, <1>5, <1>6, <2>2, NextAddress
    <3> QED
      BY <1>1, <1>2, <2>1, <2>2, <3>1 DEF PcFollowsBlock, GuestPc, Running
  <2>3. CASE out.trap # "none"
    <3>1. out.cpu = before
      BY <1>4, <2>3, OrderlyStops
    <3>2. hostPc' = hostPc
      BY <1>1, <1>2, <3>1
    <3> QED
      BY <1>1, <1>2, <2>1, <2>3, <3>2 DEF CacheInv, PcFollowsBlock, GuestPc, Running
  <2> QED
    BY <2>2, <2>3
<1>9. PhaseInv'
  BY <1>1 DEF CacheInv, PhaseInv, Block, HasTranslator
<1> QED
  BY <1>7, <1>8, <1>9 DEF CacheInv

LEMMA CodeReturnCache == ASSUME TypeInv, CacheInv, CodeReturn PROVE CacheInv'
<1> DEFINE e == [null |-> FALSE, code |-> code, gpa |-> bbPc]
<1>1. /\ phase = "code" /\ phase' = "loop"
      /\ m_tbCache' = IF fresh THEN [m_tbCache EXCEPT ![getHash(bbPc)] = e] ELSE m_tbCache
      /\ UNCHANGED <<m_config, m_translator, m_cacheBB, fault, bbPc>>
  BY DEF CodeReturn, At, engineVars, frameVars
<1>2. /\ bbPc \in Word /\ bbPc \in DOMAIN m_cacheBB /\ HasTranslator
      /\ code = Block.insns /\ Block.num_exec = m_config.execThreshold
      /\ m_tbCache \in [TbSlot -> TbEntry] /\ getHash(bbPc) \in TbSlot
  BY <1>1, HashType DEF TypeInv, TypeOK, CacheInv, PhaseInv, PcFollowsBlock
<1>3. BlockShape' /\ CounterStopsAtThreshold'
  BY <1>1 DEF CacheInv, BlockShape, Complete, CounterStopsAtThreshold, HasTranslator
<1>4. TbMatchesBlock'
  <2>1. ~e.null /\ e.code = code /\ e.gpa = bbPc
    OBVIOUS
  <2> HIDE DEF e
  <2> DEFINE Matches(entry, s) ==
               /\ getHash(entry.gpa) = s
               /\ entry.gpa \in DOMAIN m_cacheBB
               /\ entry.code = m_cacheBB[entry.gpa].insns
               /\ m_cacheBB[entry.gpa].num_exec = m_config.execThreshold
  <2>2. Matches(e, getHash(bbPc))
    BY <1>2, <2>1 DEF Block
  <2>3. \A s \in TbSlot : ~m_tbCache[s].null => Matches(m_tbCache[s], s)
    BY DEF CacheInv, TbMatchesBlock, Complete
  <2> HIDE DEF Matches
  <2>4. \A s \in TbSlot : \/ m_tbCache'[s] = m_tbCache[s]
                          \/ s = getHash(bbPc) /\ m_tbCache'[s] = e
    <3>1. CASE fresh
      BY <1>1, <1>2, <3>1
    <3>2. CASE ~fresh
      BY <1>1, <3>2
    <3> QED
      BY <3>1, <3>2
  <2>5. \A s \in TbSlot : ~m_tbCache'[s].null => Matches(m_tbCache'[s], s)
    BY <2>2, <2>3, <2>4
  <2>6. HasTranslator' /\ \A a \in DOMAIN m_cacheBB : Complete(a)'
    BY <1>1, <1>2 DEF Complete, HasTranslator
  <2>7. \A s \in TbSlot : ~m_tbCache'[s].null => m_tbCache'[s].gpa \in DOMAIN m_cacheBB
    BY <2>5 DEF Matches
  <2> QED
    BY <1>1, <2>5, <2>6, <2>7 DEF TbMatchesBlock, Matches, Complete, HasTranslator
<1>5. PcFollowsBlock' /\ PhaseInv'
  BY <1>1 DEF PcFollowsBlock, PhaseInv
<1> QED
  BY <1>3, <1>4, <1>5 DEF CacheInv

LEMMA RunReturnsCache == ASSUME TypeInv, CacheInv, RunReturns PROVE CacheInv'
<1>1. /\ phase = "loop" /\ phase' = "exited"
      /\ UNCHANGED <<m_config, m_translator, m_cacheBB, m_tbCache, fault, bbPc>>
  BY DEF RunReturns, At, engineVars, cacheVars, frameVars
<1>2. BlockShape' /\ TbMatchesBlock' /\ CounterStopsAtThreshold'
  BY <1>1 DEF CacheInv, BlockShape, TbMatchesBlock, Complete, CounterStopsAtThreshold,
     HasTranslator
<1>3. PcFollowsBlock' /\ PhaseInv'
  BY <1>1 DEF PcFollowsBlock, PhaseInv
<1> QED
  BY <1>2, <1>3 DEF CacheInv

LEMMA NextCache == TypeInv /\ CacheInv /\ [Next]_vars => CacheInv'
<1> SUFFICES ASSUME TypeInv, CacheInv, [Next]_vars PROVE CacheInv'
  OBVIOUS
<1>1. CASE CollectUndecodable \/ CollectOutOfMemory \/ CollectWild \/ TranslateFails
  <2>1. /\ fault' # "none"
        /\ UNCHANGED <<m_config, m_translator, m_cacheBB, m_tbCache, cpu, phase, bbPc, pos, code,
                       hostPc>>
    BY <1>1 DEF CollectUndecodable, CollectOutOfMemory, CollectWild, TranslateFails, Throw,
       engineVars, cacheVars, guestVars, frameVars
  <2> QED
    BY <2>1, CacheFramed
<1>2. CASE UNCHANGED vars
  BY <1>2, CacheFramed DEF vars, engineVars, cacheVars, guestVars, frameVars
<1> QED
  BY <1>1, <1>2, RunCachedCache, FindBlockCache, NewBlockCache, CollectInsnCache, TranslateCache,
     InterpretCache, InterpretInsnCache, InterpretEndCache, CodeInsnCache, CodeReturnCache,
     RunReturnsCache
     DEF Next, Collect, RunBlock, RunCode, Terminated

\* CacheInv is invariant.
THEOREM CacheInvariant == Spec => []CacheInv
  BY InitCache, NextCache, TypeInvariant, PTL DEF Spec

\* Cached blocks are well shaped: never empty, ended by their first terminator.
THEOREM BlocksShaped == Spec => []BlockShape
<1>1. CacheInv => BlockShape
  BY DEF CacheInv
<1> QED
  BY <1>1, CacheInvariant, PTL

\* A translation found in the cache is always that of the whole block at the guest's pc,
\* whatever addresses collide in its slot.
THEOREM TranslationsMatch == Spec => []TbMatchesBlock
<1>1. CacheInv => TbMatchesBlock
  BY DEF CacheInv
<1> QED
  BY <1>1, CacheInvariant, PTL

\* Execution counters never pass the threshold, and so never wrap round.
THEOREM CountersStop == Spec => []CounterStopsAtThreshold
<1>1. CacheInv => CounterStopsAtThreshold
  BY DEF CacheInv
<1> QED
  BY <1>1, CacheInvariant, PTL

\* Interpreted or translated, an instruction runs at the address it was decoded from.
THEOREM PcFollows == Spec => []PcFollowsBlock
<1>1. CacheInv => PcFollowsBlock
  BY DEF CacheInv
<1> QED
  BY <1>1, CacheInvariant, PTL

----------------------------------------------------------------------------
(* After the exit system call.                                             *)

\* Once finished, the guest is between blocks or behind the last instruction of one.
FinishedInv ==
  cpu.finished =>
    \/ phase \in {"loop", "exited"}
    \/ phase = "interp" /\ pos > Len(Block.insns)
    \/ phase = "code" /\ pos > Len(code)

StopInv == TypeInv /\ CacheInv /\ FinishedInv

\* Only the last instruction of a block can be the system call.
LEMMA InnerGoesOn ==
  ASSUME BlockShape, NEW a \in DOMAIN m_cacheBB, NEW i \in Nat,
         i > 0, Len(m_cacheBB[a].insns) \in Nat, i < Len(m_cacheBB[a].insns)
  PROVE  m_cacheBB[a].insns[i].opc # "ECALL"
<1>1. i \in 1 .. Len(m_cacheBB[a].insns) - 1
  OBVIOUS
<1>2. ~isTerminator(m_cacheBB[a].insns[i].opc)
  BY <1>1 DEF BlockShape
<1> QED
  BY <1>2 DEF isTerminator

LEMMA InterpretInsnFinished == ASSUME StopInv, InterpretInsn PROVE FinishedInv'
<1> DEFINE insn == Block.insns[pos]
           out == Execute(insn, cpu, mem)
<1>1. /\ phase = "interp" /\ pos <= Len(Block.insns)
      /\ IF out.trap = "none"
         THEN cpu' = [out.cpu EXCEPT !.icount = (@ + 1) % IcountMod] /\ pos' = pos + 1
         ELSE cpu' = out.cpu /\ pos' = pos
      /\ UNCHANGED <<m_cacheBB, phase, bbPc>>
  BY DEF InterpretInsn, At, cacheVars
<1>2. /\ bbPc \in DOMAIN m_cacheBB /\ pos \in Nat /\ pos > 0
      /\ cpu \in CPUState /\ mem \in Memory
      /\ Block.insns \in Seq(Instruction) /\ Len(Block.insns) \in Nat
  BY <1>1, BlockType DEF StopInv, TypeInv, TypeOK
<1>3. ~cpu.finished
  BY <1>1, <1>2 DEF StopInv, FinishedInv
<1>4. insn \in Instruction
  BY <1>1, <1>2
<1>5. out \in Orderly(insn, cpu, mem)
  BY <1>2, <1>4, ExecuteOrderly
<1>6. pos < Len(Block.insns) => insn.opc # "ECALL"
  BY <1>2, InnerGoesOn DEF StopInv, CacheInv, Block
<1> HIDE DEF insn, out
<1>7. CASE out.trap = "none"
  <2>1. cpu'.finished = out.cpu.finished /\ pos' = pos + 1 /\ Block' = Block
    BY <1>1, <1>5, <1>7 DEF Orderly, Outcome, CPUState, Block
  <2>2. pos < Len(Block.insns) => ~out.cpu.finished
    BY <1>3, <1>5, <1>6, OrderlyRuns
  <2> QED
    BY <1>1, <1>2, <2>1, <2>2 DEF FinishedInv
<1>8. CASE out.trap # "none"
  <2>1. cpu' = cpu
    BY <1>1, <1>5, <1>8, OrderlyStops
  <2> QED
    BY <1>3, <2>1 DEF FinishedInv
<1> QED
  BY <1>7, <1>8

LEMMA CodeInsnFinished == ASSUME StopInv, CodeInsn PROVE FinishedInv'
<1> DEFINE insn == code[pos]
           before == RunningOn
<1>0. TypeInv
  BY DEF StopInv
<1>a. PICK out \in After(m_translator, insn, before, mem) : Leaves(out)
  BY <1>0, CodeInsnRuns
<1>1. /\ phase = "code" /\ pos <= Len(code)
      /\ IF out.trap = "none"
         THEN /\ cpu' = IF CountsEachInsn
                        THEN [StoredCpu(out) EXCEPT !.icount = (@ + 1) % IcountMod]
                        ELSE StoredCpu(out)
              /\ pos' = pos + 1
         ELSE cpu' = StoredCpu(out) /\ pos' = pos
      /\ UNCHANGED <<phase, code>>
  BY <1>0, <1>a, CodeInsnRuns DEF Leaves
<1>2. /\ bbPc \in DOMAIN m_cacheBB /\ pos \in Nat /\ pos > 0
      /\ code \in Seq(Instruction) /\ Len(code) \in Nat /\ code = Block.insns
  BY <1>1 DEF StopInv, TypeInv, TypeOK, CacheInv, PhaseInv, PcFollowsBlock
<1>3. ~before.finished
  BY <1>0, <1>1, <1>2, CodeInsnRuns DEF StopInv, FinishedInv
<1>5. out \in Orderly(insn, before, mem)
  BY <1>0, <1>a, CodeInsnRuns, AfterOrderly
<1>6. pos < Len(code) => insn.opc # "ECALL"
  BY <1>2, InnerGoesOn DEF StopInv, CacheInv, Block
<1> HIDE DEF insn, before
<1>7. out \in Outcome
  BY <1>5 DEF Orderly
<1>8. StoredCpu(out).finished = out.cpu.finished /\ StoredCpu(out) \in CPUState
  BY <1>0, <1>7, StoredType
<1>9. cpu'.finished = out.cpu.finished
  BY <1>1, <1>8 DEF CPUState
<1>10. CASE out.trap = "none"
  <2>1. pos' = pos + 1
    BY <1>1, <1>10
  <2>2. pos < Len(code) => ~out.cpu.finished
    BY <1>3, <1>5, <1>6, OrderlyRuns
  <2> QED
    BY <1>1, <1>2, <1>9, <2>1, <2>2 DEF FinishedInv
<1>11. CASE out.trap # "none"
  <2>1. out.cpu = before
    BY <1>5, <1>11, OrderlyStops
  <2> QED
    BY <1>3, <1>9, <2>1 DEF FinishedInv
<1> QED
  BY <1>10, <1>11

\* What the exit system call leaves to be kept.
GuestKept == cpu.finished => cpu'.regs = cpu.regs /\ mem' = mem /\ cpu'.exitCode = cpu.exitCode

LEMMA NextFinished == ASSUME StopInv, [Next]_vars PROVE FinishedInv' /\ GuestKept
<1>1. cpu \in CPUState
  BY DEF StopInv, TypeInv, TypeOK
<1>2. CASE RunCached \/ FindBlock \/ NewBlock \/ RunReturns
  BY <1>2 DEF RunCached, Call, FindBlock, MustLookUpBlock, NewBlock, RunReturns, At, guestVars,
     frameVars, FinishedInv, GuestKept
<1>3. CASE CollectInsn \/ Translate \/ Interpret
  <2>1. /\ phase \in {"collect", "block"} /\ UNCHANGED <<cpu, mem>>
    BY <1>3 DEF CollectInsn, Translate, Call, Interpret, At, guestVars
  <2> QED
    BY <2>1 DEF StopInv, FinishedInv, GuestKept
<1>4. CASE CollectUndecodable \/ CollectOutOfMemory \/ CollectWild \/ TranslateFails
           \/ UNCHANGED vars
  <2>1. UNCHANGED <<m_cacheBB, cpu, mem, phase, bbPc, pos, code>>
    BY <1>4 DEF CollectUndecodable, CollectOutOfMemory, CollectWild, TranslateFails, Throw, vars,
       engineVars, cacheVars, guestVars, frameVars
  <2> QED
    BY <2>1 DEF StopInv, FinishedInv, GuestKept, Block
<1>5. CASE InterpretInsn
  <2>1. phase = "interp" /\ pos <= Len(Block.insns) /\ pos \in Nat /\ Len(Block.insns) \in Nat
    BY <1>5, BlockType DEF InterpretInsn, At, StopInv, TypeInv, TypeOK
  <2>2. ~cpu.finished
    BY <2>1 DEF StopInv, FinishedInv
  <2> QED
    BY <1>5, <2>2, InterpretInsnFinished DEF GuestKept
<1>6. CASE CodeInsn
  <2>1. phase = "code" /\ pos <= Len(code) /\ pos \in Nat /\ Len(code) \in Nat
    BY <1>6 DEF CodeInsn, At, StopInv, TypeInv, TypeOK
  <2>2. ~cpu.finished
    BY <2>1 DEF StopInv, FinishedInv
  <2> QED
    BY <1>6, <2>2, CodeInsnFinished DEF GuestKept
<1>7. CASE InterpretEnd
  BY <1>7 DEF InterpretEnd, guestVars, FinishedInv, GuestKept
<1>8. CASE CodeReturn
  <2>1. /\ phase' = "loop" /\ mem' = mem
        /\ cpu' = [cpu EXCEPT !.pc = hostPc,
                              !.icount = IF CountsEachInsn THEN @ ELSE addIcount(Len(code))]
    BY <1>8 DEF CodeReturn
  <2> QED
    BY <1>1, <2>1 DEF FinishedInv, GuestKept, CPUState
<1> QED
  BY <1>2, <1>3, <1>4, <1>5, <1>6, <1>7, <1>8
     DEF Next, Collect, RunBlock, RunCode, Terminated

LEMMA InitFinished == Init => FinishedInv
  BY DEF Init, BootState, FinishedInv

THEOREM StopInvariant == Spec => []StopInv
<1>1. Init => FinishedInv
  BY InitFinished
<1>2. TypeInv /\ CacheInv /\ FinishedInv /\ [Next]_vars => FinishedInv'
  BY NextFinished DEF StopInv
<1>3. TypeInv /\ CacheInv /\ FinishedInv => StopInv
  BY DEF StopInv
<1> QED
  BY <1>1, <1>2, <1>3, TypeInvariant, CacheInvariant, PTL DEF Spec

\* No step runs a guest instruction once the guest has exited: the system call is the last
\* instruction of its block, and step looks at "finished" before it takes another block.
THEOREM ExitStops == Spec => ExitStopsGuest
<1>1. StopInv /\ [Next]_vars => [GuestKept]_vars
  BY NextFinished
<1>2. [GuestKept]_vars => [cpu.finished => cpu'.regs = cpu.regs /\ mem' = mem
                                           /\ cpu'.exitCode = cpu.exitCode]_vars
  BY DEF GuestKept
<1> QED
  BY <1>1, <1>2, StopInvariant, PTL DEF Spec, ExitStopsGuest
============================================================================
