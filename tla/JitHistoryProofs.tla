-------------------------- MODULE JitHistoryProofs --------------------------
(***************************************************************************)
(* JitEngine implements GuestMachine, and its history is exact, for every  *)
(* word width, program, backend, threshold and cache size.                 *)
(***************************************************************************)
EXTENDS JitHistory, JitEngineProofs, FiniteSetTheorems

----------------------------------------------------------------------------
(* The guest machine executes as the engine does.                          *)

\* GuestMachine counts in another modulus and has the same words and opcodes, ...
LEMMA GuestWords ==
  /\ Guest!kWordSize = kWordSize /\ Guest!HalfMod = HalfMod /\ Guest!WordMod = WordMod
  /\ Guest!Word = Word /\ Guest!Reg = Reg /\ Guest!Memory = Memory
  /\ Guest!AluRegOps = AluRegOps /\ Guest!AluImmOps = AluImmOps /\ Guest!BranchOps = BranchOps
  /\ Guest!LoadOps = LoadOps /\ Guest!StoreOps = StoreOps
  BY DEF Guest!kWordSize, kWordSize, Guest!HalfMod, HalfMod, Guest!WordMod, WordMod,
     Guest!Word, Word, Guest!Reg, Reg, Guest!Memory, Memory, Guest!Byte, Byte,
     Guest!AluRegOps, AluRegOps, Guest!AluImmOps, AluImmOps, Guest!BranchOps, BranchOps,
     Guest!LoadOps, LoadOps, Guest!StoreOps, StoreOps

LEMMA GuestArithmetic ==
  /\ \A n : Guest!ToWord(n) = ToWord(n)
  /\ \A opc, a, b : Guest!Taken(opc, a, b) <=> Taken(opc, a, b)
  /\ \A v, n : Guest!signExtend(v, n) = signExtend(v, n)
  /\ \A v, n : Guest!NthByte(v, n) = NthByte(v, n)
<1>1. \A n : Guest!ToWord(n) = ToWord(n)
  BY GuestWords DEF Guest!ToWord, ToWord
<1>2. \A a : Guest!Signed(a) = Signed(a)
  BY GuestWords DEF Guest!Signed, Signed
<1>3. \A a, b : Guest!signedLess(a, b) <=> signedLess(a, b)
  BY <1>2 DEF Guest!signedLess, signedLess
<1>4. \A opc, a, b : Guest!Taken(opc, a, b) <=> Taken(opc, a, b)
  BY <1>3 DEF Guest!Taken, Taken
<1>5. \A v, n : Guest!signExtend(v, n) = signExtend(v, n)
  BY GuestWords DEF Guest!signExtend, signExtend
<1>6. \A v, n : Guest!NthByte(v, n) = NthByte(v, n)
  BY GuestWords DEF Guest!NthByte, NthByte
<1> QED
  BY <1>1, <1>4, <1>5, <1>6

LEMMA GuestAccesses ==
  /\ \A a, n : Guest!InMapping(a, n) <=> InMapping(a, n)
  /\ \A m, a : Guest!ByteAt(m, a) = ByteAt(m, a) /\ Guest!HalfAt(m, a) = HalfAt(m, a)
               /\ Guest!WordAt(m, a) = WordAt(m, a)
  /\ \A m, a, v, n : Guest!WriteBytes(m, a, v, n) = WriteBytes(m, a, v, n)
  /\ \A opc : Guest!AccessSize(opc) = AccessSize(opc)
<1>1. \A a, n : Guest!InMapping(a, n) <=> InMapping(a, n)
  BY GuestWords DEF Guest!InMapping, InMapping
<1>2. \A m, a : Guest!ByteAt(m, a) = ByteAt(m, a) /\ Guest!HalfAt(m, a) = HalfAt(m, a)
  BY DEF Guest!ByteAt, ByteAt, Guest!HalfAt, HalfAt
<1>3. \A m, a : Guest!WordAt(m, a) = WordAt(m, a)
  BY <1>2, GuestWords DEF Guest!WordAt, WordAt
<1>4. \A m, a, v, n : Guest!WriteBytes(m, a, v, n) = WriteBytes(m, a, v, n)
  BY GuestWords, GuestArithmetic DEF Guest!WriteBytes, WriteBytes
<1>5. \A opc : Guest!AccessSize(opc) = AccessSize(opc)
  BY DEF Guest!AccessSize, AccessSize
<1> QED
  BY <1>1, <1>2, <1>3, <1>4, <1>5

\* ... and so the same handlers.
LEMMA GuestExecutes ==
  ASSUME NEW insn, NEW c, NEW m
  PROVE  Guest!Execute(insn, c, m) = Execute(insn, c, m)
<1>1. /\ \A d, r, v : Guest!setReg(d, r, v) = setReg(d, r, v)
      /\ \A d, v : Guest!setPC(d, v) = setPC(d, v)
      /\ \A d, n : Guest!Return(d, n) = Return(d, n)
      /\ \A d, n, why : Guest!Raise(d, n, why) = Raise(d, n, why)
  BY DEF Guest!setReg, setReg, Guest!setPC, setPC, Guest!Return, Return, Guest!Raise, Raise
<1>2. Guest!executeRegisterRegisterOp(insn, c, m) = executeRegisterRegisterOp(insn, c, m)
  BY <1>1 DEF Guest!executeRegisterRegisterOp, executeRegisterRegisterOp
<1>3. Guest!executeRegisterImmOp(insn, c, m) = executeRegisterImmOp(insn, c, m)
  BY <1>1 DEF Guest!executeRegisterImmOp, executeRegisterImmOp
<1>4. Guest!brHelper(insn, c, m) = brHelper(insn, c, m)
  BY <1>1, GuestArithmetic, GuestWords DEF Guest!brHelper, brHelper
<1>5. Guest!loadHelper(insn, c, m) = loadHelper(insn, c, m)
  BY <1>1, GuestAccesses, GuestArithmetic, GuestWords DEF Guest!loadHelper, loadHelper
<1>6. Guest!storeHelper(insn, c, m) = storeHelper(insn, c, m)
  BY <1>1, GuestAccesses, GuestArithmetic DEF Guest!storeHelper, storeHelper
<1>7. Guest!doLUI(insn, c, m) = doLUI(insn, c, m) /\ Guest!doAUIPC(insn, c, m) = doAUIPC(insn, c, m)
  BY <1>1, GuestArithmetic DEF Guest!doLUI, doLUI, Guest!doAUIPC, doAUIPC
<1>8. Guest!doJAL(insn, c, m) = doJAL(insn, c, m) /\ Guest!doJALR(insn, c, m) = doJALR(insn, c, m)
  BY <1>1, GuestArithmetic, GuestWords DEF Guest!doJAL, doJAL, Guest!doJALR, doJALR
<1>9. Guest!emulateSysCall(c, m) = emulateSysCall(c, m)
  BY <1>1 DEF Guest!emulateSysCall, emulateSysCall, Guest!doExit, doExit
<1>10. Guest!handler(insn, c, m) = handler(insn, c, m)
  BY <1>1, <1>2, <1>3, <1>4, <1>5, <1>6, <1>7, <1>8, <1>9, GuestWords
  DEF Guest!handler, handler
<1>11. Guest!changesPC(insn.opc) <=> changesPC(insn.opc)
  BY GuestWords DEF Guest!changesPC, changesPC
<1> QED
  BY <1>1, <1>10, <1>11, GuestArithmetic, GuestWords DEF Guest!Execute, Execute

\* Whether it fetches what memory holds or what it has held makes no difference to a handler.
LEMMA StrictExecutes ==
  ASSUME NEW insn, NEW c, NEW m
  PROVE  Strict!Execute(insn, c, m) = Execute(insn, c, m)
<1>1. Strict!Execute(insn, c, m) = Guest!Execute(insn, c, m)
  BY DEF Strict!Execute, Guest!Execute, Strict!setReg, Guest!setReg, Strict!setPC, Guest!setPC,
     Strict!Return, Guest!Return, Strict!Raise, Guest!Raise, Strict!executeRegisterRegisterOp,
     Guest!executeRegisterRegisterOp, Strict!executeRegisterImmOp, Guest!executeRegisterImmOp,
     Strict!brHelper, Guest!brHelper, Strict!loadHelper, Guest!loadHelper, Strict!storeHelper,
     Guest!storeHelper, Strict!doLUI, Guest!doLUI, Strict!doAUIPC, Guest!doAUIPC, Strict!doJAL,
     Guest!doJAL, Strict!doJALR, Guest!doJALR, Strict!emulateSysCall, Guest!emulateSysCall,
     Strict!doExit, Guest!doExit, Strict!handler, Guest!handler, Strict!changesPC,
     Guest!changesPC, Strict!ToWord, Guest!ToWord, Strict!Taken, Guest!Taken,
     Strict!signExtend, Guest!signExtend, Strict!NthByte, Guest!NthByte, Strict!Signed,
     Guest!Signed, Strict!signedLess, Guest!signedLess, Strict!InMapping, Guest!InMapping,
     Strict!ByteAt, Guest!ByteAt, Strict!HalfAt, Guest!HalfAt, Strict!WordAt, Guest!WordAt,
     Strict!WriteBytes, Guest!WriteBytes, Strict!AccessSize, Guest!AccessSize,
     Strict!kWordSize, Guest!kWordSize, Strict!HalfMod, Guest!HalfMod, Strict!WordMod,
     Guest!WordMod, Strict!Word, Guest!Word, Strict!Reg, Guest!Reg, Strict!Memory,
     Guest!Memory, Strict!Byte, Guest!Byte, Strict!AluRegOps, Guest!AluRegOps,
     Strict!AluImmOps, Guest!AluImmOps, Strict!BranchOps, Guest!BranchOps, Strict!LoadOps,
     Guest!LoadOps, Strict!StoreOps, Guest!StoreOps
<1> QED
  BY <1>1, GuestExecutes

LEMMA StrictWords ==
  /\ Strict!kWordSize = kWordSize /\ Strict!Word = Word /\ Strict!Reg = Reg /\ Strict!Memory = Memory
  /\ \A n : Strict!ToWord(n) = ToWord(n)
  /\ \A a, n : Strict!InMapping(a, n) <=> InMapping(a, n)
  /\ \A m, a : Strict!WordAt(m, a) = WordAt(m, a)
<1>1. /\ Strict!kWordSize = Guest!kWordSize /\ Strict!Word = Guest!Word /\ Strict!Reg = Guest!Reg
      /\ Strict!Memory = Guest!Memory
      /\ \A n : Strict!ToWord(n) = Guest!ToWord(n)
      /\ \A a, n : Strict!InMapping(a, n) <=> Guest!InMapping(a, n)
      /\ \A m, a : Strict!WordAt(m, a) = Guest!WordAt(m, a)
  BY DEF Strict!InMapping, Guest!InMapping, Strict!WordAt, Guest!WordAt, Strict!ByteAt,
     Guest!ByteAt, Strict!HalfAt, Guest!HalfAt, Strict!kWordSize, Guest!kWordSize,
     Strict!HalfMod, Guest!HalfMod, Strict!WordMod, Guest!WordMod, Strict!Word, Guest!Word,
     Strict!Byte, Guest!Byte, Strict!ToWord, Guest!ToWord, Strict!Reg, Guest!Reg,
     Strict!Memory, Guest!Memory
<1> QED
  BY <1>1, GuestWords, GuestArithmetic, GuestAccesses

\* The liberties are taken with the engine's own writes.
LEMMA GuestWrites ==
  /\ \A c, r, v : Guest!setReg(c, r, v) = setReg(c, r, v)
  /\ \A c, v : Guest!setPC(c, v) = setPC(c, v)
  /\ \A c, m : Guest!Return(c, m) = Return(c, m)
  /\ Guest!WordBits = WordBits
<1>1. Guest!WordBits = WordBits
  BY GuestWords DEF Guest!WordBits, WordBits
<1> QED
  BY <1>1 DEF Guest!setReg, setReg, Guest!setPC, setPC, Guest!Return, Return

----------------------------------------------------------------------------
(* Cached instructions come from words memory has held.                    *)

\* What memory holds now it has held, and nothing is held where no fetch succeeds.
HeldInv ==
  /\ held \in [Word -> SUBSET Word]
  /\ \A a \in FetchAddr : WordAt(mem, a) \in held[a]
  /\ \A a \in Word \ FetchAddr : held[a] = {}

\* The address decoded next is behind the instructions collected so far.
CollectInv ==
  /\ phase = "collect" => curAddr = ToWord(bbPc + kWordSize * Len(Block.insns))
  /\ \A a \in DOMAIN m_cacheBB : Len(m_cacheBB[a].insns) <= MaxBlockLen

HistoryInv == StopInv /\ HeldInv /\ CollectInv /\ BlocksWereText

LEMMA HistStepIsStep ==
  /\ HistInit => Init
  /\ [HistNext]_histVars => [Next]_vars
  BY DEF HistInit, HistNext, histVars

LEMMA FetchedIsWord ==
  ASSUME NEW m \in Memory, NEW a \in FetchAddr
  PROVE  a \in Word /\ WordAt(m, a) \in Word
  BY WordAtType DEF FetchAddr, kWordSize

LEMMA HoldingType ==
  ASSUME NEW m \in Memory, NEW h \in [Word -> SUBSET Word], \A a \in Word \ FetchAddr : h[a] = {}
  PROVE  /\ Holding(h, m) \in [Word -> SUBSET Word]
         /\ \A a \in FetchAddr : WordAt(m, a) \in Holding(h, m)[a]
         /\ \A a \in Word \ FetchAddr : Holding(h, m)[a] = {}
         /\ \A a \in Word : h[a] \subseteq Holding(h, m)[a]
<1>1. \A a \in FetchAddr : a \in Word /\ WordAt(m, a) \in Word
  BY FetchedIsWord
<1> QED
  BY <1>1 DEF Holding

LEMMA HeldGrows ==
  ASSUME HeldInv, mem' \in Memory, [HistNext]_histVars
  PROVE  HeldInv' /\ \A a \in Word : held[a] \subseteq held'[a]
<1>1. CASE mem' = mem
  <2>1. held' = held
    BY <1>1 DEF HistNext, histVars, historyVars
  <2> QED
    BY <1>1, <2>1 DEF HeldInv
<1>2. CASE mem' # mem
  <2>1. held' = Holding(held, mem')
    BY <1>2 DEF HistNext, histVars, vars, guestVars
  <2> QED
    BY <2>1, HoldingType DEF HeldInv
<1> QED
  BY <1>1, <1>2

\* Only collecting changes what is in a block.
LEMMA InsnsKept ==
  ASSUME TypeInv, [Next]_vars, ~CollectInsn
  PROVE  \A a \in DOMAIN m_cacheBB' :
           \/ m_cacheBB'[a].insns = <<>>
           \/ a \in DOMAIN m_cacheBB /\ m_cacheBB'[a].insns = m_cacheBB[a].insns
<1>1. CASE NewBlock
  BY <1>1 DEF NewBlock, SetBlock
<1>2. CASE InterpretEnd
  <2>1. Block \in BBInfo /\ bbPc \in DOMAIN m_cacheBB
    BY <1>2, BlockType DEF InterpretEnd, At, TypeInv
  <2>2. [Block EXCEPT !.num_exec = (@ + 1) % NumExecMod].insns = Block.insns
    BY <2>1 DEF BBInfo
  <2> QED
    BY <1>2, <2>1, <2>2 DEF InterpretEnd, SetBlock, Block
<1>3. CASE m_cacheBB' = m_cacheBB
  BY <1>3
<1> QED
  BY <1>1, <1>2, <1>3
  DEF Next, Collect, RunBlock, RunCode, RunCached, FindBlock, CollectUndecodable,
      CollectOutOfMemory, CollectWild, Translate, TranslateFails, Interpret, InterpretInsn,
      CodeInsn, CodeReturn, RunReturns, Terminated, Call, Throw, cacheVars, vars

LEMMA Appended ==
  ASSUME NEW S, NEW s \in Seq(S), NEW e \in S
  PROVE  /\ Len(Append(s, e)) = Len(s) + 1 /\ Append(s, e)[Len(s) + 1] = e
         /\ \A i \in 1 .. Len(s) : Append(s, e)[i] = s[i]
  OBVIOUS

\* The instruction collected is decoded from the word at its address.
LEMMA CollectInsnText ==
  ASSUME HistoryInv, HeldInv', \A a \in Word : held[a] \subseteq held'[a], CollectInsn
  PROVE  BlocksWereText' /\ CollectInv'
<1> DEFINE n == Len(Block.insns)
           insns == Append(Block.insns, Decode[Fetched])
<1>1. /\ phase = "collect" /\ Fetchable /\ Fetched \in DOMAIN Decode /\ n < MaxBlockLen
      /\ \/ phase' = "block"
         \/ phase' = "collect" /\ curAddr' = ToWord(curAddr + kWordSize)
      /\ UNCHANGED <<mem, bbPc>>
  BY DEF CollectInsn, At, guestVars
<1>2. /\ bbPc \in DOMAIN m_cacheBB /\ bbPc \in Word /\ curAddr \in Word
      /\ Block \in BBInfo /\ Block.insns \in Seq(Instruction) /\ n \in Nat
      /\ DOMAIN m_cacheBB \subseteq Word
      /\ \A a \in DOMAIN m_cacheBB : m_cacheBB[a] \in BBInfo
  BY <1>1, BlockType DEF HistoryInv, StopInv, TypeInv, TypeOK
<1>3. Decode[Fetched] \in Instruction
  BY <1>1, DecodeAssumption
<1>4. Fetched \in held[curAddr]
  BY <1>1, <1>2 DEF HistoryInv, HeldInv, FetchAddr, Fetchable, Fetched
<1>5. curAddr = ToWord(bbPc + kWordSize * ((n + 1) - 1))
  BY <1>1, <1>2 DEF HistoryInv, CollectInv
<1>6. /\ DOMAIN m_cacheBB' = DOMAIN m_cacheBB
      /\ m_cacheBB'[bbPc].insns = insns
      /\ \A a \in DOMAIN m_cacheBB \ {bbPc} : m_cacheBB'[a] = m_cacheBB[a]
  <2>1. [Block EXCEPT !.insns = Append(@, Decode[Fetched])].insns = insns
    BY <1>2 DEF BBInfo
  <2>2. SetBlock(bbPc, [Block EXCEPT !.insns = Append(@, Decode[Fetched])])
    BY DEF CollectInsn
  <2> HIDE DEF insns
  <2> QED
    BY <1>2, <2>1, <2>2 DEF SetBlock
<1>7. /\ Len(insns) = n + 1 /\ insns[n + 1] = Decode[Fetched]
      /\ \A i \in 1 .. n : insns[i] = Block.insns[i]
  BY <1>2, <1>3, Appended
<1> HIDE DEF insns, n
<1>8. BlocksWereText'
  <2> SUFFICES ASSUME NEW a \in DOMAIN m_cacheBB, NEW i \in 1 .. Len(m_cacheBB'[a].insns)
               PROVE  \E w \in held'[ToWord(a + kWordSize * (i - 1))] \cap DOMAIN Decode :
                        Decode[w] = m_cacheBB'[a].insns[i]
    BY <1>6 DEF BlocksWereText
  <2> DEFINE x == ToWord(a + kWordSize * (i - 1))
  <2>1. a \in Word /\ i \in Int
    <3>1. Len(m_cacheBB'[a].insns) \in Nat
      <4>1. CASE a = bbPc
        BY <1>2, <1>6, <1>7, <4>1
      <4>2. CASE a # bbPc
        BY <1>2, <1>6, <4>2 DEF BBInfo
      <4> QED
        BY <4>1, <4>2
    <3> QED
      BY <1>2, <3>1
  <2>2. x \in Word
    <3>1. a + kWordSize * (i - 1) \in Int
      BY <2>1, ModsOrdered DEF Word, kWordSize
    <3> QED
      BY <3>1, ToWordType
  <2>3. held[x] \subseteq held'[x]
    BY <2>2
  <2> HIDE DEF x
  <2>4. CASE a = bbPc /\ i = n + 1
    BY <2>3, <2>4, <1>1, <1>4, <1>5, <1>6, <1>7 DEF x
  <2>5. CASE a # bbPc \/ i # n + 1
    <3>1. /\ i \in 1 .. Len(m_cacheBB[a].insns)
          /\ m_cacheBB'[a].insns[i] = m_cacheBB[a].insns[i]
      BY <2>5, <1>2, <1>6, <1>7 DEF Block, n
    <3>2. \E w \in held[x] \cap DOMAIN Decode : Decode[w] = m_cacheBB[a].insns[i]
      BY <3>1 DEF HistoryInv, BlocksWereText, x
    <3> QED
      BY <2>3, <3>1, <3>2 DEF x
  <2> QED
    BY <2>4, <2>5
<1>9. CollectInv'
  <2>1. \A a \in DOMAIN m_cacheBB' : Len(m_cacheBB'[a].insns) <= MaxBlockLen
    <3>1. n + 1 <= MaxBlockLen
      BY <1>1, <1>2, SizeAssumption
    <3> QED
      BY <3>1, <1>6, <1>7 DEF HistoryInv, CollectInv
  <2>2. phase' = "collect" => curAddr' = ToWord(bbPc' + kWordSize * Len(Block'.insns))
    <3>1. Len(Block'.insns) = ((n + 1) + 1) - 1 /\ n + 1 \in Nat
      BY <1>1, <1>2, <1>6, <1>7 DEF Block
    <3>2. ToWord(curAddr + kWordSize) = ToWord(bbPc + kWordSize * (((n + 1) + 1) - 1))
      BY <1>2, <1>5, <3>1, NextAddress
    <3> QED
      BY <1>1, <3>1, <3>2
  <2> QED
    BY <2>1, <2>2 DEF CollectInv, Block
<1> QED
  BY <1>8, <1>9

\* Whatever else a step does, blocks stay what they were and memory's past grows.
LEMMA OtherText ==
  ASSUME HistoryInv, StopInv', \A a \in Word : held[a] \subseteq held'[a], [Next]_vars,
         ~CollectInsn
  PROVE  BlocksWereText' /\ CollectInv'
<1>1. /\ DOMAIN m_cacheBB' \subseteq Word
      /\ \A a \in DOMAIN m_cacheBB' :
           /\ Len(m_cacheBB'[a].insns) \in Nat
           /\ \/ m_cacheBB'[a].insns = <<>>
              \/ a \in DOMAIN m_cacheBB /\ m_cacheBB'[a].insns = m_cacheBB[a].insns
  BY InsnsKept DEF HistoryInv, StopInv, TypeInv, TypeOK, BBInfo
<1>2. BlocksWereText'
  <2> SUFFICES ASSUME NEW a \in DOMAIN m_cacheBB', NEW i \in 1 .. Len(m_cacheBB'[a].insns)
               PROVE  \E w \in held'[ToWord(a + kWordSize * (i - 1))] \cap DOMAIN Decode :
                        Decode[w] = m_cacheBB'[a].insns[i]
    BY DEF BlocksWereText
  <2> DEFINE x == ToWord(a + kWordSize * (i - 1))
  <2>1. a \in Word /\ i \in Int
    BY <1>1
  <2>2. x \in Word
    <3>1. a + kWordSize * (i - 1) \in Int
      BY <2>1, ModsOrdered DEF Word, kWordSize
    <3> QED
      BY <3>1, ToWordType
  <2>3. held[x] \subseteq held'[x]
    BY <2>2
  <2>4. a \in DOMAIN m_cacheBB /\ m_cacheBB'[a].insns = m_cacheBB[a].insns
    BY <1>1, <2>1
  <2>5. \E w \in held[x] \cap DOMAIN Decode : Decode[w] = m_cacheBB[a].insns[i]
    BY <2>4 DEF HistoryInv, BlocksWereText
  <2> QED
    BY <2>3, <2>4, <2>5
<1>3. phase' = "collect" => curAddr' = ToWord(bbPc' + kWordSize * Len(Block'.insns))
  <2>1. CASE NewBlock
    <3>1. curAddr' = cpu.pc /\ bbPc' = cpu.pc /\ Block'.insns = <<>>
      BY <2>1 DEF NewBlock, SetBlock, Block
    <3>2. cpu.pc \in Word
      BY DEF HistoryInv, StopInv, TypeInv, TypeOK, CPUState
    <3>3. Len(<<>>) = 1 - 1
      OBVIOUS
    <3> QED
      BY <3>1, <3>2, <3>3, FirstAddress
  <2>2. CASE UNCHANGED <<m_cacheBB, phase, bbPc, curAddr>>
    BY <2>2 DEF HistoryInv, CollectInv, Block
  <2>3. CASE phase' # "collect"
    BY <2>3
  <2> QED
    BY <2>1, <2>2, <2>3
    DEF Next, Collect, RunBlock, RunCode, RunCached, FindBlock, CollectUndecodable,
        CollectOutOfMemory, CollectWild, Translate, TranslateFails, Interpret, InterpretInsn,
        InterpretEnd, CodeInsn, CodeReturn, RunReturns, Terminated, Call, Throw, At,
        cacheVars, frameVars, vars
<1>4. \A a \in DOMAIN m_cacheBB' : Len(m_cacheBB'[a].insns) <= MaxBlockLen
  BY <1>1, SizeAssumption DEF HistoryInv, CollectInv
<1> QED
  BY <1>2, <1>3, <1>4 DEF CollectInv, Block

LEMMA InitHistory == HistInit => HeldInv /\ CollectInv /\ BlocksWereText
<1> SUFFICES ASSUME HistInit
             PROVE  HeldInv /\ CollectInv /\ BlocksWereText
  OBVIOUS
<1>1. mem \in Memory
  BY ProgramsAssumption DEF HistInit, Init
<1>2. HeldInv
  <2> DEFINE nothing == [a \in Word |-> {}]
  <2>1. nothing \in [Word -> SUBSET Word] /\ \A a \in Word \ FetchAddr : nothing[a] = {}
    OBVIOUS
  <2>2. held = Holding(nothing, mem)
    BY DEF HistInit
  <2> HIDE DEF nothing
  <2> QED
    BY <1>1, <2>1, <2>2, HoldingType DEF HeldInv
<1>3. CollectInv /\ BlocksWereText
  BY DEF HistInit, Init, CollectInv, BlocksWereText
<1> QED
  BY <1>2, <1>3

LEMMA NextHistory ==
  ASSUME HistoryInv, StopInv', [HistNext]_histVars
  PROVE  HeldInv' /\ CollectInv' /\ BlocksWereText'
<1>1. [Next]_vars /\ mem' \in Memory
  BY HistStepIsStep DEF StopInv, TypeInv, TypeOK
<1>2. HeldInv' /\ \A a \in Word : held[a] \subseteq held'[a]
  BY <1>1, HeldGrows DEF HistoryInv
<1> QED
  BY <1>1, <1>2, CollectInsnText, OtherText

LEMMA HistIsSpec == HistSpec => Spec
  BY HistStepIsStep, PTL DEF HistSpec, Spec

THEOREM HistoryInvariant == HistSpec => []HistoryInv
<1>1. HistoryInv /\ StopInv' /\ [HistNext]_histVars => HeldInv' /\ CollectInv' /\ BlocksWereText'
  BY NextHistory
<1>2. HistoryInv <=> StopInv /\ HeldInv /\ CollectInv /\ BlocksWereText
  BY DEF HistoryInv
<1> QED
  BY <1>1, <1>2, InitHistory, HistIsSpec, StopInvariant, PTL DEF HistSpec

\* Whatever is stored over the text: a cached instruction was decoded from a word that was
\* in memory at its address.
THEOREM BlocksFromText == HistSpec => []BlocksWereText
<1>1. HistoryInv => BlocksWereText
  BY DEF HistoryInv
<1> QED
  BY <1>1, HistoryInvariant, PTL

----------------------------------------------------------------------------
(* The engine implements the guest machine.                                *)

\* The narrow counter divides the wide one, so a count may be cut twice.
LEMMA CutTwice ==
  ASSUME NEW x \in Int
  PROVE  /\ (x % IcountMod) % NarrowIcountMod = x % NarrowIcountMod
         /\ x % NarrowIcountMod \in Icount
<1> DEFINE N == NarrowIcountMod
           k == IcountMod \div N
<1>1. N \in Nat /\ N > 0 /\ IcountMod \in Nat /\ IcountMod > 0 /\ IcountMod % N = 0
  BY SizeAssumption, IcountModAssumption
<1>2. k \in Int /\ IcountMod = N * k
  BY <1>1, DivMod
<1> HIDE DEF k
<1>3. k > 0
  <2>1. CASE k <= 0
    <3>1. N * k <= 0
      BY <1>1, <1>2, <2>1
    <3> QED
      BY <1>1, <1>2, <3>1
  <2> QED
    BY <1>2, <2>1
<1>4. N <= IcountMod
  <2>1. N * 1 <= N * k
    BY <1>1, <1>2, <1>3
  <2> QED
    BY <1>1, <1>2, <2>1
<1>5. x % N \in 0 .. N - 1
  BY <1>1, ModRange
<1>6. (x % (N * k)) % N = x % N
  <2>1. k \in Nat
    BY <1>2, <1>3
  <2> HIDE DEF N
  <2> QED
    BY <1>1, <1>3, <2>1, ModMod
<1> QED
  BY <1>1, <1>2, <1>4, <1>5, <1>6 DEF Icount

LEMMA CutAgain ==
  ASSUME NEW x \in Int
  PROVE  (x % IcountMod) % IcountMod = x % IcountMod
<1> DEFINE y == x % IcountMod
<1>1. IcountMod \in Nat /\ IcountMod > 0
  BY IcountModAssumption
<1>2. y \in 0 .. IcountMod - 1
  BY <1>1, ModRange
<1> HIDE DEF y
<1>3. y % IcountMod = y
  BY <1>1, <1>2
<1> QED
  BY <1>3 DEF y

\* The guest machine's CPU is the engine's, at the pc and with the count the code has reached.
LEMMA GuestCpuIs ==
  ASSUME NEW c \in CPUState, NEW p \in Word, NEW n \in Icount
  PROVE  /\ [c EXCEPT !.pc = p, !.icount = n] = Recounted([c EXCEPT !.pc = p], n)
         /\ [c EXCEPT !.pc = p] \in CPUState
         /\ Recounted([c EXCEPT !.pc = p], n) \in CPUState
         /\ Recounted([c EXCEPT !.pc = p], n).pc = p
         /\ Recounted([c EXCEPT !.pc = p], n).icount = n
         /\ Recounted([c EXCEPT !.pc = p], n).finished = c.finished
  BY DEF Recounted, CPUState

Total == cpu.icount + Uncounted
Count == Total % NarrowIcountMod
GuestNow == [cpu EXCEPT !.pc = GuestPc]

LEMMA GuestCpuNow ==
  ASSUME TypeInv
  PROVE  /\ GuestPc \in Word /\ Count \in Icount /\ GuestNow \in CPUState
         /\ Total \in Int
         /\ guestCpu = Recounted(GuestNow, Count) /\ guestCpu.pc = GuestPc
         /\ guestCpu.icount = Count /\ guestCpu.finished = cpu.finished
<1>1. /\ cpu \in CPUState /\ GuestPc \in Word /\ cpu.icount \in Int /\ Uncounted \in Int
  BY IcountModAssumption DEF TypeInv, TypeOK, CPUState, GuestPc, Uncounted, Icount
<1>2. /\ Count \in Icount
      /\ ((cpu.icount + Uncounted) % IcountMod) % NarrowIcountMod = Count
      /\ Total \in Int
  BY <1>1, CutTwice DEF Count, Total
<1>3. guestCpu = [cpu EXCEPT !.pc = GuestPc, !.icount = Count]
  BY <1>2 DEF guestCpu
<1> DEFINE n == Count
           p == GuestPc
<1>4. guestCpu = [cpu EXCEPT !.pc = p, !.icount = n] /\ n \in Icount /\ p \in Word
  BY <1>1, <1>2, <1>3
<1> HIDE DEF n, p
<1>5. \A c \in CPUState :
        /\ [c EXCEPT !.pc = p, !.icount = n] = Recounted([c EXCEPT !.pc = p], n)
        /\ [c EXCEPT !.pc = p] \in CPUState
        /\ Recounted([c EXCEPT !.pc = p], n).pc = p
        /\ Recounted([c EXCEPT !.pc = p], n).icount = n
        /\ Recounted([c EXCEPT !.pc = p], n).finished = c.finished
  BY <1>4 DEF Recounted, CPUState
<1>6. /\ guestCpu = Recounted([cpu EXCEPT !.pc = p], n)
      /\ [cpu EXCEPT !.pc = p] \in CPUState
      /\ guestCpu.pc = p /\ guestCpu.icount = n /\ guestCpu.finished = cpu.finished
  BY <1>1, <1>4, <1>5, Zenon
<1> QED
  BY <1>1, <1>2, <1>6 DEF GuestNow, n, p

\* What the guest machine's CPU is made of, in this state and the next.
GuestShape ==
  /\ GuestPc \in Word /\ Total \in Int /\ Count \in Icount /\ GuestNow \in CPUState
  /\ guestCpu = Recounted(GuestNow, Count) /\ guestCpu.pc = GuestPc
  /\ guestCpu.icount = Count /\ guestCpu.finished = cpu.finished

LEMMA GuestShaped == TypeInv => GuestShape
  BY GuestCpuNow DEF GuestShape

LEMMA GuestShapedNext == TypeInv' => GuestShape'
  BY GuestShaped, PTL

\* held in the guest machine.
LEMMA GuestHolding ==
  /\ Guest!FetchAddr = FetchAddr
  /\ \A h, m : Guest!Holding(h, m) = Holding(h, m)
<1>1. Guest!FetchAddr = FetchAddr
  BY GuestWords, GuestAccesses DEF Guest!FetchAddr, FetchAddr
<1> QED
  BY <1>1, GuestWords, GuestAccesses DEF Guest!Holding, Holding

LEMMA StrictHolding ==
  /\ Strict!FetchAddr = FetchAddr
  /\ \A h, m : Strict!Holding(h, m) = Holding(h, m)
  /\ Strict!NothingHeld = [a \in Word |-> {}]
  /\ \A a \in FetchAddr : heldNow[a] = {WordAt(mem, a)}
<1>1. Strict!FetchAddr = FetchAddr
  BY StrictWords DEF Strict!FetchAddr, FetchAddr
<1>2. \A a \in FetchAddr : heldNow[a] = {WordAt(mem, a)}
  BY DEF heldNow, Holding, FetchAddr
<1> QED
  BY <1>1, <1>2, StrictWords DEF Strict!Holding, Holding, Strict!NothingHeld

LEMMA HeldIsHolding ==
  ASSUME HeldInv, [HistNext]_histVars
  PROVE  held' = Holding(held, mem')
<1>1. CASE mem' = mem
  <2>1. held' = held
    BY <1>1 DEF HistNext, histVars, historyVars
  <2>2. Holding(held, mem) = held
    BY DEF HeldInv, Holding
  <2> QED
    BY <1>1, <2>1, <2>2
<1>2. CASE mem' # mem
  BY <1>2 DEF HistNext, histVars, vars, guestVars
<1> QED
  BY <1>1, <1>2

LEMMA GuestExecutesNow ==
  ASSUME TypeInv, NEW i \in Instruction
  PROVE  /\ Guest!Execute(i, guestCpu, mem) = Recount(Execute(i, GuestNow, mem), Count)
         /\ Strict!Execute(i, guestCpu, mem) = Recount(Execute(i, GuestNow, mem), Count)
<1>1. guestCpu = Recounted(GuestNow, Count) /\ GuestNow \in CPUState /\ Count \in Icount
  BY GuestShaped DEF GuestShape
<1>2. Execute(i, guestCpu, mem) = Recount(Execute(i, GuestNow, mem), Count)
  BY <1>1, ExecuteRecounts DEF TypeInv, TypeOK
<1> QED
  BY <1>2, GuestExecutes, StrictExecutes

\* Whatever the code of an instruction makes of a guest, the guest machine may make of it, with
\* the liberties of the code's backend.
LEMMA GuestMay ==
  ASSUME TypeInv, m_translator \in Backend, NEW i \in Decoded, GuestNow \in CPU,
         NEW out \in After(m_translator, i, GuestNow, mem)
  PROVE  Recount(out, Count) \in Guest!Outcomes(i)
<1> DEFINE c == GuestNow
           n == Count
           next == ToWord(c.pc + kWordSize)
<1>1. i \in Instruction /\ mem \in Memory
  BY DEF Decoded, TypeInv, TypeOK
<1>2. c \in CPUState /\ n \in Icount /\ guestCpu = Recounted(c, n)
  BY GuestShaped DEF GuestShape
<1>3. guestCpu.pc = c.pc /\ guestCpu.regs = c.regs
  BY <1>2, RecountedWrites
<1>4. Guest!ToWord(guestCpu.pc + Guest!kWordSize) = next
  BY <1>3, GuestArithmetic, GuestWords
<1>5. CASE out = Execute(i, c, mem)
  BY <1>1, <1>5, GuestExecutesNow DEF Guest!Outcomes
<1>6. CASE LinksOverItsBase(m_translator, i) /\ out = Execute(i, Linked(i, c), mem)
  <2>1. "links-first" \in guestLiberties /\ i.opc = "JALR" /\ i.rd = i.rs1
    BY <1>6 DEF LinksOverItsBase, guestLiberties
  <2>2. Linked(i, c) \in CPUState
    BY LinkedType DEF CPU
  <2>3. Guest!setReg(guestCpu, i.rd, Guest!ToWord(guestCpu.pc + Guest!kWordSize))
          = Recounted(Linked(i, c), n)
    BY <1>2, <1>4, GuestWrites, RecountedWrites DEF Linked
  <2> HIDE DEF c, n
  <2>4. Guest!Execute(i, Recounted(Linked(i, c), n), mem) = Recount(out, n)
    BY <1>1, <1>2, <1>6, <2>2, GuestExecutes, ExecuteRecounts
  <2>5. Recount(out, n) \in Guest!LinkedFirst(i)
    BY <2>1, <2>3, <2>4 DEF Guest!LinkedFirst
  <2> QED
    BY <2>5 DEF Guest!Outcomes, n
<1>7. CASE ShiftsPastTheWord(m_translator, i, c) /\ \E v \in Word : out = ShiftedTo(i, c, mem, v)
  <2>1. PICK v \in Word : out = ShiftedTo(i, c, mem, v)
    BY <1>7
  <2>2. /\ "shifts-freely" \in guestLiberties /\ i.opc \in {"SLL", "SRL", "SRA"}
        /\ guestCpu.regs[i.rs2] >= Guest!WordBits
    BY <1>3, <1>7, GuestWrites DEF ShiftsPastTheWord, ShiftRegOps, guestLiberties
  <2> DEFINE d == setReg(c, i.rd, v)
  <2>3. d \in CPUState
    BY <1>2, Operands, setRegType
  <2>4. setReg(guestCpu, i.rd, v) = Recounted(d, n)
    BY <1>2, RecountedWrites
  <2> HIDE DEF c, n, d, next
  <2>5. setPC(Recounted(d, n), next) = Recounted(setPC(d, next), n)
    BY <1>2, <2>3, RecountedWrites
  <2>6. Return(Recounted(setPC(d, next), n), mem) = Recount(out, n)
    BY <2>1 DEF ShiftedTo, Return, Recount, d, next
  <2>7. Guest!Return(Guest!setPC(Guest!setReg(guestCpu, i.rd, v),
                                 Guest!ToWord(guestCpu.pc + Guest!kWordSize)), mem)
          = Recount(out, n)
    BY <1>4, <2>4, <2>5, <2>6, GuestWrites
  <2>8. Recount(out, n) \in Guest!ShiftedFreely(i)
    BY <2>2, <2>7, GuestWords DEF Guest!ShiftedFreely
  <2> QED
    BY <2>8 DEF Guest!Outcomes, n
<1> QED
  BY <1>1, <1>5, <1>6, <1>7, AfterCases

\* An engine keeps its backend.
LEMMA LibertiesKept ==
  ASSUME [HistNext]_histVars
  PROVE  guestLiberties' = guestLiberties
<1>1. m_translator' = m_translator
  BY HistStepIsStep
  DEF Next, Collect, RunBlock, RunCode, RunCached, FindBlock, NewBlock, CollectInsn,
      CollectUndecodable, CollectOutOfMemory, CollectWild, Translate, TranslateFails, Call,
      Throw, Interpret, InterpretInsn, InterpretEnd, CodeInsn, CodeReturn, RunReturns,
      Terminated, engineVars, vars
<1> QED
  BY <1>1 DEF guestLiberties

\* One instruction of the engine is one step of the guest machine: it is decoded from a word
\* held at the guest's pc, and its effect -- or its trap, and then nothing -- is one the guest
\* machine allows; the strict machine's too, when it does what the interpreter's handler does.
LEMMA GuestSteps ==
  ASSUME HistoryInv, HistoryInv', [HistNext]_histVars, fault = "none", ~cpu.finished,
         NEW w \in held[GuestPc] \cap DOMAIN Decode,
         NEW out \in Outcome, Recount(out, Count) \in Guest!Outcomes(Decode[w]),
         \/ /\ out.trap = "none" /\ fault' = "none" /\ mem' = out.mem
            /\ GuestNow' = Recounted(out.cpu, cpu'.icount)
            /\ Count' = (Count + 1) % NarrowIcountMod
         \/ out.trap # "none" /\ fault' = out.trap /\ UNCHANGED <<guestCpu, mem, held>>
  PROVE  /\ Guest!Step
         /\ w = WordAt(mem, GuestPc) /\ out = Execute(Decode[w], GuestNow, mem) => Strict!Step
<1>1. /\ GuestPc \in Word /\ Count \in Icount /\ GuestNow \in CPUState
      /\ guestCpu = Recounted(GuestNow, Count) /\ guestCpu.pc = GuestPc
      /\ guestCpu.icount = Count /\ guestCpu.finished = cpu.finished
  BY GuestShaped DEF HistoryInv, StopInv, GuestShape
<1>2. guestCpu' = Recounted(GuestNow', Count')
  BY GuestShapedNext DEF HistoryInv, StopInv, GuestShape
<1>3. mem \in Memory /\ Decode[w] \in Instruction
  BY DecodeAssumption DEF HistoryInv, StopInv, TypeInv, TypeOK
<1>4. GuestPc \in FetchAddr
  BY <1>1 DEF HistoryInv, HeldInv
<1>5. guestLiberties' = guestLiberties
  BY LibertiesKept
<1>6. out \in Outcome
  OBVIOUS
<1>7. /\ Recount(out, Count).trap = out.trap /\ Recount(out, Count).mem = out.mem
      /\ Recount(out, Count).cpu = Recounted(out.cpu, Count)
  BY <1>6 DEF Recount, Outcome
<1>8. Guest!MayFetch /\ guestCpu.pc \in Guest!FetchAddr
  BY <1>1, <1>4, GuestHolding DEF Guest!MayFetch, Guest!MayRun
<1>9. \/ Guest!Retire(Recount(out, Count))
      \/ Recount(out, Count).trap # "none" /\ Guest!Stop(out.trap)
  <2>1. CASE out.trap = "none" /\ fault' = "none" /\ mem' = out.mem
             /\ GuestNow' = Recounted(out.cpu, cpu'.icount)
             /\ Count' = (Count + 1) % NarrowIcountMod
    <3>1. guestCpu' = Recounted(Recounted(out.cpu, cpu'.icount), (Count + 1) % NarrowIcountMod)
      BY <1>2, <2>1
    <3>2. guestCpu' = [Recounted(out.cpu, Count) EXCEPT
                         !.icount = (guestCpu.icount + 1) % NarrowIcountMod]
      BY <3>1, <1>1, <1>6 DEF Recounted, Outcome, CPUState
    <3>3. held' = Guest!Holding(held, mem')
      BY HeldIsHolding, GuestHolding DEF HistoryInv
    <3> QED
      BY <1>5, <1>7, <2>1, <3>2, <3>3 DEF Guest!Retire
  <2>2. CASE out.trap # "none" /\ fault' = out.trap /\ UNCHANGED <<guestCpu, mem, held>>
    BY <1>5, <1>7, <2>2 DEF Guest!Stop
  <2> QED
    BY <2>1, <2>2
<1>10. Guest!Step
  BY <1>1, <1>7, <1>8, <1>9 DEF Guest!Step
<1>11. ASSUME w = WordAt(mem, GuestPc), out = Execute(Decode[w], GuestNow, mem)
       PROVE  Strict!Step
  <2> DEFINE o == Recount(out, Count)
  <2>1. w \in heldNow[guestCpu.pc] \cap DOMAIN Decode
    BY <1>1, <1>4, <1>11, StrictHolding
  <2>2. o \in Strict!Outcomes(Decode[w])
    BY <1>3, <1>11, GuestExecutesNow DEF Strict!Outcomes, HistoryInv, StopInv
  <2>3. Strict!MayFetch /\ guestCpu.pc \in Strict!FetchAddr
    BY <1>1, <1>4, StrictHolding DEF Strict!MayFetch, Strict!MayRun
  <2>4. Strict!Retire(o) \/ (o.trap # "none" /\ Strict!Stop(o.trap))
    <3>1. CASE Guest!Retire(o)
      <4>1. heldNow' = Strict!Holding(Strict!NothingHeld, mem')
        BY StrictHolding DEF heldNow
      <4> QED
        BY <3>1, <4>1 DEF Guest!Retire, Strict!Retire
    <3>2. CASE o.trap # "none" /\ Guest!Stop(out.trap)
      BY <1>7, <3>2 DEF Guest!Stop, Strict!Stop, heldNow
    <3> QED
      BY <1>9, <3>1, <3>2
  <2> HIDE DEF o
  <2> QED
    BY <2>1, <2>2, <2>3, <2>4 DEF Strict!Step
<1> QED
  BY <1>10, <1>11

\* Adding to the low part of a number alone is adding, as far as the low part shows.
LEMMA LowPartAdds ==
  ASSUME NEW N \in Nat, N > 0, NEW c \in Int, NEW n \in Nat
  PROVE  ((c - (c % N)) + (((c % N) + n) % N)) % N = (c + n) % N
<1> DEFINE low == c % N
           q == c \div N
           r == (c + n) % N
<1>1. /\ low \in Int /\ q \in Int /\ c = N * q + low
      /\ r \in 0 .. N - 1
  BY ModRange, DivMod
<1>2. ((c % N) + n) % N = r
  <2>1. n \in Int
    OBVIOUS
  <2> QED
    BY <2>1, ModSum, Zenon
<1> DEFINE x == (c - low) + r
           s == x % N
           p == x \div N
<1> HIDE DEF low, q, r
<1>3. x \in Int /\ x = N * q + r
  BY <1>1
<1> HIDE DEF x
<1>4. s \in 0 .. N - 1 /\ p \in Int /\ x = N * p + s
  BY <1>3, ModRange, DivMod
<1> HIDE DEF s, p
<1>5. N * q + r = N * p + s
  BY <1>3, <1>4
<1>6. r = s
  BY <1>1, <1>4, <1>5, RemainderUnique
<1> QED
  BY <1>2, <1>6 DEF low, r, s, x

\* At the end of translated code the counter catches up, in its low part or in all of it.
LEMMA addIcountCounts ==
  ASSUME NEW n \in Nat, cpu.icount \in Icount
  PROVE  addIcount(n) % NarrowIcountMod = (cpu.icount + n) % NarrowIcountMod
<1>1. /\ NarrowIcountMod \in Nat /\ NarrowIcountMod > 0
      /\ cpu.icount \in Int /\ cpu.icount + n \in Int
  BY SizeAssumption, IcountModAssumption DEF Icount
<1>2. CASE NarrowIcount
  BY <1>1, <1>2, LowPartAdds DEF addIcount
<1>3. CASE ~NarrowIcount
  BY <1>1, <1>3, CutTwice DEF addIcount
<1> QED
  BY <1>2, <1>3

\* The engine's own work -- looking up, collecting, translating, returning -- is nothing to the
\* guest.
Stutters == UNCHANGED <<guestCpu, mem, held, heldNow, fault, guestLiberties>>

LEMMA HeldStays ==
  ASSUME [HistNext]_histVars, mem' = mem
  PROVE  held' = held
  BY DEF HistNext, histVars, historyVars

LEMMA OutsideCodeStutters ==
  ASSUME [HistNext]_histVars, UNCHANGED <<cpu, mem, fault>>, phase # "code", phase' # "code"
  PROVE  Stutters
<1>1. GuestPc' = GuestPc /\ Uncounted' = Uncounted
  BY DEF GuestPc, Uncounted
<1> QED
  BY <1>1, HeldStays, LibertiesKept DEF Stutters, heldNow, guestCpu

LEMMA CallStutters ==
  ASSUME [HistNext]_histVars, phase # "code", NEW func, NEW isFresh, Call(func, isFresh)
  PROVE  Stutters
<1>1. /\ phase' = "code" /\ hostPc' = cpu.pc /\ pos' = 1 /\ UNCHANGED <<cpu, mem, fault>>
  BY DEF Call, guestVars
<1>2. GuestPc' = GuestPc /\ Uncounted' = Uncounted
  BY <1>1 DEF GuestPc, Uncounted
<1> QED
  BY <1>1, <1>2, HeldStays, LibertiesKept DEF Stutters, heldNow, guestCpu

LEMMA CodeReturnCounts ==
  ASSUME HistoryInv, CodeReturn
  PROVE  /\ Uncounted' = 0 /\ Count' = Count
         /\ ~NarrowIcount => Total' % IcountMod = Total % IcountMod
<1>1. /\ phase = "code" /\ phase' = "loop" /\ pos > Len(code) /\ m_translator' = m_translator
      /\ cpu' = [cpu EXCEPT !.pc = hostPc,
                            !.icount = IF CountsEachInsn THEN @ ELSE addIcount(Len(code))]
  BY DEF CodeReturn, At, engineVars
<1>2. /\ cpu \in CPUState /\ cpu.icount \in Icount /\ cpu.icount \in Int
      /\ code \in Seq(Instruction) /\ Len(code) \in Nat /\ pos \in Nat
  BY IcountModAssumption DEF HistoryInv, StopInv, TypeInv, TypeOK, CPUState, Icount
<1>3. pos = Len(code) + 1
  <2>1. pos \in 1 .. Len(code) + 1
    BY <1>1 DEF HistoryInv, StopInv, CacheInv, PcFollowsBlock, Running
  <2> QED
    BY <1>1, <1>2, <2>1
<1>4. Uncounted' = 0
  BY <1>1 DEF Uncounted
<1>5. CASE CountsEachInsn
  <2>1. Uncounted = 0 /\ cpu'.icount = cpu.icount
    BY <1>1, <1>2, <1>5 DEF Uncounted, CPUState
  <2> QED
    BY <1>4, <2>1 DEF Count, Total
<1>6. CASE ~CountsEachInsn
  <2> DEFINE n == Len(code)
             a == addIcount(n)
  <2>1. Uncounted = n /\ cpu'.icount = a /\ a \in Int
    <3>1. a \in Icount
      BY <1>2, addIcountType
    <3> QED
      BY <1>1, <1>2, <1>3, <1>6, <3>1, IcountModAssumption DEF Uncounted, CPUState, Icount
  <2>2. a % NarrowIcountMod = (cpu.icount + n) % NarrowIcountMod
    BY <1>2, addIcountCounts
  <2>3. ~NarrowIcount => a % IcountMod = (cpu.icount + n) % IcountMod
    <3> SUFFICES ASSUME ~NarrowIcount PROVE a % IcountMod = (cpu.icount + n) % IcountMod
      OBVIOUS
    <3>1. a = (cpu.icount + n) % IcountMod
      BY DEF addIcount
    <3> QED
      BY <2>1, <1>2, <3>1, CutAgain
  <2> HIDE DEF n, a
  <2>4. Total' = a /\ Total = cpu.icount + n
    BY <1>4, <2>1 DEF Total
  <2> QED
    BY <1>4, <2>2, <2>3, <2>4 DEF Count
<1> QED
  BY <1>5, <1>6

LEMMA CodeReturnStutters ==
  ASSUME HistoryInv, HistoryInv', [HistNext]_histVars, CodeReturn
  PROVE  Stutters
<1>1. /\ phase = "code" /\ phase' = "loop" /\ UNCHANGED <<mem, fault>>
      /\ cpu' = [cpu EXCEPT !.pc = hostPc,
                            !.icount = IF CountsEachInsn THEN @ ELSE addIcount(Len(code))]
  BY DEF CodeReturn, At
<1>2. cpu \in CPUState
  BY DEF HistoryInv, StopInv, TypeInv, TypeOK
<1>3. GuestNow' = Recounted(GuestNow, cpu'.icount)
  BY <1>1, <1>2 DEF GuestNow, GuestPc, Recounted, CPUState
<1>4. guestCpu' = Recounted(GuestNow', Count') /\ guestCpu = Recounted(GuestNow, Count)
      /\ GuestNow \in CPUState
  BY GuestShaped, GuestShapedNext DEF HistoryInv, StopInv, GuestShape
<1>5. guestCpu' = guestCpu
  BY <1>3, <1>4, CodeReturnCounts DEF Recounted, CPUState
<1> QED
  BY <1>1, <1>5, HeldStays, LibertiesKept DEF Stutters, heldNow

\* An instruction of a block is decoded from a word held where the block has it.
LEMMA BlockWord ==
  ASSUME HistoryInv, bbPc \in DOMAIN m_cacheBB, NEW i \in 1 .. Len(Block.insns),
         NEW a, a = ToWord(bbPc + kWordSize * (i - 1))
  PROVE  \E w \in held[a] \cap DOMAIN Decode :
           Decode[w] = Block.insns[i] /\ (CacheIsCurrent => w = WordAt(mem, a))
<1>1. \E w \in held[a] \cap DOMAIN Decode : Decode[w] = Block.insns[i]
  BY DEF HistoryInv, BlocksWereText, Block
<1>2. ASSUME CacheIsCurrent
      PROVE  /\ WordAt(mem, a) \in held[a] \cap DOMAIN Decode
             /\ Decode[WordAt(mem, a)] = Block.insns[i]
  <2>1. WordAt(mem, a) \in DOMAIN Decode /\ Decode[WordAt(mem, a)] = Block.insns[i]
    BY <1>2 DEF CacheIsCurrent, Block
  <2>2. a \in Word
    <3>1. bbPc + kWordSize * (i - 1) \in Int
      BY DEF HistoryInv, StopInv, TypeInv, TypeOK, Word, kWordSize
    <3> QED
      BY <3>1, ToWordType
  <2>3. a \in FetchAddr
    BY <1>1, <2>2 DEF HistoryInv, HeldInv
  <2> QED
    BY <2>1, <2>3 DEF HistoryInv, HeldInv
<1> QED
  BY <1>1, <1>2

\* Counting one more commutes with cutting the counter down.
LEMMA CountedOneMore ==
  ASSUME NEW x \in Int
  PROVE  /\ ((x + 1) % IcountMod) % NarrowIcountMod = ((x % NarrowIcountMod) + 1) % NarrowIcountMod
         /\ (x + 1) % NarrowIcountMod = ((x % NarrowIcountMod) + 1) % NarrowIcountMod
<1>1. /\ NarrowIcountMod \in Nat /\ NarrowIcountMod > 0 /\ 1 \in Int /\ x + 1 \in Int
  BY SizeAssumption
<1>2. ((x % NarrowIcountMod) + 1) % NarrowIcountMod = (x + 1) % NarrowIcountMod
  BY <1>1, ModSum, Zenon
<1> QED
  BY <1>1, <1>2, CutTwice

\* What an instruction does to the count: nothing when it traps, one more when it does not, in
\* the counter or among the instructions the running code has yet to count.
CountsInsn ==
  IF fault' = "none"
  THEN /\ pos' = pos + 1
       /\ \/ cpu'.icount = (cpu.icount + 1) % IcountMod /\ Uncounted = 0 /\ Uncounted' = 0
          \/ cpu'.icount = cpu.icount /\ Uncounted' = Uncounted + 1
  ELSE pos' = pos /\ cpu'.icount = cpu.icount /\ Uncounted' = Uncounted

LEMMA InterpretInsnCounts ==
  ASSUME TypeInv, InterpretInsn
  PROVE  CountsInsn
<1> DEFINE insn == Block.insns[pos]
           out == Execute(insn, cpu, mem)
<1>1. /\ phase = "interp" /\ phase' = "interp" /\ pos <= Len(Block.insns) /\ fault' = out.trap
      /\ IF out.trap = "none"
         THEN cpu' = [out.cpu EXCEPT !.icount = (@ + 1) % IcountMod] /\ pos' = pos + 1
         ELSE cpu' = out.cpu /\ pos' = pos
  BY DEF InterpretInsn, At
<1>2. /\ cpu \in CPUState /\ mem \in Memory /\ insn \in Instruction
  BY <1>1, BlockType DEF TypeInv, TypeOK
<1> HIDE DEF insn
<1>3. out.cpu.icount = cpu.icount /\ out.cpu \in CPUState
  BY <1>2, ExecuteOrderly, ExecuteKeepsCount DEF Orderly, Outcome
<1> HIDE DEF out
<1>4. IF out.trap = "none" THEN cpu'.icount = (cpu.icount + 1) % IcountMod
                           ELSE cpu'.icount = cpu.icount
  BY <1>1, <1>3 DEF CPUState
<1> QED
  BY <1>1, <1>4 DEF CountsInsn, Uncounted

LEMMA CodeInsnCounts ==
  ASSUME TypeInv, CodeInsn
  PROVE  CountsInsn
<1>1. PICK out \in After(m_translator, code[pos], RunningOn, mem) : Leaves(out)
  BY CodeInsnRuns
<1>2. /\ phase = "code" /\ phase' = "code" /\ pos \in Nat /\ m_translator' = m_translator
      /\ cpu.icount \in Icount
  BY CodeInsnRuns DEF TypeInv, TypeOK, CPUState
<1>3. out \in Outcome /\ out.cpu.icount = cpu.icount
  BY <1>1, CodeInsnRuns, AfterOrderly DEF Orderly
<1>4. StoredCpu(out) \in CPUState /\ StoredCpu(out).icount = cpu.icount
  BY <1>3, StoredType DEF StoredCpu, Outcome, CPUState
<1>5. /\ fault' = out.trap
      /\ pos' = IF out.trap = "none" THEN pos + 1 ELSE pos
      /\ cpu'.icount = IF out.trap = "none" /\ CountsEachInsn
                       THEN (cpu.icount + 1) % IcountMod ELSE cpu.icount
  BY <1>1, <1>4 DEF Leaves, CPUState
<1>6. CASE CountsEachInsn
  BY <1>2, <1>5, <1>6 DEF CountsInsn, Uncounted, CountsEachInsn
<1>7. CASE ~CountsEachInsn
  <2>1. Uncounted = pos - 1 /\ Uncounted' = pos' - 1
    BY <1>2, <1>7 DEF Uncounted, CountsEachInsn
  <2> QED
    BY <1>2, <1>5, <1>7, <2>1 DEF CountsInsn
<1> QED
  BY <1>6, <1>7

LEMMA InsnCounts ==
  ASSUME TypeInv, TypeInv', CountsInsn
  PROVE  IF fault' = "none"
         THEN /\ Count' = (Count + 1) % NarrowIcountMod
              /\ Total' % IcountMod = (Total + 1) % IcountMod
         ELSE Total' = Total /\ Count' = Count
<1>1. /\ Total \in Int /\ Total' \in Int /\ cpu.icount \in Int /\ cpu'.icount \in Int
      /\ IcountMod \in Nat /\ IcountMod > 0
  BY GuestShaped, GuestShapedNext, IcountModAssumption
  DEF GuestShape, TypeInv, TypeOK, CPUState, Icount
<1>2. CASE fault' = "none" /\ cpu'.icount = (cpu.icount + 1) % IcountMod
           /\ Uncounted = 0 /\ Uncounted' = 0
  <2>1. Total = cpu.icount /\ Total' = (Total + 1) % IcountMod
    BY <1>1, <1>2 DEF Total
  <2>2. Count' = (Count + 1) % NarrowIcountMod
    BY <1>1, <2>1, CountedOneMore DEF Count
  <2>3. Total' % IcountMod = (Total + 1) % IcountMod
    BY <1>1, <2>1, CutAgain
  <2> QED
    BY <1>2, <2>2, <2>3
<1>3. CASE fault' = "none" /\ cpu'.icount = cpu.icount /\ Uncounted' = Uncounted + 1
  <2>1. Uncounted \in Int
    BY DEF Uncounted, TypeInv, TypeOK
  <2>2. Total' = Total + 1
    BY <1>1, <1>3, <2>1 DEF Total
  <2> QED
    BY <1>1, <1>3, <2>2, CountedOneMore DEF Count
<1>4. CASE fault' # "none"
  <2>1. Total' = Total
    BY <1>4 DEF CountsInsn, Total
  <2> QED
    BY <1>4, <2>1 DEF Count
<1> QED
  BY <1>2, <1>3, <1>4 DEF CountsInsn

LEMMA InterpretInsnSteps ==
  ASSUME HistoryInv, HistoryInv', [HistNext]_histVars, InterpretInsn
  PROVE  Guest!Step /\ (CacheIsCurrent => Strict!Step)
<1> DEFINE insn == Block.insns[pos]
           out == Execute(insn, cpu, mem)
<1>1. /\ phase = "interp" /\ fault = "none" /\ pos <= Len(Block.insns)
      /\ fault' = out.trap /\ mem' = out.mem
      /\ IF out.trap = "none"
         THEN cpu' = [out.cpu EXCEPT !.icount = (@ + 1) % IcountMod] /\ pos' = pos + 1
         ELSE cpu' = out.cpu /\ pos' = pos
      /\ UNCHANGED <<m_translator, phase, hostPc>>
  BY DEF InterpretInsn, At, engineVars
<1>2. /\ bbPc \in DOMAIN m_cacheBB /\ pos \in Nat /\ pos > 0
      /\ cpu \in CPUState /\ cpu.icount \in Int /\ mem \in Memory
      /\ Block.insns \in Seq(Instruction) /\ Len(Block.insns) \in Nat
  BY <1>1, BlockType, IcountModAssumption
  DEF HistoryInv, StopInv, TypeInv, TypeOK, CPUState, Icount
<1>3. ~cpu.finished
  BY <1>1, <1>2 DEF HistoryInv, StopInv, FinishedInv
<1>4. GuestPc = ToWord(bbPc + kWordSize * (pos - 1)) /\ GuestNow = cpu /\ Uncounted = 0
  <2>1. cpu.pc = ToWord(bbPc + kWordSize * (pos - 1))
    BY <1>1 DEF HistoryInv, StopInv, CacheInv, PcFollowsBlock, GuestPc, Running
  <2> QED
    BY <1>1, <1>2, <2>1 DEF GuestPc, GuestNow, Uncounted, CPUState
<1>5. insn \in Instruction /\ out \in Orderly(insn, cpu, mem) /\ out \in Outcome
      /\ out.cpu.icount = cpu.icount
  BY <1>1, <1>2, ExecuteOrderly, ExecuteKeepsCount DEF Orderly
<1>6. PICK w \in held[GuestPc] \cap DOMAIN Decode :
        Decode[w] = insn /\ (CacheIsCurrent => w = WordAt(mem, GuestPc))
  BY <1>1, <1>2, <1>4, BlockWord
<1> HIDE DEF insn, out
<1>7. out = Execute(Decode[w], GuestNow, mem) /\ Recount(out, Count) \in Guest!Outcomes(Decode[w])
  <2>1. out = Execute(Decode[w], GuestNow, mem)
    BY <1>4, <1>6 DEF out
  <2> QED
    BY <2>1, <1>5, <1>6, GuestExecutesNow DEF Guest!Outcomes, HistoryInv, StopInv
<1>8. Uncounted' = 0 /\ GuestPc' = cpu'.pc
  BY <1>1 DEF Uncounted, GuestPc
<1>9. CASE out.trap = "none"
  <2>1. /\ cpu' = [out.cpu EXCEPT !.icount = (cpu.icount + 1) % IcountMod]
        /\ cpu' \in CPUState /\ cpu'.icount = (cpu.icount + 1) % IcountMod
    BY <1>1, <1>5, <1>9 DEF HistoryInv, StopInv, TypeInv, TypeOK, Outcome, CPUState
  <2>2. GuestNow' = Recounted(out.cpu, cpu'.icount)
    BY <1>5, <1>8, <2>1 DEF GuestNow, Recounted, Outcome, CPUState
  <2>3. Count' = (Count + 1) % NarrowIcountMod
    <3>1. fault' = "none"
      BY <1>1, <1>9
    <3> QED
      BY <3>1, InterpretInsnCounts, InsnCounts DEF HistoryInv, StopInv
  <2>4. fault' = "none" /\ mem' = out.mem
    BY <1>1, <1>9
  <2> QED
    BY <1>1, <1>3, <1>5, <1>7, <1>9, <2>2, <2>3, <2>4, <1>6, GuestSteps
<1>10. CASE out.trap # "none"
  <2>1. cpu' = cpu /\ mem' = mem
    BY <1>1, <1>5, <1>10, OrderlyStops
  <2>2. guestCpu' = guestCpu
    BY <1>1, <1>4, <1>8, <2>1 DEF guestCpu, GuestPc
  <2>3. held' = held
    BY <2>1, HeldStays
  <2> QED
    BY <1>1, <1>3, <1>5, <1>7, <1>10, <2>1, <2>2, <2>3, <1>6, GuestSteps
<1> QED
  BY <1>9, <1>10

LEMMA CodeInsnSteps ==
  ASSUME HistoryInv, HistoryInv', [HistNext]_histVars, CodeInsn
  PROVE  Guest!Step /\ (CacheIsCurrent /\ ~Diverges => Strict!Step)
<1> DEFINE insn == code[pos]
<1>1. TypeInv /\ TypeInv'
  BY DEF HistoryInv, StopInv
<1>2. /\ phase = "code" /\ phase' = "code" /\ fault = "none" /\ pos \in 1 .. Len(code)
      /\ m_translator \in Backend /\ insn \in Decoded /\ insn \in Instruction
      /\ RunningOn \in CPU /\ mem \in Memory
      /\ m_translator' = m_translator
  BY <1>1, CodeInsnRuns
<1>3. PICK out \in After(m_translator, insn, RunningOn, mem) : Leaves(out)
  BY <1>1, CodeInsnRuns
<1>4. /\ bbPc \in DOMAIN m_cacheBB /\ code = Block.insns /\ cpu \in CPUState /\ ~cpu.finished
      /\ GuestPc = ToWord(bbPc + kWordSize * (pos - 1)) /\ GuestNow = RunningOn
  BY <1>2 DEF HistoryInv, StopInv, TypeInv, TypeOK, CacheInv, PhaseInv, PcFollowsBlock,
     FinishedInv, GuestPc, Running, GuestNow, RunningOn
<1>5. out \in Orderly(insn, RunningOn, mem) /\ out \in Outcome
  BY <1>2, <1>3, AfterOrderly DEF Orderly
<1>6. PICK w \in held[GuestPc] \cap DOMAIN Decode :
        Decode[w] = insn /\ (CacheIsCurrent => w = WordAt(mem, GuestPc))
  BY <1>2, <1>4, BlockWord
<1>7. Recount(out, Count) \in Guest!Outcomes(Decode[w])
  BY <1>1, <1>2, <1>3, <1>4, <1>6, GuestMay
<1>8. ASSUME ~Diverges PROVE out = Execute(Decode[w], GuestNow, mem)
  <2>1. RunningOn.regs = cpu.regs
    BY <1>4 DEF RunningOn, CPUState
  <2>2. ~Deviates(m_translator, insn, RunningOn)
    BY <1>2, <1>8, <2>1 DEF Diverges, Deviates, ShiftsPastTheWord
  <2> QED
    BY <1>2, <1>3, <1>4, <1>6, <2>2, AfterCases DEF Deviates
<1> HIDE DEF insn
<1>9. /\ StoredCpu(out) \in CPUState
      /\ [StoredCpu(out) EXCEPT !.pc = out.cpu.pc] = out.cpu
  BY <1>1, <1>4, <1>5, StoredType DEF StoredCpu, Outcome, CPUState
<1>10. /\ fault' = out.trap /\ mem' = out.mem /\ GuestPc' = out.cpu.pc
  BY <1>2, <1>3 DEF GuestPc, Leaves
<1>11. CountsInsn
  BY <1>1, CodeInsnCounts
<1>12. CASE out.trap = "none"
  <2>1. cpu' = [StoredCpu(out) EXCEPT !.icount = cpu'.icount] /\ cpu' \in CPUState
    BY <1>1, <1>3, <1>9, <1>12 DEF Leaves, TypeInv, TypeOK, CPUState
  <2>2. GuestNow' = Recounted(out.cpu, cpu'.icount)
    <3>1. GuestNow' = [[StoredCpu(out) EXCEPT !.icount = cpu'.icount] EXCEPT !.pc = out.cpu.pc]
      BY <1>10, <2>1 DEF GuestNow
    <3>2. [[StoredCpu(out) EXCEPT !.icount = cpu'.icount] EXCEPT !.pc = out.cpu.pc]
            = [[StoredCpu(out) EXCEPT !.pc = out.cpu.pc] EXCEPT !.icount = cpu'.icount]
      BY <1>9 DEF CPUState
    <3> QED
      BY <1>9, <3>1, <3>2 DEF Recounted
  <2>3. Count' = (Count + 1) % NarrowIcountMod
    BY <1>1, <1>10, <1>11, <1>12, InsnCounts
  <2> QED
    BY <1>2, <1>4, <1>5, <1>6, <1>7, <1>8, <1>10, <1>12, <2>2, <2>3, GuestSteps
<1>13. CASE out.trap # "none"
  <2>1. out.cpu = RunningOn /\ mem' = mem
    BY <1>5, <1>10, <1>13, OrderlyStops
  <2>2. cpu' = StoredCpu(out)
    BY <1>3, <1>13 DEF Leaves
  <2>3. GuestNow' = GuestNow
    BY <1>4, <1>9, <1>10, <2>1, <2>2 DEF GuestNow
  <2>4. Count' = Count
    BY <1>1, <1>10, <1>11, <1>13, InsnCounts
  <2>5. guestCpu' = guestCpu
    BY <1>1, <2>3, <2>4, GuestShaped, GuestShapedNext DEF GuestShape
  <2>6. held' = held
    BY <2>1, HeldStays
  <2> QED
    BY <1>2, <1>4, <1>5, <1>6, <1>7, <1>8, <1>10, <1>13, <2>1, <2>5, <2>6, GuestSteps
<1> QED
  BY <1>12, <1>13

\* An exception leaves everything else as it is.
LEMMA ThrowStops ==
  ASSUME [HistNext]_histVars, NEW why, Throw(why), phase # "code"
  PROVE  Guest!Stop(why) /\ Strict!Stop(why)
<1>1. /\ fault' = why
      /\ UNCHANGED <<cpu, mem, phase, hostPc>>
  BY DEF Throw, guestVars, frameVars
<1>2. GuestPc' = GuestPc /\ Uncounted' = Uncounted
  BY <1>1 DEF GuestPc, Uncounted
<1> QED
  BY <1>1, <1>2, HeldStays, LibertiesKept DEF Guest!Stop, Strict!Stop, heldNow, guestCpu

\* The engine decodes ahead of the guest: over the straight line it has collected so far.
LEMMA CollectFaultSteps ==
  ASSUME HistoryInv, [HistNext]_histVars, CollectUndecodable \/ CollectWild
  PROVE  Guest!DecodeFault /\ (CacheIsCurrent => Strict!DecodeFault)
<1> DEFINE n == Len(Block.insns)
<1>1. phase = "collect" /\ fault = "none"
  BY DEF CollectUndecodable, CollectWild, At
<1>2. /\ bbPc \in DOMAIN m_cacheBB /\ bbPc \in Word /\ curAddr \in Word
      /\ Block.insns \in Seq(Instruction) /\ n \in 0 .. MaxBlockLen
      /\ cpu.pc = bbPc /\ ~cpu.finished
      /\ curAddr = ToWord(bbPc + kWordSize * n)
      /\ \A i \in 1 .. n : ~isTerminator(Block.insns[i].opc)
  <2>1. bbPc \in DOMAIN m_cacheBB /\ bbPc \in Word /\ curAddr \in Word
    BY <1>1 DEF HistoryInv, StopInv, TypeInv, TypeOK
  <2>2. Block.insns \in Seq(Instruction) /\ n \in Nat
    BY <1>1, BlockType DEF HistoryInv, StopInv
  <2>3. n <= MaxBlockLen /\ curAddr = ToWord(bbPc + kWordSize * n)
    BY <1>1, <2>1 DEF HistoryInv, CollectInv, Block
  <2>4. /\ cpu.pc = bbPc /\ ~cpu.finished
        /\ \A i \in 1 .. n : ~isTerminator(Block.insns[i].opc)
    BY <1>1 DEF HistoryInv, StopInv, CacheInv, PhaseInv, FinishedInv
  <2> QED
    BY <2>1, <2>2, <2>3, <2>4, SizeAssumption
<1>3. guestCpu.pc = bbPc /\ ~guestCpu.finished
  <2>1. guestCpu.pc = GuestPc /\ guestCpu.finished = cpu.finished
    BY GuestShaped DEF HistoryInv, StopInv, GuestShape
  <2> QED
    BY <1>1, <1>2, <2>1 DEF GuestPc
<1>4. \A i : /\ Guest!Ahead(i) = ToWord(bbPc + kWordSize * i)
             /\ Strict!Ahead(i) = ToWord(bbPc + kWordSize * i)
  BY <1>3, GuestArithmetic, GuestWords, StrictWords DEF Guest!Ahead, Strict!Ahead
<1>5. Guest!StraightLine(n) /\ (CacheIsCurrent => Strict!StraightLine(n))
  <2>1. \A opc : /\ Guest!isTerminator(opc) <=> isTerminator(opc)
                 /\ Strict!isTerminator(opc) <=> isTerminator(opc)
    BY GuestWords DEF Guest!isTerminator, isTerminator, Guest!changesPC, changesPC,
       Strict!isTerminator, Strict!changesPC, Strict!BranchOps, Guest!BranchOps
  <2>2. \A i \in 0 .. n - 1 :
          \E w \in held[ToWord(bbPc + kWordSize * i)] \cap DOMAIN Decode :
            /\ ~isTerminator(Decode[w].opc)
            /\ CacheIsCurrent => w \in heldNow[ToWord(bbPc + kWordSize * i)]
    <3> SUFFICES ASSUME NEW i \in 0 .. n - 1
                 PROVE  \E w \in held[ToWord(bbPc + kWordSize * i)] \cap DOMAIN Decode :
                          /\ ~isTerminator(Decode[w].opc)
                          /\ CacheIsCurrent => w \in heldNow[ToWord(bbPc + kWordSize * i)]
      OBVIOUS
    <3> DEFINE a == ToWord(bbPc + kWordSize * i)
    <3>1. i + 1 \in 1 .. n /\ a = ToWord(bbPc + kWordSize * ((i + 1) - 1))
      BY <1>2
    <3> HIDE DEF n, a
    <3>2. PICK w \in held[a] \cap DOMAIN Decode :
            Decode[w] = Block.insns[i + 1] /\ (CacheIsCurrent => w = WordAt(mem, a))
      BY <1>2, <3>1, BlockWord DEF n
    <3>3. a \in FetchAddr
      <4>1. a \in Word
        <5>1. bbPc + kWordSize * i \in Int
          BY <1>2 DEF Word, kWordSize
        <5> QED
          BY <5>1, ToWordType DEF a
      <4> QED
        BY <3>2, <4>1 DEF HistoryInv, HeldInv
    <3> QED
      BY <1>2, <3>1, <3>2, <3>3, StrictHolding DEF a
  <2> HIDE DEF n
  <2>3. Guest!StraightLine(n)
    BY <1>4, <2>1, <2>2 DEF Guest!StraightLine
  <2>4. ASSUME CacheIsCurrent PROVE Strict!StraightLine(n)
    BY <1>4, <2>1, <2>2, <2>4 DEF Strict!StraightLine
  <2> QED
    BY <2>3, <2>4
<1>6. Guest!Ahead(n) = curAddr /\ Strict!Ahead(n) = curAddr
  BY <1>2, <1>4
<1>7. Guest!MayFetch /\ Strict!MayFetch
  BY <1>1, <1>3 DEF Guest!MayFetch, Guest!MayRun, Strict!MayFetch, Strict!MayRun
<1> HIDE DEF n
<1>8. CASE CollectUndecodable
  <2>1. Guest!Stop("decode") /\ Strict!Stop("decode") /\ Fetchable /\ Fetched \notin DOMAIN Decode
    BY <1>1, <1>8, ThrowStops DEF CollectUndecodable
  <2>2. curAddr \in FetchAddr /\ Fetched \in held[curAddr] /\ Fetched \in heldNow[curAddr]
    BY <1>2, <2>1, StrictHolding DEF FetchAddr, Fetchable, Fetched, HistoryInv, HeldInv
  <2> QED
    BY <1>2, <1>5, <1>6, <1>7, <2>1, <2>2, GuestHolding, StrictHolding
    DEF Guest!DecodeFault, Strict!DecodeFault
<1>9. CASE CollectWild
  <2>1. Guest!Stop("wild") /\ Strict!Stop("wild") /\ ~Fetchable
    BY <1>1, <1>9, ThrowStops DEF CollectWild
  <2>2. curAddr \notin FetchAddr
    BY <2>1 DEF FetchAddr, Fetchable
  <2> QED
    BY <1>2, <1>5, <1>6, <1>7, <2>1, <2>2, GuestHolding, StrictHolding
    DEF Guest!DecodeFault, Strict!DecodeFault
<1> QED
  BY <1>8, <1>9

LEMMA HostFaultSteps ==
  ASSUME HistoryInv, [HistNext]_histVars, CollectOutOfMemory \/ TranslateFails
  PROVE  Guest!HostFault /\ Strict!HostFault
<1>1. phase \in {"collect", "block"} /\ fault = "none" /\ Throw("host")
  BY DEF CollectOutOfMemory, TranslateFails, At
<1>2. ~guestCpu.finished
  <2>1. guestCpu.finished = cpu.finished
    BY GuestShaped DEF HistoryInv, StopInv, GuestShape
  <2> QED
    BY <1>1, <2>1 DEF HistoryInv, StopInv, FinishedInv
<1> QED
  BY <1>1, <1>2, ThrowStops DEF Guest!HostFault, Guest!MayRun, Strict!HostFault, Strict!MayRun

LEMMA GuestInit == HistInit => Guest!Init
<1> SUFFICES ASSUME HistInit PROVE Guest!Init
  OBVIOUS
<1>1. PICK entry \in Entries : cpu = BootState(entry)
  BY DEF HistInit, Init
<1>2. /\ phase = "loop" /\ fault = "none" /\ mem \in Memory /\ entry \in Word
  BY <1>1, ProgramsAssumption DEF HistInit, Init
<1>3. GuestPc = entry /\ Uncounted = 0 /\ cpu.icount = 0
  BY <1>1, <1>2 DEF GuestPc, Uncounted, BootState
<1>4. ((0 + 0) % IcountMod) % NarrowIcountMod = 0
  BY SizeAssumption, IcountModAssumption
<1>5. guestCpu = [BootState(entry) EXCEPT !.pc = entry, !.icount = 0]
  BY <1>1, <1>3, <1>4 DEF guestCpu
<1>6. guestCpu = Guest!BootState(entry)
  BY <1>5, GuestWords DEF BootState, Guest!BootState
<1>7. held = Guest!Holding(Guest!NothingHeld, mem)
  BY GuestHolding, GuestWords DEF HistInit, Guest!NothingHeld
<1>8. guestLiberties \in SUBSET Guest!Liberty
  BY DEF guestLiberties, Guest!Liberty
<1> QED
  BY <1>2, <1>6, <1>7, <1>8, GuestWords DEF Guest!Init

LEMMA GuestNext ==
  ASSUME HistoryInv, HistoryInv', [HistNext]_histVars
  PROVE  Stutters \/ (Guest!Next /\ (CacheIsCurrent /\ ~Diverges => Strict!Next))
<1>1. [Next]_vars
  BY HistStepIsStep
<1>2. CASE InterpretInsn \/ CodeInsn
  BY <1>2, InterpretInsnSteps, CodeInsnSteps DEF Guest!Next, Strict!Next
<1>3. CASE CollectUndecodable \/ CollectWild
  BY <1>3, CollectFaultSteps DEF Guest!Next, Strict!Next
<1>4. CASE CollectOutOfMemory \/ TranslateFails
  BY <1>4, HostFaultSteps DEF Guest!Next, Strict!Next
<1>5. CASE RunCached
  <2>1. phase # "code" /\ Call(m_tbCache[getHash(cpu.pc)].code, FALSE)
    BY <1>5 DEF RunCached, At
  <2> QED
    BY <2>1, CallStutters
<1>6. CASE Translate
  <2>1. phase # "code" /\ Call(Block.insns, TRUE)
    BY <1>6 DEF Translate, At
  <2> QED
    BY <2>1, CallStutters
<1>7. CASE CodeReturn
  BY <1>7, CodeReturnStutters
<1>8. CASE FindBlock \/ NewBlock \/ CollectInsn \/ Interpret \/ InterpretEnd \/ RunReturns
  <2>1. phase # "code" /\ phase' # "code" /\ UNCHANGED <<cpu, mem, fault>>
    BY <1>8 DEF FindBlock, NewBlock, MustLookUpBlock, CollectInsn, Interpret, InterpretEnd,
       RunReturns, At, guestVars
  <2> QED
    BY <2>1, OutsideCodeStutters
<1>9. CASE UNCHANGED vars
  <2>1. /\ UNCHANGED <<cpu, mem, fault, phase, hostPc, pos, m_translator>>
    BY <1>9 DEF vars, engineVars, guestVars, frameVars
  <2>2. GuestPc' = GuestPc /\ Uncounted' = Uncounted
    BY <2>1 DEF GuestPc, Uncounted, CountsEachInsn
  <2> QED
    BY <2>1, <2>2, HeldStays, LibertiesKept DEF Stutters, guestCpu, heldNow
<1> QED
  BY <1>1, <1>2, <1>3, <1>4, <1>5, <1>6, <1>7, <1>8, <1>9
  DEF Next, Collect, RunBlock, RunCode, Terminated

\* The engine implements the guest machine: whatever its block cache, its translations and their
\* counters do, every step is one of the guest's or nothing to it.
THEOREM EngineImplementsGuest == HistSpec => ImplementsGuest
<1>1. HistoryInv /\ HistoryInv' /\ [HistNext]_histVars => [Guest!Next]_(Guest!guestVars)
  BY GuestNext DEF Stutters, Guest!guestVars
<1> QED
  BY <1>1, GuestInit, HistoryInvariant, PTL DEF HistSpec, ImplementsGuest, Guest!Spec

\* An instruction in a block was there before, or is the one decoded in this step from the word
\* at its address.
LEMMA TextFrom ==
  ASSUME HistoryInv, [Next]_vars, NEW a \in DOMAIN m_cacheBB',
         NEW i \in 1 .. Len(m_cacheBB'[a].insns)
  PROVE  \/ /\ a \in DOMAIN m_cacheBB /\ i \in 1 .. Len(m_cacheBB[a].insns)
            /\ m_cacheBB'[a].insns[i] = m_cacheBB[a].insns[i]
         \/ /\ mem' = mem /\ Fetched \in DOMAIN Decode /\ m_cacheBB'[a].insns[i] = Decode[Fetched]
            /\ ToWord(a + kWordSize * (i - 1)) = curAddr
<1>1. CASE CollectInsn
  <2> DEFINE n == Len(Block.insns)
             insns == Append(Block.insns, Decode[Fetched])
  <2>1. phase = "collect" /\ Fetched \in DOMAIN Decode /\ mem' = mem
    BY <1>1 DEF CollectInsn, At, guestVars
  <2>2. /\ bbPc \in DOMAIN m_cacheBB /\ bbPc \in Word
        /\ Block \in BBInfo /\ Block.insns \in Seq(Instruction) /\ n \in Nat
        /\ \A x \in DOMAIN m_cacheBB : m_cacheBB[x] \in BBInfo
    BY <2>1, BlockType DEF HistoryInv, StopInv, TypeInv, TypeOK
  <2>3. curAddr = ToWord(bbPc + kWordSize * ((n + 1) - 1))
    BY <2>1, <2>2 DEF HistoryInv, CollectInv
  <2>4. /\ DOMAIN m_cacheBB' = DOMAIN m_cacheBB /\ m_cacheBB'[bbPc].insns = insns
        /\ \A x \in DOMAIN m_cacheBB \ {bbPc} : m_cacheBB'[x] = m_cacheBB[x]
    <3>1. [Block EXCEPT !.insns = Append(@, Decode[Fetched])].insns = insns
      BY <2>2 DEF BBInfo
    <3>2. SetBlock(bbPc, [Block EXCEPT !.insns = Append(@, Decode[Fetched])])
      BY <1>1 DEF CollectInsn
    <3> HIDE DEF insns
    <3> QED
      BY <2>2, <3>1, <3>2 DEF SetBlock
  <2>5. /\ Len(insns) = n + 1 /\ insns[n + 1] = Decode[Fetched]
        /\ \A j \in 1 .. n : insns[j] = Block.insns[j]
    BY <2>1, <2>2, DecodeAssumption, Appended
  <2> HIDE DEF insns, n
  <2>6. CASE a = bbPc /\ i = n + 1
    BY <2>1, <2>3, <2>4, <2>5, <2>6
  <2>7. CASE a # bbPc \/ i # n + 1
    BY <2>2, <2>4, <2>5, <2>7 DEF Block, n
  <2> QED
    BY <2>6, <2>7
<1>2. CASE ~CollectInsn
  BY <1>2, InsnsKept DEF HistoryInv, StopInv
<1> QED
  BY <1>1, <1>2

\* Only a store over a cached instruction makes the cache stale: no fetch, no collecting and
\* no translation does.
LEMMA StaysCurrent ==
  ASSUME HistoryInv, [HistNext]_histVars, CacheIsCurrent, SparesText
  PROVE  CacheIsCurrent'
<1> SUFFICES ASSUME NEW a \in DOMAIN m_cacheBB', NEW i \in 1 .. Len(m_cacheBB'[a].insns)
             PROVE  LET w == WordAt(mem', ToWord(a + kWordSize * (i - 1)))
                    IN  w \in DOMAIN Decode /\ Decode[w] = m_cacheBB'[a].insns[i]
  BY DEF CacheIsCurrent
<1> QED
  BY TextFrom, HistStepIsStep DEF CacheIsCurrent, SparesText, Fetched

\* Until a store has changed cached text, every step of the engine but the two instructions with
\* which its backend takes a liberty is one an interpreter takes that fetches each word when it
\* executes it: stale text and those two are all that caching and translation cost the guest.
THEOREM StrictUntilStale == HistSpec => StrictWhileCurrent
<1>1. HistoryInv /\ HistoryInv' /\ [HistNext]_histVars
        => (CacheIsCurrent /\ ~Diverges => [Strict!Next]_(Strict!guestVars))
  BY GuestNext DEF Stutters, Strict!guestVars
<1> QED
  BY <1>1, HistoryInvariant, PTL DEF HistSpec, StrictWhileCurrent

\* A guest that stores over no instruction the engine has cached and whose translated code comes
\* to none of ir's JALRs over their own base and none of LLVM's shifts past the word is executed
\* as by that interpreter from its first instruction to its last, whatever the backend.
THEOREM EngineImplementsInterpreter ==
  HistSpec /\ [][SparesText /\ ~Diverges]_histVars => Strict!Spec
<1>1. HistInit => Strict!Init
  <2> SUFFICES ASSUME HistInit PROVE Strict!Init
    OBVIOUS
  <2>1. PICK entry \in Word : guestCpu = Guest!BootState(entry)
    BY GuestInit, GuestWords DEF Guest!Init
  <2>2. Guest!BootState(entry) = Strict!BootState(entry)
    BY GuestWords, StrictWords DEF Guest!BootState, Strict!BootState
  <2>3. mem \in Strict!Memory /\ fault = "none"
    BY ProgramsAssumption, StrictWords DEF HistInit, Init
  <2>4. heldNow = Strict!Holding(Strict!NothingHeld, mem)
    BY StrictHolding DEF heldNow
  <2> QED
    BY <2>1, <2>2, <2>3, <2>4, StrictWords DEF Strict!Init
<1>2. CacheIsCurrent /\ [CacheIsCurrent /\ ~Diverges => [Strict!Next]_(Strict!guestVars)]_histVars
        /\ [SparesText /\ ~Diverges]_histVars
        => [Strict!Next]_(Strict!guestVars)
  <2>1. UNCHANGED histVars => UNCHANGED Strict!guestVars
    BY DEF histVars, vars, engineVars, cacheVars, guestVars, frameVars, historyVars,
       Strict!guestVars, guestCpu, heldNow, GuestPc, Uncounted, CountsEachInsn
  <2> QED
    BY <2>1
<1>3. HistInit => CacheIsCurrent
  BY DEF HistInit, Init, CacheIsCurrent
<1>4. HistoryInv /\ [HistNext]_histVars /\ CacheIsCurrent /\ [SparesText /\ ~Diverges]_histVars
        => CacheIsCurrent'
  <2>1. CASE SparesText
    BY <2>1, StaysCurrent
  <2>2. CASE UNCHANGED histVars
    BY <2>2 DEF histVars, vars, cacheVars, guestVars, CacheIsCurrent
  <2> QED
    BY <2>1, <2>2
<1> QED
  BY <1>1, <1>2, <1>3, <1>4, HistoryInvariant, StrictUntilStale, PTL DEF HistSpec, StrictWhileCurrent, Strict!Spec

----------------------------------------------------------------------------
(* The counter.                                                            *)

\* The count is that of the retired instructions, as far as the narrowest counter shows, and in
\* full where no counter is narrow.
RetiredInv ==
  /\ retired \in Icount
  /\ Count = retired % NarrowIcountMod
  /\ ~NarrowIcount => Total % IcountMod = retired

\* Whatever executes no instruction changes no count.
LEMMA QuietCounts ==
  ASSUME HistoryInv, [HistNext]_histVars, ~InterpretInsn, ~CodeInsn
  PROVE  /\ retired' = retired /\ Count' = Count
         /\ ~NarrowIcount => Total' % IcountMod = Total % IcountMod
<1>1. [Next]_vars /\ pos \in Nat
  BY HistStepIsStep DEF HistoryInv, StopInv, TypeInv, TypeOK
<1>2. phase \in {"interp", "code"} => pos' = pos
  BY <1>1
  DEF Next, Collect, RunBlock, RunCode, RunCached, FindBlock, NewBlock, MustLookUpBlock,
      CollectInsn, CollectUndecodable, CollectOutOfMemory, CollectWild, Translate, TranslateFails,
      Interpret, InterpretEnd, CodeReturn, RunReturns, Terminated, At, frameVars, vars
<1>3. retired' = retired
  <2>1. CASE HistNext
    BY <1>1, <1>2, <2>1 DEF HistNext
  <2>2. CASE UNCHANGED histVars
    BY <2>2 DEF histVars, historyVars
  <2> QED
    BY <2>1, <2>2
<1>4. CASE CodeReturn
  BY <1>3, <1>4, CodeReturnCounts
<1>5. CASE ~CodeReturn
  <2>1. cpu' = cpu /\ Uncounted' = Uncounted
    <3>1. CASE phase # "code" /\ phase' # "code"
      BY <1>1, <1>5, <3>1
      DEF Next, Collect, RunBlock, RunCode, RunCached, FindBlock, NewBlock, CollectInsn,
          CollectUndecodable, CollectOutOfMemory, CollectWild, Translate, TranslateFails, Call,
          Throw, Interpret, InterpretEnd, RunReturns, Terminated, guestVars, vars, Uncounted
    <3>2. CASE RunCached \/ Translate
      BY <3>2 DEF RunCached, Translate, At, Call, guestVars, Uncounted
    <3>3. CASE UNCHANGED vars
      BY <3>3 DEF vars, engineVars, guestVars, frameVars, Uncounted, CountsEachInsn
    <3>4. CASE CollectUndecodable \/ CollectOutOfMemory \/ CollectWild \/ TranslateFails
      BY <3>4 DEF CollectUndecodable, CollectOutOfMemory, CollectWild, TranslateFails, At, Throw,
         guestVars, Uncounted
    <3> QED
      BY <1>1, <1>5, <3>1, <3>2, <3>3, <3>4
      DEF Next, Collect, RunBlock, RunCode, FindBlock, NewBlock, MustLookUpBlock, CollectInsn,
          Interpret, InterpretEnd, RunReturns, Terminated, At
  <2>2. Total' = Total
    BY <2>1 DEF Total
  <2> QED
    BY <1>3, <2>2 DEF Count
<1> QED
  BY <1>4, <1>5

\* An executed instruction is one step of HistNext, and retired counts it.
LEMMA InsnRetires ==
  ASSUME HistoryInv, [HistNext]_histVars, InterpretInsn \/ CodeInsn
  PROVE  /\ HistNext /\ fault = "none" /\ CountsInsn /\ phase \in {"interp", "code"}
         /\ retired' = IF fault' = "none" THEN (retired + 1) % IcountMod ELSE retired
<1>1. fault = "none" /\ phase \in {"interp", "code"}
  BY DEF InterpretInsn, CodeInsn, At
<1>2. CountsInsn /\ pos \in Nat
  BY InterpretInsnCounts, CodeInsnCounts DEF HistoryInv, StopInv, TypeInv, TypeOK
<1>3. HistNext
  BY <1>1, <1>2 DEF histVars, vars, frameVars, CountsInsn
<1>4. pos' = pos + 1 <=> fault' = "none"
  BY <1>2 DEF CountsInsn
<1> QED
  BY <1>1, <1>2, <1>3, <1>4 DEF HistNext

LEMMA NextRetired ==
  ASSUME HistoryInv, HistoryInv', RetiredInv, [HistNext]_histVars
  PROVE  RetiredInv'
<1>1. NarrowIcount' <=> NarrowIcount
  <2>1. [Next]_vars
    BY HistStepIsStep
  <2>2. m_translator' = m_translator
    BY <2>1
    DEF Next, Collect, RunBlock, RunCode, RunCached, FindBlock, NewBlock, CollectInsn,
        CollectUndecodable, CollectOutOfMemory, CollectWild, Translate, TranslateFails, Call, Throw,
        Interpret, InterpretInsn, InterpretEnd, CodeInsn, CodeReturn, RunReturns, Terminated,
        engineVars, vars
  <2> QED
    BY <2>2 DEF NarrowIcount
<1>2. CASE InterpretInsn \/ CodeInsn
  <2>1. /\ CountsInsn
        /\ retired' = IF fault' = "none" THEN (retired + 1) % IcountMod ELSE retired
    BY <1>2, InsnRetires
  <2>2. IF fault' = "none"
        THEN /\ Count' = (Count + 1) % NarrowIcountMod
             /\ Total' % IcountMod = (Total + 1) % IcountMod
        ELSE Total' = Total /\ Count' = Count
    BY <2>1, InsnCounts DEF HistoryInv, StopInv
  <2>3. CASE fault' = "none"
    <3>1. /\ retired \in Int /\ Total \in Int /\ 1 \in Int
          /\ IcountMod \in Nat /\ IcountMod > 0 /\ retired + 1 \in Int
      BY GuestShaped, IcountModAssumption DEF HistoryInv, StopInv, GuestShape, RetiredInv, Icount
    <3>2. retired' = (retired + 1) % IcountMod /\ retired' \in Icount
      BY <2>1, <2>3, <3>1, ModRange DEF Icount
    <3>3. Count' = retired' % NarrowIcountMod
      BY <2>2, <2>3, <3>1, <3>2, CountedOneMore DEF RetiredInv
    <3>4. ~NarrowIcount => Total' % IcountMod = retired'
      <4>1. ((Total % IcountMod) + 1) % IcountMod = (Total + 1) % IcountMod
        BY <3>1, ModSum, Zenon
      <4> QED
        BY <2>2, <2>3, <3>2, <4>1 DEF RetiredInv
    <3> QED
      BY <1>1, <3>2, <3>3, <3>4 DEF RetiredInv
  <2>4. CASE fault' # "none"
    BY <1>1, <2>1, <2>2, <2>4 DEF RetiredInv
  <2> QED
    BY <2>3, <2>4
<1>3. CASE ~InterpretInsn /\ ~CodeInsn
  BY <1>1, <1>3, QuietCounts DEF RetiredInv
<1> QED
  BY <1>2, <1>3

LEMMA InitRetired == HistInit => RetiredInv
<1> SUFFICES ASSUME HistInit PROVE RetiredInv
  OBVIOUS
<1>1. Total = 0 /\ retired = 0
  BY DEF HistInit, Init, BootState, Total, Uncounted
<1>2. 0 % IcountMod = 0 /\ 0 % NarrowIcountMod = 0 /\ 0 \in Icount
  BY SizeAssumption, IcountModAssumption DEF Icount
<1> QED
  BY <1>1, <1>2 DEF RetiredInv, Count

THEOREM RetiredInvariant == HistSpec => []RetiredInv
  BY InitRetired, NextRetired, HistoryInvariant, PTL DEF HistSpec

\* With a backend that counts in full width the instruction counter is exact: it lags behind the
\* instructions retired by those the running code has still to add, and by nothing else.
THEOREM FullWidthCountsExactly == HistSpec => [](~NarrowIcount => IcountExact)
<1>1. RetiredInv => (~NarrowIcount => IcountExact)
  BY DEF RetiredInv, IcountExact, Total
<1> QED
  BY <1>1, RetiredInvariant, PTL

----------------------------------------------------------------------------
(* Every step executes an instruction, stops the run or brings the next instruction nearer.        *)

\* Code or a block is entered at an instruction.
LEMMA EntryIsNear ==
  ASSUME phase' \in {"interp", "code"}, pos' = 1, Len(Running') > 0, Len(Running') \in Nat
  PROVE  Overhead' = 0
  BY DEF Overhead

\* A block that can be run has an instruction.
LEMMA RunnableHasInsn ==
  ASSUME HistoryInv, NEW a, Complete(a)
  PROVE  Len(m_cacheBB[a].insns) > 0
  BY DEF HistoryInv, StopInv, CacheInv, BlockShape, Complete

LEMMA LookupIsNearer ==
  ASSUME HistoryInv, RunCached \/ FindBlock \/ NewBlock
  PROVE  Overhead' \in 0 .. Overhead - 1
<1>1. Overhead = MaxBlockLen + 3 /\ MaxBlockLen \in Nat /\ cpu.pc \in Word
  BY SizeAssumption
  DEF RunCached, FindBlock, NewBlock, MustLookUpBlock, At, Overhead, HistoryInv, StopInv, TypeInv,
      TypeOK, CPUState
<1>2. CASE RunCached
  <2> DEFINE e == m_tbCache[getHash(cpu.pc)]
  <2>1. ~e.null /\ phase' = "code" /\ pos' = 1 /\ code' = e.code
    BY <1>2 DEF RunCached, Call, lookupHits
  <2>2. Complete(e.gpa) /\ e.code = m_cacheBB[e.gpa].insns /\ e.code \in Seq(Instruction)
    BY <1>1, <2>1, HashType
    DEF HistoryInv, StopInv, TypeInv, TypeOK, TbEntry, CacheInv, TbMatchesBlock
  <2>3. Len(e.code) > 0 /\ Len(e.code) \in Nat
    BY <2>2, RunnableHasInsn
  <2> HIDE DEF e
  <2>4. Overhead' = 0
    BY <2>1, <2>3, EntryIsNear DEF Running
  <2> QED
    BY <1>1, <2>4
<1>3. CASE FindBlock
  BY <1>1, <1>3 DEF FindBlock, Overhead
<1>4. CASE NewBlock
  <2>1. phase' = "collect" /\ Block'.insns = <<>>
    BY <1>4 DEF NewBlock, SetBlock, Block
  <2>2. Overhead' = MaxBlockLen + 2
    BY <1>1, <2>1 DEF Overhead
  <2> QED
    BY <1>1, <2>2
<1> QED
  BY <1>2, <1>3, <1>4

LEMMA CollectingIsNearer ==
  ASSUME HistoryInv, CollectInsn
  PROVE  Overhead' \in 0 .. Overhead - 1
<1> DEFINE n == Len(Block.insns)
<1>1. /\ phase = "collect" /\ phase' \in {"collect", "block"} /\ n < MaxBlockLen
      /\ Fetched \in DOMAIN Decode /\ bbPc' = bbPc
      /\ SetBlock(bbPc, [Block EXCEPT !.insns = Append(@, Decode[Fetched])])
  BY DEF CollectInsn, At
<1>2. Block \in BBInfo /\ Block.insns \in Seq(Instruction) /\ n \in Nat /\ MaxBlockLen \in Nat
  BY <1>1, BlockType, SizeAssumption DEF HistoryInv, StopInv
<1>3. Len(Block'.insns) = n + 1
  <2>1. Block' = [Block EXCEPT !.insns = Append(@, Decode[Fetched])]
    BY <1>1 DEF SetBlock, Block
  <2>2. Block'.insns = Append(Block.insns, Decode[Fetched])
    BY <1>2, <2>1 DEF BBInfo
  <2> QED
    BY <1>1, <1>2, <2>2, DecodeAssumption, Appended
<1>4. Overhead = MaxBlockLen + 2 - n
  BY <1>1 DEF Overhead
<1>5. Overhead' = 1 \/ Overhead' = MaxBlockLen + 2 - (n + 1)
  BY <1>1, <1>3 DEF Overhead
<1> HIDE DEF n
<1> QED
  BY <1>1, <1>2, <1>4, <1>5

LEMMA RunningIsNearer ==
  ASSUME HistoryInv, Translate \/ Interpret
  PROVE  Overhead' \in 0 .. Overhead - 1
<1>1. /\ phase = "block" /\ phase' \in {"interp", "code"} /\ pos' = 1
      /\ Running' = Block.insns
  BY DEF Translate, Interpret, At, Call, cacheVars, Running, Block
<1>2. Complete(bbPc) /\ Len(Block.insns) \in Nat
  BY <1>1, BlockType DEF HistoryInv, StopInv, TypeInv, Complete
<1>3. Overhead = 1 /\ Overhead' = 0
  BY <1>1, <1>2, RunnableHasInsn, EntryIsNear DEF Overhead, Block
<1> QED
  BY <1>3

LEMMA ReturningIsNearer ==
  ASSUME HistoryInv, InterpretEnd \/ CodeReturn
  PROVE  Overhead' \in 0 .. Overhead - 1
<1>1. /\ phase \in {"interp", "code"} /\ phase' = "loop" /\ pos > Len(Running)
      /\ pos \in Nat /\ Len(Running) \in Nat
  BY BlockType
  DEF InterpretEnd, CodeReturn, At, Running, HistoryInv, StopInv, TypeInv, TypeOK
<1>2. Overhead = MaxBlockLen + 4
  BY <1>1 DEF Overhead
<1>3. Overhead' = MaxBlockLen + 3
  BY <1>1 DEF Overhead
<1> QED
  BY <1>2, <1>3, SizeAssumption

LEMMA TerminatedIsStutter ==
  ASSUME HistoryInv, HistNext, UNCHANGED vars
  PROVE  UNCHANGED histVars
<1>1. pos \in Nat /\ UNCHANGED <<pos, phase, cpu, mem>>
  BY DEF HistoryInv, StopInv, TypeInv, TypeOK, vars, guestVars, frameVars
<1>2. ~Translates
  BY <1>1 DEF Translates
<1> QED
  BY <1>1, <1>2 DEF HistNext, histVars, historyVars

\* The next instruction is at most MaxBlockLen + 4 steps away, unless the run stops: what is left
\* for GuestProgress is that the host thread goes on. A count modulo 1 would not show a step.
THEOREM ProgressIsBounded ==
  ASSUME IcountMod > 1
  PROVE  HistSpec => WorkIsBounded
<1>1. ASSUME HistoryInv, RetiredInv, HistNext
      PROVE  Stopped' \/ retired' # retired \/ Overhead' \in 0 .. Overhead - 1 \/ UNCHANGED histVars
  <2>1. CASE InterpretInsn \/ CodeInsn
    <3>1. fault' = "none" => retired' = (retired + 1) % IcountMod
      BY <1>1, <2>1, InsnRetires
    <3>2. (retired + 1) % IcountMod # retired
      <4>1. retired \in 0 .. IcountMod - 1 /\ IcountMod \in Nat
        BY <1>1, IcountModAssumption DEF RetiredInv, Icount
      <4>2. CASE retired + 1 < IcountMod
        <5>1. (retired + 1) % IcountMod = retired + 1
          BY <4>1, <4>2
        <5> QED
          BY <4>1, <5>1
      <4>3. CASE retired + 1 = IcountMod
        <5>1. (retired + 1) % IcountMod = 0
          BY <4>1, <4>3
        <5> QED
          BY <4>1, <4>3, <5>1
      <4> QED
        BY <4>1, <4>2, <4>3
    <3> QED
      BY <3>1, <3>2 DEF Stopped
  <2>2. CASE RunCached \/ FindBlock \/ NewBlock
    BY <1>1, <2>2, LookupIsNearer
  <2>3. CASE CollectInsn
    BY <1>1, <2>3, CollectingIsNearer
  <2>4. CASE Translate \/ Interpret
    BY <1>1, <2>4, RunningIsNearer
  <2>5. CASE InterpretEnd \/ CodeReturn
    BY <1>1, <2>5, ReturningIsNearer
  <2>6. CASE CollectUndecodable \/ CollectOutOfMemory \/ CollectWild \/ TranslateFails \/ RunReturns
    BY <2>6
    DEF CollectUndecodable, CollectOutOfMemory, CollectWild, TranslateFails, RunReturns, Throw,
        Stopped
  <2>7. CASE Terminated
    BY <1>1, <2>7, TerminatedIsStutter DEF Terminated
  <2> QED
    BY <1>1, <2>1, <2>2, <2>3, <2>4, <2>5, <2>6, <2>7
    DEF HistNext, Next, Collect, RunBlock, RunCode
<1>2. HistoryInv /\ RetiredInv /\ [HistNext]_histVars
        => [Stopped' \/ retired' # retired \/ Overhead' \in 0 .. Overhead - 1]_histVars
  BY <1>1
<1> QED
  BY <1>2, HistoryInvariant, RetiredInvariant, PTL DEF HistSpec, WorkIsBounded

----------------------------------------------------------------------------
(* The count printed at the exit.                                          *)

\* The instructions the printed count is short by: the exit call, or its block.
Missing == IF report.by = "code" /\ ~CountsEachInsn THEN Len(Block.insns) ELSE 1

ReportInv ==
  /\ phase = "exited" => cpu.finished
  /\ cpu.finished => (report.icount + Missing) % NarrowIcountMod = retired % NarrowIcountMod

\* Once the guest has finished, its last block and what was printed of it are left alone.
LEMMA FinishedQuiet ==
  ASSUME HistoryInv, [HistNext]_histVars, cpu.finished
  PROVE  cpu'.finished /\ retired' = retired /\ report' = report /\ Missing' = Missing
<1>1. /\ [Next]_vars /\ cpu \in CPUState /\ pos \in Nat /\ Len(code) \in Nat
      /\ \/ phase \in {"loop", "exited"}
         \/ phase = "interp" /\ pos > Len(Block.insns)
         \/ phase = "code" /\ pos > Len(code)
  <2>1. cpu \in CPUState /\ pos \in Nat /\ code \in Seq(Instruction) /\ FinishedInv
    BY DEF HistoryInv, StopInv, TypeInv, TypeOK
  <2> QED
    BY <2>1, HistStepIsStep DEF FinishedInv
<1>2. ~InterpretInsn /\ ~CodeInsn
  <2>1. phase = "interp" => Len(Block.insns) \in Nat
    BY BlockType DEF HistoryInv, StopInv
  <2> QED
    BY <1>1, <2>1 DEF InterpretInsn, CodeInsn, At
<1>3. RunReturns \/ InterpretEnd \/ CodeReturn \/ UNCHANGED vars
  BY <1>1, <1>2
  DEF Next, Collect, RunBlock, RunCode, RunCached, FindBlock, NewBlock, MustLookUpBlock,
      CollectInsn, CollectUndecodable, CollectOutOfMemory, CollectWild, Translate, TranslateFails,
      Interpret, Terminated, At
<1>4. cpu'.finished /\ m_translator' = m_translator /\ bbPc' = bbPc
  BY <1>1, <1>3 DEF RunReturns, InterpretEnd, CodeReturn, vars, engineVars, guestVars, frameVars,
     CPUState
<1>5. Len(Block'.insns) = Len(Block.insns)
  <2>1. CASE InterpretEnd
    <3>1. Block \in BBInfo /\ bbPc \in DOMAIN m_cacheBB
      BY <2>1, BlockType DEF InterpretEnd, At, HistoryInv, StopInv, TypeInv
    <3>2. Block' = [Block EXCEPT !.num_exec = (@ + 1) % NumExecMod]
      BY <1>4, <2>1, <3>1 DEF InterpretEnd, SetBlock, Block
    <3> QED
      BY <3>1, <3>2 DEF BBInfo
  <2>2. CASE m_cacheBB' = m_cacheBB
    BY <1>4, <2>2 DEF Block
  <2> QED
    BY <1>3, <2>1, <2>2 DEF RunReturns, CodeReturn, cacheVars, vars
<1>6. report' = report
  BY DEF HistNext, histVars, historyVars
<1> QED
  BY <1>2, <1>4, <1>5, <1>6, QuietCounts DEF Missing, CountsEachInsn

\* Only an instruction that does not trap finishes the guest, and then it is its block's last.
LEMMA FinishingStep ==
  ASSUME HistoryInv, HistoryInv', [HistNext]_histVars, ~cpu.finished, cpu'.finished
  PROVE  /\ InterpretInsn \/ CodeInsn
         /\ fault' = "none"
         /\ UNCHANGED <<m_translator, phase, Block, code>>
         /\ phase = "code" => pos = Len(Block.insns) /\ pos \in Nat
<1>1. [Next]_vars /\ cpu \in CPUState /\ mem \in Memory /\ pos \in Nat
  BY HistStepIsStep DEF HistoryInv, StopInv, TypeInv, TypeOK
<1>2. InterpretInsn \/ CodeInsn
  BY <1>1
  DEF Next, Collect, RunBlock, RunCode, RunCached, FindBlock, NewBlock, CollectInsn,
      CollectUndecodable, CollectOutOfMemory, CollectWild, Translate, TranslateFails, Call,
      Throw, Interpret, InterpretEnd, CodeReturn, RunReturns, Terminated, guestVars, vars, CPUState
<1>3. UNCHANGED <<m_translator, phase, m_cacheBB, bbPc, code>>
  BY <1>2 DEF InterpretInsn, CodeInsn, engineVars, cacheVars
<1>4. fault' = "none"
  <2>1. CASE InterpretInsn
    <3> DEFINE insn == Block.insns[pos]
               out == Execute(insn, cpu, mem)
    <3>1. insn \in Instruction
      BY <2>1, BlockType DEF InterpretInsn, At, HistoryInv, StopInv, TypeInv, TypeOK
    <3>2. fault' = out.trap /\ (out.trap # "none" => cpu' = out.cpu)
      BY <2>1 DEF InterpretInsn
    <3> HIDE DEF insn
    <3>3. out \in Orderly(insn, cpu, mem)
      BY <1>1, <3>1, ExecuteOrderly
    <3> HIDE DEF out
    <3> QED
      BY <3>2, <3>3, OrderlyStops
  <2>2. CASE CodeInsn
    <3>1. PICK out \in After(m_translator, code[pos], RunningOn, mem) : Leaves(out)
      BY <2>2, CodeInsnRuns DEF HistoryInv, StopInv
    <3>2. out \in Orderly(code[pos], RunningOn, mem) /\ ~RunningOn.finished
      BY <2>2, <3>1, CodeInsnRuns, AfterOrderly DEF HistoryInv, StopInv
    <3>3. cpu'.finished = out.cpu.finished \/ out.trap = "none"
      BY <3>1, <3>2, StoredType DEF Leaves, Orderly, HistoryInv, StopInv
    <3>4. out.trap # "none" => out.cpu = RunningOn
      BY <3>2, OrderlyStops
    <3>5. fault' = out.trap
      BY <3>1 DEF Leaves
    <3> QED
      BY <3>2, <3>3, <3>4, <3>5
  <2> QED
    BY <1>2, <2>1, <2>2
<1>5. phase = "code" => pos = Len(Block.insns)
  <2> SUFFICES ASSUME phase = "code" PROVE pos = Len(Block.insns)
    OBVIOUS
  <2>1. CodeInsn /\ pos <= Len(code) /\ Len(code) \in Nat /\ code = Block.insns
    <3>1. CodeInsn /\ pos <= Len(code)
      BY <1>2 DEF CodeInsn, InterpretInsn, At
    <3>2. code \in Seq(Instruction) /\ code = Block.insns
      BY DEF HistoryInv, StopInv, TypeInv, TypeOK, CacheInv, PcFollowsBlock
    <3> QED
      BY <3>1, <3>2
  <2>2. pos' = pos + 1 /\ pos' > Len(code)
    BY <1>3, <1>4, <2>1, CodeInsnCounts DEF HistoryInv, StopInv, FinishedInv, CountsInsn
  <2> QED
    BY <1>1, <2>1, <2>2
<1> QED
  BY <1>1, <1>2, <1>3, <1>4, <1>5 DEF Block

LEMMA NextReport ==
  ASSUME HistoryInv, HistoryInv', RetiredInv, RetiredInv', ReportInv, [HistNext]_histVars
  PROVE  ReportInv'
<1>1. phase' = "exited" => cpu'.finished
  <2>1. [Next]_vars
    BY HistStepIsStep
  <2>2. CASE phase = "exited"
    BY <2>2, FinishedQuiet DEF ReportInv
  <2>3. CASE phase # "exited" /\ phase' = "exited"
    BY <2>1, <2>3
    DEF Next, Collect, RunBlock, RunCode, RunCached, FindBlock, NewBlock, CollectInsn,
        CollectUndecodable, CollectOutOfMemory, CollectWild, Translate, TranslateFails, Call,
        Throw, Interpret, InterpretInsn, InterpretEnd, CodeInsn, CodeReturn, RunReturns,
        Terminated, guestVars, vars
  <2> QED
    BY <2>2, <2>3
<1>2. CASE cpu.finished
  BY <1>1, <1>2, FinishedQuiet DEF ReportInv
<1>3. CASE ~cpu.finished /\ ~cpu'.finished
  BY <1>1, <1>3 DEF ReportInv
<1>4. CASE ~cpu.finished /\ cpu'.finished
  <2>1. /\ InterpretInsn \/ CodeInsn
        /\ fault' = "none"
        /\ UNCHANGED <<m_translator, phase, Block, code>>
        /\ phase = "code" => pos = Len(Block.insns) /\ pos \in Nat
    BY <1>4, FinishingStep
  <2>2. HistNext /\ CountsInsn /\ phase \in {"interp", "code"}
    BY <2>1, InsnRetires
  <2>3. report' = [by |-> phase, icount |-> cpu.icount]
    BY <1>4, <2>2 DEF HistNext
  <2>4. retired' % NarrowIcountMod = (Total + 1) % NarrowIcountMod
    <3>1. Count' = (Count + 1) % NarrowIcountMod /\ Total \in Int
      BY <2>1, <2>2, InsnCounts, GuestShaped DEF HistoryInv, StopInv, GuestShape
    <3> QED
      BY <3>1, CountedOneMore DEF RetiredInv, Count
  <2>5. Total + 1 = report'.icount + Missing'
    <3>1. cpu.icount \in Int
      BY IcountModAssumption DEF HistoryInv, StopInv, TypeInv, TypeOK, CPUState, Icount
    <3>2. CASE phase = "code" /\ ~CountsEachInsn
      BY <2>1, <2>3, <3>1, <3>2 DEF Missing, Total, Uncounted, CountsEachInsn
    <3>3. CASE ~(phase = "code" /\ ~CountsEachInsn)
      BY <2>1, <2>3, <3>1, <3>3 DEF Missing, Total, Uncounted, CountsEachInsn
    <3> QED
      BY <3>2, <3>3
  <2> QED
    BY <1>1, <2>4, <2>5 DEF ReportInv
<1> QED
  BY <1>2, <1>3, <1>4

\* The count printed at the exit is short by the exit call alone, or by its whole block: which of
\* the two depends on the backend and on whether the last block was hot, and on nothing else.
THEOREM ReportIsShort == HistSpec => []ExitReport
<1>1. HistInit => ReportInv
  BY DEF HistInit, Init, BootState, ReportInv
<1>2. HistoryInv /\ HistoryInv' /\ RetiredInv /\ RetiredInv' /\ ReportInv /\ [HistNext]_histVars
        => ReportInv'
  BY NextReport
<1>3. HistSpec => []ReportInv
  BY <1>1, <1>2, HistoryInvariant, RetiredInvariant, PTL DEF HistSpec
<1>4. ReportInv => ExitReport
  BY DEF ReportInv, ExitReport, Missing
<1> QED
  BY <1>3, <1>4, PTL

----------------------------------------------------------------------------
(* Translating again.                                                      *)

\* What was translated last for a slot is there, unless its code is running for the first time;
\* and a block is collected or looked at only when no translation of it was found.
LatestInv ==
  /\ latest \in [TbSlot -> Word \cup {NoAddr}]
  /\ \A s \in TbSlot : \/ latest[s] = NoAddr
                       \/ phase = "code" /\ fresh /\ s = getHash(bbPc)
                       \/ ~m_tbCache[s].null /\ m_tbCache[s].gpa = latest[s]
  /\ phase = "code" /\ fresh => latest[getHash(bbPc)] = bbPc
  /\ phase \in {"collect", "block"} /\ HasTranslator => ~lookupHits(bbPc)

\* Only Translate goes from a block to its code, and it finds another block's translation, or none.
LEMMA TranslatesAnew ==
  ASSUME HistoryInv, LatestInv, [Next]_vars, Translates
  PROVE  Translate /\ bbPc \in Word /\ latest[getHash(bbPc)] # bbPc
<1>1. Translate
  BY DEF Translates, Next, Collect, RunBlock, RunCode, RunCached, FindBlock, NewBlock,
     MustLookUpBlock, CollectInsn, CollectUndecodable, CollectOutOfMemory, CollectWild,
     TranslateFails, Throw, Interpret, InterpretInsn, InterpretEnd, CodeInsn, CodeReturn,
     RunReturns, Terminated, At, vars
<1>2. bbPc \in Word /\ getHash(bbPc) \in TbSlot
  BY HashType DEF HistoryInv, StopInv, TypeInv, TypeOK
<1>3. bbPc # NoAddr
  BY <1>2, ModsOrdered DEF NoAddr, Word
<1>4. ~lookupHits(bbPc) /\ phase = "block"
  BY <1>1 DEF Translate, At, Hot, LatestInv
<1> QED
  BY <1>1, <1>2, <1>3, <1>4 DEF LatestInv, lookupHits

LEMMA InitLatest == HistInit => LatestInv
  BY DEF HistInit, Init, LatestInv

LEMMA NextLatest ==
  ASSUME HistoryInv, LatestInv, [HistNext]_histVars
  PROVE  LatestInv'
<1>1. [Next]_vars
  BY HistStepIsStep
<1>2. /\ bbPc \in Word /\ cpu.pc \in Word /\ getHash(bbPc) \in TbSlot
      /\ m_tbCache \in [TbSlot -> TbEntry]
  BY HashType DEF HistoryInv, StopInv, TypeInv, TypeOK, CPUState
<1>3. CASE Translates
  <2>1. /\ Translate /\ phase' = "code" /\ fresh' /\ bbPc' = bbPc /\ m_tbCache' = m_tbCache
    BY <1>1, <1>3, TranslatesAnew DEF Translate, Call, cacheVars
  <2>2. latest' = [latest EXCEPT ![getHash(bbPc)] = bbPc]
    BY <1>3 DEF HistNext, histVars, vars, Translates
  <2>3. getHash(bbPc)' = getHash(bbPc)
    BY <2>1 DEF getHash
  <2> QED
    BY <1>2, <2>1, <2>2, <2>3 DEF LatestInv
<1>4. CASE ~Translates
  <2>1. latest' = latest
    BY <1>4 DEF HistNext, histVars, historyVars
  <2>2. CASE CodeReturn
    <3>1. /\ phase = "code" /\ phase' = "loop"
          /\ m_tbCache' = IF fresh
                          THEN [m_tbCache EXCEPT ![getHash(bbPc)] =
                                  [null |-> FALSE, code |-> code, gpa |-> bbPc]]
                          ELSE m_tbCache
      BY <2>2 DEF CodeReturn, At
    <3>2. ASSUME NEW s \in TbSlot, latest[s] # NoAddr
          PROVE  ~m_tbCache'[s].null /\ m_tbCache'[s].gpa = latest[s]
      <4>1. CASE fresh /\ s = getHash(bbPc)
        BY <1>2, <3>1, <4>1 DEF LatestInv
      <4>2. CASE ~(fresh /\ s = getHash(bbPc))
        BY <1>2, <3>1, <3>2, <4>2 DEF LatestInv
      <4> QED
        BY <4>1, <4>2
    <3> QED
      BY <2>1, <3>1, <3>2 DEF LatestInv
  <2>3. CASE ~CodeReturn
    <3>1. m_tbCache' = m_tbCache
      BY <1>1, <2>3
      DEF Next, Collect, RunBlock, RunCode, RunCached, FindBlock, NewBlock, CollectInsn,
          CollectUndecodable, CollectOutOfMemory, CollectWild, Translate, TranslateFails, Call,
          Throw, Interpret, InterpretInsn, InterpretEnd, CodeInsn, RunReturns, Terminated,
          cacheVars, vars
    <3>2. CASE RunCached
      BY <2>1, <3>1, <3>2 DEF RunCached, At, Call, LatestInv
    <3>3. CASE FindBlock \/ NewBlock
      <4>1. /\ phase = "loop" /\ phase' \in {"collect", "block"} /\ bbPc' = cpu.pc
            /\ HasTranslator' = HasTranslator /\ (HasTranslator => ~lookupHits(cpu.pc))
        BY <3>3 DEF FindBlock, NewBlock, MustLookUpBlock, At, engineVars, HasTranslator
      <4>2. HasTranslator' => ~lookupHits(bbPc)'
        BY <3>1, <4>1 DEF lookupHits, getHash
      <4> QED
        BY <2>1, <3>1, <4>1, <4>2 DEF LatestInv
    <3>4. CASE /\ UNCHANGED <<m_translator, bbPc, fresh>>
               /\ phase' = "code" => phase = "code"
               /\ phase = "code" => phase' = "code"
               /\ phase' \in {"collect", "block"} => phase \in {"collect", "block"}
      <4>1. /\ getHash(bbPc)' = getHash(bbPc) /\ HasTranslator' = HasTranslator
            /\ lookupHits(bbPc)' = lookupHits(bbPc)
        BY <3>1, <3>4 DEF getHash, HasTranslator, lookupHits
      <4> QED
        BY <2>1, <3>1, <3>4, <4>1 DEF LatestInv
    <3> QED
      BY <1>1, <1>4, <2>3, <3>2, <3>3, <3>4
      DEF Next, Collect, RunBlock, RunCode, CollectInsn, CollectUndecodable, CollectOutOfMemory,
          CollectWild, Translate, TranslateFails, Call, Throw, Interpret, InterpretInsn,
          InterpretEnd, CodeInsn, RunReturns, Terminated, Translates, At, engineVars, frameVars, vars
  <2> QED
    BY <2>2, <2>3
<1> QED
  BY <1>3, <1>4

\* Nothing is translated twice running: between two translations of a block, another block of its
\* slot has been translated.
THEOREM TranslatesOncePerCollision == HistSpec => RetranslatesOnlyOnCollision
<1>1. HistSpec => []LatestInv
  BY InitLatest, NextLatest, HistoryInvariant, PTL DEF HistSpec
<1>2. HistoryInv /\ LatestInv /\ [HistNext]_histVars
        => [Translates => latest[getHash(bbPc)] # bbPc]_histVars
  BY HistStepIsStep, TranslatesAnew
<1> QED
  BY <1>1, <1>2, HistoryInvariant, PTL DEF HistSpec, RetranslatesOnlyOnCollision

----------------------------------------------------------------------------
(* The profile.                                                            *)

\* A multiple of the modulus more leaves the same remainder.
LEMMA ModShift ==
  ASSUME NEW n \in Int, NEW m \in Nat, m > 0, NEW k \in Int
  PROVE  (n + m * k) % m = n % m
<1> DEFINE q == n \div m
           p == (n + m * k) \div m
           r == n % m
           s == (n + m * k) % m
<1>1. q \in Int /\ n = m * q + r /\ r \in 0 .. m - 1
  BY DivMod, ModRange
<1>2. p \in Int /\ n + m * k = m * p + s /\ s \in 0 .. m - 1
  <2>1. n + m * k \in Int
    OBVIOUS
  <2> QED
    BY <2>1, DivMod, ModRange
<1> HIDE DEF q, p, r, s
<1>3. m * (q + k) + r = m * p + s /\ q + k \in Int
  <2>1. m * (q + k) = m * q + m * k
    BY <1>1
  <2> QED
    BY <2>1, <1>1, <1>2
<1>4. r = s
  BY <1>1, <1>2, <1>3, RemainderUnique
<1> QED
  BY <1>4 DEF r, s

LEMMA RunsCounted ==
  ASSUME NEW a, NEW n \in Nat, NEW l \in Nat
  PROVE  /\ IsFiniteSet({a} \X ((1 .. n) \X (1 .. l)))
         /\ Cardinality({a} \X ((1 .. n) \X (1 .. l))) = n * l
<1> DEFINE visits == 1 .. n
           places == 1 .. l
<1>1. IsFiniteSet(visits) /\ Cardinality(visits) = n
  BY FS_Interval
<1>2. IsFiniteSet(places) /\ Cardinality(places) = l
  BY FS_Interval
<1>3. IsFiniteSet({a}) /\ Cardinality({a}) = 1
  BY FS_Singleton
<1> HIDE DEF visits, places
<1>4. /\ IsFiniteSet(visits \X places)
      /\ Cardinality(visits \X places) = Cardinality(visits) * Cardinality(places)
  BY <1>1, <1>2, FS_Product, Zenon
<1>5. /\ IsFiniteSet({a} \X (visits \X places))
      /\ Cardinality({a} \X (visits \X places)) = Cardinality({a}) * Cardinality(visits \X places)
  BY <1>3, <1>4, FS_Product, Zenon
<1>6. 1 * (n * l) = n * l
  OBVIOUS
<1> QED
  BY <1>1, <1>2, <1>3, <1>4, <1>5, <1>6 DEF visits, places

\* A profile is that of one block and that of the others.
RunsOfOthers(blocks, b) == UNION {{a} \X RunsOf(blocks[a]) : a \in DOMAIN blocks \ {b}}

LEMMA ProfileSplit ==
  ASSUME NEW blocks, NEW b \in DOMAIN blocks, blocks[b] \in BBInfo,
         IsFiniteSet(RunsOfOthers(blocks, b)),
         NEW all, all = UNION {{a} \X RunsOf(blocks[a]) : a \in DOMAIN blocks}
  PROVE  /\ IsFiniteSet(all) /\ Cardinality(RunsOfOthers(blocks, b)) \in Nat
         /\ Cardinality(all) = Cardinality(RunsOfOthers(blocks, b))
                                + blocks[b].num_exec * Len(blocks[b].insns)
<1> DEFINE n == blocks[b].num_exec
           l == Len(blocks[b].insns)
           others == RunsOfOthers(blocks, b)
           own == {b} \X RunsOf(blocks[b])
<1>1. n \in Nat /\ l \in Nat
  BY SizeAssumption DEF BBInfo, NumExec
<1>2. IsFiniteSet(own) /\ Cardinality(own) = n * l
  <2>1. own = {b} \X ((1 .. n) \X (1 .. l))
    BY DEF RunsOf
  <2> HIDE DEF n, l, own
  <2> QED
    BY <1>1, <2>1, RunsCounted, Zenon
<1>3. all = others \cup own
  BY DEF RunsOfOthers
<1>4. others \cap own = {}
  BY DEF RunsOfOthers
<1>5. n * l \in Nat
  BY <1>1
<1> HIDE DEF n, l, others, own
<1>6. /\ IsFiniteSet(all)
      /\ Cardinality(all) = Cardinality(others) + Cardinality(own) - Cardinality({})
  BY <1>2, <1>3, <1>4, FS_Union DEF others
<1>7. Cardinality({}) = 0 /\ Cardinality(others) \in Nat
  BY FS_EmptySet, FS_CardinalityType DEF others
<1>8. Cardinality(all) = Cardinality(others) + n * l
  BY <1>2, <1>5, <1>6, <1>7
<1> QED
  BY <1>6, <1>7, <1>8 DEF n, l, others

\* The block being collected has not been run yet.
ProfileInv ==
  /\ IsFiniteSet(Profile)
  /\ phase = "collect" => Block.num_exec = 0
  /\ ProfileAccounts

\* Instructions of the block being interpreted.
Begun == IF phase = "interp" THEN pos - 1 ELSE 0

LEMMA SameProfile ==
  ASSUME HistoryInv, ProfileInv, [Next]_vars, ~InterpretEnd
  PROVE  Profile' = Profile /\ (phase' = "collect" => Block'.num_exec = 0)
<1>1. /\ \A a \in DOMAIN m_cacheBB : m_cacheBB[a] \in BBInfo
      /\ phase = "collect" => bbPc \in DOMAIN m_cacheBB
  BY DEF HistoryInv, StopInv, TypeInv, TypeOK
<1>2. CASE NewBlock
  <2>1. /\ cpu.pc \notin DOMAIN m_cacheBB /\ bbPc' = cpu.pc
        /\ DOMAIN m_cacheBB' = DOMAIN m_cacheBB \cup {cpu.pc}
        /\ \A a \in DOMAIN m_cacheBB : m_cacheBB'[a] = m_cacheBB[a]
        /\ m_cacheBB'[cpu.pc] = [insns |-> <<>>, num_exec |-> 0]
    BY <1>2 DEF NewBlock, SetBlock
  <2>2. {cpu.pc} \X RunsOf(m_cacheBB'[cpu.pc]) = {}
    BY <2>1 DEF RunsOf
  <2> QED
    BY <2>1, <2>2 DEF Profile, Block
<1>3. CASE CollectInsn
  <2>1. /\ bbPc \in DOMAIN m_cacheBB /\ bbPc' = bbPc /\ m_cacheBB[bbPc].num_exec = 0
        /\ DOMAIN m_cacheBB' = DOMAIN m_cacheBB
        /\ \A a \in DOMAIN m_cacheBB \ {bbPc} : m_cacheBB'[a] = m_cacheBB[a]
        /\ m_cacheBB'[bbPc].num_exec = 0
    BY <1>1, <1>3 DEF CollectInsn, At, SetBlock, Block, ProfileInv, BBInfo
  <2>2. RunsOf(m_cacheBB[bbPc]) = {} /\ RunsOf(m_cacheBB'[bbPc]) = {}
    BY <2>1 DEF RunsOf
  <2>3. \A a \in DOMAIN m_cacheBB : {a} \X RunsOf(m_cacheBB'[a]) = {a} \X RunsOf(m_cacheBB[a])
    BY <2>1, <2>2
  <2> QED
    BY <2>1, <2>3 DEF Profile, Block
<1>4. CASE ~NewBlock /\ ~CollectInsn
  <2>1. m_cacheBB' = m_cacheBB /\ (phase' = "collect" => phase = "collect" /\ bbPc' = bbPc)
    BY <1>4
    DEF Next, Collect, RunBlock, RunCode, RunCached, FindBlock, CollectUndecodable,
        CollectOutOfMemory, CollectWild, Translate, TranslateFails, Call, Throw, Interpret,
        InterpretInsn, CodeInsn, CodeReturn, RunReturns, Terminated, At, cacheVars, frameVars, vars
  <2> QED
    BY <2>1 DEF Profile, RunsOf, Block, ProfileInv
<1> QED
  BY <1>2, <1>3, <1>4

LEMMA InterpretEndProfile ==
  ASSUME HistoryInv, ProfileInv, InterpretEnd
  PROVE  /\ IsFiniteSet(Profile')
         /\ Cardinality(Profile') % IcountMod = (Cardinality(Profile) + Begun) % IcountMod
<1> DEFINE n == Block.num_exec
           l == Len(Block.insns)
           others == Cardinality(RunsOfOthers(m_cacheBB, bbPc))
<1>1. /\ bbPc \in DOMAIN m_cacheBB /\ Block \in BBInfo /\ bbPc' = bbPc
      /\ DOMAIN m_cacheBB' = DOMAIN m_cacheBB
      /\ \A a \in DOMAIN m_cacheBB \ {bbPc} : m_cacheBB'[a] = m_cacheBB[a]
      /\ m_cacheBB'[bbPc] = [Block EXCEPT !.num_exec = (n + 1) % NumExecMod]
      /\ phase = "interp" /\ pos > l /\ pos \in Nat
  BY DEF InterpretEnd, At, SetBlock, Block, frameVars, HistoryInv, StopInv, TypeInv, TypeOK
<1>2. /\ n \in NumExec /\ l \in Nat /\ NumExecMod \in Nat /\ NumExecMod > 0
      /\ IcountMod \in Nat /\ IcountMod > 0
  BY <1>1, SizeAssumption, IcountModAssumption DEF BBInfo
<1>3. Begun = l
  <2>1. pos \in 1 .. l + 1
    BY <1>1 DEF HistoryInv, StopInv, CacheInv, PcFollowsBlock, Running
  <2> QED
    BY <1>1, <1>2, <2>1 DEF Begun
<1>4. /\ RunsOfOthers(m_cacheBB', bbPc) = RunsOfOthers(m_cacheBB, bbPc)
      /\ IsFiniteSet(RunsOfOthers(m_cacheBB, bbPc))
  <2>1. RunsOfOthers(m_cacheBB', bbPc) = RunsOfOthers(m_cacheBB, bbPc)
    BY <1>1 DEF RunsOfOthers
  <2>2. RunsOfOthers(m_cacheBB, bbPc) \in SUBSET Profile
    BY DEF RunsOfOthers, Profile
  <2> QED
    BY <2>1, <2>2, FS_Subset DEF ProfileInv
<1>5. others \in Nat /\ Cardinality(Profile) = others + n * l
  BY <1>1, <1>4, ProfileSplit DEF Block, Profile
<1>6. IsFiniteSet(Profile') /\ Cardinality(Profile') = others + ((n + 1) % NumExecMod) * l
  <2>1. /\ m_cacheBB'[bbPc] \in BBInfo /\ m_cacheBB'[bbPc].num_exec = (n + 1) % NumExecMod
        /\ m_cacheBB'[bbPc].insns = Block.insns /\ bbPc \in DOMAIN m_cacheBB'
    <3>1. (n + 1) % NumExecMod \in NumExec
      BY <1>2, ModRange DEF NumExec
    <3> QED
      BY <1>1, <3>1 DEF BBInfo
  <2>2. Profile' = UNION {{a} \X RunsOf(m_cacheBB'[a]) : a \in DOMAIN m_cacheBB'}
    BY DEF Profile
  <2> QED
    BY <1>4, <2>1, <2>2, ProfileSplit
<1> HIDE DEF n, l, others
<1>7. CASE n + 1 < NumExecMod
  <2>1. (n + 1) % NumExecMod = n + 1
    BY <1>2, <1>7 DEF NumExec
  <2>2. others + (n + 1) * l = (others + n * l) + l
    BY <1>2, <1>5 DEF NumExec
  <2> QED
    BY <1>3, <1>5, <1>6, <2>1, <2>2
<1>8. CASE n + 1 = NumExecMod
  <2> DEFINE k == NumExecMod \div IcountMod
  <2>1. k \in Int /\ NumExecMod = IcountMod * k
    BY <1>2, DivMod, NumExecAssumption
  <2>2. (n + 1) % NumExecMod = 0
    BY <1>2, <1>8
  <2> HIDE DEF k
  <2>3. (others + n * l) + l = others + IcountMod * (k * l)
    <3>1. (others + n * l) + l = others + (n + 1) * l
      BY <1>2, <1>5 DEF NumExec
    <3>2. (IcountMod * k) * l = IcountMod * (k * l)
      BY <1>2, <2>1
    <3> QED
      BY <1>8, <2>1, <3>1, <3>2
  <2>4. k * l \in Int /\ others + 0 * l = others
    BY <1>2, <1>5, <2>1
  <2>5. (others + IcountMod * (k * l)) % IcountMod = others % IcountMod
    BY <1>2, <1>5, <2>4, ModShift
  <2> QED
    BY <1>3, <1>5, <1>6, <2>2, <2>3, <2>4, <2>5
<1> QED
  BY <1>2, <1>6, <1>7, <1>8 DEF NumExec

LEMMA NextProfile ==
  ASSUME HistoryInv, RetiredInv, ProfileInv, [HistNext]_histVars
  PROVE  ProfileInv'
<1>1. [Next]_vars /\ (phase \in {"interp", "code"} => pos \in Nat)
  BY HistStepIsStep DEF HistoryInv, StopInv, TypeInv, TypeOK
<1>2. m_translator' = m_translator /\ (HasTranslator' <=> HasTranslator)
  <2>1. m_translator' = m_translator
    BY <1>1
    DEF Next, Collect, RunBlock, RunCode, RunCached, FindBlock, NewBlock, CollectInsn,
        CollectUndecodable, CollectOutOfMemory, CollectWild, Translate, TranslateFails, Call, Throw,
        Interpret, InterpretInsn, InterpretEnd, CodeInsn, CodeReturn, RunReturns, Terminated,
        engineVars, vars
  <2> QED
    BY <2>1 DEF HasTranslator
<1>3. CASE InterpretEnd
  <2>1. ~InterpretInsn /\ ~CodeInsn
    BY <1>3 DEF InterpretEnd, InterpretInsn, CodeInsn, At
  <2>2. retired' = retired /\ phase' = "loop"
    BY <1>3, <2>1, QuietCounts DEF InterpretEnd
  <2>3. /\ IsFiniteSet(Profile') /\ Cardinality(Profile') \in Nat
        /\ Cardinality(Profile') % IcountMod = (Cardinality(Profile) + Begun) % IcountMod
    BY <1>3, InterpretEndProfile, FS_CardinalityType
  <2>4. ~HasTranslator => retired = (Cardinality(Profile) + Begun) % IcountMod
    BY DEF ProfileInv, ProfileAccounts, Begun
  <2>5. ProfileAccounts'
    BY <1>2, <2>2, <2>3, <2>4 DEF ProfileAccounts
  <2> QED
    BY <2>2, <2>3, <2>5 DEF ProfileInv
<1>4. CASE ~InterpretEnd
  <2>1. Profile' = Profile /\ (phase' = "collect" => Block'.num_exec = 0)
    BY <1>1, <1>4, SameProfile
  <2>2. CASE CodeInsn
    <3>1. HasTranslator
      BY <2>2 DEF CodeInsn, At, HistoryInv, StopInv, CacheInv, PhaseInv
    <3> QED
      BY <1>2, <2>1, <3>1 DEF ProfileInv, ProfileAccounts
  <2>3. CASE InterpretInsn
    <3> DEFINE done == Cardinality(Profile)
    <3>1. done \in Int /\ Begun \in Int /\ done + Begun \in Int
      BY <1>1, FS_CardinalityType DEF ProfileInv, Begun
    <3>2. /\ phase = "interp" /\ phase' = "interp"
          /\ fault' = "none" => pos' = pos + 1 /\ retired' = (retired + 1) % IcountMod
          /\ fault' # "none" => pos' = pos /\ retired' = retired
      BY <2>3, InsnRetires DEF InterpretInsn, At
    <3> HIDE DEF done
    <3>3. CASE fault' = "none" /\ ~HasTranslator
      <4>1. Begun' = Begun + 1
        BY <1>1, <3>2, <3>3 DEF Begun
      <4>2. (((done + Begun) % IcountMod) + 1) % IcountMod = (done + Begun + 1) % IcountMod
        BY <3>1, ModSum, IcountModAssumption
      <4>3. retired = (done + Begun) % IcountMod
        BY <3>3 DEF ProfileInv, ProfileAccounts, Begun, done
      <4>4. retired' = (done + Begun') % IcountMod
        BY <3>1, <3>2, <3>3, <4>1, <4>2, <4>3
      <4> QED
        BY <2>1, <4>4 DEF ProfileInv, ProfileAccounts, Begun, done
    <3>4. CASE fault' # "none" \/ HasTranslator
      BY <1>2, <2>1, <3>2, <3>4 DEF ProfileInv, ProfileAccounts
    <3> QED
      BY <3>3, <3>4
  <2>4. CASE ~InterpretInsn /\ ~CodeInsn
    <3>1. retired' = retired
      BY <2>4, QuietCounts
    <3>2. Begun' = Begun
      <4>1. CASE phase' = "interp" /\ phase # "interp"
        BY <1>1, <1>4, <2>4, <4>1
        DEF Next, Collect, RunBlock, RunCode, RunCached, FindBlock, NewBlock, CollectInsn,
            CollectUndecodable, CollectOutOfMemory, CollectWild, Translate, TranslateFails, Call,
            Throw, Interpret, CodeReturn, RunReturns, Terminated, vars, Begun
      <4>2. CASE phase = "interp"
        BY <1>1, <1>4, <2>4, <4>2
        DEF Next, Collect, RunBlock, RunCode, RunCached, FindBlock, NewBlock, MustLookUpBlock,
            CollectInsn, CollectUndecodable, CollectOutOfMemory, CollectWild, Translate,
            TranslateFails, Interpret, CodeReturn, RunReturns, Terminated, At, frameVars, vars, Begun
      <4> QED
        BY <4>1, <4>2 DEF Begun
    <3> QED
      BY <1>2, <2>1, <3>1, <3>2 DEF ProfileInv, ProfileAccounts, Begun
  <2> QED
    BY <2>2, <2>3, <2>4
<1> QED
  BY <1>3, <1>4

\* Nothing is run that the execution counters miss, and they count nothing that was not run:
\* without a translator they are an exact profile, whatever the blocks overlap and wherever the
\* guest has jumped into them.
THEOREM ProfileIsExact == HistSpec => []ProfileAccounts
<1>1. HistInit => ProfileInv
  <2> SUFFICES ASSUME HistInit PROVE ProfileInv
    OBVIOUS
  <2>1. Profile = {} /\ retired = 0 /\ phase = "loop"
    BY DEF HistInit, Init, Profile
  <2>2. IsFiniteSet({}) /\ Cardinality({}) = 0
    BY FS_EmptySet
  <2>3. 0 % IcountMod = 0
    BY IcountModAssumption
  <2> QED
    BY <2>1, <2>2, <2>3 DEF ProfileInv, ProfileAccounts
<1>2. HistSpec => []ProfileInv
  BY <1>1, NextProfile, HistoryInvariant, RetiredInvariant, PTL DEF HistSpec
<1>3. ProfileInv => ProfileAccounts
  BY DEF ProfileInv
<1> QED
  BY <1>2, <1>3, PTL

=============================================================================
