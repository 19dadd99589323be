----------------------------- MODULE JitHistory -----------------------------
(***************************************************************************)
(* JitEngine beside the record of what it has done: the words every        *)
(* address has held, the instructions retired, the count printed at the    *)
(* exit, and what was translated last for each slot of the translation     *)
(* cache.  The engine reads none of them; they are what it is compared     *)
(* with.                                                                   *)
(***************************************************************************)
EXTENDS JitEngine, FiniteSets

VARIABLES held,     \* the words memory has held at each address so far
          retired,  \* instructions executed so far, modulo IcountMod
          report,   \* what doExit has printed as Icount, and from which phase
          latest    \* per slot, the address translated last, or NoAddr

historyVars == <<held, retired, report, latest>>
histVars == <<vars, historyVars>>

FetchAddr == {a \in Word : InMapping(a, kWordSize)}
Holding(h, m) ==
  [a \in Word |-> IF a \in FetchAddr THEN h[a] \cup {WordAt(m, a)} ELSE h[a]]

NoAddr == WordMod
NoReport == [by |-> "none", icount |-> 0]

\* step calls translate.
Translates == phase = "block" /\ phase' = "code"

HistInit ==
  /\ Init
  /\ held = Holding([a \in Word |-> {}], mem)
  /\ retired = 0
  /\ report = NoReport
  /\ latest = [s \in TbSlot |-> NoAddr]

HistNext ==
  /\ Next
  /\ held' = IF mem' = mem THEN held ELSE Holding(held, mem')
  /\ retired' = IF phase \in {"interp", "code"} /\ pos' = pos + 1
                THEN (retired + 1) % IcountMod ELSE retired
  /\ report' = IF ~cpu.finished /\ cpu'.finished
               THEN [by |-> phase, icount |-> cpu.icount] ELSE report
  /\ latest' = IF Translates THEN [latest EXCEPT ![getHash(bbPc)] = bbPc] ELSE latest

HistSpec == HistInit /\ [][HistNext]_histVars
HistFairSpec == HistSpec /\ WF_histVars(HistNext)

----------------------------------------------------------------------------
\* Instructions the running code has executed and not yet added to icount.
Uncounted == IF phase = "code" /\ ~CountsEachInsn THEN pos - 1 ELSE 0

\* icount is the number of retired instructions whenever the engine is between
\* blocks, and lags by exactly what the running code has still to add: no path
\* through cache, interpreter and translated code drops or repeats one.
IcountExact == (cpu.icount + Uncounted) % IcountMod = retired

\* The count printed at the exit is of the instructions in front of the exit call, or
\* in front of its whole block where translated code counts at its end: for one guest
\* it depends on the backend and on whether the last block had become hot.
ExitReport ==
  phase = "exited" =>
    LET missing == IF report.by = "code" /\ ~CountsEachInsn THEN Len(Block.insns) ELSE 1
    IN  (report.icount + missing) % NarrowIcountMod = retired % NarrowIcountMod

\* A block is translated again, and its old code left behind, only after another block
\* of its slot has been translated: translate is not called in vain.
RetranslatesOnlyOnCollision ==
  [][Translates => latest[getHash(bbPc)] # bbPc]_histVars

\* Without a translator the execution counters are a profile of the run: together
\* with the block being interpreted they account for every retired instruction.
RunsOf(bb) == (1 .. bb.num_exec) \X (1 .. Len(bb.insns))
Profile == UNION {{a} \X RunsOf(m_cacheBB[a]) : a \in DOMAIN m_cacheBB}
ProfileAccounts ==
  ~HasTranslator =>
    retired = (Cardinality(Profile) + IF phase = "interp" THEN pos - 1 ELSE 0) % IcountMod

\* Every cached instruction was decoded from a word its address has held, whatever
\* has been stored over the text since.
BlocksWereText ==
  \A a \in DOMAIN m_cacheBB : \A i \in 1 .. Len(m_cacheBB[a].insns) :
    \E w \in held[ToWord(a + kWordSize * (i - 1))] \cap DOMAIN Decode :
      Decode[w] = m_cacheBB[a].insns[i]

\* The guest always gets on: either the run ends or instructions are executed again
\* and again -- collecting a block ends, and no block is run that is empty.
GuestProgress == <>Stopped \/ []<><<retired' # retired>>_histVars

\* What the engine may still have to do before it executes the next instruction: return to
\* its loop, look the block up, collect as much as a block may hold, and translate it.
Overhead ==
  CASE phase \in {"interp", "code"} -> IF pos <= Len(Running) THEN 0 ELSE MaxBlockLen + 4
    [] phase = "loop" -> MaxBlockLen + 3
    [] phase = "collect" -> MaxBlockLen + 2 - Len(Block.insns)
    [] OTHER -> 1

\* Every step executes an instruction, stops the run or brings the next instruction nearer:
\* no path through lookup, collecting, translation and eviction comes back to where it was
\* without having executed anything (the loops of step and of Hart::run).
WorkIsBounded == [][Stopped' \/ retired' # retired \/ Overhead' \in 0 .. Overhead - 1]_histVars

----------------------------------------------------------------------------
(* The promise: the pc and the counter the guest machine has are those the *)
(* running code holds, counted modulo the narrowest counter.               *)

guestCpu ==
  [cpu EXCEPT !.pc = GuestPc,
              !.icount = ((@ + Uncounted) % IcountMod) % NarrowIcountMod]

\* What the backend's emitted code does otherwise than the interpreter.
guestLiberties ==
  CASE m_translator = "ir" -> {"links-first"}
    [] m_translator \in {"llvm", "tpde"} -> {"shifts-freely"}
    [] OTHER -> {}

Guest == INSTANCE GuestMachine WITH
           cpu <- guestCpu,
           liberties <- guestLiberties,
           IcountMod <- NarrowIcountMod,
           CachesText <- TRUE,
           Lookahead <- MaxBlockLen,
           ChecksAlignment <- FALSE,
           HostMayFail <- TRUE

\* JitEngine, with its block cache, its translations and its write-backs, executes
\* the guest's instructions one by one as the guest machine does, which allows ir's JALR
\* and LLVM's shifts what their translations do and no other backend anything.
ImplementsGuest == Guest!Spec

----------------------------------------------------------------------------
(* The interpreter's promise: what is executed is what memory holds.       *)

heldNow == Holding([a \in Word |-> {}], mem)

Strict == INSTANCE GuestMachine WITH
            cpu <- guestCpu,
            held <- heldNow,
            liberties <- {},
            IcountMod <- NarrowIcountMod,
            CachesText <- FALSE,
            Lookahead <- MaxBlockLen,
            ChecksAlignment <- FALSE,
            HostMayFail <- TRUE

\* Every cached instruction is still what memory holds at its address.
CacheIsCurrent ==
  \A a \in DOMAIN m_cacheBB : \A i \in 1 .. Len(m_cacheBB[a].insns) :
    LET w == WordAt(mem, ToWord(a + kWordSize * (i - 1)))
    IN  w \in DOMAIN Decode /\ Decode[w] = m_cacheBB[a].insns[i]

\* This step stores over no cached instruction.
SparesText ==
  \A a \in DOMAIN m_cacheBB : \A i \in 1 .. Len(m_cacheBB[a].insns) :
    LET x == ToWord(a + kWordSize * (i - 1)) IN WordAt(mem', x) = WordAt(mem, x)

\* Translated code is about to execute one of the two instructions with which its
\* backend takes a liberty.
Diverges == phase = "code" /\ pos <= Len(code) /\ Deviates(m_translator, code[pos], cpu)

\* A store over cached text and the two liberties of emitted code (ir's JALR, LLVM's
\* shifts) are the only ways to make the engine differ from an interpreter that fetches
\* every word anew: short of them, no step of a block, no lookup in either cache and no
\* translation executes anything but the word at the pc, or that otherwise.
StrictWhileCurrent ==
  [][CacheIsCurrent /\ ~Diverges => [Strict!Next]_(Strict!guestVars)]_histVars
============================================================================
