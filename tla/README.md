# JitResearch in TLA+

JitResearch is a simulator of RV32I guests with a plain interpreter and eight
`--jit` engines. The specifications here model how it executes a guest: the
instruction semantics, the decoder, the interpreter loop, the block-caching
engine with its translation cache, the code each backend emits, and how an ELF
file gets into the two kinds of memory. TLC checks them on small machines; TLAPS
proves, for all values of the constants, the invariants of the block-caching engine
and of loading, that this engine, the interpreting simulator and the memories
implement their abstractions, that every backend agrees with the interpreter but at
two instructions, and that decoding and assembling are inverse to each other.

Paths below are relative to the repository (`src/jit/...`); line numbers of each
definition are in `PROJECT.json` under `map`.

## 1. The system

| Part | State | Operations | Talks to |
|---|---|---|---|
| ISA (`src/isa`) | none | `Instruction::decode`, `isTerminator`, `changesPC` | used by everyone |
| CPU state (`src/cpu_state`) | registers, pc, `finished`, `icount`, exit code | `setReg`, `setPC`, `emulateSysCall`, `dump` | handlers and emitted code |
| Interpreter (`src/interpreter`) | none | one handler per opcode, `execute` | CPU state, memory |
| ExecEngine (`src/exec_engine`) | none | `step`: check pc, fetch, decode, execute, count | Interpreter |
| Hart (`src/hart`) | owns memory, CPU, engine | `load`, `setSP`, `run` | calls `step` until `finished` |
| JitEngine (`src/jit/base`) | `m_cacheBB` (blocks and their counters), `m_tbCache` (translations) | `step`, `interpret`, `TbCache::lookup/insert` | Translator, Interpreter |
| Translators (`src/jit/{asmjit,xbyak,lightning,mir,ir,llvm,tpde}`) | code they emitted | `translate` | helpers that call memory and `emulateSysCall` |
| JitFactory (`src/jit/factory`) | table of backends | `createTranslator` | `sim_app` |
| Memory (`src/memory`) | bytes: one mapping, or pages on demand | scalar and block reads and writes | loader, handlers, emitted code |
| ElfLoader (`src/elf_loader`) | the ELF file | `validate`, `loadMemory`, `getEntryPoint` | memory |
| sim (`tools/sim`) | options | builds the above, `run`, prints | all |

One host thread does everything: there is no lock, no message and no timer. What
makes the program hard is that the *same* guest state is advanced by code from
eight sources, that two caches stand between memory and what is executed, and
that exceptions leave the loop from any depth.

What would make each part wrong, and is hard to test:

- **JitEngine.** A translation found for another address (a direct-mapped cache,
  with address 0 as the value of an empty entry); a translation inserted under
  the wrong pc, because the code has run in between; blocks that are empty or that
  run through a terminator; text that was overwritten after it was cached; undecodable words reported before the
  code in front of them runs; counters that drop or repeat an instruction as a
  block goes from interpreted to translated to cached.
- **Backends.** Agreement with the interpreter in the operands a test program
  seldom has: sign bit, equality, `rd = rs1`, `x0`, shift counts past the width. They
  do not agree in two places, and a guest that gets there behaves differently once the
  block is hot.
- **Decoder.** Scattered immediates, and the order of four overlapping masks.
- **Interpreter.** pc arithmetic that wraps; exceptions that leave state half
  advanced.
- **Memory, loader.** Ends of mappings and pages; overlapping segments; files that
  `validate` lets pass and the format forbids.

`PROJECT.json` lists every hazard with its line and the properties that cover it.

## 2. Modules

```
Isa ── Interp ──┬── Hart ──┬── InterpEngine ── Simulator (with Loader) ── MCInterp
                │          ├── GuestMachine   (abstract: what every engine promises)
                │          └── JitEngine (with EmittedCode) ── JitHistory ── MCJit
                └── HostCode (with WordOps) ──┬── X86Backends ──────┐
                                              ├── LightningBackend ─┤
                                              ├── IrBackends ───────┼── EmittedCode
                                              └── LlvmBackend ──────┘      │
                                                    MCBackends ── Backends ┘
MemoryCall ──┬── FlatMemory   (abstract: what every memory promises)
             ├── PagedMem ────┐
             └── PlainMemory ─┴── Loader ── MCLoader
Decoder ── MCDecoder                SmallGuest: the programs of MCInterp and MCJit

Proofs, each module with the one it is about:
InterpProofs ──┬── EmittedCodeProofs ──┬── BackendProofs
               │                       └── JitEngineProofs ── JitHistoryProofs
               └── SimulatorProofs
LoaderProofs                        DecoderProofs (with Isa)
```

- **Isa** — words, registers, opcodes. A word keeps its *structure*, four bytes,
  and loses its *width*: a byte has `ByteMod` values (256 in the code), so all
  arithmetic is modulo `ByteMod^4` and an instruction takes four addresses. With
  `ByteMod = 2` the address space is 16 bytes and everything that wraps in the
  program wraps in the model. `Decode` is a constant, any partial map of words to
  instructions.
- **Interp** — `Execute(insn, cpu, mem)`, the effect of `Interpreter::execute`,
  with a trap for an unknown system call and one (`wild`) for an access that
  leaves the host mapping. There the program has no defined behaviour, and the
  models claim nothing past it.
- **WordOps** — the ALU functions, bit by bit, for any power-of-two width. Interp
  takes the ALU as a constant, because nothing it is proved to do depends on it.
- **Hart** — the CPU state a run starts from: `load` and `setSP`.
- **InterpEngine** — `ExecEngine::step` inside `Hart::run`. One action per path:
  `stepMisaligned`, `stepUndefined`, `stepExecute`, `runReturn`.
- **JitEngine** — `JitEngine::step`, cut where its data structures change:
  `RunCached` (21-28), `FindBlock` and `NewBlock` (`try_emplace`), one `Collect...`
  action per way through the collecting loop, `Translate`, `TranslateFails`,
  `Interpret`, `InterpretInsn`, `InterpretEnd`, `CodeInsn`, `CodeReturn` (end of
  the code, then `insert`), `RunReturns`. `phase` says where step is; the local
  variables are `bbPc` (`pc`), `curAddr`, `pos`, and, for emitted code, `code`,
  `hostPc` and `fresh`. An exception sets `fault`: it leaves `run` and `main`
  prints it, so nothing moves afterwards. The backends appear here through what
  the engine can notice: whether there is a translator, whether pc is written
  back per instruction (`mir`, `ir` do it at the end), whether `icount` is added
  per instruction (`xbyak`) or per block, whether the addition is 32 bits
  wide (`asmjit`, `lightning`, `mir`), and what the code does: `CodeInsn` takes an
  outcome of `After`, the code its own backend emits for the instruction, around which
  it writes pc and counter back.
- **JitHistory** — JitEngine beside history variables: the words each address has
  held, the instructions retired, the count `doExit` printed, and what was last
  translated for each slot of the cache; and the engine's properties.
  `ImplementsGuest` is the refinement mapping; `Strict` is the same mapping to a guest
  machine that fetches what memory holds now, `Overhead` what the engine may still
  have to do before it executes the next instruction.
- **GuestMachine** — the abstract specification: one instruction after another.
  It names what an engine may do otherwise (see below).
- **HostCode** — what the translators share: host operations and conditions, how
  `regs` is read and written, the helpers that emitted code calls, and the pc
  moving on behind the switch.
- **X86Backends** (asmjit, xbyak), **LightningBackend**, **IrBackends** (mir, ir),
  **LlvmBackend** (llvm, tpde) — the switch of each `translate`, case by case: the
  operation, condition or compare it emits and the order of its operands, whether
  x0 is read or is a constant, what is sign-extended, and the order of the write of
  rd, the pc and the reads. Lightning has host registers of two guest words; the
  LLVM IR has a *set* of outcomes, since a shift past the width is poison.
- **EmittedCode** — `After(backend, insn, cpu, mem)`, the outcomes of the code a backend
  emits for one instruction; `Deviates` names the two places where it is not what the
  interpreter does.
- **Backends** — a machine that runs that code beside the interpreter.
- **MemoryCall** — one call of `prot::Memory` at a time: what is to be moved, what
  is still left of it, and how it ended.
- **PagedMem** — `makePaged`: one action per page that `pageWalk` visits, one for
  each way it fails (no memory for a page, a page never written, a range that wraps
  in front of its first page, a scalar access, which recurses).
- **PlainMemory** — `makePlain`: a mapping of any size and start; the assertion
  where the build has it, and the copy that leaves the mapping.
- **FlatMemory** — the abstract specification of both: an array of bytes, part of
  which is there. A call moves its range front to back in portions and touches
  nothing else; it fails only if it must touch a byte that is not there; only a
  range past the end of the address space may be cut short without an error.
- **Loader** — `ElfLoader`: `validate`, then `loadMemory` segment by segment with
  `fillBlock` byte by byte, each call served step by step by one of the memories;
  then a client reads blocks back, and the first instruction is fetched. `SegmentsAhead`,
  `ZerosAhead` and `CallAhead` say what a load has still before it.
- **Simulator** — `sim` without `--jit`, from file to exit: Loader and InterpEngine
  joined by the memory the one fills and the other runs in. Its refinement maps the
  guest's memory, while the file is being loaded, to the image the file stands for.
- **Decoder** — `Instruction::decode` on real 32-bit words held as six fields,
  opposite an assembler built from the patterns in decode's own comments.

### The promise

`GuestMachine` executes, at each step, an instruction decoded from a word that may
be fetched at the pc. Four constants and the set `liberties` weaken it, and each run
shows what an engine needs:

| | InterpEngine | JitEngine | because |
|---|---|---|---|
| `CachesText` | FALSE | TRUE | `m_cacheBB` is never invalidated, not by FENCE either |
| `Lookahead` | 0 | block length | a block is decoded before any of it runs |
| `ChecksAlignment` | TRUE | FALSE | only `ExecEngine::step` looks at pc % 4 |
| `HostMayFail` | FALSE | TRUE | collecting and translating allocate |
| `liberties` | none | `ir`: `links-first`; `llvm`, `tpde`: `shifts-freely`; others none | the base of a `JALR` may be the link it has just written (`ir.cc:242`); a shift past the word may give any word (`builder.cc:817`) |

The refinement maps JitEngine's pc to the one the running code holds (`GuestPc`)
and `icount` to the written-back counter plus what the code has still to add,
modulo the narrowest counter in use.

`CachesText` is weaker than it has to be for most guests. `Strict` is the JitEngine's
promise with `CachesText` FALSE: what is executed is what memory holds at that moment.
The engine keeps it as long as every cached instruction is still the one memory holds
(`CacheIsCurrent`, in `StrictWhileCurrent`), and keeps it from beginning to end for a
guest that never stores over a cached instruction (`SparesText`). It has no liberties
either, so both exclude the states in which translated code is at one of the two
instructions its backend executes otherwise (`Diverges`). Stale text and these two
instructions are then all that the caches and the translators cost a guest.

## 3. What TLC checks

The small guest (`SmallGuest`) has bytes of two values: sixteen addresses, four
instruction words of text, fifteen decodable words that between them loop, call,
return, shift past the word, load, store over the text, jump to odd addresses, run
into undecodable words and exit. Programs are *all* texts over the words a run names; `interp_engine`
gets them as files.

| Run | What it shows |
|---|---|
| `jit_translate` | Block cache and translation cache are consistent, the pc follows the block, exit stops the guest and prints a count that is short by what the running code had yet to add, no block is translated twice but for a collision, the engine implements the promise. Backends of each write-back style, and the two that deviate: `JALR` over its own base is word 6, a shift by `a7`, past the word once that is set to exit, word 8; thresholds 0 and 2; two slots for four aligned blocks, so hot blocks evict each other and are translated again. |
| `jit_store` | The same promise with stores over text, odd jump targets and accesses past the end of memory, that every cached instruction was text at some time, and that as long as none of them is stale, and short of the two deviating instructions, the engine takes the steps of one without caches (`StrictWhileCurrent`; the programs that store over their text show that the condition is needed). Backends `xbyak`, `ir`, `llvm`. |
| `jit_profile` | `icount` is the number of retired instructions at every point; without a translator the block counters account for the whole run; each step executes an instruction, stops the run, or brings the next instruction nearer (`WorkIsBounded`); liveness. Programs without a terminator are among them and exhaust the block bound. |
| `interp_engine` | From file to exit: what `sim` makes of an ELF file is the strict promise on the file's image, whether its segments are apart, overlap, or clear bytes of each other; a rejected file runs nothing. |
| `backends_agree` | Every opcode on all seven backends with every pair of operand values: the interpreter's outcome, but for two named divergences. |
| `loading` | Both memories implement `FlatMemory`; a load of a well-formed file that ends without an error has built the file's image; of any file, the steps of a load count down (`LoadIsBounded`), and every load ends. |
| `decoder` | decode inverts the assembler, and loses nothing. |
| `jit_narrow_icount`, `jit_misaligned`, `ir_jalr`, `llvm_shift`, `decoder_patterns` | The disagreements of section 6. |

Bounds, and why they are enough:

- `ByteMod = 2`: word arithmetic is uniform in the width; sixteen addresses hold
  four instructions, so blocks of every length, wrap-round, and accesses across
  the end all occur. Where width itself matters, the decoder, real words are used.
- `kSize = 2` slots: one slot for two of the four aligned blocks, the other for
  two, and the odd-address blocks of `jit_store` share both.
- `execThreshold` 0, 1, 2: translated at once, after one pass, after two.
- `MaxBlockLen = 5` stands for the host's memory: one more than the text is long,
  so a block without a terminator goes round the address space before it fails.
- Backends: words of four bits; two registers take every pair of values, so sign
  bits, equality and shift counts past the width all meet. Immediates are those
  decoding can produce. That no width behaves differently is proved (section 4).
- Loading: `SizeMod = 16` stands for the values of `size_t`, twice the address space, so
  that the fill of a segment with more bytes in the file than in memory goes round it;
  eight addresses, as four pages of two bytes or as a mapping of the
  addresses 1 to 6; files of two segments with data of 0 to 7 bytes and fills of 0
  or 2, at every pair of addresses: they overlap, fill over each other, share and
  cross pages, end at, and pass, the end of the address space and of the mapping; and
  such segments of three bytes in the file and one or two in memory.
- From file to exit: 2,500 texts in one segment, from the entries 0 and 2 (every
  step at entry 2 is misaligned), and 40 texts under each of three second segments: one
  that replaces a word, one that replaces a word and clears two bytes behind it, one
  that only clears bytes across two words. `backends_agree` and `loading` cover the
  other shapes.
- `IcountMod = 8`, `NarrowIcountMod = 4`: both counters wrap within a few passes.
- `NumExecMod = 8` exceeds the thresholds; `size_t` in the program. It is a multiple of
  `IcountMod` (`NumExecAssumption`), as the 64 bits of one are those of the other: else a
  wrapped counter would not account for a wrapped `icount`.

`CHECK_DEADLOCK FALSE` stands in the backend and decoder configurations, whose
machines do one thing and stop. The engines have an explicit `Terminated` step.

**Fairness** is `WF(Next)` in `jit_profile`: one host thread runs the
loop and nothing in it blocks. No single action is fair, so the guest may loop for
ever; `GuestProgress` says that it then retires instructions for ever, rather than
collect or revisit blocks without executing any. In `loading` it is `WF(Load \/
Serve)`: one thread loads and no call waits, while what a client does afterwards
(`ReadBack`, `FetchFirst`) owes nothing; `LoadingEnds` says that walk and fill come
to an end.

Every property has a mutant in `PROJECT.json`: a plausible slip in a mapped
definition that the property catches under the configuration of its own run.

## 4. What is proved

### The block-caching engine

`JitEngineProofs`, for all values of the constants allowed by the named
assumptions (`ByteMod` even, words of at most 32 bits, `NumRegs > 0`, a cache of at
least one slot, `Decode` yields instructions that can be decoded, the ALU is that of
`WordOps`, ...):

| Theorem | States |
|---|---|
| `TypeCorrect` | `Spec => []TypeOK` |
| `BlocksShaped` | `Spec => []BlockShape` |
| `TranslationsMatch` | `Spec => []TbMatchesBlock` |
| `CountersStop` | `Spec => []CounterStopsAtThreshold` |
| `PcFollows` | `Spec => []PcFollowsBlock` |
| `ExitStops` | `Spec => ExitStopsGuest` |

The argument:

1. `InterpProofs` shows that `Execute` is *orderly* (`ExecuteOrderly`): typed in,
   typed out; one word on unless `changesPC`; `finished` only from `ECALL`; and
   that an instruction that is not a terminator therefore advances the pc by one
   word and leaves the guest unfinished. Its one arithmetic need, that bytes make
   words and words make bytes, is a chain of lemmas about `\div` and `%`.
2. `TypeInv` strengthens `TypeOK` with what each phase's locals refer to: `bbPc`
   is a cached address from collecting on, the running code is not shorter than
   `pos` says. Without it `m_cacheBB[bbPc]` cannot be typed. Emitted code is orderly too
   (`AfterOrderly` in `EmittedCodeProofs`), whatever its backend and where it deviates,
   but only on what it is made for: `DecodedInv` says that x0 is zero and that every
   instruction in a block, a translation or the running code is one `decode` can yield.
3. `CacheInv` puts the four cache properties together, since none is inductive
   alone: a translation equals its block *because* the block is complete, it stays
   complete because nothing appends outside of collecting, the block was hot when
   translated and its counter can no longer move because a translated block is
   found before a collected one — but another hot block may take the slot, and
   then the counter stands *at* the threshold and the block is translated again.
   `PhaseInv` adds, phase by phase, what the loop knows: collecting, no instruction
   so far is a terminator; about to run, the pc is the block's address; running, how
   the block's counter stands to the threshold.
4. `StopInv` says that when `finished` is set the loop is at its head, or the
   running block has no instruction left — from `BlockShape` and step 1 — and
   `ExitStops` follows.

Each invariance proof has one step per action.

### The engine's history and its promise

`JitHistoryProofs`, from the same assumptions:

| Theorem | States |
|---|---|
| `EngineImplementsGuest` | `HistSpec => ImplementsGuest` |
| `BlocksFromText` | `HistSpec => []BlocksWereText` |
| `FullWidthCountsExactly` | `HistSpec => [](~NarrowIcount => IcountExact)` |
| `ReportIsShort` | `HistSpec => []ExitReport` |
| `TranslatesOncePerCollision` | `HistSpec => RetranslatesOnlyOnCollision` |
| `ProfileIsExact` | `HistSpec => []ProfileAccounts` |
| `StrictUntilStale` | `HistSpec => StrictWhileCurrent` |
| `EngineImplementsInterpreter` | `HistSpec /\ [][SparesText /\ ~Diverges]_histVars => Strict!Spec` |
| `ProgressIsBounded` | `HistSpec => WorkIsBounded`, if `IcountMod > 1` |

1. `HistoryInv` adds to `StopInv` that memory's words are held (`HeldInv`), that the
   address decoded next is `bbPc` plus a word per collected instruction
   (`CollectInv`), and `BlocksWereText`, which is inductive with these two: only
   `CollectInsn` adds to a block, and what memory has held only grows.
2. The guest machine counts modulo another number, so its `Execute` is first shown to
   be the engine's (`GuestExecutes`), which neither reads nor writes the counter
   (`ExecuteRecounts`, `ExecuteKeepsCount`): `guestCpu` is then the CPU the
   instruction ran on with another count, `Recounted`.
3. The refinement has one `Step` per `InterpretInsn` and `CodeInsn` (`GuestSteps`):
   the word is that of `BlocksWereText`, at the pc by `PcFollowsBlock`, and the guest
   has not finished by `FinishedInv`. For `CodeInsn`, `AfterCases` says of every outcome
   of emitted code that it is the interpreter's, or that of ir's `JALR` on the link, or
   that of a shift to some word; each is one of the guest machine's `Outcomes` under the
   liberties of the backend (`GuestMay`). The collecting loop's exceptions are a
   `DecodeFault` over the straight line collected, and the host's are `HostFault`;
   everything else stutters, `CodeReturn` because adding a block's length to the low
   part of the counter is adding it, as far as the low part shows (`LowPartAdds`).
4. `RetiredInv` says that the counter with what the code has still to add is
   `retired`: modulo the narrow counter always, in full for a backend that is not
   narrow. `ReportInv` carries that from the step that finishes the guest to
   `exited`; only the block's last instruction can be that step.
5. `LatestInv`: a slot holds what was last translated for it, or that code is
   running for the first time, and a block is looked at only when its slot does not
   hold its translation.
6. `ProfileAccounts` sums over the block map. The sum is stated as the size of a set,
   `Profile`, with one member for each counted execution of each instruction of each
   block, so that the library's theorems on finite sets replace an induction:
   `InterpretEnd` adds as many members as the block has instructions, or, where the
   counter wraps, takes away a multiple of `IcountMod`. Between, `pos` counts the
   members that the interpreted block has yet to bring.
7. The steps of step 3 are also steps of `Strict` if the word found in the history
   may be replaced by the one in memory (`TextFrom`): that is `CacheIsCurrent` at the
   instruction executed. `CacheIsCurrent` is kept by every step that stores over no
   cached instruction (`StaysCurrent`: a new instruction is decoded from what memory
   holds), which gives the whole refinement under `SparesText` and `~Diverges`, under which an
   outcome of emitted code is the interpreter's. Both conditions are on the guest's
   behaviour; nothing in the engine enforces them. What is left of the promise's
   weakening is then the lookahead of the decoder, the missing check of the pc and the
   host's failures.
8. `Overhead` is bounded by `MaxBlockLen + 4`. Returning to the loop, looking a block up
   and collecting each lower it, and a block is entered at an instruction because a
   block that can be run has one (`RunnableHasInsn`, from `BlockShape`). What remains of
   `GuestProgress` is fairness. The hypothesis is there because a count modulo one
   would not show that an instruction was retired.

### Memories and loading

`LoaderProofs`, for every address space, page size, mapping,
set of files and of blocks read back (`ElfsAssumption`, `PagesAssumption`,
`PlainAssumption`, ...):

| Theorem | States |
|---|---|
| `LoaderTypeCorrect` | `Spec => []TypeOK` |
| `MemoriesAreFlat` | `Spec => ImplementsFlatMemory` |
| `ImageLoaded` | `Spec => []LoadedImage` |
| `LoadCountsDown` | `Spec => LoadIsBounded` |

1. `LoaderInv` is `TypeOK` with what a walk knows: while a call is served, `left`
   counts what remains behind the page the walk is at, so the next byte to move is
   at `offset` of `page`, and the walk's last page is that of the range's last byte
   unless the range wraps. Without it `Written` cannot be shown to move the bytes of
   the range rather than their neighbours.
2. The refinement is one step per action of `Serve`: a page walked is a portion
   `Write(n)` or `Read(n)` with `n = size`, the plain copies are one portion, and
   each failure is a `Fail` in front of a byte that is not there; actions of the
   loader that make no call stutter.
3. `ImageInv` says for `LoadedImage` what the bytes are while segments are being
   copied: those of the segments before `seg` (`Built`), overlaid with what the
   current one has moved (`done`) or filled. It uses the memories only through step
   2, so the proof is one for both kinds.
4. The measure of a load is ordered by segments, then zeros, then the call: a segment's
   call or fill may take any number of steps but comes after the segment has been
   counted. `FillingInv` adds that calls are made only while a segment is copied, and
   that a fill never passes its end, `ToFill`. That is a `size_t`, cut to its width, so
   the measure is one for a malformed file too: it may be nearly `SizeMod`, several times
   the address space, and no more.

### The simulator

`SimulatorProofs`, for every word width, register file, instruction set and set of
well-formed files (`FilesAssumption`):

| Theorem | States |
|---|---|
| `SimulatorTypes` | `SimSpec => []TypeOK` |
| `SimulatorImplementsGuest` | `SimSpec => ImplementsGuest` |

1. The guest machine is there from the first step on, in the image of the file
   (`FileImage`), so that loading must be invisible to it (`LoadIsHidden`) and the
   memory must *be* that image when `Start` reveals it (`StartIsHidden`).
2. `SimInv` is `TypeOK` with `LoadingType` (a call has moved all its bytes or none) and
   `ImageInv`, which says while segments are copied what every byte is. It is proved
   for the plain memory itself and needs no assumption about where segments lie: a
   copy that leaves the mapping is never made, and then the guest never starts. That
   the last of the segments covering an address exists is `LastIndex`, by the
   library's minimum of a well-founded order.
3. Each step of the interpreter is one of the guest (`RunIsGuest`). A fetch at an
   aligned pc stays in the mapping because the width of a byte is even
   (`AlignedFetch`); the count goes up by one because `Execute` leaves it alone
   (`ExecuteKeepsCount`); and a handler that throws has changed nothing
   (`ExecuteOrderly`).

### The backends

`EmittedCodeProofs` and `BackendProofs`, for every word width up to 32 bits, register file, guest state,
memory and set of decodable instructions:

| Theorem | States |
|---|---|
| `BackendsAgreeAlways` | `Spec => []BackendsAgree` |

1. A handler that does not change the pc leaves it alone (`HandlerKeepsPc`), so
   `Execute` is `Advance` around the handler (`ExecuteAdvancesHandler`), the shape
   every translator has. What is left is one equality per family of opcodes and
   backend: its arm is the handler.
2. The tables of asmjit, xbyak, mir and ir are of one kind (`IsOpTable`,
   `IsCondTable`): one lemma each says that the host operation, or the condition, is
   the handler's. The helpers' loads and stores are the interpreter's
   (`LoadsAgree`, `StoresAgree`); the pc and rd of a jump can be written in either
   order unless the base is read in between, which is where ir is excepted.
3. Lightning needs arithmetic: a result computed in two words has the right low word
   (`LowWordOfHost`), sign extension keeps every order, the unsigned one included
   (`ExtensionOrdered`), and zero-extended words may be compared as signed ones
   (`UnsignedInSigned`).
4. LLVM truncates what it stores before the helper does (`NarrowStoresAgree`), and its
   shifts have one outcome only below the width of a word.
5. Together these are `AfterAgrees`, of which `BackendsAgreeAlways` is the statement
   about the machine of `Backends` (`BackendsInv` adds that the guest tried is one of the
   instance). The engine's proofs need what happens at the two exceptions as well:
   `IrLinksFirst` and `LlvmShiftsFreely`, and `AfterCases`, which joins the three.

Assumed: the guests have `x0 = 0`, which `DecodedInv` shows of those of the engine; an
instruction is one `decode` can yield, with the shift amount in the word
(`InsnsAssumption` in `Backends`; `DecodableAssumption` of the table `Decode`); the ALU
is that of `WordOps` (`AluIsAluOf`); and `PowersAssumption`, a fact of arithmetic (powers of two are
positive) that the provers do not know. TLC evaluates them all.

### The decoder

`DecoderProofs`, for every instruction and every 32-bit word (TLC takes those of
`MCDecoder`; `Insns` and `Words` may be any sets of instructions an assembler takes
and of words):

| Theorem | States |
|---|---|
| `DecodeInvertsAssembler` | `Spec => []RoundTrip` |
| `AssemblerInvertsDecode` | `Spec => []LosesNothing` |
| `DecodedIsDocumented` | a word other than FENCE that decodes has the instruction of a word with the documented pattern |
| `DecodeIsAdmissible` | `decode`, tabulated, satisfies `DecodeAssumption` of `Isa` and `DecodableAssumption` of `EmittedCode` |

1. `FormatOf` and `OpcodeOfPattern` say that a word with an opcode's documented pattern
   reaches that opcode's case, past the masks tried before; `DecodedOpcodes` lists what
   can come out.
2. An immediate that is cut into the fields of its format and put together again is the
   same (`ImmediateI` to `ImmediateJ`), and fields filled from the immediate that was
   read from them are the same (`FieldsI` to `FieldsJ`): arithmetic on slices by `\div`
   and `%`, one lemma each way per format. `DecodeEncode` and `EncodeDecode` put the
   fields of a word around them.
3. `WordInv` says of the machine that `word` is from the assembler or from `Words`, and
   that what was decoded is of this word.
4. `DecodedIsDocumented` bounds disagreement 5 of section 6: the words outside the
   patterns decode as instructions that exist, with operands in range
   (`DecodedAssemblable`), never as something an assembler could not have written.
5. `DecodeIsAdmissible` ties the decoder to the rest: the theorems on engines,
   simulator and backends take any table of instructions without `SBREAK` and `SCALL`
   whose shift amounts stay in the word, and the program's own is one.

### What is not proved

Liveness under fairness (`GuestProgress`, `LoadingEnds`) stays with TLC: it needs
ENABLED. The safety half of each, that no loop goes round without getting on, is proved
(`ProgressIsBounded`, `LoadCountsDown`). The bits of `WordOps` are computed by folds,
and what a fold computes for every width would need induction over data; TLC evaluates
them. The properties of section 6 fail, and are refuted by TLC.

## 5. Assumptions of the models

- Library code is modelled by what it is used for: assemblers, MIR, IR, LLVM with
  its optimizer, TPDE, and host instructions have their documented meaning; a helper returning a narrow
  integer returns it extended, as the compilers in use do.
- The format says that a segment is not larger in the file than in memory
  (`WellFormed`); `loadMemory` relies on it and does not look. `Loader` takes files that
  are not well formed too; `LoadedImage` is about those that are and whose segments lie in
  the address space, and `Simulator`, whose subject is the guest, is given only such
  files (`FilesAssumption`).
- A poison value of LLVM is one word, the same wherever the guest reads the register
  again; a compiler may choose anew at each use within a block.
- An access that leaves the mapping ends the model (`wild`). With the 4 GiB
  mapping of `sim` only an access across the very end does.
- An exception thrown below emitted code may not find its way out of it (the
  x86 backends register no unwind information) and then ends the process instead
  of reaching `main`. Both are `fault`: the guest has stopped where it was.
- Guest programs do not replace the code of the simulator: guest memory and host
  memory are apart.
- Counters: `NumExecMod` is a multiple of `IcountMod` (`NumExecAssumption`), 2^64 both.
- The decoder's instances hold only instructions an assembler takes (`InsnsAssumption`)
  and 32-bit words (`WordsAssumption`). The `Decode` of all other modules is any partial
  map of words to instructions (`DecodeAssumption`), for emitted code and the engine any
  that yields what `decode` can (`DecodableAssumption`); `DecodeIsAdmissible` shows
  the program's decoder to be one.
- `kNumOpcodes` is never decoded, so the exceptions for it are not modelled.
- Opcodes `PAUSE`, `SBREAK`, `SCALL` exist and do nothing; `decode` never yields
  them.

## 6. Disagreements met

Each is a run that TLC refutes, with the line in `PROJECT.json` under `findings`.

1. asmjit, Lightning and MIR add to the low 32 bits of the 64-bit `icount`.
2. A misaligned pc is an error for the interpreter and not for `JitEngine`.
3. The IR backend links before it reads the base of a `JALR`.
4. The LLVM backends shift by unmasked registers.
5. `JALR` and `SLLI` are decoded from words outside their documented patterns.

The third and the fourth reach the guest once a block is hot: the engine keeps its
promise only with the `liberties` of section 2.

## 7. Plan

Done: the instruction semantics, both engines, the promise, the backends, the
decoder, the memories and the loader, `sim` from file to exit; proved are the
invariants of JitEngine, its history and profile, the refinement of the promise by both
engines, the strict promise for guests that leave their text alone and keep off the two
deviating instructions, the bounds on the
work between two instructions and in a load, the memories' refinement, the loaded image,
the agreement of the backends and the inversion of the decoder.

The two levels of emitted code are joined: a block of translated code in JitEngine is a
sequence of the outcomes `After` gives for its backend, with that backend's write-backs
of pc and counter around it, and the refinement rests on what is proved of `After`.

Not modelled: the command line, timing and printing (`tools/sim`, `dump`), the exit
status of the process (the guest's exit code, cut to what the host passes on), the
ELF parser, when host code is freed, the glue to ORC and TPDE, benchmark scripts and
build files.
