------------------------------- MODULE Loader -------------------------------
(***************************************************************************)
(* ElfLoader (src/elf_loader) and Hart::load: an ELF file is checked and   *)
(* its loadable segments are copied into a memory, one after the other,    *)
(* each followed by the zeros that fill it up to its size in memory; then  *)
(* the first instruction is fetched.  The memory is one of the two kinds   *)
(* of src/memory, and every call to it takes the steps it takes there.     *)
(***************************************************************************)
EXTENDS MemoryCall, FiniteSetsExt

CONSTANTS
  Elfs,                    \* the files
  Kinds,                   \* memories: "plain", which the simulator uses, and "paged"
  WordSize,                \* bytes of an instruction
  SizeMod,                 \* values of the size_t that counts a fill
  ReadBacks,               \* <<address, size>> of the blocks a client reads back
  PlainStart, PlainSize,   \* see PlainMemory
  PageSize, NumPages       \* see PagedMem

\* What validate looks at, in this order.
Checks == {"type", "encoding", "class", "machine"}

Segment == [load : BOOLEAN,        \* of type PT_LOAD
            vaddr : Addr,
            data : Seq(Byte),      \* as many bytes as the file holds of it
            memsz : Addr]
Elf == [wrong : SUBSET Checks, entry : Addr, segments : Seq(Segment)]

\* The format demands that a segment is not larger in the file than in memory.
\* loadMemory relies on it, and nothing looks.
WellFormed(e) ==
  \A i \in 1 .. Len(e.segments) : Len(e.segments[i].data) <= e.segments[i].memsz

ASSUME ElfsAssumption == Elfs \subseteq Elf
ASSUME KindsAssumption == Kinds \subseteq {"plain", "paged"}
ASSUME WordSizeAssumption == WordSize \in Nat /\ WordSize > 0
ASSUME SizeModAssumption == SizeMod \in Nat /\ SizeMod >= AddrMod
ASSUME ReadBacksAssumption == ReadBacks \subseteq Addr \X Nat
ASSUME PlainAssumption == /\ PlainStart \in Nat /\ PlainSize \in Nat
                          /\ PlainStart + PlainSize <= AddrMod
ASSUME PagesAssumption == /\ PageSize \in Nat /\ PageSize > 0
                          /\ NumPages \in Nat /\ NumPages > 0
                          /\ AddrMod = NumPages * PageSize

VARIABLES
  elf,       \* the file being loaded
  kind,      \* the kind of memory
  stage,     \* how far the load is
  seg,       \* the segment being copied
  filled,    \* fillBlock's counter
  m_storage, page, lastPage,   \* the paged memory
  m_data                       \* the plain memory

loaderVars == <<elf, kind, stage, seg, filled>>
memoryVars == <<m_storage, page, lastPage, m_data, call, fault>>
vars == <<loaderVars, memoryVars>>

Plain == INSTANCE PlainMemory
Paged == INSTANCE PagedMem

TypeOK ==
  /\ elf \in Elfs /\ kind \in Kinds
  /\ stage \in {"validate", "segments", "fill", "loaded", "fetched", "rejected"}
  /\ seg \in 1 .. Len(elf.segments) + 1
  /\ filled \in Nat
  /\ m_data \in [Plain!Mapped -> Byte]
  /\ call \in Call
  /\ IF kind = "paged" THEN Paged!TypeOK ELSE fault \in {"none", "assert", "wild"}

Init ==
  /\ elf \in Elfs /\ kind \in Kinds
  /\ stage = "validate" /\ seg = 1 /\ filled = 0
  /\ Paged!Init /\ Plain!Init

Calls(op, scalar, addr, data) ==
  \/ kind = "plain" /\ Plain!Begin(op, scalar, addr, data)
                    /\ UNCHANGED <<m_storage, page, lastPage>>
  \/ kind = "paged" /\ Paged!Begin(op, scalar, addr, data) /\ UNCHANGED m_data

Serve ==
  /\ \/ kind = "plain" /\ Plain!Serve /\ UNCHANGED <<m_storage, page, lastPage>>
     \/ kind = "paged" /\ Paged!Serve /\ UNCHANGED m_data
  /\ UNCHANGED loaderVars

GoTo(next) == stage' = next /\ UNCHANGED <<elf, kind>>

Rejected ==
  /\ stage = "validate" /\ elf.wrong # {}
  /\ GoTo("rejected")
  /\ UNCHANGED <<seg, filled, memoryVars>>

Accepted ==
  /\ stage = "validate" /\ elf.wrong = {}
  /\ GoTo("segments")
  /\ UNCHANGED <<seg, filled, memoryVars>>

Current == elf.segments[seg]
AtSegment == stage = "segments" /\ Idle /\ seg <= Len(elf.segments)

SkipSegment ==
  /\ AtSegment /\ ~Current.load
  /\ seg' = seg + 1
  /\ UNCHANGED <<elf, kind, stage, filled, memoryVars>>

WriteFile ==
  /\ AtSegment /\ Current.load
  /\ Calls("write", FALSE, Current.vaddr, Current.data)
  /\ GoTo("fill") /\ filled' = 0
  /\ UNCHANGED seg

\* An unsigned difference: where the segment is larger in the file, the fill goes round
\* and round the address space.
ToFill == (Current.memsz - Len(Current.data)) % SizeMod

\* Mistake: the zeros follow the segment in memory, not in the file.
fillBlockBehind ==
  /\ stage = "fill" /\ Idle /\ filled < ToFill
  /\ Calls("write", FALSE, (Current.vaddr + Current.memsz + filled) % AddrMod, <<0>>)
  /\ filled' = filled + 1
  /\ GoTo("fill") /\ UNCHANGED seg

\* One writeBlock of one byte for each byte, at an address cut to its width.
fillBlock ==
  /\ stage = "fill" /\ Idle /\ filled < ToFill
  /\ Calls("write", FALSE, (Current.vaddr + Len(Current.data) + filled) % AddrMod, <<0>>)
  /\ filled' = filled + 1
  /\ GoTo("fill") /\ UNCHANGED seg

NextSegment ==
  /\ stage = "fill" /\ Idle /\ filled = ToFill
  /\ seg' = seg + 1
  /\ GoTo("segments")
  /\ UNCHANGED <<filled, memoryVars>>

Loaded ==
  /\ stage = "segments" /\ Idle /\ seg > Len(elf.segments)
  /\ GoTo("loaded")
  /\ UNCHANGED <<seg, filled, memoryVars>>

Zeros(n) == [i \in 1 .. n |-> 0]

\* A client reads a block of the loaded memory.
ReadBack ==
  /\ stage = "loaded" /\ Idle
  /\ \E r \in ReadBacks : Calls("read", FALSE, r[1], Zeros(r[2]))
  /\ UNCHANGED loaderVars

\* The pc is the entry point: the first step reads the word there.
FetchFirst ==
  /\ stage = "loaded" /\ Idle
  /\ Calls("read", TRUE, elf.entry, Zeros(WordSize))
  /\ GoTo("fetched")
  /\ UNCHANGED <<seg, filled>>

Ended == stage = "rejected" \/ fault # "none" \/ (stage = "fetched" /\ Idle)
Terminated == Ended /\ UNCHANGED vars

Load == Rejected \/ Accepted \/ SkipSegment \/ WriteFile \/ fillBlock \/ NextSegment \/ Loaded

Next == Load \/ ReadBack \/ FetchFirst \/ Serve \/ Terminated

Spec == Init /\ [][Next]_vars

\* One thread loads, and no call waits for anything.
FairSpec == Spec /\ WF_vars(Load \/ Serve)

----------------------------------------------------------------------------
(* Properties.                                                             *)

bytes == IF kind = "plain" THEN Plain!flatBytes ELSE Paged!flatBytes
present == IF kind = "plain" THEN Plain!Mapped ELSE Paged!flatPresent

Flat == INSTANCE FlatMemory WITH scalars <- (kind = "plain")

\* Both memories keep the promise of a flat array under the calls of the loader and
\* of its clients: a walk over pages moves each byte of the range to its place once,
\* and what fails (a page without memory, an absent page) fails in front of a byte
\* that is not there.
ImplementsFlatMemory == Flat!Spec

\* The offset of address a in a segment's image in memory.
OffsetIn(s, a) == (a - s.vaddr) % AddrMod
Covers(i, a) ==
  elf.segments[i].load /\ OffsetIn(elf.segments[i], a) < elf.segments[i].memsz
Covering(a) == {i \in 1 .. Len(elf.segments) : Covers(i, a)}

\* The byte a segment has for address a: of its file, or zero.
SegmentByte(s, a) ==
  IF OffsetIn(s, a) < Len(s.data) THEN s.data[OffsetIn(s, a) + 1] ELSE 0

ImageByte(a) ==
  IF Covering(a) = {} THEN 0 ELSE SegmentByte(elf.segments[Max(Covering(a))], a)

InAddressSpace(s) == s.load => s.vaddr + Len(s.data) <= AddrMod
FileInAddressSpace == \A i \in 1 .. Len(elf.segments) : InAddressSpace(elf.segments[i])

\* A load of a well-formed file that gets to its end has built the file's image: every
\* address holds the byte the last segment covering it has there, and what no segment
\* covers is still zero, however segments overlap, share pages or fill across each other.
LoadedImage ==
  stage \in {"loaded", "fetched"} /\ WellFormed(elf) /\ FileInAddressSpace
  => \A a \in Addr : /\ Covering(a) # {} => a \in present
                     /\ bytes[a] = ImageByte(a)

LoadOver == stage \in {"loaded", "fetched", "rejected"} \/ fault # "none"

\* What is left of a load: segments, zeros of the one being filled, and pages or bytes of
\* the call being served.
SegmentsAhead ==
  2 * (Len(elf.segments) - seg)
    + (IF stage = "validate" THEN 3 ELSE IF stage = "segments" THEN 2 ELSE 1)
ZerosAhead == IF stage = "fill" THEN ToFill - filled ELSE 0
CallAhead ==
  IF call.op = "none" THEN 0
  ELSE 1 + (IF kind = "plain" THEN call.left ELSE IF page < lastPage THEN lastPage - page ELSE 0)

\* No step of a load is for nothing: it ends the load, gets on to a later segment, clears one
\* byte more, or moves a call on, so that the loops of loadMemory, fillBlock and pageWalk
\* together take as many steps as they have segments, zeros and pages, and no more.  So it
\* is for a file that is not well formed too, with nearly as many zeros as a size_t counts.
LoadIsBounded ==
  [][\/ LoadOver \/ LoadOver'
     \/ SegmentsAhead' \in 0 .. SegmentsAhead - 1
     \/ SegmentsAhead' = SegmentsAhead /\ ZerosAhead' \in 0 .. ZerosAhead - 1
     \/ UNCHANGED <<SegmentsAhead, ZerosAhead>> /\ CallAhead' \in 0 .. CallAhead - 1]_vars

\* The load ends, of a file that is not well formed too: in a loaded memory, an error or
\* a rejected file.
LoadingEnds == <>(stage \in {"loaded", "rejected"} \/ fault # "none")
============================================================================
