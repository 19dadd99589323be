------------------------------ MODULE PagedMem ------------------------------
(***************************************************************************)
(* PagedMem (src/memory/simple_page_mem.cc): pages that come into being    *)
(* when they are written.  A block call walks the pages of its range:      *)
(* pageWalk goes from firstPage to lastPage, and one action is the         *)
(* handling of one page.                                                   *)
(***************************************************************************)
EXTENDS MemoryCall

CONSTANTS PageSize, NumPages   \* NumPages * PageSize = AddrMod

VARIABLES m_storage,  \* the pages
          page,       \* where the walk is
          lastPage    \* and the page it stops in front of

walkVars == <<page, lastPage>>

Page == 0 .. NumPages - 1
Offset == 0 .. PageSize - 1
Empty == <<>>

getOffset(addr) == addr % PageSize
getPage(addr) == addr \div PageSize
getAddr(p, offset) == p * PageSize + offset

Init ==
  /\ m_storage = [p \in Page |-> Empty]
  /\ page = 0 /\ lastPage = 0
  /\ call = NoCall
  /\ fault = "none"

\* Mistake: the end of the range is not cut to the width of an address.
lastPageOfUncut(addr, size) == getPage(addr + size - 1) + 1

\* The end of the range is cut to the width of an address.
lastPageOf(addr, size) == getPage((addr + size - 1) % AddrMod) + 1

Begin(op, scalar, addr, data) ==
  /\ Idle
  /\ call' = Request(op, scalar, addr, data)
  /\ page' = IF data = <<>> THEN 0 ELSE getPage(addr)
  /\ lastPage' = IF data = <<>> THEN 0 ELSE lastPageOf(addr, Len(data))
  /\ UNCHANGED <<m_storage, fault>>

\* Walking, and at a page of the range.
Walking(op) == Serving(op) /\ ~call.scalar /\ page < lastPage

\* Mistake: every page is entered at the offset of the first.
offsetOfFirst == getOffset(call.addr)

offset == IF page = getPage(call.addr) THEN getOffset(call.addr) ELSE 0

size == IF PageSize - offset < call.left THEN PageSize - offset ELSE call.left

\* Mistake: the walk does not go on.
StepNowhere == UNCHANGED walkVars

StepWalk == page' = page + 1 /\ UNCHANGED lastPage

ByteOf(p, o) == IF m_storage[p] = Empty THEN 0 ELSE m_storage[p][o]

Written ==
  [o \in Offset |-> IF o \in offset .. offset + size - 1
                    THEN Source(getAddr(page, o)) ELSE ByteOf(page, o)]

WritePage ==
  /\ Walking("write")
  /\ m_storage' = [m_storage EXCEPT ![page] = Written]
  /\ call' = [call EXCEPT !.left = @ - size]
  /\ StepWalk
  /\ UNCHANGED fault

\* page.resize finds no memory; the pages before it have been written.
WritePageNoMemory ==
  /\ Walking("write")
  /\ m_storage[page] = Empty
  /\ Fails("host")
  /\ UNCHANGED <<m_storage, walkVars>>

flatBytes == [a \in Addr |-> ByteOf(getPage(a), getOffset(a))]
flatPresent == {a \in Addr : m_storage[getPage(a)] # Empty}

ReadPage ==
  /\ Walking("read")
  /\ m_storage[page] # Empty
  /\ call' = [call EXCEPT !.data = Filled(size, flatBytes), !.left = @ - size]
  /\ StepWalk
  /\ UNCHANGED <<m_storage, fault>>

ReadPageEmpty ==
  /\ Walking("read")
  /\ m_storage[page] = Empty
  /\ Fails("absent")
  /\ UNCHANGED <<m_storage, walkVars>>

\* The assertion in front of the walk: the range wraps to a lower page.
WalkBackwards ==
  /\ InCall /\ ~call.scalar
  /\ page > lastPage
  /\ Fails("walk")
  /\ UNCHANGED <<m_storage, walkVars>>

WalkEnds ==
  /\ InCall /\ ~call.scalar
  /\ page = lastPage
  /\ Returns
  /\ UNCHANGED <<m_storage, walkVars, fault>>

\* read<T> and read8, read16, read32 call one another until the stack is used up.
ScalarAccess ==
  /\ InCall /\ call.scalar
  /\ Fails("stack")
  /\ UNCHANGED <<m_storage, walkVars>>

Serve == \/ WritePage \/ WritePageNoMemory \/ ReadPage \/ ReadPageEmpty
         \/ WalkBackwards \/ WalkEnds \/ ScalarAccess

TypeOK ==
  /\ m_storage \in [Page -> [Offset -> Byte] \cup {Empty}]
  /\ page \in Page \cup {NumPages}
  /\ lastPage \in Page \cup {NumPages}
  /\ call \in Call
  /\ fault \in {"none", "host", "absent", "walk", "stack"}
============================================================================
