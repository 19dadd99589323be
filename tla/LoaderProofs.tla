---------------------------- MODULE LoaderProofs ----------------------------
(***************************************************************************)
(* The loader's memories implement FlatMemory, for every size of address   *)
(* space, page and mapping, every file and every failure; every load       *)
(* counts down to its end; and a load of a well-formed file builds the     *)
(* file's image, however many segments overlap, share pages and fill       *)
(* across one another.                                                     *)
(***************************************************************************)
EXTENDS Loader, TLAPS

----------------------------------------------------------------------------
(* Addresses as pages and offsets.                                         *)

LEMMA ModIsAddr == ASSUME NEW n \in Int PROVE n % AddrMod \in Addr
  BY AddrModAssumption DEF Addr

\* A page and an offset make an address, and an address is made of one of each.
LEMMA Join ==
  ASSUME NEW p \in Paged!Page, NEW o \in Paged!Offset
  PROVE  /\ Paged!getAddr(p, o) \in Addr
         /\ Paged!getPage(Paged!getAddr(p, o)) = p
         /\ Paged!getOffset(Paged!getAddr(p, o)) = o
<1> DEFINE a == p * PageSize + o
<1>1. /\ PageSize \in Nat /\ PageSize > 0 /\ NumPages \in Nat
      /\ p \in Nat /\ p + 1 <= NumPages /\ o \in Nat /\ o < PageSize
  BY PagesAssumption DEF Paged!Page, Paged!Offset
<1>2. (p + 1) * PageSize <= NumPages * PageSize /\ (p + 1) * PageSize = p * PageSize + PageSize
  BY <1>1
<1>3. p * PageSize \in Nat
  BY <1>1
<1>4. a \in Addr
  BY <1>1, <1>2, <1>3, PagesAssumption, AddrModAssumption DEF Addr
<1>5. a \div PageSize = p /\ a % PageSize = o
  BY <1>1, <1>3
<1> QED
  BY <1>4, <1>5 DEF Paged!getAddr, Paged!getPage, Paged!getOffset

LEMMA Split ==
  ASSUME NEW a \in Addr
  PROVE  /\ Paged!getPage(a) \in Paged!Page
         /\ Paged!getOffset(a) \in Paged!Offset
         /\ Paged!getAddr(Paged!getPage(a), Paged!getOffset(a)) = a
<1> DEFINE p == a \div PageSize
           o == a % PageSize
<1>1. /\ PageSize \in Nat /\ PageSize > 0 /\ NumPages \in Nat
      /\ a \in Nat /\ a < NumPages * PageSize
  BY PagesAssumption, AddrModAssumption DEF Addr
<1>2. p \in Int /\ o \in 0 .. PageSize - 1 /\ a = PageSize * p + o
  BY <1>1
<1> HIDE DEF p, o
<1>3. p >= 0 /\ p < NumPages
  <2>1. PageSize * p > -PageSize /\ PageSize * p < PageSize * NumPages
    BY <1>1, <1>2
  <2> QED
    BY <2>1, <1>1, <1>2
<1> QED
  BY <1>1, <1>2, <1>3 DEF p, o, Paged!getPage, Paged!getOffset, Paged!getAddr, Paged!Page, Paged!Offset

\* A page begins where the one before it ends, and lies within the address space.
LEMMA PageEdges ==
  /\ Paged!getAddr(0, 0) = 0
  /\ \A p \in Paged!Page :
       /\ Paged!getAddr(p, 0) \in Nat
       /\ Paged!getAddr(p + 1, 0) = Paged!getAddr(p, 0) + PageSize
       /\ Paged!getAddr(p + 1, 0) <= AddrMod
       /\ \A o \in Int : Paged!getAddr(p, o) = Paged!getAddr(p, 0) + o
       /\ \A q \in Paged!Page : p <= q => Paged!getAddr(p, 0) <= Paged!getAddr(q, 0)
<1>1. PageSize \in Nat /\ PageSize > 0 /\ NumPages \in Nat /\ AddrMod = NumPages * PageSize
  BY PagesAssumption
<1>2. \A p, q \in Nat : p <= q => p * PageSize <= q * PageSize
  BY <1>1
<1>3. \A p \in Nat : p * PageSize \in Nat /\ (p + 1) * PageSize = p * PageSize + PageSize
  BY <1>1
<1>4. \A p \in Paged!Page : p \in Nat /\ p + 1 <= NumPages /\ p + 1 \in Nat
  BY <1>1 DEF Paged!Page
<1> QED
  BY <1>1, <1>2, <1>3, <1>4 DEF Paged!getAddr

\* Pages are in the order of their addresses.
LEMMA PagesOrdered ==
  ASSUME NEW a \in Addr, NEW b \in Addr, a <= b
  PROVE  Paged!getPage(a) <= Paged!getPage(b)
<1> DEFINE p == Paged!getPage(a)
           q == Paged!getPage(b)
<1>1. p \in Paged!Page /\ q \in Paged!Page /\ p \in Int /\ q \in Int
  BY Split, PagesAssumption DEF Paged!Page
<1>2. a >= Paged!getAddr(p, 0)
  BY <1>1, Split, PageEdges, PagesAssumption DEF Paged!Offset
<1>3. b < Paged!getAddr(q + 1, 0)
  BY <1>1, Split, PageEdges, PagesAssumption DEF Paged!Offset
<1>4. CASE q < p
  <2>1. q + 1 \in Paged!Page /\ q + 1 <= p
    BY <1>1, <1>4, PagesAssumption DEF Paged!Page
  <2>2. Paged!getAddr(q + 1, 0) <= Paged!getAddr(p, 0)
    BY <2>1, <1>1, PageEdges
  <2>3. Paged!getAddr(p, 0) \in Nat /\ Paged!getAddr(q + 1, 0) \in Nat /\ a \in Int /\ b \in Int
    BY <2>1, <1>1, PageEdges, AddrModAssumption DEF Addr
  <2> QED
    BY <2>2, <2>3, <1>2, <1>3
<1> QED
  BY <1>4, <1>1

----------------------------------------------------------------------------
(* The inductive invariant.  A walk over pages stands, in front of each     *)
(* page of its range, at the address the call has come to; it has moved    *)
(* everything when no page is left, unless the range wraps.  A plain call  *)
(* has moved nothing or everything.                                        *)

PagedCall == kind = "paged" /\ call.op # "none" /\ ~call.scalar

AtPage ==
  /\ call.left > 0
  /\ Paged!getPage(call.addr) <= page
  /\ nextAddr = Paged!getAddr(page, Paged!offset)
  /\ rangeEnd > Paged!getAddr(lastPage - 1, 0)
  /\ rangeEnd <= AddrMod => rangeEnd <= Paged!getAddr(lastPage, 0)

WalkInv ==
  PagedCall =>
    /\ page < lastPage => AtPage
    /\ page = lastPage => call.left = 0 \/ rangeEnd > AddrMod
    /\ page > lastPage => call.left > 0 /\ rangeEnd > AddrMod

PlainInv == kind = "plain" => call.left \in {0, Len(call.data)}

LoaderInv ==
  /\ TypeOK
  /\ call.left <= Len(call.data)
  /\ stage = "fill" => seg <= Len(elf.segments)
  /\ WalkInv
  /\ PlainInv

\* What the invariant says of a call: where it stands is between its ends.
LEMMA CallShape ==
  ASSUME call \in Call, call.left <= Len(call.data)
  PROVE  /\ call.addr \in Addr /\ call.addr \in Nat /\ call.data \in Seq(Byte)
         /\ Len(call.data) \in Nat /\ call.left \in Nat
         /\ rangeEnd \in Nat /\ nextAddr \in Nat
         /\ call.addr <= nextAddr /\ nextAddr <= rangeEnd
         /\ rangeEnd = call.addr + Len(call.data) /\ nextAddr = rangeEnd - call.left
<1>1. /\ call.addr \in Addr /\ call.addr \in Nat /\ call.data \in Seq(Byte)
      /\ Len(call.data) \in Nat /\ call.left \in Nat
  BY AddrModAssumption DEF Call, Addr
<1> QED
  BY <1>1 DEF rangeEnd, nextAddr

LEMMA InitEstablishes == Init => LoaderInv
<1> SUFFICES ASSUME Init PROVE LoaderInv
  OBVIOUS
<1>1. call \in Call /\ call.left = 0 /\ call.data = <<>> /\ call.op = "none"
  BY AddrModAssumption DEF Init, Paged!Init, NoCall, Paged!NoCall, Call, Addr
<1>2. TypeOK
  <2>1. elf \in Elf
    BY ElfsAssumption DEF Init
  <2>2. seg \in 1 .. Len(elf.segments) + 1
    BY <2>1 DEF Init, Elf
  <2>3. Paged!TypeOK
    BY <1>1, PagesAssumption DEF Init, Paged!Init, Paged!TypeOK, Paged!Page, Paged!Call, Paged!Addr, Call, Addr
  <2>4. m_data \in [Plain!Mapped -> Byte]
    BY ByteAssumption DEF Init, Plain!Init
  <2> QED
    BY <1>1, <2>2, <2>3, <2>4 DEF Init, Paged!Init, TypeOK
<1> QED
  BY <1>1, <1>2 DEF LoaderInv, Init, WalkInv, PagedCall, PlainInv

----------------------------------------------------------------------------
(* A call begins.                                                          *)

\* Where pageWalk starts: at the address of the call, with the end of the range in
\* the last page or past the address space.
LEMMA WalkStarts ==
  ASSUME NEW addr \in Addr, NEW n \in Nat, n > 0
  PROVE  LET first == Paged!getPage(addr)
             last == Paged!lastPageOf(addr, n)
         IN  /\ first \in Paged!Page /\ last - 1 \in Paged!Page
             /\ first \in Int /\ last \in Int
             /\ addr = Paged!getAddr(first, Paged!getOffset(addr))
             /\ addr + n > Paged!getAddr(last - 1, 0) \/ last <= first
             /\ addr + n <= AddrMod => /\ first < last
                                       /\ addr + n <= Paged!getAddr(last, 0)
<1> DEFINE e == addr + n - 1
           m == e % AddrMod
           first == Paged!getPage(addr)
           last == Paged!lastPageOf(addr, n)
<1>1. AddrMod \in Nat /\ AddrMod > 0 /\ addr \in Nat /\ addr < AddrMod /\ e \in Nat /\ addr <= e
  BY AddrModAssumption DEF Addr
<1>2. m \in Addr
  BY <1>1, ModIsAddr
<1>3. last - 1 = Paged!getPage(m) /\ last = Paged!getPage(m) + 1
  <2>1. Paged!getPage(m) \in Int
    BY <1>2, Split, PagesAssumption DEF Paged!Page
  <2> QED
    BY <2>1 DEF Paged!lastPageOf
<1>4. first \in Paged!Page /\ last - 1 \in Paged!Page /\ first \in Int /\ last \in Int
  <2>1. Paged!getPage(m) \in Paged!Page /\ Paged!getPage(addr) \in Paged!Page
    BY <1>2, Split
  <2> QED
    BY <2>1, <1>3, PagesAssumption DEF Paged!Page
<1>5. addr = Paged!getAddr(first, Paged!getOffset(addr))
  BY Split
<1>6. m = Paged!getAddr(last - 1, Paged!getOffset(m)) /\ Paged!getOffset(m) \in Paged!Offset
  BY <1>2, <1>3, Split
<1>7. /\ Paged!getAddr(last - 1, 0) \in Nat /\ m >= Paged!getAddr(last - 1, 0)
      /\ (last - 1) + 1 = last
      /\ Paged!getAddr(last, 0) = Paged!getAddr(last - 1, 0) + PageSize
      /\ m + 1 <= Paged!getAddr(last, 0)
      /\ Paged!getAddr(last, 0) <= AddrMod
  <2>1. (last - 1) + 1 = last
    BY <1>4
  <2>2. Paged!getOffset(m) \in Int /\ Paged!getOffset(m) >= 0 /\ Paged!getOffset(m) + 1 <= PageSize
    BY <1>6, PagesAssumption DEF Paged!Offset
  <2>3. m = Paged!getAddr(last - 1, 0) + Paged!getOffset(m)
    BY <1>6, <1>4, <2>2, PageEdges
  <2>4. /\ Paged!getAddr(last - 1, 0) \in Nat
        /\ Paged!getAddr((last - 1) + 1, 0) = Paged!getAddr(last - 1, 0) + PageSize
        /\ Paged!getAddr((last - 1) + 1, 0) <= AddrMod
    BY <1>4, PageEdges
  <2> QED
    BY <2>1, <2>2, <2>3, <2>4, PagesAssumption
<1>8. m <= e
  BY <1>1
<1>9. CASE addr + n <= AddrMod
  <2>1. m = e /\ e \in Addr
    BY <1>1, <1>9 DEF Addr
  <2>2. first <= last - 1
    BY <2>1, <1>1, <1>3, PagesOrdered
  <2> QED
    BY <2>1, <2>2, <1>1, <1>4, <1>5, <1>7
<1>10. CASE ~(addr + n <= AddrMod)
  BY <1>10, <1>1, <1>4, <1>5, <1>7
<1> QED
  BY <1>9, <1>10

LEMMA CallsBegin ==
  ASSUME LoaderInv, NEW op \in {"read", "write"}, NEW scalar \in BOOLEAN,
         NEW addr \in Addr, NEW data \in Seq(Byte), Calls(op, scalar, addr, data),
         UNCHANGED kind
  PROVE  /\ Idle /\ UNCHANGED <<m_storage, m_data, fault>>
         /\ call' \in Call /\ call'.left = Len(call'.data)
         /\ kind = "paged" => Paged!TypeOK'
         /\ WalkInv'
<1>1. /\ Idle /\ UNCHANGED <<m_storage, m_data, fault>>
      /\ call' = Request(op, scalar, addr, data)
  BY DEF Calls, Plain!Begin, Paged!Begin, Plain!Idle, Paged!Idle, Idle,
         Plain!Request, Paged!Request, Request
<1>2. /\ call' \in Call /\ call'.left = Len(call'.data)
      /\ call'.addr = addr /\ call'.data = data /\ call'.left = Len(data)
      /\ Len(data) \in Nat /\ addr \in Nat
  BY <1>1, AddrModAssumption DEF Request, Call, Addr
<1>3. rangeEnd' = addr + Len(data) /\ nextAddr' = addr
  BY <1>2 DEF rangeEnd, nextAddr
<1>4. CASE kind = "plain"
  BY <1>1, <1>2, <1>4 DEF WalkInv, PagedCall
<1>5. CASE kind = "paged"
  <2>1. /\ page' = IF data = <<>> THEN 0 ELSE Paged!getPage(addr)
        /\ lastPage' = IF data = <<>> THEN 0 ELSE Paged!lastPageOf(addr, Len(data))
    BY <1>5 DEF Calls, Paged!Begin
  <2>2. CASE data = <<>>
    <3>1. page' = 0 /\ lastPage' = 0 /\ call'.left = 0
      BY <2>1, <2>2, <1>2
    <3>2. Paged!TypeOK'
      BY <3>1, <1>1, <1>2, <1>5, PagesAssumption
         DEF LoaderInv, TypeOK, Paged!TypeOK, Paged!Page, Paged!Call, Paged!Addr, Call, Addr
    <3> QED
      BY <3>1, <3>2, <1>1, <1>2 DEF WalkInv
  <2>3. CASE data # <<>>
    <3>1. Len(data) > 0
      BY <2>3, <1>2
    <3> DEFINE first == Paged!getPage(addr)
               last == Paged!lastPageOf(addr, Len(data))
    <3>2. /\ first \in Paged!Page /\ last - 1 \in Paged!Page
          /\ first \in Int /\ last \in Int
          /\ addr = Paged!getAddr(first, Paged!getOffset(addr))
          /\ addr + Len(data) > Paged!getAddr(last - 1, 0) \/ last <= first
          /\ addr + Len(data) <= AddrMod => /\ first < last
                                            /\ addr + Len(data) <= Paged!getAddr(last, 0)
      BY <3>1, <1>2, WalkStarts
    <3>3. page' = first /\ lastPage' = last
      BY <2>1, <2>3
    <3>4. first \in Int /\ last \in Int
      BY <3>2
    <3> HIDE DEF first, last
    <3>5. Paged!TypeOK'
      BY <3>2, <3>3, <3>4, <1>1, <1>2, <1>5, PagesAssumption
         DEF LoaderInv, TypeOK, Paged!TypeOK, Paged!Page, Paged!Call, Paged!Addr, Call, Addr
    <3>6. Paged!offset' = Paged!getOffset(addr)
      BY <3>3, <1>2 DEF Paged!offset, first
    <3>7. WalkInv'
      <4>1. page' < lastPage' => AtPage'
        BY <3>1, <3>2, <3>3, <3>4, <3>6, <1>2, <1>3 DEF AtPage, first
      <4>2. /\ page' = lastPage' => rangeEnd' > AddrMod
            /\ page' > lastPage' => call'.left > 0 /\ rangeEnd' > AddrMod
        BY <3>1, <3>2, <3>3, <3>4, <1>2, <1>3, AddrModAssumption
      <4> QED
        BY <4>1, <4>2 DEF WalkInv
    <3> QED
      BY <1>1, <1>2, <3>5, <3>7
  <2> QED
    BY <2>2, <2>3
<1> QED
  BY <1>4, <1>5 DEF Calls

----------------------------------------------------------------------------
(* A page of a walk.                                                       *)

\* The portion of a page: it is not empty, its bytes are the next of the range, and
\* they are those of this page from offset on.  The next page, if there is one, is
\* entered at its beginning; behind the last one nothing is left, or the range wraps.
LEMMA Portion ==
  ASSUME LoaderInv, PagedCall, page < lastPage
  PROVE  /\ page \in Paged!Page /\ page \in Int /\ lastPage \in Int
         /\ Paged!size \in 1 .. call.left
         /\ Paged!offset \in Paged!Offset /\ Paged!offset + Paged!size <= PageSize
         /\ moved(Paged!size) \subseteq Addr
         /\ nextAddr \in moved(Paged!size) /\ nextAddr \in Addr
         /\ Paged!getPage(nextAddr) = page
         /\ \A a \in Addr : a \in moved(Paged!size) <=>
              /\ Paged!getPage(a) = page
              /\ Paged!getOffset(a) \in Paged!offset .. Paged!offset + Paged!size - 1
         /\ page + 1 < lastPage => /\ call.left - Paged!size > 0
                                  /\ nextAddr + Paged!size = Paged!getAddr(page + 1, 0)
         /\ page + 1 = lastPage => call.left - Paged!size = 0 \/ rangeEnd > AddrMod
<1> DEFINE sz == Paged!size
           off == Paged!offset
           base == Paged!getAddr(page, 0)
<1>1. /\ call \in Call /\ Paged!TypeOK /\ call.left <= Len(call.data)
      /\ kind = "paged" /\ AtPage
  BY DEF LoaderInv, TypeOK, WalkInv, PagedCall
<1>2. /\ call.addr \in Addr /\ Len(call.data) \in Nat /\ call.left \in Nat
      /\ rangeEnd \in Nat /\ nextAddr \in Nat /\ nextAddr = rangeEnd - call.left
  BY <1>1, CallShape
<1>3. PageSize \in Nat /\ PageSize > 0 /\ NumPages \in Nat /\ NumPages > 0
  BY PagesAssumption
<1>4. page \in Int /\ lastPage \in Int /\ page \in Paged!Page /\ lastPage - 1 \in Paged!Page
  BY <1>1, <1>3 DEF Paged!TypeOK, Paged!Page
<1>5. off \in Paged!Offset /\ off \in Int /\ off >= 0 /\ off < PageSize
  <2>1. off \in Paged!Offset
    BY <1>2, <1>3, Split DEF Paged!offset, Paged!Offset
  <2> QED
    BY <2>1, <1>3 DEF Paged!Offset
<1>6. nextAddr = base + off /\ base \in Nat /\ base + PageSize <= AddrMod
  BY <1>1, <1>4, <1>5, PageEdges DEF AtPage
<1>7. /\ sz \in 1 .. call.left /\ off + sz <= PageSize
      /\ sz = call.left \/ sz = PageSize - off
  BY <1>1, <1>2, <1>3, <1>5 DEF AtPage, Paged!size
<1> HIDE DEF sz, off, base
<1>8. \A a \in Addr : a \in moved(sz) <=>
        Paged!getPage(a) = page /\ Paged!getOffset(a) \in off .. off + sz - 1
  <2> SUFFICES ASSUME NEW a \in Addr
               PROVE  a \in moved(sz) <=>
                        Paged!getPage(a) = page /\ Paged!getOffset(a) \in off .. off + sz - 1
    OBVIOUS
  <2>1. /\ Paged!getPage(a) \in Paged!Page /\ Paged!getOffset(a) \in Paged!Offset
        /\ Paged!getOffset(a) \in Int /\ a \in Int
        /\ a = Paged!getAddr(Paged!getPage(a), 0) + Paged!getOffset(a)
    <3>1. /\ Paged!getPage(a) \in Paged!Page /\ Paged!getOffset(a) \in Paged!Offset
          /\ a = Paged!getAddr(Paged!getPage(a), Paged!getOffset(a))
      BY Split
    <3>2. Paged!getOffset(a) \in Int /\ a \in Int
      BY <3>1, <1>3, AddrModAssumption DEF Paged!Offset, Addr
    <3> QED
      BY <3>1, <3>2, PageEdges
  <2>2. CASE Paged!getPage(a) = page
    BY <2>1, <2>2, <1>2, <1>5, <1>6, <1>7 DEF moved, base
  <2>3. CASE Paged!getPage(a) # page
    <3>1. SUFFICES ASSUME a \in moved(sz) PROVE FALSE
      BY <2>3
    <3>2. a >= base + off /\ a - base <= off + sz - 1
      BY <3>1, <2>1, <1>2, <1>5, <1>6, <1>7 DEF moved
    <3>3. a - base \in Paged!Offset
      BY <3>2, <2>1, <1>3, <1>5, <1>6, <1>7 DEF Paged!Offset
    <3>4. a = Paged!getAddr(page, a - base)
      BY <3>3, <2>1, <1>4, <1>6, PageEdges DEF base
    <3>5. Paged!getPage(a) = page
      BY <3>3, <3>4, <1>4, Join
    <3> QED
      BY <3>5, <2>3
  <2> QED
    BY <2>2, <2>3
<1>9. moved(sz) \subseteq Addr /\ nextAddr \in moved(sz) /\ nextAddr \in Addr
  <2>1. sz \in Nat /\ sz > 0 /\ nextAddr + sz <= AddrMod
    BY <1>2, <1>3, <1>5, <1>6, <1>7, AddrModAssumption
  <2> QED
    BY <2>1, <1>2, AddrModAssumption DEF moved, Addr
<1>10. Paged!getPage(nextAddr) = page
  BY <1>8, <1>9
<1>11. page + 1 < lastPage => /\ call.left - sz > 0
                             /\ nextAddr + sz = Paged!getAddr(page + 1, 0)
  <2> SUFFICES ASSUME page + 1 < lastPage
               PROVE  call.left - sz > 0 /\ nextAddr + sz = Paged!getAddr(page + 1, 0)
    OBVIOUS
  <2>1. page + 1 \in Paged!Page /\ page + 1 <= lastPage - 1
    BY <1>3, <1>4 DEF Paged!Page
  <2>2. Paged!getAddr(page + 1, 0) <= Paged!getAddr(lastPage - 1, 0)
    BY <2>1, <1>4, PageEdges
  <2>3. Paged!getAddr(page + 1, 0) = base + PageSize
    BY <1>4, PageEdges DEF base
  <2>4. rangeEnd > base + PageSize
    <3>1. Paged!getAddr(lastPage - 1, 0) \in Nat
      BY <1>4, PageEdges
    <3> QED
      BY <3>1, <2>2, <2>3, <1>1, <1>2, <1>3, <1>6 DEF AtPage
  <2> QED
    BY <2>3, <2>4, <1>2, <1>3, <1>5, <1>6, <1>7
<1>12. page + 1 = lastPage => call.left - sz = 0 \/ rangeEnd > AddrMod
  <2> SUFFICES ASSUME page + 1 = lastPage, rangeEnd <= AddrMod PROVE call.left - sz = 0
    BY <1>2, AddrModAssumption
  <2>1. rangeEnd <= base + PageSize
    BY <1>1, <1>4, PageEdges DEF AtPage, base
  <2> QED
    BY <2>1, <1>2, <1>3, <1>5, <1>6, <1>7
<1> QED
  BY <1>4, <1>5, <1>7, <1>8, <1>9, <1>10, <1>11, <1>12 DEF sz, off

----------------------------------------------------------------------------
(* A memory serves a call.                                                 *)

\* Filling part of the destination leaves a destination of the same length.
LEMMA FilledType ==
  ASSUME call \in Call, NEW n \in Int, NEW V, \A a \in moved(n) : V[a] \in Byte
  PROVE  Filled(n, V) \in Seq(Byte) /\ Len(Filled(n, V)) = Len(call.data)
<1>1. call.data \in Seq(Byte) /\ Len(call.data) \in Nat
  BY DEF Call
<1>2. \A i \in 1 .. Len(call.data) : call.data[i] \in Byte
  BY <1>1
<1>3. Filled(n, V) \in [1 .. Len(call.data) -> Byte]
  BY <1>2 DEF Filled
<1> QED
  BY <1>1, <1>3

LEMMA SourceType ==
  ASSUME call \in Call, call.left <= Len(call.data), NEW n \in 1 .. call.left,
         NEW a \in moved(n)
  PROVE  Source(a) \in Byte
<1>1. a \in Int /\ a >= call.addr /\ a < call.addr + Len(call.data)
  BY CallShape DEF moved
<1>2. a - call.addr + 1 \in 1 .. Len(call.data)
  BY <1>1, CallShape
<1> QED
  BY <1>2, CallShape DEF Source

\* The memories' and the promise's copies of the interface are the loader's own.
LEMMA SameInterface ==
  /\ Paged!Addr = Addr /\ Plain!Addr = Addr /\ Flat!Addr = Addr
  /\ Paged!Call = Call /\ Plain!Call = Call /\ Flat!Call = Call
  /\ Paged!nextAddr = nextAddr /\ Plain!nextAddr = nextAddr /\ Flat!nextAddr = nextAddr
  /\ Paged!rangeEnd = rangeEnd /\ Plain!rangeEnd = rangeEnd /\ Flat!rangeEnd = rangeEnd
  /\ \A n : Paged!moved(n) = moved(n) /\ Plain!moved(n) = moved(n) /\ Flat!moved(n) = moved(n)
  /\ \A a : Paged!Source(a) = Source(a) /\ Plain!Source(a) = Source(a) /\ Flat!Source(a) = Source(a)
  /\ \A n, V : /\ Paged!Filled(n, V) = Filled(n, V)
              /\ Plain!Filled(n, V) = Filled(n, V)
              /\ Flat!Filled(n, V) = Filled(n, V)
<1>1. /\ Paged!nextAddr = nextAddr /\ Plain!nextAddr = nextAddr /\ Flat!nextAddr = nextAddr
      /\ Paged!rangeEnd = rangeEnd /\ Plain!rangeEnd = rangeEnd /\ Flat!rangeEnd = rangeEnd
  BY DEF nextAddr, Paged!nextAddr, Plain!nextAddr, Flat!nextAddr,
         rangeEnd, Paged!rangeEnd, Plain!rangeEnd, Flat!rangeEnd
<1>2. \A n : Paged!moved(n) = moved(n) /\ Plain!moved(n) = moved(n) /\ Flat!moved(n) = moved(n)
  BY <1>1 DEF moved, Paged!moved, Plain!moved, Flat!moved
<1>3. \A a : Paged!Source(a) = Source(a) /\ Plain!Source(a) = Source(a) /\ Flat!Source(a) = Source(a)
  BY DEF Source, Paged!Source, Plain!Source, Flat!Source
<1>4. \A n, V : /\ Paged!Filled(n, V) = Filled(n, V)
              /\ Plain!Filled(n, V) = Filled(n, V)
              /\ Flat!Filled(n, V) = Filled(n, V)
  BY <1>2 DEF Filled, Paged!Filled, Plain!Filled, Flat!Filled
<1>5. /\ Paged!Addr = Addr /\ Plain!Addr = Addr /\ Flat!Addr = Addr
      /\ Paged!Call = Call /\ Plain!Call = Call /\ Flat!Call = Call
  BY DEF Addr, Paged!Addr, Plain!Addr, Flat!Addr, Call, Paged!Call, Plain!Call, Flat!Call
<1> QED
  BY <1>1, <1>2, <1>3, <1>4, <1>5

\* What a page holds, and that the flat view of the paged memory is made of it.
LEMMA PageBytes ==
  ASSUME Paged!TypeOK
  PROVE  /\ \A p \in Paged!Page, o \in Paged!Offset : Paged!ByteOf(p, o) \in Byte
         /\ \A a \in Addr : Paged!flatBytes[a] \in Byte
<1>1. \A p \in Paged!Page, o \in Paged!Offset : Paged!ByteOf(p, o) \in Byte
  BY ByteAssumption DEF Paged!TypeOK, Paged!ByteOf
<1> QED
  BY <1>1, Split, SameInterface DEF Paged!flatBytes

\* Handling a page keeps the walk where its call is.
LEMMA WalkGoesOn ==
  ASSUME LoaderInv, PagedCall, page < lastPage, Paged!StepWalk, UNCHANGED kind,
         call' \in Call, call'.addr = call.addr, Len(call'.data) = Len(call.data),
         call'.left = call.left - Paged!size
  PROVE  /\ WalkInv' /\ call'.left <= Len(call'.data)
         /\ page' \in Paged!Page \cup {NumPages} /\ lastPage' \in Paged!Page \cup {NumPages}
<1>1. /\ page \in Paged!Page /\ page \in Int /\ lastPage \in Int
      /\ Paged!size \in 1 .. call.left
      /\ page + 1 < lastPage => /\ call.left - Paged!size > 0
                               /\ nextAddr + Paged!size = Paged!getAddr(page + 1, 0)
      /\ page + 1 = lastPage => call.left - Paged!size = 0 \/ rangeEnd > AddrMod
  BY Portion
<1>2. /\ call \in Call /\ Paged!TypeOK /\ call.left <= Len(call.data)
      /\ kind = "paged" /\ AtPage
  BY DEF LoaderInv, TypeOK, WalkInv, PagedCall
<1>3. /\ call.addr \in Addr /\ call.addr \in Nat
      /\ Len(call.data) \in Nat /\ call.left \in Nat
      /\ rangeEnd \in Nat /\ nextAddr \in Nat /\ nextAddr = rangeEnd - call.left
  BY <1>2, CallShape
<1>4. rangeEnd' = rangeEnd /\ nextAddr' = nextAddr + Paged!size
  <2>1. rangeEnd' = rangeEnd
    BY DEF rangeEnd
  <2>2. nextAddr' = rangeEnd' - (call.left - Paged!size)
    BY DEF nextAddr
  <2> QED
    BY <2>1, <2>2, <1>1, <1>3
<1>5. page' = page + 1 /\ lastPage' = lastPage
  BY DEF Paged!StepWalk
<1>6. Paged!getPage(call.addr) \in Int /\ Paged!getPage(call.addr) <= page
  BY <1>2, <1>3, Split, PagesAssumption DEF AtPage, Paged!Page
<1>7. page' < lastPage' => AtPage'
  <2> SUFFICES ASSUME page + 1 < lastPage PROVE AtPage'
    BY <1>5
  <2>1. Paged!offset' = 0
    BY <1>1, <1>5, <1>6 DEF Paged!offset, Paged!getPage
  <2>2. call'.left > 0 /\ nextAddr' = Paged!getAddr(page', Paged!offset')
    BY <2>1, <1>1, <1>4, <1>5
  <2>3. Paged!getPage(call'.addr) <= page'
    BY <1>1, <1>5, <1>6
  <2> QED
    BY <2>2, <2>3, <1>2, <1>4, <1>5 DEF AtPage
<1>8. page' = lastPage' => call'.left = 0 \/ rangeEnd' > AddrMod
  BY <1>1, <1>4, <1>5
<1>9. ~(page' > lastPage')
  BY <1>1, <1>5
<1>10. page' \in Paged!Page \cup {NumPages} /\ lastPage' \in Paged!Page \cup {NumPages}
  BY <1>1, <1>2, <1>5, PagesAssumption DEF Paged!TypeOK, Paged!Page
<1>11. call'.left <= Len(call'.data)
  BY <1>1, <1>2, <1>3
<1> QED
  BY <1>7, <1>8, <1>9, <1>10, <1>11 DEF WalkInv

\* The promise sees the loader's variables through these.
LEMMA FlatOfPaged ==
  ASSUME kind = "paged"
  PROVE  bytes = Paged!flatBytes /\ present = Paged!flatPresent
  BY DEF bytes, present

\* Writing a page is writing the next portion.
LEMMA WritePageImplements ==
  ASSUME LoaderInv, kind = "paged", Paged!WritePage, UNCHANGED <<loaderVars, m_data>>
  PROVE  LoaderInv' /\ Flat!Next
<1> DEFINE sz == Paged!size
           off == Paged!offset
<1>1. PagedCall /\ page < lastPage /\ call.op = "write" /\ fault = "none"
  BY DEF Paged!WritePage, Paged!Walking, Paged!Serving, PagedCall
<1>2. /\ page \in Paged!Page /\ sz \in 1 .. call.left
      /\ off \in Paged!Offset /\ off + sz <= PageSize
      /\ moved(sz) \subseteq Addr
      /\ \A a \in Addr : a \in moved(sz) <=>
           /\ Paged!getPage(a) = page
           /\ Paged!getOffset(a) \in off .. off + sz - 1
  BY <1>1, Portion
<1>3. /\ call \in Call /\ Paged!TypeOK /\ call.left <= Len(call.data)
      /\ call.left \in Nat
  BY DEF LoaderInv, TypeOK, Call
<1>4. /\ m_storage' = [m_storage EXCEPT ![page] = Paged!Written]
      /\ call' = [call EXCEPT !.left = @ - sz]
      /\ Paged!StepWalk /\ fault' = fault
  BY DEF Paged!WritePage
<1>5. /\ elf' = elf /\ kind' = kind /\ stage' = stage /\ seg' = seg /\ filled' = filled
      /\ m_data' = m_data
  BY DEF loaderVars
<1>6. PageSize \in Nat /\ PageSize > 0 /\ NumPages \in Nat
  BY PagesAssumption
<1> HIDE DEF sz, off
<1>7. /\ call' \in Call /\ call'.addr = call.addr /\ call'.data = call.data
      /\ call'.op = call.op /\ call'.scalar = call.scalar
      /\ call'.left = call.left - sz
  <2>1. call.left - sz \in Nat
    BY <1>2, <1>3
  <2> QED
    BY <2>1, <1>3, <1>4 DEF Call
<1>8. \A o \in off .. off + sz - 1 :
        /\ o \in Paged!Offset
        /\ Paged!Source(Paged!getAddr(page, o)) = Source(Paged!getAddr(page, o))
        /\ Source(Paged!getAddr(page, o)) \in Byte
  <2> SUFFICES ASSUME NEW o \in off .. off + sz - 1
               PROVE  o \in Paged!Offset /\ Source(Paged!getAddr(page, o)) \in Byte
    BY SameInterface
  <2>1. o \in Paged!Offset
    BY <1>2, <1>3, <1>6 DEF Paged!Offset
  <2>2. Paged!getAddr(page, o) \in moved(sz)
    BY <2>1, <1>2, Join
  <2> QED
    BY <2>1, <2>2, <1>2, <1>3, SourceType
<1>9. Paged!Written \in [Paged!Offset -> Byte]
  <2> SUFFICES ASSUME NEW o \in Paged!Offset
               PROVE  (IF o \in off .. off + sz - 1 THEN Paged!Source(Paged!getAddr(page, o))
                       ELSE Paged!ByteOf(page, o)) \in Byte
    BY DEF Paged!Written, off, sz
  <2> QED
    BY <1>2, <1>3, <1>8, PageBytes
<1>10. /\ Paged!Written # Paged!Empty
       /\ \A o \in Paged!Offset :
            Paged!Written[o] = IF o \in off .. off + sz - 1 THEN Source(Paged!getAddr(page, o))
                               ELSE Paged!ByteOf(page, o)
  <2>1. DOMAIN Paged!Written = Paged!Offset /\ 0 \in Paged!Offset
    BY <1>6 DEF Paged!Written, Paged!Offset
  <2>2. DOMAIN Paged!Empty = {}
    BY DEF Paged!Empty
  <2>3. Paged!Written # Paged!Empty
    BY <2>1, <2>2
  <2>4. \A o \in Paged!Offset :
          Paged!Written[o] = IF o \in off .. off + sz - 1
                             THEN Paged!Source(Paged!getAddr(page, o))
                             ELSE Paged!ByteOf(page, o)
    BY DEF Paged!Written, off, sz
  <2> QED
    BY <2>3, <2>4, SameInterface
<1>11. /\ m_storage'[page] = Paged!Written
       /\ \A p \in Paged!Page \ {page} : m_storage'[p] = m_storage[p]
       /\ m_storage' \in [Paged!Page -> [Paged!Offset -> Byte] \cup {Paged!Empty}]
  BY <1>2, <1>3, <1>4, <1>9 DEF Paged!TypeOK
<1>12. LoaderInv'
  <2>1. /\ WalkInv' /\ call'.left <= Len(call'.data)
        /\ page' \in Paged!Page \cup {NumPages} /\ lastPage' \in Paged!Page \cup {NumPages}
    BY <1>1, <1>4, <1>5, <1>7, WalkGoesOn DEF sz
  <2>2. Paged!TypeOK'
    BY <2>1, <1>3, <1>4, <1>7, <1>11, SameInterface DEF Paged!TypeOK, Paged!Page, Paged!Call, Paged!Addr, Call, Addr
  <2> QED
    BY <2>1, <2>2, <1>5, <1>7 DEF LoaderInv, TypeOK, PlainInv
<1>13. bytes' = [a \in Addr |-> IF a \in moved(sz) THEN Source(a) ELSE bytes[a]]
  <2>1. \A a \in Addr : Paged!ByteOf(Paged!getPage(a), Paged!getOffset(a))' =
                         IF a \in moved(sz) THEN Source(a) ELSE Paged!flatBytes[a]
    <3> SUFFICES ASSUME NEW a \in Addr
                 PROVE  Paged!ByteOf(Paged!getPage(a), Paged!getOffset(a))' =
                         IF a \in moved(sz) THEN Source(a)
                         ELSE Paged!ByteOf(Paged!getPage(a), Paged!getOffset(a))
      BY SameInterface DEF Paged!flatBytes
    <3> DEFINE p == Paged!getPage(a)
               o == Paged!getOffset(a)
    <3>1. p \in Paged!Page /\ o \in Paged!Offset /\ Paged!getAddr(p, o) = a
      BY Split
    <3>2. Paged!getPage(a)' = p /\ Paged!getOffset(a)' = o
      BY DEF Paged!getPage, Paged!getOffset
    <3> HIDE DEF p, o
    <3>3. Paged!ByteOf(p, o)' = IF m_storage'[p] = Paged!Empty THEN 0 ELSE m_storage'[p][o]
      BY DEF Paged!ByteOf, Paged!Empty
    <3>4. CASE p = page
      <4>1. Paged!ByteOf(p, o)' = IF o \in off .. off + sz - 1 THEN Source(a)
                                  ELSE Paged!ByteOf(p, o)
        BY <3>1, <3>3, <3>4, <1>10, <1>11
      <4>2. a \in moved(sz) <=> o \in off .. off + sz - 1
        BY <3>4, <1>2 DEF p, o
      <4> QED
        BY <4>1, <4>2, <3>2 DEF p, o
    <3>5. CASE p # page
      <4>1. Paged!ByteOf(p, o)' = Paged!ByteOf(p, o)
        BY <3>1, <3>3, <3>5, <1>11 DEF Paged!ByteOf
      <4>2. a \notin moved(sz)
        BY <3>5, <1>2 DEF p
      <4> QED
        BY <4>1, <4>2, <3>2 DEF p, o
    <3> QED
      BY <3>4, <3>5
  <2>2. bytes' = [a \in Addr |-> Paged!ByteOf(Paged!getPage(a), Paged!getOffset(a))']
    BY <1>5 DEF bytes, Paged!flatBytes, Paged!Addr, Addr
  <2> QED
    BY <2>1, <2>2, FlatOfPaged
<1>14. present \cup moved(sz) \subseteq present' /\ present' \subseteq Addr
  <2>1. present' = {a \in Addr : m_storage'[Paged!getPage(a)] # Paged!Empty}
    BY <1>5 DEF present, Paged!flatPresent, Paged!Addr, Addr, Paged!getPage, Paged!Empty
  <2>2. present = {a \in Addr : m_storage[Paged!getPage(a)] # Paged!Empty}
    BY SameInterface DEF present, Paged!flatPresent
  <2>3. \A a \in Addr : Paged!getPage(a) \in Paged!Page
    BY Split
  <2>4. \A a \in moved(sz) : a \in present'
    BY <2>1, <1>2, <1>10, <1>11
  <2>5. \A a \in present : a \in present'
    BY <2>1, <2>2, <2>3, <1>10, <1>11
  <2> QED
    BY <2>1, <2>4, <2>5
<1>15. Flat!Write(sz)
  <2>1. Flat!Serving("write")
    BY <1>1 DEF Flat!Serving
  <2>2. /\ call' = [call EXCEPT !.left = @ - sz]
        /\ (kind = "plain")' = (kind = "plain") /\ fault' = fault
    BY <1>4, <1>5
  <2> QED
    BY <2>1, <2>2, <1>2, <1>13, <1>14, SameInterface DEF Flat!Write
<1> QED
  BY <1>2, <1>12, <1>15 DEF Flat!Next

LEMMA ReadPageImplements ==
  ASSUME LoaderInv, kind = "paged", Paged!ReadPage, UNCHANGED <<loaderVars, m_data>>
  PROVE  LoaderInv' /\ Flat!Next
<1> DEFINE sz == Paged!size
<1>1. PagedCall /\ page < lastPage /\ call.op = "read" /\ fault = "none"
  BY DEF Paged!ReadPage, Paged!Walking, Paged!Serving, PagedCall
<1>2. /\ page \in Paged!Page /\ sz \in 1 .. call.left
      /\ moved(sz) \subseteq Addr
      /\ \A a \in Addr : a \in moved(sz) => Paged!getPage(a) = page
  BY <1>1, Portion
<1>3. /\ call \in Call /\ Paged!TypeOK /\ call.left <= Len(call.data)
      /\ call.left \in Nat
  BY DEF LoaderInv, TypeOK, Call
<1>4. /\ m_storage' = m_storage /\ m_storage[page] # Paged!Empty
      /\ call' = [call EXCEPT !.data = Filled(sz, Paged!flatBytes), !.left = @ - sz]
      /\ Paged!StepWalk /\ fault' = fault
  BY SameInterface DEF Paged!ReadPage
<1>5. /\ elf' = elf /\ kind' = kind /\ stage' = stage /\ seg' = seg /\ filled' = filled
      /\ m_data' = m_data
  BY DEF loaderVars
<1> HIDE DEF sz
<1>6. Filled(sz, Paged!flatBytes) \in Seq(Byte) /\ Len(Filled(sz, Paged!flatBytes)) = Len(call.data)
  <2>1. \A a \in moved(sz) : Paged!flatBytes[a] \in Byte
    BY <1>2, <1>3, PageBytes
  <2> QED
    BY <2>1, <1>2, <1>3, FilledType
<1>7. /\ call' \in Call /\ call'.addr = call.addr /\ Len(call'.data) = Len(call.data)
      /\ call'.op = call.op /\ call'.scalar = call.scalar
      /\ call'.left = call.left - sz
  <2>1. call.left - sz \in Nat
    BY <1>2, <1>3
  <2> QED
    BY <2>1, <1>3, <1>4, <1>6 DEF Call
<1>8. LoaderInv'
  <2>1. /\ WalkInv' /\ call'.left <= Len(call'.data)
        /\ page' \in Paged!Page \cup {NumPages} /\ lastPage' \in Paged!Page \cup {NumPages}
    BY <1>1, <1>4, <1>5, <1>7, WalkGoesOn DEF sz
  <2>2. Paged!TypeOK'
    BY <2>1, <1>3, <1>4, <1>7, SameInterface DEF Paged!TypeOK, Paged!Page, Paged!Call, Paged!Addr, Call, Addr
  <2> QED
    BY <2>1, <2>2, <1>5, <1>7 DEF LoaderInv, TypeOK, PlainInv
<1>9. UNCHANGED <<bytes, present, kind = "plain", fault>>
  BY <1>4, <1>5 DEF bytes, present, Paged!flatBytes, Paged!flatPresent, Paged!ByteOf
<1>10. moved(sz) \subseteq present
  BY <1>2, <1>4, SameInterface, FlatOfPaged DEF Paged!flatPresent
<1>11. Flat!Read(sz)
  <2>1. Flat!Serving("read")
    BY <1>1 DEF Flat!Serving
  <2>2. call' = [call EXCEPT !.data = Flat!Filled(sz, bytes), !.left = @ - sz]
    BY <1>4, SameInterface, FlatOfPaged
  <2> QED
    BY <2>1, <2>2, <1>9, <1>10, SameInterface DEF Flat!Read
<1> QED
  BY <1>2, <1>8, <1>11 DEF Flat!Next

\* An error keeps the invariant: nothing but "fault" changes.
LEMMA FailKeeps ==
  ASSUME LoaderInv, UNCHANGED <<loaderVars, call, m_data, m_storage, page, lastPage>>,
         kind = "plain" => fault' \in {"none", "assert", "wild"},
         kind = "paged" => fault' \in {"none", "host", "absent", "walk", "stack"}
  PROVE  LoaderInv'
<1>1. TypeOK'
  <2>1. kind = "paged" => Paged!TypeOK'
    BY DEF LoaderInv, TypeOK, Paged!TypeOK, Paged!Call, Paged!Addr, Paged!Page
  <2> QED
    BY <2>1, KindsAssumption DEF LoaderInv, TypeOK, loaderVars
<1>2. WalkInv'
  BY DEF LoaderInv, WalkInv, PagedCall, AtPage, nextAddr, rangeEnd, loaderVars,
         Paged!getPage, Paged!getAddr, Paged!offset, Paged!getOffset
<1> QED
  BY <1>1, <1>2 DEF LoaderInv, PlainInv, loaderVars

LEMMA ViewUnchanged ==
  ASSUME UNCHANGED <<kind, m_data, m_storage>>
  PROVE  UNCHANGED <<bytes, present, kind = "plain">>
  BY DEF bytes, present, Paged!flatBytes, Paged!flatPresent, Paged!ByteOf, Plain!flatBytes

\* An error of a walk is an error in front of a byte that is not there, or of a
\* scalar access.
LEMMA PagedFailImplements ==
  ASSUME LoaderInv, kind = "paged", UNCHANGED <<loaderVars, m_data>>,
         \/ Paged!WritePageNoMemory \/ Paged!ReadPageEmpty
         \/ Paged!WalkBackwards \/ Paged!ScalarAccess
  PROVE  LoaderInv' /\ Flat!Next
<1>1. /\ call.op # "none" /\ fault = "none"
      /\ UNCHANGED <<call, m_storage, page, lastPage>>
      /\ fault' \in {"host", "absent", "walk", "stack"}
  BY DEF Paged!WritePageNoMemory, Paged!ReadPageEmpty, Paged!WalkBackwards, Paged!ScalarAccess,
         Paged!Walking, Paged!Serving, Paged!InCall, Paged!Fails, Paged!walkVars
<1>2. LoaderInv'
  BY <1>1, FailKeeps
<1>3. ~(Flat!touched \subseteq present) \/ (call.scalar /\ ~(kind = "plain"))
  <2>1. /\ call \in Call /\ Paged!TypeOK /\ call.left <= Len(call.data) /\ WalkInv
    BY DEF LoaderInv, TypeOK
  <2>2. /\ call.left \in Nat /\ rangeEnd \in Nat /\ nextAddr \in Nat
        /\ nextAddr = rangeEnd - call.left
    BY <2>1, CallShape
  <2>3. Flat!touched = {call.addr} \cup (nextAddr .. rangeEnd - 1)
    BY SameInterface DEF Flat!touched
  <2>4. CASE Paged!WritePageNoMemory \/ Paged!ReadPageEmpty
    <3>1. PagedCall /\ page < lastPage /\ m_storage[page] = Paged!Empty
      BY <2>4 DEF Paged!WritePageNoMemory, Paged!ReadPageEmpty, Paged!Walking, Paged!Serving, PagedCall
    <3>2. nextAddr \in Addr /\ Paged!getPage(nextAddr) = page /\ Paged!size \in 1 .. call.left
      BY <3>1, Portion
    <3>3. nextAddr \notin present
      BY <3>1, <3>2, FlatOfPaged DEF Paged!flatPresent
    <3>4. nextAddr \in Flat!touched
      BY <2>2, <2>3, <3>2
    <3> QED
      BY <3>3, <3>4
  <2>5. CASE Paged!WalkBackwards
    <3>1. PagedCall /\ page > lastPage
      BY <2>5 DEF Paged!WalkBackwards, Paged!InCall, PagedCall
    <3>2. call.left > 0 /\ rangeEnd > AddrMod
      BY <3>1, <2>1 DEF WalkInv
    <3>3. rangeEnd - 1 \in Flat!touched
      BY <3>2, <2>2, <2>3
    <3>4. rangeEnd - 1 \notin Addr
      BY <3>2, <2>2, AddrModAssumption DEF Addr
    <3>5. present \subseteq Addr
      BY FlatOfPaged, SameInterface DEF Paged!flatPresent
    <3> QED
      BY <3>3, <3>4, <3>5
  <2>6. CASE Paged!ScalarAccess
    BY <2>6 DEF Paged!ScalarAccess
  <2> QED
    BY <2>4, <2>5, <2>6
<1>4. Flat!Fail
  <2>1. UNCHANGED <<bytes, present, kind = "plain">>
    BY <1>1, ViewUnchanged DEF loaderVars
  <2> QED
    BY <1>1, <1>3, <2>1 DEF Flat!Fail, Flat!InCall
<1> QED
  BY <1>2, <1>4 DEF Flat!Next

\* A call that returns leaves its record behind, marked as done.
LEMMA ReturnKeeps ==
  ASSUME LoaderInv, UNCHANGED <<loaderVars, m_data, m_storage, page, lastPage>>, Returns
  PROVE  /\ LoaderInv' /\ call' = [call EXCEPT !.op = "none"] /\ fault' = fault
<1>1. /\ call' = [call EXCEPT !.op = "none"] /\ fault' = fault
      /\ call \in Call /\ call.left <= Len(call.data)
  BY DEF Returns, LoaderInv, TypeOK
<1>2. /\ call' \in Call /\ call'.op = "none"
      /\ call'.data = call.data /\ call'.left = call.left
  BY <1>1 DEF Call
<1>3. TypeOK'
  <2>1. kind = "paged" => Paged!TypeOK'
    BY <1>1, <1>2, SameInterface
       DEF LoaderInv, TypeOK, Paged!TypeOK, Paged!Call, Paged!Addr, Paged!Page, Call, Addr
  <2> QED
    BY <2>1, <1>1, <1>2, KindsAssumption DEF LoaderInv, TypeOK, loaderVars
<1>4. WalkInv'
  BY <1>2 DEF WalkInv, PagedCall
<1> QED
  BY <1>1, <1>2, <1>3, <1>4 DEF LoaderInv, PlainInv, loaderVars

LEMMA WalkEndsImplements ==
  ASSUME LoaderInv, kind = "paged", Paged!WalkEnds, UNCHANGED <<loaderVars, m_data>>
  PROVE  LoaderInv' /\ Flat!Next
<1>1. /\ PagedCall /\ fault = "none" /\ page = lastPage
      /\ Returns /\ UNCHANGED <<m_storage, page, lastPage>>
  BY DEF Paged!WalkEnds, Paged!InCall, Paged!Returns, Returns, PagedCall, Paged!walkVars
<1>2. call.left = 0 \/ rangeEnd > AddrMod
  BY <1>1 DEF LoaderInv, WalkInv
<1>3. LoaderInv'
  BY <1>1, ReturnKeeps
<1>4. Flat!Return
  BY <1>1, <1>2, ViewUnchanged, SameInterface
     DEF Flat!Return, Flat!InCall, Flat!Returns, Returns, PagedCall, loaderVars
<1> QED
  BY <1>3, <1>4 DEF Flat!Next

LEMMA PagedServeImplements ==
  ASSUME LoaderInv, kind = "paged", Paged!Serve, UNCHANGED <<loaderVars, m_data>>
  PROVE  LoaderInv' /\ Flat!Next
  BY WritePageImplements, ReadPageImplements, PagedFailImplements, WalkEndsImplements
     DEF Paged!Serve

\* A plain memory copies a range at once, and has copied nothing or all of it.
LEMMA PlainServeImplements ==
  ASSUME LoaderInv, kind = "plain", Plain!Serve, UNCHANGED <<loaderVars, m_storage, page, lastPage>>
  PROVE  LoaderInv' /\ Flat!Next
<1>1. /\ call \in Call /\ call.left <= Len(call.data) /\ call.left \in {0, Len(call.data)}
      /\ m_data \in [Plain!Mapped -> Byte]
  BY DEF LoaderInv, TypeOK, PlainInv
<1>2. /\ call.addr \in Addr /\ call.addr \in Nat /\ call.data \in Seq(Byte)
      /\ Len(call.data) \in Nat /\ call.left \in Nat
      /\ rangeEnd \in Nat /\ nextAddr \in Nat
      /\ rangeEnd = call.addr + Len(call.data) /\ nextAddr = rangeEnd - call.left
  BY <1>1, CallShape
<1>3. Plain!Mapped \subseteq Addr /\ present = Plain!Mapped /\ bytes = Plain!flatBytes
  BY PlainAssumption, AddrModAssumption DEF Plain!Mapped, Addr, present, bytes
<1>4. Plain!range = call.addr .. rangeEnd - 1
  BY SameInterface DEF Plain!range
<1>5. call.left > 0 => /\ call.left = Len(call.data) /\ call.left \in 1 .. call.left
                      /\ moved(call.left) = Plain!range /\ nextAddr = call.addr
  <2> SUFFICES ASSUME call.left > 0
               PROVE  /\ call.left = Len(call.data) /\ call.left \in 1 .. call.left
                      /\ moved(call.left) = Plain!range /\ nextAddr = call.addr
    OBVIOUS
  <2>1. call.left = Len(call.data) /\ call.left \in 1 .. call.left
    BY <1>1, <1>2
  <2>2. nextAddr = call.addr /\ nextAddr + call.left - 1 = rangeEnd - 1
    BY <2>1, <1>2
  <2> QED
    BY <2>1, <2>2, <1>4 DEF moved
<1>6. CASE Plain!Write
  <2>1. /\ call.op = "write" /\ fault' = fault /\ fault = "none" /\ call.left > 0
        /\ Plain!range \subseteq Plain!Mapped
        /\ m_data' = [a \in Plain!Mapped |-> IF a \in Plain!range THEN Source(a) ELSE m_data[a]]
        /\ call' = [call EXCEPT !.left = 0]
    BY <1>6, SameInterface DEF Plain!Write, Plain!Serving, Plain!ToMove
  <2>2. call' \in Call /\ call'.left = 0 /\ call'.data = call.data /\ call'.op = call.op
    BY <2>1, <1>1 DEF Call
  <2>3. m_data' \in [Plain!Mapped -> Byte]
    <3>1. \A a \in Plain!range : Source(a) \in Byte
      BY <2>1, <1>1, <1>5, SourceType
    <3> QED
      BY <3>1, <2>1, <1>1
  <2>4. LoaderInv'
    BY <2>1, <2>2, <2>3, <1>2 DEF LoaderInv, TypeOK, WalkInv, PagedCall, PlainInv, loaderVars, Plain!Mapped
  <2>5. bytes' = [a \in Addr |-> IF a \in moved(call.left) THEN Source(a) ELSE bytes[a]]
    <3>1. bytes' = [a \in Addr |-> IF a \in Plain!Mapped THEN m_data'[a] ELSE 0]
      BY DEF bytes, Plain!flatBytes, Plain!Addr, Addr, Plain!Mapped, loaderVars
    <3>2. bytes = [a \in Addr |-> IF a \in Plain!Mapped THEN m_data[a] ELSE 0]
      BY <1>3, SameInterface DEF Plain!flatBytes
    <3> QED
      BY <3>1, <3>2, <2>1, <1>5
  <2>6. Flat!Write(call.left)
    <3>1. /\ moved(call.left) \subseteq Addr /\ present' = present
          /\ present \cup moved(call.left) \subseteq present' /\ present' \subseteq Addr
      BY <2>1, <1>3, <1>5 DEF present, Plain!Mapped, loaderVars
    <3>2. call' = [call EXCEPT !.left = @ - call.left]
      BY <2>1, <1>2
    <3> QED
      BY <3>1, <3>2, <2>1, <2>5, SameInterface DEF Flat!Write, Flat!Serving, loaderVars
  <2> QED
    BY <2>1, <2>4, <2>6, <1>5 DEF Flat!Next
<1>7. CASE Plain!Read
  <2>1. /\ call.op = "read" /\ fault' = fault /\ fault = "none" /\ call.left > 0
        /\ Plain!range \subseteq Plain!Mapped /\ m_data' = m_data
        /\ call' = [call EXCEPT !.data = Filled(call.left, m_data), !.left = 0]
    BY <1>7, SameInterface DEF Plain!Read, Plain!Serving, Plain!ToMove
  <2>2. Filled(call.left, m_data) \in Seq(Byte) /\ Len(Filled(call.left, m_data)) = Len(call.data)
    BY <2>1, <1>1, <1>2, <1>5, FilledType
  <2>3. /\ call' \in Call /\ call'.left = 0 /\ call'.op = call.op
        /\ Len(call'.data) = Len(call.data)
    BY <2>1, <2>2, <1>1 DEF Call
  <2>4. LoaderInv'
    BY <2>1, <2>3, <1>1, <1>2 DEF LoaderInv, TypeOK, WalkInv, PagedCall, PlainInv, loaderVars, Plain!Mapped
  <2>5. Filled(call.left, m_data) = Filled(call.left, bytes)
    <3>1. \A a \in moved(call.left) : bytes[a] = m_data[a]
      BY <2>1, <1>3, <1>5, SameInterface DEF Plain!flatBytes
    <3> QED
      BY <3>1 DEF Filled
  <2>6. Flat!Read(call.left)
    <3>1. moved(call.left) \subseteq present
      BY <2>1, <1>3, <1>5
    <3>2. call' = [call EXCEPT !.data = Flat!Filled(call.left, bytes), !.left = @ - call.left]
      <4>1. call.left - call.left = 0
        BY <1>2
      <4>2. Flat!Filled(call.left, bytes) = Filled(call.left, m_data)
        BY <2>5, SameInterface
      <4> QED
        BY <4>1, <4>2, <2>1
    <3>3. UNCHANGED <<bytes, present, kind = "plain">>
      BY <2>1, ViewUnchanged DEF loaderVars
    <3> QED
      BY <3>1, <3>2, <3>3, <2>1, SameInterface DEF Flat!Read, Flat!Serving
  <2> QED
    BY <2>1, <2>4, <2>6, <1>5 DEF Flat!Next
<1>8. CASE Plain!TranslateAsserts \/ Plain!LeavesMapping
  <2>1. /\ call.op # "none" /\ fault = "none" /\ UNCHANGED <<call, m_data>>
        /\ fault' \in {"assert", "wild"}
    BY <1>8 DEF Plain!TranslateAsserts, Plain!LeavesMapping, Plain!InCall, Plain!Fails
  <2>2. LoaderInv'
    BY <2>1, FailKeeps
  <2>3. ~(Flat!touched \subseteq present)
    <3>1. Flat!touched = {call.addr} \cup (nextAddr .. rangeEnd - 1)
      BY SameInterface DEF Flat!touched
    <3>2. CASE Plain!TranslateAsserts
      <4>1. call.addr \notin Plain!Mapped
        BY <3>2, <1>2, PlainAssumption DEF Plain!TranslateAsserts, Plain!Mapped
      <4> QED
        BY <4>1, <3>1, <1>3
    <3>3. CASE Plain!LeavesMapping
      BY <3>3, <3>1, <1>3, <1>4, <1>5 DEF Plain!LeavesMapping
    <3> QED
      BY <1>8, <3>2, <3>3
  <2>4. Flat!Fail
    BY <2>1, <2>3, ViewUnchanged DEF Flat!Fail, Flat!InCall, loaderVars
  <2> QED
    BY <2>2, <2>4 DEF Flat!Next
<1>9. CASE Plain!Return
  <2>1. call.op # "none" /\ fault = "none" /\ call.left = 0 /\ Returns /\ m_data' = m_data
    BY <1>9 DEF Plain!Return, Plain!InCall, Plain!Returns, Returns
  <2>2. LoaderInv'
    BY <2>1, ReturnKeeps
  <2>3. Flat!Return
    BY <2>1, ViewUnchanged DEF Flat!Return, Flat!InCall, Flat!Returns, Returns, loaderVars
  <2> QED
    BY <2>2, <2>3 DEF Flat!Next
<1> QED
  BY <1>6, <1>7, <1>8, <1>9 DEF Plain!Serve

----------------------------------------------------------------------------
(* The loader.                                                             *)

\* A call of the loader is a call of the promise's client.
LEMMA CallImplements ==
  ASSUME LoaderInv, NEW op \in {"read", "write"}, NEW scalar \in BOOLEAN,
         NEW addr \in Addr, NEW data \in Seq(Byte), Calls(op, scalar, addr, data),
         UNCHANGED <<elf, kind>>, UNCHANGED seg \/ stage' # "fill",
         seg' \in 1 .. Len(elf.segments) + 1, filled' \in Nat,
         stage' \in {"segments", "fill", "loaded", "fetched"},
         stage' = "fill" => seg <= Len(elf.segments)
  PROVE  LoaderInv' /\ Flat!Next
<1>1. /\ Idle /\ UNCHANGED <<m_storage, m_data, fault>>
      /\ call' \in Call /\ call'.left = Len(call'.data)
      /\ kind = "paged" => Paged!TypeOK'
      /\ WalkInv'
  BY CallsBegin
<1>2. call'.left \in Nat
  BY <1>1 DEF Call
<1>3. LoaderInv'
  BY <1>1, <1>2 DEF LoaderInv, TypeOK, PlainInv, Plain!Mapped, Idle
<1>4. Flat!Begin
  BY <1>1, ViewUnchanged, SameInterface DEF Flat!Begin, Flat!Idle, Idle
<1> QED
  BY <1>3, <1>4 DEF Flat!Next

\* What is only the loader's does not touch the memory.
LEMMA LoaderOnly ==
  ASSUME LoaderInv, UNCHANGED <<elf, kind, memoryVars>>,
         seg' \in 1 .. Len(elf.segments) + 1, filled' = filled,
         stage' \in {"validate", "segments", "fill", "loaded", "fetched", "rejected"},
         stage' = "fill" => seg' <= Len(elf.segments)
  PROVE  LoaderInv' /\ UNCHANGED Flat!flatVars
<1>1. WalkInv'
  BY DEF LoaderInv, WalkInv, PagedCall, AtPage, nextAddr, rangeEnd, memoryVars,
         Paged!getPage, Paged!getAddr, Paged!offset, Paged!getOffset
<1>2. TypeOK'
  <2>1. kind = "paged" => Paged!TypeOK'
    BY DEF LoaderInv, TypeOK, Paged!TypeOK, Paged!Call, Paged!Addr, Paged!Page, memoryVars
  <2> QED
    BY <2>1 DEF LoaderInv, TypeOK, memoryVars, Plain!Mapped
<1>3. UNCHANGED Flat!flatVars
  BY ViewUnchanged DEF Flat!flatVars, memoryVars
<1> QED
  BY <1>1, <1>2, <1>3 DEF LoaderInv, PlainInv, memoryVars

LEMMA ZerosType == ASSUME NEW n \in Nat PROVE Zeros(n) \in Seq(Byte)
<1>1. Zeros(n) \in [1 .. n -> Byte]
  BY ByteAssumption DEF Zeros
<1> QED
  BY <1>1

\* Every step keeps the invariant and is a step of the promise, or none at all.
LEMMA StepImplements ==
  ASSUME LoaderInv, [Next]_vars
  PROVE  LoaderInv' /\ [Flat!Next]_(Flat!flatVars)
<1>1. /\ elf \in Elfs /\ elf \in Elf /\ Len(elf.segments) \in Nat
      /\ seg \in 1 .. Len(elf.segments) + 1 /\ filled \in Nat
      /\ \A i \in 1 .. Len(elf.segments) : elf.segments[i] \in Segment
  BY ElfsAssumption DEF LoaderInv, TypeOK, Elf
<1>2. CASE Rejected \/ Accepted \/ Loaded
  BY <1>1, <1>2, LoaderOnly DEF Rejected, Accepted, Loaded, GoTo
<1>3. CASE SkipSegment
  BY <1>1, <1>3, LoaderOnly DEF SkipSegment, AtSegment
<1>4. CASE WriteFile
  <2>1. Current \in Segment /\ seg <= Len(elf.segments)
    BY <1>1, <1>4 DEF WriteFile, AtSegment, Current
  <2>2. Current.vaddr \in Addr /\ Current.data \in Seq(Byte)
    BY <2>1 DEF Segment
  <2> QED
    BY <2>1, <2>2, <1>1, <1>4, CallImplements DEF WriteFile, GoTo
<1>5. CASE fillBlock
  <2>1. Current \in Segment /\ seg <= Len(elf.segments)
    BY <1>1, <1>5 DEF fillBlock, Current, LoaderInv
  <2>2. (Current.vaddr + Len(Current.data) + filled) % AddrMod \in Addr
    <3>1. Current.vaddr + Len(Current.data) + filled \in Int
      BY <2>1, <1>1, AddrModAssumption DEF Segment, Addr
    <3> QED
      BY <3>1, ModIsAddr
  <2>3. <<0>> \in Seq(Byte)
    BY ByteAssumption
  <2> QED
    <3> DEFINE a == (Current.vaddr + Len(Current.data) + filled) % AddrMod
               zero == <<0>>
    <3>1. /\ Calls("write", FALSE, a, zero)
          /\ filled' = filled + 1 /\ stage' = "fill" /\ UNCHANGED <<elf, kind, seg>>
      BY <1>5, Zenon DEF fillBlock, GoTo
    <3>2. a \in Addr /\ zero \in Seq(Byte)
      BY <2>2, <2>3
    <3> HIDE DEF a, zero
    <3>3. filled' \in Nat /\ seg' \in 1 .. Len(elf.segments) + 1
      BY <3>1, <1>1
    <3>4. LoaderInv' /\ Flat!Next
      BY <3>1, <3>2, <3>3, <2>1, CallImplements
    <3> QED
      BY <3>4
<1>6. CASE NextSegment
  <2>1. seg <= Len(elf.segments)
    BY <1>6 DEF NextSegment, LoaderInv
  <2> QED
    BY <2>1, <1>1, <1>6, LoaderOnly DEF NextSegment, GoTo
<1>7. CASE ReadBack
  <2>1. PICK r \in ReadBacks : Calls("read", FALSE, r[1], Zeros(r[2]))
    BY <1>7 DEF ReadBack
  <2>2. r[1] \in Addr /\ Zeros(r[2]) \in Seq(Byte)
    BY ReadBacksAssumption, ZerosType
  <2>3. /\ UNCHANGED <<elf, kind, seg>> /\ filled' \in Nat /\ stage' = "loaded"
        /\ seg' \in 1 .. Len(elf.segments) + 1
    BY <1>1, <1>7 DEF ReadBack, loaderVars
  <2> QED
    BY <2>1, <2>2, <2>3, CallImplements
<1>8. CASE FetchFirst
  <2>1. elf.entry \in Addr /\ Zeros(WordSize) \in Seq(Byte)
    BY <1>1, WordSizeAssumption, ZerosType DEF Elf
  <2> QED
    BY <2>1, <1>1, <1>8, CallImplements DEF FetchFirst, GoTo
<1>9. CASE Serve
  BY <1>9, PlainServeImplements, PagedServeImplements DEF Serve
<1>10. CASE Terminated \/ UNCHANGED vars
  BY <1>1, <1>10, LoaderOnly DEF Terminated, vars, loaderVars, LoaderInv, TypeOK
<1> QED
  BY <1>2, <1>3, <1>4, <1>5, <1>6, <1>7, <1>8, <1>9, <1>10 DEF Next, Load

LEMMA InitImplements == Init => Flat!Init
<1> SUFFICES ASSUME Init PROVE Flat!Init
  OBVIOUS
<1>1. call = Flat!NoCall /\ fault = "none"
  BY DEF Init, Paged!Init, Paged!NoCall, Flat!NoCall
<1>2. CASE kind = "plain"
  <2>1. bytes = Plain!flatBytes /\ present = Plain!Mapped
    BY <1>2 DEF bytes, present
  <2>2. Plain!flatBytes = [a \in Addr |-> 0]
    BY SameInterface DEF Plain!flatBytes, Init, Plain!Init
  <2>3. Plain!Mapped \subseteq Addr
    BY PlainAssumption, AddrModAssumption DEF Plain!Mapped, Addr
  <2> QED
    BY <1>1, <2>1, <2>2, <2>3, SameInterface DEF Flat!Init
<1>3. CASE kind # "plain"
  <2>1. bytes = Paged!flatBytes /\ present = Paged!flatPresent
    BY <1>3 DEF bytes, present
  <2>2. Paged!flatBytes = [a \in Addr |-> 0]
    <3>1. \A a \in Addr : m_storage[Paged!getPage(a)] = Paged!Empty
      BY Split DEF Init, Paged!Init
    <3> QED
      BY <3>1, SameInterface DEF Paged!flatBytes, Paged!ByteOf
  <2>3. Paged!flatPresent \subseteq Addr
    BY SameInterface DEF Paged!flatPresent
  <2> QED
    BY <1>1, <2>1, <2>2, <2>3, SameInterface DEF Flat!Init
<1> QED
  BY <1>2, <1>3

\* The loader and its memories are typed, for every file and size of page, mapping
\* and address space: no walk leaves the page table, whatever range it is given.
THEOREM LoaderTypeCorrect == Spec => []TypeOK
<1>1. LoaderInv => TypeOK
  BY DEF LoaderInv
<1>2. LoaderInv /\ [Next]_vars => LoaderInv'
  BY StepImplements
<1> QED
  BY <1>1, <1>2, InitEstablishes, PTL DEF Spec

\* Both memories implement the flat array of bytes, whatever is loaded and read.
THEOREM MemoriesAreFlat == Spec => ImplementsFlatMemory
<1>1. LoaderInv /\ [Next]_vars => LoaderInv' /\ [Flat!Next]_(Flat!flatVars)
  BY StepImplements
<1> QED
  BY <1>1, InitEstablishes, InitImplements, PTL DEF Spec, ImplementsFlatMemory, Flat!Spec
----------------------------------------------------------------------------
(* Every step of a load brings its end nearer.                             *)

\* A call is served only while its segment is being copied, and a fill never passes its end.
FillingInv ==
  /\ stage \in {"validate", "segments"} => call.op = "none"
  /\ stage = "fill" => filled <= ToFill

LEMMA CurrentShape ==
  ASSUME LoaderInv, seg <= Len(elf.segments)
  PROVE  /\ Current \in Segment /\ Current.memsz \in Nat /\ Len(Current.data) \in Nat
         /\ ToFill \in Nat
<1>1. elf \in Elf /\ seg \in 1 .. Len(elf.segments) /\ Len(elf.segments) \in Nat
  BY ElfsAssumption DEF LoaderInv, TypeOK, Elf
<1>2. Current \in Segment
  BY <1>1 DEF Elf, Current
<1>3. Current.memsz \in Nat /\ Len(Current.data) \in Nat
  BY <1>2, AddrModAssumption DEF Segment, Addr
<1>4. SizeMod \in Nat /\ SizeMod > 0
  BY SizeModAssumption, AddrModAssumption
<1> QED
  BY <1>2, <1>3, <1>4 DEF ToFill

\* A call in progress has a page less to visit, or its bytes moved, or returns, or fails.
LEMMA ServeIsNearer ==
  ASSUME LoaderInv, Serve, fault' = "none"
  PROVE  CallAhead' \in 0 .. CallAhead - 1
<1>1. /\ call \in Call /\ call.left \in Nat /\ UNCHANGED kind /\ kind \in Kinds
      /\ kind = "paged" => page \in Int /\ lastPage \in Int
  BY PagesAssumption
  DEF LoaderInv, TypeOK, Call, Serve, loaderVars, Paged!TypeOK, Paged!Page
<1>2. CASE kind = "plain" /\ Plain!Serve
  <2>1. CASE Plain!Write \/ Plain!Read
    <3>1. /\ call.op # "none" /\ call.left > 0
          /\ call'.op = call.op /\ call'.left = 0
      BY <1>1, <2>1 DEF Plain!Write, Plain!Read, Plain!ToMove, Plain!Serving, Call
    <3> QED
      BY <1>1, <1>2, <3>1 DEF CallAhead
  <2>2. CASE Plain!TranslateAsserts \/ Plain!LeavesMapping
    BY <2>2 DEF Plain!TranslateAsserts, Plain!LeavesMapping, Plain!Fails
  <2>3. CASE Plain!Return
    <3>1. call.op # "none" /\ call.left = 0 /\ call'.op = "none"
      BY <1>1, <2>3 DEF Plain!Return, Plain!Returns, Plain!InCall, Call
    <3> QED
      BY <1>2, <3>1 DEF CallAhead
  <2> QED
    BY <1>2, <2>1, <2>2, <2>3 DEF Plain!Serve
<1>3. CASE kind = "paged" /\ Paged!Serve
  <2>1. CASE Paged!WritePage \/ Paged!ReadPage
    <3>1. /\ call.op # "none" /\ page < lastPage
          /\ call'.op = call.op /\ page' = page + 1 /\ lastPage' = lastPage
      BY <1>1, <2>1
      DEF Paged!WritePage, Paged!ReadPage, Paged!Walking, Paged!Serving, Paged!StepWalk, Call
    <3> QED
      BY <1>1, <1>3, <3>1 DEF CallAhead
  <2>2. CASE \/ Paged!WritePageNoMemory \/ Paged!ReadPageEmpty \/ Paged!WalkBackwards
             \/ Paged!ScalarAccess
    BY <2>2
    DEF Paged!WritePageNoMemory, Paged!ReadPageEmpty, Paged!WalkBackwards, Paged!ScalarAccess,
        Paged!Fails
  <2>3. CASE Paged!WalkEnds
    <3>1. call.op # "none" /\ page = lastPage /\ call'.op = "none"
      BY <1>1, <2>3 DEF Paged!WalkEnds, Paged!Returns, Paged!InCall, Call
    <3> QED
      BY <1>1, <1>3, <3>1 DEF CallAhead
  <2> QED
    BY <1>3, <2>1, <2>2, <2>3 DEF Paged!Serve
<1> QED
  BY <1>2, <1>3 DEF Serve

LEMMA FillingKept ==
  ASSUME LoaderInv, FillingInv, [Next]_vars
  PROVE  FillingInv'
<1>1. CASE Rejected \/ Accepted \/ SkipSegment \/ Loaded
  BY <1>1
  DEF Rejected, Accepted, SkipSegment, Loaded, AtSegment, Idle, GoTo, memoryVars, FillingInv
<1>2. CASE WriteFile
  <2>1. seg <= Len(elf.segments) /\ UNCHANGED <<elf, seg>> /\ stage' = "fill" /\ filled' = 0
    BY <1>2 DEF WriteFile, AtSegment, GoTo
  <2>2. ToFill' = ToFill
    BY <2>1 DEF ToFill, Current
  <2>3. ToFill >= 0
    BY <2>1, CurrentShape
  <2> QED
    BY <2>1, <2>2, <2>3 DEF FillingInv
<1>3. CASE fillBlock
  <2>1. /\ filled < ToFill /\ stage = "fill" /\ stage' = "fill" /\ UNCHANGED <<elf, seg>>
        /\ filled' = filled + 1
    BY <1>3 DEF fillBlock, GoTo
  <2>2. ToFill' = ToFill /\ ToFill \in Int /\ filled \in Nat
    BY <2>1, CurrentShape DEF ToFill, Current, LoaderInv, TypeOK
  <2> QED
    BY <2>1, <2>2 DEF FillingInv
<1>4. CASE NextSegment
  BY <1>4 DEF NextSegment, GoTo, Idle, memoryVars, FillingInv
<1>5. CASE ReadBack \/ FetchFirst
  BY <1>5 DEF ReadBack, FetchFirst, GoTo, loaderVars, FillingInv
<1>6. CASE Serve
  <2>1. call.op # "none" /\ UNCHANGED <<stage, elf, seg, filled>>
    BY <1>6
    DEF Serve, loaderVars, Plain!Serve, Plain!Write, Plain!Read, Plain!TranslateAsserts,
        Plain!LeavesMapping, Plain!Return, Plain!Serving, Plain!InCall,
        Paged!Serve, Paged!WritePage, Paged!ReadPage, Paged!WritePageNoMemory,
        Paged!ReadPageEmpty, Paged!WalkBackwards, Paged!WalkEnds, Paged!ScalarAccess,
        Paged!Walking, Paged!Serving, Paged!InCall
  <2> QED
    BY <2>1 DEF FillingInv, ToFill, Current
<1>7. CASE Terminated \/ UNCHANGED vars
  BY <1>7 DEF Terminated, vars, loaderVars, memoryVars, FillingInv, ToFill, Current
<1> QED
  BY <1>1, <1>2, <1>3, <1>4, <1>5, <1>6, <1>7 DEF Next, Load

\* No load goes on for ever: whatever the file, the memory and the sizes, its steps count down.
\* What is left for LoadingEnds is that the host thread goes on.
THEOREM LoadCountsDown == Spec => LoadIsBounded
<1> DEFINE Nearer ==
      \/ LoadOver \/ LoadOver'
      \/ SegmentsAhead' \in 0 .. SegmentsAhead - 1
      \/ SegmentsAhead' = SegmentsAhead /\ ZerosAhead' \in 0 .. ZerosAhead - 1
      \/ UNCHANGED <<SegmentsAhead, ZerosAhead>> /\ CallAhead' \in 0 .. CallAhead - 1
<1>1. ASSUME LoaderInv, FillingInv, Next
      PROVE  Nearer \/ UNCHANGED vars
  <2>1. Len(elf.segments) \in Nat /\ seg \in 1 .. Len(elf.segments) + 1 /\ filled \in Nat
    BY <1>1, ElfsAssumption DEF LoaderInv, TypeOK, Elf
  <2>2. CASE Rejected \/ Loaded
    BY <2>2 DEF Rejected, Loaded, GoTo, LoadOver
  <2>3. CASE Accepted
    BY <2>1, <2>3 DEF Accepted, GoTo, SegmentsAhead
  <2>4. CASE SkipSegment
    BY <2>1, <2>4 DEF SkipSegment, AtSegment, SegmentsAhead
  <2>5. CASE WriteFile
    BY <2>1, <2>5 DEF WriteFile, AtSegment, GoTo, SegmentsAhead
  <2>6. CASE fillBlock
    <3>1. /\ filled < ToFill /\ filled' = filled + 1 /\ stage = "fill" /\ stage' = "fill"
          /\ UNCHANGED <<elf, seg>>
      BY <2>6 DEF fillBlock, GoTo
    <3>2. SegmentsAhead' = SegmentsAhead
      BY <3>1 DEF SegmentsAhead
    <3>3. ToFill' = ToFill /\ ToFill \in Int
      BY <1>1, <3>1, CurrentShape DEF LoaderInv, ToFill, Current
    <3>4. ZerosAhead' \in 0 .. ZerosAhead - 1
      BY <2>1, <3>1, <3>3 DEF ZerosAhead
    <3> QED
      BY <3>2, <3>4
  <2>7. CASE NextSegment
    <3>1. seg <= Len(elf.segments)
      BY <1>1, <2>7 DEF NextSegment, LoaderInv
    <3> QED
      BY <2>1, <2>7, <3>1 DEF NextSegment, GoTo, SegmentsAhead
  <2>8. CASE ReadBack \/ FetchFirst
    BY <2>8 DEF ReadBack, FetchFirst, LoadOver
  <2>9. CASE Serve
    <3>1. UNCHANGED <<SegmentsAhead, ZerosAhead>>
      BY <2>9 DEF Serve, loaderVars, SegmentsAhead, ZerosAhead, ToFill, Current
    <3>2. CASE fault' = "none"
      BY <1>1, <2>9, <3>1, <3>2, ServeIsNearer
    <3> QED
      BY <3>2 DEF LoadOver
  <2>10. CASE Terminated
    BY <2>10 DEF Terminated
  <2> QED
    BY <1>1, <2>2, <2>3, <2>4, <2>5, <2>6, <2>7, <2>8, <2>9, <2>10 DEF Next, Load
<1>2. Init => FillingInv
  BY DEF Init, FillingInv, Paged!Init, Paged!NoCall
<1>3. LoaderInv /\ [Next]_vars => LoaderInv'
  BY StepImplements
<1>4. LoaderInv /\ FillingInv /\ [Next]_vars => FillingInv'
  BY FillingKept
<1>5. LoaderInv /\ FillingInv /\ [Next]_vars => [Nearer]_vars
  BY <1>1
<1> HIDE DEF Nearer
<1>6. Spec => [][Nearer]_vars
  BY <1>2, <1>3, <1>4, <1>5, InitEstablishes, PTL DEF Spec
<1> QED
  BY <1>6 DEF LoadIsBounded, Nearer
----------------------------------------------------------------------------
(* The image of the file.  Of a step of the memory, only the step of       *)
(* FlatMemory it is counts here.                                           *)

\* Address a holds what the first k segments make of it.
Built(k, a) ==
  \/ (\A i \in 1 .. k : ~Covers(i, a)) /\ bytes[a] = 0
  \/ \E i \in 1 .. k :
       /\ Covers(i, a)
       /\ \A j \in 1 .. k : Covers(j, a) => j <= i
       /\ bytes[a] = SegmentByte(elf.segments[i], a)
       /\ a \in present

\* How much of the current segment has been written, file and zeros.
done == (IF filled = 0 THEN 0 ELSE Len(Current.data) + filled - 1)
          + (Len(call.data) - call.left)

\* The call in hand writes the file of the current segment, or its last zero so far;
\* its first bytes are there, and everything else is as the segments before left it.
FillInv ==
  stage = "fill" =>
    /\ Current.load
    /\ call.op \in {"write", "none"}
    /\ call.op = "none" => call.left = 0
    /\ filled <= ToFill
    /\ IF filled = 0
       THEN call.addr = Current.vaddr /\ call.data = Current.data
       ELSE /\ call.addr = (Current.vaddr + Len(Current.data) + filled - 1) % AddrMod
            /\ call.data = <<0>>
    /\ \A a \in Addr :
         IF OffsetIn(Current, a) < done
         THEN bytes[a] = SegmentByte(Current, a) /\ a \in present
         ELSE Built(seg - 1, a)

ImageInv ==
  WellFormed(elf) /\ FileInAddressSpace =>
    /\ stage = "validate" => seg = 1
    /\ stage \in {"validate", "segments"} =>
         call.op = "none" /\ \A a \in Addr : Built(seg - 1, a)
    /\ FillInv
    /\ stage \in {"loaded", "fetched"} =>
         call.op \in {"none", "read"} /\ \A a \in Addr : Built(Len(elf.segments), a)

----------------------------------------------------------------------------
(* Where a segment puts its bytes.                                         *)

LEMMA OffsetRange ==
  ASSUME NEW v \in Addr, NEW a \in Addr
  PROVE  /\ (a - v) % AddrMod \in 0 .. AddrMod - 1
         /\ (a - v) % AddrMod = IF a >= v THEN a - v ELSE (a - v) + AddrMod
<1>1. AddrMod \in Nat /\ AddrMod > 0 /\ a \in Nat /\ v \in Nat /\ a < AddrMod /\ v < AddrMod
  BY AddrModAssumption DEF Addr
<1>2. CASE a >= v
  BY <1>1, <1>2
<1>3. CASE ~(a >= v)
  <2>1. a - v = AddrMod * (-1) + ((a - v) + AddrMod) /\ (a - v) + AddrMod \in 0 .. AddrMod - 1
    BY <1>1, <1>3
  <2>2. (a - v) % AddrMod = (a - v) + AddrMod
    BY <2>1, <1>1
  <2> QED
    BY <2>1, <2>2, <1>3
<1> QED
  BY <1>2, <1>3

\* The address k bytes into a segment is the one whose offset in it is k.
LEMMA AddressOfOffset ==
  ASSUME NEW v \in Addr, NEW k \in 0 .. AddrMod - 1, NEW a \in Addr
  PROVE  a = (v + k) % AddrMod <=> (a - v) % AddrMod = k
<1>1. AddrMod \in Nat /\ AddrMod > 0 /\ v \in Nat /\ v < AddrMod /\ a \in Nat /\ a < AddrMod
      /\ k \in Nat /\ k < AddrMod
  BY AddrModAssumption DEF Addr
<1>2. (v + k) % AddrMod = IF v + k < AddrMod THEN v + k ELSE (v + k) - AddrMod
  <2>1. CASE v + k < AddrMod
    BY <1>1, <2>1
  <2>2. CASE ~(v + k < AddrMod)
    <3>1. v + k = AddrMod * 1 + ((v + k) - AddrMod) /\ (v + k) - AddrMod \in 0 .. AddrMod - 1
      BY <1>1, <2>2
    <3>2. (v + k) % AddrMod = (v + k) - AddrMod
      BY <3>1, <1>1
    <3> QED
      BY <3>2, <2>2
  <2> QED
    BY <2>1, <2>2
<1>3. (a - v) % AddrMod = IF a >= v THEN a - v ELSE (a - v) + AddrMod
  BY OffsetRange
<1> QED
  BY <1>1, <1>2, <1>3

----------------------------------------------------------------------------
(* The memory below the loader.                                            *)

LEMMA ServeIsFlat ==
  ASSUME LoaderInv, Serve
  PROVE  /\ UNCHANGED loaderVars
         /\ \/ \E n \in 1 .. call.left : Flat!Write(n) \/ Flat!Read(n)
            \/ Flat!Return
            \/ Flat!Fail
<1>1. Flat!Next /\ UNCHANGED loaderVars
  BY PlainServeImplements, PagedServeImplements DEF Serve
<1>2. call.op # "none"
  BY DEF Serve, Plain!Serve, Plain!Write, Plain!Read, Plain!TranslateAsserts, Plain!LeavesMapping,
         Plain!Return, Plain!Serving, Plain!InCall, Paged!Serve, Paged!WritePage,
         Paged!WritePageNoMemory, Paged!ReadPage, Paged!ReadPageEmpty, Paged!WalkBackwards,
         Paged!WalkEnds, Paged!ScalarAccess, Paged!Walking, Paged!Serving, Paged!InCall
<1>3. ~Flat!Begin
  BY <1>2 DEF Flat!Begin, Flat!Idle
<1> QED
  BY <1>1, <1>3 DEF Flat!Next

\* A call that begins has moved nothing.
LEMMA CallsRequest ==
  ASSUME NEW op, NEW scalar, NEW addr, NEW data, Calls(op, scalar, addr, data), UNCHANGED kind
  PROVE  /\ call' = [op |-> op, scalar |-> scalar, addr |-> addr, data |-> data, left |-> Len(data)]
         /\ UNCHANGED <<bytes, present>>
<1>1. UNCHANGED <<m_storage, m_data>> /\ call' = Request(op, scalar, addr, data)
  BY SameInterface DEF Calls, Plain!Begin, Paged!Begin, Plain!Request, Paged!Request, Request
<1> QED
  BY <1>1, ViewUnchanged DEF Request

\* A number below the modulus is its own remainder.
LEMMA SmallMod ==
  ASSUME NEW x \in Nat, NEW m \in Nat, x < m
  PROVE  (x % m) = x
  OBVIOUS

\* The segment being copied.
LEMMA AtCurrent ==
  ASSUME LoaderInv, WellFormed(elf), FileInAddressSpace, seg <= Len(elf.segments)
  PROVE  /\ Current \in Segment /\ seg \in 1 .. Len(elf.segments) /\ Len(elf.segments) \in Nat
         /\ Current.vaddr \in Addr /\ Current.vaddr \in Nat /\ Current.memsz \in Nat
         /\ Current.memsz < AddrMod
         /\ Len(Current.data) \in Nat /\ Len(Current.data) <= Current.memsz
         /\ ToFill \in Nat /\ ToFill = Current.memsz - Len(Current.data)
         /\ Current.load => Current.vaddr + Len(Current.data) <= AddrMod
<1>1. /\ elf \in Elf /\ WellFormed(elf) /\ seg \in 1 .. Len(elf.segments)
      /\ Len(elf.segments) \in Nat
  BY ElfsAssumption DEF LoaderInv, TypeOK, Elf
<1>2. Current \in Segment /\ Len(Current.data) <= Current.memsz /\ InAddressSpace(Current)
  BY <1>1 DEF Elf, Current, WellFormed, FileInAddressSpace
<1>3. /\ Current.memsz \in Nat /\ Current.memsz < AddrMod /\ Len(Current.data) \in Nat
      /\ Current.vaddr \in Addr /\ Current.vaddr \in Nat
      /\ AddrMod \in Nat /\ SizeMod \in Nat /\ AddrMod <= SizeMod
  BY <1>2, AddrModAssumption, SizeModAssumption DEF Segment, Addr
<1>4. ToFill = Current.memsz - Len(Current.data)
  <2>1. /\ Current.memsz - Len(Current.data) \in Nat
        /\ Current.memsz - Len(Current.data) < SizeMod
    BY <1>2, <1>3
  <2> QED
    BY <2>1, <1>3, SmallMod DEF ToFill
<1> QED
  BY <1>1, <1>2, <1>3, <1>4 DEF InAddressSpace

\* The next bytes of a call that fills a segment are the next ones of the segment.
LEMMA MovesSegment ==
  ASSUME LoaderInv, WellFormed(elf), FileInAddressSpace, FillInv, stage = "fill", NEW n \in 1 .. call.left,
         NEW a \in Addr
  PROVE  /\ a \in moved(n) <=> OffsetIn(Current, a) \in done .. done + n - 1
         /\ a \in moved(n) => Source(a) = SegmentByte(Current, a)
<1> DEFINE v == Current.vaddr
           len == Len(Current.data)
<1>1. /\ v \in Addr /\ v \in Nat /\ len \in Nat /\ Current.load
      /\ Current.memsz < AddrMod /\ Current.memsz \in Nat /\ len <= Current.memsz
      /\ v + len <= AddrMod
      /\ filled \in Nat /\ filled <= Current.memsz - len
  BY AtCurrent DEF LoaderInv, TypeOK, FillInv
<1>2. /\ call.left \in Nat /\ Len(call.data) \in Nat /\ call.left <= Len(call.data)
      /\ nextAddr = call.addr + Len(call.data) - call.left
      /\ call.addr \in Addr /\ call.addr \in Nat /\ a \in Nat /\ n \in Nat
      /\ AddrMod \in Nat /\ AddrMod > 0
  BY CallShape, AddrModAssumption DEF LoaderInv, TypeOK, Addr
<1>3. OffsetIn(Current, a) = IF a >= v THEN a - v ELSE (a - v) + AddrMod
  BY <1>1, OffsetRange DEF OffsetIn
<1>4. CASE filled = 0
  <2>1. call.addr = v /\ call.data = Current.data /\ done = len - call.left
    BY <1>1, <1>2, <1>4 DEF FillInv, done
  <2> HIDE DEF v, len
  <2>0. Len(call.data) = len
    BY <2>1 DEF len
  <2>a. nextAddr = v + done /\ done \in Nat /\ done + n <= len
    <3>1. nextAddr = v + len - call.left /\ done = len - call.left
      BY <2>0, <2>1, <1>2
    <3>2. v \in Nat /\ len \in Nat /\ call.left \in Nat /\ call.left <= len /\ n \in 1 .. call.left
      BY <2>0, <1>1, <1>2
    <3> HIDE <2>1, <1>1, <1>2, <2>0
    <3> QED
      BY <3>1, <3>2
  <2>b. a \in moved(n) <=> v + done <= a /\ a < v + done + n
    BY <2>a, <1>1, <1>2 DEF moved
  <2>2. a \in moved(n) <=> OffsetIn(Current, a) \in done .. done + n - 1
    <3>1. CASE a >= v
      BY <3>1, <2>a, <2>b, <1>1, <1>2, <1>3
    <3>2. CASE ~(a >= v)
      BY <3>2, <2>a, <2>b, <1>1, <1>2, <1>3
    <3> QED
      BY <3>1, <3>2
  <2>3. ASSUME a \in moved(n) PROVE Source(a) = SegmentByte(Current, a)
    <3>1. OffsetIn(Current, a) < len /\ OffsetIn(Current, a) = a - v
      BY <2>a, <2>b, <2>3, <1>1, <1>2, <1>3
    <3> QED
      BY <3>1, <2>1 DEF Source, SegmentByte, len
  <2> QED
    BY <2>2, <2>3
<1>5. CASE filled # 0
  <2> DEFINE k == len + filled - 1
  <2>1. /\ call.addr = (v + k) % AddrMod /\ call.data = <<0>>
        /\ k \in 0 .. AddrMod - 1 /\ k >= len
    <3>1. call.addr = (v + len + filled - 1) % AddrMod /\ call.data = <<0>>
      BY <1>5 DEF FillInv
    <3>2. v + len + filled - 1 = v + k
      BY <1>1
    <3>3. k \in 0 .. AddrMod - 1 /\ k >= len
      BY <1>1, <1>2, <1>5
    <3> QED
      BY <3>1, <3>2, <3>3, Zenon
  <2>2. n = 1 /\ call.left = 1 /\ Len(call.data) = 1
    BY <2>1, <1>2
  <2>3. done = k /\ nextAddr = call.addr
    BY <2>2, <1>1, <1>2, <1>5 DEF done
  <2>4. a \in moved(n) <=> a = call.addr
    BY <2>2, <2>3, <1>2 DEF moved
  <2>5. a = call.addr <=> OffsetIn(Current, a) = k
    BY <2>1, <1>1, AddressOfOffset DEF OffsetIn
  <2>6. ASSUME a = call.addr PROVE Source(a) = SegmentByte(Current, a)
    <3>1. Source(a) = 0
      BY <2>1, <2>6, <1>2 DEF Source
    <3>2. ~(OffsetIn(Current, a) < len)
      BY <2>1, <2>5, <2>6, <1>1
    <3> QED
      BY <3>1, <3>2 DEF SegmentByte
  <2> HIDE DEF k
  <2>7. OffsetIn(Current, a) = k <=> OffsetIn(Current, a) \in done .. done + n - 1
    BY <2>1, <2>2, <2>3, <1>1, <1>2, <1>3
  <2> QED
    BY <2>4, <2>5, <2>6, <2>7
<1> QED
  BY <1>4, <1>5

----------------------------------------------------------------------------
(* The loader's steps.                                                     *)

\* A step of the memory while a segment is being filled.
LEMMA ServeFills ==
  ASSUME LoaderInv, WellFormed(elf), FileInAddressSpace, FillInv, stage = "fill", Serve
  PROVE  FillInv'
<1>1. /\ seg \in 1 .. Len(elf.segments) /\ UNCHANGED loaderVars
      /\ Current.vaddr \in Nat /\ Len(Current.data) \in Nat /\ AddrMod \in Nat
      /\ Current.vaddr + Len(Current.data) <= AddrMod
  BY AtCurrent, ServeIsFlat, AddrModAssumption DEF FillInv, LoaderInv
<1>2. /\ stage' = stage /\ filled' = filled /\ seg' = seg /\ elf' = elf
      /\ Current' = Current /\ ToFill' = ToFill
  BY <1>1 DEF loaderVars, Current, ToFill
<1>3. /\ call \in Call /\ call.left \in Nat /\ call.left <= Len(call.data) /\ Len(call.data) \in Nat
      /\ nextAddr \in Nat /\ call.addr \in Nat /\ call.addr < AddrMod
      /\ rangeEnd = call.addr + Len(call.data)
      /\ filled \in Nat
  <2>1. call \in Call /\ call.left <= Len(call.data) /\ filled \in Nat
    BY DEF LoaderInv, TypeOK
  <2> QED
    BY <2>1, CallShape, AddrModAssumption DEF Addr
<1>4. CASE \E n \in 1 .. call.left : Flat!Write(n)
  <2>1. PICK n \in 1 .. call.left : Flat!Write(n)
    BY <1>4
  <2>2. /\ call' = [call EXCEPT !.left = @ - n] /\ call.op = "write"
        /\ bytes' = [a \in Addr |-> IF a \in moved(n) THEN Source(a) ELSE bytes[a]]
        /\ present \cup moved(n) \subseteq present'
    BY <2>1, SameInterface DEF Flat!Write, Flat!Serving
  <2>3. /\ call'.op = "write" /\ call'.addr = call.addr /\ call'.data = call.data
        /\ call'.left = call.left - n
    BY <2>2, <1>3 DEF Call
  <2>4. done' = done + n /\ done \in Nat /\ n \in Nat /\ n > 0
    <3>1. n \in Nat /\ n > 0 /\ Len(call.data) - (call.left - n) = (Len(call.data) - call.left) + n
      BY <1>3
    <3> DEFINE before == IF filled = 0 THEN 0 ELSE Len(Current.data) + filled - 1
               moves == Len(call.data) - call.left
    <3>2. before \in Nat /\ moves \in Nat /\ done = before + moves
      <4>1. CASE filled = 0
        BY <4>1, <1>3 DEF done
      <4>2. CASE filled # 0
        BY <4>2, <1>1, <1>3 DEF done
      <4> QED
        BY <4>1, <4>2
    <3>3. done' = before + (Len(call.data) - (call.left - n))
      BY <2>3, <1>2, Zenon DEF done
    <3>4. done' = before + (moves + n)
      BY <3>1, <3>3
    <3> HIDE DEF before, moves
    <3> QED
      BY <3>1, <3>2, <3>4
  <2>5. ASSUME NEW a \in Addr
        PROVE  IF OffsetIn(Current, a) < done'
               THEN bytes'[a] = SegmentByte(Current, a) /\ a \in present'
               ELSE Built(seg - 1, a)'
    <3>1. /\ a \in moved(n) <=> OffsetIn(Current, a) \in done .. done + n - 1
          /\ a \in moved(n) => Source(a) = SegmentByte(Current, a)
          /\ OffsetIn(Current, a) \in Nat
      <4>1. OffsetIn(Current, a) \in Nat
        BY <1>1, OffsetRange, AtCurrent DEF OffsetIn, LoaderInv
      <4> QED
        BY <4>1, MovesSegment
    <3>2. CASE a \in moved(n)
      BY <3>1, <3>2, <2>2, <2>4
    <3>3. CASE a \notin moved(n)
      <4>1. bytes'[a] = bytes[a] /\ (a \in present => a \in present')
        BY <3>3, <2>2
      <4>2. OffsetIn(Current, a) < done' <=> OffsetIn(Current, a) < done
        BY <3>1, <3>3, <2>4
      <4>3. IF OffsetIn(Current, a) < done
            THEN bytes[a] = SegmentByte(Current, a) /\ a \in present
            ELSE Built(seg - 1, a)
        BY DEF FillInv
      <4>4. Built(seg - 1, a) => Built(seg - 1, a)'
        BY <4>1, <1>2 DEF Built, Covers
      <4> QED
        BY <4>1, <4>2, <4>3, <4>4
    <3> QED
      BY <3>2, <3>3
  <2> QED
    BY <2>3, <2>5, <1>2 DEF FillInv
<1>5. CASE Flat!Return
  <2>1. call.left = 0
    <3>1. rangeEnd <= AddrMod
      <4>1. CASE filled = 0
        BY <4>1, <1>1, <1>3 DEF FillInv
      <4>2. CASE filled # 0
        <5>1. call.data = <<0>>
          BY <4>2, Zenon DEF FillInv
        <5>2. Len(call.data) = 1
          BY <5>1
        <5> QED
          BY <5>2, <1>1, <1>3
      <4> QED
        BY <4>1, <4>2
    <3> QED
      BY <3>1, <1>1, <1>3, <1>5, SameInterface DEF Flat!Return
  <2>2. /\ call' = [call EXCEPT !.op = "none"] /\ UNCHANGED <<bytes, present>>
    BY <1>5 DEF Flat!Return, Flat!Returns
  <2>3. /\ call'.op = "none" /\ call'.addr = call.addr /\ call'.data = call.data
        /\ call'.left = call.left
    BY <2>2, <1>3 DEF Call
  <2>4. done' = done
    BY <2>3, <1>2 DEF done
  <2> QED
    BY <2>1, <2>2, <2>3, <2>4, <1>2 DEF FillInv, Built, Covers
<1>6. CASE Flat!Fail
  <2>1. UNCHANGED <<bytes, present, call>>
    BY <1>6 DEF Flat!Fail
  <2>2. done' = done
    BY <2>1, <1>2 DEF done
  <2> QED
    BY <2>1, <2>2, <1>2 DEF FillInv, Built, Covers
<1>7. ~ \E n \in 1 .. call.left : Flat!Read(n)
  BY DEF FillInv, Flat!Read, Flat!Serving
<1> QED
  BY <1>4, <1>5, <1>6, <1>7, ServeIsFlat
\* A step of the memory once everything is loaded: it reads.
LEMMA ServeReads ==
  ASSUME LoaderInv, Serve, call.op \in {"none", "read"}
  PROVE  call'.op \in {"none", "read"} /\ UNCHANGED <<bytes, present, loaderVars>>
<1>1. /\ UNCHANGED loaderVars
      /\ (\E n \in 1 .. call.left : Flat!Read(n)) \/ Flat!Return \/ Flat!Fail
  BY ServeIsFlat DEF Flat!Write, Flat!Serving
<1>2. call \in Call
  BY DEF LoaderInv, TypeOK
<1> QED
  BY <1>1, <1>2 DEF Flat!Read, Flat!Return, Flat!Returns, Flat!Fail, Call

\* The zeros behind a segment's file begin where the file ends.
LEMMA FillGoesOn ==
  ASSUME LoaderInv, WellFormed(elf), FileInAddressSpace, FillInv, fillBlock
  PROVE  FillInv'
<1>1. /\ stage = "fill" /\ seg \in 1 .. Len(elf.segments) /\ filled \in Nat
      /\ Len(Current.data) \in Nat /\ call.op = "none" /\ call.left = 0
      /\ call \in Call /\ Len(call.data) \in Nat /\ filled < ToFill /\ ToFill \in Nat
  BY AtCurrent DEF fillBlock, FillInv, LoaderInv, TypeOK, Idle, Call
<1>2. /\ stage' = "fill" /\ filled' = filled + 1 /\ seg' = seg /\ elf' = elf /\ kind' = kind
      /\ Current' = Current /\ ToFill' = ToFill
  BY <1>1 DEF fillBlock, GoTo, Current, ToFill
<1>3. /\ call'.op = "write" /\ call'.data = <<0>> /\ call'.left = Len(call'.data)
      /\ call'.addr = (Current.vaddr + Len(Current.data) + filled) % AddrMod
      /\ UNCHANGED <<bytes, present>>
  <2> DEFINE addr == (Current.vaddr + Len(Current.data) + filled) % AddrMod
             zero == <<0>>
  <2>1. Calls("write", FALSE, addr, zero)
    BY Zenon DEF fillBlock
  <2> HIDE DEF addr, zero
  <2>2. /\ call' = [op |-> "write", scalar |-> FALSE, addr |-> addr, data |-> zero, left |-> Len(zero)]
        /\ UNCHANGED <<bytes, present>>
    BY <2>1, <1>2, CallsRequest
  <2> QED
    BY <2>2 DEF addr, zero
<1>4. Current.vaddr + Len(Current.data) + filled
        = Current.vaddr + Len(Current.data) + filled' - 1
  BY <1>1, <1>2, AtCurrent
<1>5. filled' # 0 /\ filled' <= ToFill'
  BY <1>1, <1>2
<1>6. done' = done
  <2>1. done' = Len(Current.data) + filled
    BY <1>1, <1>2, <1>3, <1>5 DEF done
  <2>2. done = Len(Current.data) + filled
    <3>1. CASE filled = 0
      <4>1. call.data = Current.data
        BY <3>1, <1>1, Zenon DEF FillInv
      <4> QED
        BY <4>1, <3>1, <1>1 DEF done
    <3>2. CASE filled # 0
      <4>1. call.data = <<0>>
        BY <3>2, <1>1, Zenon DEF FillInv
      <4>2. Len(call.data) = 1
        BY <4>1
      <4> QED
        BY <4>2, <3>2, <1>1 DEF done
    <3> QED
      BY <3>1, <3>2
  <2> QED
    BY <2>1, <2>2
<1>7. Current'.load /\ \A a \in Addr :
        IF OffsetIn(Current, a) < done'
        THEN bytes'[a] = SegmentByte(Current, a) /\ a \in present'
        ELSE Built(seg - 1, a)'
  BY <1>1, <1>2, <1>3, <1>6 DEF FillInv, Built, Covers
<1>8. call'.addr = (Current.vaddr + Len(Current.data) + filled' - 1) % AddrMod
  BY <1>3, <1>4
<1> QED
  BY <1>2, <1>3, <1>5, <1>7, <1>8 DEF FillInv

\* When the zeros are written, the segment is built on top of those before it.
LEMMA SegmentBuilt ==
  ASSUME LoaderInv, WellFormed(elf), FileInAddressSpace, FillInv, NextSegment, NEW a \in Addr
  PROVE  Built(seg, a)
<1>1. /\ stage = "fill" /\ seg \in 1 .. Len(elf.segments) /\ filled \in Nat
      /\ Len(Current.data) \in Nat /\ call.left = 0 /\ Len(call.data) \in Nat
      /\ filled = Current.memsz - Len(Current.data) /\ Current.memsz \in Nat
      /\ Current = elf.segments[seg] /\ Current.load
  BY AtCurrent DEF NextSegment, FillInv, LoaderInv, TypeOK, Idle, Call, Current
<1>2. done = Current.memsz
  <2>1. CASE filled = 0
    <3>1. call.data = Current.data
      BY <2>1, <1>1, Zenon DEF FillInv
    <3> QED
      BY <3>1, <2>1, <1>1 DEF done
  <2>2. CASE filled # 0
    <3>1. call.data = <<0>>
      BY <2>2, <1>1, Zenon DEF FillInv
    <3>2. Len(call.data) = 1
      BY <3>1
    <3> QED
      BY <3>2, <2>2, <1>1 DEF done
  <2> QED
    BY <2>1, <2>2
<1>3. IF OffsetIn(Current, a) < done
      THEN bytes[a] = SegmentByte(Current, a) /\ a \in present
      ELSE Built(seg - 1, a)
  BY <1>1 DEF FillInv
<1>4. CASE OffsetIn(Current, a) < done
  <2>1. Covers(seg, a)
    BY <1>1, <1>2, <1>4 DEF Covers
  <2>2. \A j \in 1 .. seg : j <= seg
    BY <1>1
  <2> QED
    BY <2>1, <2>2, <1>1, <1>3, <1>4 DEF Built
<1>5. CASE ~(OffsetIn(Current, a) < done)
  <2>1. ~Covers(seg, a)
    BY <1>1, <1>2, <1>5 DEF Covers
  <2>2. Built(seg - 1, a)
    BY <1>3, <1>5
  <2>3. \A i \in 1 .. seg : i \in 1 .. seg - 1 \/ i = seg
    BY <1>1
  <2>4. \A i \in 1 .. seg - 1 : i \in 1 .. seg
    BY <1>1
  <2> QED
    BY <2>1, <2>2, <2>3, <2>4 DEF Built
<1> QED
  BY <1>4, <1>5

LEMMA ImageStep ==
  ASSUME LoaderInv, ImageInv, [Next]_vars
  PROVE  ImageInv'
<1> SUFFICES ASSUME (WellFormed(elf) /\ FileInAddressSpace)'
             PROVE  /\ stage' = "validate" => seg' = 1
                    /\ stage' \in {"validate", "segments"} =>
                         call'.op = "none" /\ \A a \in Addr : Built(seg - 1, a)'
                    /\ FillInv'
                    /\ stage' \in {"loaded", "fetched"} =>
                         /\ call'.op \in {"none", "read"}
                         /\ \A a \in Addr : Built(Len(elf.segments), a)'
  BY DEF ImageInv
<1>1. /\ elf' = elf /\ kind' = kind
  BY DEF Next, Load, Rejected, Accepted, SkipSegment, WriteFile, fillBlock, NextSegment, Loaded,
         ReadBack, FetchFirst, Serve, Terminated, GoTo, loaderVars, vars
<1>2. WellFormed(elf) /\ FileInAddressSpace
  BY <1>1 DEF WellFormed, FileInAddressSpace
<1>3. /\ stage = "validate" => seg = 1
      /\ stage \in {"validate", "segments"} =>
           call.op = "none" /\ \A a \in Addr : Built(seg - 1, a)
      /\ FillInv
      /\ stage \in {"loaded", "fetched"} =>
           call.op \in {"none", "read"} /\ \A a \in Addr : Built(Len(elf.segments), a)
  BY <1>2 DEF ImageInv
<1>4. seg \in 1 .. Len(elf.segments) + 1 /\ Len(elf.segments) \in Nat
  BY ElfsAssumption DEF LoaderInv, TypeOK, Elf
<1>5. CASE Rejected
  BY <1>5 DEF Rejected, GoTo, FillInv
<1>6. CASE Accepted
  <2>1. UNCHANGED <<seg, call, bytes, present>> /\ stage = "validate" /\ stage' = "segments"
    BY <1>6, <1>1, ViewUnchanged DEF Accepted, GoTo, memoryVars
  <2> QED
    BY <2>1, <1>1, <1>3 DEF FillInv, Built, Covers
<1>7. CASE SkipSegment
  <2>1. /\ UNCHANGED <<call, bytes, present>> /\ stage = "segments" /\ stage' = stage
        /\ seg' = seg + 1 /\ ~elf.segments[seg].load
    BY <1>7, <1>1, ViewUnchanged DEF SkipSegment, AtSegment, Current, memoryVars
  <2>2. ASSUME NEW a \in Addr PROVE Built(seg - 1, a)'
    <3>1. Built(seg - 1, a) /\ ~Covers(seg, a)
      BY <2>1, <1>3 DEF Covers
    <3>2. (seg - 1)' = seg /\ \A i \in 1 .. seg : i \in 1 .. seg - 1 \/ i = seg
      BY <2>1, <1>4
    <3>3. \A i \in 1 .. seg - 1 : i \in 1 .. seg
      BY <1>4
    <3>4. \A i : Covers(i, a)' <=> Covers(i, a)
      BY <1>1 DEF Covers
    <3> QED
      BY <3>1, <3>2, <3>3, <3>4, <2>1, <1>1 DEF Built
  <2> QED
    BY <2>1, <2>2, <1>3 DEF FillInv
<1>8. CASE WriteFile
  <2>1. /\ stage = "segments" /\ stage' = "fill" /\ seg' = seg /\ filled' = 0
        /\ Current.load /\ Current' = Current /\ ToFill' = ToFill
        /\ seg <= Len(elf.segments)
    BY <1>8, <1>1 DEF WriteFile, AtSegment, GoTo, Current, ToFill
  <2>2. /\ call'.op = "write" /\ call'.addr = Current.vaddr /\ call'.data = Current.data
        /\ call'.left = Len(call'.data) /\ UNCHANGED <<bytes, present>>
    <3>1. Calls("write", FALSE, Current.vaddr, Current.data)
      BY <1>8 DEF WriteFile
    <3>2. /\ call' = [op |-> "write", scalar |-> FALSE, addr |-> Current.vaddr,
                      data |-> Current.data, left |-> Len(Current.data)]
          /\ UNCHANGED <<bytes, present>>
      BY <3>1, <1>1, CallsRequest
    <3> QED
      BY <3>2
  <2>3. ToFill \in Nat /\ Len(Current.data) \in Nat
    BY <2>1, <1>2, AtCurrent
  <2>4. done' = 0
    BY <2>1, <2>2, <2>3 DEF done
  <2>5. ASSUME NEW a \in Addr PROVE Built(seg - 1, a)' /\ ~(OffsetIn(Current, a) < 0)
    <3>1. OffsetIn(Current, a) \in Nat
      BY <2>1, <1>2, AtCurrent, OffsetRange, AddrModAssumption DEF OffsetIn
    <3>2. Built(seg - 1, a)
      BY <2>1, <1>3
    <3> QED
      BY <3>1, <3>2, <2>1, <2>2, <1>1 DEF Built, Covers
  <2>6. FillInv'
    BY <2>1, <2>2, <2>3, <2>4, <2>5 DEF FillInv
  <2> QED
    BY <2>1, <2>6
<1>9. CASE fillBlock
  <2>1. FillInv' /\ stage' = "fill"
    BY <1>9, <1>2, <1>3, FillGoesOn DEF fillBlock, GoTo
  <2> QED
    BY <2>1
<1>10. CASE NextSegment
  <2>1. /\ UNCHANGED <<call, bytes, present>> /\ stage = "fill" /\ stage' = "segments"
        /\ seg' = seg + 1 /\ call.op = "none"
    BY <1>10, <1>1, ViewUnchanged DEF NextSegment, GoTo, memoryVars, Idle
  <2>2. \A a \in Addr : Built(seg, a)
    BY <1>10, <1>2, <1>3, SegmentBuilt
  <2>3. (seg - 1)' = seg
    BY <2>1, <1>4
  <2>4. \A a \in Addr : Built(seg - 1, a)'
    BY <2>1, <2>2, <2>3, <1>1 DEF Built, Covers
  <2> QED
    BY <2>1, <2>4 DEF FillInv
<1>11. CASE Loaded
  <2>1. /\ UNCHANGED <<call, bytes, present>> /\ stage = "segments" /\ stage' = "loaded"
        /\ seg > Len(elf.segments)
    BY <1>11, <1>1, ViewUnchanged DEF Loaded, GoTo, memoryVars, AtSegment
  <2>2. seg - 1 = Len(elf.segments)
    BY <2>1, <1>4
  <2>3. \A a \in Addr : Built(Len(elf.segments), a)'
    BY <2>1, <2>2, <1>1, <1>3 DEF Built, Covers
  <2> QED
    BY <2>1, <2>3, <1>3 DEF FillInv
<1>12. CASE ReadBack \/ FetchFirst
  <2>1. /\ stage = "loaded" /\ stage' \in {"loaded", "fetched"} /\ call'.op = "read"
        /\ UNCHANGED <<bytes, present>>
    <3>1. stage = "loaded" /\ stage' \in {"loaded", "fetched"}
      BY <1>12 DEF ReadBack, FetchFirst, GoTo, loaderVars
    <3>2. PICK scalar, addr, data : Calls("read", scalar, addr, data)
      BY <1>12 DEF ReadBack, FetchFirst
    <3> QED
      BY <3>1, <3>2, <1>1, CallsRequest
  <2>2. \A a \in Addr : Built(Len(elf.segments), a)'
    BY <2>1, <1>1, <1>3 DEF Built, Covers
  <2> QED
    BY <2>1, <2>2 DEF FillInv
<1>13. CASE Serve
  <2>1. UNCHANGED loaderVars /\ call.op # "none"
    BY <1>13, ServeIsFlat
       DEF Flat!Write, Flat!Read, Flat!Return, Flat!Fail, Flat!Serving, Flat!InCall
  <2>2. stage \notin {"validate", "segments"} /\ stage' = stage /\ seg' = seg
    BY <2>1, <1>3 DEF loaderVars
  <2>3. CASE stage = "fill"
    BY <2>2, <2>3, <1>2, <1>3, <1>13, ServeFills
  <2>4. CASE stage \in {"loaded", "fetched"}
    <3>1. call'.op \in {"none", "read"} /\ UNCHANGED <<bytes, present>>
      BY <2>4, <1>3, <1>13, ServeReads
    <3>2. \A a \in Addr : Built(Len(elf.segments), a)'
      BY <3>1, <2>4, <1>1, <1>3 DEF Built, Covers
    <3> QED
      BY <3>1, <3>2, <2>2, <2>4 DEF FillInv
  <2>5. CASE stage \notin {"fill", "loaded", "fetched"}
    BY <2>2, <2>5 DEF FillInv
  <2> QED
    BY <2>3, <2>4, <2>5
<1>14. CASE Terminated \/ UNCHANGED vars
  <2>1. UNCHANGED <<stage, seg, filled, call, bytes, present, Current, ToFill, done>>
    BY <1>14, ViewUnchanged DEF Terminated, vars, loaderVars, memoryVars, Current, ToFill, done
  <2> QED
    BY <2>1, <1>1, <1>3 DEF FillInv, Built, Covers
<1> QED
  BY <1>5, <1>6, <1>7, <1>8, <1>9, <1>10, <1>11, <1>12, <1>13, <1>14 DEF Next, Load

LEMMA ImageInit == Init => ImageInv
<1> SUFFICES ASSUME Init PROVE ImageInv
  OBVIOUS
<1>1. bytes = [a \in Addr |-> 0]
  BY InitImplements, SameInterface DEF Flat!Init
<1>2. stage = "validate" /\ seg = 1 /\ call.op = "none"
  BY DEF Init, Paged!Init, Paged!NoCall
<1>3. \A a \in Addr : Built(seg - 1, a)
  <2>1. \A i \in 1 .. seg - 1 : FALSE
    BY <1>2
  <2> QED
    BY <1>1, <2>1 DEF Built
<1> QED
  BY <1>2, <1>3 DEF ImageInv, FillInv

\* What the last of the segments covering an address makes of it is its image byte.
LEMMA BuiltIsImage ==
  ASSUME NEW a \in Addr, Built(Len(elf.segments), a)
  PROVE  (Covering(a) # {} => a \in present) /\ bytes[a] = ImageByte(a)
<1>1. CASE \A i \in 1 .. Len(elf.segments) : ~Covers(i, a)
  <2>1. Covering(a) = {}
    BY <1>1 DEF Covering
  <2> QED
    BY <2>1, <1>1 DEF Built, ImageByte
<1>2. CASE \E i \in 1 .. Len(elf.segments) : Covers(i, a)
  <2>1. PICK i \in 1 .. Len(elf.segments) :
          /\ Covers(i, a)
          /\ \A j \in 1 .. Len(elf.segments) : Covers(j, a) => j <= i
          /\ bytes[a] = SegmentByte(elf.segments[i], a)
          /\ a \in present
    BY <1>2 DEF Built
  <2>2. i \in Covering(a) /\ \A j \in Covering(a) : i >= j
    BY <2>1 DEF Covering
  <2>3. Max(Covering(a)) \in Covering(a) /\ \A j \in Covering(a) : Max(Covering(a)) >= j
    BY <2>2 DEF Max
  <2>4. Max(Covering(a)) = i
    BY <2>2, <2>3 DEF Covering
  <2> QED
    BY <2>1, <2>2, <2>4 DEF ImageByte
<1> QED
  BY <1>1, <1>2

\* Every load that gets to its end has built the image of its file.
THEOREM ImageLoaded == Spec => []LoadedImage
<1>1. LoaderInv /\ ImageInv /\ [Next]_vars => LoaderInv' /\ ImageInv'
  BY StepImplements, ImageStep
<1>2. ImageInv => LoadedImage
  BY BuiltIsImage DEF ImageInv, LoadedImage
<1> QED
  BY <1>1, <1>2, InitEstablishes, ImageInit, PTL DEF Spec
=============================================================================
