-------------------------- MODULE SimulatorProofs --------------------------
(***************************************************************************)
(* sim executes the program of its file, for every word width, file and    *)
(* instruction set: the loader leaves the image of the file in the plain   *)
(* memory, and from there the interpreter is the guest machine.            *)
(***************************************************************************)
EXTENDS Simulator, InterpProofs, WellFoundedInduction

----------------------------------------------------------------------------
(* Types.                                                                  *)

\* The file, how far the load is, and the one call of the memory that is served: all of
\* it is still to be moved, or nothing.
LoadingType ==
  /\ elf \in Elfs /\ kind = "plain"
  /\ stage \in {"validate", "segments", "fill", "loaded", "rejected"}
  /\ seg \in 1 .. Len(elf.segments) + 1
  /\ stage = "fill" => seg \in 1 .. Len(elf.segments)
  /\ filled \in Nat
  /\ call \in Loading!Call
  /\ call.op \in {"none", "write"}
  /\ call.left \in {0, Len(call.data)}
  /\ started \in BOOLEAN

\* The mapping is the whole address space.
LEMMA AddrIsWord == Loading!Addr = Word /\ Loading!Plain!Mapped = Word
  BY ModsOrdered DEF Loading!Addr, Loading!Plain!Mapped, Word

\* What Hart::load and setSP leave is a CPU state.
LEMMA BootType == ASSUME NEW entry \in Word PROVE BootState(entry) \in CPUState
<1>1. 0 \in Word /\ 0 \in Icount
  BY ModsOrdered, IcountModAssumption DEF Word, Icount
<1> QED
  BY <1>1, HartAssumption DEF BootState, CPUState

\* What the assumption on the files says of a segment.
SegmentShape(s) ==
  /\ s.vaddr \in Word /\ s.memsz \in Word
  /\ s.data \in Seq(Byte) /\ Len(s.data) \in Nat /\ Len(s.data) <= s.memsz

\* Entry and segments of a file.
LEMMA FileShape ==
  ASSUME elf \in Elfs
  PROVE  /\ elf.entry \in Word
         /\ Len(elf.segments) \in Nat
         /\ \A i \in 1 .. Len(elf.segments) : SegmentShape(elf.segments[i])
<1>1. elf \in Loading!Elf /\ Loading!WellFormed(elf)
  BY FilesAssumption
<1>2. elf.entry \in Word /\ elf.segments \in Seq(Loading!Segment)
  BY <1>1, AddrIsWord DEF Loading!Elf
<1>3. \A i \in 1 .. Len(elf.segments) : elf.segments[i] \in Loading!Segment
  BY <1>2
<1>4. ASSUME NEW i \in 1 .. Len(elf.segments) PROVE SegmentShape(elf.segments[i])
  <2>1. Len(elf.segments[i].data) <= elf.segments[i].memsz
    BY <1>1 DEF Loading!WellFormed
  <2> QED
    BY <2>1, <1>3, AddrIsWord DEF Loading!Segment, SegmentShape
<1> QED
  BY <1>2, <1>4

\* A call of the memory that begins.
LEMMA CallBegins ==
  ASSUME LoadingType, NEW addr \in Word, NEW data \in Seq(Byte),
         Loading!Calls("write", FALSE, addr, data)
  PROVE  /\ call.op = "none" /\ UNCHANGED mem
         /\ call' \in Loading!Call
         /\ call'.op = "write" /\ call'.addr = addr /\ call'.data = data
         /\ call'.left = Len(data)
<1>1. /\ call' = [op |-> "write", scalar |-> FALSE, addr |-> addr, data |-> data, left |-> Len(data)]
      /\ call.op = "none" /\ UNCHANGED mem
  BY DEF LoadingType, Loading!Calls, Loading!Plain!Begin, Loading!Plain!Request, Loading!Plain!Idle
<1>2. Len(data) \in Nat
  OBVIOUS
<1> QED
  BY <1>1, <1>2, AddrIsWord DEF Loading!Call

\* The memory copies a range that lies in the mapping, the address space, at once.
LEMMA WriteCopies ==
  ASSUME LoadingType, mem \in Memory, Loading!Plain!Write
  PROVE  /\ call.op = "write" /\ call.left = Len(call.data) /\ Len(call.data) \in Nat
         /\ call.addr \in Nat /\ Len(call.data) > 0 /\ call.addr + Len(call.data) <= WordMod
         /\ call' \in Loading!Call /\ call'.op = "write" /\ call'.addr = call.addr
         /\ call'.data = call.data /\ call'.left = 0
         /\ mem' \in Memory
         /\ \A a \in Word :
              mem'[a] = IF a \in call.addr .. call.addr + Len(call.data) - 1
                        THEN call.data[a - call.addr + 1] ELSE mem[a]
<1> DEFINE len == Len(call.data)
<1>1. call.data \in Seq(Byte) /\ len \in Nat /\ call.addr \in Word /\ call.addr \in Nat
  BY AddrIsWord, ModsOrdered DEF LoadingType, Loading!Call, Word
<1>2. call' = [call EXCEPT !.left = 0]
  BY DEF Loading!Plain!Write
<1>3. /\ Loading!Plain!Mapped = Word
      /\ Loading!Plain!range = call.addr .. call.addr + len - 1
      /\ \A a : Loading!Plain!Source(a) = call.data[a - call.addr + 1]
  BY <1>1, AddrIsWord DEF Loading!Plain!range, Loading!Plain!rangeEnd, Loading!Plain!Source
<1>4. /\ call.op = "write" /\ call.left > 0
      /\ Loading!Plain!range \subseteq Word
  BY <1>3 DEF Loading!Plain!Write, Loading!Plain!Serving, Loading!Plain!ToMove
<1>5. mem' = [a \in Word |-> IF a \in Loading!Plain!range THEN Loading!Plain!Source(a) ELSE mem[a]]
  BY <1>3 DEF Loading!Plain!Write
<1>6. len > 0 /\ call.left = len
  BY <1>1, <1>4 DEF LoadingType
<1>7. call.addr + len <= WordMod
  <2>1. call.addr + len - 1 \in call.addr .. call.addr + len - 1
    BY <1>1, <1>6
  <2> QED
    BY <2>1, <1>1, <1>4, <1>3, ModsOrdered DEF Word
<1>8. \A a \in call.addr .. call.addr + len - 1 : call.data[a - call.addr + 1] \in Byte
  BY <1>1
<1>9. mem' \in Memory
  BY <1>3, <1>5, <1>8 DEF Memory
<1>10. /\ call' \in Loading!Call /\ call'.op = "write" /\ call'.addr = call.addr
      /\ call'.data = call.data /\ call'.left = 0
  BY <1>2, <1>4 DEF LoadingType, Loading!Call
<1>11. \A a \in Word :
        mem'[a] = IF a \in call.addr .. call.addr + len - 1
                  THEN call.data[a - call.addr + 1] ELSE mem[a]
  BY <1>3, <1>5
<1> QED
  BY <1>1, <1>4, <1>6, <1>7, <1>9, <1>10, <1>11

\* Every other step of the memory leaves it alone.
LEMMA ServeSteps ==
  ASSUME LoadingType, mem \in Memory, Loading!Serve
  PROVE  /\ UNCHANGED <<elf, kind, stage, seg, filled>>
         /\ \/ Loading!Plain!Write
            \/ UNCHANGED <<mem, call>>
            \/ /\ UNCHANGED mem
               /\ call.left = 0
               /\ call' \in Loading!Call /\ call'.op = "none" /\ call'.addr = call.addr
               /\ call'.data = call.data /\ call'.left = call.left
<1>1. Loading!Plain!Serve /\ UNCHANGED <<elf, kind, stage, seg, filled>>
  BY DEF LoadingType, Loading!Serve, Loading!loaderVars
<1>2. ~Loading!Plain!Read
  BY DEF LoadingType, Loading!Plain!Read, Loading!Plain!Serving
<1>3. Loading!Plain!TranslateAsserts \/ Loading!Plain!LeavesMapping => UNCHANGED <<mem, call>>
  BY DEF Loading!Plain!TranslateAsserts, Loading!Plain!LeavesMapping, Loading!Plain!Fails
<1>4. Loading!Plain!Return =>
        /\ UNCHANGED mem
        /\ call.left = 0
        /\ call' \in Loading!Call /\ call'.op = "none" /\ call'.addr = call.addr
        /\ call'.data = call.data /\ call'.left = call.left
  BY DEF LoadingType, Loading!Plain!Return, Loading!Plain!Returns, Loading!Call
<1> QED
  BY <1>1, <1>2, <1>3, <1>4 DEF Loading!Plain!Serve

----------------------------------------------------------------------------
(* The image.                                                              *)

\* Address a holds what the first k segments make of it.
Built(k, a) ==
  \/ (\A i \in 1 .. k : ~Loading!Covers(i, a)) /\ mem[a] = 0
  \/ \E i \in 1 .. k :
       /\ Loading!Covers(i, a)
       /\ \A j \in 1 .. k : Loading!Covers(j, a) => j <= i
       /\ mem[a] = Loading!SegmentByte(elf.segments[i], a)

Current == elf.segments[seg]
OffsetIn(a) == (a - Current.vaddr) % WordMod

\* How much of the current segment lay in memory in front of the call, and lies there now.
before == IF filled = 0 THEN 0 ELSE Len(Current.data) + filled - 1
done == before + (Len(call.data) - call.left)

\* The call in hand writes the file of the current segment, or its last zero so far;
\* its bytes are there when nothing is left, and everything else is as the segments
\* before left it.
FillInv ==
  stage = "fill" =>
    /\ Current.load
    /\ call.op = "none" => call.left = 0
    /\ filled <= Current.memsz - Len(Current.data)
    /\ IF filled = 0
       THEN call.addr = Current.vaddr /\ call.data = Current.data
       ELSE /\ call.addr = (Current.vaddr + before) % WordMod
            /\ call.data = <<0>>
    /\ \A a \in Word :
         IF OffsetIn(a) < done
         THEN mem[a] = Loading!SegmentByte(Current, a)
         ELSE Built(seg - 1, a)

ImageInv ==
  ~started =>
    /\ stage = "validate" => seg = 1
    /\ stage # "fill" => call.op = "none"
    /\ stage \in {"validate", "segments"} => \A a \in Word : Built(seg - 1, a)
    /\ FillInv
    /\ stage = "loaded" => \A a \in Word : Built(Len(elf.segments), a)

\* Where a segment has the byte of an address.
LEMMA OffsetRange ==
  ASSUME NEW v \in Word, NEW a \in Word
  PROVE  /\ (a - v) % WordMod \in 0 .. WordMod - 1
         /\ (a - v) % WordMod = IF a >= v THEN a - v ELSE (a - v) + WordMod
<1>1. WordMod \in Nat /\ WordMod > 0 /\ a \in Nat /\ v \in Nat /\ a < WordMod /\ v < WordMod
  BY ModsOrdered DEF Word
<1> HIDE DEF WordMod
<1>2. CASE a >= v
  BY <1>1, <1>2
<1>3. CASE ~(a >= v)
  <2>1. a - v = WordMod * (-1) + ((a - v) + WordMod) /\ (a - v) + WordMod \in 0 .. WordMod - 1
    BY <1>1, <1>3
  <2>2. (a - v) % WordMod = (a - v) + WordMod
    BY <2>1, <1>1
  <2> QED
    BY <2>1, <2>2, <1>3
<1> QED
  BY <1>2, <1>3

\* The address k bytes into a segment is the one whose offset in it is k.
LEMMA AddressOfOffset ==
  ASSUME NEW v \in Word, NEW k \in 0 .. WordMod - 1, NEW a \in Word
  PROVE  a = (v + k) % WordMod <=> (a - v) % WordMod = k
<1>1. /\ WordMod \in Nat /\ WordMod > 0 /\ v \in Nat /\ v < WordMod /\ a \in Nat /\ a < WordMod
      /\ k \in Nat /\ k < WordMod
  BY ModsOrdered DEF Word
<1>2. (v + k) % WordMod = IF v + k < WordMod THEN v + k ELSE (v + k) - WordMod
  <2>1. CASE v + k < WordMod
    BY <1>1, <2>1
  <2>2. CASE ~(v + k < WordMod)
    <3>1. v + k = WordMod * 1 + ((v + k) - WordMod) /\ (v + k) - WordMod \in 0 .. WordMod - 1
      BY <1>1, <2>2
    <3>2. (v + k) % WordMod = (v + k) - WordMod
      BY <3>1, <1>1
    <3> QED
      BY <3>2, <2>2
  <2> QED
    BY <2>1, <2>2
<1>3. (a - v) % WordMod = IF a >= v THEN a - v ELSE (a - v) + WordMod
  BY OffsetRange
<1> QED
  BY <1>1, <1>2, <1>3

\* The segment being copied, and the offset of an address in it.
LEMMA CurrentShape ==
  ASSUME LoadingType, seg <= Len(elf.segments)
  PROVE  /\ seg \in 1 .. Len(elf.segments) /\ SegmentShape(Current)
         /\ Current.vaddr \in Nat /\ Current.memsz \in Nat /\ Current.memsz < WordMod
         /\ \A a \in Word : /\ OffsetIn(a) \in Nat
                             /\ OffsetIn(a) = IF a >= Current.vaddr THEN a - Current.vaddr
                                             ELSE (a - Current.vaddr) + WordMod
<1>1. seg \in 1 .. Len(elf.segments) /\ SegmentShape(Current)
  BY FileShape DEF LoadingType, Current
<1>2. Current.vaddr \in Word /\ Current.memsz \in Word
  BY <1>1 DEF SegmentShape
<1>3. \A a \in Word : /\ OffsetIn(a) \in Nat
                      /\ OffsetIn(a) = IF a >= Current.vaddr THEN a - Current.vaddr
                                      ELSE (a - Current.vaddr) + WordMod
  BY <1>2, OffsetRange DEF OffsetIn
<1> QED
  BY <1>1, <1>2, <1>3, ModsOrdered DEF Word

\* A number below the modulus is its own remainder.
LEMMA SmallMod ==
  ASSUME NEW x \in Nat, NEW m \in Nat, x < m
  PROVE  (x % m) = x
  OBVIOUS

\* A product is no less than its factors.
LEMMA SquareIsLarger == ASSUME NEW m \in Nat PROVE m * m \in Nat /\ m <= m * m
  OBVIOUS

\* No file of Elfs has more file bytes than it takes memory: nothing wraps.
LEMMA ZerosToFill ==
  ASSUME LoadingType, seg <= Len(elf.segments)
  PROVE  Loading!ToFill = Current.memsz - Len(Current.data)
<1>1. /\ Current.memsz - Len(Current.data) \in Nat
      /\ Current.memsz - Len(Current.data) < WordMod
  BY CurrentShape, ModsOrdered DEF SegmentShape
<1>2. WordMod \in Nat /\ WordMod * WordMod \in Nat /\ WordMod <= WordMod * WordMod
  BY ModsOrdered, SquareIsLarger
<1> DEFINE n == Current.memsz - Len(Current.data)
           m == WordMod * WordMod
<1>3. Loading!ToFill = (n % m)
  BY DEF Loading!ToFill, Loading!Current, Current
<1>4. n \in Nat /\ m \in Nat /\ n < m
  <2>1. n \in Nat /\ n < WordMod /\ WordMod \in Nat /\ m \in Nat /\ WordMod <= m
    BY <1>1, <1>2
  <2> HIDE DEF n, m, WordMod
  <2> QED
    BY <2>1
<1> HIDE DEF n, m
<1>5. (n % m) = n
  BY <1>4, SmallMod
<1> QED
  BY <1>3, <1>5 DEF n

\* The bytes of a call that fills a segment are the next ones of the segment.
LEMMA MovesSegment ==
  ASSUME LoadingType, mem \in Memory, FillInv, stage = "fill", Loading!Plain!Write, NEW a \in Word
  PROVE  LET moved == call.addr .. call.addr + Len(call.data) - 1
         IN  /\ a \in moved <=> OffsetIn(a) \in before .. before + Len(call.data) - 1
             /\ a \in moved => call.data[a - call.addr + 1] = Loading!SegmentByte(Current, a)
<1> DEFINE v == Current.vaddr
           len == Len(Current.data)
           moved == call.addr .. call.addr + Len(call.data) - 1
<1>1. /\ v \in Word /\ v \in Nat /\ len \in Nat /\ len <= Current.memsz
      /\ Current.memsz \in Nat /\ Current.memsz < WordMod
      /\ filled \in Nat /\ filled <= Current.memsz - len
      /\ OffsetIn(a) \in Nat
      /\ OffsetIn(a) = IF a >= v THEN a - v ELSE (a - v) + WordMod
  BY CurrentShape DEF LoadingType, FillInv, SegmentShape
<1>2. /\ Len(call.data) \in Nat /\ call.addr \in Nat /\ a \in Nat /\ a < WordMod
      /\ call.addr + Len(call.data) <= WordMod /\ WordMod \in Nat
  BY WriteCopies, ModsOrdered DEF Word
<1>3. Loading!SegmentByte(Current, a) = IF OffsetIn(a) < len THEN Current.data[OffsetIn(a) + 1] ELSE 0
  BY DEF Loading!SegmentByte, Loading!OffsetIn, OffsetIn
<1>4. CASE filled = 0
  <2>1. call.addr = v /\ call.data = Current.data /\ before = 0
    BY <1>4 DEF FillInv, before
  <2> HIDE DEF v, len
  <2>2. v + len <= WordMod /\ (a \in moved <=> v <= a /\ a < v + len)
    BY <2>1, <1>1, <1>2 DEF len
  <2>3. a \in moved <=> OffsetIn(a) < len
    BY <2>2, <1>1, <1>2
  <2>4. a \in moved => OffsetIn(a) = a - v
    BY <2>2, <1>1, <1>2
  <2> QED
    BY <2>1, <2>3, <2>4, <1>1, <1>2, <1>3 DEF len
<1>5. CASE filled # 0
  <2>1. call.addr = (v + before) % WordMod /\ call.data = <<0>>
    BY <1>5, Zenon DEF FillInv
  <2>2. before \in 0 .. WordMod - 1 /\ before >= len
    BY <1>1, <1>2, <1>5 DEF before
  <2>3. Len(call.data) = 1
    BY <2>1
  <2>4. a \in moved <=> a = call.addr
    BY <2>3, <1>2
  <2>5. a = call.addr <=> OffsetIn(a) = before
    BY <2>1, <2>2, <1>1, AddressOfOffset DEF OffsetIn
  <2>6. a = call.addr => call.data[a - call.addr + 1] = 0
    BY <2>1, <1>2
  <2>7. OffsetIn(a) \in before .. before + Len(call.data) - 1 <=> OffsetIn(a) = before
    BY <2>2, <2>3, <1>1
  <2> QED
    BY <2>2, <2>4, <2>5, <2>6, <2>7, <1>1, <1>3
<1> QED
  BY <1>4, <1>5

\* A copy into the segment, or any other step of the memory, keeps what is there.
LEMMA ServeFills ==
  ASSUME LoadingType, mem \in Memory, FillInv, stage = "fill", Loading!Serve
  PROVE  FillInv'
<1>1. UNCHANGED <<elf, kind, stage, seg, filled>>
  BY ServeSteps
<1>2. /\ Current' = Current /\ before' = before /\ seg' = seg /\ elf' = elf /\ filled' = filled
      /\ \A a : OffsetIn(a)' = OffsetIn(a)
  BY <1>1 DEF Current, before, OffsetIn
<1>3. /\ before \in Nat /\ Len(call.data) \in Nat /\ seg \in 1 .. Len(elf.segments)
      /\ \A a \in Word : OffsetIn(a) \in Nat
  <2>1. /\ Len(Current.data) \in Nat /\ filled \in Nat /\ call.data \in Seq(Byte)
        /\ seg \in 1 .. Len(elf.segments)
        /\ \A a \in Word : OffsetIn(a) \in Nat
    BY CurrentShape DEF LoadingType, SegmentShape, Loading!Call
  <2> QED
    BY <2>1 DEF before
<1>4. CASE Loading!Plain!Write
  <2>1. /\ call'.op = "write" /\ call'.addr = call.addr /\ call'.data = call.data /\ call'.left = 0
        /\ call.left = Len(call.data)
        /\ \A a \in Word :
             mem'[a] = IF a \in call.addr .. call.addr + Len(call.data) - 1
                       THEN call.data[a - call.addr + 1] ELSE mem[a]
    BY <1>4, WriteCopies
  <2>2. done = before /\ done' = before + Len(call.data)
    BY <2>1, <1>2, <1>3 DEF done
  <2>3. ASSUME NEW a \in Word
        PROVE  IF OffsetIn(a) < done'
               THEN mem'[a] = Loading!SegmentByte(Current, a)
               ELSE Built(seg - 1, a)'
    <3> DEFINE moved == call.addr .. call.addr + Len(call.data) - 1
    <3>1. /\ a \in moved <=> OffsetIn(a) \in before .. before + Len(call.data) - 1
          /\ a \in moved => call.data[a - call.addr + 1] = Loading!SegmentByte(Current, a)
      BY <1>4, MovesSegment
    <3> HIDE DEF moved
    <3>2. mem'[a] = IF a \in moved THEN call.data[a - call.addr + 1] ELSE mem[a]
      BY <2>1 DEF moved
    <3>3. CASE a \in moved
      BY <3>1, <3>2, <3>3, <2>2, <1>3
    <3>4. CASE a \notin moved
      <4>1. mem'[a] = mem[a]
        BY <3>2, <3>4
      <4>2. OffsetIn(a) < done' <=> OffsetIn(a) < done
        BY <3>1, <3>4, <2>2, <1>3
      <4>3. IF OffsetIn(a) < done
            THEN mem[a] = Loading!SegmentByte(Current, a)
            ELSE Built(seg - 1, a)
        BY DEF FillInv
      <4>4. Built(seg - 1, a) => Built(seg - 1, a)'
        BY <4>1, <1>2 DEF Built, Loading!Covers, Loading!OffsetIn, Loading!SegmentByte
      <4> QED
        BY <4>1, <4>2, <4>3, <4>4
    <3> QED
      BY <3>3, <3>4
  <2>4. \A a \in Word : Loading!SegmentByte(Current, a)' = Loading!SegmentByte(Current, a)
    BY <1>2 DEF Loading!SegmentByte, Loading!OffsetIn
  <2> QED
    BY <2>1, <2>3, <2>4, <1>1, <1>2 DEF FillInv
<1>5. CASE \/ UNCHANGED <<mem, call>>
           \/ /\ UNCHANGED mem
              /\ call.left = 0
              /\ call' \in Loading!Call /\ call'.op = "none" /\ call'.addr = call.addr
              /\ call'.data = call.data /\ call'.left = call.left
  <2>1. /\ UNCHANGED mem /\ call'.addr = call.addr /\ call'.data = call.data
        /\ call'.left = call.left
        /\ call'.op = "none" => call.op = "none" \/ call.left = 0
    BY <1>5
  <2>2. done' = done
    BY <2>1, <1>2 DEF done
  <2>3. \A a : Built(seg - 1, a)' <=> Built(seg - 1, a)
    BY <2>1, <1>2 DEF Built, Loading!Covers, Loading!OffsetIn, Loading!SegmentByte
  <2>4. \A a : Loading!SegmentByte(Current, a)' = Loading!SegmentByte(Current, a)
    BY <1>2 DEF Loading!SegmentByte, Loading!OffsetIn
  <2> QED
    BY <2>1, <2>2, <2>3, <2>4, <1>1, <1>2 DEF FillInv
<1> QED
  BY <1>4, <1>5, ServeSteps

\* When no call is served, the call before has moved all its bytes.
LEMMA FilledSoFar ==
  ASSUME LoadingType, FillInv, stage = "fill", call.op = "none"
  PROVE  /\ done = Len(Current.data) + filled /\ done \in Nat
         /\ Len(Current.data) \in Nat /\ filled \in Nat
<1>1. /\ Len(Current.data) \in Nat /\ filled \in Nat /\ call.left = 0
  BY CurrentShape DEF LoadingType, SegmentShape, FillInv
<1>2. CASE filled = 0
  <2>1. call.data = Current.data
    BY <1>2, Zenon DEF FillInv
  <2> QED
    BY <2>1, <1>1, <1>2 DEF done, before
<1>3. CASE filled # 0
  <2>1. call.data = <<0>>
    BY <1>3, Zenon DEF FillInv
  <2>2. Len(call.data) = 1
    BY <2>1
  <2> QED
    BY <2>2, <1>1, <1>3 DEF done, before
<1> QED
  BY <1>2, <1>3

\* The next zero follows those before it.
LEMMA FillGoesOn ==
  ASSUME LoadingType, mem \in Memory, FillInv, Loading!fillBlock
  PROVE  /\ stage' = "fill" /\ UNCHANGED <<elf, kind, seg, mem>> /\ filled' = filled + 1
         /\ call' \in Loading!Call /\ call'.op = "write" /\ call'.left = Len(call'.data)
         /\ FillInv'
<1>1. /\ stage = "fill" /\ stage' = "fill" /\ UNCHANGED <<elf, kind, seg>> /\ filled' = filled + 1
      /\ call.op = "none" /\ filled < Current.memsz - Len(Current.data)
  <2>1. stage = "fill" /\ filled < Loading!ToFill
    BY DEF Loading!fillBlock
  <2>2. Loading!ToFill = Current.memsz - Len(Current.data)
    BY <2>1, FileShape, ZerosToFill DEF LoadingType
  <2> QED
    BY <2>1, <2>2 DEF Loading!fillBlock, Loading!Idle, Loading!GoTo
<1>2. /\ done = Len(Current.data) + filled /\ Len(Current.data) \in Nat /\ filled \in Nat
      /\ SegmentShape(Current) /\ Current.vaddr \in Nat /\ Current.memsz \in Nat
  BY <1>1, FilledSoFar, CurrentShape DEF LoadingType
<1>3. /\ Current' = Current /\ (\A a : OffsetIn(a)' = OffsetIn(a))
      /\ filled' \in Nat /\ filled' # 0
  BY <1>1, <1>2 DEF Current, OffsetIn
<1>4. before' = Len(Current.data) + filled
  BY <1>1, <1>2, <1>3 DEF before
<1> DEFINE addr == (Current.vaddr + Len(Current.data) + filled) % WordMod
           zero == <<0>>
<1>5. addr \in Word /\ zero \in Seq(Byte) /\ Len(zero) = 1
  <2>1. Current.vaddr + Len(Current.data) + filled \in Int
    BY <1>2
  <2>2. addr \in Word
    BY <2>1, ToWordType DEF ToWord
  <2>3. 0 \in Byte
    BY ByteModAssumption DEF Byte
  <2> QED
    BY <2>2, <2>3
<1>6. Loading!Calls("write", FALSE, addr, zero)
  BY Zenon DEF Loading!fillBlock, Loading!Current, Current
<1>7. addr = (Current.vaddr + before') % WordMod
  <2>1. Current.vaddr + Len(Current.data) + filled = Current.vaddr + before'
    BY <1>2, <1>4
  <2> QED
    BY <2>1
<1> HIDE DEF addr, zero
<1>8. /\ UNCHANGED mem /\ call' \in Loading!Call /\ call'.op = "write"
      /\ call'.addr = addr /\ call'.data = zero /\ call'.left = 1
  BY <1>5, <1>6, CallBegins
<1>9. done' = done
  <2>1. Len(call'.data) - call'.left = 0
    BY <1>5, <1>8
  <2>2. done' = before' + (Len(call'.data) - call'.left)
    BY DEF done
  <2> QED
    BY <2>1, <2>2, <1>2, <1>4
<1>10. \A a \in Word :
         IF OffsetIn(a) < done'
         THEN mem'[a] = Loading!SegmentByte(Current, a)
         ELSE Built(seg - 1, a)'
  <2>1. \A a : Built(seg - 1, a)' <=> Built(seg - 1, a)
    BY <1>1, <1>8 DEF Built, Loading!Covers, Loading!OffsetIn, Loading!SegmentByte
  <2> QED
    BY <2>1, <1>1, <1>8, <1>9 DEF FillInv
<1>11. \A a : Loading!SegmentByte(Current, a)' = Loading!SegmentByte(Current, a)
  BY <1>3 DEF Loading!SegmentByte, Loading!OffsetIn
<1>12. Current.load /\ filled' <= Current.memsz - Len(Current.data)
  BY <1>1, <1>2 DEF FillInv
<1>13. FillInv'
  <2>1. call'.addr = (Current.vaddr + before') % WordMod /\ call'.data = <<0>>
    BY <1>7, <1>8 DEF zero
  <2> QED
    BY <2>1, <1>1, <1>3, <1>8, <1>10, <1>11, <1>12 DEF FillInv
<1> QED
  BY <1>1, <1>5, <1>8, <1>13

\* When the zeros are written, the segment is built on top of those before it.
LEMMA SegmentBuilt ==
  ASSUME LoadingType, FillInv, Loading!NextSegment, NEW a \in Word
  PROVE  Built(seg, a)
<1>1. /\ stage = "fill" /\ call.op = "none" /\ filled = Current.memsz - Len(Current.data)
      /\ Current = elf.segments[seg] /\ seg \in 1 .. Len(elf.segments)
      /\ Len(elf.segments) \in Nat
  <2>1. stage = "fill" /\ call.op = "none" /\ filled = Loading!ToFill
    BY DEF Loading!NextSegment, Loading!Idle
  <2>2. seg \in 1 .. Len(elf.segments) /\ Len(elf.segments) \in Nat
    BY <2>1, FileShape DEF LoadingType
  <2>3. Loading!ToFill = Current.memsz - Len(Current.data)
    BY <2>2, ZerosToFill
  <2> QED
    BY <2>1, <2>2, <2>3 DEF Current
<1>2. done = Current.memsz /\ Current.load
  BY <1>1, FilledSoFar, CurrentShape DEF FillInv
<1>3. IF OffsetIn(a) < done
      THEN mem[a] = Loading!SegmentByte(Current, a)
      ELSE Built(seg - 1, a)
  BY <1>1 DEF FillInv
<1>4. Loading!Covers(seg, a) <=> OffsetIn(a) < done
  BY <1>1, <1>2 DEF Loading!Covers, Loading!OffsetIn, OffsetIn
<1>5. CASE OffsetIn(a) < done
  <2>1. \A j \in 1 .. seg : j <= seg
    BY <1>1
  <2>2. seg \in 1 .. seg
    BY <1>1
  <2> QED
    BY <2>1, <2>2, <1>1, <1>3, <1>4, <1>5 DEF Built
<1>6. CASE ~(OffsetIn(a) < done)
  <2>1. ~Loading!Covers(seg, a) /\ Built(seg - 1, a)
    BY <1>3, <1>4, <1>6
  <2>2. \A i \in 1 .. seg : i \in 1 .. seg - 1 \/ i = seg
    BY <1>1
  <2>3. \A i \in 1 .. seg - 1 : i \in 1 .. seg
    BY <1>1
  <2> QED
    BY <2>1, <2>2, <2>3 DEF Built
<1> QED
  BY <1>5, <1>6

----------------------------------------------------------------------------
(* The steps of the loader.                                                *)

SimInv == TypeOK /\ LoadingType /\ ImageInv

\* One step of the loader, or of the memory below it.
LEMMA LoadStepKeeps ==
  ASSUME TypeOK, LoadingType, ImageInv, LoadStep
  PROVE  TypeOK' /\ LoadingType' /\ ImageInv'
<1>1. /\ ~started /\ UNCHANGED <<cpu, phase, fault, started>> /\ mem \in Memory
      /\ FillInv
      /\ Loading!Load \/ Loading!Serve
  BY DEF LoadStep, TypeOK, ImageInv
<1> SUFFICES mem' \in Memory /\ LoadingType' /\ ImageInv'
  BY <1>1 DEF TypeOK
<1>2. /\ Len(elf.segments) \in Nat /\ seg \in Nat
      /\ \A i \in 1 .. Len(elf.segments) : SegmentShape(elf.segments[i])
  BY FileShape DEF LoadingType
<1>3. ASSUME UNCHANGED <<elf, mem>>, NEW a
      PROVE  /\ UNCHANGED seg => (Built(seg - 1, a)' <=> Built(seg - 1, a))
             /\ seg' - 1 = seg => (Built(seg - 1, a)' <=> Built(seg, a))
             /\ Built(Len(elf.segments), a)' <=> Built(Len(elf.segments), a)
  BY <1>3 DEF Built, Loading!Covers, Loading!OffsetIn, Loading!SegmentByte
<1>4. CASE Loading!Rejected
  <2>1. /\ stage = "validate" /\ stage' = "rejected"
        /\ UNCHANGED <<elf, kind, seg, filled, mem, call>>
    BY <1>4 DEF Loading!Rejected, Loading!GoTo, Loading!memoryVars
  <2> QED
    BY <2>1, <1>1 DEF LoadingType, ImageInv, FillInv
<1>5. CASE Loading!Accepted
  <2>1. /\ stage = "validate" /\ stage' = "segments"
        /\ UNCHANGED <<elf, kind, seg, filled, mem, call>>
    BY <1>5 DEF Loading!Accepted, Loading!GoTo, Loading!memoryVars
  <2>2. \A a \in Word : Built(seg - 1, a)'
    BY <2>1, <1>1, <1>3 DEF ImageInv
  <2>3. LoadingType'
    BY <2>1, <1>1 DEF LoadingType
  <2> QED
    BY <2>1, <2>2, <2>3, <1>1 DEF ImageInv, FillInv
<1>6. CASE Loading!SkipSegment
  <2>1. /\ stage = "segments" /\ seg <= Len(elf.segments) /\ ~Current.load
        /\ seg' = seg + 1
        /\ UNCHANGED <<elf, kind, stage, filled, mem, call>>
    BY <1>6 DEF Loading!SkipSegment, Loading!AtSegment, Loading!Current, Current,
       Loading!memoryVars
  <2>2. ASSUME NEW a \in Word PROVE Built(seg, a)
    <3>1. ~Loading!Covers(seg, a)
      BY <2>1 DEF Loading!Covers, Current
    <3>2. Built(seg - 1, a)
      BY <2>1, <1>1 DEF ImageInv
    <3>3. \A i \in 1 .. seg : i \in 1 .. seg - 1 \/ i = seg
      BY <1>2
    <3>4. \A i \in 1 .. seg - 1 : i \in 1 .. seg
      BY <1>2
    <3> QED
      BY <3>1, <3>2, <3>3, <3>4 DEF Built
  <2>3. \A a \in Word : Built(seg - 1, a)'
    <3>1. seg' - 1 = seg
      BY <2>1, <1>2
    <3> QED
      BY <2>1, <2>2, <3>1, <1>3
  <2>4. LoadingType'
    BY <2>1, <1>1, <1>2 DEF LoadingType
  <2> QED
    BY <2>1, <2>3, <2>4, <1>1 DEF ImageInv, FillInv
<1>7. CASE Loading!WriteFile
  <2>1. /\ stage = "segments" /\ seg <= Len(elf.segments) /\ Current.load
        /\ Loading!Calls("write", FALSE, Current.vaddr, Current.data)
        /\ stage' = "fill" /\ filled' = 0
        /\ UNCHANGED <<elf, kind, seg>>
    BY <1>7 DEF Loading!WriteFile, Loading!AtSegment, Loading!GoTo, Loading!Current, Current
  <2>2. /\ seg \in 1 .. Len(elf.segments) /\ SegmentShape(Current)
        /\ Current.memsz \in Nat
        /\ \A a \in Word : OffsetIn(a) \in Nat
    BY <2>1, CurrentShape
  <2>3. /\ UNCHANGED mem /\ call' \in Loading!Call /\ call'.op = "write"
        /\ call'.addr = Current.vaddr /\ call'.data = Current.data
        /\ call'.left = Len(Current.data)
    BY <2>1, <2>2, CallBegins DEF SegmentShape
  <2>4. Current' = Current /\ (\A a : OffsetIn(a)' = OffsetIn(a)) /\ done' = 0
    <3>1. Current' = Current /\ (\A a : OffsetIn(a)' = OffsetIn(a))
      BY <2>1 DEF Current, OffsetIn
    <3> QED
      BY <3>1, <2>1, <2>2, <2>3 DEF done, before, SegmentShape
  <2>5. \A a \in Word : IF OffsetIn(a)' < done'
                        THEN mem'[a] = Loading!SegmentByte(Current, a)'
                        ELSE Built(seg - 1, a)'
    <3>1. \A a \in Word : Built(seg - 1, a)'
      BY <2>1, <2>3, <1>1, <1>3 DEF ImageInv
    <3> QED
      BY <3>1, <2>2, <2>4
  <2>6. LoadingType'
    BY <2>1, <2>2, <2>3, <1>1 DEF LoadingType
  <2>7. FillInv'
    BY <2>1, <2>2, <2>3, <2>4, <2>5 DEF FillInv, SegmentShape
  <2> QED
    BY <2>1, <2>3, <2>6, <2>7, <1>1 DEF ImageInv
<1>8. CASE Loading!fillBlock
  <2>1. /\ stage' = "fill" /\ UNCHANGED <<elf, kind, seg, mem>> /\ filled' = filled + 1
        /\ call' \in Loading!Call /\ call'.op = "write" /\ call'.left = Len(call'.data)
        /\ FillInv'
    BY <1>1, <1>8, FillGoesOn
  <2>2. stage = "fill"
    BY <1>8 DEF Loading!fillBlock
  <2>3. LoadingType'
    BY <2>1, <2>2, <1>1 DEF LoadingType
  <2> QED
    BY <2>1, <2>3, <1>1 DEF ImageInv
<1>9. CASE Loading!NextSegment
  <2>1. /\ stage = "fill" /\ stage' = "segments" /\ call.op = "none" /\ seg' = seg + 1
        /\ UNCHANGED <<elf, kind, filled, mem, call>>
    BY <1>9 DEF Loading!NextSegment, Loading!Idle, Loading!GoTo, Loading!memoryVars
  <2>2. \A a \in Word : Built(seg - 1, a)'
    <3>1. seg' - 1 = seg
      BY <2>1, <1>2
    <3> QED
      BY <2>1, <3>1, <1>1, <1>3, <1>9, SegmentBuilt
  <2>3. LoadingType'
    BY <2>1, <1>1, <1>2 DEF LoadingType
  <2> QED
    BY <2>1, <2>2, <2>3, <1>1 DEF ImageInv, FillInv
<1>10. CASE Loading!Loaded
  <2>1. /\ stage = "segments" /\ stage' = "loaded" /\ seg > Len(elf.segments)
        /\ UNCHANGED <<elf, kind, seg, filled, mem, call>>
    BY <1>10 DEF Loading!Loaded, Loading!GoTo, Loading!memoryVars
  <2>2. \A a \in Word : Built(Len(elf.segments), a)'
    <3>1. seg - 1 = Len(elf.segments)
      BY <2>1, <1>2 DEF LoadingType
    <3> QED
      BY <2>1, <3>1, <1>1, <1>3 DEF ImageInv
  <2>3. LoadingType'
    BY <2>1, <1>1 DEF LoadingType
  <2> QED
    BY <2>1, <2>2, <2>3, <1>1 DEF ImageInv, FillInv
<1>11. CASE Loading!Serve
  <2>1. UNCHANGED <<elf, kind, stage, seg, filled>>
    BY <1>1, <1>11, ServeSteps
  <2>2. stage = "fill"
    <3>1. call.op # "none"
      BY <1>11 DEF LoadingType, Loading!Serve, Loading!Plain!Serve, Loading!Plain!Write,
         Loading!Plain!Read, Loading!Plain!TranslateAsserts, Loading!Plain!LeavesMapping,
         Loading!Plain!Return, Loading!Plain!Serving, Loading!Plain!InCall
    <3> QED
      BY <3>1, <1>1 DEF ImageInv
  <2>3. FillInv'
    BY <2>2, <1>1, <1>11, ServeFills
  <2>4. mem' \in Memory /\ call' \in Loading!Call /\ call'.op \in {"none", "write"}
        /\ call'.left \in {0, Len(call'.data)}
    <3>1. CASE Loading!Plain!Write
      BY <3>1, <1>1, WriteCopies
    <3>2. CASE UNCHANGED <<mem, call>>
      BY <3>2, <1>1 DEF LoadingType
    <3>3. CASE /\ UNCHANGED mem
               /\ call.left = 0
               /\ call' \in Loading!Call /\ call'.op = "none" /\ call'.addr = call.addr
               /\ call'.data = call.data /\ call'.left = call.left
      BY <3>3, <1>1
    <3> QED
      BY <3>1, <3>2, <3>3, <1>1, <1>11, ServeSteps
  <2>5. LoadingType'
    BY <2>1, <2>4, <1>1 DEF LoadingType
  <2> QED
    BY <2>1, <2>2, <2>3, <2>4, <2>5, <1>1 DEF ImageInv
<1> QED
  BY <1>1, <1>4, <1>5, <1>6, <1>7, <1>8, <1>9, <1>10, <1>11 DEF Loading!Load

\* A set of indices has a last one.
LEMMA LastIndex ==
  ASSUME NEW n \in Nat, NEW S \in SUBSET (1 .. n), S # {}
  PROVE  \E i \in S : \A j \in S : i >= j
<1> DEFINE T == {n - i : i \in S}
           R == OpToRel(<, Nat)
<1>1. T \subseteq Nat /\ T # {}
  <2>1. \A i \in S : n - i \in Nat
    OBVIOUS
  <2>2. PICK i \in S : TRUE
    OBVIOUS
  <2>3. n - i \in T
    OBVIOUS
  <2> QED
    BY <2>1, <2>3
<1>2. IsWellFoundedOn(R, Nat)
  BY NatLessThanWellFounded
<1>3. \A x, y \in T : x < y => <<x, y>> \in R
  BY <1>1 DEF OpToRel
<1> HIDE DEF T, R
<1>4. PICK x \in T : \A y \in T : ~(<<y, x>> \in R)
  BY <1>1, <1>2, WFMin
<1>5. \A y \in T : ~(y < x)
  BY <1>3, <1>4
<1>6. PICK i \in S : x = n - i
  BY DEF T
<1>7. \A j \in S : n - j \in T
  BY DEF T
<1> QED
  BY <1>5, <1>6, <1>7

\* The image of a file is a memory.
LEMMA ImageType == ASSUME elf \in Elfs PROVE FileImage \in Memory
<1> SUFFICES ASSUME NEW a \in Word PROVE Loading!ImageByte(a) \in Byte
  BY DEF FileImage, Memory
<1>1. 0 \in Byte
  BY ByteModAssumption DEF Byte
<1>2. CASE Loading!Covering(a) # {}
  <2> DEFINE S == Loading!Covering(a)
             last == Loading!Max(S)
  <2>1. Len(elf.segments) \in Nat /\ S \in SUBSET (1 .. Len(elf.segments))
    BY FileShape DEF Loading!Covering
  <2>2. last \in S
    <3> HIDE DEF S
    <3>1. \E i \in S : \A j \in S : i >= j
      BY <1>2, <2>1, LastIndex DEF S
    <3> QED
      BY <3>1 DEF Loading!Max
  <2> HIDE DEF last
  <2>3. SegmentShape(elf.segments[last])
    BY <2>1, <2>2, FileShape
  <2>4. (a - elf.segments[last].vaddr) % WordMod \in Nat
    BY <2>3, OffsetRange DEF SegmentShape
  <2>5. Loading!SegmentByte(elf.segments[last], a) \in Byte
    BY <2>3, <2>4, <1>1 DEF Loading!SegmentByte, Loading!OffsetIn, SegmentShape
  <2> QED
    BY <2>5, <1>2 DEF Loading!ImageByte, last
<1> QED
  BY <1>1, <1>2 DEF Loading!ImageByte

\* What the last of the segments covering an address makes of it is its image byte.
LEMMA BuiltIsImage ==
  ASSUME elf \in Elfs, NEW a \in Word, Built(Len(elf.segments), a)
  PROVE  mem[a] = Loading!ImageByte(a)
<1>1. CASE \A i \in 1 .. Len(elf.segments) : ~Loading!Covers(i, a)
  <2>1. Loading!Covering(a) = {}
    BY <1>1 DEF Loading!Covering
  <2> QED
    BY <2>1, <1>1 DEF Built, Loading!ImageByte
<1>2. CASE \E i \in 1 .. Len(elf.segments) : Loading!Covers(i, a)
  <2>1. PICK i \in 1 .. Len(elf.segments) :
          /\ Loading!Covers(i, a)
          /\ \A j \in 1 .. Len(elf.segments) : Loading!Covers(j, a) => j <= i
          /\ mem[a] = Loading!SegmentByte(elf.segments[i], a)
    BY <1>2 DEF Built
  <2> DEFINE S == Loading!Covering(a)
  <2>2. i \in S /\ \A j \in S : i >= j
    BY <2>1 DEF Loading!Covering
  <2>3. S \subseteq 1 .. Len(elf.segments) /\ Len(elf.segments) \in Nat
    BY FileShape DEF Loading!Covering
  <2>4. Loading!Max(S) = i
    <3> HIDE DEF S
    <3>1. Loading!Max(S) \in S /\ \A j \in S : Loading!Max(S) >= j
      BY <2>2 DEF Loading!Max
    <3> DEFINE last == Loading!Max(S)
               n == Len(elf.segments)
    <3>2. last \in S /\ last >= i /\ i >= last
      BY <3>1, <2>2
    <3>3. S \subseteq 1 .. n /\ n \in Nat /\ i \in S
      BY <2>2, <2>3
    <3> HIDE DEF last, n
    <3>4. last \in Nat /\ i \in Nat
      BY <3>2, <3>3
    <3>5. last = i
      BY <3>2, <3>4
    <3> QED
      BY <3>5 DEF last
  <2> QED
    BY <2>1, <2>2, <2>4 DEF Loading!ImageByte
<1> QED
  BY <1>1, <1>2

----------------------------------------------------------------------------
(* The steps of the interpreter.                                           *)

\* The rest of Hart::load touches the CPU alone.
LEMMA BootKeeps ==
  ASSUME SimInv, Start
  PROVE  SimInv'
<1>1. elf.entry \in Word
  BY FileShape DEF SimInv, LoadingType
<1>2. cpu' \in CPUState
  BY <1>1, BootType DEF Start
<1>3. UNCHANGED <<mem, phase, fault, elf, kind, stage, seg, filled, call>> /\ started'
      /\ started' \in BOOLEAN
  BY DEF Start, loadVars
<1> QED
  BY <1>2, <1>3 DEF SimInv, TypeOK, LoadingType, ImageInv

\* One step of the interpreter.
LEMMA StepTypes ==
  ASSUME TypeOK, [Next]_vars
  PROVE  TypeOK'
<1>1. CASE stepMisaligned
  BY <1>1 DEF stepMisaligned, Throw, TypeOK
<1>2. CASE stepUndefined
  BY <1>2 DEF stepUndefined, Throw, TypeOK
<1>3. CASE stepExecute
  <2> DEFINE insn == Decode[Fetched]
             out == Execute(insn, cpu, mem)
             counted == [out.cpu EXCEPT !.icount = (@ + 1) % IcountMod]
  <2>1. insn \in Instruction
    BY <1>3, DecodeAssumption DEF stepExecute
  <2>2. out \in Outcome
    BY <2>1, ExecuteOrderly DEF TypeOK, Orderly
  <2>3. /\ cpu' = IF out.trap = "none" THEN counted ELSE out.cpu
        /\ mem' = out.mem /\ fault' = out.trap /\ UNCHANGED phase
    BY <1>3 DEF stepExecute
  <2> HIDE DEF out
  <2>4. out.cpu \in CPUState /\ out.mem \in Memory /\ out.trap \in Trap
    BY <2>2 DEF Outcome
  <2>5. counted \in CPUState
    <3>1. (out.cpu.icount + 1) % IcountMod \in Icount
      BY <2>4, IcountModAssumption, ModRange DEF CPUState, Icount
    <3> QED
      BY <3>1, <2>4 DEF CPUState
  <2> HIDE DEF counted
  <2> QED
    BY <2>3, <2>4, <2>5 DEF TypeOK, Trap
<1>4. CASE runReturn
  BY <1>4 DEF runReturn, TypeOK
<1>5. CASE UNCHANGED vars
  BY <1>5 DEF vars, TypeOK
<1> QED
  BY <1>1, <1>2, <1>3, <1>4, <1>5 DEF Next, Terminated

\* Loading, starting and running.
LEMMA SimStep ==
  ASSUME SimInv, [SimNext]_simVars
  PROVE  SimInv'
<1>1. CASE LoadStep
  BY <1>1, LoadStepKeeps DEF SimInv
<1>2. CASE Start
  BY <1>2, BootKeeps
<1>3. CASE RunStep
  <2>1. TypeOK'
    BY <1>3, StepTypes DEF SimInv, RunStep
  <2>2. UNCHANGED <<elf, kind, stage, seg, filled, call, started>> /\ started
    BY <1>3 DEF RunStep, loadVars
  <2> QED
    BY <2>1, <2>2 DEF SimInv, LoadingType, ImageInv
<1>4. CASE UNCHANGED simVars
  <2>1. UNCHANGED <<cpu, mem, phase, fault, elf, kind, stage, seg, filled, call, started>>
    BY <1>4 DEF simVars, vars, loadVars
  <2> QED
    BY <2>1 DEF SimInv, TypeOK, LoadingType, ImageInv, FillInv, Built, Loading!Covers,
       Loading!OffsetIn, Loading!SegmentByte, done, before, Current, OffsetIn
<1> QED
  BY <1>1, <1>2, <1>3, <1>4 DEF SimNext, LoadFailed

\* A new memory is zero, which is what no segment makes of it.
LEMMA SimStarts == SimInit => SimInv
<1> SUFFICES ASSUME SimInit PROVE SimInv
  OBVIOUS
<1>1. /\ elf \in Elfs /\ kind \in {"plain"} /\ stage = "validate" /\ seg = 1 /\ filled = 0
      /\ call = [op |-> "none", scalar |-> FALSE, addr |-> 0, data |-> <<>>, left |-> 0]
  BY DEF SimInit, Loading!Init, Loading!Paged!Init, Loading!Paged!NoCall
<1>2. mem = [a \in Word |-> 0]
  BY AddrIsWord DEF SimInit, Loading!Init, Loading!Plain!Init
<1>3. 0 \in Word /\ 0 \in Byte /\ 0 \in Icount
  BY ModsOrdered, ByteModAssumption, IcountModAssumption DEF Word, Byte, Icount
<1>4. TypeOK
  <2>1. mem \in Memory
    BY <1>2, <1>3 DEF Memory
  <2>2. cpu \in CPUState
    BY <1>3 DEF SimInit, NewCPU, CPUState
  <2> QED
    BY <2>1, <2>2 DEF SimInit, TypeOK
<1>5. LoadingType
  <2>1. Len(elf.segments) \in Nat
    BY <1>1, FileShape
  <2>2. call \in Loading!Call /\ call.op = "none" /\ call.left = 0
    BY <1>1, <1>3, AddrIsWord DEF Loading!Call
  <2>3. seg \in 1 .. Len(elf.segments) + 1
    <3>1. seg = 1
      BY <1>1
    <3> QED
      BY <2>1, <3>1
  <2>4. stage # "fill" /\ filled \in Nat /\ kind = "plain" /\ started \in BOOLEAN
    BY <1>1 DEF SimInit
  <2> QED
    BY <2>2, <2>3, <2>4, <1>1 DEF LoadingType
<1>6. ImageInv
  <2>1. \A a \in Word : Built(seg - 1, a)
    <3>1. \A i \in 1 .. seg - 1 : FALSE
      BY <1>1
    <3> QED
      BY <3>1, <1>2 DEF Built
  <2> QED
    BY <2>1, <1>1 DEF ImageInv, FillInv
<1> QED
  BY <1>4, <1>5, <1>6 DEF SimInv

\* Through the load and the run, whatever the file and the guest do, the CPU state, the
\* memory and what ended the run stay of their types (ElfLoader, ExecEngine::step).
THEOREM SimulatorTypes == SimSpec => []TypeOK
<1>1. SimInv => TypeOK
  BY DEF SimInv
<1> QED
  BY <1>1, SimStarts, SimStep, PTL DEF SimSpec

----------------------------------------------------------------------------
(* The guest machine.                                                      *)

\* GuestMachine has the words, the accesses and the handlers of the engine.
LEMMA GuestWords ==
  /\ Guest!kWordSize = kWordSize /\ Guest!Word = Word /\ Guest!Memory = Memory
  /\ \A n : Guest!ToWord(n) = ToWord(n)
  /\ \A a, n : Guest!InMapping(a, n) <=> InMapping(a, n)
  /\ \A m, a : Guest!WordAt(m, a) = WordAt(m, a)
  /\ \A entry : Guest!BootState(entry) = BootState(entry)
<1>1. Guest!kWordSize = kWordSize /\ Guest!HalfMod = HalfMod /\ Guest!WordMod = WordMod
  BY DEF Guest!kWordSize, kWordSize, Guest!HalfMod, HalfMod, Guest!WordMod, WordMod
<1>2. Guest!Word = Word /\ Guest!Memory = Memory
  BY <1>1 DEF Guest!Word, Word, Guest!Memory, Memory, Guest!Byte, Byte
<1>3. /\ \A n : Guest!ToWord(n) = ToWord(n)
      /\ \A a, n : Guest!InMapping(a, n) <=> InMapping(a, n)
  BY <1>1 DEF Guest!ToWord, ToWord, Guest!InMapping, InMapping
<1>4. \A m, a : Guest!WordAt(m, a) = WordAt(m, a)
  BY <1>1 DEF Guest!WordAt, WordAt, Guest!HalfAt, HalfAt
<1>5. \A entry : Guest!BootState(entry) = BootState(entry)
  BY DEF Guest!BootState, BootState, Guest!Reg, Reg
<1> QED
  BY <1>1, <1>2, <1>3, <1>4, <1>5

\* Its handlers are the engine's, definition by definition.
LEMMA GuestExecutes ==
  ASSUME NEW insn, NEW c, NEW m
  PROVE  Guest!Execute(insn, c, m) = Execute(insn, c, m)
  BY DEF Guest!Execute, Execute, Guest!handler, handler, Guest!changesPC, changesPC,
     Guest!setPC, setPC, Guest!setReg, setReg, Guest!Return, Return, Guest!Raise, Raise,
     Guest!kWordSize, kWordSize, Guest!HalfMod, HalfMod, Guest!WordMod, WordMod,
     Guest!Word, Word, Guest!ToWord, ToWord,
     Guest!AluRegOps, AluRegOps, Guest!AluImmOps, AluImmOps, Guest!BranchOps, BranchOps,
     Guest!LoadOps, LoadOps, Guest!StoreOps, StoreOps,
     Guest!executeRegisterRegisterOp, executeRegisterRegisterOp,
     Guest!executeRegisterImmOp, executeRegisterImmOp,
     Guest!brHelper, brHelper, Guest!Taken, Taken, Guest!signedLess, signedLess,
     Guest!Signed, Signed, Guest!signExtend, signExtend,
     Guest!loadHelper, loadHelper, Guest!storeHelper, storeHelper,
     Guest!AccessSize, AccessSize, Guest!InMapping, InMapping,
     Guest!ByteAt, ByteAt, Guest!HalfAt, HalfAt, Guest!WordAt, WordAt,
     Guest!NthByte, NthByte, Guest!WriteBytes, WriteBytes,
     Guest!doLUI, doLUI, Guest!doAUIPC, doAUIPC, Guest!doJAL, doJAL, Guest!doJALR, doJALR,
     Guest!emulateSysCall, emulateSysCall, Guest!doExit, doExit

\* What a fetch may return is the word memory holds.
LEMMA HeldNow ==
  /\ guestHeld = Guest!Holding(Guest!NothingHeld, guestMem)
  /\ \A a \in Word : a \in Guest!FetchAddr <=> InMapping(a, kWordSize)
  /\ \A a \in Guest!FetchAddr : guestHeld[a] = {WordAt(guestMem, a)}
<1>1. Guest!FetchAddr = {a \in Word : InMapping(a, kWordSize)}
  BY GuestWords DEF Guest!FetchAddr
<1>2. Guest!NothingHeld = [a \in Word |-> {}]
  BY GuestWords DEF Guest!NothingHeld
<1>3. Guest!Holding(Guest!NothingHeld, guestMem)
        = [a \in Word |-> IF a \in Guest!FetchAddr
                          THEN Guest!NothingHeld[a] \cup {WordAt(guestMem, a)}
                          ELSE Guest!NothingHeld[a]]
  BY GuestWords DEF Guest!Holding
<1>4. \A a \in Word :
        guestHeld[a] = IF a \in Guest!FetchAddr
                       THEN Guest!NothingHeld[a] \cup {WordAt(guestMem, a)}
                       ELSE Guest!NothingHeld[a]
  BY <1>1, <1>2 DEF guestHeld
<1>5. guestHeld = [a \in Word |-> IF a \in Guest!FetchAddr
                                  THEN Guest!NothingHeld[a] \cup {WordAt(guestMem, a)}
                                  ELSE Guest!NothingHeld[a]]
  BY <1>4 DEF guestHeld
<1> QED
  BY <1>1, <1>2, <1>3, <1>4, <1>5

\* As GuestMachine says it.
LEMMA HeldIsHolding == guestHeld = Guest!Holding(Guest!NothingHeld, guestMem)
  BY HeldNow

\* The same one step later.
LEMMA HeldNext == (guestHeld = Guest!Holding(Guest!NothingHeld, guestMem))'
  BY HeldIsHolding, PTL

\* An aligned fetch does not leave the mapping: the width of a byte is even.
LEMMA AlignedFetch ==
  ASSUME NEW pc \in Word, pc % kWordSize = 0
  PROVE  InMapping(pc, kWordSize)
<1> DEFINE h == ByteMod \div 2
           q == pc \div 4
           r == 4 * (h * h * h * h)
<1>1. h \in Int /\ ByteMod = 2 * h /\ ByteMod \in Nat
  BY ByteModAssumption, DivMod
<1>2. HalfMod = 4 * (h * h)
  BY <1>1 DEF HalfMod
<1>3. r \in Int /\ WordMod = 4 * r
  BY <1>1, <1>2 DEF WordMod
<1>4. q \in Int /\ pc = 4 * q /\ pc \in Nat /\ pc < WordMod
  <2>1. pc \in Nat /\ pc < WordMod /\ pc % 4 = 0
    BY ModsOrdered DEF Word, kWordSize
  <2> QED
    BY <2>1
<1> HIDE DEF q, r
<1>5. pc + 4 <= WordMod
  BY <1>3, <1>4
<1> QED
  BY <1>5 DEF InMapping, kWordSize

\* The guest machine starts with the image of the file.
LEMMA GuestStarts == SimInit => Guest!Init
<1> SUFFICES ASSUME SimInit PROVE Guest!Init
  OBVIOUS
<1>1. elf \in Elfs /\ ~started /\ fault = "none"
  BY DEF SimInit, Loading!Init
<1>2. guestMem = FileImage /\ guestCpu = BootState(elf.entry)
  BY <1>1 DEF guestMem, guestCpu
<1>3. FileImage \in Memory /\ elf.entry \in Word
  BY <1>1, ImageType, FileShape
<1> QED
  BY <1>1, <1>2, <1>3, HeldNow, GuestWords DEF Guest!Init

\* The guest does not notice the load, ...
LEMMA LoadIsHidden ==
  ASSUME SimInv, LoadStep
  PROVE  UNCHANGED <<guestCpu, guestMem, guestHeld, fault>>
<1>1. ~started /\ ~started' /\ UNCHANGED <<elf, fault>>
  BY DEF LoadStep, Loading!Load, Loading!Serve, Loading!Rejected, Loading!Accepted,
     Loading!SkipSegment, Loading!WriteFile, Loading!fillBlock, Loading!NextSegment,
     Loading!Loaded, Loading!GoTo, Loading!loaderVars
<1>2. UNCHANGED <<guestCpu, guestMem>>
  BY <1>1 DEF guestCpu, guestMem, FileImage, Loading!ImageByte, Loading!Covering,
     Loading!Covers, Loading!OffsetIn, Loading!SegmentByte
<1>3. UNCHANGED guestHeld
  BY <1>2 DEF guestHeld
<1> QED
  BY <1>1, <1>2, <1>3

\* ... and starts in the image of the file.
LEMMA StartIsHidden ==
  ASSUME SimInv, Start
  PROVE  UNCHANGED <<guestCpu, guestMem, guestHeld, fault>>
<1>1. /\ ~started /\ started' /\ UNCHANGED <<mem, fault, elf>> /\ stage = "loaded"
      /\ cpu' = BootState(elf.entry) /\ elf \in Elfs /\ mem \in Memory
  BY DEF Start, loadVars, SimInv, LoadingType, TypeOK
<1>2. \A a \in Word : mem[a] = Loading!ImageByte(a)
  BY <1>1, BuiltIsImage DEF SimInv, ImageInv
<1>3. mem = FileImage
  BY <1>1, <1>2 DEF FileImage, Memory
<1>4. guestCpu' = guestCpu /\ guestMem' = guestMem
  BY <1>1, <1>3 DEF guestCpu, guestMem
<1>5. UNCHANGED guestHeld
  BY <1>4 DEF guestHeld
<1> QED
  BY <1>1, <1>4, <1>5

\* Every step of the interpreter is one of the guest, and leaving the loop is none.
LEMMA RunIsGuest ==
  ASSUME SimInv, RunStep
  PROVE  [Guest!Next]_(Guest!guestVars)
<1>1. /\ started /\ started' /\ TypeOK /\ Next
      /\ guestCpu = cpu /\ guestMem = mem /\ guestCpu' = cpu' /\ guestMem' = mem'
      /\ cpu.pc \in Word
  BY DEF RunStep, SimInv, guestCpu, guestMem, TypeOK, CPUState
<1>2. mem' = mem => guestHeld' = guestHeld
  BY <1>1 DEF guestHeld
<1>3. InStep => Guest!MayRun
  BY <1>1 DEF InStep, Guest!MayRun
<1>4. Guest!Aligned <=> ~Misaligned
  BY <1>1, GuestWords DEF Guest!Aligned, Misaligned
<1>5. ~Misaligned => cpu.pc \in Guest!FetchAddr /\ guestHeld[cpu.pc] = {Fetched}
  <2>1. ~Misaligned => cpu.pc \in Guest!FetchAddr
    BY <1>1, AlignedFetch, HeldNow DEF Misaligned
  <2> QED
    BY <1>1, <2>1, HeldNow DEF Fetched
<1>6. CASE stepMisaligned
  <2>1. Guest!AlignmentFault
    BY <1>1, <1>2, <1>3, <1>4, <1>6
    DEF stepMisaligned, Throw, Guest!AlignmentFault, Guest!Stop
  <2> QED
    BY <2>1 DEF Guest!Next
<1>7. CASE stepUndefined
  <2>1. Guest!MayFetch /\ Guest!Stop("decode")
    BY <1>1, <1>2, <1>3, <1>4, <1>7
    DEF stepUndefined, Throw, Guest!MayFetch, Guest!Stop
  <2>2. Guest!StraightLine(0)
    BY DEF Guest!StraightLine
  <2>3. Guest!Ahead(0) = cpu.pc
    <3>1. cpu.pc % WordMod = cpu.pc /\ cpu.pc + kWordSize * 0 = cpu.pc
      BY <1>1, ModsOrdered DEF Word, kWordSize
    <3> QED
      BY <3>1, <1>1, GuestWords DEF Guest!Ahead, ToWord
  <2>4. cpu.pc \in Guest!FetchAddr /\ guestHeld[cpu.pc] \ DOMAIN Decode # {}
    BY <1>5, <1>7 DEF stepUndefined
  <2>5. Guest!DecodeFault
    BY <2>1, <2>2, <2>3, <2>4 DEF Guest!DecodeFault
  <2> QED
    BY <2>5 DEF Guest!Next
<1>8. CASE stepExecute
  <2> DEFINE insn == Decode[Fetched]
             out == Execute(insn, cpu, mem)
  <2>1. InStep /\ ~Misaligned /\ Fetched \in DOMAIN Decode /\ insn \in Instruction
    BY <1>8, DecodeAssumption DEF stepExecute
  <2>2. /\ out \in Outcome /\ out.cpu.icount = cpu.icount
        /\ out.trap # "none" => out.cpu = cpu /\ out.mem = mem
    BY <1>1, <2>1, ExecuteOrderly, ExecuteKeepsCount DEF TypeOK, Orderly
  <2>3. /\ cpu' = IF out.trap = "none"
                  THEN [out.cpu EXCEPT !.icount = (out.cpu.icount + 1) % IcountMod]
                  ELSE out.cpu
        /\ mem' = out.mem /\ fault' = out.trap
    BY <1>8 DEF stepExecute
  <2>4. fault = "none"
    BY <2>1 DEF InStep
  <2>5. Guest!Execute(Decode[Fetched], guestCpu, guestMem) = out
    BY <1>1, GuestExecutes
  <2> HIDE DEF out
  <2>6. Guest!Retire(out) \/ (out.trap # "none" /\ Guest!Stop(out.trap))
    <3>1. CASE out.trap = "none"
      <4>1. /\ guestCpu' = [out.cpu EXCEPT !.icount = (guestCpu.icount + 1) % IcountMod]
            /\ guestMem' = out.mem /\ fault' = fault
        BY <3>1, <2>2, <2>3, <2>4, <1>1
      <4>2. guestHeld' = Guest!Holding(Guest!NothingHeld, guestMem')
        BY HeldNext DEF Guest!Holding, Guest!NothingHeld
      <4> QED
        BY <3>1, <4>1, <4>2 DEF Guest!Retire
    <3>2. CASE out.trap # "none"
      BY <3>2, <2>2, <2>3, <1>1, <1>2 DEF Guest!Stop
    <3> QED
      BY <3>1, <3>2
  <2>7. Guest!MayFetch
    BY <2>1, <1>3, <1>4 DEF Guest!MayFetch
  <2>8. out \in Guest!Outcomes(Decode[Fetched])
    BY <2>5 DEF Guest!Outcomes
  <2>9. Guest!Step
    BY <2>1, <2>6, <2>7, <2>8, <1>1, <1>5 DEF Guest!Step
  <2> QED
    BY <2>9 DEF Guest!Next
<1>9. CASE runReturn \/ Terminated
  <2>1. UNCHANGED <<cpu, mem, fault>>
    BY <1>9 DEF runReturn, Terminated, vars
  <2> QED
    BY <2>1, <1>1, <1>2 DEF Guest!guestVars
<1> QED
  BY <1>1, <1>6, <1>7, <1>8, <1>9 DEF Next

\* sim executes the program of its file: the guest starts in the image of the file, and
\* from then on the interpreter executes exactly the instruction memory holds at an
\* aligned pc, and its errors name it (ElfLoader, Hart::load, ExecEngine::step).
THEOREM SimulatorImplementsGuest == SimSpec => ImplementsGuest
<1>1. SimInv /\ [SimNext]_simVars => [Guest!Next]_(Guest!guestVars)
  <2> SUFFICES ASSUME SimInv, [SimNext]_simVars PROVE [Guest!Next]_(Guest!guestVars)
    OBVIOUS
  <2>1. CASE LoadStep
    BY <2>1, LoadIsHidden DEF Guest!guestVars
  <2>2. CASE Start
    BY <2>2, StartIsHidden DEF Guest!guestVars
  <2>3. CASE RunStep
    BY <2>3, RunIsGuest
  <2>4. CASE UNCHANGED simVars
    BY <2>4 DEF simVars, vars, loadVars, Guest!guestVars, guestCpu, guestMem, guestHeld,
       FileImage, Loading!ImageByte, Loading!Covering, Loading!Covers, Loading!OffsetIn,
       Loading!SegmentByte
  <2> QED
    BY <2>1, <2>2, <2>3, <2>4 DEF SimNext, LoadFailed
<1> QED
  BY <1>1, SimStarts, SimStep, GuestStarts, PTL DEF SimSpec, ImplementsGuest, Guest!Spec
============================================================================
