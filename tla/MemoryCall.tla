----------------------------- MODULE MemoryCall -----------------------------
(***************************************************************************)
(* The interface prot::Memory (src/memory): one call at a time, which      *)
(* moves the bytes of a range in order, and returns or ends in an error.   *)
(* A range may be a block (writeBlock, readBlock) or a scalar (read<T>,    *)
(* write<T>).  Shared by the memories, their abstraction and their client. *)
(***************************************************************************)
EXTENDS Integers, Sequences

CONSTANTS AddrMod,   \* addresses: 2^32 in the code
          Byte

ASSUME AddrModAssumption == AddrMod \in Nat /\ AddrMod > 0
ASSUME ByteAssumption == 0 \in Byte

VARIABLES call,    \* the call being served, or the last one
          fault    \* "none", or what ended a call

Addr == 0 .. AddrMod - 1

\* data is the source of a write and the destination of a read; left is how much
\* of it is still to be moved.
Call == [op : {"none", "read", "write"}, scalar : BOOLEAN,
         addr : Addr, data : Seq(Byte), left : Nat]

NoCall == [op |-> "none", scalar |-> FALSE, addr |-> 0, data |-> <<>>, left |-> 0]

Request(op, scalar, addr, data) ==
  [op |-> op, scalar |-> scalar, addr |-> addr, data |-> data, left |-> Len(data)]

Idle == call.op = "none" /\ fault = "none"
Serving(op) == call.op = op /\ fault = "none"
InCall == call.op # "none" /\ fault = "none"

rangeEnd == call.addr + Len(call.data)
nextAddr == rangeEnd - call.left

\* Moving the next n bytes.
moved(n) == nextAddr .. nextAddr + n - 1
Source(a) == call.data[a - call.addr + 1]
Filled(n, Value) ==
  [i \in 1 .. Len(call.data) |->
     IF call.addr + i - 1 \in moved(n) THEN Value[call.addr + i - 1] ELSE call.data[i]]

Fails(why) == fault' = why /\ UNCHANGED call
Returns == call' = [call EXCEPT !.op = "none"] /\ UNCHANGED fault
============================================================================
