----------------------------- MODULE FlatMemory -----------------------------
(***************************************************************************)
(* What a Memory promises its client: an array of bytes, some of which are *)
(* there (the mapping, the pages written to) and some of which are not.    *)
(* A call moves its range front to back, in portions of any size, and      *)
(* touches nothing else; memory that appears is zero.  A call that must    *)
(* touch a byte that is not there may fail, with the portions before it    *)
(* done.  A range past the end of the address space may also be cut off    *)
(* without an error.                                                       *)
(***************************************************************************)
EXTENDS MemoryCall

VARIABLES bytes,    \* the byte at every address; 0 where there is none yet
          present,  \* the addresses that are there
          scalars   \* whether the memory serves scalar accesses at all

flatVars == <<bytes, present, scalars, call, fault>>

Init ==
  /\ bytes = [a \in Addr |-> 0]
  /\ present \subseteq Addr
  /\ scalars \in BOOLEAN
  /\ call = NoCall
  /\ fault = "none"

Begin ==
  /\ Idle
  /\ call' \in Call
  /\ call'.left = Len(call'.data)
  /\ UNCHANGED <<bytes, present, scalars, fault>>

Write(n) ==
  /\ Serving("write")
  /\ moved(n) \subseteq Addr
  /\ present \cup moved(n) \subseteq present'
  /\ present' \subseteq Addr
  /\ bytes' = [a \in Addr |-> IF a \in moved(n) THEN Source(a) ELSE bytes[a]]
  /\ call' = [call EXCEPT !.left = @ - n]
  /\ UNCHANGED <<scalars, fault>>

Read(n) ==
  /\ Serving("read")
  /\ moved(n) \subseteq present
  /\ call' = [call EXCEPT !.data = Filled(n, bytes), !.left = @ - n]
  /\ UNCHANGED <<bytes, present, scalars, fault>>

Return ==
  /\ InCall
  /\ call.left = 0 \/ rangeEnd > AddrMod
  /\ Returns
  /\ UNCHANGED <<bytes, present, scalars>>

touched == {call.addr} \cup (nextAddr .. rangeEnd - 1)

Fail ==
  /\ InCall
  /\ ~(touched \subseteq present) \/ (call.scalar /\ ~scalars)
  /\ fault' # "none"
  /\ UNCHANGED <<bytes, present, scalars, call>>

Next == \/ Begin \/ Return \/ Fail
        \/ \E n \in 1 .. call.left : Write(n) \/ Read(n)

Spec == Init /\ [][Next]_flatVars
============================================================================
