---------------------------- MODULE PlainMemory -----------------------------
(***************************************************************************)
(* PlainMemory (src/memory/plain_memory.cc): one host mapping of PlainSize *)
(* bytes for the addresses from PlainStart on.  A scalar access and a      *)
(* block call are alike: the address is translated, and the bytes are      *)
(* copied at once from there.  Nothing compares the end of the range with  *)
(* the end of the mapping; checkRange is commented out.                    *)
(***************************************************************************)
EXTENDS MemoryCall

CONSTANTS PlainStart, PlainSize   \* within the address space

VARIABLE m_data   \* the mapping

Mapped == PlainStart .. PlainStart + PlainSize - 1

Init == m_data = [a \in Mapped |-> 0]

range == call.addr .. rangeEnd - 1

Begin(op, scalar, addr, data) ==
  /\ Idle
  /\ call' = Request(op, scalar, addr, data)
  /\ UNCHANGED <<m_data, fault>>

ToMove == call.left > 0 /\ range \subseteq Mapped

Write ==
  /\ Serving("write") /\ ToMove
  /\ m_data' = [a \in Mapped |-> IF a \in range THEN Source(a) ELSE m_data[a]]
  /\ call' = [call EXCEPT !.left = 0]
  /\ UNCHANGED fault

Read ==
  /\ Serving("read") /\ ToMove
  /\ call' = [call EXCEPT !.data = Filled(call.left, m_data), !.left = 0]
  /\ UNCHANGED <<m_data, fault>>

\* The assertion of addrToOffset, where the build has it: it admits the address
\* one past the end and does not know the width.
TranslateAsserts ==
  /\ InCall /\ call.left = Len(call.data)
  /\ ~(call.addr >= PlainStart /\ call.addr <= PlainStart + PlainSize)
  /\ Fails("assert")
  /\ UNCHANGED m_data

\* The copy leaves the mapping: undefined.
LeavesMapping ==
  /\ InCall /\ call.left > 0 /\ ~(range \subseteq Mapped)
  /\ Fails("wild")
  /\ UNCHANGED m_data

Return == InCall /\ call.left = 0 /\ Returns /\ UNCHANGED m_data

Serve == Write \/ Read \/ TranslateAsserts \/ LeavesMapping \/ Return

flatBytes == [a \in Addr |-> IF a \in Mapped THEN m_data[a] ELSE 0]
============================================================================
