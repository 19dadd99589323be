------------------------------ MODULE MCLoader ------------------------------
(***************************************************************************)
(* The loader on eight addresses: four pages of two bytes, or a mapping of *)
(* the addresses 1 to 6.  Files of two segments, each of one value, so     *)
(* that the segments show where they went.                                 *)
(***************************************************************************)
EXTENDS Loader

Filling(v, n) == [i \in 1 .. n |-> v]

Segments(v, addrs, sizes, zeros) ==
  {[load |-> TRUE, vaddr |-> a, data |-> Filling(v, n), memsz |-> n + z] :
     a \in addrs, n \in sizes, z \in zeros}

\* One byte short of a page boundary and behind it, short segments and one that
\* nearly fills the address space, which wraps unless it begins below 2.
First == Segments(1, Addr, {1, 3}, {0, 2}) \cup Segments(1, {0, 1, 2, 4}, {7}, {0})
Second == Segments(2, Addr, {0, 2}, {0, 2})
Note == [load |-> FALSE, vaddr |-> 0, data |-> Filling(3, 2), memsz |-> 3]

File(wrong, segments) == [wrong |-> wrong, entry |-> 1, segments |-> segments]

\* One or two bytes more in the file than in memory.
Malformed == {[load |-> TRUE, vaddr |-> a, data |-> Filling(2, 3), memsz |-> n] :
                a \in {0, 3, 6}, n \in {1, 2}}

MCElfs ==
  {File({}, <<s, t>>) : s \in First, t \in Second \cup {Note}}
    \cup {File({}, <<s, t>>) : s \in Segments(1, {2}, {3}, {0, 2}), t \in Malformed}
    \cup {File(w, <<Note>>) : w \in SUBSET Checks}
MCByte == 0 .. 3
MCReadBacks == {<<0, 0>>, <<0, 8>>, <<1, 4>>, <<3, 1>>, <<7, 3>>}
============================================================================
