------------------------------ MODULE MCInterp ------------------------------
(***************************************************************************)
(* sim with the interpreter on the small guest: files of two segments with *)
(* two instruction words each and a third one that lies over some of them, *)
(* or clears some of their bytes, or leaves them alone.                    *)
(***************************************************************************)
EXTENDS Simulator, SmallGuest

WordBytes(w) == [i \in 1 .. kWordSize |-> NthByte(w, i - 1)]
Load(vaddr, data, zeros) ==
  [load |-> TRUE, vaddr |-> vaddr, data |-> data, memsz |-> Len(data) + zeros]

\* Two of them: a segment of all the sixteen bytes has a size that is no word.
TextSegment(t, i) == Load(i * kWordSize, WordBytes(t[i]) \o WordBytes(t[i + 1]), 0)

Words(first, second, third, last) ==
  {t \in [0 .. 3 -> 0 .. 15] :
     t[0] \in first /\ t[1] \in second /\ t[2] \in third /\ t[3] \in last}

Inner == {0, 1, 3, 4, 6, 7, 10, 11, 14, 15}
AllTexts == Words({2, 3, 7, 9, 13}, Inner, Inner, {1, 5, 8, 10, 12})
FewTexts == Words({2, 3, 9, 13}, {3, 4}, {3, 11}, {1, 10})

NoLoad == [Load(0, WordBytes(1), 0) EXCEPT !.load = FALSE]
Patches == {Load(4, WordBytes(7), 0), Load(8, WordBytes(10), 2), Load(6, <<>>, 3)}

File(entry, t, patch) ==
  [wrong |-> {}, entry |-> entry, segments |-> <<TextSegment(t, 0), TextSegment(t, 2), patch>>]

MCElfs ==
  {File(e, t, NoLoad) : e \in {0, 2}, t \in AllTexts}
    \cup {File(0, t, p) : t \in FewTexts, p \in Patches}
    \cup {[wrong |-> {"machine"}, entry |-> 0, segments |-> <<>>]}
============================================================================
