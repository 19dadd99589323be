------------------------------- MODULE MCJit -------------------------------
(* JitHistory on the small guest: the programs and configurations of its runs. *)
EXTENDS JitHistory, SmallGuest

Cfg(threshold, single) == [execThreshold |-> threshold, singleStep |-> single]
\* Blocks become hot at once, or on the third visit; loops, calls and exits.
TranslateConfigs == {Cfg(0, FALSE), Cfg(2, FALSE)}
TranslatePrograms == ProgramsOver({2, 3, 6}, {1, 2, 3, 4, 6, 8, 10}, {1, 4, 10})

\* Stores over the text, odd jump targets, accesses at the end of memory, and the two
\* instructions some emitted code takes liberties with.
StoreConfigs == {Cfg(1, FALSE), Cfg(1, TRUE)}
StorePrograms == ProgramsOver({3, 7, 9, 13}, {0, 3, 7, 11, 12, 14, 15}, {1, 5, 10})
                   \cup ProgramsOver({2}, {3, 6, 8, 12}, {1, 10})

\* Blocks of one and of many instructions, with and without an end.
ProfileConfigs == {Cfg(1, FALSE), Cfg(1, TRUE)}
ProfilePrograms == ProgramsOver({2, 3}, {0, 1, 2, 3, 4, 10}, {1, 3, 4})
============================================================================
