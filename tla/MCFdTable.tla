----------------------------- MODULE MCFdTable -----------------------------
(* Two threads with tables of one entry, one file in a directory, three    *)
(* blocks of heap.                                                         *)
EXTENDS FdTable, TLC

MCTexts    == {<<>>, <<1>>, <<2, 3>>}
MCOffsets  == {-1, 0, 2}
MCSymmetry == Permutations(Threads) \cup Permutations(Buffers)
=============================================================================
