--------------------------- MODULE MCAddressSpaces ---------------------------
(* One ordinary program range, and one that covers the start of the heap.   *)
EXTENDS AddressSpaces, TLC

MCRanges   == { {2, 3}, {0, 1} }
MCSymmetry == Permutations(Threads)
=============================================================================
