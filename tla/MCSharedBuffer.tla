---------------------------- MODULE MCSharedBuffer ----------------------------
(* The instance of SharedBuffer for TLC.                                   *)
EXTENDS SharedBuffer, TLC

(* Names of buffers are interchangeable, and so are allocations: whichever *)
(* unused one is taken, the states reached differ by its name only.        *)
Symmetry == Permutations(Buffers) \cup Permutations(Allocs)
=============================================================================
