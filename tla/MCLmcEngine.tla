---------------------------- MODULE MCLmcEngine ----------------------------
(* Instances of LmcEngine for TLC.                                         *)
EXTENDS LmcEngine, TLC

\* Stores to one block, and one across the border of two.
SomeRanges == {{b} : b \in 0 .. (nr_blocks - 1)} \cup {{0, 1}}

\* Threads and stored values are interchangeable.
Symmetry == Permutations(Threads) \cup Permutations(Values)
=============================================================================
