------------------------ MODULE MCHybridInstEngine ------------------------
(* Instances of HybridInstEngine for TLC.                                  *)
EXTENDS HybridInstEngine, TLC

\* Thread 0 stores to a block of the last segment, the others to a block of
\* each of the first two in one store.
LastOrPair ==
  [t \in Threads |-> IF t = 0 THEN {{<<nr_main_segments - 1, 0>>}} ELSE {{<<s, 0>> : s \in 0 .. 1}}]

\* Stored values are interchangeable.
Symmetry == Permutations(Values)
=============================================================================
