---------------------------- MODULE MCPageEngine ----------------------------
(* Instances of PageEngine for TLC.                                        *)
EXTENDS PageEngine, TLC

\* One process with all threads, or a process for each thread.
OneOrMany == {[t \in Threads |-> 0], [t \in Threads |-> t]}

\* In one process the first thread stores everywhere, the other one to one
\* region; in two processes the second one has two regions.
Overlapping(T, t) == CASE t = 0 /\ T[0] = T[1] -> Regions
                       [] t = 1 /\ T[0] # T[1] -> Regions \ {nr_regions - 1}
                       [] OTHER                -> {0}

\* Stored values are interchangeable.
Symmetry == Permutations(Values)
=============================================================================
