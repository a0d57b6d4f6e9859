------------------------ MODULE MCCheckpointBarrier ------------------------
(* Instances of CheckpointBarrier for TLC.                                 *)
EXTENDS CheckpointBarrier

\* All threads call checkpoint(n) together, always.
AllTogether == {Threads}

\* All but one call checkpoint(n) together, first without one thread, then
\* without another.
TwoTeams == LET a == CHOOSE t \in Threads : TRUE
                b == CHOOSE t \in Threads : t # a
            IN {Threads \ {a}, Threads \ {b}}

\* First one thread alone, checkpoint(1), then all, checkpoint(n).
AloneThenAll == {Threads, {CHOOSE t \in Threads : TRUE}}
=============================================================================
