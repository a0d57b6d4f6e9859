------------------------------ MODULE Snapshot ------------------------------
(***************************************************************************)
(* What every checkpoint engine of libcrpm promises to the application:    *)
(* the pool behaves as two arrays of blocks, the one the application works *)
(* on and the last checkpoint.  A checkpoint replaces the second by the    *)
(* first in one step, and a crash replaces the first by the second.        *)
(***************************************************************************)
CONSTANTS Blocks,   \* the blocks of the pool
          Values,   \* what the application stores in a block
          Junk      \* content of a block that was never stored to

VARIABLES up,       \* the pool is open and the program runs
          work,     \* what loads of the program return, or will when it is up
          snap      \* what the program finds when it is opened again

svars == <<up, work, snap>>

SInit == /\ up = TRUE
         /\ work = [b \in Blocks |-> Junk]
         /\ snap = [b \in Blocks |-> Junk]

\* The program stores v to the blocks of R (one store, or one range store).
SStore == /\ up
          /\ \E R \in SUBSET Blocks, v \in Values :
                work' = [b \in Blocks |-> IF b \in R THEN v ELSE work[b]]
          /\ UNCHANGED <<up, snap>>

\* A checkpoint takes effect, for all blocks at once.
SCommit == /\ up
           /\ snap' = work
           /\ UNCHANGED <<up, work>>

\* The process dies (perhaps while it is being opened);
SCrash == /\ up' = FALSE
          /\ work' = snap
          /\ UNCHANGED snap

\* the next one starts from the checkpoint.
SOpen == /\ ~up /\ up' = TRUE
         /\ UNCHANGED <<work, snap>>

SNext == SStore \/ SCommit \/ SCrash \/ SOpen

SSpec == SInit /\ [][SNext]_svars
=============================================================================
