------------------------ MODULE CleanerThread_proofs ------------------------
(***************************************************************************)
(* That the cleaner copies nothing during a commit, for any number of      *)
(* segments.  The property is not inductive: it rests on who holds the     *)
(* mutex, and on what the leader knew of the cleaner when it left the      *)
(* mutex alone.                                                            *)
(***************************************************************************)
EXTENDS CleanerThread, TLAPS

\* A pass that goes on has a segment to work on.
PassInv == (cleaner_state = "RUNNING" \/ cleaner = "work") => segment_id < nr_segments

\* The cleaner holds the mutex outside its waits, and only then.
MutexInv == cleaner \in {"test", "switch", "work"} <=> cleaner_mutex = "cleaner"

\* The leader holds the mutex only in a checkpoint that will unlock it.
LeaderInv == /\ cleaner_mutex = "leader" => leader = "commit"
             /\ (leader = "lock" \/ cleaner_mutex = "leader") => WakesCleaner

\* The cleaner works only in a pass.
WorkInv == cleaner = "work" => cleaner_state = "RUNNING"

\* A leader that commits without the mutex has seen an idle cleaner, and the
\* cleaner is idle still.
CommitInv == leader = "commit" => cleaner_mutex = "leader" \/ cleaner_state = "IDLE"

IndInv == /\ TypeOK /\ PassInv
          /\ broken = {} => MutexInv /\ LeaderInv /\ WorkInv /\ CommitInv

-----------------------------------------------------------------------------
\* The engine is opened in a state of the invariant.
LEMMA InitInv == Init => IndInv
<1> SUFFICES ASSUME Init PROVE IndInv
  OBVIOUS
<1>1. /\ cleaner_running = TRUE /\ cleaner_state = "IDLE"
      /\ cleaner = "lock" /\ leader = "app"
  BY DEF Init, Opened
<1>2. /\ cleaner_running \in BOOLEAN /\ thread_busy \in BOOLEAN
      /\ checkpoint_in_progress \in BOOLEAN
  BY <1>1, Zenon DEF Init
<1>3. segment_id \in 0 .. nr_segments
  BY CleanerAssumption DEF Init
<1>4. TypeOK
  BY <1>1, <1>2, <1>3 DEF Init, TypeOK
<1> QED
  BY <1>1, <1>4 DEF Init, IndInv, PassInv, MutexInv, LeaderInv, WorkInv, CommitInv

\* A step of the cleaner keeps the invariant.
LEMMA CleanerInv == ASSUME IndInv, CleanerStep \/ SpuriousWakeup PROVE IndInv'
<1> USE CleanerAssumption DEF loopVars, ckptVars
<1>0. TypeOK /\ PassInv /\ (broken = {} => MutexInv /\ LeaderInv /\ WorkInv /\ CommitInv)
  BY DEF IndInv
<1>1. CASE CleanerLock
  <2>1. TypeOK'
    BY <1>0, <1>1 DEF TypeOK, PassInv, CleanerLock
  <2>2. PassInv'
    BY <1>0, <1>1 DEF TypeOK, PassInv, CleanerLock
  <2>3. broken' = {} => MutexInv' /\ LeaderInv' /\ WorkInv' /\ CommitInv'
    BY <1>0, <1>1 DEF TypeOK, CleanerLock, MutexInv, LeaderInv, WorkInv, CommitInv,
                WakesCleaner
  <2> QED
    BY <2>1, <2>2, <2>3 DEF IndInv
<1>2. CASE CleanerTest
  <2>1. TypeOK'
    BY <1>0, <1>2 DEF TypeOK, PassInv, CleanerTest
  <2>2. PassInv'
    BY <1>0, <1>2 DEF TypeOK, PassInv, CleanerTest
  <2>3. broken' = {} => MutexInv' /\ LeaderInv' /\ WorkInv' /\ CommitInv'
    BY <1>0, <1>2 DEF TypeOK, CleanerTest, MutexInv, LeaderInv, WorkInv, CommitInv,
                WakesCleaner
  <2> QED
    BY <2>1, <2>2, <2>3 DEF IndInv
<1>3. CASE CleanerSwitch
  <2>1. TypeOK'
    BY <1>0, <1>3 DEF TypeOK, PassInv, CleanerSwitch, CleanerWait, MustWait
  <2>2. PassInv'
    BY <1>0, <1>3 DEF TypeOK, PassInv, CleanerSwitch, CleanerWait, MustWait
  <2>3. broken' = {} => MutexInv' /\ LeaderInv' /\ WorkInv' /\ CommitInv'
    BY <1>0, <1>3 DEF TypeOK, CleanerSwitch, CleanerWait, MustWait, MutexInv, LeaderInv, WorkInv, CommitInv,
                WakesCleaner
  <2> QED
    BY <2>1, <2>2, <2>3 DEF IndInv
<1>4. CASE CleanerWork
  <2>1. TypeOK'
    BY <1>0, <1>4 DEF TypeOK, PassInv, CleanerWork, LastSegment
  <2>2. PassInv'
    BY <1>0, <1>4 DEF TypeOK, PassInv, CleanerWork, LastSegment
  <2>3. broken' = {} => MutexInv' /\ LeaderInv' /\ WorkInv' /\ CommitInv'
    BY <1>0, <1>4 DEF TypeOK, CleanerWork, LastSegment, MutexInv, LeaderInv, WorkInv, CommitInv,
                WakesCleaner
  <2> QED
    BY <2>1, <2>2, <2>3 DEF IndInv
<1>5. CASE SpuriousWakeup
  <2>1. TypeOK'
    BY <1>0, <1>5 DEF TypeOK, PassInv, SpuriousWakeup
  <2>2. PassInv'
    BY <1>0, <1>5 DEF TypeOK, PassInv, SpuriousWakeup
  <2>3. broken' = {} => MutexInv' /\ LeaderInv' /\ WorkInv' /\ CommitInv'
    BY <1>0, <1>5 DEF TypeOK, SpuriousWakeup, MutexInv, LeaderInv, WorkInv, CommitInv,
                WakesCleaner
  <2> QED
    BY <2>1, <2>2, <2>3 DEF IndInv
<1> QED
  BY <1>1, <1>2, <1>3, <1>4, <1>5 DEF CleanerStep

\* A step of the program's thread keeps it: in particular a leader that takes
\* the mutex unlocks it, and one that does not has found the cleaner idle.
LEMMA LeaderKeepsInv ==
  ASSUME IndInv, LeaderStep \/ LeaderLock \/ CheckpointBegin \/ WaitBegin \/ CloseBegin
  PROVE  IndInv'
<1> USE CleanerAssumption DEF loopVars, ckptVars
<1>0. TypeOK /\ PassInv /\ (broken = {} => MutexInv /\ LeaderInv /\ WorkInv /\ CommitInv)
  BY DEF IndInv
<1>1. CASE CheckpointBegin
  <2>1. TypeOK'
    <3>1. /\ (mpi \in BOOLEAN)' /\ (cleaner_running \in BOOLEAN)'
          /\ (thread_busy \in BOOLEAN)' /\ (checkpoint_in_progress \in BOOLEAN)'
      BY <1>0, <1>1, Zenon DEF TypeOK, CheckpointBegin
    <3> QED
      BY <1>0, <1>1, <3>1 DEF TypeOK, CheckpointBegin, NeedsLock, Followed
  <2>2. PassInv'
    BY <1>0, <1>1 DEF TypeOK, PassInv, CheckpointBegin, NeedsLock, Followed
  <2>3. broken' = {} => MutexInv' /\ LeaderInv' /\ WorkInv' /\ CommitInv'
    BY <1>0, <1>1 DEF TypeOK, CheckpointBegin, NeedsLock, Followed, MutexInv, LeaderInv, WorkInv, CommitInv,
                WakesCleaner
  <2> QED
    BY <2>1, <2>2, <2>3 DEF IndInv
<1>2. CASE LeaderLock
  <2>1. TypeOK'
    BY <1>0, <1>2 DEF TypeOK, PassInv, LeaderLock
  <2>2. PassInv'
    BY <1>0, <1>2 DEF TypeOK, PassInv, LeaderLock
  <2>3. broken' = {} => MutexInv' /\ LeaderInv' /\ WorkInv' /\ CommitInv'
    BY <1>0, <1>2 DEF TypeOK, LeaderLock, MutexInv, LeaderInv, WorkInv, CommitInv,
                WakesCleaner
  <2> QED
    BY <2>1, <2>2, <2>3 DEF IndInv
<1>3. CASE CheckpointEnd
  <2>1. TypeOK'
    <3>1. /\ (mpi \in BOOLEAN)' /\ (cleaner_running \in BOOLEAN)'
          /\ (thread_busy \in BOOLEAN)' /\ (checkpoint_in_progress \in BOOLEAN)'
      BY <1>0, <1>3, Zenon DEF TypeOK, CheckpointEnd
    <3> QED
      BY <1>0, <1>3, <3>1 DEF TypeOK, CheckpointEnd
  <2>2. PassInv'
    BY <1>0, <1>3 DEF TypeOK, PassInv, CheckpointEnd
  <2>3. broken' = {} => MutexInv' /\ LeaderInv' /\ WorkInv' /\ CommitInv'
    BY <1>0, <1>3 DEF TypeOK, CheckpointEnd, MutexInv, LeaderInv, WorkInv, CommitInv,
                WakesCleaner
  <2> QED
    BY <2>1, <2>2, <2>3 DEF IndInv
<1>4. CASE CheckpointNotify
  <2>1. TypeOK'
    BY <1>0, <1>4 DEF TypeOK, PassInv, CheckpointNotify, NotifyAfterCheckpoint, notify_all
  <2>2. PassInv'
    BY <1>0, <1>4 DEF TypeOK, PassInv, CheckpointNotify, NotifyAfterCheckpoint, notify_all
  <2>3. broken' = {} => MutexInv' /\ LeaderInv' /\ WorkInv' /\ CommitInv'
    BY <1>0, <1>4 DEF TypeOK, CheckpointNotify, NotifyAfterCheckpoint, notify_all, MutexInv, LeaderInv, WorkInv, CommitInv,
                WakesCleaner
  <2> QED
    BY <2>1, <2>2, <2>3 DEF IndInv
<1>5. CASE WaitBegin
  <2>1. TypeOK'
    BY <1>0, <1>5 DEF TypeOK, PassInv, WaitBegin
  <2>2. PassInv'
    BY <1>0, <1>5 DEF TypeOK, PassInv, WaitBegin
  <2>3. broken' = {} => MutexInv' /\ LeaderInv' /\ WorkInv' /\ CommitInv'
    BY <1>0, <1>5 DEF TypeOK, WaitBegin, MutexInv, LeaderInv, WorkInv, CommitInv,
                WakesCleaner
  <2> QED
    BY <2>1, <2>2, <2>3 DEF IndInv
<1>6. CASE WaitEnd
  <2>1. TypeOK'
    BY <1>0, <1>6 DEF TypeOK, PassInv, WaitEnd
  <2>2. PassInv'
    BY <1>0, <1>6 DEF TypeOK, PassInv, WaitEnd
  <2>3. broken' = {} => MutexInv' /\ LeaderInv' /\ WorkInv' /\ CommitInv'
    BY <1>0, <1>6 DEF TypeOK, WaitEnd, MutexInv, LeaderInv, WorkInv, CommitInv,
                WakesCleaner
  <2> QED
    BY <2>1, <2>2, <2>3 DEF IndInv
<1>7. CASE CloseBegin
  <2>1. TypeOK'
    <3>1. /\ (mpi \in BOOLEAN)' /\ (cleaner_running \in BOOLEAN)'
          /\ (thread_busy \in BOOLEAN)' /\ (checkpoint_in_progress \in BOOLEAN)'
      BY <1>0, <1>7, Zenon DEF TypeOK, CloseBegin
    <3> QED
      BY <1>0, <1>7, <3>1 DEF TypeOK, CloseBegin
  <2>2. PassInv'
    BY <1>0, <1>7 DEF TypeOK, PassInv, CloseBegin
  <2>3. broken' = {} => MutexInv' /\ LeaderInv' /\ WorkInv' /\ CommitInv'
    BY <1>0, <1>7 DEF TypeOK, CloseBegin, MutexInv, LeaderInv, WorkInv, CommitInv,
                WakesCleaner
  <2> QED
    BY <2>1, <2>2, <2>3 DEF IndInv
<1>8. CASE CloseNotify
  <2>1. TypeOK'
    BY <1>0, <1>8 DEF TypeOK, PassInv, CloseNotify, NotifyAtClose, notify_all
  <2>2. PassInv'
    BY <1>0, <1>8 DEF TypeOK, PassInv, CloseNotify, NotifyAtClose, notify_all
  <2>3. broken' = {} => MutexInv' /\ LeaderInv' /\ WorkInv' /\ CommitInv'
    BY <1>0, <1>8 DEF TypeOK, CloseNotify, NotifyAtClose, notify_all, MutexInv, LeaderInv, WorkInv, CommitInv,
                WakesCleaner
  <2> QED
    BY <2>1, <2>2, <2>3 DEF IndInv
<1>9. CASE CloseJoin
  <2>1. TypeOK'
    BY <1>0, <1>9 DEF TypeOK, PassInv, CloseJoin
  <2>2. PassInv'
    BY <1>0, <1>9 DEF TypeOK, PassInv, CloseJoin
  <2>3. broken' = {} => MutexInv' /\ LeaderInv' /\ WorkInv' /\ CommitInv'
    BY <1>0, <1>9 DEF TypeOK, CloseJoin, MutexInv, LeaderInv, WorkInv, CommitInv,
                WakesCleaner
  <2> QED
    BY <2>1, <2>2, <2>3 DEF IndInv
<1>10. CASE Reopen
  <2>1. TypeOK'
    BY <1>0, <1>10 DEF TypeOK, PassInv, Reopen, Opened
  <2>2. PassInv'
    BY <1>0, <1>10 DEF TypeOK, PassInv, Reopen, Opened
  <2>3. broken' = {} => MutexInv' /\ LeaderInv' /\ WorkInv' /\ CommitInv'
    BY <1>0, <1>10 DEF TypeOK, Reopen, Opened, MutexInv, LeaderInv, WorkInv, CommitInv,
                WakesCleaner
  <2> QED
    BY <2>1, <2>2, <2>3 DEF IndInv
<1> QED
  BY <1>1, <1>2, <1>3, <1>4, <1>5, <1>6, <1>7, <1>8, <1>9, <1>10 DEF LeaderStep

\* The invariant gives the property: a cleaner at work holds the mutex and is in
\* a pass, a committing leader holds it or has found no pass.
LEMMA InvSuffices == IndInv => NoCopyDuringCommit
  BY DEF IndInv, NoCopyDuringCommit, MutexInv, WorkInv, CommitInv

\* WriteBackThreadRoutine never copies a segment while a checkpoint flushes and
\* commits, whether or not its leader took cleaner_mutex, for every number of
\* segments.
THEOREM CleanerStaysOut == Spec => []NoCopyDuringCommit
<1>1. IndInv /\ [Next]_vars => IndInv'
  <2> SUFFICES ASSUME IndInv, [Next]_vars PROVE IndInv'
    OBVIOUS
  <2>1. CASE UNCHANGED vars
    BY <2>1 DEF vars, loopVars, ckptVars, IndInv, TypeOK, PassInv, MutexInv, LeaderInv,
                WorkInv, CommitInv, WakesCleaner
  <2>2. CASE Next
    BY <2>2, CleanerInv, LeaderKeepsInv DEF Next
  <2> QED
    BY <2>1, <2>2
<1> QED
  BY <1>1, InitInv, InvSuffices, PTL DEF Spec
=============================================================================
