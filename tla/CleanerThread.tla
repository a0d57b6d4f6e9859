--------------------------- MODULE CleanerThread ---------------------------
(***************************************************************************)
(* The life of the cleaner of NvmInstEngine (WriteBackThreadRoutine), the  *)
(* thread that copies checkpointed segments to the back in the background: *)
(* its mutex, its condition variable and its state, against the leader of  *)
(* a checkpoint, wait_for_background_task and the destructor.  What it     *)
(* copies is the subject of NvmInstEngine.                                 *)
(***************************************************************************)
EXTENDS Naturals

CONSTANTS nr_segments

ASSUME CleanerAssumption == nr_segments \in Nat \ {0}

VARIABLES mpi,                     \* the program calls checkpoint_for_mpi
          cleaner_running, cleaner_state,
          checkpoint_in_progress,
          cleaner_mutex,           \* its owner, or "free"
          segment_id,              \* local to the cleaner
          cleaner,                 \* where the cleaner is,
          leader,                  \* and the thread of the program
          flush_mode, thread_busy, \* of a checkpoint
          broken                   \* history: what went wrong, see below

loopVars == <<cleaner_state, segment_id>>
ckptVars == <<flush_mode, thread_busy, checkpoint_in_progress>>
vars == <<mpi, cleaner_running, loopVars, ckptVars, cleaner_mutex, cleaner, leader, broken>>

\* Open: the engine starts its cleaner.
Opened ==
  [cleaner_running |-> TRUE, cleaner_state |-> "IDLE", cleaner |-> "lock", leader |-> "app"]

Init ==
  /\ mpi \in BOOLEAN
  /\ cleaner_running = Opened.cleaner_running
  /\ cleaner_state = Opened.cleaner_state
  /\ checkpoint_in_progress = FALSE
  /\ cleaner_mutex = "free"
  /\ segment_id = 0
  /\ cleaner = Opened.cleaner
  /\ leader = Opened.leader
  /\ flush_mode = "NO_ACTION"
  /\ thread_busy = FALSE
  /\ broken = {}

\* Bound: nothing is begun after something has gone wrong.
Followed == broken = {}

-----------------------------------------------------------------------------
(* WriteBackThreadRoutine.                                                 *)

\* The cleaner takes the mutex, at the start and after every wait.
CleanerLock ==
  /\ cleaner = "lock" /\ cleaner_mutex = "free"
  /\ cleaner_mutex' = "cleaner"
  /\ cleaner' = "test"
  /\ UNCHANGED <<mpi, cleaner_running, loopVars, ckptVars, leader, broken>>

\* while (cleaner_running), and the end of the thread.
CleanerTest ==
  /\ cleaner = "test"
  /\ \/ /\ cleaner_running
        /\ cleaner' = "switch"
        /\ UNCHANGED cleaner_mutex
     \/ /\ ~cleaner_running
        /\ cleaner' = "exit"
        /\ cleaner_mutex' = "free"
  /\ UNCHANGED <<mpi, cleaner_running, loopVars, ckptVars, leader, broken>>

\* Mutant: the cleaner polls, and keeps the mutex.
Polls == cleaner' = "test" /\ UNCHANGED cleaner_mutex

\* cleaner_condvar.wait releases the mutex.
CleanerWait == cleaner' = "wait" /\ cleaner_mutex' = "free"

\* The states in which the cleaner waits for the condition variable.
MustWait == cleaner_state = "IDLE" \/ (cleaner_state = "RUNNING" /\ checkpoint_in_progress)

\* The switch on cleaner_state.
CleanerSwitch ==
  /\ cleaner = "switch"
  /\ \/ /\ MustWait
        /\ CleanerWait
        /\ UNCHANGED loopVars
     \/ /\ ~MustWait /\ cleaner_state = "STARTED"
        /\ segment_id' = 0
        /\ cleaner_state' = "RUNNING"
        /\ cleaner' = "test"
        /\ UNCHANGED cleaner_mutex
     \/ /\ ~MustWait /\ cleaner_state # "STARTED"   \* the state is RUNNING
        /\ cleaner' = "work"
        /\ UNCHANGED <<loopVars, cleaner_mutex>>
  /\ UNCHANGED <<mpi, cleaner_running, ckptVars, leader, broken>>

LastSegment == segment_id + 1 = nr_segments

\* lazy_write_back of one segment has returned.
CleanerWork ==
  /\ cleaner = "work"
  /\ segment_id' = segment_id + 1
  /\ cleaner_state' = IF LastSegment THEN "IDLE" ELSE cleaner_state
  /\ cleaner' = "test"
  /\ UNCHANGED <<mpi, cleaner_running, ckptVars, cleaner_mutex, leader, broken>>

\* A condition variable may wake a thread for no reason.
SpuriousWakeup ==
  /\ cleaner = "wait"
  /\ cleaner' = "lock"
  /\ UNCHANGED <<mpi, cleaner_running, loopVars, ckptVars, cleaner_mutex, leader, broken>>

\* notify_all reaches a cleaner that waits.
notify_all == cleaner' = IF cleaner = "wait" THEN "lock" ELSE cleaner

\* Mutant: nobody is notified.
NoNotify == UNCHANGED cleaner

-----------------------------------------------------------------------------
(* The program.                                                            *)

\* Mutant: the leader leaves a busy cleaner alone when there are few blocks.
OnlyWholeCache(mode) == mpi \/ mode = "WBINVD"

\* checkpoint locks when the cleaner is, or is going to be, at work.
NeedsLock(mode) == mpi \/ mode = "WBINVD" \/ cleaner_state # "IDLE"

\* The leader chooses the mode.  With nothing to do checkpoint returns, while
\* checkpoint_for_mpi goes on without the mutex.
CheckpointBegin ==
  /\ leader = "app" /\ Followed
  /\ \E mode \in {"NO_ACTION", "USE_FLUSH_BLOCKS", "WBINVD"} :
       \/ /\ mode = "NO_ACTION" /\ ~mpi
          /\ flush_mode' = mode
          /\ UNCHANGED <<leader, checkpoint_in_progress, broken>>
       \/ /\ mode = "NO_ACTION" /\ mpi
          /\ flush_mode' = "USE_FLUSH_BLOCKS"
          /\ leader' = "commit"
          /\ broken' = IF cleaner_state # "IDLE" THEN {"unlocked"} ELSE broken
          /\ UNCHANGED checkpoint_in_progress
       \/ /\ mode # "NO_ACTION"
          /\ flush_mode' = mode
          /\ checkpoint_in_progress' = TRUE
          /\ leader' = IF NeedsLock(mode) THEN "lock" ELSE "commit"
          /\ UNCHANGED broken
  /\ thread_busy' = (cleaner_state # "IDLE")
  /\ UNCHANGED <<mpi, cleaner_running, loopVars, cleaner_mutex, cleaner>>

LeaderLock ==
  /\ leader = "lock" /\ cleaner_mutex = "free"
  /\ cleaner_mutex' = "leader"
  /\ leader' = "commit"
  /\ UNCHANGED <<mpi, cleaner_running, loopVars, ckptVars, cleaner, broken>>

WakesCleaner == mpi \/ flush_mode = "WBINVD" \/ thread_busy

\* End of the checkpoint.  checkpoint_for_mpi unlocks the mutex even if it did
\* not lock it; the mutex of this build is then free, whoever held it.
CheckpointEnd ==
  /\ leader = "commit"
  /\ checkpoint_in_progress' = FALSE
  /\ cleaner_state' = IF mpi \/ flush_mode = "WBINVD" THEN "STARTED" ELSE cleaner_state
  /\ \/ /\ WakesCleaner
        /\ cleaner_mutex' = "free"
        /\ broken' = IF cleaner_mutex = "cleaner" THEN {"unlocked"} ELSE broken
        /\ leader' = "notify"
     \/ /\ ~WakesCleaner
        /\ leader' = "app"
        /\ UNCHANGED <<cleaner_mutex, broken>>
  /\ UNCHANGED <<mpi, cleaner_running, segment_id, flush_mode, thread_busy, cleaner>>

NotifyAfterCheckpoint == notify_all

CheckpointNotify ==
  /\ leader = "notify"
  /\ NotifyAfterCheckpoint
  /\ leader' = "app"
  /\ UNCHANGED <<mpi, cleaner_running, loopVars, ckptVars, cleaner_mutex, broken>>

\* wait_for_background_task
WaitBegin ==
  /\ leader = "app" /\ Followed
  /\ leader' = "background"
  /\ UNCHANGED <<mpi, cleaner_running, loopVars, ckptVars, cleaner_mutex, cleaner, broken>>

WaitEnd ==
  /\ leader = "background" /\ cleaner_state = "IDLE"
  /\ leader' = "app"
  /\ UNCHANGED <<mpi, cleaner_running, loopVars, ckptVars, cleaner_mutex, cleaner, broken>>

\* The destructor: the flag,
CloseBegin ==
  /\ leader = "app" /\ Followed
  /\ cleaner_running' = FALSE
  /\ leader' = "close"
  /\ UNCHANGED <<mpi, loopVars, ckptVars, cleaner_mutex, cleaner, broken>>

NotifyAtClose == notify_all

\* ... the notification, without the mutex: it is lost on a cleaner that has
\* tested the flag before and is about to wait,
CloseNotify ==
  /\ leader = "close"
  /\ NotifyAtClose
  /\ broken' = IF cleaner = "switch" /\ MustWait THEN {"lost"} ELSE broken
  /\ leader' = "join"
  /\ UNCHANGED <<mpi, cleaner_running, loopVars, ckptVars, cleaner_mutex>>

\* ... and join.
CloseJoin ==
  /\ leader = "join" /\ cleaner = "exit"
  /\ leader' = "closed"
  /\ UNCHANGED <<mpi, cleaner_running, loopVars, ckptVars, cleaner_mutex, cleaner, broken>>

\* The pool is opened again, with a new engine.
Reopen ==
  /\ leader = "closed"
  /\ cleaner_running' = Opened.cleaner_running
  /\ cleaner_state' = Opened.cleaner_state
  /\ cleaner' = Opened.cleaner
  /\ leader' = Opened.leader
  /\ cleaner_mutex' = "free"
  /\ UNCHANGED <<mpi, segment_id, ckptVars, broken>>

-----------------------------------------------------------------------------
CleanerStep == CleanerLock \/ CleanerTest \/ CleanerSwitch \/ CleanerWork

LeaderStep == \/ CheckpointEnd \/ CheckpointNotify \/ WaitEnd \/ CloseNotify \/ CloseJoin
              \/ Reopen

Next == \/ CleanerStep \/ SpuriousWakeup \/ LeaderStep \/ LeaderLock
        \/ CheckpointBegin \/ WaitBegin \/ CloseBegin

\* Both threads run, and a thread that tries to lock a mutex that is free again
\* and again gets it.  Nothing says that the program calls the pool again, or
\* that a spurious wake-up happens.
Fairness == WF_vars(CleanerTest \/ CleanerSwitch \/ CleanerWork) /\ SF_vars(CleanerLock)
            /\ WF_vars(LeaderStep) /\ SF_vars(LeaderLock)

Spec == Init /\ [][Next]_vars /\ Fairness

-----------------------------------------------------------------------------
(* Properties.                                                             *)

\* The variables have the types of the fields and locals they model; the
\* cleaner never works on a segment that does not exist.
TypeOK ==
  /\ mpi \in BOOLEAN /\ cleaner_running \in BOOLEAN /\ thread_busy \in BOOLEAN
  /\ checkpoint_in_progress \in BOOLEAN
  /\ cleaner_state \in {"IDLE", "STARTED", "RUNNING"}
  /\ cleaner_mutex \in {"free", "leader", "cleaner"}
  /\ segment_id \in 0 .. nr_segments
  /\ cleaner = "work" => segment_id < nr_segments
  /\ cleaner \in {"lock", "test", "switch", "work", "wait", "exit"}
  /\ leader \in {"app", "lock", "commit", "notify", "background", "close", "join", "closed"}
  /\ flush_mode \in {"NO_ACTION", "USE_FLUSH_BLOCKS", "WBINVD"}
  /\ broken \subseteq {"unlocked", "lost"}

\* The state is well typed, and the cleaner copies nothing while a checkpoint flushes and commits, also when
\* the leader did not take the mutex because it saw an idle cleaner.  Not so in
\* checkpoint_for_mpi with nothing to save, which does not take the mutex.
NoCopyDuringCommit ==
  /\ TypeOK
  /\ (leader = "commit" /\ broken = {}) => cleaner # "work"

\* The leader gets the mutex: the cleaner, which holds it from segment to
\* segment, sees checkpoint_in_progress.
CheckpointStarts == (leader = "lock" /\ broken = {}) ~> leader # "lock"

\* wait_for_background_task returns: a cleaner that a checkpoint has stopped is
\* woken, and finishes.
BackgroundEnds == (leader = "background" /\ broken = {}) ~> leader # "background"

\* The destructor returns, unless its notification is lost.
CloseEnds == leader = "close" ~> (leader = "closed" \/ broken # {})
=============================================================================
