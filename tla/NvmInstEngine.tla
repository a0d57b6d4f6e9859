--------------------------- MODULE NvmInstEngine ---------------------------
(***************************************************************************)
(* The default engine of libcrpm (nvm_inst_engine.cpp).  The application   *)
(* works in the main segments on persistent memory.  Instrumented stores   *)
(* call a hook that makes a copy-on-write of the segment the first time it *)
(* is touched in an epoch and lists the block for the next checkpoint.  A  *)
(* checkpoint, called by all threads together, flushes what was listed (or *)
(* the whole cache), commits the new segment states, and brings the back   *)
(* segments up to date, at once or through a background thread (cleaner).  *)
(* The process may crash at any step; Open then recovers the image.        *)
(***************************************************************************)
EXTENDS CheckpointImage, Sequences

CONSTANTS Threads,               \* the threads of the application
          Cleaner,               \* the background thread
          kMaxFlushBlocks,       \* capacity of a thread's list of blocks
          kNumBufferedAddresses, \* capacity of a thread's address buffer
          kBitWidth,             \* bits in a word of a bit set
          kSegmentLocks,         \* number of segment locks
          Ranges,                \* sets of blocks one store may touch
          MaxRuns                \* bound: runs of the process that store

ASSUME EngineAssumption ==
  /\ IsFiniteSet(Threads) /\ Threads # {}
  /\ Cleaner \notin Threads
  /\ kMaxFlushBlocks \in Nat \ {0}
  /\ kNumBufferedAddresses \in Nat \ {0}
  /\ kBitWidth \in Nat \ {0}
  /\ kBlocksPerSegment % kBitWidth = 0
  /\ kSegmentLocks \in Nat \ {0}
  /\ Ranges \subseteq (SUBSET Blocks) \ {{}}
  /\ MaxRuns \in Nat \ {0}

Workers == Threads \cup {Cleaner}
Locks   == 0 .. (kSegmentLocks - 1)

VARIABLES
  \* threads of the application and the hooks they call
  pc,             \* where each worker is
  range,          \* blocks of the store a thread is executing
  pending,        \* segments its copy-on-write hook has still to visit
  target,         \* segment a worker writes back
  created,        \* ... and whether it was just bound to a back segment
  address_buffer, \* addresses stored to, not yet given to hook_routine
  flush_blocks,   \* blocks listed for the next checkpoint
  block_dirty, segment_dirty,       \* the bit sets
  segment_locks,  \* segment locks that are held
  next_back_id,   \* where the search for a back segment starts
  skip_copy_on_write,
  \* checkpoint and cleaner
  phase,          \* step of the checkpoint or of the recovery
  committing,     \* what the current commit is for
  flush_mode, thread_busy,
  checkpoint_in_progress,
  cleaner_state, cleaner_mutex,
  runs,           \* runs of the process so far, capped
  \* history: what the application stored, and its value at the last commit
  app, snap

threadVars  == <<pc, range, pending, target, created>>
hookVars    == <<address_buffer, flush_blocks, block_dirty, segment_dirty>>
lockVars    == <<segment_locks, next_back_id>>
ckptVars    == <<phase, committing, flush_mode, thread_busy,
                 checkpoint_in_progress, skip_copy_on_write>>
cleanerVars == <<cleaner_state, cleaner_mutex>>
historyVars == <<app, snap>>
vars == <<imageVars, threadVars, hookVars, lockVars, ckptVars, cleanerVars,
          runs, historyVars>>

\* The process is open: its threads run.
Up == committing # "Recovery"

LockOf(s) == s % kSegmentLocks

Goto(w, l) == pc' = [pc EXCEPT ![w] = l]

-----------------------------------------------------------------------------
\* State of a process that has just been created or opened.
VolatileInit ==
  /\ pc = [w \in Workers |-> IF w = Cleaner THEN "blocked" ELSE "app"]
  /\ range = [t \in Threads |-> {}]
  /\ pending = [t \in Threads |-> {}]
  /\ target = [w \in Workers |-> 0]
  /\ created = [w \in Workers |-> FALSE]
  /\ address_buffer = [t \in Threads |-> <<>>]
  /\ flush_blocks = [t \in Threads |-> {}]
  /\ block_dirty = {}
  /\ segment_dirty = {}
  /\ segment_locks = {}
  /\ next_back_id = 0
  /\ skip_copy_on_write = FALSE
  /\ flush_mode = "NO_ACTION"
  /\ thread_busy = FALSE
  /\ checkpoint_in_progress = FALSE
  /\ cleaner_state = "IDLE"
  /\ cleaner_mutex = "free"

\* The DRAM of a process that was opened again.
VolatileReset ==
  /\ pc' = [w \in Workers |-> IF w = Cleaner THEN "blocked" ELSE "app"]
  /\ range' = [t \in Threads |-> {}]
  /\ pending' = [t \in Threads |-> {}]
  /\ target' = [w \in Workers |-> 0]
  /\ created' = [w \in Workers |-> FALSE]
  /\ address_buffer' = [t \in Threads |-> <<>>]
  /\ flush_blocks' = [t \in Threads |-> {}]
  /\ block_dirty' = {}
  /\ segment_dirty' = {}
  /\ segment_locks' = {}
  /\ next_back_id' = 0
  /\ skip_copy_on_write' = FALSE
  /\ flush_mode' = "NO_ACTION"
  /\ thread_busy' = FALSE
  /\ checkpoint_in_progress' = FALSE
  /\ cleaner_state' = "IDLE"
  /\ cleaner_mutex' = "free"

Init ==
  /\ ImageInit
  /\ VolatileInit
  /\ phase = "run"
  /\ committing = "None"
  /\ runs = 1
  /\ app = [b \in Blocks |-> Junk]
  /\ snap = [b \in Blocks |-> Junk]

-----------------------------------------------------------------------------
(* The hooks of a store.                                                   *)

\* An instrumented store of a program thread begins: the hook will visit the
\* segments of its blocks.
BeginStore(t) ==
  /\ phase = "run" /\ pc[t] = "app" /\ runs <= MaxRuns
  /\ \E R \in Ranges : /\ range' = [range EXCEPT ![t] = R]
                       /\ pending' = [pending EXCEPT ![t] = {b[1] : b \in R}]
  /\ Goto(t, "hook")
  /\ UNCHANGED <<imageVars, target, created, hookVars, lockVars, ckptVars,
                 cleanerVars, runs, historyVars>>

\* Mutant: the segment's bit is set before lazy_write_back, not by it.
MarkedTooEarly(t) ==
  /\ pc[t] = "hook" /\ pending[t] # {}
  /\ \E s \in pending[t] :
       /\ \A r \in pending[t] : s <= r
       /\ segment_dirty' = segment_dirty \cup {s}
       /\ IF s \in segment_dirty \/ skip_copy_on_write
          THEN /\ pending' = [pending EXCEPT ![t] = @ \ {s}]
               /\ UNCHANGED <<pc, target>>
          ELSE /\ target' = [target EXCEPT ![t] = s]
               /\ Goto(t, "lwb")
               /\ UNCHANGED pending
  /\ UNCHANGED <<imageVars, range, created, address_buffer, flush_blocks,
                 block_dirty, lockVars, ckptVars, cleanerVars, runs, historyVars>>

\* hook_copy_on_write_routine for the next segment of the range.
CopyOnWriteHook(t) ==
  /\ pc[t] = "hook" /\ pending[t] # {}
  /\ \E s \in pending[t] :
       /\ \A r \in pending[t] : s <= r
       /\ \/ /\ s \in segment_dirty \/ skip_copy_on_write
             /\ segment_dirty' = segment_dirty \cup {s}
             /\ pending' = [pending EXCEPT ![t] = @ \ {s}]
             /\ UNCHANGED <<pc, target>>
          \/ /\ s \notin segment_dirty /\ ~skip_copy_on_write
             /\ target' = [target EXCEPT ![t] = s]
             /\ Goto(t, "lwb")
             /\ UNCHANGED <<segment_dirty, pending>>
  /\ UNCHANGED <<imageVars, range, created, address_buffer, flush_blocks,
                 block_dirty, lockVars, ckptVars, cleanerVars, runs, historyVars>>

\* Mutant: only the first block of a range is marked and listed.
FirstBlockOnly(t, B) ==
  LET C == {b \in B : \A d \in B \ {b} : b[1] < d[1]}
  IN /\ block_dirty' = block_dirty \cup C
     /\ flush_blocks' = [flush_blocks EXCEPT ![t] = @ \cup (C \ block_dirty)]

\* hook_routine of thread t for the blocks B: blocks whose bit was clear are
\* added to the thread's list while it has room.
hook_routine(t, B) ==
  LET fresh == B \ block_dirty
      room  == kMaxFlushBlocks - Cardinality(flush_blocks[t])
  IN /\ block_dirty' = block_dirty \cup B
     /\ \E listed \in SUBSET fresh :
          /\ Cardinality(listed) <= room
          /\ listed = fresh \/ Cardinality(listed) = room
          /\ flush_blocks' = [flush_blocks EXCEPT ![t] = @ \cup listed]

Buffered(t) == {address_buffer[t][i] : i \in 1 .. Len(address_buffer[t])}

\* Mutant: the checkpoint forgets the buffered addresses.
BuffersForgotten == {}

\* address_buffer_clear_all: what the buffers of all threads hold.
Drained == UNION {Buffered(t) : t \in Threads}

\* __crpm_hook_rt_store and __crpm_hook_rt_range_store after copy-on-write,
\* and the store itself.  A store within a block goes through the address
\* buffer, which is emptied when it is full; a larger range does not.
FinishStore(t) ==
  /\ pc[t] = "hook" /\ pending[t] = {}
  /\ LET single == Cardinality(range[t]) = 1
         buffer == Append(address_buffer[t], CHOOSE b \in range[t] : TRUE)
     IN \/ /\ single /\ Len(buffer) < kNumBufferedAddresses
           /\ address_buffer' = [address_buffer EXCEPT ![t] = buffer]
           /\ UNCHANGED <<flush_blocks, block_dirty>>
        \/ /\ single /\ Len(buffer) = kNumBufferedAddresses
           /\ hook_routine(t, Buffered(t) \cup range[t])
           /\ address_buffer' = [address_buffer EXCEPT ![t] = <<>>]
        \/ /\ ~single
           /\ hook_routine(t, range[t])
           /\ UNCHANGED address_buffer
  /\ \E v \in Values :
       LET val == [b \in Blocks |-> v]
       IN /\ main' = [b \in Blocks |-> IF b \in range[t] THEN v ELSE main[b]]
          /\ main_pm' = Put(main_pm, range[t], val)
          /\ app' = [b \in Blocks |-> IF b \in range[t] THEN v ELSE app[b]]
  /\ range' = [range EXCEPT ![t] = {}]
  /\ Goto(t, "app")
  /\ UNCHANGED <<committed_epoch, attributes, segment_state, segment_state_pm,
                 segment_state_dirty, back_to_main, main_to_back, back, back_pm,
                 pending, target, created, segment_dirty, lockVars, ckptVars,
                 cleanerVars, runs, snap>>

-----------------------------------------------------------------------------
(* lazy_write_back, by a thread's hook (on demand) or by the cleaner.      *)

\* The worker is done with its segment (the locals of the call are gone).
Return(w) ==
  IF w = Cleaner
  THEN /\ Goto(w, "loop")
       /\ target' = [target EXCEPT ![w] = @ + 1]
       /\ cleaner_state' = IF target[w] + 1 = nr_main_segments
                           THEN "IDLE" ELSE cleaner_state
       /\ UNCHANGED <<pending, segment_dirty>>
  ELSE /\ Goto(w, "hook")
       /\ pending' = [pending EXCEPT ![w] = @ \ {target[w]}]
       /\ segment_dirty' = segment_dirty \cup {target[w]}
       /\ target' = [target EXCEPT ![w] = 0]
       /\ UNCHANGED cleaner_state

\* allocate_back_segment passes over a back segment whose owner is locked or
\* dirty.  n steps from next_back_id, modulo the number of back segments.
Candidate(n) == (next_back_id + n) % nr_back_segments
\* Mutant: the owner's lock is not looked at.
LockIgnored(n) == back_to_main[Candidate(n)] \notin segment_dirty
Stealable(n) == LET s == back_to_main[Candidate(n)]
                IN s \notin segment_dirty /\ LockOf(s) \notin segment_locks'
\* Mutant: the search position is not reduced modulo the number of segments.
NoWrapAround(c) == c + 1
\* ... and goes on behind the one it takes.
NextBack(c)  == (c + 1) % nr_back_segments

\* Under its lock, the segment needs no copy: the committed data is already
\* in its back segment, or the cleaner meets a segment without one.
LazyNothingToDo(w) ==
  LET s == target[w]
  IN /\ pc[w] = "lwb" /\ LockOf(s) \notin segment_locks
     /\ \/ StateOf(s) # "Main" /\ main_to_back[s] # Null
        \/ w = Cleaner /\ main_to_back[s] = Null
     /\ Return(w)
     /\ UNCHANGED <<imageVars, range, created, address_buffer, flush_blocks,
                    block_dirty, lockVars, ckptVars, cleaner_mutex, runs,
                    historyVars>>

\* The segment has a back segment that lacks the blocks marked dirty.
LazyLock(w) ==
  LET s == target[w]
  IN /\ pc[w] = "lwb" /\ LockOf(s) \notin segment_locks
     /\ StateOf(s) = "Main" /\ main_to_back[s] # Null
     /\ segment_locks' = segment_locks \cup {LockOf(s)}
     /\ Goto(w, "copy")
     /\ UNCHANGED <<imageVars, range, pending, target, created, hookVars, next_back_id,
                    ckptVars, cleanerVars, runs, historyVars>>

\* The segment has no back segment: find_back_segment takes the first one
\* whose owner is neither locked nor dirty and binds it, with a fence.
LazyAllocate(w) ==
  LET s == target[w]
  IN /\ pc[w] = "lwb" /\ LockOf(s) \notin segment_locks
     /\ w # Cleaner /\ main_to_back[s] = Null
     /\ segment_locks' = segment_locks \cup {LockOf(s)}
     /\ \E n \in BackSegments :
          /\ Stealable(n) /\ \A m \in 0 .. (n - 1) : ~Stealable(m)
          /\ bind_back_segment(s, Candidate(n))
          /\ next_back_id' = NextBack(Candidate(n))
     /\ created' = [created EXCEPT ![w] = TRUE]
     /\ Goto(w, "copy")
     /\ UNCHANGED <<committed_epoch, attributes, segment_state, segment_state_pm,
                    segment_state_dirty, main, main_pm, back, back_pm, range, pending,
                    target, hookVars, ckptVars, cleanerVars, runs, historyVars>>

\* Blocks the write-back of s copies to its back segment.
LazyBlocks(s, new) ==
  CASE new /\ StateOf(s) # "Initial" -> BlocksOf(s)
    [] new /\ StateOf(s) = "Initial" -> {}
    [] OTHER -> BlocksOf(s) \cap block_dirty

\* Their images in the back segment, with the value each is given.
BackImage(B) == {BackBlock(b[1], b) : b \in B}
BackData == [d \in BackBlocks |-> main[<<back_to_main[d[1]], d[2]>>]]

\* The non-temporal copies, not yet fenced.
LazyCopy(w) ==
  /\ pc[w] = "copy"
  /\ LET X == BackImage(LazyBlocks(target[w], created[w]))
     IN back' = Write(back, X, BackData) /\ back_pm' = Put(back_pm, X, BackData)
  /\ Goto(w, "fence")
  /\ UNCHANGED <<committed_epoch, attributes, segment_state, segment_state_pm,
                 segment_state_dirty, back_to_main, main_to_back, main, main_pm,
                 range, pending, target, created, hookVars, lockVars, ckptVars,
                 cleanerVars, runs, historyVars>>

\* The fence after them, and set_segment_state_atomic up to its own fence:
\* the slot that counts says Back.
LazyFence(w) ==
  LET s == target[w]
  IN /\ pc[w] = "fence"
     /\ back_pm' = Settle(back_pm, {main_to_back[s]} \X Offsets, back)
     /\ UNCHANGED back
     /\ segment_state' = [segment_state EXCEPT ![Active][s] = "Back"]
     /\ segment_state_pm' = [segment_state_pm EXCEPT ![Active][s] = @ \cup {"Back"}]
     /\ Goto(w, "state")
     /\ UNCHANGED <<committed_epoch, attributes, segment_state_dirty, back_to_main,
                    main_to_back, main, main_pm, range, pending, target, created,
                    hookVars, lockVars, ckptVars, cleanerVars, runs, historyVars>>

\* The rest: the other slot (flushed, not fenced), the bits of the segment's
\* blocks, the segment's own bit when on demand, the lock.
LazyDone(w) ==
  LET s == target[w]
  IN /\ pc[w] = "state"
     /\ segment_state' = [segment_state EXCEPT ![Inactive][s] = "Back"]
     /\ segment_state_pm' = [e \in 0 .. 1 |-> [segment_state_pm[e] EXCEPT
             ![s] = IF e = Active THEN {"Back"} ELSE @ \cup {"Back"}]]
     /\ block_dirty' = block_dirty \ BlocksOf(s)
     /\ segment_locks' = segment_locks \ {LockOf(s)}
     /\ created' = [created EXCEPT ![w] = FALSE]
     /\ Return(w)
     /\ UNCHANGED <<committed_epoch, attributes, segment_state_dirty, back_to_main,
                    main_to_back, main, main_pm, back, back_pm, range,
                    address_buffer, flush_blocks, next_back_id, ckptVars,
                    cleaner_mutex, runs, historyVars>>

-----------------------------------------------------------------------------
(* checkpoint, called by all threads.  Between two barriers the threads    *)
(* share the work; the order in which they do it does not show.            *)

CheckpointEnter(t) ==
  /\ phase = "run" /\ pc[t] = "app"
  /\ Goto(t, "ckpt")
  /\ UNCHANGED <<imageVars, range, pending, target, created, hookVars, lockVars,
                 ckptVars, cleanerVars, runs, historyVars>>

\* Mutant: one thread with nothing listed decides for all.
AnyIdle(lists) ==
  CASE \E t \in Threads : lists[t] = {} -> "NO_ACTION"
    [] \E t \in Threads : Cardinality(lists[t]) >= kMaxFlushBlocks -> "WBINVD"
    [] OTHER -> "USE_FLUSH_BLOCKS"

\* determine_flush_mode
Mode(lists) ==
  CASE \A t \in Threads : lists[t] = {} -> "NO_ACTION"
    [] \E t \in Threads : Cardinality(lists[t]) >= kMaxFlushBlocks -> "WBINVD"
    [] OTHER -> "USE_FLUSH_BLOCKS"

\* All threads are in: the leader hands the buffered addresses to
\* hook_routine, chooses how to flush, and decides about the copy-on-write of
\* the next epoch.  With nothing listed the checkpoint returns at once.
CheckpointBegin ==
  /\ phase = "run" /\ \A t \in Threads : pc[t] = "ckpt"
  /\ \E t \in Threads : hook_routine(t, Drained)
  /\ address_buffer' = [t \in Threads |-> <<>>]
  /\ segment_state_pm' = StatesSettled
  /\ flush_mode' = Mode(flush_blocks')
  /\ \/ /\ flush_mode' = "NO_ACTION"
        /\ pc' = [w \in Workers |-> IF w \in Threads THEN "app" ELSE pc[w]]
        /\ UNCHANGED <<phase, committing, thread_busy, checkpoint_in_progress,
                       skip_copy_on_write>>
     \/ /\ flush_mode' # "NO_ACTION"
        /\ thread_busy' = (cleaner_state # "IDLE")
        /\ checkpoint_in_progress' = TRUE
        /\ skip_copy_on_write' = (/\ flush_mode' = "USE_FLUSH_BLOCKS"
                                  /\ ~thread_busy'
                                  /\ nr_main_segments = nr_back_segments)
        /\ phase' = IF flush_mode' = "WBINVD" \/ thread_busy'
                    THEN "lock" ELSE "flush"
        /\ committing' = "Main"
        /\ UNCHANGED pc
  /\ UNCHANGED <<committed_epoch, attributes, segment_state, segment_state_dirty,
                 back_to_main, main_to_back, main, main_pm, back, back_pm, range,
                 pending, target, created, segment_dirty, lockVars, cleanerVars,
                 runs, historyVars>>

\* The leader takes the cleaner's mutex, so the cleaner stands still.
CheckpointLock ==
  /\ phase = "lock" /\ cleaner_mutex = "free"
  /\ cleaner_mutex' = "leader"
  /\ phase' = "flush"
  /\ UNCHANGED <<imageVars, threadVars, hookVars, lockVars, committing, flush_mode,
                 thread_busy, checkpoint_in_progress, skip_copy_on_write,
                 cleaner_state, runs, historyVars>>

Listed == UNION {flush_blocks[t] : t \in Threads}

\* flush_parallel: the listed blocks, or the whole cache.
FlushParallel ==
  /\ phase = "flush"
  /\ main_pm' = Settle(main_pm, IF flush_mode = "WBINVD" THEN Blocks ELSE Listed,
                       main)
  /\ phase' = "states"
  /\ UNCHANGED <<committed_epoch, attributes, segment_state, segment_state_pm,
                 segment_state_dirty, back_to_main, main_to_back, main, back, back_pm,
                 threadVars, hookVars, lockVars, committing, flush_mode,
                 thread_busy, checkpoint_in_progress, skip_copy_on_write,
                 cleanerVars, runs, historyVars>>

\* commit_layout_state: the segments it gives a new state.
LayoutSegments == IF flush_mode = "WBINVD" THEN segment_dirty
                  ELSE {b[1] : b \in Listed}

CommitLayoutState ==
  /\ phase = "states"
  /\ set_segment_state(LayoutSegments, committing)
  /\ phase' = "commit"
  /\ UNCHANGED <<committed_epoch, attributes, back_to_main, main_to_back, main,
                 main_pm, back, back_pm, threadVars, hookVars, lockVars, committing,
                 flush_mode, thread_busy, checkpoint_in_progress,
                 skip_copy_on_write, cleanerVars, runs, historyVars>>

\* The new epoch is on the medium.  With the commit of Main the checkpoint has
\* taken effect.
CommitLayoutEpoch ==
  /\ phase = "commit" /\ Up
  /\ CommitEpoch
  /\ snap' = IF committing = "Main" THEN app ELSE snap
  /\ phase' = "sync"
  /\ UNCHANGED <<attributes, back_to_main, main_to_back, main, main_pm, back, back_pm,
                 threadVars, hookVars, lockVars, committing, flush_mode,
                 thread_busy, checkpoint_in_progress, skip_copy_on_write,
                 cleanerVars, runs, app>>

\* The old slot is overwritten; then the back segments are brought up to date
\* (after Main, with the listed blocks) or the checkpoint ends.
SyncLayoutStates ==
  /\ phase = "sync"
  /\ CopyStates
  /\ phase' = IF committing = "Main" /\ flush_mode = "USE_FLUSH_BLOCKS"
              THEN "writeback" ELSE "finish"
  /\ UNCHANGED <<attributes, back_to_main, main_to_back, main, main_pm, back, back_pm,
                 threadVars, hookVars, lockVars, committing, flush_mode,
                 thread_busy, checkpoint_in_progress, skip_copy_on_write,
                 cleanerVars, runs, historyVars>>

\* write_back_parallel: the listed blocks are copied to the back segments.
WriteBackParallel ==
  /\ phase = "writeback"
  /\ back' = Write(back, BackImage(Listed), BackData)
  /\ back_pm' = Put(back_pm, BackImage(Listed), BackData)
  /\ phase' = "writeback_fence"
  /\ UNCHANGED <<committed_epoch, attributes, segment_state, segment_state_pm,
                 segment_state_dirty, back_to_main, main_to_back, main, main_pm,
                 threadVars, hookVars, lockVars, committing, flush_mode,
                 thread_busy, checkpoint_in_progress, skip_copy_on_write,
                 cleanerVars, runs, historyVars>>

\* ... and fenced, with the state copies issued before them.
WriteBackFence ==
  /\ phase = "writeback_fence"
  /\ back_pm' = Settle(back_pm, BackImage(Listed), back)
  /\ UNCHANGED back
  /\ segment_state_pm' = StatesSettled
  /\ committing' = "Back"
  /\ phase' = "states"
  /\ UNCHANGED <<committed_epoch, attributes, segment_state, segment_state_dirty,
                 back_to_main, main_to_back, main, main_pm, threadVars, hookVars,
                 lockVars, flush_mode, thread_busy, checkpoint_in_progress,
                 skip_copy_on_write, cleanerVars, runs, historyVars>>

\* clear_all on the word of each index of S, in a bit set over U.
WordsOf(S, U) == {x \in U : \E y \in S : x \div kBitWidth = y \div kBitWidth}

\* clear_region(0, n) clears the words below the one that holds n.
ClearRegion(n) == {x \in Segments : x \div kBitWidth < n \div kBitWidth}

\* clear_dirty_bits: whole words are cleared around the listed blocks.
clear_dirty_bits ==
  /\ block_dirty' = {b \in block_dirty : \A d \in Listed :
                       b[1] = d[1] => b[2] \div kBitWidth # d[2] \div kBitWidth}
  /\ segment_dirty' = segment_dirty \ WordsOf({b[1] : b \in Listed}, Segments)

\* End of the checkpoint: the bit sets, the lists, the cleaner and its mutex,
\* and the threads return.
CheckpointFinish ==
  /\ phase = "finish" /\ Up
  /\ attributes' = TRUE
  /\ segment_state_pm' = StatesSettled
  /\ \/ /\ flush_mode = "USE_FLUSH_BLOCKS"
        /\ clear_dirty_bits
        /\ cleaner_mutex' = IF thread_busy THEN "free" ELSE cleaner_mutex
        /\ UNCHANGED cleaner_state
     \/ /\ flush_mode = "WBINVD"
        /\ segment_dirty' = segment_dirty \ ClearRegion(nr_main_segments)
        /\ cleaner_state' = "STARTED"
        /\ cleaner_mutex' = "free"
        /\ UNCHANGED block_dirty
  /\ flush_blocks' = [t \in Threads |-> {}]
  /\ checkpoint_in_progress' = FALSE
  /\ thread_busy' = FALSE
  /\ pc' = [w \in Workers |-> IF w \in Threads THEN "app" ELSE pc[w]]
  /\ phase' = "run"
  /\ committing' = "None"
  /\ UNCHANGED <<committed_epoch, segment_state, segment_state_dirty, back_to_main,
                 main_to_back, main, main_pm, back, back_pm, range, pending, target,
                 created, address_buffer, lockVars, flush_mode,
                 skip_copy_on_write, runs, historyVars>>

-----------------------------------------------------------------------------
(* WriteBackThreadRoutine.                                                 *)

\* The thread starts, or a wait on the condition variable ends (it may do so
\* without a notification): either way it needs the mutex.
CleanerAcquire ==
  /\ Up /\ pc[Cleaner] = "blocked" /\ cleaner_mutex = "free"
  /\ cleaner_mutex' = "cleaner"
  /\ Goto(Cleaner, "loop")
  /\ UNCHANGED <<imageVars, range, pending, target, created, hookVars, lockVars,
                 ckptVars, cleaner_state, runs, historyVars>>

\* One turn of the loop: start a pass over the segments, write one segment
\* back, or wait while a checkpoint is in progress or there is nothing to do.
CleanerLoop ==
  /\ pc[Cleaner] = "loop"
  /\ \/ /\ cleaner_state = "STARTED"
        /\ target' = [target EXCEPT ![Cleaner] = 0]
        /\ cleaner_state' = "RUNNING"
        /\ UNCHANGED <<pc, cleaner_mutex>>
     \/ /\ cleaner_state = "RUNNING" /\ ~checkpoint_in_progress
        /\ Goto(Cleaner, "lwb")
        /\ UNCHANGED <<target, cleaner_state, cleaner_mutex>>
     \/ /\ cleaner_state = "IDLE" \/ (cleaner_state = "RUNNING" /\ checkpoint_in_progress)
        /\ Goto(Cleaner, "blocked")
        /\ cleaner_mutex' = "free"
        /\ UNCHANGED <<target, cleaner_state>>
  /\ UNCHANGED <<imageVars, range, pending, created, hookVars, lockVars, ckptVars,
                 runs, historyVars>>

-----------------------------------------------------------------------------
(* Crash and recovery.                                                     *)

\* The process dies; the medium keeps one of the values each location may
\* have, and everything in DRAM is lost.
Die ==
  /\ \E m \in Resolve(main_pm, Contents), k \in Resolve(back_pm, Contents),
        s0 \in Resolve(segment_state_pm[0], States),
        s1 \in Resolve(segment_state_pm[1], States) :
       /\ main' = m
       /\ main_pm' = [b \in Blocks |-> {m[b]}]
       /\ back' = k
       /\ back_pm' = [b \in BackBlocks |-> {k[b]}]
       /\ segment_state' = [e \in 0 .. 1 |-> IF e = 0 THEN s0 ELSE s1]
       /\ segment_state_pm' = [e \in 0 .. 1 |->
                                 [s \in Segments |-> {IF e = 0 THEN s0[s] ELSE s1[s]}]]
  /\ segment_state_dirty' = {}
  /\ main_to_back' = [s \in Segments |-> Null]
  /\ VolatileReset
  /\ phase' = "open"
  /\ committing' = "Recovery"
  /\ runs' = IF runs <= MaxRuns THEN runs + 1 ELSE runs
  /\ app' = snap
  /\ UNCHANGED <<committed_epoch, attributes, back_to_main, snap>>

Crash == Die

\* find_back_segment finds every owner locked or dirty and calls exit.
AllocateFail(w) ==
  /\ pc[w] = "lwb" /\ LockOf(target[w]) \notin segment_locks
  /\ w # Cleaner /\ main_to_back[target[w]] = Null
  /\ \A n \in BackSegments :
       LET s == back_to_main[Candidate(n)]
       IN s \in segment_dirty \/ LockOf(s) \in segment_locks \cup {LockOf(target[w])}
  /\ Die

\* CheckpointImage::Open of the image that is found.
OpenImage ==
  /\ phase = "open"
  /\ main_to_back' = Rebuilt
  /\ phase' = "recover"
  /\ UNCHANGED <<committed_epoch, attributes, segment_state, segment_state_pm,
                 segment_state_dirty, back_to_main, main, main_pm, back, back_pm,
                 threadVars, hookVars, lockVars, committing, flush_mode,
                 thread_busy, checkpoint_in_progress, skip_copy_on_write,
                 cleanerVars, runs, historyVars>>

\* Bound segments in the given state, and their blocks.
Bound(state)   == {s \in Segments : main_to_back[s] # Null /\ StateOf(s) = state}
\* Mutant: segments whose back segment is the newer one are not restored.
OnlyMain(state) == UNION {BlocksOf(s) : s \in Bound("Main") \cap Bound(state)}
BlocksIn(state) == UNION {BlocksOf(s) : s \in Bound(state)}

\* CheckpointImage::recovery(SS_Back), the copies: for every bound segment that
\* is not Initial the stale side is overwritten by the other.
RecoveryCopy ==
  LET fromMain == BackImage(BlocksIn("Main"))
      fromBack == BlocksIn("Back")
      mainData == [b \in Blocks |-> IF b \in fromBack THEN back[BackBlock(b[1], b)]
                                    ELSE main[b]]
  IN /\ phase = "recover"
     /\ back' = Write(back, fromMain, BackData)
     /\ back_pm' = Put(back_pm, fromMain, BackData)
     /\ main' = mainData
     /\ main_pm' = Put(main_pm, fromBack, mainData)
     /\ set_segment_state(Bound("Main"), "Back")
     /\ phase' = "commit"
     /\ UNCHANGED <<committed_epoch, attributes, back_to_main, main_to_back,
                    threadVars, hookVars, lockVars, committing, flush_mode,
                    thread_busy, checkpoint_in_progress, skip_copy_on_write,
                    cleanerVars, runs, historyVars>>

\* Its commit: the fence that orders the copies before the new epoch.
RecoveryCommit ==
  /\ phase = "commit" /\ ~Up
  /\ CommitEpoch
  /\ main_pm' = Settle(main_pm, Blocks, main)
  /\ back_pm' = Settle(back_pm, BackBlocks, back)
  /\ phase' = "sync"
  /\ UNCHANGED <<attributes, back_to_main, main_to_back, main, back, threadVars,
                 hookVars, lockVars, committing, flush_mode, thread_busy,
                 checkpoint_in_progress, skip_copy_on_write, cleanerVars, runs,
                 historyVars>>

\* Open returns and the program goes on from the snapshot.
OpenDone ==
  /\ phase = "finish" /\ ~Up
  /\ segment_state_pm' = StatesSettled
  /\ phase' = "run"
  /\ committing' = "None"
  /\ UNCHANGED <<committed_epoch, attributes, segment_state, segment_state_dirty,
                 back_to_main, main_to_back, main, main_pm, back, back_pm, threadVars,
                 hookVars, lockVars, flush_mode, thread_busy,
                 checkpoint_in_progress, skip_copy_on_write, cleanerVars, runs,
                 historyVars>>

-----------------------------------------------------------------------------
LazyWriteBack(w) == LazyNothingToDo(w) \/ LazyLock(w) \/ LazyCopy(w)
                    \/ LazyFence(w) \/ LazyDone(w)

Hooks == \E t \in Threads : BeginStore(t) \/ CopyOnWriteHook(t) \/ FinishStore(t)

Checkpoint == \/ \E t \in Threads : CheckpointEnter(t)
              \/ CheckpointBegin \/ CheckpointLock \/ FlushParallel
              \/ CommitLayoutState \/ CommitLayoutEpoch \/ SyncLayoutStates
              \/ WriteBackParallel \/ WriteBackFence \/ CheckpointFinish

CleanerStep == CleanerAcquire \/ CleanerLoop

Recovery == OpenImage \/ RecoveryCopy \/ RecoveryCommit \/ OpenDone

Stealing == \E t \in Threads : LazyAllocate(t) \/ AllocateFail(t)

Next == \/ Hooks
        \/ \E w \in Workers : LazyWriteBack(w)
        \/ Stealing
        \/ Checkpoint
        \/ CleanerStep
        \/ Crash
        \/ Recovery

Spec == Init /\ [][Next]_vars

-----------------------------------------------------------------------------
(* Properties.                                                             *)

PcSet == {"app", "hook", "ckpt", "lwb", "copy", "fence", "state", "blocked", "loop"}

\* The variables have the types of the fields and locals they model.
TypeOK ==
  /\ ImageTypeOK
  /\ pc \in [Workers -> PcSet]
  /\ range \in [Threads -> SUBSET Blocks]
  /\ pending \in [Threads -> SUBSET Segments]
  /\ target \in [Workers -> 0 .. nr_main_segments]
  /\ created \in [Workers -> BOOLEAN]
  /\ address_buffer \in [Threads -> Seq(Blocks)]
  /\ flush_blocks \in [Threads -> SUBSET Blocks]
  /\ block_dirty \subseteq Blocks
  /\ segment_dirty \subseteq Segments
  /\ segment_locks \subseteq Locks
  /\ next_back_id \in BackSegments
  /\ skip_copy_on_write \in BOOLEAN
  /\ phase \in {"run", "lock", "flush", "states", "commit", "sync", "writeback",
                "writeback_fence", "finish", "open", "recover"}
  /\ committing \in {"None", "Main", "Back", "Recovery"}
  /\ flush_mode \in {"NO_ACTION", "USE_FLUSH_BLOCKS", "WBINVD"}
  /\ thread_busy \in BOOLEAN
  /\ checkpoint_in_progress \in BOOLEAN
  /\ cleaner_state \in {"IDLE", "STARTED", "RUNNING"}
  /\ cleaner_mutex \in {"free", "leader", "cleaner"}
  /\ runs \in 1 .. (MaxRuns + 1)
  /\ app \in [Blocks -> Contents]
  /\ snap \in [Blocks -> Contents]

\* What a recovery started now may find in block b, for one possible value of
\* the segment's state: its back segment if bound and Back, itself otherwise.
Recoverable(b, state) ==
  LET owners == {c \in BackSegments : back_to_main[c] = b[1]}
  IN IF state = "Back" /\ owners # {}
     THEN UNION {back_pm[<<c, b[2]>>] : c \in owners}
     ELSE main_pm[b]

\* Crash consistency: at every step of every thread, and in the middle of a
\* recovery too, a crash leaves an image from which recovery (checkpoint.cpp)
\* restores exactly the last checkpoint in every block the program had stored to.
RecoverySafe ==
  \A b \in Blocks :
    snap[b] # Junk =>
      \A state \in segment_state_pm[Active][b[1]] : Recoverable(b, state) = {snap[b]}

\* Once recovery is done, and from then on, the program reads what it stored:
\* the checkpoint after a restart, its own stores after that.
MemoryIsProgram ==
  phase \notin {"open", "recover"} =>
    \A b \in Blocks : app[b] # Junk => main[b] = app[b]

\* A checkpoint that returns to its callers has made durable everything they
\* stored before, also when it decided that there was nothing to do.
CheckpointDurable ==
  [][(\E t \in Threads : pc[t] = "ckpt" /\ pc'[t] = "app" /\ Up /\ phase' = "run")
       => snap' = app]_vars

\* back_to_main (on the medium) and main_to_back (rebuilt in DRAM) are inverse
\* to each other whatever was stolen: no two segments share a back segment.
BindingInverse ==
  phase # "open" =>
    /\ \A s \in Segments : main_to_back[s] # Null => back_to_main[main_to_back[s]] = s
    /\ \A c \in BackSegments : main_to_back[back_to_main[c]] = c

\* A segment that was stored to in this epoch keeps its back segment: nobody
\* steals it, and write_back_parallel never has to allocate one.
DirtyIsBound ==
  \A s \in segment_dirty : main_to_back[s] # Null

\* The image a recovery started now would restore, where it is defined.
Durable == [b \in Blocks |->
  IF snap[b] = Junk THEN Junk
  ELSE LET found == UNION {Recoverable(b, state) :
                             state \in segment_state_pm[Active][b[1]]}
       IN IF \E v \in Contents : found = {v}
          THEN CHOOSE v \in Contents : found = {v}
          ELSE "torn"]

\* What loads return, where the program has stored; between a crash and the
\* end of the recovery copies, what they will return.
Loads == [b \in Blocks |->
  CASE app[b] = Junk -> Junk
    [] app[b] # Junk /\ phase \in {"open", "recover"} -> Durable[b]
    [] OTHER -> main[b]]

Abstract == INSTANCE Snapshot WITH up <- Up, work <- Loads, snap <- Durable

\* The engine implements the snapshot the README promises: the recoverable
\* image changes only at the commit of a checkpoint, and then in all blocks at
\* once, and a restart gives the program that image back.
ImplementsSnapshot == Abstract!SSpec
=============================================================================
