--------------------------- MODULE UndoLogEngine ---------------------------
(***************************************************************************)
(* The engine with an undo log (undolog_engine.cpp).  The first store to a *)
(* block in an epoch appends the block's content to a log shared by all    *)
(* threads; a checkpoint flushes the blocks stored to and empties the log; *)
(* recovery copies the logged contents back, oldest first.                 *)
(***************************************************************************)
EXTENDS Naturals, FiniteSets, PersistentMemory

CONSTANTS nr_threads,      \* all threads of the application call checkpoint
          nr_blocks,
          Values,          \* what the application stores in a block
          Junk,            \* content of a new image; it may be stored, too
          NoBlock,         \* an entry of the log that was never written
          kMaxFlushBlocks, \* capacity of a thread's list of blocks
          kBitWidth,       \* bits in a word of a bit set
          kSegmentLocks,   \* number of locks
          log_capacity,    \* in entries
          Ranges,          \* sets of blocks one store may touch
          MaxRuns          \* bound: runs of the process that store

ASSUME UndoLogAssumption ==
  /\ nr_threads \in Nat \ {0}
  /\ nr_blocks \in Nat \ {0}
  /\ NoBlock \notin Nat
  /\ kMaxFlushBlocks \in Nat \ {0}
  /\ kBitWidth \in Nat \ {0}
  /\ kSegmentLocks \in Nat \ {0}
  /\ log_capacity \in Nat \ {0}
  /\ Ranges \subseteq (SUBSET (0 .. (nr_blocks - 1))) \ {{}}
  /\ MaxRuns \in Nat \ {0}

Threads   == 0 .. (nr_threads - 1)  \* by ThreadInfo: the owner of bucket t
Blocks    == 0 .. (nr_blocks - 1)
Contents  == Values \cup {Junk}
Entries   == 0 .. (log_capacity - 1)
LockOf(b) == b % kSegmentLocks

VARIABLES
  \* on the medium, and as loads see them
  attributes,
  header_head, header_head_pm,     \* header->log_head, in entries
  entry_block, entry_block_pm,     \* the first line of an entry
  entry_data, entry_data_pm,       \* its payload
  data, data_pm,
  \* in DRAM
  log_head,        \* end of the log, including entries being written
  block_dirty, segment_locks, flush_blocks, flush_mode,
  pc, range, pending,
  slot,            \* entry a thread is writing
  tid,             \* its thread id in the current checkpoint
  next_thread_id,
  phase,
  runs,            \* runs of the process so far, capped
  \* history: what the application stored, its value at the last commit, and
  \* whether a store has begun while a thread was clearing bits
  app, snap, overtaken

headVars   == <<header_head, header_head_pm>>
logVars    == <<entry_block, entry_block_pm, entry_data, entry_data_pm>>
dataVars   == <<data, data_pm>>
hookVars   == <<log_head, block_dirty, segment_locks, flush_blocks>>
threadVars == <<pc, range, pending, slot, tid, next_thread_id>>
vars == <<attributes, headVars, logVars, dataVars, hookVars, flush_mode, threadVars,
          phase, runs, app, snap, overtaken>>

Goto(t, l) == pc' = [pc EXCEPT ![t] = l]

\* Open with create.
Init ==
  /\ attributes = FALSE
  /\ header_head = 0 /\ header_head_pm = {0}
  /\ entry_block = [i \in Entries |-> NoBlock] /\ entry_block_pm = Settled(entry_block)
  /\ entry_data = [i \in Entries |-> Junk] /\ entry_data_pm = Settled(entry_data)
  /\ data = [b \in Blocks |-> Junk] /\ data_pm = Settled(data)
  /\ log_head = 0
  /\ block_dirty = {}
  /\ segment_locks = {}
  /\ flush_blocks = [t \in Threads |-> {}]
  /\ flush_mode = "NO_ACTION"
  /\ pc = [t \in Threads |-> "app"]
  /\ range = [t \in Threads |-> {}]
  /\ pending = [t \in Threads |-> {}]
  /\ slot = [t \in Threads |-> 0]
  /\ tid = [t \in Threads |-> 0]
  /\ next_thread_id = 0
  /\ phase = "run"
  /\ runs = 1
  /\ app = data /\ snap = data
  /\ overtaken = FALSE

-----------------------------------------------------------------------------
(* A store and its hook.                                                   *)

\* An instrumented store begins: the hook will visit its blocks in order.
BeginStore(t) ==
  /\ pc[t] = "app" /\ runs <= MaxRuns
  /\ \E R \in Ranges : /\ range' = [range EXCEPT ![t] = R]
                       /\ pending' = [pending EXCEPT ![t] = R]
  /\ overtaken' = (overtaken \/ \E u \in Threads : pc[u] = "clear")
  /\ Goto(t, "hook")
  /\ UNCHANGED <<attributes, headVars, logVars, dataVars, hookVars, flush_mode, slot,
                 tid, next_thread_id, phase, runs, app, snap>>

\* The block hook_routine of thread t is called for.
Visits(t, b) == b \in pending[t] /\ \A d \in pending[t] : b <= d

\* hook_routine: the block is logged already (the test without the lock, or
\* the one under it).
HookDirty(t) ==
  /\ pc[t] = "hook"
  /\ \E b \in pending[t] : /\ Visits(t, b) /\ b \in block_dirty
                           /\ pending' = [pending EXCEPT ![t] = @ \ {b}]
  /\ UNCHANGED <<attributes, headVars, logVars, dataVars, hookVars, flush_mode, pc,
                 range, slot, tid, next_thread_id, phase, runs, app, snap, overtaken>>

\* Mutant: an entry that ends beyond the log is let through.
OffByTwo(i) == i < log_capacity + 1
\* The check against the capacity: an entry must end before it.
HasRoom(i) == i + 1 < log_capacity

\* A place in the log is reserved and the entry written, not yet fenced.
HookLog(t) ==
  /\ pc[t] = "hook" /\ HasRoom(log_head)
  /\ \E b \in pending[t] :
       /\ Visits(t, b) /\ b \notin block_dirty
       /\ LockOf(b) \notin segment_locks
       /\ segment_locks' = segment_locks \cup {LockOf(b)}
       /\ entry_block' = [entry_block EXCEPT ![log_head] = b]
       /\ entry_data' = [entry_data EXCEPT ![log_head] = data[b]]
  /\ entry_block_pm' = Put(entry_block_pm, {log_head}, entry_block')
  /\ entry_data_pm' = Put(entry_data_pm, {log_head}, entry_data')
  /\ slot' = [slot EXCEPT ![t] = log_head]
  /\ log_head' = log_head + 1
  /\ Goto(t, "logged")
  /\ UNCHANGED <<attributes, headVars, dataVars, block_dirty, flush_blocks, flush_mode,
                 range, pending, tid, next_thread_id, phase, runs, app, snap, overtaken>>

\* Mutant: the head is moved without waiting for the entries before this one.
OutOfTurn(t) == TRUE
\* The compare-and-swap succeeds for the thread whose turn it is.
InTurn(t) == header_head = slot[t]

\* The fence after the entry, and the new head, not yet flushed.
HookAppend(t) ==
  /\ pc[t] = "logged" /\ InTurn(t)
  /\ entry_block_pm' = Settle(entry_block_pm, {slot[t]}, entry_block)
  /\ entry_data_pm' = Settle(entry_data_pm, {slot[t]}, entry_data)
  /\ header_head' = slot[t] + 1
  /\ header_head_pm' = header_head_pm \cup {header_head'}
  /\ Goto(t, "appended")
  /\ UNCHANGED <<attributes, entry_block, entry_data, dataVars, hookVars, flush_mode,
                 range, pending, slot, tid, next_thread_id, phase, runs, app, snap,
                 overtaken>>

\* Flush and fence of the head; the block's bit, the lock, and the list.
HookDone(t) ==
  /\ pc[t] = "appended"
  /\ header_head_pm' = {header_head}
  /\ LET b == entry_block[slot[t]]
     IN /\ block_dirty' = block_dirty \cup {b}
        /\ segment_locks' = segment_locks \ {LockOf(b)}
        /\ flush_blocks' = [flush_blocks EXCEPT
                              ![t] = IF Cardinality(@) # kMaxFlushBlocks
                                     THEN @ \cup {b} ELSE @]
        /\ pending' = [pending EXCEPT ![t] = @ \ {b}]
  /\ slot' = [slot EXCEPT ![t] = 0]
  /\ Goto(t, "hook")
  /\ UNCHANGED <<attributes, header_head, logVars, dataVars, log_head, flush_mode,
                 range, tid, next_thread_id, phase, runs, app, snap, overtaken>>

\* The store itself.
FinishStore(t) ==
  /\ pc[t] = "hook" /\ pending[t] = {}
  /\ \E v \in Values : LET val == [b \in Blocks |-> v]
                       IN /\ data' = Write(data, range[t], val)
                          /\ data_pm' = Put(data_pm, range[t], val)
                          /\ app' = Write(app, range[t], val)
  /\ range' = [range EXCEPT ![t] = {}]
  /\ Goto(t, "app")
  /\ UNCHANGED <<attributes, headVars, logVars, hookVars, flush_mode, pending, slot,
                 tid, next_thread_id, phase, runs, snap, overtaken>>

-----------------------------------------------------------------------------
(* checkpoint, called by all threads; CheckpointBarrier is about how they  *)
(* keep together.  The work after the last barrier is not followed by      *)
(* another one: the latch holds a thread until the leader is done, not     *)
(* until the others are.                                                   *)

\* A thread id is drawn.
CheckpointEnter(t) ==
  /\ phase = "run" /\ pc[t] = "app"
  /\ tid' = [tid EXCEPT ![t] = next_thread_id]
  /\ next_thread_id' = next_thread_id + 1
  /\ Goto(t, "ckpt")
  /\ UNCHANGED <<attributes, headVars, logVars, dataVars, hookVars, flush_mode, range,
                 pending, slot, phase, runs, app, snap, overtaken>>

Mode == CASE \A t \in Threads : flush_blocks[t] = {} -> "NO_ACTION"
          [] \E t \in Threads : Cardinality(flush_blocks[t]) = kMaxFlushBlocks
               -> "WBINVD"
          [] OTHER -> "USE_FLUSH_BLOCKS"

\* The leader chooses how to flush; with nothing listed all return at once.
CheckpointBegin ==
  /\ phase = "run" /\ \A t \in Threads : pc[t] = "ckpt"
  /\ flush_mode' = Mode
  /\ \/ /\ Mode = "NO_ACTION"
        /\ next_thread_id' = 0
        /\ pc' = [t \in Threads |-> "app"]
        /\ UNCHANGED phase
     \/ /\ Mode # "NO_ACTION"
        /\ phase' = "flush"
        /\ UNCHANGED <<pc, next_thread_id>>
  /\ UNCHANGED <<attributes, headVars, logVars, dataVars, hookVars, range, pending,
                 slot, tid, runs, app, snap, overtaken>>

Listed == UNION {flush_blocks[t] : t \in Threads}

\* Mutant: the listed blocks are not flushed.
FlushNothing == {}
\* flush_parallel: the listed blocks, or the whole cache.
Flushed == IF flush_mode = "WBINVD" THEN Blocks ELSE Listed

FlushParallel ==
  /\ phase = "flush"
  /\ data_pm' = Settle(data_pm, Flushed, data)
  /\ phase' = "clear"
  /\ pc' = [t \in Threads |-> "clear"]
  /\ UNCHANGED <<attributes, headVars, logVars, data, hookVars, flush_mode, range,
                 pending, slot, tid, next_thread_id, runs, app, snap, overtaken>>

\* Blocks whose bits thread id i clears: whole words, in turn with the others,
\* or the words of the blocks in its bucket.
Cleared(i) ==
  {b \in Blocks :
     IF flush_mode = "WBINVD"
     THEN (b \div kBitWidth) % nr_threads = i
     ELSE \E d \in flush_blocks[i] : b \div kBitWidth = d \div kBitWidth}

\* clear_dirty_bits_parallel of thread t.  Its bucket is the one with the
\* number of its id, which is another thread's list as often as not.
ClearDirtyBits(t) ==
  /\ pc[t] = "clear"
  /\ block_dirty' = block_dirty \ Cleared(tid[t])
  /\ flush_blocks' = [flush_blocks EXCEPT ![tid[t]] = {}]
  /\ Goto(t, IF tid[t] = 0 THEN "reset" ELSE IF phase = "clear" THEN "latch" ELSE "app")
  /\ UNCHANGED <<attributes, headVars, logVars, dataVars, log_head, segment_locks,
                 flush_mode, range, pending, slot, tid, next_thread_id, phase, runs, app,
                 snap, overtaken>>

\* The leader's two non-temporal stores share a fence, so they may reach the
\* medium in either order: the attribute,
SetAttributes(t) ==
  /\ pc[t] = "reset" /\ ~attributes
  /\ attributes' = TRUE
  /\ UNCHANGED <<headVars, logVars, dataVars, hookVars, flush_mode, threadVars, phase,
                 runs, app, snap, overtaken>>

\* ... and the empty log, with which the checkpoint takes effect.
ResetLogHead(t) ==
  /\ pc[t] = "reset" /\ header_head # 0
  /\ header_head' = 0 /\ header_head_pm' = {0}
  /\ snap' = app
  /\ UNCHANGED <<attributes, logVars, dataVars, hookVars, flush_mode, threadVars,
                 phase, runs, app, overtaken>>

\* Mutant: the log in DRAM is not reset.
HeadKept(t) ==
  /\ pc[t] = "reset" /\ attributes /\ header_head = 0
  /\ next_thread_id' = 0
  /\ phase' = "run"
  /\ pc' = [u \in Threads |-> IF u = t \/ pc[u] = "latch" THEN "app" ELSE pc[u]]
  /\ UNCHANGED <<attributes, headVars, logVars, dataVars, hookVars, flush_mode,
                 range, pending, slot, tid, runs, app, snap, overtaken>>

\* After the fence: the log in DRAM, and the latch, which lets the leader go
\* and every other thread that has come to it.
LatchAdd(t) ==
  /\ pc[t] = "reset" /\ attributes /\ header_head = 0
  /\ log_head' = 0
  /\ next_thread_id' = 0
  /\ phase' = "run"
  /\ pc' = [u \in Threads |-> IF u = t \/ pc[u] = "latch" THEN "app" ELSE pc[u]]
  /\ UNCHANGED <<attributes, headVars, logVars, dataVars, block_dirty, segment_locks,
                 flush_blocks, flush_mode, range, pending, slot, tid, runs, app, snap,
                 overtaken>>

-----------------------------------------------------------------------------
(* Crash and recovery.                                                     *)

\* What recover makes of the data d: the entries below head are copied back in
\* order, so for a block logged twice the later entry wins.
RolledBack(d, blocks, payload, head) ==
  [b \in Blocks |->
     LET logged == {i \in 0 .. (head - 1) : blocks[i] = b}
     IN IF logged = {} THEN d[b]
        ELSE payload[CHOOSE i \in logged : \A j \in logged : j <= i]]

\* The process dies.
Die ==
  /\ \E d \in Resolve(data_pm, Contents), e \in Resolve(entry_data_pm, Contents),
        k \in Resolve(entry_block_pm, Blocks \cup {NoBlock}), h \in header_head_pm :
       /\ data' = d /\ data_pm' = Settled(d)
       /\ entry_data' = e /\ entry_data_pm' = Settled(e)
       /\ entry_block' = k /\ entry_block_pm' = Settled(k)
       /\ header_head' = h /\ header_head_pm' = {h}
  /\ app' = snap
  /\ log_head' = 0
  /\ block_dirty' = {}
  /\ segment_locks' = {}
  /\ flush_blocks' = [t \in Threads |-> {}]
  /\ flush_mode' = "NO_ACTION"
  /\ pc' = [t \in Threads |-> "down"]
  /\ range' = [t \in Threads |-> {}]
  /\ pending' = [t \in Threads |-> {}]
  /\ slot' = [t \in Threads |-> 0]
  /\ tid' = [t \in Threads |-> 0]
  /\ next_thread_id' = 0
  /\ phase' = "recover"
  /\ runs' = IF runs <= MaxRuns THEN runs + 1 ELSE runs
  /\ UNCHANGED <<attributes, snap, overtaken>>

Crash == Die

\* hook_routine finds no room in the log and calls exit.
OutOfLog(t) ==
  /\ pc[t] = "hook" /\ ~HasRoom(log_head)
  /\ \E b \in pending[t] : /\ Visits(t, b) /\ b \notin block_dirty
                           /\ LockOf(b) \notin segment_locks
  /\ Die

\* recover: the copies, not yet fenced.
RecoverCopy ==
  /\ phase = "recover"
  /\ data' = RolledBack(data, entry_block, entry_data, header_head)
  /\ data_pm' = Put(data_pm, Blocks, data')
  /\ phase' = "recovered"
  /\ UNCHANGED <<attributes, headVars, logVars, hookVars, flush_mode, threadVars, runs,
                 app, snap, overtaken>>

\* ... fenced; the log is empty, and Open returns.
RecoverDone ==
  /\ phase = "recovered"
  /\ data_pm' = Settled(data)
  /\ header_head' = 0 /\ header_head_pm' = {0}
  /\ pc' = [t \in Threads |-> "app"]
  /\ phase' = "run"
  /\ UNCHANGED <<attributes, logVars, data, hookVars, flush_mode, range, pending, slot,
                 tid, next_thread_id, runs, app, snap, overtaken>>

-----------------------------------------------------------------------------
Hook(t) == HookDirty(t) \/ HookLog(t) \/ HookAppend(t) \/ HookDone(t)

Leader(t) == SetAttributes(t) \/ ResetLogHead(t) \/ LatchAdd(t)

Next == \/ \E t \in Threads : \/ BeginStore(t) \/ Hook(t) \/ FinishStore(t)
                              \/ OutOfLog(t)
                              \/ CheckpointEnter(t) \/ ClearDirtyBits(t) \/ Leader(t)
        \/ CheckpointBegin \/ FlushParallel
        \/ Crash \/ RecoverCopy \/ RecoverDone

Spec == Init /\ [][Next]_vars

-----------------------------------------------------------------------------
(* Properties.                                                             *)

\* The variables have the types of the fields and locals they model.
TypeOK ==
  /\ attributes \in BOOLEAN
  /\ header_head \in 0 .. (log_capacity - 1)
  /\ header_head_pm \in (SUBSET (0 .. (log_capacity - 1))) \ {{}}
  /\ entry_block \in [Entries -> Blocks \cup {NoBlock}]
  /\ entry_block_pm \in [Entries -> (SUBSET (Blocks \cup {NoBlock})) \ {{}}]
  /\ entry_data \in [Entries -> Contents]
  /\ entry_data_pm \in [Entries -> (SUBSET Contents) \ {{}}]
  /\ data \in [Blocks -> Contents]
  /\ data_pm \in [Blocks -> (SUBSET Contents) \ {{}}]
  /\ log_head \in 0 .. (log_capacity - 1)
  /\ block_dirty \subseteq Blocks
  /\ segment_locks \subseteq 0 .. (kSegmentLocks - 1)
  /\ flush_blocks \in [Threads -> SUBSET Blocks]
  /\ flush_mode \in {"NO_ACTION", "WBINVD", "USE_FLUSH_BLOCKS"}
  /\ pc \in [Threads -> {"app", "hook", "logged", "appended", "ckpt", "clear", "latch",
                         "reset", "down"}]
  /\ range \in [Threads -> SUBSET Blocks]
  /\ pending \in [Threads -> SUBSET Blocks]
  /\ slot \in [Threads -> Entries]
  /\ tid \in [Threads -> Threads]
  /\ next_thread_id \in 0 .. nr_threads
  /\ phase \in {"run", "flush", "clear", "recover", "recovered"}
  /\ runs \in 1 .. (MaxRuns + 1)
  /\ app \in [Blocks -> Contents]
  /\ snap \in [Blocks -> Contents]
  /\ overtaken \in BOOLEAN

\* What a recovery started now may find in block b if the head is found so.
Recoverable(b, head) ==
  LET logged == {i \in 0 .. (head - 1) : entry_block[i] = b}
  IN IF logged = {} THEN data_pm[b]
     ELSE entry_data_pm[CHOOSE i \in logged : \A j \in logged : j <= i]

\* Crash consistency: a crash at any step of any thread leaves data and a log
\* from which recover restores the last checkpoint, in all blocks.
RecoverySafe ==
  \A b \in Blocks : \A head \in header_head_pm : Recoverable(b, head) = {snap[b]}

\* ... which holds as long as no thread has begun a store of the next epoch
\* before all threads were through with clear_dirty_bits_parallel.
SafeUnlessOvertaken == overtaken \/ RecoverySafe

\* Wherever the head is found after a crash, every entry below it was written
\* completely before: recover never meets a broken one, whatever the order in
\* which the threads wrote theirs.
LogComplete ==
  \A head \in header_head_pm : \A i \in 0 .. (head - 1) :
    entry_block_pm[i] = {entry_block[i]} /\ entry_block[i] # NoBlock

\* No thread waits in vain for its turn to move the head, which it does under a
\* segment lock: every place reserved but not yet below the head belongs to a
\* thread that will move the head past it.  (While the leader empties the log
\* the two heads differ, and no thread waits.)
TurnHeld ==
  (\A t \in Threads : pc[t] # "reset") =>
    \A i \in header_head .. (log_head - 1) :
      \E t \in Threads : pc[t] = "logged" /\ slot[t] = i
=============================================================================
