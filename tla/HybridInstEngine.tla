-------------------------- MODULE HybridInstEngine --------------------------
(***************************************************************************)
(* The engine of the MPI build (hybrid_inst_engine.cpp).  The application  *)
(* works in DRAM.  A checkpoint, called by all threads, copies the dirty   *)
(* blocks to one side of the image, the back segments in odd epochs of the *)
(* engine and the main segments in even ones, and commits that side; the   *)
(* other side receives them at once (few blocks) or at the beginning of    *)
(* the next checkpoint (many blocks, and always under MPI).  Therefore the *)
(* bit sets of dirty blocks and segments exist twice, one per epoch.       *)
(***************************************************************************)
EXTENDS CheckpointImage

CONSTANTS nr_threads,      \* threads that call checkpoint
          kMaxFlushBlocks, \* blocks the lists may hold together
          Ranges           \* sets of blocks one store of a thread may touch

Threads == 0 .. (nr_threads - 1)   \* in a checkpoint, by the id they drew

ASSUME HybridAssumption ==
  /\ nr_threads \in Nat \ {0}
  /\ kMaxFlushBlocks \in Nat \ {0}
  /\ \A t \in Threads : Ranges[t] \subseteq (SUBSET Blocks) \ {{}}

VARIABLES
  working_memory,                 \* the memory of the application, in DRAM
  address_buffer,                 \* stored to, not yet given to hook_routine
  flush_blocks,                   \* blocks listed, per thread
  block_dirty, segment_dirty,     \* the bit sets, per epoch
  epoch, flush_mode,
  next_back_segment,              \* where the search for a back segment starts
  mpi,                            \* the process calls checkpoint_for_mpi
  pc, phase,                      \* where the threads and the checkpoint are
  todo, target, back_id,          \* blocks a thread has to copy; the segment it
                                  \* allocates a back segment for or brings up
                                  \* to date, and in which back segment
  snap,                           \* history: the memory at the last commit,
  broken                          \* and what made the engine lose it

stateVars == <<committed_epoch, segment_state, segment_state_pm, segment_state_dirty>>
bindVars  == <<back_to_main, main_to_back, next_back_segment>>
dataVars  == <<main, main_pm, back, back_pm>>
hookVars  == <<working_memory, address_buffer, flush_blocks, block_dirty, segment_dirty>>
modeVars  == <<epoch, flush_mode, mpi>>
pcVars    == <<pc, phase, todo, target, back_id>>
vars == <<stateVars, attributes, bindVars, dataVars, hookVars, modeVars, pcVars,
          snap, broken>>

Modes == {"NO_ACTION", "USE_FLUSH_BLOCKS", "WBINVD"}

All(l)     == [t \in Threads |-> l]
Goto(t, l) == pc' = [pc EXCEPT ![t] = l]

\* Bound: a process that has lost its checkpoint neither stores nor crashes.
Followed == broken = {}

-----------------------------------------------------------------------------
\* flush_mode is not initialised; what counts is whether it is "WBINVD".
Unset == {"NO_ACTION", "WBINVD"}

\* The DRAM of a process that has created the pool.
Init ==
  /\ ImageInit
  /\ working_memory = [b \in Blocks |-> Junk]
  /\ address_buffer = All({})
  /\ flush_blocks = All({})
  /\ block_dirty = [e \in 0 .. 1 |-> {}]
  /\ segment_dirty = [e \in 0 .. 1 |-> {}]
  /\ epoch = 1
  /\ flush_mode \in Unset
  /\ next_back_segment = 0
  /\ mpi \in BOOLEAN
  /\ pc = All("app")
  /\ phase = "run"
  /\ todo = All({})
  /\ target = All(Null)
  /\ back_id = All(Null)
  /\ snap = [b \in Blocks |-> Junk]
  /\ broken = {}

-----------------------------------------------------------------------------
(* The hooks of a store.                                                   *)

\* hook_routine of thread t for the blocks B: those whose bit is clear are
\* marked, with their segments, and listed while there is room.
hook_routine(t, B) ==
  LET fresh == B \ block_dirty[epoch]
      room  == kMaxFlushBlocks - Cardinality(flush_blocks[t])
  IN /\ block_dirty' = [block_dirty EXCEPT ![epoch] = @ \cup fresh]
     /\ segment_dirty' = [segment_dirty EXCEPT ![epoch] = @ \cup {b[1] : b \in fresh}]
     /\ \E listed \in SUBSET fresh :
          /\ Cardinality(listed) <= room
          /\ listed = fresh \/ Cardinality(listed) = room
          /\ flush_blocks' = [flush_blocks EXCEPT ![t] = @ \cup listed]

\* A store.  Within one block it only notes the address; the buffer is emptied
\* when it is full, after any store (it counts repeated addresses, which the
\* set does not).  A larger range goes to hook_routine at once.
Store(t) ==
  /\ phase = "run" /\ pc[t] = "app" /\ Followed
  /\ \E R \in Ranges[t], v \in Values :
       /\ working_memory' = [b \in Blocks |-> IF b \in R THEN v ELSE working_memory[b]]
       /\ \/ /\ Cardinality(R) = 1
             /\ address_buffer' = [address_buffer EXCEPT ![t] = @ \cup R]
             /\ UNCHANGED <<flush_blocks, block_dirty, segment_dirty>>
          \/ /\ Cardinality(R) = 1
             /\ hook_routine(t, address_buffer[t] \cup R)
             /\ address_buffer' = [address_buffer EXCEPT ![t] = {}]
          \/ /\ Cardinality(R) > 1
             /\ hook_routine(t, R)
             /\ UNCHANGED address_buffer
  /\ UNCHANGED <<stateVars, attributes, bindVars, dataVars, modeVars, pcVars,
                 snap, broken>>

-----------------------------------------------------------------------------
(* checkpoint and checkpoint_for_mpi.                                      *)

Total(lists) == Cardinality({e \in Threads \X Blocks : e[2] \in lists[e[1]]})

\* Mutant: a single block is not worth a checkpoint.
IgnoresOne(lists) == CASE Total(lists) <= 1              -> "NO_ACTION"
                       [] Total(lists) >= kMaxFlushBlocks -> "WBINVD"
                       [] OTHER                           -> "USE_FLUSH_BLOCKS"

\* determine_flush_mode
Mode(lists) == CASE Total(lists) = 0               -> "NO_ACTION"
                 [] Total(lists) >= kMaxFlushBlocks -> "WBINVD"
                 [] OTHER                           -> "USE_FLUSH_BLOCKS"

\* Blocks of the segments that thread t takes in a whole-cache checkpoint.
SegmentShare(t) == {b \in Blocks : b[1] % nr_threads = t}

\* The side this checkpoint commits, and the one it is writing to now.
NewSide == IF epoch = 1 THEN "Back" ELSE "Main"
Side    == IF (phase = "first") = (epoch = 1) THEN "Back" ELSE "Main"

\* Blocks apply_dram_to_back_parallel and apply_dram_to_main_parallel copy in
\* thread t: of its segments, or of its lists (all by the leader, to back).
Share(t, side) ==
  CASE flush_mode = "WBINVD" -> block_dirty[epoch] \cap SegmentShare(t)
    [] flush_mode # "WBINVD" /\ side = "Main" -> flush_blocks[t]
    [] flush_mode # "WBINVD" /\ side = "Back" ->
         IF t = 0 THEN UNION {flush_blocks[u] : u \in Threads} ELSE {}

\* prev_flush_mode (flush_mode has not been set yet) or MPI says that one side
\* lacks the blocks of the last checkpoint.
NeedsSync == mpi \/ flush_mode = "WBINVD"

\* The addresses address_buffer_clear_all gives to hook_routine.
Buffered == UNION {address_buffer[t] : t \in Threads}

\* All threads have called checkpoint (one that waits for the others stores
\* nothing): the leader drains the buffers and chooses the mode.
CheckpointBegin ==
  /\ phase = "run"
  /\ UNCHANGED epoch
  /\ hook_routine(0, Buffered)
  /\ address_buffer' = All({})
  /\ flush_mode' = Mode(flush_blocks')
  /\ \/ /\ flush_mode' = "NO_ACTION"
        /\ broken' = IF flush_mode = "WBINVD" /\ ~mpi /\ block_dirty[1 - epoch] # {}
                     THEN broken \cup {"idle"} ELSE broken
        /\ UNCHANGED <<pc, phase, todo>>
     \/ /\ flush_mode' # "NO_ACTION"
        /\ phase' = "first"
        /\ \/ /\ NeedsSync
              /\ pc' = All("sync")
              /\ todo' = [t \in Threads |->
                    (block_dirty[1 - epoch] \ block_dirty'[epoch]) \cap SegmentShare(t)]
           \/ /\ ~NeedsSync
              /\ pc' = All("apply")
              /\ todo' = [t \in Threads |-> Share(t, NewSide)']
        /\ UNCHANGED broken
  /\ UNCHANGED <<stateVars, attributes, bindVars, dataVars, working_memory, mpi,
                 target, back_id, snap>>

BackOf(B) == {BackBlock(b[1], b) : b \in B}
FromWork  == [d \in BackBlocks |-> working_memory[<<back_to_main[d[1]], d[2]>>]]

\* Non-temporal copies of the blocks B from working memory to a side.
CopyOut(side, B) ==
  \/ /\ side = "Main"
     /\ main' = Write(main, B, working_memory)
     /\ main_pm' = Put(main_pm, B, working_memory)
     /\ UNCHANGED <<back, back_pm>>
  \/ /\ side = "Back"
     /\ back' = Write(back, BackOf(B), FromWork)
     /\ back_pm' = Put(back_pm, BackOf(B), FromWork)
     /\ UNCHANGED <<main, main_pm>>

\* apply_nvm_to_nvm_parallel: the blocks of the last epoch that are not dirty
\* again go to this side too.  For each of its segments a thread reads which
\* back segment it has,
SyncSegment(t) ==
  /\ pc[t] = "sync" /\ back_id[t] = Null
  /\ \E s \in {b[1] : b \in todo[t]} :
       \/ /\ main_to_back[s] = Null
          /\ todo' = [todo EXCEPT ![t] = @ \ BlocksOf(s)]
          /\ UNCHANGED <<target, back_id>>
       \/ /\ main_to_back[s] # Null
          /\ target' = [target EXCEPT ![t] = s]
          /\ back_id' = [back_id EXCEPT ![t] = main_to_back[s]]
          /\ UNCHANGED todo
  /\ UNCHANGED <<stateVars, attributes, bindVars, dataVars, hookVars, modeVars, pc,
                 phase, snap, broken>>

\* The blocks B of segment s, on the way to the back segment c.
Into(c, B)     == {<<c, b[2]>> : b \in B}
FromSegment(s) == [d \in BackBlocks |-> working_memory[<<s, d[2]>>]]

\* ... and copies to it; another thread that is past its own sync may have given
\* that back segment to another segment, and filled it, in between.
SyncCopy(t) ==
  LET s == target[t]
      B == todo[t] \cap BlocksOf(s)
  IN /\ pc[t] = "sync" /\ back_id[t] # Null
     /\ \/ /\ NewSide = "Main"
           /\ CopyOut("Main", B)
        \/ /\ NewSide = "Back"
           /\ back' = Write(back, Into(back_id[t], B), FromSegment(s))
           /\ back_pm' = Put(back_pm, Into(back_id[t], B), FromSegment(s))
           /\ UNCHANGED <<main, main_pm>>
     /\ todo' = [todo EXCEPT ![t] = @ \ B]
     /\ target' = [target EXCEPT ![t] = Null]
     /\ back_id' = [back_id EXCEPT ![t] = Null]
     /\ broken' = IF main_to_back[s] = back_id[t] THEN broken ELSE broken \cup {"stale"}
     /\ UNCHANGED <<stateVars, attributes, bindVars, hookVars, modeVars, pc, phase, snap>>

\* After the last one it goes on to the blocks of this checkpoint; no barrier
\* keeps it from doing so before the others.
SyncEnd(t) ==
  /\ pc[t] = "sync" /\ back_id[t] = Null /\ todo[t] = {}
  /\ todo' = [todo EXCEPT ![t] = Share(t, NewSide)]
  /\ Goto(t, "apply")
  /\ UNCHANGED <<stateVars, attributes, bindVars, dataVars, hookVars, modeVars, phase,
                 target, back_id, snap, broken>>

\* The segment must get a back segment before it is written.
NeedsBack(s) == main_to_back[s] = Null /\ (Side = "Back" \/ StateOf(s) = "Main")

Direct(t) == {b \in todo[t] : ~NeedsBack(b[1])}

\* Where the copy destroys the checkpoint: a segment without a back segment,
\* and one that has one but whose state names the side written to.
Harm(b) == CASE main_to_back[b[1]] = Null /\ StateOf(b[1]) = "Back" -> {"steal"}
             [] main_to_back[b[1]] # Null /\ StateOf(b[1]) = Side   -> {"overwrite"}
             [] OTHER -> {}

\* The blocks of the thread's share that need none are copied, and with the
\* last of them the thread waits at the barrier.
Apply(t) ==
  /\ pc[t] = "apply" /\ (Direct(t) # {} \/ todo[t] = {})
  /\ Goto(t, IF todo[t] = Direct(t) THEN "barrier" ELSE "apply")
  /\ CopyOut(Side, Direct(t))
  /\ todo' = [todo EXCEPT ![t] = @ \ Direct(t)]
  /\ broken' = broken \cup UNION {Harm(b) : b \in Direct(t)}
  /\ UNCHANGED <<stateVars, attributes, bindVars, hookVars, modeVars, phase,
                 target, back_id, snap>>

\* find_back_segment: main_to_back is tested without the lock.
FindBackSegment(t) ==
  /\ pc[t] = "apply" /\ Direct(t) = {}
  /\ \E b \in todo[t] : target' = [target EXCEPT ![t] = b[1]]
  /\ Goto(t, "alloc")
  /\ UNCHANGED <<stateVars, attributes, bindVars, dataVars, hookVars, modeVars, phase,
                 todo, back_id, snap, broken>>

advance_next_back_segment(c) == (c + 1) % nr_back_segments

Candidate(n) == (next_back_segment + n) % nr_back_segments
Stealable(n) == back_to_main[Candidate(n)] \notin segment_dirty[epoch]

\* allocate_back_segment: the first back segment whose owner is not dirty.
AllocateBackSegment(t) ==
  LET s == target[t]
  IN /\ pc[t] = "alloc"
     /\ \E n \in BackSegments :
          /\ Stealable(n) /\ \A m \in 0 .. (n - 1) : ~Stealable(m)
          /\ bind_back_segment(s, Candidate(n))
          /\ next_back_segment' = advance_next_back_segment(Candidate(n))
     /\ broken' = IF Side = "Main" \/ StateOf(s) = "Back" \/ main_to_back[s] # Null
                  THEN broken \cup {"steal"} ELSE broken
     /\ Goto(t, "created")
     /\ UNCHANGED <<stateVars, attributes, dataVars, hookVars, modeVars, phase, todo,
                    target, back_id, snap>>

\* A new back segment on the way to the back: it receives the whole segment,
\* unless that has no checkpoint yet and the dirty blocks are enough.
FillBack(t) ==
  LET s == target[t]
  IN /\ pc[t] = "created" /\ Side = "Back"
     /\ \/ /\ StateOf(s) # "Initial"
           /\ CopyOut("Back", BlocksOf(s))
           /\ todo' = [todo EXCEPT ![t] = @ \ BlocksOf(s)]
        \/ /\ StateOf(s) = "Initial"
           /\ UNCHANGED <<dataVars, todo>>
     /\ target' = [target EXCEPT ![t] = Null]
     /\ Goto(t, "apply")
     /\ UNCHANGED <<stateVars, attributes, bindVars, hookVars, modeVars, phase, back_id,
                    snap, broken>>

\* A new back segment on the way to the main segment: the code copies it over
\* the main segment, and set_segment_state_atomic says Back in both slots.
FillMain(t) ==
  LET s   == target[t]
      old == [b \in Blocks |-> IF b[1] = s THEN back[BackBlock(s, b)] ELSE main[b]]
  IN /\ pc[t] = "created" /\ Side = "Main"
     /\ main' = old
     /\ main_pm' = Put(main_pm, BlocksOf(s), old)
     /\ segment_state' = [e \in 0 .. 1 |-> [segment_state[e] EXCEPT ![s] = "Back"]]
     /\ segment_state_pm' = [e \in 0 .. 1 |-> [segment_state_pm[e] EXCEPT
                               ![s] = @ \cup {"Back"}]]
     /\ target' = [target EXCEPT ![t] = Null]
     /\ Goto(t, "apply")
     /\ UNCHANGED <<committed_epoch, segment_state_dirty, attributes, bindVars, back,
                    back_pm, hookVars, modeVars, phase, todo, back_id, snap, broken>>

\* Mutant: no fence before the barrier.
NoFence == UNCHANGED <<main_pm, back_pm, segment_state_pm>>

\* What the fences of all threads make certain.
Fenced ==
  /\ main_pm' = Settled(main)
  /\ back_pm' = Settled(back)
  /\ segment_state_pm' = StatesSettled

\* commit_layout_state: every segment dirty in this epoch or the last one gets
\* the new side, in the slot that does not count.
CommitLayoutState ==
  /\ phase = "first" /\ pc = All("barrier")
  /\ Fenced
  /\ phase' = "states"
  /\ UNCHANGED <<committed_epoch, segment_state, segment_state_dirty, attributes,
                 bindVars, main, back, hookVars, modeVars, pc, todo, target, back_id,
                 snap, broken>>

SetLayoutState ==
  /\ phase = "states"
  /\ set_segment_state(segment_dirty[0] \cup segment_dirty[1], NewSide)
  /\ phase' = "commit"
  /\ UNCHANGED <<committed_epoch, attributes, bindVars, dataVars, hookVars, modeVars,
                 pc, todo, target, back_id, snap, broken>>

\* commit_segment_state_update: the new epoch,
CommitLayoutEpoch ==
  /\ phase = "commit"
  /\ CommitEpoch
  /\ snap' = working_memory
  /\ phase' = "copy"
  /\ UNCHANGED <<attributes, bindVars, dataVars, hookVars, modeVars, pc, todo, target,
                 back_id, broken>>

\* Mutant: few blocks, and the other side is left behind without a sync.
AlwaysOneSided == TRUE

\* The other side waits for the next checkpoint.
OneSided == mpi \/ flush_mode = "WBINVD"

\* ... and the copy of the states to the other slot; then the other side, when
\* there were few blocks.
SyncLayoutStates ==
  /\ phase = "copy"
  /\ CopyStates
  /\ \/ /\ OneSided
        /\ phase' = "finish"
        /\ UNCHANGED <<pc, todo>>
     \/ /\ ~OneSided
        /\ phase' = "second"
        /\ pc' = All("apply")
        /\ todo' = [t \in Threads |-> Share(t, IF epoch = 1 THEN "Main" ELSE "Back")]
  /\ UNCHANGED <<attributes, bindVars, dataVars, hookVars, modeVars, target, back_id, snap,
                 broken>>

\* Its barrier.
EndSecond ==
  /\ phase = "second" /\ pc = All("barrier")
  /\ Fenced
  /\ phase' = "finish"
  /\ UNCHANGED <<committed_epoch, segment_state, segment_state_dirty, attributes,
                 bindVars, main, back, hookVars, modeVars, pc, todo, target, back_id,
                 snap, broken>>

\* clear_dirty_bits_last_epoch: the epoch whose bits go.
LastEpoch(e) == 1 - e

\* The leader ends the checkpoint: bits, attributes, lists and epoch.
CheckpointFinish ==
  /\ phase = "finish"
  /\ block_dirty' = [block_dirty EXCEPT ![LastEpoch(epoch)] = {}]
  /\ segment_dirty' = [segment_dirty EXCEPT ![LastEpoch(epoch)] = {}]
  /\ attributes' = TRUE
  /\ segment_state_pm' = IF attributes THEN segment_state_pm ELSE StatesSettled
  /\ flush_blocks' = All({})
  /\ epoch' = 1 - epoch
  /\ pc' = All("app")
  /\ phase' = "run"
  /\ UNCHANGED <<committed_epoch, segment_state, segment_state_dirty, bindVars,
                 dataVars, working_memory, address_buffer, flush_mode,
                 mpi, todo, target, back_id, snap, broken>>

-----------------------------------------------------------------------------
(* Crash and recovery.                                                     *)

\* The process dies: DRAM is lost, and with it the engine's own state.
Die ==
  /\ \E m \in Resolve(main_pm, Contents), k \in Resolve(back_pm, Contents),
        s0 \in Resolve(segment_state_pm[0], States),
        s1 \in Resolve(segment_state_pm[1], States) :
       /\ main' = m /\ main_pm' = Settled(m)
       /\ back' = k /\ back_pm' = Settled(k)
       /\ segment_state' = [e \in 0 .. 1 |-> IF e = 0 THEN s0 ELSE s1]
       /\ segment_state_pm' = [e \in 0 .. 1 |-> Settled(IF e = 0 THEN s0 ELSE s1)]
  /\ segment_state_dirty' = {}
  /\ main_to_back' = [s \in Segments |-> Null]
  /\ next_back_segment' = 0
  /\ working_memory' = [b \in Blocks |-> Junk]
  /\ address_buffer' = All({})
  /\ flush_blocks' = All({})
  /\ block_dirty' = [e \in 0 .. 1 |-> {}]
  /\ segment_dirty' = [e \in 0 .. 1 |-> {}]
  /\ epoch' = 1
  /\ flush_mode' \in Unset
  /\ pc' = All("app")
  /\ todo' = All({})
  /\ target' = All(Null)
  /\ back_id' = All(Null)
  /\ phase' = "open"
  /\ UNCHANGED <<committed_epoch, attributes, back_to_main, mpi, snap, broken>>

Crash == Followed /\ Die

\* find_back_segment finds no owner that is not dirty and calls exit.
AllocateFail(t) ==
  /\ pc[t] = "alloc"
  /\ \A n \in BackSegments : ~Stealable(n)
  /\ Die

\* Open of an existing image.
OpenImage ==
  /\ phase = "open"
  /\ main_to_back' = Rebuilt
  /\ phase' = "recover"
  /\ UNCHANGED <<stateVars, attributes, back_to_main, next_back_segment, dataVars,
                 hookVars, modeVars, pc, todo, target, back_id, snap, broken>>

Bound(state) == {s \in Segments : main_to_back[s] # Null /\ StateOf(s) = state}

\* recovery(SS_Main): the stale side of every bound segment is overwritten by
\* the other one.
RecoveryCopy ==
  LET B        == UNION {BlocksOf(s) : s \in Bound("Back")}
      toBack   == BackOf(UNION {BlocksOf(s) : s \in Bound("Main")})
      fromMain == [d \in BackBlocks |-> main[<<back_to_main[d[1]], d[2]>>]]
      fromBack == [b \in Blocks |-> IF b \in B THEN back[BackBlock(b[1], b)] ELSE main[b]]
  IN /\ phase = "recover"
     /\ back' = Write(back, toBack, fromMain) /\ back_pm' = Put(back_pm, toBack, fromMain)
     /\ main' = Write(main, B, fromBack)      /\ main_pm' = Put(main_pm, B, fromBack)
     /\ set_segment_state(Bound("Back"), "Main")
     /\ phase' = "recover_commit"
     /\ UNCHANGED <<committed_epoch, attributes, bindVars, hookVars, modeVars, pc, todo,
                    target, back_id, snap, broken>>

\* Its commit selects the other slot, where the last process may have left a
\* state that set_segment_state has not touched.
LeftOver(s) == segment_state[Inactive][s] #
               IF s \in Bound("Main") \cup Bound("Back") THEN "Main" ELSE StateOf(s)

RecoveryCommit ==
  /\ phase = "recover_commit"
  /\ CommitEpoch
  /\ main_pm' = Settled(main)
  /\ back_pm' = Settled(back)
  /\ broken' = IF \E s \in Segments : LeftOver(s)
               THEN broken \cup {"slot"} ELSE broken
  /\ phase' = "recover_copy"
  /\ UNCHANGED <<attributes, bindVars, main, back, hookVars, modeVars, pc, todo,
                 target, back_id, snap>>

\* Mutant: only segments with a back segment are loaded.
OnlyBound(s) == main_to_back[s] # Null

\* The segments prepare_working_memory copies to DRAM.
Loaded(s) == StateOf(s) # "Initial"

\* prepare_working_memory, and Open returns.
OpenDone ==
  /\ phase = "recover_copy"
  /\ CopyStates
  /\ working_memory' = [b \in Blocks |-> IF Loaded(b[1]) THEN main[b] ELSE Junk]
  /\ phase' = "run"
  /\ UNCHANGED <<attributes, bindVars, dataVars, address_buffer, flush_blocks,
                 block_dirty, segment_dirty, modeVars, pc, todo, target, back_id, snap, broken>>

-----------------------------------------------------------------------------
Section == \E t \in Threads : \/ SyncSegment(t) \/ SyncCopy(t) \/ SyncEnd(t)
                              \/ Apply(t) \/ FindBackSegment(t)
                              \/ AllocateBackSegment(t) \/ AllocateFail(t)
                              \/ FillBack(t) \/ FillMain(t)

Checkpoint == \/ CheckpointBegin \/ CommitLayoutState \/ SetLayoutState
              \/ CommitLayoutEpoch \/ SyncLayoutStates \/ EndSecond
              \/ CheckpointFinish

Recovery == OpenImage \/ RecoveryCopy \/ RecoveryCommit \/ OpenDone

Next == (\E t \in Threads : Store(t)) \/ Checkpoint \/ Section \/ Crash \/ Recovery

Spec == Init /\ [][Next]_vars

-----------------------------------------------------------------------------
(* Properties.                                                             *)

\* The variables have the types of the fields and locals they model.
TypeOK ==
  /\ ImageTypeOK
  /\ working_memory \in [Blocks -> Contents]
  /\ address_buffer \in [Threads -> SUBSET Blocks]
  /\ flush_blocks \in [Threads -> SUBSET Blocks]
  /\ block_dirty \in [0 .. 1 -> SUBSET Blocks]
  /\ segment_dirty \in [0 .. 1 -> SUBSET Segments]
  /\ epoch \in 0 .. 1
  /\ flush_mode \in Modes
  /\ next_back_segment \in BackSegments
  /\ mpi \in BOOLEAN
  /\ pc \in [Threads -> {"app", "sync", "apply", "alloc", "created",
                         "barrier"}]
  /\ phase \in {"run", "first", "states", "commit", "copy", "second", "finish",
                "open", "recover", "recover_commit", "recover_copy"}
  /\ todo \in [Threads -> SUBSET Blocks]
  /\ target \in [Threads -> Segments \cup {Null}]
  /\ back_id \in [Threads -> BackSegments \cup {Null}]
  /\ snap \in [Blocks -> Contents]
  /\ broken \subseteq {"idle", "stale", "steal", "overwrite", "slot"}

\* What a recovery started now may find in block b.
Recoverable(b, state) ==
  LET owners == {c \in BackSegments : back_to_main[c] = b[1]}
  IN IF state = "Back" /\ owners # {}
     THEN UNION {back_pm[<<c, b[2]>>] : c \in owners}
     ELSE main_pm[b]

\* Crash consistency: whatever the threads were doing, a crash leaves an image
\* from which recovery restores the last checkpoint, until one of five things
\* happens that the code does not survive: a checkpoint with nothing to do
\* follows a whole-cache one and makes the next one forget to bring the other
\* side up to date; a thread brings it up to date in a back segment that
\* another thread has meanwhile given to another segment; a back segment is
\* taken away and given to a segment that needs one at the wrong time; a block
\* is copied over the side of its segment that holds the checkpoint; or a
\* recovery commits a slot of states left over by a crash.
SafeUnlessBroken ==
  broken = {} =>
    \A b \in Blocks : snap[b] # Junk =>
      \A state \in segment_state_pm[Active][b[1]] : Recoverable(b, state) = {snap[b]}

\* The state is well typed, and between checkpoints the two sides of the image
\* differ only in blocks of the last epoch, and only while the next checkpoint
\* is going to copy those: this is what lets a checkpoint write to one side
\* only.
SidesDifferWherePending ==
  /\ TypeOK
  /\ (broken = {} /\ phase = "run") => \A b \in Blocks :
      (main_to_back[b[1]] # Null /\ snap[b] # Junk
         /\ main[b] # back[BackBlock(b[1], b)])
      => b \in block_dirty[1 - epoch] /\ (mpi \/ flush_mode = "WBINVD")

\* A checkpoint that returns has made durable all that was stored before, also
\* when it found nothing to do.
CheckpointDurable ==
  [][(CheckpointFinish \/ (CheckpointBegin /\ phase' = "run")) /\ broken = {}
       => \A b \in Blocks :
            (snap[b] # Junk \/ b \in block_dirty[epoch] \cup Buffered)
            => snap'[b] = working_memory[b]]_vars

\* A program that was restarted begins with the last checkpoint.
RestartsFromSnapshot ==
  [][(phase = "recover_copy" /\ phase' = "run" /\ broken = {})
       => \A b \in Blocks : snap[b] # Junk => working_memory'[b] = snap[b]]_vars
=============================================================================
