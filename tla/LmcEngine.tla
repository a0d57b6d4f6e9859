----------------------------- MODULE LmcEngine -----------------------------
(***************************************************************************)
(* The copy-on-write engine with an epoch tag per block (lmc_engine.cpp).  *)
(* The application works in the working state on persistent memory.  The   *)
(* first store to a block in an epoch copies the block to the shadow state *)
(* and tags it with the epoch.  A checkpoint flushes the blocks stored to  *)
(* and advances the epoch, which makes all tags stale at once; recovery    *)
(* rolls back the blocks whose tag is the current epoch.  The epoch is a   *)
(* byte: when it overflows, the tags are cleared and it starts from 1.     *)
(***************************************************************************)
EXTENDS Naturals, FiniteSets, PersistentMemory

CONSTANTS Threads,         \* the threads of the application
          nr_blocks,
          Values,          \* what the application stores in a block
          Junk,            \* content of a block nobody stored to
          kMaxFlushBlocks, \* capacity of a thread's list of blocks
          kSegmentLocks,   \* number of locks
          kMaxEpoch,       \* UINT8_MAX, the last epoch before the overflow
          Ranges           \* sets of blocks one store may touch

ASSUME LmcAssumption ==
  /\ IsFiniteSet(Threads) /\ Threads # {}
  /\ nr_blocks \in Nat \ {0}
  /\ Junk \notin Values
  /\ kMaxFlushBlocks \in Nat \ {0}
  /\ kSegmentLocks \in Nat \ {0}
  /\ kMaxEpoch \in Nat \ {0}
  /\ Ranges \subseteq (SUBSET (0 .. (nr_blocks - 1))) \ {{}}

Blocks    == 0 .. (nr_blocks - 1)
Contents  == Values \cup {Junk}
Epochs    == 1 .. kMaxEpoch
Tags      == 0 .. kMaxEpoch
LockOf(b) == b % kSegmentLocks

VARIABLES
  \* HeapHeader and the two states, on the medium and (but for the epoch and
  \* the attributes, which are fenced as they are written) as loads see them
  attributes, current_epoch, tagmap, tagmap_pm, working, working_pm,
  shadow, shadow_pm,
  \* in DRAM
  pc,            \* where each thread is
  range,         \* blocks of the store it is executing
  pending,       \* ... that its hook has still to visit
  segment_locks, \* locks that are held
  flush_blocks,  \* blocks listed for the next checkpoint
  flush_mode,
  phase,         \* step of the checkpoint or of the recovery
  opening,       \* Open is running recover
  \* history: what the application stored, and its value at the last commit
  app, snap

heapVars   == <<attributes, current_epoch, tagmap, tagmap_pm, working, working_pm,
                shadow, shadow_pm>>
threadVars == <<pc, range, pending, segment_locks, flush_blocks>>
ckptVars   == <<flush_mode, phase, opening>>
vars       == <<heapVars, threadVars, ckptVars, app, snap>>

Goto(t, l) == pc' = [pc EXCEPT ![t] = l]

\* Open with create: the header is flushed with epoch 1 and no tag.
Init ==
  /\ attributes = FALSE
  /\ current_epoch = 1
  /\ tagmap = [b \in Blocks |-> 0] /\ tagmap_pm = Settled(tagmap)
  /\ working = [b \in Blocks |-> Junk] /\ working_pm = Settled(working)
  /\ shadow = [b \in Blocks |-> Junk] /\ shadow_pm = Settled(shadow)
  /\ pc = [t \in Threads |-> "app"]
  /\ range = [t \in Threads |-> {}]
  /\ pending = [t \in Threads |-> {}]
  /\ segment_locks = {}
  /\ flush_blocks = [t \in Threads |-> {}]
  /\ flush_mode = "NO_ACTION"
  /\ phase = "run"
  /\ opening = FALSE
  /\ app = working /\ snap = working

-----------------------------------------------------------------------------
(* A store and its hook.                                                   *)

\* An instrumented store begins: the hook will visit its blocks in order.
BeginStore(t) ==
  /\ phase = "run" /\ pc[t] = "app"
  /\ \E R \in Ranges : /\ range' = [range EXCEPT ![t] = R]
                       /\ pending' = [pending EXCEPT ![t] = R]
  /\ Goto(t, "hook")
  /\ UNCHANGED <<heapVars, segment_locks, flush_blocks, ckptVars, app, snap>>

\* The block hook_routine of thread t is called for.
Visits(t, b) == b \in pending[t] /\ \A d \in pending[t] : b <= d

\* hook_routine, under the lock: the block has been copied in this epoch.
HookTagged(t) ==
  /\ pc[t] = "hook"
  /\ \E b \in pending[t] :
       /\ Visits(t, b) /\ LockOf(b) \notin segment_locks
       /\ tagmap[b] = current_epoch
       /\ pending' = [pending EXCEPT ![t] = @ \ {b}]
  /\ UNCHANGED <<heapVars, pc, range, segment_locks, flush_blocks, ckptVars, app,
                 snap>>

\* ... it has not: the non-temporal copy, not yet fenced.
HookCopy(t) ==
  /\ pc[t] = "hook"
  /\ \E b \in pending[t] :
       /\ Visits(t, b) /\ LockOf(b) \notin segment_locks
       /\ tagmap[b] # current_epoch
       /\ segment_locks' = segment_locks \cup {LockOf(b)}
       /\ shadow' = Write(shadow, {b}, working)
       /\ shadow_pm' = Put(shadow_pm, {b}, working)
  /\ Goto(t, "copied")
  /\ UNCHANGED <<attributes, current_epoch, tagmap, tagmap_pm, working, working_pm,
                 range, pending, flush_blocks, ckptVars, app, snap>>

\* Mutant: no fence between the copy and the tag.
TagUnfenced(t) ==
  /\ pc[t] = "copied"
  /\ \E b \in pending[t] :
       /\ Visits(t, b)
       /\ tagmap' = [tagmap EXCEPT ![b] = current_epoch]
       /\ tagmap_pm' = Put(tagmap_pm, {b}, tagmap')
  /\ Goto(t, "tagged")
  /\ UNCHANGED <<attributes, current_epoch, working, working_pm, shadow, shadow_pm,
                 range, pending, segment_locks, flush_blocks, ckptVars, app, snap>>

\* The fence after it, and the tag, which is not yet flushed.
HookTag(t) ==
  /\ pc[t] = "copied"
  /\ \E b \in pending[t] :
       /\ Visits(t, b)
       /\ shadow_pm' = Settle(shadow_pm, {b}, shadow)
       /\ tagmap' = [tagmap EXCEPT ![b] = current_epoch]
       /\ tagmap_pm' = Put(tagmap_pm, {b}, tagmap')
  /\ Goto(t, "tagged")
  /\ UNCHANGED <<attributes, current_epoch, working, working_pm, shadow, range,
                 pending, segment_locks, flush_blocks, ckptVars, app, snap>>

\* The block is added to the thread's list while there is room.
List(t, b) ==
  flush_blocks' = [flush_blocks EXCEPT ![t] = IF Cardinality(@) # kMaxFlushBlocks
                                              THEN @ \cup {b} ELSE @]

\* Flush and fence of the tag, and the rest of the hook.
HookDone(t) ==
  /\ pc[t] = "tagged"
  /\ \E b \in pending[t] :
       /\ Visits(t, b)
       /\ tagmap_pm' = Settle(tagmap_pm, {b}, tagmap)
       /\ segment_locks' = segment_locks \ {LockOf(b)}
       /\ List(t, b)
       /\ pending' = [pending EXCEPT ![t] = @ \ {b}]
  /\ Goto(t, "hook")
  /\ UNCHANGED <<attributes, current_epoch, tagmap, working, working_pm, shadow,
                 shadow_pm, range, ckptVars, app, snap>>

\* The store itself.
FinishStore(t) ==
  /\ pc[t] = "hook" /\ pending[t] = {}
  /\ \E v \in Values : LET val == [b \in Blocks |-> v]
                       IN /\ working' = Write(working, range[t], val)
                          /\ working_pm' = Put(working_pm, range[t], val)
                          /\ app' = Write(app, range[t], val)
  /\ range' = [range EXCEPT ![t] = {}]
  /\ Goto(t, "app")
  /\ UNCHANGED <<attributes, current_epoch, tagmap, tagmap_pm, shadow, shadow_pm,
                 pending, segment_locks, flush_blocks, ckptVars, snap>>

-----------------------------------------------------------------------------
(* checkpoint, called by all threads; CheckpointBarrier is about how they  *)
(* keep together.                                                          *)

CheckpointEnter(t) ==
  /\ phase = "run" /\ pc[t] = "app"
  /\ Goto(t, "ckpt")
  /\ UNCHANGED <<heapVars, range, pending, segment_locks, flush_blocks, ckptVars,
                 app, snap>>

\* Mutant: one thread with nothing listed decides for all.
AnyIdle == CASE \E t \in Threads : flush_blocks[t] = {} -> "NO_ACTION"
             [] \E t \in Threads : Cardinality(flush_blocks[t]) = kMaxFlushBlocks
                  -> "WBINVD"
             [] OTHER -> "USE_FLUSH_BLOCKS"

Mode == CASE \A t \in Threads : flush_blocks[t] = {} -> "NO_ACTION"
          [] \E t \in Threads : Cardinality(flush_blocks[t]) = kMaxFlushBlocks
               -> "WBINVD"
          [] OTHER -> "USE_FLUSH_BLOCKS"

AllReturn == pc' = [t \in Threads |-> "app"]

\* The leader chooses how to flush; with nothing listed all return at once.
CheckpointBegin ==
  /\ phase = "run" /\ \A t \in Threads : pc[t] = "ckpt"
  /\ flush_mode' = Mode
  /\ \/ Mode = "NO_ACTION" /\ AllReturn /\ UNCHANGED phase
     \/ Mode # "NO_ACTION" /\ phase' = "flush" /\ UNCHANGED pc
  /\ UNCHANGED <<heapVars, range, pending, segment_locks, flush_blocks, opening, app,
                 snap>>

Listed == UNION {flush_blocks[t] : t \in Threads}

\* flush_parallel: the listed blocks, or the whole cache.
FlushParallel ==
  /\ phase = "flush"
  /\ working_pm' = Settle(working_pm, IF flush_mode = "WBINVD" THEN Blocks ELSE Listed,
                          working)
  /\ phase' = "attributes"
  /\ UNCHANGED <<attributes, current_epoch, tagmap, tagmap_pm, working, shadow,
                 shadow_pm, threadVars, flush_mode, opening, app, snap>>

\* The attribute has a fence of its own before the epoch is advanced.
SetAttributes ==
  /\ phase = "attributes"
  /\ attributes' = TRUE
  /\ phase' = "advance"
  /\ UNCHANGED <<current_epoch, tagmap, tagmap_pm, working, working_pm, shadow,
                 shadow_pm, threadVars, flush_mode, opening, app, snap>>

\* The new epoch is on the medium: a checkpoint has taken effect.  In recover
\* the fence that orders the copies before it has been passed too.
Committed ==
  /\ snap' = app
  /\ working_pm' = IF opening THEN Settled(working) ELSE working_pm
  /\ phase' = "finish"
  /\ UNCHANGED <<attributes, working, shadow, shadow_pm, threadVars, flush_mode,
                 opening, app>>

\* Mutant: the overflow of the epoch is not looked at.
AlwaysAdvance ==
  /\ phase = "advance"
  /\ current_epoch' = current_epoch + 1
  /\ UNCHANGED <<tagmap, tagmap_pm>>
  /\ Committed

\* advance_current_epoch below the last epoch.
AdvanceEpoch ==
  /\ phase = "advance" /\ current_epoch # kMaxEpoch
  /\ current_epoch' = current_epoch + 1
  /\ UNCHANGED <<tagmap, tagmap_pm>>
  /\ Committed

\* ... and at it: the tags are cleared, not yet flushed,
ClearTags ==
  /\ phase = "advance" /\ current_epoch = kMaxEpoch
  /\ tagmap' = [b \in Blocks |-> 0]
  /\ tagmap_pm' = Put(tagmap_pm, Blocks, tagmap')
  /\ working_pm' = IF opening THEN Settled(working) ELSE working_pm
  /\ phase' = "wrap"
  /\ UNCHANGED <<attributes, current_epoch, working, shadow, shadow_pm, threadVars,
                 flush_mode, opening, app, snap>>

\* Mutant: the epoch starts again from 1 without the tags being flushed first.
TagsUnflushed ==
  /\ phase = "wrap"
  /\ current_epoch' = 1
  /\ UNCHANGED <<tagmap, tagmap_pm>>
  /\ Committed

\* ... they are flushed and fenced, and the epoch starts again from 1.
WrapEpoch ==
  /\ phase = "wrap"
  /\ tagmap_pm' = Settled(tagmap)
  /\ current_epoch' = 1
  /\ UNCHANGED tagmap
  /\ Committed

\* The lists are emptied and the threads return.
CheckpointFinish ==
  /\ phase = "finish" /\ ~opening
  /\ flush_blocks' = [t \in Threads |-> {}]
  /\ AllReturn
  /\ phase' = "run"
  /\ UNCHANGED <<heapVars, range, pending, segment_locks, flush_mode, opening, app,
                 snap>>

-----------------------------------------------------------------------------
(* Crash and recovery.                                                     *)

\* What recover makes of the working state w, the shadow state s and the tags.
RolledBack(w, s, tags) ==
  [b \in Blocks |-> IF tags[b] = current_epoch THEN s[b] ELSE w[b]]

\* The process dies.  The history goes on from what recovery will find.
Crash ==
  /\ \E w \in Resolve(working_pm, Contents), s \in Resolve(shadow_pm, Contents),
        tags \in Resolve(tagmap_pm, Tags) :
       /\ working' = w /\ working_pm' = Settled(w)
       /\ shadow' = s /\ shadow_pm' = Settled(s)
       /\ tagmap' = tags /\ tagmap_pm' = Settled(tags)
       /\ app' = RolledBack(w, s, tags)
       /\ snap' = app'
  /\ pc' = [t \in Threads |-> "app"]
  /\ range' = [t \in Threads |-> {}]
  /\ pending' = [t \in Threads |-> {}]
  /\ segment_locks' = {}
  /\ flush_blocks' = [t \in Threads |-> {}]
  /\ flush_mode' = "NO_ACTION"
  /\ phase' = "recover"
  /\ opening' = TRUE
  /\ UNCHANGED <<attributes, current_epoch>>

\* recover: the copies, not yet fenced.
RecoverCopy ==
  /\ phase = "recover"
  /\ working' = RolledBack(working, shadow, tagmap)
  /\ working_pm' = Put(working_pm, Blocks, working')
  /\ phase' = "advance"
  /\ UNCHANGED <<attributes, current_epoch, tagmap, tagmap_pm, shadow, shadow_pm,
                 threadVars, flush_mode, opening, app, snap>>

\* Open returns.
OpenDone ==
  /\ phase = "finish" /\ opening
  /\ phase' = "run"
  /\ opening' = FALSE
  /\ UNCHANGED <<heapVars, threadVars, flush_mode, app, snap>>

-----------------------------------------------------------------------------
Hook(t) == HookTagged(t) \/ HookCopy(t) \/ HookTag(t) \/ HookDone(t)

Advance == AdvanceEpoch \/ ClearTags \/ WrapEpoch

Next == \/ \E t \in Threads : BeginStore(t) \/ Hook(t) \/ FinishStore(t)
                              \/ CheckpointEnter(t)
        \/ CheckpointBegin \/ FlushParallel \/ SetAttributes \/ Advance
        \/ CheckpointFinish
        \/ Crash \/ RecoverCopy \/ OpenDone

Spec == Init /\ [][Next]_vars

-----------------------------------------------------------------------------
(* Properties.                                                             *)

\* The variables have the types of the fields and locals they model.
TypeOK ==
  /\ attributes \in BOOLEAN
  /\ current_epoch \in Epochs
  /\ tagmap \in [Blocks -> Tags]
  /\ tagmap_pm \in [Blocks -> (SUBSET Tags) \ {{}}]
  /\ working \in [Blocks -> Contents]
  /\ working_pm \in [Blocks -> (SUBSET Contents) \ {{}}]
  /\ shadow \in [Blocks -> Contents]
  /\ shadow_pm \in [Blocks -> (SUBSET Contents) \ {{}}]
  /\ pc \in [Threads -> {"app", "hook", "copied", "tagged", "ckpt"}]
  /\ range \in [Threads -> SUBSET Blocks]
  /\ pending \in [Threads -> SUBSET Blocks]
  /\ segment_locks \subseteq 0 .. (kSegmentLocks - 1)
  /\ flush_blocks \in [Threads -> SUBSET Blocks]
  /\ flush_mode \in {"NO_ACTION", "WBINVD", "USE_FLUSH_BLOCKS"}
  /\ phase \in {"run", "flush", "attributes", "advance", "wrap", "finish", "recover"}
  /\ opening \in BOOLEAN
  /\ app \in [Blocks -> Contents]
  /\ snap \in [Blocks -> Contents]

\* What a recovery started now may find in block b if its tag is found so.
Recoverable(b, tag) == IF tag = current_epoch THEN shadow_pm[b] ELSE working_pm[b]

\* Crash consistency: a crash at any step of any thread leaves a header and two
\* states from which recover restores the last checkpoint, in all blocks.
RecoverySafe ==
  \A b \in Blocks : \A tag \in tagmap_pm[b] : Recoverable(b, tag) = {snap[b]}

\* ... which holds except while a checkpoint in the last epoch clears the tags
\* (advance_current_epoch); in the recovery of a crash in that epoch it holds.
SafeOutsideWrap == (phase = "wrap" /\ ~opening) \/ RecoverySafe

\* No tag is ahead of the epoch, before and after the epoch starts again: an
\* old tag never passes for a copy made in the current epoch.
NoStaleTag == \A b \in Blocks :
  /\ \A tag \in tagmap_pm[b] : tag <= current_epoch
  /\ tagmap[b] = current_epoch /\ phase = "run" => shadow[b] = snap[b]

\* A checkpoint that returns has made durable everything its callers stored.
CheckpointDurable ==
  [][(\E t \in Threads : pc[t] = "ckpt" /\ pc'[t] = "app" /\ phase' = "run")
       => snap' = app]_vars
=============================================================================
