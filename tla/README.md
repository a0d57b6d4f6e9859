# A TLA+ specification of libcrpm

libcrpm keeps an application's heap on persistent memory and takes
incremental checkpoints of it: the threads of the program call
`checkpoint(n)` together, and after a crash `Open` brings the heap back to the
last checkpoint. This directory models the parts of the library that decide
whether that is true, checks them with TLC on small instances, and proves some
of it with TLAPS for every instance.

## 1. The system

| Component | State it keeps | Operations | Hard behaviour | What makes it correct |
|---|---|---|---|---|
| Persistent memory primitives (`common.h`) | cache and medium | `Flush`, `StoreFence`, `NTStore`, `NonTemporalCopy*` | unfenced stores may or may not survive | fences where a later store relies on an earlier one |
| Checkpoint image (`checkpoint.cpp`) | main and back segments, two slots of segment states, the committed epoch, `back_to_main`; `main_to_back` in DRAM | `Open`, `recovery`, `set_segment_state`, `set_segment_state_atomic`, `commit_segment_state_update`, `bind_back_segment` | crash between two steps; slots that differ | the slot the epoch selects names, for each segment, the side that holds the checkpoint |
| `NvmInstEngine` (default build) | dirty bits, flush lists, address buffers, segment locks, cleaner state | hooks of instrumented stores, `checkpoint`, `lazy_write_back`, `allocate_back_segment`, cleaner thread | hooks, cleaner and checkpoint interleave; crash anywhere; limits of lists and back segments | crash consistency; a checkpoint that returns is durable; nobody steals a back segment in use |
| Barrier and latch (`struct Barrier`) | counter, flag, a sense per thread id | `barrier`, `latch_add`, `latch_wait` | thread ids are recycled; `n` may vary | the threads keep together; calls return |
| `LmcEngine` | a tag per block, a one-byte epoch, working and shadow state | hooks, `checkpoint`, `advance_current_epoch`, `recover` | epoch overflow | as above, through the overflow |
| `UndoLogEngine` | a log shared by the threads, dirty bits | hooks, `checkpoint`, `recover` | concurrent appends, full log, clearing of bits after the last barrier | as above; no hole in the log |
| `HybridInstEngine` (MPI build) | working state in DRAM, dirty bits of two epochs, the image | hooks, `checkpoint`, write-out to one side, catch-up of the other, `prepare_working_memory` | which side is up to date; back segments on demand; crash anywhere | crash consistency; the sides differ only where a copy is pending |
| `MprotectEngine`, `DirtybitEngine` + `MetadataV1` | page tracking by faults or soft-dirty bits, two copies and a flag | fault handler, `checkpoint`, `checkpoint_for_mpi`, `recover_data` | faults and clearing of bits race; ranks fail at different steps | no store escapes tracking; all ranks restart from one checkpoint |
| MPI coordination (`crpm_mpi.cpp`, the `*_for_mpi` functions) | the epoch of every rank | commit with a barrier, agreement on the smallest epoch, reset | ranks recover without waiting for each other; idle ranks; wrap-around | all ranks restart from the same checkpoint; no rank is left in a barrier |
| Cleaner thread of `NvmInstEngine` | state, mutex, condition variable | pass over the segments, `wait_for_background_task`, shutdown | lost wake-ups, starvation | no copy during a commit; nobody waits for ever |
| Allocator (`lrmalloc_allocator.cpp` and its instrumented twin) | descriptors, anchors, partial list, list of superblocks, thread caches | `pmalloc`, `pfree`, restart | lock-free updates, stamps, full pool | no block is lost or given out twice; calls return |
| Instrumentation pass, kernel module, file system layer, pool interface | - | compile-time rewriting, `wbinvd`, `mmap`, forwarding | - | - |

The components interact by shared memory: the instrumented program calls the
hooks before each store; the hooks, the checkpoint and the cleaner share the bit
sets, locks and the image; `Open` runs `recovery` before the program starts. The
list of hazards, each with its line and the properties that watch it, is in
`PROJECT.json`.

## 2. The modules

| Module | Models | Notes |
|---|---|---|
| `Snapshot` | what an engine promises | two arrays `work` and `snap`; a checkpoint replaces one by the other in one step, a crash does the opposite |
| `PersistentMemory` | `Flush`, `StoreFence`, `NTStore`, `NonTemporalCopy*` | a location has the value loads see and the set `x_pm` of values the medium may hold: a store adds to the set, flush and fence leave one value, a crash picks one per location independently |
| `CheckpointImage` | `checkpoint.cpp` | state and operators; no actions of its own |
| `NvmInstEngine` | `nvm_inst_engine.cpp` on the image | actions below |
| `NvmInstEngine_proofs` | - | inductive invariant and theorems |
| `CheckpointBarrier` | `struct Barrier` and the skeleton of `checkpoint` | a spinning thread loads the sense of its id in every turn, as the loops do; `my_sense`, the sense it arrived with, is history |
| `CheckpointBarrier_proofs` | - | inductive invariant and theorems |
| `LmcEngine` | `lmc_engine.cpp` | |
| `LmcEngine_proofs` | - | inductive invariant and theorems |
| `UndoLogEngine` | `undolog_engine.cpp` | |
| `UndoLogEngine_proofs` | - | inductive invariant and theorems |
| `HybridInstEngine` | `hybrid_inst_engine.cpp` on the image | same `CheckpointImage` as `NvmInstEngine` |
| `HybridInstEngine_proofs` | - | inductive invariant and theorems |
| `PageEngine` | `mprotect_engine.cpp`, `dirtybit_engine.cpp`, `metadata.cpp` | one module for both engines; threads of one process or ranks with a pool each |
| `PageEngine_proofs` | - | inductive invariant and theorems |
| `MpiEpoch` | epochs of the ranks in `checkpoint.cpp`, `OpenForMPI`, `checkpoint_for_mpi` | a slot of an image is the content it restores |
| `MpiEpoch_proofs` | - | inductive invariant and theorems |
| `CleanerThread` | `WriteBackThreadRoutine`, its mutex and condition variable, shutdown | data is left to `NvmInstEngine` |
| `CleanerThread_proofs` | - | inductive invariant and theorem |
| `SizeClass`, `LrMalloc` | `lrmalloc_util.cpp`; `lrmalloc_allocator.cpp`, `hook_lrmalloc_allocator.cpp`, the stamped pointer of `pptr.h` | the two allocators are the same code, compiled with and without instrumentation |
| `MC*` | instances for TLC | |

### NvmInstEngine: code and actions

* A store is `BeginStore` (the hook is entered), `CopyOnWriteHook` once per
  segment (`hook_copy_on_write_routine`), possibly a `lazy_write_back`, and
  `FinishStore` (address buffer or `hook_routine`, and the store itself).
* `lazy_write_back`, run by hooks and by the cleaner, is `LazyNothingToDo`, or
  `LazyLock`/`LazyAllocate`, `LazyCopy`, `LazyFence`, `LazyDone`: a step per
  point at which another thread or a crash can tell the difference. The search
  in `allocate_back_segment` and `bind_back_segment` are one step, since
  `back_memory_lock` and the owner's lock are held from the test to the binding.
  `AllocateFail` is its `exit`.
* `checkpoint` is `CheckpointEnter` per thread, then steps of the group:
  `CheckpointBegin` (drain the buffers, `determine_flush_mode`), `CheckpointLock`
  (the cleaner's mutex), `FlushParallel`, `CommitLayoutState`,
  `CommitLayoutEpoch`, `SyncLayoutStates`, `WriteBackParallel`, `WriteBackFence`,
  and the second commit, `CheckpointFinish`. Between two barriers the threads
  divide the work and do not depend on each other, so it is one step; that the
  barriers do keep them together is the subject of `CheckpointBarrier`.
* The cleaner is `CleanerAcquire`, `CleanerLoop` and the actions of
  `lazy_write_back`. It may wake up spuriously, as condition variables do.
* `Crash` loses DRAM and resolves every unsettled location; recovery is
  `OpenImage`, `RecoveryCopy`, `RecoveryCommit`, `SyncLayoutStates`, `OpenDone`,
  and may be cut by a crash itself.
* `app` and `snap` are history: what the program stored, and its value when the
  last checkpoint's epoch became durable. `Junk` is the content of a block that
  was never stored to; a segment in state Initial is not restored by recovery
  and the properties say nothing of such blocks.

Left out because it cannot happen in the modelled build: the branches of
`write_back_parallel` for the whole-cache mode (it is not called then) and for a
back segment it has just created (excluded by `DirtyIsBound`, which is proved);
the branch of `allocate_back_segment` for a checkpoint in progress (it is then
called by nobody, for the same reason) and for an unbound back segment (`Open`
binds all of them). `StatesSettled` at the beginning and the end of a checkpoint
is justified by the fences of `MemoryPool::checkpoint` (`crpm.cpp`) and by the
locked instructions of the barrier, which drain flushes and non-temporal stores.
Blocks carry whole values: a store replaces the value of each block it touches,
and a block reaches the medium as a unit (the cache lines of a block are always
flushed together and restored together).

### LmcEngine, UndoLogEngine

A hook is a step up to each fence (`HookCopy`, `HookTag`, `HookDone`; `HookLog`,
`HookAppend`, `HookDone`). In `UndoLogEngine` an entry is its first line and its
payload, two locations; the log is measured in entries; the compare-and-swap
loop is the guard `InTurn`; the leader's two non-temporal stores under one fence
are two actions in either order; `ClearDirtyBits` is a step per thread, since
no barrier follows it. In `LmcEngine` the history goes on, after a crash, from
what recovery will find, so that one torn recovery is not counted again later.

### HybridInstEngine

The application works in DRAM, so a store is one step with its hook. A
checkpoint is `CheckpointBegin` (buffers, mode), then per thread `SyncSegment` and
`SyncCopy` (`apply_nvm_to_nvm_parallel`, the catch-up of the last whole-cache
checkpoint) for each segment of its share, `SyncEnd`, and `Apply`
(`apply_dram_to_back_parallel`, `apply_dram_to_main_parallel`), with
`FindBackSegment`, `AllocateBackSegment`, `FillBack` and `FillMain` as steps of
their own. A binding is read without a lock and used later, and no barrier parts
the catch-up of one thread from the write-out of another, so the reading
(`SyncSegment`) and the copy (`SyncCopy`) are different steps. Then `CommitLayoutState`,
`SetLayoutState`, `CommitLayoutEpoch`, `SyncLayoutStates`, the second side, and
`CheckpointFinish`. The build defines `USE_SYNCHRONOUS_CHECKPOINT`, so the
write-back thread is not started. `flush_mode` is uninitialised until the first
checkpoint and starts with any value.

### PageEngine

A trapped store is `Fault`, `Handle` (bit and protection) and `List`. A checkpoint
is `CheckpointBegin`, `SetMain`, `WriteBack`, `EndCopy`, `Clear` per thread (no
barrier follows), `SetBack`, `CheckpointEnd`; the leader's MPI barriers are guards.
With one process the barriers are trivially passed and the actions are those of
`checkpoint`, with several those of `checkpoint_for_mpi`. `OtherPoolReset` is the
reset of the soft-dirty bits by another pool of the process. Recovery is
`OpenPools` (the flag of process 0 is broadcast), `RecoverCopy`, `OpenDone`.

### MpiEpoch

`Call` is `checkpoint_for_mpi` up to the commit, `Commit` stores the epoch,
`Pass` leaves the barrier and copies the states. `Crash` ends all processes;
`Agree` is `MPI_Allreduce` of the smallest epoch (or the exit, when epochs differ
by two), `Reset` and `Recover` are per process and unsynchronised, as in the code.
`state_pm` is what each slot of states may say on the medium: for
`HybridInstEngine` it decides which side the next write-out may touch. Recovery
writes a state only where it changes one (`checkpoint.cpp:179`), so the slot it
commits may keep the states of a checkpoint that was given up, or cut off by the
crash. All segments of an image are treated as one; what can happen to one segment
among several in a single image is the subject of `HybridInstEngine`.

### CleanerThread

`CleanerLock`, `CleanerTest`, `CleanerSwitch`, `CleanerWork` are the loop of the
cleaner; `CleanerWait` releases the mutex, `notify_all` reaches only a cleaner
that waits, and a wake-up may be spurious. The other thread is the leader of a
checkpoint (either of the two functions), of `wait_for_background_task` and of the
destructor; afterwards the pool may be opened again.

### LrMalloc

A step of a thread ends with each load or exchange of a shared word: loads of
`avail_sb`, `partial_list`, `next_free`, `next_partial`, and the exchanges of the
lists, the anchors and `bulk_tail`. What happens in between touches only blocks
or descriptors in the thread's hands. `LargeWalk` follows the chain of
`alloc_large_sb` in one step: a chain that changes meanwhile has moved the head
of the list, and the exchange that follows fails. A failed exchange that finds
null keeps the old stamp, as `atomic_stamped_pptr` does. The races use one size
class, since classes share only `avail_sb` and `bulk_tail`; the table of all
classes is `SizeClass`. `Open` is a restart from a checkpoint taken when no thread
was in the allocator.

## 3. The runs

| Run | Shows | Instance |
|---|---|---|
| `NvmThreads` | `RecoverySafe`, `MemoryIsProgram`, `CheckpointDurable` hold | 2 threads and the cleaner, 2+2 segments of 1 block, lists of 2 blocks, buffers of 1 |
| `NvmRange` | `ImplementsSnapshot` (refinement of `Snapshot`) and `CheckpointDurable` hold | 1 thread and the cleaner, segments of 2 blocks, words of 2 bits, range stores across the border, buffers of 2 |
| `NvmPartial` | `TypeOK`, `BindingInverse`, `DirtyIsBound` hold | 2 threads and the cleaner, 3 main and 2 back segments, buffers of 2 |
| `NvmStaleSlot` | `RecoverySafe` is violated | section 4 |
| `BarrierFixed` | `TypeOK`, `BarrierTogether`, `LeaderAlone`, `OvertakenAtTheEnd`, `CheckpointReturns` hold | 4 threads, of which changing groups of 3 call |
| `LmcWrap` | `TypeOK`, `SafeOutsideWrap`, `NoStaleTag`, `CheckpointDurable` hold | 2 threads, 2 blocks, epochs 1 and 2 |
| `UndoThreads` | `TypeOK`, `SafeUnlessOvertaken`, `LogComplete`, `TurnHeld` hold | 2 threads, 2 blocks, room for 2 entries |
| `HybridSides` | `SafeUnlessBroken`, `SidesDifferWherePending`, `CheckpointDurable`, `RestartsFromSnapshot` hold | 2 threads, 3 main and 2 back segments of 1 block, lists of 2; stores of the last block (by both threads) or of the first two together (by thread 0) |
| `Page` | `SafeUnlessBroken`, `CleanIsSaved`, `WritableIsListed`, `RestartTogether` hold | both engines; 2 threads in one process or in two; 3 regions, lists of 2, words of 2 bits |
| `MpiEpoch` | `EpochsClose`, `SameCheckpoint`, `BarrierEnds` hold | 2 ranks, epochs modulo 4, 3 checkpoints |
| `Cleaner` | `NoCopyDuringCommit`, `CheckpointStarts`, `BackgroundEnds`, `CloseEnds` hold | 3 segments |
| `Allocator` | `TypeOK` (with `ClassFits`, the table of size classes), `BlocksAccounted`, `SuperblocksAccounted`, `CallsReturn` hold | 2 threads, 4 superblocks of 2 blocks, stamps modulo 4, large objects of 2 superblocks; the real table of size classes |

The modules without `TypeOK` in the table have it as the first conjunct of
`SidesDifferWherePending`, `WritableIsListed`, `EpochsClose` and
`NoCopyDuringCommit`.

Every property of a passing run comes with a mutant, a plausible bug in one
definition under which TLC finds it violated (`PROJECT.json`, "mutants"; the
mutated forms stand before the definitions they replace).

Bounds. `MaxRuns` bounds the runs of the process that store; the run after the
last one still opens, recovers and may crash in recovery, so crashes are not
bounded. In the passing runs of `NvmInstEngine` it is 1, since two runs that store
reach the violation of `NvmStaleSlot`; in `UndoThreads` it is 2. The other state is finite by the code's own limits
(`kMaxFlushBlocks`, `kNumBufferedAddresses`, the log, the one-byte epoch, here of
two values), which are small enough for every limit to be hit: lists fill up and
switch the mode, the search for a back segment wraps around and fails, the epoch
overflows, the log runs out. Two values tell the old from the new content of a
block (in `UndoThreads` the initial content is one of them); `NvmPartial`, which
is about bindings, uses one. Threads and values are symmetric; symmetry
is used only where no liveness property is checked.

`broken` is history of the five younger modules: the set of events, each named
and described where it is set, after which the code does not keep its promise
(section 4). A behaviour goes on after such an event only until the calls under
way are over (`Followed`), and the properties are about behaviours without it;
everything before it, including the event itself, is explored. `MpiEpoch` takes
at most `MaxCalls` checkpoints between them and the crashes are not bounded.
`Allocator` makes `MaxCalls` calls, of which the first `MaxAlone` one at a time,
so that the last ones race in every state the first ones can build: full and
empty caches, lists of any shape, a pool with no superblock left.
`kEpochModulus` and `kStampModulus` stand for 2^32 and 2^8, small enough to come
round. `MpiEpoch` has two ranks and three calls: what goes wrong between ranks goes
wrong between two, and the third call is the one that meets the slot of a
checkpoint given up before; the theorems are about any number of both. The
stores of `HybridSides` are few, so that two threads and all five events, which take
two checkpoints, a restart and a third one, fit into the run; other instances
were checked besides, one thread with all stores of one or two blocks, and two
threads with every single block on 2 main segments and 1 back segment.

Conditions of the passing runs of `NvmInstEngine` that the violations motivate:
one storing run (`NvmStaleSlot`), as many back as main segments where data is
checked, a number of segments that is a multiple of the word size (section 4).

Fairness. `CheckpointReturns` promises the return of every call unless a thread has
been overtaken (section 4). It assumes weak fairness of each thread's steps in a
call (the operating system schedules every thread, and spin loops do not
block) and that the other threads of the group call too, which is what passing
`n` to `checkpoint` means. `TurnHeld` states, as an invariant, why the spin loop in
the undo log's hook ends. `BarrierEnds` assumes weak fairness of the ranks' steps
and that every rank goes on to call `checkpoint_for_mpi`, as a collective call
requires. `Cleaner` assumes that both threads run (weak fairness) and that a
thread which finds a mutex free again and again gets it (strong fairness of the
two lock steps, what a fair mutex and a preemptive scheduler give; without it
the standard promises nothing). Spurious wake-ups are possible but not assumed.
`CallsReturn` assumes weak fairness of the threads inside the allocator only, and
says that calls return once no more are made, which is what lock-free code can
promise.

## 4. What does not hold

* `NvmStaleSlot`: `set_segment_state_atomic` leaves the other slot unfenced, and
  `recovery` flips to that slot without making the two agree. It is the
  disagreement kept as a run, and listed under "findings" with the test it
  contradicts.

The following are known from the same modules with other constants; the passing
runs are instances in which they do not occur.

* `NvmInstEngine`, 2 main segments and 1 back segment: `RecoverySafe` is violated, since a stolen back segment is bound durably before
  it holds the data, while the state slot may still say Back
  (`nvm_inst_engine.cpp:598`).
* `NvmInstEngine`, 3 segments of 2 blocks, words of 2 bits, lists and buffers of
  1: `RecoverySafe` is violated, since `clear_region` does not clear the last, partial word (`common.h:286`).
* `CheckpointBarrier`, 2 threads, groups of one and of two: `LeaderAlone` is violated, since
  calls with different `n` put the senses out of step (`common.h:319`).
* `CheckpointBarrier`, the instance of `BarrierFixed`: not every call returns. The
  spin loops (`common.h:328`, `343`) read `my_local_sense` in every turn. The
  leader gives out ids from 0 again before the last barrier of a call, so a thread
  that is slow in that barrier may find its entry reversed by the new owner of its
  id. `Overtaken` names this state: the thread waits for the opposite of what the
  barrier's flag says, and the threads of the next call wait for one that is not
  coming. `OvertakenAtTheEnd` says how narrow the case is: only in the last barrier,
  only when two other threads have already returned and called again, hence never
  with two threads (there `CheckpointReturns` was checked without the exception).
  With three threads a thread that has been overtaken stays so.
* `UndoLogEngine`, the instance of `UndoThreads`: `RecoverySafe` is violated, since dirty bits are cleared after
  the last barrier, while threads that have returned store
  (`undolog_engine.cpp:223`).

The events named in `broken`:

| Module | Event | What happens |
|---|---|---|
| `HybridInstEngine` | stale | a thread reads which back segment a segment has (`hybrid_inst_engine.cpp:475`), another thread gives that back segment to another segment and fills it, and the first one copies over it (`500`) |
| | idle | a checkpoint with nothing to save follows a whole-cache one and overwrites `prev_flush_mode`; the other side is not brought up to date (`hybrid_inst_engine.cpp:268`, `322`) |
| | steal | a back segment is taken from one segment for another that needs one in the middle of a write-out; the copy goes from main to back whichever side counts (`617`) |
| | overwrite | a segment is dirty in an epoch whose side is the one its state names, since it was clean in the epoch between; its back segment exists already, so nothing protects the checkpoint from the copy (`617`-`619`, `590`) |
| | slot | as `NvmStaleSlot` |
| `PageEngine` | reset | another pool resets the soft-dirty bits of the process (`dirtybit_engine.cpp:294`) |
| | overtaken | a slow thread clears the bit of a region another one has faulted on again (`mprotect_engine.cpp:339`) |
| | recovery | a crash after the flag was set by `recover_data`, before the copy was fenced (`metadata.cpp:50`) |
| | attribute | a crash between two ranks' setting of the attribute (`mprotect_engine.cpp:537`) |
| `MpiEpoch` | idle | a rank of `HybridInstEngine` with nothing to save returns, the others wait in the barrier (`hybrid_inst_engine.cpp:943`) |
| | undone | `HybridInstEngine`: recovery commits a slot that still has the states of a checkpoint that was given up or cut off (`checkpoint.cpp:179`); the engine's epoch begins at 1 again (`hybrid_inst_engine.cpp:194`) and its first write-out goes to the side that slot names (`959`) |
| | ahead | a crash while one rank commits and another still recovers |
| | unreset | a crash while one rank has recovered and another has not yet given up its epoch |
| | wrap | a crash while the epochs are on both sides of 2^32 |
| `CleanerThread` | unlocked | `checkpoint_for_mpi` with nothing to save unlocks a mutex it did not lock (`nvm_inst_engine.cpp:885`, `916`) |
| | lost | the destructor notifies between the cleaner's test and its wait; `join` does not return (`230`) |
| `LrMalloc` | wrap | a stamp comes round during one retry |
| | memory | `pmalloc` of a small object in a full pool tries again for ever (`lrmalloc_allocator.cpp:347`) |

`Spins` of `LrMalloc` is a thread that repeats a failing exchange with an old
stamp, because a failed exchange that finds null does not load the stamp
(`pptr.h:355`); it goes on when another thread pushes a superblock.

Two passing runs state exactly what is left when such a case is set aside.
`SafeUnlessOvertaken` is crash consistency of the undo log until a store of the
next epoch has begun while a thread is still in `clear_dirty_bits_parallel`
(see above for what happens then). `SafeOutsideWrap` is crash consistency of
`LmcEngine` except while a checkpoint in epoch 255 clears the tags: they are
cleared line by line before the new epoch is durable, so a crash in between
rolls back some blocks and not others. `RecoverySafe` of `LmcEngine`, checked on
the instance of `LmcWrap`, shows that window.

## 5. What is proved

`NvmInstEngine_proofs`, for all values of the constants that satisfy
`ImageAssumption` (at least one segment of each kind, no more back than main
segments) and `EngineAssumption` (finitely many threads, positive limits, words
that divide a segment):

* `TypeCorrect`: `Spec => []TypeOK`;
* `BindingCorrect`: `Spec => []BindingInverse`;
* `DirtyStaysBound`: `Spec => []DirtyIsBound`;

and, with the hypothesis `Intact` below,

* `CrashConsistent`: `Spec => []RecoverySafe`;
* `MemoryCorrect`: `Spec => []MemoryIsProgram`;
* `DurableWhenReturned`: `Spec => CheckpointDurable`, an action property;
* `SnapshotImplemented`: `Spec => ImplementsSnapshot`, the refinement of `Snapshot`.

Neither `BindingInverse` nor `DirtyIsBound` is inductive. `IndInv` adds to them where a worker in the
middle of `lazy_write_back` stands: it holds the lock of its target, two workers
never hold the same lock (`LockInv`), the target of a worker that copies is bound
(`TargetInv`), no hook is under way once a checkpoint has begun (`PhaseInv`),
nothing is dirty or locked while the image is opened (`QuietInv`), the medium
holds something everywhere (`MediumInv`). A thief takes only a segment that is
neither dirty nor locked; a worker between the binding and the dirty bit holds
the lock; so the two cases cover each other. The proof is one lemma per fact
about the operators (`Write`, `Put`, `Settle`, the search), one step lemma for
the types (`TypeStep`) and one for the rest (`StructStep`), with a case per
action. TLC checked `IndInv` on the instance of `NvmPartial` before.

Crash consistency does not hold for all constants (section 4), so the last four
theorems assume `Intact`: one run stores (`MaxRuns = 1`), every main segment has a
back segment, and the bit set of segments is a whole number of words. Each part is
needed. With two runs that store, recovery may commit a stale slot of states
(`NvmStaleSlot`); a stolen back segment takes the copy of its old owner with it; and
`clear_region` leaves the bits of a part of a word set. The threads, the segments,
the limits of lists and buffers, the locks, the ranges of stores and the crashes are
arbitrary: `runs` stops counting at its bound, but the process may crash, also in
the middle of recovery, and be opened again, without end. `NvmThreads` and
`NvmRange` are instances of it.

The invariant `SafeInv` differs before and after the first crash. In the run that
stores, `FirstInv` says where the threads, the cleaner and its mutex stand in each
phase (`StageInv`, `LeaderInv`) and what the mode decides (`ModeInv`); that a store is
allowed only in segments its hook has visited (`PendInv`); what a bit in each bit
set implies and that a dirty block is listed or some list is full (`BitInv`,
`ListInv`); that nobody stores to the Main segment a worker writes back (`HeldInv`)
and that the cleaner leaves no Main segment behind it (`PassInv`), which is what
allows the next epoch to skip copy-on-write; where the two slots of states agree
and what the medium holds of them (`SlotInv`, `StateInv`); and what the main and back
segments hold, in DRAM and on the medium (`MainInv`, `BackInv`). The medium may hold
either value of a state only while a worker is settling it or where both sides are
the checkpoint. So in every state each block of the checkpoint is `Good`: both copies
are it, or the state that a recovery finds is certain and names the copy that is.
A crash turns this into `RecoveryInv`, and with it `LaterInv`, of a process whose bit
sets and lists are empty. The proof has a lemma per action (`...First`, and
`...Later` after a crash). For the refinement, `Durable` is shown to be `snap` and `Loads` to be `app`
(`DurableIsSnap`, `LoadsIsApp`); then every step is one of the snapshot's or leaves
it alone (`SnapshotStep`). TLC checked `SafeInv` on the instances of `NvmThreads` and
`NvmRange`.

`CleanerThread_proofs`, for every positive number of segments
(`CleanerAssumption`):

* `CleanerStaysOut`: `Spec => []NoCopyDuringCommit`.

The property says that a leader which commits and a cleaner which works exclude
each other although the leader may commit without the mutex. `IndInv` adds who
holds the mutex (`MutexInv`, `LeaderInv`: a leader that took it will unlock it),
that the cleaner works only in a pass (`WorkInv`), and that a leader without the
mutex saw an idle cleaner which only the leader itself can start (`CommitInv`).
`PassInv`, that a pass never runs past the last segment, holds even after an
event of `broken`, the rest until then.

`LmcEngine_proofs`, from `LmcAssumption` (finitely many threads, at least one;
positive numbers of blocks, locks, list entries and epochs):

* `TypeCorrect`: `Spec => []TypeOK`;
* `CrashConsistent`: `Spec => []SafeOutsideWrap`;
* `TagsNeverStale`: `Spec => []NoStaleTag`;
* `CheckpointReturnsDurable`: `Spec => CheckpointDurable`, an action property.

That recovery finds the checkpoint is not inductive: a store may overwrite a
block because the hook has made its shadow copy and then its tag durable, in this
order, and that is known only of the thread which holds the block's lock. So
`IndInv` says, per thread, what a hook at each of its steps has achieved
(`HookInv`) and who holds which lock (`LockInv`); per block, what the medium may
hold (`MediumInv`), which of the two copies a recovery would take (`SafeInv`),
how far the leader has come with the block (`ProgressInv`), what a tag of the
current epoch implies (`TagInv`), and that a tagged block is on a list or some
list has overflowed (`ListInv`); and which of this applies in each phase
(`ControlInv`, `ModeInv`). TLC checked it on the instance of `LmcWrap`.

`UndoLogEngine_proofs`, from `UndoLogAssumption` (everything positive):

* `TypeCorrect`: `Spec => []TypeOK`;
* `EntriesComplete`: `Spec => []LogComplete`;
* `TurnsHeld`: `Spec => []TurnHeld`;
* `CrashConsistent`: `Spec => []SafeUnlessOvertaken`.

The first three need who owns which entry between reserving it and moving the
head past it; these facts (`LogInv`) hold always. The last one needs that a dirty
bit stands for a durable entry with the content of the last checkpoint, that the
threads of a checkpoint are numbered without gaps, so that together they clear
all bits, and that recovery has undone exactly the entries it has passed
(`DataInv`); these hold until a store overtakes a thread that clears bits. TLC
checked both on the instance of `UndoThreads`.

`PageEngine_proofs`, from `PageAssumption` (everything positive; some thread
belongs to process 0; threads touch regions of the pool):

* `StoresListed`: `Spec => []WritableIsListed` (which contains the types);
* `CrashConsistent`: `Spec => []SafeUnlessBroken`;
* `CleanRegionsSaved`: `Spec => []CleanIsSaved`;
* `RestartsTogether`: `Spec => RestartTogether`, an action property.

The flag of process 0 decides for all. That what it selects is complete
everywhere rests on the barriers, which keep the processes within one stage of
each other (`StageInv`), and on a checkpoint copying all that has changed. `BaseInv`
(types, control, stages, the flag, lists and modes) holds always; `DataInv` (per
region, what the two copies and the medium hold in each stage) holds while
`broken` is empty. TLC checked both on the instance of `Page`.

`MpiEpoch_proofs`, from `MpiAssumption` (at least one process; an even modulus
greater than 2, which is what two slots chosen by parity need):

* `EpochsStayClose`: `Spec => []EpochsClose` (which contains the types);
* `SameCheckpointRestored`: `Spec => []SameCheckpoint`.

A process is at most one arrival at the barrier ahead of another (`CountInv`),
hence at most one epoch (`EpochInv`), and the one ahead still has the checkpoint
before in its other slot (`SlotInv`, `PairInv`), so the smallest epoch can be
restored everywhere (`AgreeInv`, `MinInv`). A call writes to the slot that does not
count, and only there unless the event undone happens (`CallStep`). These are facts about pairs of
processes; what ties the minimum to them is that a nonempty set of naturals has a
least element. What the slots restore is claimed while `broken` is empty. TLC
checked the invariant with two processes and up to three calls.

`CheckpointBarrier_proofs`, from `BarrierAssumption` (finitely many threads,
nonempty groups) and the hypothesis `SameSize`, that all calls of `checkpoint` have
equally many threads, as the instance of `BarrierFixed` has. The hypothesis is
needed: entries of `local_sense` beyond the smaller number would keep an old sense
(section 4). That threads can be overtaken does not matter for these theorems:
such a thread stays where it is.

* `TypeCorrect`: `Spec => []TypeOK`;
* `NobodyLeavesEarly`: `Spec => []BarrierTogether`;
* `LeaderWorksAlone`: `Spec => []LeaderAlone`.

Thread ids go back to 0 before the last threads have left the call, so an id, and
the sense stored under it, may belong to a thread of the next call while its
former owner is still in the latch. The invariant divides the threads into those
that have returned or entered the next call (`New`) and the others, gives each the
barrier it has passed last (`PassedInv`: the same for all), and says who owns an id
(`IdInv`), which entries of `local_sense` are reversed (`SenseInv`: exactly those of
threads that have arrived and are not released) and the same for the latch before
and after the leader adds to it (`LatchInv`). A spinning thread that sees the flag
it waits for has therefore been released. `CounterInv` makes the last one to
arrive the only one that opens the barrier; `LeaderInv` is the latch's part of
`LeaderAlone`. TLC checked the invariant with three threads, with one group and
with two of the same size.

`HybridInstEngine_proofs`, from `ImageAssumption` and `HybridAssumption` (at least
one thread, lists with room for a block, stores of at least one block):

* `CrashConsistent`: `Spec => []SafeUnlessBroken`;
* `SidesAgree`: `Spec => []SidesDifferWherePending` (which contains the types);
* `DurableWhenReturned`: `Spec => CheckpointDurable`, an action property;
* `Restarted`: `Spec => RestartsFromSnapshot`, an action property.

A checkpoint writes only what is dirty, and only to one side; that this is enough
depends on what every earlier checkpoint left on that side. `IndInv` has three
parts. `TypeOK` is the first. `ControlInv` holds always: where the threads stand in
each phase (`PcInv`), what each has left to copy (`TodoInv`), that a dirty block is
on a list or some list is full (`ListInv`), what that means for the mode (`ModeInv`),
and what is empty when (`EmptyInv`, `OwnerInv`). `DataInv` holds while `broken` is
empty: bindings are one to one (`BindInv`), the two slots of states agree where they
must (`SlotInv`, `StateInv`), the medium holds what loads see except where a copy is
under way (`MediumInv`), the side a state names holds the checkpoint (`SnapInv`), a
clean block is the same in DRAM, on the side committed and, unless a copy is
pending, on the other (`CleanInv`), a dirty one is still to be copied or has arrived
(`DirtyInv`), and bound segments have two equal sides where nothing is pending
(`SidesInv`). The proof has a lemma per action and part. TLC checked the invariant
with two threads, with 3 main and 2 back segments and with 2 main segments and 1
back segment. Between reading a binding and copying, a thread of the catch-up
knows only that its segment is one that is to be synchronised (`TodoInv`); that the
binding is still the same when it copies is what the event stale excludes.

The event overwrite came out of this proof. With a single back segment it cannot
happen (the other segment that is dirty in the epoch between takes the back
segment, which is a steal); the step of `Apply` that copies to the side the state
names could not be proved, and TLC then found the loss with two back segments. The
model names the event, and `HybridSides` is an instance that reaches it.

Only model-checked:

* the properties of `LrMalloc`, whose free lists are sequences walked by their
  `next` fields: that a list holds a block once is an induction over its length;
* all liveness properties (`CheckpointReturns`, `BarrierEnds`, `CheckpointStarts`,
  `BackgroundEnds`, `CloseEnds`, `CallsReturn`), which are out of the prover's reach;
* `ClassFits` of `SizeClass`, a statement about one table of constants (powers of two
  and divisions) that TLC evaluates completely.

## 6. What is not modelled, and the plan

What could be added is proofs: for fewer back than main segments, what `NvmInstEngine`
keeps for the blocks whose back segment was never stolen, and the accounting of
`LrMalloc`.

Not modelled: the LLVM pass (its subject is LLVM IR), the kernel module (its
effect is in `FlushParallel`), the file system layer (I/O), the pool interface
and the trivial engines (forwarding), the registry of several pools, the root
pointers of the allocator, statistics and timing; code of builds that are not
the default: `USE_IDENTICAL_DATA`, `USE_MULTI_THREADS_RECOVERY` and the write-back
thread of `HybridInstEngine`. Sizes in bytes are abstracted to segments, regions
and superblocks, which leaves out three limits read in the code: the `int` index
of the copy loops (`common.h:187`) for pools of 2 GiB and more, the 32-bit
`block_size` of a large object (`lrmalloc_allocator.cpp:78`), and the file size that
`OpenForMPI` computes before it rounds the capacity up (`mprotect_engine.cpp:424`).
