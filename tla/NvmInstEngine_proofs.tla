------------------------ MODULE NvmInstEngine_proofs ------------------------
(***************************************************************************)
(* Proofs about the default engine.  For every size of the pool, every     *)
(* number of threads and every number of crashes: the variables keep their *)
(* types, the binding of back segments survives stealing and restarts, and *)
(* a segment stored to in this epoch never loses its back segment.  With a *)
(* back segment for every main segment, for the run that stores and all    *)
(* restarts after it: a crash at any step leaves the last checkpoint, what *)
(* a checkpoint returned from is durable, and the engine implements the    *)
(* abstract snapshot.                                                      *)
(***************************************************************************)
EXTENDS NvmInstEngine, FiniteSetTheorems, TLAPS

-----------------------------------------------------------------------------
(* The inductive invariant.                                                *)

\* Worker w is inside lazy_write_back, and holds the lock of its segment.
Holds(w) == pc[w] \in {"copy", "fence", "state"}

\* The segment a worker writes back exists; the cleaner's next one too.
TargetInv ==
  /\ \A w \in Workers : pc[w] = "lwb" \/ Holds(w) => target[w] \in Segments
  /\ cleaner_state = "RUNNING" => target[Cleaner] \in Segments

\* A worker that holds a segment lock holds it alone, and its segment is bound.
LockInv ==
  /\ \A w \in Workers : Holds(w) => /\ LockOf(target[w]) \in segment_locks
                                    /\ main_to_back[target[w]] # Null
  /\ \A w, x \in Workers : w # x /\ Holds(w) /\ Holds(x)
                             => LockOf(target[w]) # LockOf(target[x])

\* What is committed in which phase.
PhaseInv ==
  /\ phase = "run" => committing = "None"
  /\ phase \in {"lock", "flush", "writeback", "writeback_fence"} => committing = "Main"
  /\ phase = "states" => committing \in {"Main", "Back"}
  /\ phase \in {"open", "recover"} => committing = "Recovery"

\* Until the image is recovered nobody stores and nothing is marked.
QuietInv ==
  ~Up => /\ \A w \in Workers : pc[w] \in {"app", "blocked"}
         /\ segment_dirty = {}

\* On the medium no main segment has two back segments, and with as many back
\* as main segments none is without; only then copy-on-write may be skipped.
MediumInv ==
  /\ \A c, d \in BackSegments : back_to_main[c] = back_to_main[d] => c = d
  /\ nr_main_segments = nr_back_segments =>
       \A s \in Segments : \E c \in BackSegments : back_to_main[c] = s
  /\ skip_copy_on_write => nr_main_segments = nr_back_segments

StructInv == TargetInv /\ LockInv /\ PhaseInv /\ QuietInv /\ MediumInv
             /\ BindingInverse /\ DirtyIsBound

IndInv == TypeOK /\ StructInv

-----------------------------------------------------------------------------
(* Facts about the operators.                                              *)

\* Stores leave a memory of the same type as loads see it (Write),
LEMMA WriteType ==
  ASSUME NEW D, NEW S, NEW mem \in [D -> S], NEW X, NEW val \in [D -> S]
  PROVE  Write(mem, X, val) \in [D -> S]
BY DEF Write

\* ... and leave a location with a nonempty set of possible values (Put).
LEMMA PutType ==
  ASSUME NEW D, NEW S, NEW pm \in [D -> (SUBSET S) \ {{}}], NEW X,
         NEW val \in [D -> S]
  PROVE  Put(pm, X, val) \in [D -> (SUBSET S) \ {{}}]
BY DEF Put

\* ... and so do flushes and fences (Settle).
LEMMA SettleType ==
  ASSUME NEW D, NEW S, NEW pm \in [D -> (SUBSET S) \ {{}}], NEW X,
         NEW val \in [D -> S]
  PROVE  Settle(pm, X, val) \in [D -> (SUBSET S) \ {{}}]
BY DEF Settle

\* What a write-back copies to a back block is the content of a main block.
LEMMA BackDataType ==
  ASSUME TypeOK
  PROVE  BackData \in [BackBlocks -> Contents]
<1>1. ASSUME NEW d \in BackBlocks
      PROVE  <<back_to_main[d[1]], d[2]>> \in Blocks
  BY <1>1 DEF TypeOK, ImageTypeOK, BackBlocks, Blocks
<1>2. QED
  BY <1>1 DEF TypeOK, ImageTypeOK, BackData

\* The search for a back segment stays within the back segments.
LEMMA CandidateType ==
  ASSUME TypeOK, NEW n \in BackSegments
  PROVE  Candidate(n) \in BackSegments /\ NextBack(Candidate(n)) \in BackSegments
<1>1. \A k \in Nat : k % nr_back_segments \in 0 .. (nr_back_segments - 1)
  BY ImageAssumption
<1>2. next_back_id + n \in Nat
  BY ImageAssumption DEF TypeOK, BackSegments
<1>3. Candidate(n) \in BackSegments
  BY <1>1, <1>2 DEF Candidate, BackSegments
<1>4. Candidate(n) + 1 \in Nat
  BY <1>3, ImageAssumption DEF BackSegments
<1>5. QED
  BY <1>1, <1>3, <1>4 DEF NextBack, BackSegments

\* A lock's number is a lock's number.
LEMMA LockOfType ==
  ASSUME NEW s \in Segments
  PROVE  LockOf(s) \in Locks
<1>1. s \in Nat
  BY ImageAssumption DEF Segments
<1>2. QED
  BY <1>1, EngineAssumption DEF LockOf, Locks

\* Blocks in an address buffer are blocks.
LEMMA BufferedType ==
  ASSUME TypeOK, NEW t \in Threads
  PROVE  Buffered(t) \subseteq Blocks
BY DEF TypeOK, Buffered
\* hook_routine lists and marks blocks.
LEMMA HookType ==
  ASSUME TypeOK, NEW t \in Threads, NEW B \in SUBSET Blocks, hook_routine(t, B)
  PROVE  flush_blocks' \in [Threads -> SUBSET Blocks] /\ block_dirty' \subseteq Blocks
BY DEF TypeOK, hook_routine

\* Every step keeps the types.
LEMMA TypeStep ==
  ASSUME IndInv, [Next]_vars
  PROVE  TypeOK'
<1> USE DEF imageVars, threadVars, hookVars, lockVars, ckptVars, cleanerVars,
            historyVars, Goto
<1>t. TypeOK /\ TargetInv /\ PhaseInv
  BY DEF IndInv, StructInv
<1>1. ASSUME NEW t \in Threads, BeginStore(t) PROVE TypeOK'
  <2>1. \A R \in Ranges : R \subseteq Blocks /\ {b[1] : b \in R} \subseteq Segments
    BY EngineAssumption DEF Blocks
  <2>2. QED
    BY <1>t, <1>1, <2>1 DEF BeginStore, TypeOK, ImageTypeOK, PcSet, Workers
<1>2. ASSUME NEW t \in Threads, CopyOnWriteHook(t) PROVE TypeOK'
  <2>1. \A s \in pending[t] : s \in Segments /\ s \in 0 .. nr_main_segments
    BY <1>t, ImageAssumption DEF TypeOK, Segments
  <2>2. PICK s \in pending[t] :
          \/ /\ segment_dirty' = segment_dirty \cup {s}
             /\ pending' = [pending EXCEPT ![t] = @ \ {s}]
             /\ UNCHANGED <<pc, target>>
          \/ /\ target' = [target EXCEPT ![t] = s]
             /\ pc' = [pc EXCEPT ![t] = "lwb"]
             /\ UNCHANGED <<segment_dirty, pending>>
    BY <1>2 DEF CopyOnWriteHook
  <2>3. /\ segment_dirty' \subseteq Segments
        /\ pending' \in [Threads -> SUBSET Segments]
        /\ target' \in [Workers -> 0 .. nr_main_segments]
        /\ pc' \in [Workers -> PcSet]
    BY <1>t, <2>1, <2>2 DEF TypeOK, PcSet, Workers
  <2>4. QED
    BY <1>t, <1>2, <2>3 DEF CopyOnWriteHook, TypeOK, ImageTypeOK
<1>3. ASSUME NEW t \in Threads, FinishStore(t) PROVE TypeOK'
  <2>1. \A v \in Values : /\ v \in Contents
                          /\ Put(main_pm, range[t], [b \in Blocks |-> v])
                               \in [Blocks -> (SUBSET Contents) \ {{}}]
    BY <1>t, PutType DEF TypeOK, ImageTypeOK, Contents
  <2>2. ASSUME Cardinality(range[t]) = 1
        PROVE  Append(address_buffer[t], CHOOSE b \in range[t] : TRUE) \in Seq(Blocks)
    <3>1. range[t] # {}
      BY <2>2, FS_EmptySet
    <3>2. (CHOOSE b \in range[t] : TRUE) \in Blocks
      BY <1>t, <3>1 DEF TypeOK
    <3>3. QED
      BY <1>t, <3>2 DEF TypeOK
  <2>3. address_buffer' \in [Threads -> Seq(Blocks)]
    <3>1. \/ address_buffer' = address_buffer
          \/ address_buffer' = [address_buffer EXCEPT ![t] = <<>>]
          \/ /\ Cardinality(range[t]) = 1
             /\ address_buffer' = [address_buffer EXCEPT
                  ![t] = Append(address_buffer[t], CHOOSE b \in range[t] : TRUE)]
      BY <1>3 DEF FinishStore
    <3>2. <<>> \in Seq(Blocks) /\ address_buffer \in [Threads -> Seq(Blocks)]
      BY <1>t DEF TypeOK
    <3>3. QED
      BY <2>2, <3>1, <3>2
  <2>4. /\ flush_blocks' \in [Threads -> SUBSET Blocks]
        /\ block_dirty' \subseteq Blocks
    <3>1. \/ UNCHANGED <<flush_blocks, block_dirty>>
          \/ hook_routine(t, Buffered(t) \cup range[t])
          \/ hook_routine(t, range[t])
      BY <1>3 DEF FinishStore
    <3>2. range[t] \in SUBSET Blocks /\ Buffered(t) \cup range[t] \in SUBSET Blocks
      BY <1>t, BufferedType DEF TypeOK
    <3>3. CASE UNCHANGED <<flush_blocks, block_dirty>>
      BY <1>t, <3>3 DEF TypeOK
    <3>4. QED
      BY <1>t, <3>1, <3>2, <3>3, HookType
  <2>5. /\ main' \in [Blocks -> Contents] /\ app' \in [Blocks -> Contents]
        /\ main_pm' \in [Blocks -> (SUBSET Contents) \ {{}}]
    <3>1. PICK v \in Values :
            /\ main' = [b \in Blocks |-> IF b \in range[t] THEN v ELSE main[b]]
            /\ main_pm' = Put(main_pm, range[t], [b \in Blocks |-> v])
            /\ app' = [b \in Blocks |-> IF b \in range[t] THEN v ELSE app[b]]
      BY <1>3 DEF FinishStore
    <3>2. QED
      BY <1>t, <2>1, <3>1 DEF TypeOK, ImageTypeOK
  <2>6. /\ range' \in [Threads -> SUBSET Blocks] /\ pc' \in [Workers -> PcSet]
        /\ UNCHANGED <<committed_epoch, attributes, segment_state, segment_state_pm,
                       segment_state_dirty, back_to_main, main_to_back, back, back_pm,
                       pending, target, created, segment_dirty, lockVars, ckptVars,
                       cleanerVars, runs, snap>>
    BY <1>t, <1>3 DEF FinishStore, TypeOK, PcSet, Workers
  <2>7. QED
    BY <1>t, <2>3, <2>4, <2>5, <2>6 DEF TypeOK, ImageTypeOK
<1>4. ASSUME NEW w \in Workers, target[w] \in Segments, Return(w)
      PROVE  /\ pc' \in [Workers -> PcSet] /\ target' \in [Workers -> 0 .. nr_main_segments]
             /\ cleaner_state' \in {"IDLE", "STARTED", "RUNNING"}
             /\ pending' \in [Threads -> SUBSET Segments]
             /\ segment_dirty' \subseteq Segments
  <2>1. target[w] + 1 \in 0 .. nr_main_segments /\ 0 \in 0 .. nr_main_segments
    BY <1>4, ImageAssumption DEF Segments
  <2>2. CASE w = Cleaner
    BY <1>t, <1>4, <2>1, <2>2 DEF Return, TypeOK, PcSet, Workers
  <2>3. CASE w # Cleaner
    <3>1. w \in Threads
      BY <2>3 DEF Workers
    <3>2. /\ pc' = [pc EXCEPT ![w] = "hook"]
          /\ pending' = [pending EXCEPT ![w] = @ \ {target[w]}]
          /\ segment_dirty' = segment_dirty \cup {target[w]}
          /\ target' = [target EXCEPT ![w] = 0]
          /\ cleaner_state' = cleaner_state
      BY <1>4, <2>3 DEF Return
    <3>3. QED
      BY <1>t, <1>4, <2>1, <3>1, <3>2 DEF TypeOK, PcSet
  <2>4. QED
    BY <2>2, <2>3
<1>5. ASSUME NEW w \in Workers, LazyNothingToDo(w) PROVE TypeOK'
  <2>1. target[w] \in Segments /\ Return(w)
    BY <1>t, <1>5 DEF LazyNothingToDo, TargetInv
  <2>2. QED
    BY <1>t, <1>4, <1>5, <2>1 DEF LazyNothingToDo, TypeOK, ImageTypeOK
<1>6. ASSUME NEW w \in Workers, LazyLock(w) PROVE TypeOK'
  <2>1. LockOf(target[w]) \in Locks
    BY <1>t, <1>6, LockOfType DEF LazyLock, TargetInv
  <2>2. QED
    BY <1>t, <1>6, <2>1 DEF LazyLock, TypeOK, ImageTypeOK, PcSet
<1>7. ASSUME NEW w \in Workers, LazyAllocate(w) PROVE TypeOK'
  <2>1. target[w] \in Segments /\ LockOf(target[w]) \in Locks
    BY <1>t, <1>7, LockOfType DEF LazyAllocate, TargetInv
  <2>2. PICK n \in BackSegments : /\ bind_back_segment(target[w], Candidate(n))
                                  /\ next_back_id' = NextBack(Candidate(n))
    BY <1>7 DEF LazyAllocate
  <2>3. Candidate(n) \in BackSegments /\ next_back_id' \in BackSegments
    BY <1>t, <2>2, CandidateType
  <2>4. /\ back_to_main' \in [BackSegments -> Segments]
        /\ main_to_back' \in [Segments -> BackSegments \cup {Null}]
    BY <1>t, <2>1, <2>2, <2>3 DEF bind_back_segment, TypeOK, ImageTypeOK
  <2>5. QED
    BY <1>t, <1>7, <2>1, <2>3, <2>4 DEF LazyAllocate, TypeOK, ImageTypeOK, PcSet
<1>8. ASSUME NEW w \in Workers, LazyCopy(w) PROVE TypeOK'
  <2>1. back' \in [BackBlocks -> Contents] /\ back_pm' \in [BackBlocks -> (SUBSET Contents) \ {{}}]
    BY <1>t, <1>8, WriteType, PutType, BackDataType DEF LazyCopy, TypeOK, ImageTypeOK
  <2>2. QED
    BY <1>t, <1>8, <2>1 DEF LazyCopy, TypeOK, ImageTypeOK, PcSet
<1>9. ASSUME NEW w \in Workers, LazyFence(w) PROVE TypeOK'
  <2>1. back_pm' \in [BackBlocks -> (SUBSET Contents) \ {{}}]
    BY <1>t, <1>9, SettleType DEF LazyFence, TypeOK, ImageTypeOK
  <2>2. target[w] \in Segments /\ Active \in 0 .. 1
    BY <1>t, <1>9 DEF LazyFence, TargetInv, Holds, Active, TypeOK, ImageTypeOK
  <2>3. /\ segment_state' \in [0 .. 1 -> [Segments -> States]]
        /\ segment_state_pm' \in [0 .. 1 -> [Segments -> (SUBSET States) \ {{}}]]
    BY <1>t, <1>9, <2>2 DEF LazyFence, TypeOK, ImageTypeOK, States
  <2>4. pc' \in [Workers -> PcSet]
    BY <1>t, <1>9 DEF LazyFence, TypeOK, PcSet
  <2>5. UNCHANGED <<committed_epoch, attributes, segment_state_dirty, back_to_main,
                    main_to_back, main, main_pm, back, range, pending, target, created,
                    hookVars, lockVars, ckptVars, cleanerVars, runs, historyVars>>
    BY <1>9 DEF LazyFence
  <2>6. QED
    BY <1>t, <2>1, <2>3, <2>4, <2>5 DEF TypeOK, ImageTypeOK
<1>10. ASSUME NEW w \in Workers, LazyDone(w) PROVE TypeOK'
  <2>1. target[w] \in Segments /\ Return(w)
    BY <1>t, <1>10 DEF LazyDone, TargetInv, Holds
  <2>2. Active \in 0 .. 1 /\ Inactive \in 0 .. 1 /\ Active # Inactive
    BY <1>t DEF Active, Inactive, TypeOK, ImageTypeOK
  <2>3. segment_state' \in [0 .. 1 -> [Segments -> States]]
    BY <1>t, <1>10, <2>1, <2>2 DEF LazyDone, TypeOK, ImageTypeOK, States
  <2>4. segment_state_pm' \in [0 .. 1 -> [Segments -> (SUBSET States) \ {{}}]]
    BY <1>t, <1>10, <2>1, <2>2 DEF LazyDone, TypeOK, ImageTypeOK, States
  <2>5. /\ pc' \in [Workers -> PcSet] /\ target' \in [Workers -> 0 .. nr_main_segments]
        /\ cleaner_state' \in {"IDLE", "STARTED", "RUNNING"}
        /\ pending' \in [Threads -> SUBSET Segments]
        /\ segment_dirty' \subseteq Segments
    BY <1>4, <2>1
  <2>6. /\ block_dirty' \subseteq Blocks /\ segment_locks' \subseteq Locks
        /\ created' \in [Workers -> BOOLEAN]
        /\ UNCHANGED <<committed_epoch, attributes, segment_state_dirty, back_to_main,
                       main_to_back, main, main_pm, back, back_pm, range, address_buffer,
                       flush_blocks, next_back_id, ckptVars, cleaner_mutex, runs,
                       historyVars>>
    BY <1>t, <1>10 DEF LazyDone, TypeOK
  <2>7. QED
    BY <1>t, <2>3, <2>4, <2>5, <2>6 DEF TypeOK, ImageTypeOK
<1>11. ASSUME NEW t \in Threads, CheckpointEnter(t) PROVE TypeOK'
  BY <1>t, <1>11 DEF CheckpointEnter, TypeOK, ImageTypeOK, PcSet, Workers
<1>12. StatesSettled \in [0 .. 1 -> [Segments -> (SUBSET States) \ {{}}]]
  <2>1. \A e \in 0 .. 1, s \in Segments : segment_state[e][s] \in States
    BY <1>t DEF TypeOK, ImageTypeOK
  <2>2. QED
    BY <2>1 DEF StatesSettled
<1>13. ASSUME CheckpointBegin PROVE TypeOK'
  <2>1. Drained \subseteq Blocks
    BY <1>t, BufferedType DEF Drained
  <2>2. /\ flush_blocks' \in [Threads -> SUBSET Blocks]
        /\ block_dirty' \subseteq Blocks
    BY <1>t, <1>13, <2>1, HookType DEF CheckpointBegin
  <2>3. flush_mode' \in {"NO_ACTION", "USE_FLUSH_BLOCKS", "WBINVD"}
    BY <1>13 DEF CheckpointBegin, Mode
  <2>4. address_buffer' \in [Threads -> Seq(Blocks)]
    BY <1>13 DEF CheckpointBegin
  <2>5. /\ pc' \in [Workers -> PcSet]
        /\ phase' \in {"run", "lock", "flush", "states", "commit", "sync", "writeback",
                       "writeback_fence", "finish", "open", "recover"}
        /\ committing' \in {"None", "Main", "Back", "Recovery"}
        /\ thread_busy' \in BOOLEAN /\ checkpoint_in_progress' \in BOOLEAN
        /\ skip_copy_on_write' \in BOOLEAN
    BY <1>t, <1>13 DEF CheckpointBegin, TypeOK, PcSet
  <2>6. QED
    BY <1>t, <1>12, <1>13, <2>2, <2>3, <2>4, <2>5
    DEF CheckpointBegin, TypeOK, ImageTypeOK
<1>14. ASSUME CheckpointLock PROVE TypeOK'
  BY <1>t, <1>14 DEF CheckpointLock, TypeOK, ImageTypeOK
<1>15. ASSUME FlushParallel PROVE TypeOK'
  <2>1. main_pm' \in [Blocks -> (SUBSET Contents) \ {{}}]
    BY <1>t, <1>15, SettleType DEF FlushParallel, TypeOK, ImageTypeOK
  <2>2. QED
    BY <1>t, <1>15, <2>1 DEF FlushParallel, TypeOK, ImageTypeOK
<1>16. ASSUME NEW S \in SUBSET Segments, NEW state \in States,
              set_segment_state(S, state)
       PROVE  /\ segment_state' \in [0 .. 1 -> [Segments -> States]]
              /\ segment_state_pm' \in [0 .. 1 -> [Segments -> (SUBSET States) \ {{}}]]
              /\ segment_state_dirty' \subseteq Lines
  <2> DEFINE new == [s \in Segments |-> IF s \in S THEN state
                                        ELSE segment_state[Inactive][s]]
  <2>1. Inactive \in 0 .. 1
    BY <1>t DEF Inactive, TypeOK, ImageTypeOK
  <2>2. new \in [Segments -> States]
    BY <1>t, <2>1 DEF TypeOK, ImageTypeOK
  <2>3. Put(segment_state_pm[Inactive], S, new) \in [Segments -> (SUBSET States) \ {{}}]
    BY <1>t, <2>1, <2>2, PutType DEF TypeOK, ImageTypeOK
  <2>4. segment_state' = [segment_state EXCEPT ![Inactive] = new]
    BY <1>16 DEF set_segment_state
  <2>5. segment_state_pm' = [segment_state_pm EXCEPT
                               ![Inactive] = Put(segment_state_pm[Inactive], S, new)]
    BY <1>16 DEF set_segment_state
  <2>6. segment_state_dirty' \subseteq Lines
    BY <1>t, <1>16 DEF set_segment_state, Lines, TypeOK, ImageTypeOK
  <2> HIDE DEF new
  <2>7. QED
    BY <1>t, <2>1, <2>2, <2>3, <2>4, <2>5, <2>6 DEF TypeOK, ImageTypeOK
<1>17. ASSUME CommitLayoutState PROVE TypeOK'
  <2>1. LayoutSegments \in SUBSET Segments
    BY <1>t DEF LayoutSegments, Listed, TypeOK, Blocks
  <2>2. committing \in States
    BY <1>t, <1>17 DEF CommitLayoutState, PhaseInv, States
  <2>3. set_segment_state(LayoutSegments, committing)
    BY <1>17 DEF CommitLayoutState
  <2>4. /\ segment_state' \in [0 .. 1 -> [Segments -> States]]
        /\ segment_state_pm' \in [0 .. 1 -> [Segments -> (SUBSET States) \ {{}}]]
        /\ segment_state_dirty' \subseteq Lines
    BY <1>16, <2>1, <2>2, <2>3
  <2>5. QED
    BY <1>t, <1>17, <2>4 DEF CommitLayoutState, TypeOK, ImageTypeOK
<1>18. ASSUME CommitEpoch
       PROVE  /\ segment_state_pm' \in [0 .. 1 -> [Segments -> (SUBSET States) \ {{}}]]
              /\ committed_epoch' \in 0 .. 1
  <2>1. Inactive \in 0 .. 1
    BY <1>t DEF Inactive, TypeOK, ImageTypeOK
  <2>2. Settle(segment_state_pm[Inactive], SegmentsOfLines(segment_state_dirty),
               segment_state[Inactive]) \in [Segments -> (SUBSET States) \ {{}}]
    BY <1>t, <2>1, SettleType DEF TypeOK, ImageTypeOK
  <2>3. QED
    BY <1>t, <1>18, <2>1, <2>2 DEF CommitEpoch, TypeOK, ImageTypeOK
<1>19. ASSUME CommitLayoutEpoch PROVE TypeOK'
  <2>1. CommitEpoch
    BY <1>19 DEF CommitLayoutEpoch
  <2>2. UNCHANGED <<segment_state, segment_state_dirty>>
    BY <2>1 DEF CommitEpoch
  <2>3. QED
    BY <1>t, <1>18, <1>19, <2>1, <2>2 DEF CommitLayoutEpoch, TypeOK, ImageTypeOK
<1>20. ASSUME SyncLayoutStates PROVE TypeOK'
  <2> DEFINE S == SegmentsOfLines(segment_state_dirty)
             new == [s \in Segments |-> IF s \in S THEN segment_state[Active][s]
                                        ELSE segment_state[Inactive][s]]
  <2>1. Active \in 0 .. 1 /\ Inactive \in 0 .. 1
    BY <1>t DEF Active, Inactive, TypeOK, ImageTypeOK
  <2>2. new \in [Segments -> States]
    BY <1>t, <2>1 DEF TypeOK, ImageTypeOK
  <2>3. Put(segment_state_pm[Inactive], S, new) \in [Segments -> (SUBSET States) \ {{}}]
    BY <1>t, <2>1, <2>2, PutType DEF TypeOK, ImageTypeOK
  <2>4. /\ segment_state' = [segment_state EXCEPT ![Inactive] = new]
        /\ segment_state_pm' = [segment_state_pm EXCEPT
                                  ![Inactive] = Put(segment_state_pm[Inactive], S, new)]
        /\ segment_state_dirty' = {} /\ UNCHANGED committed_epoch
    BY <1>20 DEF SyncLayoutStates, CopyStates
  <2> HIDE DEF new
  <2>5. /\ segment_state' \in [0 .. 1 -> [Segments -> States]]
        /\ segment_state_pm' \in [0 .. 1 -> [Segments -> (SUBSET States) \ {{}}]]
    BY <1>t, <2>1, <2>2, <2>3, <2>4 DEF TypeOK, ImageTypeOK
  <2>6. QED
    BY <1>t, <1>20, <2>4, <2>5 DEF SyncLayoutStates, TypeOK, ImageTypeOK
<1>21. ASSUME WriteBackParallel PROVE TypeOK'
  <2>1. back' \in [BackBlocks -> Contents] /\ back_pm' \in [BackBlocks -> (SUBSET Contents) \ {{}}]
    BY <1>t, <1>21, WriteType, PutType, BackDataType DEF WriteBackParallel, TypeOK, ImageTypeOK
  <2>2. QED
    BY <1>t, <1>21, <2>1 DEF WriteBackParallel, TypeOK, ImageTypeOK
<1>22. ASSUME WriteBackFence PROVE TypeOK'
  <2>1. back_pm' \in [BackBlocks -> (SUBSET Contents) \ {{}}]
    BY <1>t, <1>22, SettleType DEF WriteBackFence, TypeOK, ImageTypeOK
  <2>2. QED
    BY <1>t, <1>12, <1>22, <2>1 DEF WriteBackFence, TypeOK, ImageTypeOK
<1>23. ASSUME CheckpointFinish PROVE TypeOK'
  <2>1. /\ block_dirty' \subseteq Blocks /\ segment_dirty' \subseteq Segments
        /\ cleaner_state' \in {"IDLE", "STARTED", "RUNNING"}
        /\ cleaner_mutex' \in {"free", "leader", "cleaner"}
    BY <1>t, <1>23 DEF CheckpointFinish, clear_dirty_bits, TypeOK
  <2>2. pc' \in [Workers -> PcSet]
    BY <1>t, <1>23 DEF CheckpointFinish, TypeOK, PcSet
  <2>3. flush_blocks' \in [Threads -> SUBSET Blocks]
    BY <1>23 DEF CheckpointFinish
  <2>4. QED
    BY <1>t, <1>12, <1>23, <2>1, <2>2, <2>3 DEF CheckpointFinish, TypeOK, ImageTypeOK
<1>24. ASSUME CleanerAcquire PROVE TypeOK'
  BY <1>t, <1>24 DEF CleanerAcquire, TypeOK, ImageTypeOK, PcSet, Workers
<1>25. ASSUME CleanerLoop PROVE TypeOK'
  BY <1>t, <1>25, ImageAssumption DEF CleanerLoop, TypeOK, ImageTypeOK, PcSet, Workers
<1>26. ASSUME Die PROVE TypeOK'
  <2>1. /\ main' \in [Blocks -> Contents]
        /\ main_pm' \in [Blocks -> (SUBSET Contents) \ {{}}]
        /\ back' \in [BackBlocks -> Contents]
        /\ back_pm' \in [BackBlocks -> (SUBSET Contents) \ {{}}]
    BY <1>t, <1>26 DEF Die, Resolve, TypeOK, ImageTypeOK
  <2>2. /\ segment_state' \in [0 .. 1 -> [Segments -> States]]
        /\ segment_state_pm' \in [0 .. 1 -> [Segments -> (SUBSET States) \ {{}}]]
    <3>1. PICK s0 \in Resolve(segment_state_pm[0], States),
               s1 \in Resolve(segment_state_pm[1], States) :
            /\ segment_state' = [e \in 0 .. 1 |-> IF e = 0 THEN s0 ELSE s1]
            /\ segment_state_pm' = [e \in 0 .. 1 |->
                 [s \in Segments |-> {IF e = 0 THEN s0[s] ELSE s1[s]}]]
      BY <1>26 DEF Die
    <3>2. s0 \in [Segments -> States] /\ s1 \in [Segments -> States]
      BY <1>t DEF Resolve, TypeOK, ImageTypeOK
    <3>3. \A e \in 0 .. 1, s \in Segments :
            {IF e = 0 THEN s0[s] ELSE s1[s]} \in (SUBSET States) \ {{}}
      BY <3>2
    <3>4. QED
      BY <3>1, <3>2, <3>3
  <2>3. runs' \in 1 .. (MaxRuns + 1)
    BY <1>t, <1>26, EngineAssumption DEF Die, TypeOK
  <2>4. 0 \in BackSegments /\ 0 \in 0 .. nr_main_segments
    BY ImageAssumption DEF BackSegments
  <2>5. VolatileReset
    BY <1>26 DEF Die
  <2>6. /\ pc' \in [Workers -> PcSet] /\ target' \in [Workers -> 0 .. nr_main_segments]
        /\ created' \in [Workers -> BOOLEAN] /\ next_back_id' \in BackSegments
        /\ address_buffer' \in [Threads -> Seq(Blocks)]
        /\ flush_blocks' \in [Threads -> SUBSET Blocks]
        /\ range' \in [Threads -> SUBSET Blocks]
        /\ pending' \in [Threads -> SUBSET Segments]
    BY <2>4, <2>5 DEF VolatileReset, PcSet
  <2>7. QED
    BY <1>t, <1>26, <2>1, <2>2, <2>3, <2>5, <2>6
    DEF Die, VolatileReset, TypeOK, ImageTypeOK
<1>27. ASSUME OpenImage PROVE TypeOK'
  <2>1. Rebuilt \in [Segments -> BackSegments \cup {Null}]
    BY DEF Rebuilt
  <2>2. QED
    BY <1>t, <1>27, <2>1 DEF OpenImage, TypeOK, ImageTypeOK
<1>28. ASSUME RecoveryCopy PROVE TypeOK'
  <2> DEFINE fromBack == BlocksIn("Back")
             new == [b \in Blocks |-> IF b \in fromBack THEN back[BackBlock(b[1], b)]
                                      ELSE main[b]]
  <2>1. ASSUME NEW b \in Blocks, b \in fromBack
        PROVE  back[BackBlock(b[1], b)] \in Contents
    <3>1. b[1] \in Segments /\ main_to_back[b[1]] # Null /\ b[2] \in Offsets
      BY <2>1 DEF BlocksIn, BlocksOf, Bound, Blocks
    <3>2. BackBlock(b[1], b) \in BackBlocks
      BY <1>t, <3>1 DEF BackBlock, BackBlocks, TypeOK, ImageTypeOK
    <3>3. QED
      BY <1>t, <3>2 DEF TypeOK, ImageTypeOK
  <2>2. new \in [Blocks -> Contents]
    BY <1>t, <2>1 DEF TypeOK, ImageTypeOK
  <2>3. main' = new /\ main_pm' = Put(main_pm, fromBack, new)
    BY <1>28 DEF RecoveryCopy
  <2> HIDE DEF new, fromBack
  <2>4. /\ main' \in [Blocks -> Contents]
        /\ main_pm' \in [Blocks -> (SUBSET Contents) \ {{}}]
    BY <1>t, <2>2, <2>3, PutType DEF TypeOK, ImageTypeOK
  <2>5. back' \in [BackBlocks -> Contents] /\ back_pm' \in [BackBlocks -> (SUBSET Contents) \ {{}}]
    BY <1>t, <1>28, WriteType, PutType, BackDataType DEF RecoveryCopy, TypeOK, ImageTypeOK
  <2>6. Bound("Main") \in SUBSET Segments /\ "Back" \in States
    BY DEF Bound, States
  <2>7. set_segment_state(Bound("Main"), "Back")
    BY <1>28 DEF RecoveryCopy
  <2>8. /\ segment_state' \in [0 .. 1 -> [Segments -> States]]
        /\ segment_state_pm' \in [0 .. 1 -> [Segments -> (SUBSET States) \ {{}}]]
        /\ segment_state_dirty' \subseteq Lines
    BY <1>16, <2>6, <2>7
  <2>9. QED
    BY <1>t, <1>28, <2>4, <2>5, <2>8 DEF RecoveryCopy, TypeOK, ImageTypeOK
<1>29. ASSUME RecoveryCommit PROVE TypeOK'
  <2>1. CommitEpoch
    BY <1>29 DEF RecoveryCommit
  <2>2. UNCHANGED <<segment_state, segment_state_dirty>>
    BY <2>1 DEF CommitEpoch
  <2>3. main_pm' \in [Blocks -> (SUBSET Contents) \ {{}}]
    BY <1>t, <1>29, SettleType DEF RecoveryCommit, TypeOK, ImageTypeOK
  <2>4. back_pm' \in [BackBlocks -> (SUBSET Contents) \ {{}}]
    BY <1>t, <1>29, SettleType DEF RecoveryCommit, TypeOK, ImageTypeOK
  <2>5. QED
    BY <1>t, <1>18, <1>29, <2>1, <2>2, <2>3, <2>4 DEF RecoveryCommit, TypeOK, ImageTypeOK
<1>30. ASSUME OpenDone PROVE TypeOK'
  BY <1>t, <1>12, <1>30 DEF OpenDone, TypeOK, ImageTypeOK
<1>31. ASSUME UNCHANGED vars PROVE TypeOK'
  BY <1>t, <1>31 DEF vars, TypeOK, ImageTypeOK
<1>32. QED
  BY <1>1, <1>2, <1>3, <1>5, <1>6, <1>7, <1>8, <1>9, <1>10, <1>11, <1>13, <1>14,
     <1>15, <1>17, <1>19, <1>20, <1>21, <1>22, <1>23, <1>24, <1>25, <1>26, <1>27,
     <1>28, <1>29, <1>30, <1>31
  DEF Next, Hooks, LazyWriteBack, Stealing, Checkpoint, CleanerStep, Recovery, Crash,
      AllocateFail, Workers

\* What does not touch locks, targets or bindings, and lets nobody into
\* lazy_write_back, leaves the locks as they were.
LEMMA LockFrame ==
  ASSUME TargetInv, LockInv,
         UNCHANGED <<target, segment_locks, main_to_back>>,
         \A w \in Workers : pc'[w] \in {"lwb", "copy", "fence", "state"} => pc'[w] = pc[w],
         cleaner_state' = "RUNNING" => cleaner_state = "RUNNING"
  PROVE  TargetInv' /\ LockInv'
BY DEF TargetInv, LockInv, Holds

\* What neither binds a segment nor marks one dirty keeps the bindings.
LEMMA BindFrame ==
  ASSUME MediumInv, BindingInverse, DirtyIsBound,
         UNCHANGED <<back_to_main, main_to_back>>,
         skip_copy_on_write' => skip_copy_on_write \/ nr_main_segments = nr_back_segments,
         segment_dirty' \subseteq segment_dirty,
         phase = "open" => phase' = "open"
  PROVE  MediumInv' /\ BindingInverse' /\ DirtyIsBound'
BY DEF MediumInv, BindingInverse, DirtyIsBound

\* Every step keeps the rest of the invariant.
LEMMA StructStep ==
  ASSUME IndInv, [Next]_vars
  PROVE  StructInv'
<1> USE DEF imageVars, threadVars, hookVars, lockVars, ckptVars, cleanerVars,
            historyVars, Goto, Up
<1>t. /\ TypeOK /\ TargetInv /\ LockInv /\ PhaseInv /\ QuietInv
      /\ MediumInv /\ BindingInverse /\ DirtyIsBound
  BY DEF IndInv, StructInv
<1>1. ASSUME NEW t \in Threads, BeginStore(t) PROVE StructInv'
  <2>1. TargetInv' /\ LockInv'
    BY <1>t, <1>1, LockFrame DEF BeginStore, TypeOK, Workers
  <2>2. PhaseInv' /\ QuietInv'
    BY <1>t, <1>1 DEF BeginStore, PhaseInv, QuietInv, TypeOK, Workers
  <2>3. MediumInv' /\ BindingInverse' /\ DirtyIsBound'
    BY <1>t, <1>1, BindFrame DEF BeginStore, TypeOK
  <2>4. QED
    BY <2>1, <2>2, <2>3 DEF StructInv
<1>2. ASSUME NEW t \in Threads, FinishStore(t) PROVE StructInv'
  <2>1. TargetInv' /\ LockInv'
    BY <1>t, <1>2, LockFrame DEF FinishStore, TypeOK, Workers
  <2>2. PhaseInv' /\ QuietInv'
    BY <1>t, <1>2 DEF FinishStore, PhaseInv, QuietInv, TypeOK, Workers
  <2>3. MediumInv' /\ BindingInverse' /\ DirtyIsBound'
    BY <1>t, <1>2, BindFrame DEF FinishStore, TypeOK
  <2>4. QED
    BY <2>1, <2>2, <2>3 DEF StructInv
<1>3. ASSUME NEW t \in Threads, CheckpointEnter(t) PROVE StructInv'
  <2>1. TargetInv' /\ LockInv'
    BY <1>t, <1>3, LockFrame DEF CheckpointEnter, TypeOK, Workers
  <2>2. PhaseInv' /\ QuietInv'
    BY <1>t, <1>3 DEF CheckpointEnter, PhaseInv, QuietInv, TypeOK, Workers
  <2>3. MediumInv' /\ BindingInverse' /\ DirtyIsBound'
    BY <1>t, <1>3, BindFrame DEF CheckpointEnter, TypeOK
  <2>4. QED
    BY <2>1, <2>2, <2>3 DEF StructInv
<1>4. ASSUME CheckpointBegin PROVE StructInv'
  <2>1. TargetInv' /\ LockInv'
    BY <1>t, <1>4, LockFrame DEF CheckpointBegin, TypeOK, Workers
  <2>2. PhaseInv' /\ QuietInv'
    BY <1>t, <1>4 DEF CheckpointBegin, PhaseInv, QuietInv, TypeOK, Workers
  <2>3. MediumInv' /\ BindingInverse' /\ DirtyIsBound'
    <3>1. /\ UNCHANGED <<back_to_main, main_to_back, segment_dirty>>
          /\ phase # "open"
      BY <1>4 DEF CheckpointBegin
    <3>2. skip_copy_on_write' => skip_copy_on_write \/ nr_main_segments = nr_back_segments
      BY <1>t, <1>4 DEF CheckpointBegin, TypeOK
    <3>3. QED
      BY <1>t, <3>1, <3>2, BindFrame
  <2>4. QED
    BY <2>1, <2>2, <2>3 DEF StructInv
<1>5. ASSUME CheckpointLock PROVE StructInv'
  <2>1. TargetInv' /\ LockInv'
    BY <1>t, <1>5, LockFrame DEF CheckpointLock, TypeOK, Workers
  <2>2. PhaseInv' /\ QuietInv'
    BY <1>t, <1>5 DEF CheckpointLock, PhaseInv, QuietInv, TypeOK, Workers
  <2>3. MediumInv' /\ BindingInverse' /\ DirtyIsBound'
    BY <1>t, <1>5, BindFrame DEF CheckpointLock, TypeOK
  <2>4. QED
    BY <2>1, <2>2, <2>3 DEF StructInv
<1>6. ASSUME FlushParallel PROVE StructInv'
  <2>1. TargetInv' /\ LockInv'
    BY <1>t, <1>6, LockFrame DEF FlushParallel, TypeOK, Workers
  <2>2. PhaseInv' /\ QuietInv'
    BY <1>t, <1>6 DEF FlushParallel, PhaseInv, QuietInv, TypeOK, Workers
  <2>3. MediumInv' /\ BindingInverse' /\ DirtyIsBound'
    BY <1>t, <1>6, BindFrame DEF FlushParallel, TypeOK
  <2>4. QED
    BY <2>1, <2>2, <2>3 DEF StructInv
<1>7. ASSUME CommitLayoutState PROVE StructInv'
  <2>1. TargetInv' /\ LockInv'
    BY <1>t, <1>7, LockFrame DEF CommitLayoutState, TypeOK, Workers
  <2>2. PhaseInv' /\ QuietInv'
    BY <1>t, <1>7 DEF CommitLayoutState, PhaseInv, QuietInv, TypeOK, Workers
  <2>3. MediumInv' /\ BindingInverse' /\ DirtyIsBound'
    BY <1>t, <1>7, BindFrame DEF CommitLayoutState, TypeOK
  <2>4. QED
    BY <2>1, <2>2, <2>3 DEF StructInv
<1>8. ASSUME CommitLayoutEpoch PROVE StructInv'
  <2>1. TargetInv' /\ LockInv'
    BY <1>t, <1>8, LockFrame DEF CommitLayoutEpoch, TypeOK, Workers
  <2>2. PhaseInv' /\ QuietInv'
    BY <1>t, <1>8 DEF CommitLayoutEpoch, PhaseInv, QuietInv, TypeOK, Workers
  <2>3. MediumInv' /\ BindingInverse' /\ DirtyIsBound'
    BY <1>t, <1>8, BindFrame DEF CommitLayoutEpoch, TypeOK
  <2>4. QED
    BY <2>1, <2>2, <2>3 DEF StructInv
<1>9. ASSUME SyncLayoutStates PROVE StructInv'
  <2>1. TargetInv' /\ LockInv'
    BY <1>t, <1>9, LockFrame DEF SyncLayoutStates, TypeOK, Workers
  <2>2. PhaseInv' /\ QuietInv'
    BY <1>t, <1>9 DEF SyncLayoutStates, PhaseInv, QuietInv, TypeOK, Workers
  <2>3. MediumInv' /\ BindingInverse' /\ DirtyIsBound'
    BY <1>t, <1>9, BindFrame DEF SyncLayoutStates, TypeOK
  <2>4. QED
    BY <2>1, <2>2, <2>3 DEF StructInv
<1>10. ASSUME WriteBackParallel PROVE StructInv'
  <2>1. TargetInv' /\ LockInv'
    BY <1>t, <1>10, LockFrame DEF WriteBackParallel, TypeOK, Workers
  <2>2. PhaseInv' /\ QuietInv'
    BY <1>t, <1>10 DEF WriteBackParallel, PhaseInv, QuietInv, TypeOK, Workers
  <2>3. MediumInv' /\ BindingInverse' /\ DirtyIsBound'
    BY <1>t, <1>10, BindFrame DEF WriteBackParallel, TypeOK
  <2>4. QED
    BY <2>1, <2>2, <2>3 DEF StructInv
<1>11. ASSUME WriteBackFence PROVE StructInv'
  <2>1. TargetInv' /\ LockInv'
    BY <1>t, <1>11, LockFrame DEF WriteBackFence, TypeOK, Workers
  <2>2. PhaseInv' /\ QuietInv'
    BY <1>t, <1>11 DEF WriteBackFence, PhaseInv, QuietInv, TypeOK, Workers
  <2>3. MediumInv' /\ BindingInverse' /\ DirtyIsBound'
    BY <1>t, <1>11, BindFrame DEF WriteBackFence, TypeOK
  <2>4. QED
    BY <2>1, <2>2, <2>3 DEF StructInv
<1>12. ASSUME CheckpointFinish PROVE StructInv'
  <2>1. TargetInv' /\ LockInv'
    BY <1>t, <1>12, LockFrame DEF CheckpointFinish, clear_dirty_bits, TypeOK, Workers
  <2>2. PhaseInv' /\ QuietInv'
    BY <1>t, <1>12 DEF CheckpointFinish, PhaseInv, QuietInv, TypeOK, Workers
  <2>3. MediumInv' /\ BindingInverse' /\ DirtyIsBound'
    BY <1>t, <1>12, BindFrame DEF CheckpointFinish, clear_dirty_bits, TypeOK
  <2>4. QED
    BY <2>1, <2>2, <2>3 DEF StructInv
<1>13. ASSUME CleanerAcquire PROVE StructInv'
  <2>1. TargetInv' /\ LockInv'
    BY <1>t, <1>13, LockFrame DEF CleanerAcquire, TypeOK, Workers
  <2>2. PhaseInv' /\ QuietInv'
    BY <1>t, <1>13 DEF CleanerAcquire, PhaseInv, QuietInv, TypeOK, Workers
  <2>3. MediumInv' /\ BindingInverse' /\ DirtyIsBound'
    BY <1>t, <1>13, BindFrame DEF CleanerAcquire, TypeOK
  <2>4. QED
    BY <2>1, <2>2, <2>3 DEF StructInv
<1>14. ASSUME RecoveryCopy PROVE StructInv'
  <2>1. TargetInv' /\ LockInv'
    BY <1>t, <1>14, LockFrame DEF RecoveryCopy, TypeOK, Workers
  <2>2. PhaseInv' /\ QuietInv'
    BY <1>t, <1>14 DEF RecoveryCopy, PhaseInv, QuietInv, TypeOK, Workers
  <2>3. MediumInv' /\ BindingInverse' /\ DirtyIsBound'
    BY <1>t, <1>14, BindFrame DEF RecoveryCopy, TypeOK
  <2>4. QED
    BY <2>1, <2>2, <2>3 DEF StructInv
<1>15. ASSUME RecoveryCommit PROVE StructInv'
  <2>1. TargetInv' /\ LockInv'
    BY <1>t, <1>15, LockFrame DEF RecoveryCommit, TypeOK, Workers
  <2>2. PhaseInv' /\ QuietInv'
    BY <1>t, <1>15 DEF RecoveryCommit, PhaseInv, QuietInv, TypeOK, Workers
  <2>3. MediumInv' /\ BindingInverse' /\ DirtyIsBound'
    BY <1>t, <1>15, BindFrame DEF RecoveryCommit, TypeOK
  <2>4. QED
    BY <2>1, <2>2, <2>3 DEF StructInv
<1>16. ASSUME OpenDone PROVE StructInv'
  <2>1. TargetInv' /\ LockInv'
    BY <1>t, <1>16, LockFrame DEF OpenDone, TypeOK, Workers
  <2>2. PhaseInv' /\ QuietInv'
    BY <1>t, <1>16 DEF OpenDone, PhaseInv, QuietInv, TypeOK, Workers
  <2>3. MediumInv' /\ BindingInverse' /\ DirtyIsBound'
    BY <1>t, <1>16, BindFrame DEF OpenDone, TypeOK
  <2>4. QED
    BY <2>1, <2>2, <2>3 DEF StructInv
<1>17. ASSUME NEW s \in Segments, skip_copy_on_write, Up PROVE main_to_back[s] # Null
  <2>1. phase # "open"
    BY <1>t, <1>17 DEF PhaseInv
  <2>2. PICK c \in BackSegments : back_to_main[c] = s
    BY <1>t, <1>17 DEF MediumInv
  <2>3. main_to_back[s] = c /\ c # Null
    BY <1>t, <2>1, <2>2, ImageAssumption DEF BindingInverse, BackSegments
  <2>4. QED
    BY <2>3
<1>18. ASSUME NEW t \in Threads, CopyOnWriteHook(t) PROVE StructInv'
  <2>1. PICK s \in pending[t] :
          \/ /\ s \in segment_dirty \/ skip_copy_on_write
             /\ segment_dirty' = segment_dirty \cup {s}
             /\ UNCHANGED <<pc, target>>
          \/ /\ target' = [target EXCEPT ![t] = s]
             /\ pc' = [pc EXCEPT ![t] = "lwb"]
             /\ UNCHANGED segment_dirty
    BY <1>18 DEF CopyOnWriteHook
  <2>2. s \in Segments /\ Up /\ t \in Workers /\ t # Cleaner
    BY <1>t, <1>18, EngineAssumption DEF CopyOnWriteHook, QuietInv, TypeOK, Workers
  <2>3. UNCHANGED <<main_to_back, back_to_main, segment_locks, cleaner_state, phase,
                    committing, skip_copy_on_write>>
    BY <1>18 DEF CopyOnWriteHook
  <2>4. TargetInv' /\ LockInv'
    <3>1. CASE UNCHANGED <<pc, target>>
      BY <1>t, <2>3, <3>1 DEF TargetInv, LockInv, Holds
    <3>2. CASE /\ target' = [target EXCEPT ![t] = s]
               /\ pc' = [pc EXCEPT ![t] = "lwb"]
      <4>1. /\ pc'[t] = "lwb" /\ target'[t] \in Segments
            /\ \A x \in Workers \ {t} : pc'[x] = pc[x] /\ target'[x] = target[x]
        BY <1>t, <2>2, <3>2 DEF TypeOK
      <4>2. Cleaner \in Workers \ {t}
        BY <2>2 DEF Workers
      <4>3. QED
        BY <1>t, <2>3, <4>1, <4>2 DEF TargetInv, LockInv, Holds
    <3>3. QED
      BY <2>1, <3>1, <3>2
  <2>5. PhaseInv' /\ QuietInv'
    BY <1>t, <2>2, <2>3 DEF PhaseInv, QuietInv
  <2>6. DirtyIsBound'
    BY <1>t, <1>17, <2>1, <2>2, <2>3 DEF DirtyIsBound
  <2>7. MediumInv' /\ BindingInverse'
    BY <1>t, <2>3 DEF MediumInv, BindingInverse
  <2>8. QED
    BY <2>4, <2>5, <2>6, <2>7 DEF StructInv
<1>19. ASSUME NEW w \in Workers, target[w] \in Segments, Return(w)
       PROVE  /\ \A x \in Workers \ {w} : pc'[x] = pc[x] /\ target'[x] = target[x]
              /\ pc'[w] \in {"loop", "hook"}
              /\ cleaner_state' = "RUNNING" => target'[Cleaner] \in Segments
              /\ segment_dirty' \subseteq segment_dirty \cup {target[w]}
              /\ w = Cleaner => segment_dirty' = segment_dirty
  <2>1. CASE w = Cleaner
    <3>1. target'[Cleaner] = target[Cleaner] + 1 /\ target[Cleaner] + 1 \in Nat
      BY <1>t, <1>19, <2>1, ImageAssumption DEF Return, TypeOK, Segments
    <3>2. target[Cleaner] + 1 # nr_main_segments => target[Cleaner] + 1 \in Segments
      BY <1>19, <2>1, ImageAssumption DEF Segments
    <3>3. cleaner_state' = "RUNNING" => target'[Cleaner] \in Segments
      BY <1>19, <2>1, <3>1, <3>2 DEF Return
    <3>4. QED
      BY <1>t, <1>19, <2>1, <3>3 DEF Return, TypeOK
  <2>2. CASE w # Cleaner
    BY <1>t, <1>19, <2>2 DEF Return, TypeOK, TargetInv, Workers
  <2>3. QED
    BY <2>1, <2>2
<1>20. ASSUME NEW w \in Workers, LazyNothingToDo(w) PROVE StructInv'
  <2>1. target[w] \in Segments /\ Return(w) /\ Up
    BY <1>t, <1>20 DEF LazyNothingToDo, TargetInv, QuietInv
  <2>2. UNCHANGED <<main_to_back, back_to_main, segment_locks, phase, committing,
                    skip_copy_on_write>>
    BY <1>20 DEF LazyNothingToDo
  <2>3. TargetInv' /\ LockInv'
    BY <1>t, <1>19, <2>1, <2>2 DEF TargetInv, LockInv, Holds
  <2>4. w = Cleaner \/ main_to_back[target[w]] # Null
    BY <1>20 DEF LazyNothingToDo
  <2>5. DirtyIsBound'
    BY <1>t, <1>19, <2>1, <2>2, <2>4 DEF DirtyIsBound
  <2>6. PhaseInv' /\ QuietInv' /\ MediumInv' /\ BindingInverse'
    BY <1>t, <2>1, <2>2 DEF PhaseInv, QuietInv, MediumInv, BindingInverse
  <2>7. QED
    BY <2>3, <2>5, <2>6 DEF StructInv
<1>21. ASSUME NEW w \in Workers, LazyLock(w) PROVE StructInv'
  <2>1. /\ target[w] \in Segments /\ Up /\ main_to_back[target[w]] # Null
        /\ LockOf(target[w]) \notin segment_locks
    BY <1>t, <1>21 DEF LazyLock, TargetInv, QuietInv
  <2>2. /\ UNCHANGED <<target, main_to_back, back_to_main, segment_dirty, cleaner_state,
                       phase, committing, skip_copy_on_write>>
        /\ segment_locks' = segment_locks \cup {LockOf(target[w])}
        /\ pc' = [pc EXCEPT ![w] = "copy"]
    BY <1>21 DEF LazyLock
  <2>3. TargetInv' /\ LockInv'
    BY <1>t, <2>1, <2>2 DEF TargetInv, LockInv, Holds, TypeOK
  <2>4. /\ PhaseInv' /\ QuietInv' /\ MediumInv' /\ BindingInverse' /\ DirtyIsBound'
    BY <1>t, <2>1, <2>2 DEF PhaseInv, QuietInv, MediumInv, BindingInverse, DirtyIsBound
  <2>5. QED
    BY <2>3, <2>4 DEF StructInv
<1>22. ASSUME NEW w \in Workers, LazyAllocate(w) PROVE StructInv'
  <2>1. /\ target[w] \in Segments /\ Up /\ main_to_back[target[w]] = Null
        /\ LockOf(target[w]) \notin segment_locks /\ phase # "open"
    BY <1>t, <1>22 DEF LazyAllocate, TargetInv, QuietInv, PhaseInv
  <2>2. /\ UNCHANGED <<target, segment_dirty, cleaner_state, phase, committing,
                       skip_copy_on_write>>
        /\ segment_locks' = segment_locks \cup {LockOf(target[w])}
        /\ pc' = [pc EXCEPT ![w] = "copy"]
    BY <1>22 DEF LazyAllocate
  <2>3. PICK n \in BackSegments : Stealable(n) /\ bind_back_segment(target[w], Candidate(n))
    BY <1>22 DEF LazyAllocate
  <2> DEFINE s == target[w]
             c == Candidate(n)
             old == back_to_main[c]
  <2>4. c \in BackSegments /\ c # Null /\ old \in Segments
    <3>1. c \in BackSegments
      BY <1>t, CandidateType
    <3>2. \A k \in BackSegments : k # Null
      BY ImageAssumption DEF BackSegments
    <3>3. QED
      BY <1>t, <3>1, <3>2 DEF TypeOK, ImageTypeOK
  <2>5. /\ old \notin segment_dirty /\ LockOf(old) \notin segment_locks
        /\ old # s /\ main_to_back[old] = c
    BY <1>t, <2>1, <2>2, <2>3, <2>4 DEF Stealable, BindingInverse
  <2>6. /\ back_to_main' = [back_to_main EXCEPT ![c] = s]
        /\ main_to_back' = [r \in Segments |-> CASE r = s -> c
                                  [] r # s /\ main_to_back[r] = c -> Null
                                  [] OTHER -> main_to_back[r]]
    BY <2>3 DEF bind_back_segment
  <2>7. \A r \in Segments : main_to_back[r] = c => r = old
    BY <1>t, <2>1, <2>4 DEF BindingInverse
  <2>8. s \in Segments /\ s = target[w]
    BY <2>1
  <2> HIDE DEF s, c, old
  <2>9. /\ main_to_back'[s] = c
        /\ \A r \in Segments \ {s, old} : main_to_back'[r] = main_to_back[r]
    BY <2>6, <2>7, <2>8
  <2>10. TargetInv'
    BY <1>t, <2>1, <2>2 DEF TargetInv, Holds, TypeOK
  <2>11. LockInv'
    <3>1. ASSUME NEW x \in Workers, Holds(x)
          PROVE  /\ x # w /\ target[x] \in Segments /\ target[x] # s /\ target[x] # old
                 /\ LockOf(target[x]) # LockOf(s)
      BY <1>t, <1>22, <2>1, <2>5, <2>8, <3>1
      DEF TargetInv, LockInv, Holds, LazyAllocate
    <3>2. \A x \in Workers : Holds(x)' => x = w \/ Holds(x)
      BY <1>t, <2>2 DEF Holds, TypeOK
    <3>3. QED
      BY <1>t, <2>2, <2>4, <2>8, <2>9, <3>1, <3>2 DEF LockInv
  <2>12. PhaseInv' /\ QuietInv'
    BY <1>t, <2>1, <2>2 DEF PhaseInv, QuietInv
  <2>13. nr_main_segments # nr_back_segments
    BY <1>t, <2>1, ImageAssumption DEF MediumInv, BindingInverse, BackSegments
  <2>14. \A d \in BackSegments : back_to_main[d] # s
    BY <1>t, <2>1, <2>8, ImageAssumption DEF BindingInverse, BackSegments
  <2>15. MediumInv'
    BY <1>t, <2>2, <2>4, <2>6, <2>13, <2>14 DEF MediumInv, TypeOK, ImageTypeOK
  <2>16. BindingInverse'
    <3>1. ASSUME NEW r \in Segments, main_to_back'[r] # Null
          PROVE  back_to_main'[main_to_back'[r]] = r
      <4>1. CASE r = s
        BY <1>t, <2>4, <2>6, <2>9, <4>1 DEF TypeOK, ImageTypeOK
      <4>2. CASE r # s
        <5>1. main_to_back'[r] = main_to_back[r] /\ main_to_back[r] # c
          BY <2>6, <3>1, <4>2
        <5>2. main_to_back[r] \in BackSegments /\ back_to_main[main_to_back[r]] = r
          BY <1>t, <2>1, <3>1, <5>1 DEF BindingInverse, TypeOK, ImageTypeOK
        <5>3. QED
          BY <1>t, <2>6, <5>1, <5>2 DEF TypeOK, ImageTypeOK
      <4>3. QED
        BY <4>1, <4>2
    <3>2. ASSUME NEW d \in BackSegments
          PROVE  main_to_back'[back_to_main'[d]] = d
      <4>1. CASE d = c
        BY <1>t, <2>4, <2>6, <2>9, <4>1 DEF TypeOK, ImageTypeOK
      <4>2. CASE d # c
        <5>1. back_to_main'[d] = back_to_main[d] /\ back_to_main[d] \in Segments
          BY <1>t, <2>6, <4>2 DEF TypeOK, ImageTypeOK
        <5>2. back_to_main[d] # s /\ main_to_back[back_to_main[d]] = d
          BY <1>t, <2>1, <2>14 DEF BindingInverse
        <5>3. QED
          BY <2>6, <4>2, <5>1, <5>2
      <4>3. QED
        BY <4>1, <4>2
    <3>3. QED
      BY <3>1, <3>2 DEF BindingInverse
  <2>17. DirtyIsBound'
    BY <1>t, <2>2, <2>4, <2>5, <2>9 DEF DirtyIsBound, TypeOK
  <2>18. QED
    BY <2>10, <2>11, <2>12, <2>15, <2>16, <2>17 DEF StructInv
<1>23. ASSUME NEW w \in Workers, LazyCopy(w) PROVE StructInv'
  <2>1. Holds(w) /\ Up
    BY <1>t, <1>23 DEF LazyCopy, Holds, QuietInv
  <2>2. /\ UNCHANGED <<target, segment_locks, main_to_back, back_to_main, segment_dirty,
                       cleaner_state, phase, committing, skip_copy_on_write>>
        /\ pc' = [pc EXCEPT ![w] = "fence"]
    BY <1>23 DEF LazyCopy
  <2>3. TargetInv' /\ LockInv'
    BY <1>t, <2>1, <2>2 DEF TargetInv, LockInv, Holds, TypeOK
  <2>4. /\ PhaseInv' /\ QuietInv' /\ MediumInv' /\ BindingInverse' /\ DirtyIsBound'
    BY <1>t, <2>1, <2>2 DEF PhaseInv, QuietInv, MediumInv, BindingInverse, DirtyIsBound
  <2>5. QED
    BY <2>3, <2>4 DEF StructInv
<1>24. ASSUME NEW w \in Workers, LazyFence(w) PROVE StructInv'
  <2>1. Holds(w) /\ Up
    BY <1>t, <1>24 DEF LazyFence, Holds, QuietInv
  <2>2. /\ UNCHANGED <<target, segment_locks, main_to_back, back_to_main, segment_dirty,
                       cleaner_state, phase, committing, skip_copy_on_write>>
        /\ pc' = [pc EXCEPT ![w] = "state"]
    BY <1>24 DEF LazyFence
  <2>3. TargetInv' /\ LockInv'
    BY <1>t, <2>1, <2>2 DEF TargetInv, LockInv, Holds, TypeOK
  <2>4. /\ PhaseInv' /\ QuietInv' /\ MediumInv' /\ BindingInverse' /\ DirtyIsBound'
    BY <1>t, <2>1, <2>2 DEF PhaseInv, QuietInv, MediumInv, BindingInverse, DirtyIsBound
  <2>5. QED
    BY <2>3, <2>4 DEF StructInv
<1>25. ASSUME NEW w \in Workers, LazyDone(w) PROVE StructInv'
  <2>1. target[w] \in Segments /\ Return(w) /\ Up /\ Holds(w)
    BY <1>t, <1>25 DEF LazyDone, TargetInv, QuietInv, Holds
  <2>2. /\ UNCHANGED <<main_to_back, back_to_main, phase, committing, skip_copy_on_write>>
        /\ segment_locks' = segment_locks \ {LockOf(target[w])}
    BY <1>25 DEF LazyDone
  <2>3. TargetInv' /\ LockInv'
    BY <1>t, <1>19, <2>1, <2>2 DEF TargetInv, LockInv, Holds
  <2>4. DirtyIsBound'
    BY <1>t, <1>19, <2>1, <2>2 DEF DirtyIsBound, LockInv
  <2>5. PhaseInv' /\ QuietInv' /\ MediumInv' /\ BindingInverse'
    BY <1>t, <2>1, <2>2 DEF PhaseInv, QuietInv, MediumInv, BindingInverse
  <2>6. QED
    BY <2>3, <2>4, <2>5 DEF StructInv
<1>26. ASSUME CleanerLoop PROVE StructInv'
  <2>1. Up /\ Cleaner \in Workers /\ 0 \in Segments
    BY <1>t, <1>26, ImageAssumption DEF CleanerLoop, QuietInv, Workers, Segments
  <2>2. UNCHANGED <<segment_locks, main_to_back, back_to_main, segment_dirty, phase,
                    committing, skip_copy_on_write>>
    BY <1>26 DEF CleanerLoop
  <2>3. TargetInv' /\ LockInv'
    BY <1>t, <1>26, <2>1, <2>2 DEF CleanerLoop, TargetInv, LockInv, Holds, TypeOK
  <2>4. /\ PhaseInv' /\ QuietInv' /\ MediumInv' /\ BindingInverse' /\ DirtyIsBound'
    BY <1>t, <2>1, <2>2 DEF PhaseInv, QuietInv, MediumInv, BindingInverse, DirtyIsBound
  <2>5. QED
    BY <2>3, <2>4 DEF StructInv
<1>27. ASSUME Die PROVE StructInv'
  <2>1. /\ pc' = [w \in Workers |-> IF w = Cleaner THEN "blocked" ELSE "app"]
        /\ segment_dirty' = {} /\ cleaner_state' = "IDLE" /\ skip_copy_on_write' = FALSE
        /\ phase' = "open" /\ committing' = "Recovery" /\ back_to_main' = back_to_main
    BY <1>27 DEF Die, VolatileReset
  <2>2. TargetInv' /\ LockInv' /\ PhaseInv' /\ QuietInv'
    BY <2>1 DEF TargetInv, LockInv, Holds, PhaseInv, QuietInv
  <2>3. MediumInv' /\ BindingInverse' /\ DirtyIsBound'
    BY <1>t, <2>1 DEF MediumInv, BindingInverse, DirtyIsBound
  <2>4. QED
    BY <2>2, <2>3 DEF StructInv
<1>28. ASSUME OpenImage PROVE StructInv'
  <2>1. /\ UNCHANGED <<pc, target, segment_locks, segment_dirty, cleaner_state,
                       committing, skip_copy_on_write, back_to_main>>
        /\ main_to_back' = Rebuilt /\ phase' = "recover" /\ phase = "open"
    BY <1>28 DEF OpenImage
  <2>2. /\ ~Up /\ segment_dirty = {}
        /\ \A w \in Workers : pc[w] \in {"app", "blocked"}
    BY <1>t, <2>1 DEF PhaseInv, QuietInv
  <2>3. TargetInv' /\ LockInv'
    BY <1>t, <2>1, <2>2 DEF TargetInv, LockInv, Holds
  <2>4. PhaseInv' /\ QuietInv' /\ MediumInv' /\ DirtyIsBound'
    BY <1>t, <2>1, <2>2 DEF PhaseInv, QuietInv, MediumInv, DirtyIsBound
  <2>5. \A s \in Segments : Rebuilt[s] # Null =>
          Rebuilt[s] \in BackSegments /\ back_to_main[Rebuilt[s]] = s
    BY DEF Rebuilt
  <2>6. ASSUME NEW c \in BackSegments PROVE Rebuilt[back_to_main[c]] = c
    <3>1. back_to_main[c] \in Segments
      BY <1>t DEF TypeOK, ImageTypeOK
    <3>2. Rebuilt[back_to_main[c]] = CHOOSE d \in BackSegments : back_to_main[d] = back_to_main[c]
      BY <3>1 DEF Rebuilt
    <3>3. QED
      BY <1>t, <3>2 DEF MediumInv
  <2>7. BindingInverse'
    BY <2>1, <2>5, <2>6 DEF BindingInverse
  <2>8. QED
    BY <2>3, <2>4, <2>7 DEF StructInv
<1>29. ASSUME UNCHANGED vars PROVE StructInv'
  <2>1. UNCHANGED <<pc, target, segment_locks, segment_dirty, cleaner_state, phase,
                    committing, skip_copy_on_write, back_to_main, main_to_back>>
    BY <1>29 DEF vars
  <2>2. QED
    BY <1>t, <2>1 DEF StructInv, TargetInv, LockInv, Holds, PhaseInv, QuietInv, MediumInv,
                      BindingInverse, DirtyIsBound
<1>30. QED
  BY <1>1, <1>2, <1>3, <1>4, <1>5, <1>6, <1>7, <1>8, <1>9, <1>10, <1>11, <1>12, <1>13,
     <1>14, <1>15, <1>16, <1>18, <1>20, <1>21, <1>22, <1>23, <1>24, <1>25, <1>26,
     <1>27, <1>28, <1>29
  DEF Next, Hooks, LazyWriteBack, Stealing, Checkpoint, CleanerStep, Recovery, Crash,
      AllocateFail, Workers

-----------------------------------------------------------------------------
(* The theorems.                                                           *)

\* The invariant holds when the pool has just been created.
LEMMA InitInv ==
  Init => IndInv
<1> SUFFICES ASSUME Init PROVE IndInv
  OBVIOUS
<1>1. 0 \in BackSegments /\ 0 \in 0 .. nr_main_segments /\ BackSegments \subseteq Segments
  BY ImageAssumption DEF BackSegments, Segments
<1>2. ImageTypeOK
  <2>1. /\ segment_state \in [0 .. 1 -> [Segments -> States]]
        /\ segment_state_pm \in [0 .. 1 -> [Segments -> (SUBSET States) \ {{}}]]
    BY DEF Init, ImageInit, States
  <2>2. /\ back_to_main \in [BackSegments -> Segments]
        /\ main_to_back \in [Segments -> BackSegments \cup {Null}]
    BY <1>1 DEF Init, ImageInit
  <2>3. /\ main \in [Blocks -> Contents] /\ main_pm \in [Blocks -> (SUBSET Contents) \ {{}}]
        /\ back \in [BackBlocks -> Contents]
        /\ back_pm \in [BackBlocks -> (SUBSET Contents) \ {{}}]
    BY DEF Init, ImageInit, Contents
  <2>4. committed_epoch = 0 /\ attributes = FALSE /\ segment_state_dirty = {}
    BY DEF Init, ImageInit
  <2>5. committed_epoch \in 0 .. 1
    BY <2>4
  <2>6. attributes \in BOOLEAN
    BY <2>4, Zenon
  <2>7. segment_state_dirty \subseteq Lines
    BY <2>4
  <2>8. QED
    BY <2>1, <2>2, <2>3, <2>5, <2>6, <2>7 DEF ImageTypeOK
<1>3. TypeOK
  <2>1. MaxRuns + 1 \in Nat /\ 1 \in 1 .. (MaxRuns + 1)
    BY EngineAssumption
  <2>2. /\ pc \in [Workers -> PcSet] /\ target \in [Workers -> 0 .. nr_main_segments]
        /\ created \in [Workers -> BOOLEAN] /\ range \in [Threads -> SUBSET Blocks]
        /\ pending \in [Threads -> SUBSET Segments]
        /\ flush_blocks \in [Threads -> SUBSET Blocks]
    BY <1>1 DEF Init, VolatileInit, PcSet
  <2>3. /\ app \in [Blocks -> Contents] /\ snap \in [Blocks -> Contents]
        /\ address_buffer \in [Threads -> Seq(Blocks)]
    BY DEF Init, VolatileInit, Contents
  <2>4. QED
    BY <1>1, <1>2, <2>1, <2>2, <2>3 DEF Init, VolatileInit, TypeOK
<1>4. TargetInv /\ LockInv /\ PhaseInv /\ QuietInv /\ DirtyIsBound
  BY DEF Init, VolatileInit, TargetInv, LockInv, Holds, PhaseInv, QuietInv, DirtyIsBound, Up
<1>5. MediumInv
  BY <1>1 DEF Init, ImageInit, VolatileInit, MediumInv, BackSegments, Segments
<1>6. BindingInverse
  BY <1>1 DEF Init, ImageInit, BindingInverse
<1>7. QED
  BY <1>3, <1>4, <1>5, <1>6 DEF IndInv, StructInv

\* The inductive invariant holds in every state of every behaviour.
LEMMA IndInvHolds ==
  Spec => []IndInv
<1>1. Init => IndInv
  BY InitInv
<1>2. IndInv /\ [Next]_vars => IndInv'
  BY TypeStep, StructStep DEF IndInv
<1>3. QED
  BY <1>1, <1>2, PTL DEF Spec

\* The fields and locals of the engine keep their types, whatever the sizes of
\* the pool and of its buffers, through stealing, checkpoints and crashes.
THEOREM TypeCorrect ==
  Spec => []TypeOK
<1>1. IndInv => TypeOK
  BY DEF IndInv
<1>2. QED
  BY <1>1, IndInvHolds, PTL

\* back_to_main on the medium and main_to_back in DRAM are inverse to each
\* other for every ratio of back to main segments: bind_back_segment and the
\* rebuilding of the map in Open never let two segments share a back segment.
THEOREM BindingCorrect ==
  Spec => []BindingInverse
<1>1. IndInv => BindingInverse
  BY DEF IndInv, StructInv
<1>2. QED
  BY <1>1, IndInvHolds, PTL

\* No interleaving of hooks, write-backs and stealing takes the back segment
\* away from a segment stored to in this epoch: the copy-on-write of the first
\* store stays where recovery looks for it until the next checkpoint.
THEOREM DirtyStaysBound ==
  Spec => []DirtyIsBound
<1>1. IndInv => DirtyIsBound
  BY DEF IndInv, StructInv
<1>2. QED
  BY <1>1, IndInvHolds, PTL

-----------------------------------------------------------------------------
(* Crash consistency.  It holds in the first run, which stores, and in the *)
(* recoveries and the runs after it, which do not, when every main segment *)
(* has a back segment and the bit set of segments is a whole number of     *)
(* words.  Each condition is needed: a second run that stores may meet a   *)
(* stale slot of states, a stolen back segment takes the copy of its old   *)
(* owner with it, and clear_region leaves the bits of a part of a word.    *)

Intact ==
  /\ MaxRuns = 1
  /\ nr_back_segments = nr_main_segments
  /\ nr_main_segments % kBitWidth = 0

\* A thread is between the beginning and the end of a store.
Storing(t) == pc[t] \in {"hook", "lwb"} \/ Holds(t)

\* The current checkpoint, if there is one, has not taken effect.
Early == \/ phase \in {"run", "lock", "flush"}
         \/ phase \in {"states", "commit"} /\ committing = "Main"

\* Its blocks have been flushed.
Flushed == phase \in {"states", "commit", "sync", "writeback", "writeback_fence", "finish"}

\* Blocks stored to since the last checkpoint.
Touched == Drained \cup {b \in block_dirty : b[1] \in segment_dirty}

\* A worker writes segment s back, and has got as far as its state.
Held(s)     == \E w \in Workers : Holds(w) /\ target[w] = s
Settling(s) == \E w \in Workers : pc[w] = "state" /\ target[w] = s

\* Both copies of block b are the checkpoint, for certain.
Both(b) == main_pm[b] = {snap[b]} /\ back_pm[b] = {snap[b]}

\* Back segment i belongs to main segment i.
OwnBack ==
  /\ back_to_main = [c \in BackSegments |-> c]
  /\ phase # "open" => main_to_back = [s \in Segments |-> s]
  /\ \A w \in Workers : ~created[w]

\* The medium may hold what loads find.
Coherent ==
  /\ \A b \in Blocks : main[b] \in main_pm[b] /\ back[b] \in back_pm[b]
  /\ \A s \in Segments, e \in 0 .. 1 : segment_state[e][s] \in segment_state_pm[e][s]

-----------------------------------------------------------------------------
(* The run that stores.                                                    *)

\* Where the threads and the cleaner are while a checkpoint is under way.
StageInv ==
  /\ Up /\ phase \notin {"open", "recover"}
  /\ \A t \in Threads : /\ pc[t] \notin {"blocked", "loop"}
                        /\ phase # "run" => pc[t] = "ckpt"
  /\ pc[Cleaner] \notin {"app", "hook", "ckpt"}
  /\ pc[Cleaner] # "blocked" => cleaner_mutex = "cleaner"
  /\ pc[Cleaner] = "lwb" \/ Holds(Cleaner) => cleaner_state = "RUNNING"
  /\ phase \notin {"run", "lock"} => cleaner_mutex = "leader" \/ cleaner_state = "IDLE"

\* What the mode decides: the second commit, and the next epoch's hooks.
ModeInv ==
  /\ skip_copy_on_write => cleaner_state = "IDLE"
  /\ phase # "run" =>
       /\ Drained = {}
       /\ flush_mode # "NO_ACTION" /\ flush_mode = Mode(flush_blocks)
       /\ flush_mode = "WBINVD" => ~skip_copy_on_write
       /\ committing \in {"Main", "Back"}
       /\ committing = "Back" \/ phase \in {"writeback", "writeback_fence"}
            => flush_mode = "USE_FLUSH_BLOCKS"
       /\ phase = "finish" /\ flush_mode = "USE_FLUSH_BLOCKS" => committing = "Back"

\* A store is allowed in the segments its hook has visited.
PendInv ==
  \A t \in Threads : Storing(t) =>
    /\ \A b \in range[t] : b[1] \in segment_dirty \cup pending[t]
    /\ pending[t] \subseteq {b[1] : b \in range[t]}
    /\ pc[t] # "hook" => target[t] \in pending[t]

\* The bit sets: a dirty segment has been stored to or is about to be, dirty
\* blocks elsewhere are what the back segment of a Main segment lacks.
BitInv ==
  /\ \A b \in Drained : b[1] \in segment_dirty
  /\ \A b \in block_dirty : \/ b[1] \in segment_dirty \/ StateOf(b[1]) = "Main"
                            \/ Settling(b[1])
  /\ \A s \in segment_dirty :
       \/ \E b \in Touched : b[1] = s
       \/ \E t \in Threads : Storing(t) /\ \E b \in range[t] : b[1] = s

\* The lists have all blocks of this epoch, or one of them is full.
ListInv ==
  /\ \A t \in Threads : flush_blocks[t] \subseteq {b \in block_dirty : b[1] \in segment_dirty}
  /\ \/ \A b \in block_dirty : b[1] \in segment_dirty => b \in Listed
     \/ \E t \in Threads : Cardinality(flush_blocks[t]) >= kMaxFlushBlocks

\* A worker writes back a Main segment that nobody stores to.
HeldInv ==
  /\ \A w \in Workers : Holds(w) =>
       /\ target[w] \notin segment_dirty
       /\ StateOf(target[w]) = IF pc[w] = "state" THEN "Back" ELSE "Main"
  /\ Early => \A s \in segment_dirty : StateOf(s) # "Main"

\* What the cleaner has passed is written back.
PassInv ==
  \A s \in Segments :
    (cleaner_state = "IDLE" \/ (cleaner_state = "RUNNING" /\ s < target[Cleaner]))
    => ~Held(s) /\ (s \in segment_dirty \/ StateOf(s) # "Main")

\* The two slots of states agree, but for what is being committed.
SlotInv ==
  /\ \A s \in Segments : \/ segment_state[Active][s] = segment_state[Inactive][s]
                         \/ Settling(s)
                         \/ phase \in {"commit", "sync"} /\ s \in segment_dirty
                              /\ LineOf(s) \in segment_state_dirty
  /\ phase = "commit" => \A s \in segment_dirty : segment_state[Inactive][s] = committing
  /\ phase \in {"sync", "writeback", "writeback_fence", "finish"} =>
       \A s \in segment_dirty : StateOf(s) = committing
  /\ phase = "states" /\ committing = "Back" => \A s \in segment_dirty : StateOf(s) = "Main"
  /\ phase \notin {"commit", "sync"} => segment_state_dirty = {}

\* A state that may not be on the medium does not matter: both sides are good.
Indifferent(s) == s \notin segment_dirty /\ \A b \in BlocksOf(s) : Both(b)

StateInv ==
  /\ \A s \in Segments : \/ segment_state_pm[Active][s] = {StateOf(s)}
                         \/ Settling(s)
                         \/ phase # "run" /\ Indifferent(s)
  /\ phase \in {"lock", "flush", "states", "commit"} =>
       \A s \in Segments : \/ segment_state_pm[Inactive][s] = {segment_state[Inactive][s]}
                           \/ Indifferent(s)
                           \/ phase = "commit" /\ LineOf(s) \in segment_state_dirty

\* The main segments: what was not stored to is the checkpoint.
MainInv ==
  /\ main = app
  /\ \A b \in Blocks : /\ b \notin Touched \/ Flushed => main_pm[b] = {app[b]}
                       /\ b \notin Touched \/ ~Early => app[b] = snap[b]

\* The back segments: what is not dirty is the checkpoint.
BackInv ==
  /\ \A b \in Blocks :
       /\ \/ StateOf(b[1]) # "Main" \/ b \notin block_dirty
          \/ committing = "Back" /\ b[1] \in segment_dirty
          => back_pm[b] = {snap[b]}
       /\ StateOf(b[1]) = "Initial" => snap[b] = Junk
       /\ phase = "writeback_fence" /\ b \in Listed => back[b] = snap[b]
  /\ \A w \in Workers : pc[w] = "fence" => \A b \in BlocksOf(target[w]) : back[b] = snap[b]

\* The leader that must wait for the cleaner has its mutex.
LeaderInv ==
  phase \notin {"run", "lock"} /\ (thread_busy \/ flush_mode = "WBINVD")
    => cleaner_mutex = "leader"

FirstInv == StageInv /\ ModeInv /\ PendInv /\ BitInv /\ ListInv /\ HeldInv /\ PassInv
            /\ SlotInv /\ StateInv /\ MainInv /\ BackInv

-----------------------------------------------------------------------------
(* After the first crash.                                                  *)

\* The program stores nothing.
IdleInv ==
  /\ \A t \in Threads : pc[t] \in {"app", "ckpt"}
  /\ pc[Cleaner] \in {"blocked", "loop"}
  /\ cleaner_state = "IDLE" /\ ~skip_copy_on_write
  /\ block_dirty = {} /\ segment_dirty = {}
  /\ \A t \in Threads : flush_blocks[t] = {} /\ address_buffer[t] = <<>>
  /\ phase \in {"run", "open", "recover", "commit", "sync", "finish"}
  /\ Up <=> phase = "run"

\* Recovery copies the side that is the checkpoint to the other one.
RecoveryInv ==
  /\ app = snap
  /\ phase \in {"open", "recover", "commit"} =>
       \A s \in Segments : segment_state_pm[Active][s] = {StateOf(s)}
  /\ \A b \in Blocks : snap[b] # Junk =>
       /\ \/ Both(b)
          \/ /\ phase \in {"open", "recover", "commit"}
             /\ \/ StateOf(b[1]) = "Main" /\ main_pm[b] = {snap[b]}
                \/ StateOf(b[1]) = "Back" /\ back_pm[b] = {snap[b]}
       /\ phase = "commit" => main[b] = snap[b] /\ back[b] = snap[b]

LaterInv == IdleInv /\ RecoveryInv

SafeInv == OwnBack /\ Coherent /\ (IF runs = 1 THEN FirstInv /\ LeaderInv ELSE LaterInv)

-----------------------------------------------------------------------------
(* Facts about the operators, with a back segment for every main one.      *)

\* Segments, blocks and slots.
LEMMA Shapes ==
  ASSUME Intact, TypeOK
  PROVE  /\ BackSegments = Segments /\ BackBlocks = Blocks /\ Segments \subseteq Nat
         /\ Active \in 0 .. 1 /\ Inactive \in 0 .. 1 /\ Active # Inactive
         /\ \A e \in 0 .. 1 : e = Active \/ e = Inactive
         /\ \A b \in Blocks : b[1] \in Segments /\ b[2] \in Offsets /\ b = <<b[1], b[2]>>
         /\ \A s \in Segments : \A b : b \in BlocksOf(s) <=> (b \in Blocks /\ b[1] = s)
<1>1. BackSegments = Segments /\ BackBlocks = Blocks /\ Segments \subseteq Nat
  BY ImageAssumption DEF Intact, BackSegments, Segments, BackBlocks, Blocks
<1>2. /\ Active \in 0 .. 1 /\ Inactive \in 0 .. 1 /\ Active # Inactive
      /\ \A e \in 0 .. 1 : e = Active \/ e = Inactive
  BY DEF TypeOK, ImageTypeOK, Active, Inactive
<1>3. \A b \in Blocks : b[1] \in Segments /\ b[2] \in Offsets /\ b = <<b[1], b[2]>>
  BY DEF Blocks
<1>4. \A s \in Segments : \A b : b \in BlocksOf(s) <=> (b \in Blocks /\ b[1] = s)
  BY DEF Blocks, BlocksOf
<1> QED
  BY <1>1, <1>2, <1>3, <1>4

\* A block and its copy have the same index.
LEMMA BackFacts ==
  ASSUME Intact, TypeOK, OwnBack, phase # "open"
  PROVE  /\ \A s \in Segments : main_to_back[s] = s /\ main_to_back[s] # Null
         /\ \A B \in SUBSET Blocks : BackImage(B) = B
         /\ BackData = main
         /\ \A s \in Segments : {main_to_back[s]} \X Offsets = BlocksOf(s)
         /\ \A b \in Blocks : BackBlock(b[1], b) = b
<1>1. \A s \in Segments : main_to_back[s] = s /\ main_to_back[s] # Null
  BY Shapes, ImageAssumption DEF OwnBack
<1>2. \A b \in Blocks : BackBlock(b[1], b) = b
  BY <1>1, Shapes DEF BackBlock
<1>3. \A B \in SUBSET Blocks : BackImage(B) = B
  BY <1>2 DEF BackImage
<1>4. BackData = main
  <2>1. main \in [Blocks -> Contents]
    BY DEF TypeOK, ImageTypeOK
  <2>2. \A d \in Blocks : <<back_to_main[d[1]], d[2]>> = d
    BY Shapes DEF OwnBack
  <2>3. BackData = [d \in Blocks |-> main[d]]
    BY <2>2, Shapes DEF BackData
  <2> QED
    BY <2>1, <2>3
<1>5. \A s \in Segments : {main_to_back[s]} \X Offsets = BlocksOf(s)
  BY <1>1 DEF BlocksOf
<1> QED
  BY <1>1, <1>2, <1>3, <1>4, <1>5

\* The pool has finitely many blocks.
LEMMA FiniteBlocks == IsFiniteSet(Blocks)
<1>1. IsFiniteSet(Segments) /\ IsFiniteSet(Offsets)
  BY ImageAssumption, FS_Interval DEF Segments, Offsets
<1> QED
  BY <1>1, FS_Product DEF Blocks

\* What hook_routine marks and lists.
LEMMA HookFacts ==
  ASSUME TypeOK, NEW t \in Threads, NEW B \in SUBSET Blocks, hook_routine(t, B),
         flush_blocks[t] \subseteq block_dirty
  PROVE  /\ block_dirty' = block_dirty \cup B
         /\ flush_blocks' \in [Threads -> SUBSET Blocks]
         /\ \A u \in Threads : /\ flush_blocks[u] \subseteq flush_blocks'[u]
                               /\ flush_blocks'[u] \subseteq flush_blocks[u] \cup (B \ block_dirty)
                               /\ u # t => flush_blocks'[u] = flush_blocks[u]
         /\ \/ B \ block_dirty \subseteq flush_blocks'[t]
            \/ Cardinality(flush_blocks'[t]) >= kMaxFlushBlocks
<1> DEFINE fresh == B \ block_dirty
<1>1. block_dirty' = block_dirty \cup B
  BY DEF hook_routine
<1>2. PICK listed \in SUBSET fresh :
        /\ listed = fresh \/ Cardinality(listed) = kMaxFlushBlocks - Cardinality(flush_blocks[t])
        /\ flush_blocks' = [flush_blocks EXCEPT ![t] = @ \cup listed]
  BY DEF hook_routine
<1>3. listed \subseteq Blocks /\ flush_blocks \in [Threads -> SUBSET Blocks]
  BY DEF TypeOK
<1>4. /\ flush_blocks' \in [Threads -> SUBSET Blocks]
      /\ flush_blocks'[t] = flush_blocks[t] \cup listed
      /\ \A u \in Threads : u # t => flush_blocks'[u] = flush_blocks[u]
  BY <1>2, <1>3
<1>5. CASE listed = fresh
  BY <1>1, <1>4, <1>5
<1>6. CASE Cardinality(listed) = kMaxFlushBlocks - Cardinality(flush_blocks[t])
  <2>1. IsFiniteSet(listed) /\ IsFiniteSet(flush_blocks[t])
    BY <1>3, FiniteBlocks, FS_Subset
  <2>2. listed \cap flush_blocks[t] = {}
    OBVIOUS
  <2>3. Cardinality(listed \cap flush_blocks[t]) = 0
    BY <2>2, FS_EmptySet
  <2>4. Cardinality(flush_blocks[t] \cup listed) =
          Cardinality(flush_blocks[t]) + Cardinality(listed) - Cardinality(flush_blocks[t] \cap listed)
    BY <2>1, FS_Union
  <2>5. Cardinality(flush_blocks[t]) \in Nat /\ Cardinality(listed) \in Nat /\ kMaxFlushBlocks \in Nat
    BY <2>1, FS_CardinalityType, EngineAssumption
  <2>6. flush_blocks[t] \cap listed = {}
    BY <2>2
  <2>7. Cardinality(flush_blocks[t] \cap listed) = 0
    BY <2>6, FS_EmptySet
  <2>8. Cardinality(flush_blocks'[t]) = kMaxFlushBlocks
    BY <1>4, <1>6, <2>4, <2>5, <2>7
  <2> QED
    BY <1>1, <1>2, <1>4, <2>5, <2>8
<1> QED
  BY <1>2, <1>5, <1>6

\* determine_flush_mode.
LEMMA ModeFacts ==
  ASSUME NEW lists \in [Threads -> SUBSET Blocks]
  PROVE  /\ Mode(lists) \in {"NO_ACTION", "USE_FLUSH_BLOCKS", "WBINVD"}
         /\ Mode(lists) # "WBINVD" => \A t \in Threads : ~(Cardinality(lists[t]) >= kMaxFlushBlocks)
         /\ Mode(lists) = "NO_ACTION" => \A t \in Threads : lists[t] = {}
<1>1. Mode(lists) \in {"NO_ACTION", "USE_FLUSH_BLOCKS", "WBINVD"}
  BY DEF Mode
<1>2. ASSUME NEW t \in Threads, Cardinality(lists[t]) >= kMaxFlushBlocks
      PROVE  Mode(lists) = "WBINVD"
  <2>1. lists[t] # {}
    <3> SUFFICES ASSUME lists[t] = {} PROVE FALSE
      OBVIOUS
    <3>1. Cardinality(lists[t]) = 0
      BY FS_EmptySet
    <3> QED
      BY <1>2, <3>1, EngineAssumption
  <2> QED
    BY <1>2, <2>1 DEF Mode
<1>3. ASSUME Mode(lists) = "NO_ACTION", NEW t \in Threads PROVE lists[t] = {}
  BY <1>3 DEF Mode
<1> QED
  BY <1>1, <1>2, <1>3

\* The checkpoint that does not flush the whole cache has every block listed.
LEMMA AllListed ==
  ASSUME TypeOK, ListInv, ModeInv, phase # "run", flush_mode # "WBINVD"
  PROVE  {b \in block_dirty : b[1] \in segment_dirty} = Listed
<1>1. flush_blocks \in [Threads -> SUBSET Blocks] /\ flush_mode = Mode(flush_blocks)
  BY DEF TypeOK, ModeInv
<1>2. \A t \in Threads : ~(Cardinality(flush_blocks[t]) >= kMaxFlushBlocks)
  BY <1>1, ModeFacts
<1>3. \A b \in block_dirty : b[1] \in segment_dirty => b \in Listed
  BY <1>2 DEF ListInv
<1>4. \A b \in Listed : b \in block_dirty /\ b[1] \in segment_dirty
  BY DEF ListInv, Listed
<1> QED
  BY <1>3, <1>4

-----------------------------------------------------------------------------
(* What a step leaves alone.                                               *)

\* A step that copies nothing and at most marks segments D, which are not Main
\* and nobody writes back, keeps the facts about data.
LEMMA MarkFrame ==
  ASSUME Intact, IndInv, FirstInv, NEW D \in SUBSET Segments,
         UNCHANGED <<imageVars, address_buffer, flush_blocks, block_dirty, phase, committing,
                     historyVars>>,
         segment_dirty' = segment_dirty \cup D,
         D # {} => phase = "run",
         \A s \in D : StateOf(s) # "Main" /\ ~Held(s),
         \A w \in Workers : Holds(w) \/ pc'[w] \in {"copy", "fence", "state"}
                              => pc'[w] = pc[w] /\ target'[w] = target[w]
  PROVE  /\ ListInv' /\ HeldInv' /\ SlotInv' /\ StateInv' /\ MainInv' /\ BackInv'
         /\ \A s : Held(s)' <=> Held(s)
         /\ Touched' = Touched
         /\ \A b \in Drained' : b[1] \in segment_dirty'
         /\ \A b \in block_dirty' : \/ b[1] \in segment_dirty' \/ StateOf(b[1])' = "Main"
                                    \/ Settling(b[1])'
<1> USE DEF imageVars, historyVars
<1>0. /\ PendInv /\ BitInv /\ ListInv /\ HeldInv /\ SlotInv /\ StateInv
      /\ MainInv /\ BackInv
  BY DEF FirstInv
<1>1. /\ \A s : Held(s)' <=> Held(s)
      /\ \A s : Settling(s)' <=> Settling(s)
      /\ \A s : Settling(s) => Held(s)
  BY DEF Held, Settling, Holds
<1>2. \A s : StateOf(s)' = StateOf(s)
  BY DEF StateOf, Active
<1>3. /\ Drained' = Drained /\ Listed' = Listed /\ (Early' <=> Early) /\ (Flushed' <=> Flushed)
      /\ \A b : Both(b)' <=> Both(b)
  BY DEF Drained, Buffered, Listed, Early, Flushed, Both
<1>4. \A b \in block_dirty : b[1] \in D => b[1] \in segment_dirty
  BY <1>0, <1>1 DEF BitInv
<1>5. Touched' = Touched
  BY <1>3, <1>4 DEF Touched
<1>6. ListInv'
  <2>1. \A b \in block_dirty : b[1] \in segment_dirty' <=> b[1] \in segment_dirty
    BY <1>4
  <2> QED
    BY <1>0, <1>3, <2>1 DEF ListInv
<1>7. HeldInv'
  <2>1. ASSUME NEW w \in Workers, Holds(w)' PROVE
          /\ target'[w] \notin segment_dirty'
          /\ StateOf(target[w])' = IF pc'[w] = "state" THEN "Back" ELSE "Main"
    <3>1. Holds(w) /\ pc'[w] = pc[w] /\ target'[w] = target[w]
      BY <2>1 DEF Holds
    <3>2. Held(target[w])
      BY <3>1 DEF Held
    <3> QED
      BY <1>0, <1>2, <3>1, <3>2 DEF HeldInv
  <2>2. Early' => \A s \in segment_dirty' : StateOf(s)' # "Main"
    BY <1>0, <1>2, <1>3 DEF HeldInv
  <2> QED
    BY <2>1, <2>2 DEF HeldInv
<1>8. SlotInv'
  <2>1. \A s \in Segments : Settling(s)' <=> Settling(s)
    BY <1>1
  <2>2. CASE D = {}
    <3>1. segment_dirty' = segment_dirty
      BY <2>2
    <3> QED
      BY <1>0, <2>1, <3>1 DEF SlotInv, Active, Inactive, StateOf
  <2>3. CASE phase = "run"
    BY <1>0, <2>1, <2>3 DEF SlotInv, Active, Inactive, StateOf
  <2> QED
    BY <2>2, <2>3
<1>9. StateInv'
  <2>1. CASE D = {}
    <3>1. segment_dirty' = segment_dirty
      BY <2>1
    <3>2. \A s : Indifferent(s)' <=> Indifferent(s)
      BY <1>3, <3>1 DEF Indifferent
    <3> QED
      BY <1>0, <1>1, <1>2, <3>2 DEF StateInv, Active, Inactive
  <2>2. CASE phase = "run"
    BY <1>0, <1>1, <1>2, <2>2 DEF StateInv, Active, Inactive
  <2> QED
    BY <2>1, <2>2
<1>10. MainInv'
  BY <1>0, <1>3, <1>5 DEF MainInv
<1>11. BackInv'
  <2>1. CASE D = {}
    <3>1. segment_dirty' = segment_dirty
      BY <2>1
    <3>2. \A w \in Workers : pc'[w] = "fence" => pc[w] = "fence" /\ target'[w] = target[w]
      BY DEF Holds
    <3> QED
      BY <1>0, <1>2, <1>3, <3>1, <3>2 DEF BackInv
  <2>2. CASE phase = "run"
    <3>1. committing = "None"
      BY <2>2 DEF IndInv, StructInv, PhaseInv
    <3>2. \A w \in Workers : pc'[w] = "fence" => pc[w] = "fence" /\ target'[w] = target[w]
      BY DEF Holds
    <3> QED
      BY <1>0, <1>2, <1>3, <2>2, <3>1, <3>2 DEF BackInv
  <2> QED
    BY <2>1, <2>2
<1>12. /\ \A b \in Drained' : b[1] \in segment_dirty'
       /\ \A b \in block_dirty' : \/ b[1] \in segment_dirty' \/ StateOf(b[1])' = "Main"
                                  \/ Settling(b[1])'
  BY <1>0, <1>1, <1>2, <1>3 DEF BitInv
<1> QED
  BY <1>1, <1>5, <1>6, <1>7, <1>8, <1>9, <1>10, <1>11, <1>12

\* A step that copies and marks nothing.
LEMMA StillFrame ==
  ASSUME Intact, IndInv, FirstInv,
         UNCHANGED <<imageVars, hookVars, phase, committing, historyVars>>,
         \A w \in Workers : Holds(w) \/ pc'[w] \in {"copy", "fence", "state"}
                              => pc'[w] = pc[w] /\ target'[w] = target[w]
  PROVE  /\ ListInv' /\ HeldInv' /\ SlotInv' /\ StateInv' /\ MainInv' /\ BackInv'
         /\ \A s : Held(s)' <=> Held(s)
         /\ Touched' = Touched
         /\ \A b \in Drained' : b[1] \in segment_dirty'
         /\ \A b \in block_dirty' : \/ b[1] \in segment_dirty' \/ StateOf(b[1])' = "Main"
                                    \/ Settling(b[1])'
<1>1. UNCHANGED <<imageVars, address_buffer, flush_blocks, block_dirty, phase, committing,
                  historyVars>>
  BY DEF hookVars
<1>2. {} \in SUBSET Segments /\ segment_dirty' = segment_dirty \cup {}
  BY DEF hookVars
<1>3. ({} # {} => phase = "run") /\ \A s \in {} : StateOf(s) # "Main" /\ ~Held(s)
  OBVIOUS
<1> QED
  BY <1>1, <1>2, <1>3, MarkFrame

\* Where the cleaner is in its pass matters only as far as it has come.
LEMMA PassFrame ==
  ASSUME PassInv, \A s \in Segments : Held(s)' => Held(s),
         \A s \in Segments : s \in segment_dirty \/ StateOf(s) # "Main"
                               => s \in segment_dirty' \/ StateOf(s)' # "Main",
         cleaner_state' \in {"IDLE", "RUNNING"} =>
           cleaner_state' = cleaner_state /\ target'[Cleaner] = target[Cleaner]
  PROVE  PassInv'
BY DEF PassInv

\* The choices of the leader stay.
LEMMA ModeFrame ==
  ASSUME ModeInv, UNCHANGED <<phase, committing, flush_mode, flush_blocks, address_buffer,
                              skip_copy_on_write>>,
         skip_copy_on_write => cleaner_state' = "IDLE"
  PROVE  ModeInv'
<1>1. Drained' = Drained
  BY DEF Drained, Buffered
<1>2. Mode(flush_blocks)' = Mode(flush_blocks)
  BY DEF Mode
<1> QED
  BY <1>1, <1>2 DEF ModeInv

\* Dirty segments go on to have a block that was stored to.
LEMMA OwedFrame ==
  ASSUME BitInv, segment_dirty' = segment_dirty, Touched' = Touched,
         \A t \in Threads : Storing(t) => Storing(t)' /\ range'[t] = range[t]
  PROVE  \A s \in segment_dirty' :
           \/ \E b \in Touched' : b[1] = s
           \/ \E t \in Threads : Storing(t)' /\ \E b \in range'[t] : b[1] = s
BY DEF BitInv

-----------------------------------------------------------------------------
(* The steps of a store.                                                   *)

\* A store begins: its segments are to be visited, nothing is stored yet.
LEMMA BeginStoreFirst ==
  ASSUME Intact, IndInv, FirstInv, NEW t \in Threads, BeginStore(t)
  PROVE  FirstInv'
<1> USE DEF imageVars, historyVars, hookVars, lockVars, ckptVars, cleanerVars, Goto
<1>0. /\ TypeOK /\ StageInv /\ ModeInv /\ PendInv /\ BitInv /\ PassInv
  BY DEF FirstInv, IndInv
<1>1. /\ phase = "run" /\ pc[t] = "app" /\ pc' = [pc EXCEPT ![t] = "hook"]
      /\ UNCHANGED <<imageVars, target, hookVars, phase, committing, historyVars>>
      /\ UNCHANGED <<cleaner_state, cleaner_mutex, skip_copy_on_write, flush_mode>>
  BY DEF BeginStore
<1>2. PICK R \in Ranges : /\ range' = [range EXCEPT ![t] = R]
                          /\ pending' = [pending EXCEPT ![t] = {b[1] : b \in R}]
  BY DEF BeginStore
<1>3. /\ pc \in [Workers -> PcSet] /\ range \in [Threads -> SUBSET Blocks]
      /\ pending \in [Threads -> SUBSET Segments] /\ t \in Workers /\ t # Cleaner
      /\ Threads \subseteq Workers /\ Cleaner \in Workers
  BY <1>0, EngineAssumption DEF TypeOK, Workers
<1>4. /\ pc'[t] = "hook" /\ range'[t] = R /\ pending'[t] = {b[1] : b \in R}
      /\ \A w \in Workers : w # t => pc'[w] = pc[w]
      /\ \A u \in Threads : u # t => range'[u] = range[u] /\ pending'[u] = pending[u]
  BY <1>1, <1>2, <1>3
<1>5. \A w \in Workers : Holds(w) \/ pc'[w] \in {"copy", "fence", "state"}
                           => pc'[w] = pc[w] /\ target'[w] = target[w]
  BY <1>1, <1>4 DEF Holds
<1>6. /\ ListInv' /\ HeldInv' /\ SlotInv' /\ StateInv' /\ MainInv' /\ BackInv'
      /\ \A s : Held(s)' <=> Held(s)
      /\ Touched' = Touched
      /\ \A b \in Drained' : b[1] \in segment_dirty'
      /\ \A b \in block_dirty' : \/ b[1] \in segment_dirty' \/ StateOf(b[1])' = "Main"
                                 \/ Settling(b[1])'
  BY <1>1, <1>5, StillFrame
<1>7. StageInv'
  BY <1>0, <1>1, <1>3, <1>4 DEF StageInv, Holds, Up
<1>8. ModeInv'
  BY <1>0, <1>1, ModeFrame DEF ModeInv
<1>9. PendInv'
  <2> SUFFICES ASSUME NEW u \in Threads, Storing(u)'
               PROVE  /\ \A b \in range'[u] : b[1] \in segment_dirty' \cup pending'[u]
                      /\ pending'[u] \subseteq {b[1] : b \in range'[u]}
                      /\ pc'[u] # "hook" => target'[u] \in pending'[u]
    BY DEF PendInv
  <2>1. CASE u = t
    BY <1>4, <2>1
  <2>2. CASE u # t
    BY <1>0, <1>1, <1>3, <1>4, <2>2 DEF PendInv, Storing, Holds
  <2> QED
    BY <2>1, <2>2
<1>10. BitInv'
  <2>1. \A u \in Threads : Storing(u) => Storing(u)' /\ range'[u] = range[u]
    BY <1>1, <1>3, <1>4 DEF Storing, Holds
  <2> QED
    BY <1>0, <1>1, <1>6, <2>1, OwedFrame DEF BitInv
<1>11. PassInv'
  BY <1>0, <1>1, <1>6, PassFrame DEF StateOf, Active
<1> QED
  BY <1>6, <1>7, <1>8, <1>9, <1>10, <1>11 DEF FirstInv

\* The hook goes past a segment that is dirty, or need not be copied at all.
LEMMA CopyOnWriteHookFirst ==
  ASSUME Intact, IndInv, FirstInv, NEW t \in Threads, CopyOnWriteHook(t)
  PROVE  FirstInv'
<1> USE DEF imageVars, historyVars, hookVars, lockVars, ckptVars, cleanerVars, Goto
<1>0. /\ TypeOK /\ StageInv /\ ModeInv /\ PendInv /\ BitInv /\ PassInv /\ HeldInv
  BY DEF FirstInv, IndInv
<1>1. /\ pc[t] = "hook"
      /\ UNCHANGED <<imageVars, range, address_buffer, flush_blocks, block_dirty, phase,
                     committing, historyVars>>
      /\ UNCHANGED <<cleaner_state, cleaner_mutex, skip_copy_on_write, flush_mode>>
  BY DEF CopyOnWriteHook
<1>2. phase = "run"
  BY <1>0, <1>1 DEF StageInv
<1>3. /\ pc \in [Workers -> PcSet] /\ range \in [Threads -> SUBSET Blocks]
      /\ target \in [Workers -> 0 .. nr_main_segments]
      /\ pending \in [Threads -> SUBSET Segments] /\ t \in Workers /\ t # Cleaner
      /\ Threads \subseteq Workers /\ Cleaner \in Workers
  BY <1>0, EngineAssumption DEF TypeOK, Workers
<1>4. PICK s \in pending[t] :
        \/ /\ s \in segment_dirty \/ skip_copy_on_write
           /\ segment_dirty' = segment_dirty \cup {s}
           /\ pending' = [pending EXCEPT ![t] = @ \ {s}]
           /\ UNCHANGED <<pc, target>>
        \/ /\ s \notin segment_dirty /\ ~skip_copy_on_write
           /\ target' = [target EXCEPT ![t] = s]
           /\ pc' = [pc EXCEPT ![t] = "lwb"]
           /\ UNCHANGED <<segment_dirty, pending>>
  BY DEF CopyOnWriteHook
<1>5. s \in Segments /\ Storing(t)
  BY <1>1, <1>3 DEF Storing
<1>6. CASE /\ s \in segment_dirty \/ skip_copy_on_write
           /\ segment_dirty' = segment_dirty \cup {s}
           /\ pending' = [pending EXCEPT ![t] = @ \ {s}]
           /\ UNCHANGED <<pc, target>>
  <2>1. StateOf(s) # "Main" /\ ~Held(s)
    <3>1. s \in segment_dirty => StateOf(s) # "Main"
      BY <1>0, <1>2 DEF HeldInv, Early
    <3>2. s \in segment_dirty => ~Held(s)
      BY <1>0 DEF HeldInv, Held
    <3>3. skip_copy_on_write => ~Held(s) /\ (s \in segment_dirty \/ StateOf(s) # "Main")
      BY <1>0, <1>5 DEF ModeInv, PassInv
    <3> QED
      BY <1>6, <3>1, <3>2, <3>3
  <2>2. /\ ListInv' /\ HeldInv' /\ SlotInv' /\ StateInv' /\ MainInv' /\ BackInv'
        /\ \A r : Held(r)' <=> Held(r)
        /\ Touched' = Touched
        /\ \A b \in Drained' : b[1] \in segment_dirty'
        /\ \A b \in block_dirty' : \/ b[1] \in segment_dirty' \/ StateOf(b[1])' = "Main"
                                   \/ Settling(b[1])'
    <3>1. {s} \in SUBSET Segments
      BY <1>5
    <3>2. \A r \in {s} : StateOf(r) # "Main" /\ ~Held(r)
      BY <2>1
    <3> QED
      BY <1>1, <1>2, <1>6, <3>1, <3>2, MarkFrame
  <2>3. /\ pending'[t] = pending[t] \ {s}
        /\ \A u \in Threads : u # t => pending'[u] = pending[u]
    BY <1>3, <1>6
  <2>4. StageInv'
    BY <1>0, <1>1, <1>6 DEF StageInv, Holds, Up
  <2>5. ModeInv'
    BY <1>0, <1>1, <1>2 DEF ModeInv
  <2>6. PendInv'
    <3> SUFFICES ASSUME NEW u \in Threads, Storing(u)'
                 PROVE  /\ \A b \in range'[u] : b[1] \in segment_dirty' \cup pending'[u]
                        /\ pending'[u] \subseteq {b[1] : b \in range'[u]}
                        /\ pc'[u] # "hook" => target'[u] \in pending'[u]
      BY DEF PendInv
    <3>1. Storing(u) /\ pc'[u] = pc[u] /\ range'[u] = range[u] /\ target'[u] = target[u]
      BY <1>1, <1>6 DEF Storing, Holds
    <3>2. CASE u = t
      BY <1>0, <1>1, <1>6, <2>3, <3>1, <3>2 DEF PendInv
    <3>3. CASE u # t
      BY <1>0, <1>6, <2>3, <3>1, <3>3 DEF PendInv
    <3> QED
      BY <3>2, <3>3
  <2>7. BitInv'
    <3>1. ASSUME NEW r \in segment_dirty'
          PROVE  \/ \E b \in Touched' : b[1] = r
                 \/ \E u \in Threads : Storing(u)' /\ \E b \in range'[u] : b[1] = r
      <4>1. Storing(t)' /\ \A u \in Threads : Storing(u)' <=> Storing(u)
        BY <1>5, <1>6 DEF Storing, Holds
      <4>2. CASE r = s
        <5>1. \E b \in range[t] : b[1] = s
          BY <1>0, <1>5, <1>4 DEF PendInv
        <5> QED
          BY <1>1, <4>1, <4>2, <5>1
      <4>3. CASE r \in segment_dirty
        BY <1>0, <1>1, <2>2, <4>1, <4>3 DEF BitInv
      <4> QED
        BY <1>6, <3>1, <4>2, <4>3
    <3> QED
      BY <2>2, <3>1 DEF BitInv
  <2>8. PassInv'
    BY <1>0, <1>1, <1>6, <2>2, PassFrame DEF StateOf, Active
  <2> QED
    BY <2>2, <2>4, <2>5, <2>6, <2>7, <2>8 DEF FirstInv
<1>7. CASE /\ s \notin segment_dirty /\ ~skip_copy_on_write
           /\ target' = [target EXCEPT ![t] = s]
           /\ pc' = [pc EXCEPT ![t] = "lwb"]
           /\ UNCHANGED <<segment_dirty, pending>>
  <2>1. /\ pc'[t] = "lwb" /\ target'[t] = s
        /\ \A w \in Workers : w # t => pc'[w] = pc[w] /\ target'[w] = target[w]
    BY <1>3, <1>7
  <2>2. \A w \in Workers : Holds(w) \/ pc'[w] \in {"copy", "fence", "state"}
                             => pc'[w] = pc[w] /\ target'[w] = target[w]
    BY <1>1, <2>1 DEF Holds
  <2>3. /\ ListInv' /\ HeldInv' /\ SlotInv' /\ StateInv' /\ MainInv' /\ BackInv'
        /\ \A r : Held(r)' <=> Held(r)
        /\ Touched' = Touched
        /\ \A b \in Drained' : b[1] \in segment_dirty'
        /\ \A b \in block_dirty' : \/ b[1] \in segment_dirty' \/ StateOf(b[1])' = "Main"
                                   \/ Settling(b[1])'
    BY <1>1, <1>7, <2>2, StillFrame
  <2>4. StageInv'
    BY <1>0, <1>1, <1>2, <1>3, <2>1 DEF StageInv, Holds, Up
  <2>5. ModeInv'
    BY <1>0, <1>1, ModeFrame DEF ModeInv
  <2>6. PendInv'
    <3> SUFFICES ASSUME NEW u \in Threads, Storing(u)'
                 PROVE  /\ \A b \in range'[u] : b[1] \in segment_dirty' \cup pending'[u]
                        /\ pending'[u] \subseteq {b[1] : b \in range'[u]}
                        /\ pc'[u] # "hook" => target'[u] \in pending'[u]
      BY DEF PendInv
    <3>1. CASE u = t
      BY <1>0, <1>1, <1>4, <1>5, <1>7, <2>1, <3>1 DEF PendInv
    <3>2. CASE u # t
      <4>1. Storing(u) /\ pc'[u] = pc[u] /\ range'[u] = range[u] /\ target'[u] = target[u]
        BY <1>1, <1>3, <2>1, <3>2 DEF Storing, Holds
      <4> QED
        BY <1>0, <1>7, <4>1 DEF PendInv
    <3> QED
      BY <3>1, <3>2
  <2>7. BitInv'
    <3>1. \A u \in Threads : Storing(u) => Storing(u)' /\ range'[u] = range[u]
      BY <1>1, <1>3, <2>1 DEF Storing, Holds
    <3> QED
      BY <1>0, <1>7, <2>3, <3>1, OwedFrame DEF BitInv
  <2>8. PassInv'
    BY <1>0, <1>1, <1>3, <1>7, <2>1, <2>3, PassFrame DEF StateOf, Active
  <2> QED
    BY <2>3, <2>4, <2>5, <2>6, <2>7, <2>8 DEF FirstInv
<1> QED
  BY <1>4, <1>6, <1>7

\* hook_routine keeps the lists complete, or fills one of them.
LEMMA HookLists ==
  ASSUME TypeOK, ListInv, NEW t \in Threads, NEW B \in SUBSET Blocks, hook_routine(t, B),
         \A b \in B : b[1] \in segment_dirty, segment_dirty' = segment_dirty
  PROVE  ListInv' /\ block_dirty' = block_dirty \cup B
<1>1. flush_blocks \in [Threads -> SUBSET Blocks] /\ flush_blocks[t] \subseteq block_dirty
  BY DEF TypeOK, ListInv
<1>2. /\ block_dirty' = block_dirty \cup B
      /\ \A u \in Threads : /\ flush_blocks[u] \subseteq flush_blocks'[u]
                            /\ flush_blocks'[u] \subseteq flush_blocks[u] \cup (B \ block_dirty)
                            /\ u # t => flush_blocks'[u] = flush_blocks[u]
      /\ \/ B \ block_dirty \subseteq flush_blocks'[t]
         \/ Cardinality(flush_blocks'[t]) >= kMaxFlushBlocks
  BY <1>1, HookFacts
<1>3. \A u \in Threads : flush_blocks'[u] \subseteq {b \in block_dirty' : b[1] \in segment_dirty'}
  BY <1>2 DEF ListInv
<1>4. \/ \A b \in block_dirty' : b[1] \in segment_dirty' => b \in Listed'
      \/ \E u \in Threads : Cardinality(flush_blocks'[u]) >= kMaxFlushBlocks
  <2>1. CASE Cardinality(flush_blocks'[t]) >= kMaxFlushBlocks
    BY <2>1
  <2>2. CASE \E u \in Threads : u # t /\ Cardinality(flush_blocks[u]) >= kMaxFlushBlocks
    BY <1>2, <2>2
  <2>3. CASE B \ block_dirty \subseteq flush_blocks'[t] /\ \A b \in block_dirty : b[1] \in segment_dirty => b \in Listed
    BY <1>2, <2>3 DEF Listed
  <2>4. CASE Cardinality(flush_blocks[t]) >= kMaxFlushBlocks
    <3>1. IsFiniteSet(flush_blocks'[t]) /\ flush_blocks[t] \in SUBSET flush_blocks'[t]
      <4>1. flush_blocks'[t] \in SUBSET Blocks
        BY <1>1, <1>2
      <4> QED
        BY <1>2, <4>1, FiniteBlocks, FS_Subset
    <3>2. /\ Cardinality(flush_blocks[t]) <= Cardinality(flush_blocks'[t])
          /\ Cardinality(flush_blocks[t]) \in Nat /\ Cardinality(flush_blocks'[t]) \in Nat
      BY <3>1, FS_Subset, FS_CardinalityType
    <3> QED
      BY <2>4, <3>2, EngineAssumption
  <2> QED
    BY <1>2, <2>1, <2>2, <2>3, <2>4 DEF ListInv
<1> QED
  BY <1>2, <1>3, <1>4 DEF ListInv

\* The addresses of a store are buffered, or marked and listed.
LEMMA StoreBuffers ==
  ASSUME TypeOK, ListInv, BitInv, NEW t \in Threads, FinishStore(t),
         \A b \in range[t] : b[1] \in segment_dirty
  PROVE  /\ Touched' = Touched \cup range[t]
         /\ \A b \in Drained' : b[1] \in segment_dirty
         /\ block_dirty \subseteq block_dirty'
         /\ \A b \in block_dirty' : b \in block_dirty \/ b[1] \in segment_dirty
         /\ ListInv'
<1> DEFINE R == range[t]
           single == Cardinality(R) = 1
           x == CHOOSE b \in R : TRUE
           buffer == Append(address_buffer[t], x)
<1>1. /\ segment_dirty' = segment_dirty
      /\ \/ /\ single /\ address_buffer' = [address_buffer EXCEPT ![t] = buffer]
            /\ UNCHANGED <<flush_blocks, block_dirty>>
         \/ /\ hook_routine(t, Buffered(t) \cup R)
            /\ address_buffer' = [address_buffer EXCEPT ![t] = <<>>]
         \/ /\ hook_routine(t, R)
            /\ UNCHANGED address_buffer
  BY DEF FinishStore
<1>2. /\ address_buffer \in [Threads -> Seq(Blocks)] /\ R \in SUBSET Blocks
      /\ flush_blocks \in [Threads -> SUBSET Blocks]
      /\ Buffered(t) \in SUBSET Blocks
  BY BufferedType DEF TypeOK
<1>3. /\ Buffered(t) \subseteq Drained
      /\ \A b \in Drained : b[1] \in segment_dirty
      /\ flush_blocks[t] \subseteq block_dirty
      /\ \A b \in Buffered(t) \cup R : b[1] \in segment_dirty
  BY DEF Drained, BitInv, ListInv
<1>4. CASE /\ single /\ address_buffer' = [address_buffer EXCEPT ![t] = buffer]
           /\ UNCHANGED <<flush_blocks, block_dirty>>
  <2>1. R = {x}
    <3>1. IsFiniteSet(R)
      BY <1>2, FiniteBlocks, FS_Subset
    <3>2. \E y : R = {y}
      BY <1>4, <3>1, FS_Singleton
    <3> QED
      BY <3>2
  <2>2. x \in Blocks
    BY <1>2, <2>1
  <2>3. address_buffer'[t] = buffer /\ \A u \in Threads : u # t => address_buffer'[u] = address_buffer[u]
    BY <1>2, <1>4
  <2>4. Buffered(t)' = Buffered(t) \cup R
    <3> HIDE DEF R, x
    <3>1. /\ Len(buffer) = Len(address_buffer[t]) + 1 /\ Len(address_buffer[t]) \in Nat
          /\ buffer[Len(address_buffer[t]) + 1] = x
          /\ \A i \in 1 .. Len(address_buffer[t]) : buffer[i] = address_buffer[t][i]
      BY <1>2, <2>2
    <3>2. Buffered(t)' = {buffer[i] : i \in 1 .. (Len(address_buffer[t]) + 1)}
      BY <2>3, <3>1 DEF Buffered
    <3> HIDE DEF buffer
    <3>3. {buffer[i] : i \in 1 .. (Len(address_buffer[t]) + 1)} = Buffered(t) \cup {x}
      BY <3>1 DEF Buffered
    <3> QED
      BY <2>1, <3>2, <3>3
  <2>5. \A u \in Threads : u # t => Buffered(u)' = Buffered(u)
    BY <2>3 DEF Buffered
  <2>6. Drained' = Drained \cup R
    BY <2>4, <2>5 DEF Drained
  <2>7. Touched' = Touched \cup R
    BY <1>1, <1>4, <2>6 DEF Touched
  <2>8. ListInv'
    BY <1>1, <1>4 DEF ListInv, Listed
  <2> QED
    BY <1>1, <1>3, <1>4, <2>6, <2>7, <2>8
<1>6. CASE /\ hook_routine(t, Buffered(t) \cup R)
           /\ address_buffer' = [address_buffer EXCEPT ![t] = <<>>]
  <2>1. ListInv' /\ block_dirty' = block_dirty \cup (Buffered(t) \cup R)
    <3>1. Buffered(t) \cup R \in SUBSET Blocks
      BY <1>2
    <3> HIDE DEF R
    <3> QED
      BY <1>1, <1>3, <1>6, <3>1, HookLists
  <2>2. address_buffer'[t] = <<>> /\ \A u \in Threads : u # t => address_buffer'[u] = address_buffer[u]
    BY <1>2, <1>6
  <2>3. Buffered(t)' = {} /\ \A u \in Threads : u # t => Buffered(u)' = Buffered(u)
    BY <2>2 DEF Buffered
  <2>4. Drained' \subseteq Drained /\ Drained \subseteq Drained' \cup Buffered(t)
    BY <2>3 DEF Drained
  <2>5. Touched' = Touched \cup R
    <3> HIDE DEF R
    <3> QED
      BY <1>1, <1>3, <2>1, <2>4 DEF Touched
  <2> QED
    BY <1>3, <2>1, <2>4, <2>5
<1>7. CASE hook_routine(t, R) /\ UNCHANGED address_buffer
  <2>1. ListInv' /\ block_dirty' = block_dirty \cup R
    <3> HIDE DEF R
    <3> QED
      BY <1>1, <1>2, <1>3, <1>7, HookLists
  <2>2. Drained' = Drained
    BY <1>7 DEF Drained, Buffered
  <2> QED
    BY <1>1, <1>3, <2>1, <2>2 DEF Touched
<1> QED
  BY <1>1, <1>4, <1>6, <1>7

\* The store itself.
LEMMA FinishStoreFirst ==
  ASSUME Intact, IndInv, FirstInv, NEW t \in Threads, FinishStore(t)
  PROVE  FirstInv'
<1> USE DEF imageVars, historyVars, hookVars, lockVars, ckptVars, cleanerVars, Goto
<1>0. /\ TypeOK /\ StageInv /\ ModeInv /\ PendInv /\ BitInv /\ PassInv /\ HeldInv /\ ListInv
      /\ SlotInv /\ StateInv /\ MainInv /\ BackInv /\ PhaseInv
  BY DEF FirstInv, IndInv, StructInv
<1>1. /\ pc[t] = "hook" /\ pending[t] = {} /\ pc' = [pc EXCEPT ![t] = "app"]
      /\ range' = [range EXCEPT ![t] = {}]
      /\ UNCHANGED <<committed_epoch, attributes, segment_state, segment_state_pm,
                     segment_state_dirty, back_to_main, main_to_back, back, back_pm>>
      /\ UNCHANGED <<phase, committing, pending, target, segment_dirty, snap>>
      /\ UNCHANGED <<cleaner_state, cleaner_mutex, skip_copy_on_write, flush_mode>>
  BY DEF FinishStore
<1>2. PICK v \in Values :
        /\ main' = [b \in Blocks |-> IF b \in range[t] THEN v ELSE main[b]]
        /\ main_pm' = Put(main_pm, range[t], [b \in Blocks |-> v])
        /\ app' = [b \in Blocks |-> IF b \in range[t] THEN v ELSE app[b]]
  BY DEF FinishStore
<1>3. /\ pc \in [Workers -> PcSet] /\ range \in [Threads -> SUBSET Blocks]
      /\ t \in Workers /\ t # Cleaner /\ main_pm \in [Blocks -> (SUBSET Contents) \ {{}}]
      /\ Threads \subseteq Workers /\ Cleaner \in Workers
  BY <1>0, EngineAssumption DEF TypeOK, ImageTypeOK, Workers
<1>4. /\ phase = "run" /\ committing = "None" /\ Storing(t)
      /\ \A b \in range[t] : b[1] \in segment_dirty
  BY <1>0, <1>1 DEF StageInv, PendInv, Storing, PhaseInv
<1>5. /\ Touched' = Touched \cup range[t]
      /\ \A b \in Drained' : b[1] \in segment_dirty
      /\ block_dirty \subseteq block_dirty'
      /\ \A b \in block_dirty' : b \in block_dirty \/ b[1] \in segment_dirty
      /\ ListInv'
  BY <1>0, <1>4, StoreBuffers
<1>6. /\ pc'[t] = "app" /\ \A w \in Workers : w # t => pc'[w] = pc[w]
      /\ range'[t] = {} /\ \A u \in Threads : u # t => range'[u] = range[u]
  BY <1>1, <1>3
<1>7. /\ \A w \in Workers : Holds(w)' <=> Holds(w)
      /\ \A w \in Workers : Holds(w) => pc'[w] = pc[w]
      /\ \A w \in Workers : pc'[w] = "state" <=> pc[w] = "state"
      /\ \A w \in Workers : pc'[w] = "fence" <=> pc[w] = "fence"
  BY <1>1, <1>6 DEF Holds
<1>8. /\ \A s : Held(s)' <=> Held(s)
      /\ \A s : Settling(s)' <=> Settling(s)
      /\ \A s : StateOf(s)' = StateOf(s)
  BY <1>1, <1>7 DEF Held, Settling, StateOf, Active
<1>9. StageInv'
  BY <1>0, <1>1, <1>3, <1>4, <1>6, <1>7 DEF StageInv, Holds, Up
<1>10. ModeInv'
  BY <1>0, <1>1, <1>4 DEF ModeInv
<1>11. PendInv'
  <2>1. \A u \in Threads : Storing(u)' => u # t /\ Storing(u) /\ pc'[u] = pc[u] /\ range'[u] = range[u]
    BY <1>3, <1>6 DEF Storing, Holds
  <2> QED
    BY <1>0, <1>1, <2>1 DEF PendInv
<1>12. BitInv'
  <2>1. ASSUME NEW s \in segment_dirty'
        PROVE  \/ \E b \in Touched' : b[1] = s
               \/ \E u \in Threads : Storing(u)' /\ \E b \in range'[u] : b[1] = s
    <3>1. CASE \E b \in Touched : b[1] = s
      BY <1>5, <3>1
    <3>2. CASE \E u \in Threads : Storing(u) /\ \E b \in range[u] : b[1] = s
      <4>1. PICK u \in Threads : Storing(u) /\ \E b \in range[u] : b[1] = s
        BY <3>2
      <4>2. CASE u = t
        BY <1>5, <4>1, <4>2
      <4>3. CASE u # t
        <5>1. Storing(u)' /\ range'[u] = range[u]
          BY <1>3, <1>6, <4>1, <4>3 DEF Storing, Holds
        <5> QED
          BY <4>1, <5>1
      <4> QED
        BY <4>2, <4>3
    <3> QED
      BY <1>0, <1>1, <2>1, <3>1, <3>2 DEF BitInv
  <2>2. \A b \in block_dirty' : \/ b[1] \in segment_dirty' \/ StateOf(b[1])' = "Main"
                                \/ Settling(b[1])'
    BY <1>0, <1>1, <1>5, <1>8 DEF BitInv
  <2> QED
    BY <1>1, <1>5, <2>1, <2>2 DEF BitInv
<1>13. HeldInv'
  <2>1. Early' <=> Early
    BY <1>1 DEF Early
  <2> QED
    BY <1>0, <1>1, <1>7, <1>8, <2>1 DEF HeldInv
<1>14. PassInv'
  BY <1>0, <1>1, <1>8, PassFrame
<1>15. SlotInv'
  BY <1>0, <1>1, <1>8 DEF SlotInv, Active, Inactive
<1>16. StateInv'
  BY <1>0, <1>1, <1>4, <1>8 DEF StateInv, Active
<1>17. MainInv'
  <2>1. main' = app'
    BY <1>0, <1>2 DEF MainInv
  <2>2. \A b \in Blocks : b \notin range[t] => main_pm'[b] = main_pm[b] /\ app'[b] = app[b]
    BY <1>2, <1>3 DEF Put
  <2>3. ~Flushed' /\ Early'
    BY <1>1, <1>4 DEF Flushed, Early
  <2> QED
    BY <1>0, <1>1, <1>5, <2>1, <2>2, <2>3 DEF MainInv
<1>18. BackInv'
  <2>1. \A w \in Workers : pc'[w] = "fence" => pc[w] = "fence" /\ target'[w] = target[w]
    BY <1>1, <1>7
  <2> QED
    BY <1>0, <1>1, <1>4, <1>5, <1>8, <2>1 DEF BackInv
<1> QED
  BY <1>5, <1>9, <1>10, <1>11, <1>12, <1>13, <1>14, <1>15, <1>16, <1>17, <1>18 DEF FirstInv

-----------------------------------------------------------------------------
(* lazy_write_back in the run that stores.                                 *)

\* Write-backs take place between checkpoints, or while the leader waits.
LEMMA LazyPhase ==
  ASSUME IndInv, StageInv, NEW w \in Workers, pc[w] = "lwb" \/ Holds(w)
  PROVE  /\ phase \in {"run", "lock"} /\ (w # Cleaner => w \in Threads /\ phase = "run")
         /\ Early /\ ~Flushed /\ committing # "Back"
         /\ (w = Cleaner => cleaner_state = "RUNNING" /\ cleaner_mutex = "cleaner")
<1>1. w # Cleaner => w \in Threads /\ phase = "run"
  BY DEF Workers, StageInv, Holds
<1>2. w = Cleaner => cleaner_state = "RUNNING" /\ cleaner_mutex = "cleaner"
  BY DEF StageInv, Holds
<1>3. phase \in {"run", "lock"}
  BY <1>1, <1>2 DEF StageInv
<1>4. committing # "Back"
  BY <1>3 DEF IndInv, StructInv, PhaseInv
<1> QED
  BY <1>1, <1>2, <1>3, <1>4 DEF Early, Flushed

\* The worker returns from its segment, which is now written back.
LEMMA ReturnControl ==
  ASSUME Intact, IndInv, FirstInv, NEW w \in Workers, pc[w] \in {"lwb", "state"}, Return(w),
         UNCHANGED <<range, address_buffer, flush_blocks, ckptVars, cleaner_mutex>>,
         Touched' = Touched, NEW r \in Segments, r = target[w], ~Held(r)', StateOf(r)' # "Main",
         \A s \in Segments : s # r => (Held(s)' => Held(s)) /\ StateOf(s)' = StateOf(s)
  PROVE  /\ StageInv' /\ ModeInv' /\ PendInv' /\ PassInv'
         /\ \A s \in segment_dirty' :
              \/ \E b \in Touched' : b[1] = s
              \/ \E t \in Threads : Storing(t)' /\ \E b \in range'[t] : b[1] = s
<1> USE DEF ckptVars, Goto
<1>0. /\ TypeOK /\ TargetInv /\ StageInv /\ ModeInv /\ PendInv /\ BitInv /\ PassInv
  BY DEF FirstInv, IndInv, StructInv
<1>1. /\ phase \in {"run", "lock"} /\ (w # Cleaner => w \in Threads /\ phase = "run")
      /\ (w = Cleaner => cleaner_state = "RUNNING" /\ cleaner_mutex = "cleaner")
  BY <1>0, LazyPhase DEF Holds
<1>2. /\ pc \in [Workers -> PcSet] /\ pending \in [Threads -> SUBSET Segments]
      /\ target \in [Workers -> 0 .. nr_main_segments] /\ target[w] \in Segments
      /\ Threads \subseteq Workers /\ Cleaner \in Workers /\ Cleaner \notin Threads
  BY <1>0, EngineAssumption DEF TypeOK, TargetInv, Workers, Holds
<1>3. CASE w = Cleaner
  <2>1. /\ pc'[w] = "loop" /\ target'[w] = target[w] + 1
        /\ \A x \in Workers : x # w => pc'[x] = pc[x] /\ target'[x] = target[x]
        /\ cleaner_state' = IF target[w] + 1 = nr_main_segments THEN "IDLE" ELSE cleaner_state
        /\ UNCHANGED <<pending, segment_dirty>>
    BY <1>2, <1>3 DEF Return
  <2>2. \A t \in Threads : pc'[t] = pc[t] /\ target'[t] = target[t]
    BY <1>2, <1>3, <2>1
  <2>3. StageInv'
    BY <1>0, <1>1, <1>2, <1>3, <2>1, <2>2 DEF StageInv, Holds, Up
  <2>4. ModeInv'
    <3>1. ~skip_copy_on_write
      BY <1>0, <1>1, <1>3 DEF ModeInv
    <3> QED
      BY <1>0, <3>1, ModeFrame
  <2>5. PendInv'
    BY <1>0, <2>1, <2>2 DEF PendInv, Storing, Holds
  <2>6. PassInv'
    <3> SUFFICES ASSUME NEW s \in Segments,
                        cleaner_state' = "IDLE" \/ (cleaner_state' = "RUNNING" /\ s < target'[Cleaner])
                 PROVE  ~Held(s)' /\ (s \in segment_dirty' \/ StateOf(s)' # "Main")
      BY DEF PassInv
    <3>1. s < target[w] \/ s = target[w]
      <4>1. s \in Nat /\ target[w] \in Nat /\ s < nr_main_segments /\ nr_main_segments \in Nat
        BY <1>2, ImageAssumption DEF Segments
      <4> QED
        BY <1>1, <1>3, <2>1, <4>1
    <3>2. CASE s = target[w]
      BY <3>2
    <3>3. CASE s # target[w] /\ s < target[w]
      BY <1>0, <1>1, <1>3, <2>1, <3>3 DEF PassInv
    <3> QED
      BY <3>1, <3>2, <3>3
  <2>7. \A t \in Threads : Storing(t)' <=> Storing(t)
    BY <2>2 DEF Storing, Holds
  <2> QED
    BY <1>0, <2>1, <2>3, <2>4, <2>5, <2>6, <2>7 DEF BitInv
<1>4. CASE w # Cleaner
  <2>1. /\ pc'[w] = "hook" /\ target'[w] = 0
        /\ \A x \in Workers : x # w => pc'[x] = pc[x] /\ target'[x] = target[x]
        /\ pending'[w] = pending[w] \ {target[w]}
        /\ \A t \in Threads : t # w => pending'[t] = pending[t]
        /\ segment_dirty' = segment_dirty \cup {target[w]}
        /\ UNCHANGED cleaner_state
    BY <1>1, <1>2, <1>4 DEF Return
  <2>2. StageInv'
    BY <1>0, <1>1, <1>2, <1>4, <2>1 DEF StageInv, Holds, Up
  <2>3. ModeInv'
    BY <1>0, <1>1, <1>4, <2>1 DEF ModeInv
  <2>4. w \in Threads /\ Storing(w) /\ Storing(w)' /\ \A t \in Threads : Storing(t)' <=> Storing(t)
    BY <1>1, <1>2, <1>4, <2>1 DEF Storing, Holds
  <2>5. PendInv'
    <3> SUFFICES ASSUME NEW t \in Threads, Storing(t)'
                 PROVE  /\ \A b \in range'[t] : b[1] \in segment_dirty' \cup pending'[t]
                        /\ pending'[t] \subseteq {b[1] : b \in range'[t]}
                        /\ pc'[t] # "hook" => target'[t] \in pending'[t]
      BY DEF PendInv
    <3>1. CASE t = w
      BY <1>0, <2>1, <2>4, <3>1 DEF PendInv
    <3>2. CASE t # w
      BY <1>0, <1>2, <2>1, <2>4, <3>2 DEF PendInv
    <3> QED
      BY <3>1, <3>2
  <2>6. PassInv'
    <3> SUFFICES ASSUME NEW s \in Segments,
                        cleaner_state' = "IDLE" \/ (cleaner_state' = "RUNNING" /\ s < target'[Cleaner])
                 PROVE  ~Held(s)' /\ (s \in segment_dirty' \/ StateOf(s)' # "Main")
      BY DEF PassInv
    <3>1. target'[Cleaner] = target[Cleaner]
      BY <1>2, <1>4, <2>1
    <3>2. CASE s = target[w]
      BY <3>2
    <3>3. CASE s # target[w]
      BY <1>0, <2>1, <3>1, <3>3 DEF PassInv
    <3> QED
      BY <3>2, <3>3
  <2>7. ASSUME NEW s \in segment_dirty'
        PROVE  \/ \E b \in Touched' : b[1] = s
               \/ \E t \in Threads : Storing(t)' /\ \E b \in range'[t] : b[1] = s
    <3>1. CASE s = target[w]
      <4>1. target[w] \in pending[w] /\ pending[w] \subseteq {b[1] : b \in range[w]}
        BY <1>0, <2>4 DEF PendInv
      <4> QED
        BY <2>4, <3>1, <4>1
    <3>2. CASE s \in segment_dirty
      BY <1>0, <2>4, <3>2 DEF BitInv
    <3> QED
      BY <2>1, <2>7, <3>1, <3>2
  <2> QED
    BY <2>2, <2>3, <2>5, <2>6, <2>7
<1> QED
  BY <1>3, <1>4

\* The segment is not Main: nothing to copy.
LEMMA LazyNothingToDoFirst ==
  ASSUME Intact, IndInv, OwnBack, FirstInv, NEW w \in Workers, LazyNothingToDo(w)
  PROVE  FirstInv'
<1> USE DEF imageVars, historyVars, hookVars, lockVars, ckptVars, Goto
<1>s. PICK s : s = target[w]
  OBVIOUS
<1>0. /\ TypeOK /\ TargetInv /\ LockInv /\ StageInv /\ ModeInv /\ PendInv /\ BitInv
  BY DEF FirstInv, IndInv, StructInv
<1>1. /\ pc[w] = "lwb" /\ LockOf(s) \notin segment_locks /\ Return(w)
      /\ UNCHANGED <<imageVars, range, address_buffer, flush_blocks, block_dirty, ckptVars,
                     cleaner_mutex, historyVars>>
      /\ \/ StateOf(s) # "Main" /\ main_to_back[s] # Null
         \/ w = Cleaner /\ main_to_back[s] = Null
  BY <1>s DEF LazyNothingToDo
<1>2. /\ phase \in {"run", "lock"} /\ (w # Cleaner => w \in Threads /\ phase = "run")
  BY <1>0, <1>1, LazyPhase
<1>3. s \in Segments
  BY <1>s, <1>0, <1>1 DEF TargetInv
<1>4. StateOf(s) # "Main" /\ ~Held(s)
  <2>1. main_to_back[s] # Null
    BY <1>0, <1>2, <1>3, BackFacts
  <2>2. ~Held(s)
    BY <1>0, <1>1 DEF LockInv, Held
  <2> QED
    BY <1>1, <2>1, <2>2
<1> DEFINE D == IF w = Cleaner THEN {} ELSE {s}
<1>5. /\ D \in SUBSET Segments /\ segment_dirty' = segment_dirty \cup D
      /\ D # {} => phase = "run"
      /\ \A r \in D : StateOf(r) # "Main" /\ ~Held(r)
  BY <1>s, <1>1, <1>2, <1>3, <1>4 DEF Return
<1>6. \A x \in Workers : Holds(x) \/ pc'[x] \in {"copy", "fence", "state"}
                           => pc'[x] = pc[x] /\ target'[x] = target[x]
  <2>1. /\ pc'[w] \in {"loop", "hook"}
        /\ \A x \in Workers : x # w => pc'[x] = pc[x] /\ target'[x] = target[x]
    BY <1>0, <1>1 DEF Return, TypeOK
  <2> QED
    BY <1>1, <2>1 DEF Holds
<1> HIDE DEF D
<1>7. /\ ListInv' /\ HeldInv' /\ SlotInv' /\ StateInv' /\ MainInv' /\ BackInv'
      /\ \A r : Held(r)' <=> Held(r)
      /\ Touched' = Touched
      /\ \A b \in Drained' : b[1] \in segment_dirty'
      /\ \A b \in block_dirty' : \/ b[1] \in segment_dirty' \/ StateOf(b[1])' = "Main"
                                 \/ Settling(b[1])'
  BY <1>1, <1>5, <1>6, MarkFrame
<1>8. \A r : StateOf(r)' = StateOf(r)
  BY <1>1 DEF StateOf, Active
<1>9. /\ StageInv' /\ ModeInv' /\ PendInv' /\ PassInv'
      /\ \A r \in segment_dirty' :
           \/ \E b \in Touched' : b[1] = r
           \/ \E t \in Threads : Storing(t)' /\ \E b \in range'[t] : b[1] = r
  <2>1. UNCHANGED <<range, address_buffer, flush_blocks, ckptVars, cleaner_mutex>>
    BY <1>1
  <2>2. ~Held(s)' /\ StateOf(s)' # "Main"
    BY <1>4, <1>7, <1>8
  <2> QED
    BY <1>s, <1>1, <1>3, <1>7, <1>8, <2>1, <2>2, ReturnControl
<1> QED
  BY <1>7, <1>9 DEF FirstInv, BitInv

\* A Main segment is locked; it has not been stored to.
LEMMA LazyLockFirst ==
  ASSUME Intact, IndInv, FirstInv, NEW w \in Workers, LazyLock(w)
  PROVE  FirstInv'
<1> USE DEF imageVars, historyVars, hookVars, lockVars, ckptVars, cleanerVars, Goto
<1>s. PICK s : s = target[w]
  OBVIOUS
<1>0. /\ TypeOK /\ TargetInv /\ LockInv /\ StageInv /\ ModeInv /\ PendInv /\ BitInv
      /\ ListInv /\ HeldInv /\ PassInv /\ SlotInv /\ StateInv /\ MainInv /\ BackInv
  BY DEF FirstInv, IndInv, StructInv
<1>1. /\ pc[w] = "lwb" /\ StateOf(s) = "Main" /\ pc' = [pc EXCEPT ![w] = "copy"]
      /\ UNCHANGED <<imageVars, range, pending, target, hookVars, ckptVars, cleanerVars,
                     historyVars>>
  BY <1>s DEF LazyLock
<1>2. /\ phase \in {"run", "lock"} /\ Early
  BY <1>0, <1>1, LazyPhase
<1>3. s \in Segments /\ s \notin segment_dirty
  BY <1>s, <1>0, <1>1, <1>2 DEF TargetInv, HeldInv
<1>4. pc'[w] = "copy" /\ \A x \in Workers : x # w => pc'[x] = pc[x]
  BY <1>0, <1>1 DEF TypeOK
<1>5. /\ \A r : Settling(r)' <=> Settling(r)
      /\ \A r : StateOf(r)' = StateOf(r)
      /\ \A r : Held(r)' => Held(r) \/ r = s
      /\ \A x \in Workers : pc'[x] = "fence" => pc[x] = "fence"
  BY <1>s, <1>1, <1>4 DEF Settling, StateOf, Active, Held, Holds
<1>6. /\ Drained' = Drained /\ Listed' = Listed /\ (Early' <=> Early) /\ (Flushed' <=> Flushed)
      /\ Touched' = Touched
      /\ \A r : Indifferent(r)' <=> Indifferent(r)
  BY <1>1 DEF Drained, Buffered, Listed, Early, Flushed, Both, Touched, Indifferent
<1>7. StageInv'
  BY <1>0, <1>1, <1>2, <1>4 DEF StageInv, Holds, Up, Workers
<1>8. ModeInv'
  BY <1>0, <1>1, ModeFrame DEF ModeInv
<1>9. \A t \in Threads : (Storing(t)' <=> Storing(t)) /\ (pc'[t] = "hook" <=> pc[t] = "hook")
  BY <1>1, <1>4 DEF Storing, Holds, Workers
<1>10. PendInv'
  BY <1>0, <1>1, <1>9 DEF PendInv
<1>11. BitInv'
  BY <1>0, <1>1, <1>5, <1>6, <1>9 DEF BitInv
<1>12. ListInv'
  BY <1>0, <1>1, <1>6 DEF ListInv
<1>13. HeldInv'
  <2>1. ASSUME NEW x \in Workers, Holds(x)' PROVE
          /\ target'[x] \notin segment_dirty'
          /\ StateOf(target[x])' = IF pc'[x] = "state" THEN "Back" ELSE "Main"
    <3>1. CASE x = w
      BY <1>s, <1>1, <1>3, <1>4, <1>5, <3>1
    <3>2. CASE x # w
      BY <1>0, <1>1, <1>4, <1>5, <2>1, <3>2 DEF HeldInv, Holds
    <3> QED
      BY <3>1, <3>2
  <2> QED
    BY <1>0, <1>1, <1>5, <1>6, <2>1 DEF HeldInv
<1>14. PassInv'
  <2> SUFFICES ASSUME NEW r \in Segments,
                      cleaner_state' = "IDLE" \/ (cleaner_state' = "RUNNING" /\ r < target'[Cleaner])
               PROVE  ~Held(r)' /\ (r \in segment_dirty' \/ StateOf(r)' # "Main")
    BY DEF PassInv
  <2>1. ~Held(r) /\ (r \in segment_dirty \/ StateOf(r) # "Main")
    BY <1>0, <1>1 DEF PassInv
  <2>2. r # s
    BY <1>1, <1>3, <2>1
  <2> QED
    BY <1>1, <1>5, <2>1, <2>2
<1>15. SlotInv' /\ StateInv'
  <2>1. SlotInv'
    BY <1>0, <1>1, <1>5 DEF SlotInv, Active, Inactive
  <2>2. StateInv'
    BY <1>0, <1>1, <1>5, <1>6 DEF StateInv, Active, Inactive
  <2> QED
    BY <2>1, <2>2
<1>16. MainInv'
  BY <1>0, <1>1, <1>6 DEF MainInv
<1>17. BackInv'
  BY <1>0, <1>1, <1>5, <1>6 DEF BackInv
<1> QED
  BY <1>7, <1>8, <1>10, <1>11, <1>12, <1>13, <1>14, <1>15, <1>16, <1>17 DEF FirstInv

\* The blocks the back segment lacks are copied to it.
LEMMA LazyCopyFirst ==
  ASSUME Intact, IndInv, OwnBack, Coherent, FirstInv, NEW w \in Workers, LazyCopy(w)
  PROVE  FirstInv'
<1> USE DEF historyVars, hookVars, lockVars, ckptVars, cleanerVars, Goto
<1>s. PICK s : s = target[w]
  OBVIOUS
<1>0. /\ TypeOK /\ TargetInv /\ LockInv /\ StageInv /\ ModeInv /\ PendInv /\ BitInv
      /\ ListInv /\ HeldInv /\ PassInv /\ SlotInv /\ StateInv /\ MainInv /\ BackInv
  BY DEF FirstInv, IndInv, StructInv
<1> DEFINE X == BlocksOf(s) \cap block_dirty
<1>1. /\ pc[w] = "copy" /\ pc' = [pc EXCEPT ![w] = "fence"]
      /\ UNCHANGED <<committed_epoch, attributes, segment_state, segment_state_pm,
                     segment_state_dirty, back_to_main, main_to_back, main, main_pm>>
      /\ UNCHANGED <<range, pending, target, hookVars, ckptVars, cleanerVars, historyVars>>
  BY DEF LazyCopy
<1>2. Holds(w) /\ s \in Segments
  BY <1>s, <1>0, <1>1 DEF Holds, TargetInv
<1>3. /\ phase \in {"run", "lock"} /\ Early /\ ~Flushed /\ committing # "Back"
  BY <1>0, <1>2, LazyPhase
<1>4. s \notin segment_dirty /\ StateOf(s) = "Main"
  BY <1>s, <1>0, <1>1, <1>2 DEF HeldInv
<1>5. /\ \A b \in Blocks : b \in X => back'[b] = main[b] /\ back_pm'[b] = back_pm[b] \cup {main[b]}
      /\ \A b \in Blocks : b \notin X => back'[b] = back[b] /\ back_pm'[b] = back_pm[b]
  <2>1. ~created[w]
    BY DEF OwnBack
  <2>2. LazyBlocks(s, created[w]) = X
    BY <2>1 DEF LazyBlocks
  <2>3. X \in SUBSET Blocks
    BY <1>0, <1>2, Shapes
  <2>4. BackImage(X) = X /\ BackData = main
    BY <1>0, <1>3, <2>3, BackFacts
  <2>5. back' = Write(back, X, main) /\ back_pm' = Put(back_pm, X, main)
    BY <1>s, <2>2, <2>4 DEF LazyCopy
  <2>6. DOMAIN back = Blocks /\ DOMAIN back_pm = Blocks
    BY <1>0, Shapes DEF TypeOK, ImageTypeOK
  <2> HIDE DEF X
  <2> QED
    BY <2>5, <2>6 DEF Write, Put
<1>6. \A b \in BlocksOf(s) : /\ b \in Blocks /\ b[1] = s /\ b \notin Touched
                             /\ main[b] = snap[b]
  <2>1. \A b \in BlocksOf(s) : b \in Blocks /\ b[1] = s
    BY <1>0, <1>2, Shapes
  <2>2. \A b \in BlocksOf(s) : b \notin Touched
    BY <1>0, <1>4, <2>1 DEF BitInv, Touched
  <2> QED
    BY <1>0, <2>1, <2>2 DEF MainInv
<1>7. pc'[w] = "fence" /\ \A x \in Workers : x # w => pc'[x] = pc[x]
  BY <1>0, <1>1 DEF TypeOK
<1>8. /\ \A r : Settling(r)' <=> Settling(r)
      /\ \A r : StateOf(r)' = StateOf(r)
      /\ \A r : Held(r)' <=> Held(r)
  BY <1>1, <1>7 DEF Settling, StateOf, Active, Held, Holds
<1>9. /\ Drained' = Drained /\ Listed' = Listed /\ (Early' <=> Early) /\ (Flushed' <=> Flushed)
      /\ Touched' = Touched
  BY <1>1 DEF Drained, Buffered, Listed, Early, Flushed, Touched
<1>10. StageInv'
  BY <1>0, <1>1, <1>3, <1>7 DEF StageInv, Holds, Up, Workers
<1>11. ModeInv'
  BY <1>0, <1>1, ModeFrame DEF ModeInv
<1>12. \A t \in Threads : (Storing(t)' <=> Storing(t)) /\ (pc'[t] = "hook" <=> pc[t] = "hook")
  BY <1>1, <1>7 DEF Storing, Holds, Workers
<1>13. PendInv'
  BY <1>0, <1>1, <1>12 DEF PendInv
<1>14. BitInv'
  BY <1>0, <1>1, <1>8, <1>9, <1>12 DEF BitInv
<1>15. ListInv'
  BY <1>0, <1>1, <1>9 DEF ListInv
<1>16. HeldInv'
  <2>1. \A x \in Workers : (Holds(x)' <=> Holds(x)) /\ (pc'[x] = "state" <=> pc[x] = "state")
    BY <1>1, <1>7 DEF Holds
  <2> QED
    BY <1>0, <1>1, <1>8, <1>9, <2>1 DEF HeldInv
<1>17. PassInv'
  BY <1>0, <1>1, <1>8, PassFrame
<1>18. SlotInv'
  BY <1>0, <1>1, <1>8 DEF SlotInv, Active, Inactive
<1>19. \A r \in Segments : Indifferent(r) => Indifferent(r)'
  <2> SUFFICES ASSUME NEW r \in Segments, Indifferent(r), NEW b \in BlocksOf(r) PROVE Both(b)'
    BY <1>1 DEF Indifferent, BlocksOf
  <2>1. b \in Blocks /\ Both(b)
    BY <1>0, Shapes DEF Indifferent
  <2>2. CASE b \in X
    <3>1. back_pm'[b] = back_pm[b] \cup {snap[b]}
      BY <1>5, <1>6, <2>1, <2>2
    <3> QED
      BY <1>1, <2>1, <3>1 DEF Both
  <2>3. CASE b \notin X
    BY <1>1, <1>5, <2>1, <2>3 DEF Both
  <2> QED
    BY <2>2, <2>3
<1>20. StateInv'
  BY <1>0, <1>1, <1>8, <1>19 DEF StateInv, Active, Inactive
<1>21. MainInv'
  BY <1>0, <1>1, <1>9 DEF MainInv
<1>22. BackInv'
  <2>1. ASSUME NEW b \in Blocks,
               StateOf(b[1])' # "Main" \/ b \notin block_dirty' \/ (committing' = "Back" /\ b[1] \in segment_dirty')
        PROVE  back_pm'[b] = {snap'[b]}
    <3>1. StateOf(b[1]) # "Main" \/ b \notin block_dirty
      BY <1>1, <1>3, <1>8, <2>1
    <3>2. b \notin X
      BY <1>4, <1>6, <3>1
    <3> QED
      BY <1>0, <1>1, <1>5, <3>1, <3>2 DEF BackInv
  <2>2. ASSUME NEW x \in Workers, pc'[x] = "fence", NEW b \in BlocksOf(target[x])
        PROVE  back'[b] = snap[b]
    <3>1. CASE x = w
      <4>1. b \in BlocksOf(s)
        BY <1>s, <2>2, <3>1
      <4>2. CASE b \in X
        BY <1>5, <1>6, <4>1, <4>2
      <4>3. CASE b \notin X
        <5>1. b \in Blocks /\ b \notin block_dirty
          BY <1>6, <4>1, <4>3
        <5>2. back_pm[b] = {snap[b]} /\ back[b] \in back_pm[b]
          BY <1>0, <5>1 DEF BackInv, Coherent
        <5> QED
          BY <1>5, <4>3, <5>1, <5>2
      <4> QED
        BY <4>2, <4>3
    <3>2. CASE x # w
      <4>1. pc[x] = "fence" /\ Holds(x) /\ target[x] \in Segments
        BY <1>0, <1>7, <2>2, <3>2 DEF Holds, TargetInv
      <4>2. target[x] # s
        BY <1>s, <1>0, <1>2, <3>2, <4>1 DEF LockInv
      <4>3. b \in Blocks /\ b[1] = target[x] /\ b \notin X
        BY <1>0, <1>6, <2>2, <4>1, <4>2, Shapes
      <4> QED
        BY <1>0, <1>5, <2>2, <4>1, <4>3 DEF BackInv
    <3> QED
      BY <3>1, <3>2
  <2> HIDE DEF X
  <2> QED
    BY <1>0, <1>1, <1>3, <1>8, <2>1, <2>2 DEF BackInv, BlocksOf
<1> QED
  BY <1>10, <1>11, <1>13, <1>14, <1>15, <1>16, <1>17, <1>18, <1>20, <1>21, <1>22 DEF FirstInv

\* The copies are fenced, and the slot that counts says Back.
LEMMA LazyFenceFirst ==
  ASSUME Intact, IndInv, OwnBack, FirstInv, NEW w \in Workers, LazyFence(w)
  PROVE  FirstInv'
<1> USE DEF historyVars, hookVars, lockVars, ckptVars, cleanerVars, Goto
<1>s. PICK s : s = target[w]
  OBVIOUS
<1>0. /\ TypeOK /\ TargetInv /\ LockInv /\ StageInv /\ ModeInv /\ PendInv /\ BitInv
      /\ ListInv /\ HeldInv /\ PassInv /\ SlotInv /\ StateInv /\ MainInv /\ BackInv
  BY DEF FirstInv, IndInv, StructInv
<1>1. /\ pc[w] = "fence" /\ pc' = [pc EXCEPT ![w] = "state"]
      /\ UNCHANGED <<committed_epoch, attributes, segment_state_dirty, back_to_main,
                     main_to_back, main, main_pm, back>>
      /\ UNCHANGED <<range, pending, target, hookVars, ckptVars, cleanerVars, historyVars>>
  BY DEF LazyFence
<1>2. Holds(w) /\ s \in Segments
  BY <1>s, <1>0, <1>1 DEF Holds, TargetInv
<1>3. /\ phase \in {"run", "lock"} /\ Early /\ ~Flushed /\ committing # "Back"
  BY <1>0, <1>2, LazyPhase
<1>4. s \notin segment_dirty /\ StateOf(s) = "Main"
  BY <1>s, <1>0, <1>1, <1>2 DEF HeldInv
<1>5. \A b \in Blocks : back_pm'[b] = IF b[1] = s THEN {snap[b]} ELSE back_pm[b]
  <2>1. back_pm' = Settle(back_pm, BlocksOf(s), back)
    BY <1>s, <1>0, <1>2, <1>3, BackFacts DEF LazyFence
  <2>2. DOMAIN back_pm = Blocks
    BY <1>0, Shapes DEF TypeOK, ImageTypeOK
  <2>3. \A b \in Blocks : b \in BlocksOf(s) <=> b[1] = s
    BY <1>0, <1>2, Shapes
  <2>4. \A b \in BlocksOf(s) : back[b] = snap[b]
    BY <1>s, <1>0, <1>1 DEF BackInv
  <2> QED
    BY <2>1, <2>2, <2>3, <2>4 DEF Settle
<1>6. /\ Active' = Active /\ Inactive' = Inactive
      /\ \A r \in Segments : /\ segment_state'[Inactive][r] = segment_state[Inactive][r]
                             /\ segment_state_pm'[Inactive][r] = segment_state_pm[Inactive][r]
                             /\ r # s => /\ segment_state'[Active][r] = segment_state[Active][r]
                                         /\ segment_state_pm'[Active][r] = segment_state_pm[Active][r]
      /\ segment_state'[Active][s] = "Back"
  <2>1. /\ segment_state' = [segment_state EXCEPT ![Active][s] = "Back"]
        /\ segment_state_pm' = [segment_state_pm EXCEPT ![Active][s] = @ \cup {"Back"}]
    BY <1>s DEF LazyFence
  <2>2. Active' = Active /\ Inactive' = Inactive
    BY <1>1 DEF Active, Inactive
  <2>3. /\ Active \in 0 .. 1 /\ Inactive \in 0 .. 1 /\ Active # Inactive
        /\ segment_state \in [0 .. 1 -> [Segments -> States]]
        /\ segment_state_pm \in [0 .. 1 -> [Segments -> (SUBSET States) \ {{}}]]
    BY <1>0, Shapes DEF TypeOK, ImageTypeOK
  <2> QED
    BY <1>2, <2>1, <2>2, <2>3
<1>7. pc'[w] = "state" /\ \A x \in Workers : x # w => pc'[x] = pc[x]
  BY <1>0, <1>1 DEF TypeOK
<1>8. /\ \A r : Settling(r)' <=> Settling(r) \/ r = s
      /\ \A r \in Segments : r # s => StateOf(r)' = StateOf(r)
      /\ StateOf(s)' = "Back"
      /\ \A r : Held(r)' <=> Held(r)
  <2>1. \A r : Settling(r)' <=> Settling(r) \/ r = s
    BY <1>s, <1>1, <1>7 DEF Settling
  <2>2. \A r : Held(r)' <=> Held(r)
    BY <1>1, <1>7 DEF Held, Holds
  <2> QED
    BY <1>6, <2>1, <2>2 DEF StateOf
<1>9. /\ Drained' = Drained /\ Listed' = Listed /\ (Early' <=> Early) /\ (Flushed' <=> Flushed)
      /\ Touched' = Touched
  BY <1>1 DEF Drained, Buffered, Listed, Early, Flushed, Touched
<1>10. StageInv'
  BY <1>0, <1>1, <1>3, <1>7 DEF StageInv, Holds, Up, Workers
<1>11. ModeInv'
  BY <1>0, <1>1, ModeFrame DEF ModeInv
<1>12. \A t \in Threads : (Storing(t)' <=> Storing(t)) /\ (pc'[t] = "hook" <=> pc[t] = "hook")
  BY <1>1, <1>7 DEF Storing, Holds, Workers
<1>13. PendInv'
  BY <1>0, <1>1, <1>12 DEF PendInv
<1>b. block_dirty \subseteq Blocks /\ \A b \in Blocks : b[1] \in Segments
  BY <1>0, Shapes DEF TypeOK
<1>14. BitInv'
  BY <1>0, <1>1, <1>8, <1>9, <1>12, <1>b DEF BitInv
<1>15. ListInv'
  BY <1>0, <1>1, <1>9 DEF ListInv
<1>16. HeldInv'
  <2>1. ASSUME NEW x \in Workers, Holds(x)' PROVE
          /\ target'[x] \notin segment_dirty'
          /\ StateOf(target[x])' = IF pc'[x] = "state" THEN "Back" ELSE "Main"
    <3>1. CASE x = w
      BY <1>s, <1>1, <1>4, <1>7, <1>8, <3>1
    <3>2. CASE x # w
      <4>1. Holds(x) /\ pc'[x] = pc[x] /\ target[x] \in Segments /\ target'[x] = target[x]
        BY <1>0, <1>1, <1>7, <2>1, <3>2 DEF Holds, TargetInv
      <4>2. target[x] # s
        BY <1>s, <1>0, <1>2, <3>2, <4>1 DEF LockInv
      <4> QED
        BY <1>0, <1>1, <1>8, <4>1, <4>2 DEF HeldInv
    <3> QED
      BY <3>1, <3>2
  <2>2. segment_dirty \subseteq Segments
    BY <1>0 DEF TypeOK
  <2> QED
    BY <1>0, <1>1, <1>4, <1>8, <1>9, <2>1, <2>2 DEF HeldInv
<1>17. PassInv'
  BY <1>0, <1>1, <1>8, PassFrame
<1>18. SlotInv'
  BY <1>0, <1>1, <1>3, <1>6, <1>8 DEF SlotInv
<1>19. \A r \in Segments : Indifferent(r) => Indifferent(r)'
  <2> SUFFICES ASSUME NEW r \in Segments, Indifferent(r), NEW b \in BlocksOf(r) PROVE Both(b)'
    BY <1>1 DEF Indifferent, BlocksOf
  <2>1. b \in Blocks /\ Both(b)
    BY <1>0, Shapes DEF Indifferent
  <2> QED
    BY <1>1, <1>5, <2>1 DEF Both
<1>20. StateInv'
  BY <1>0, <1>1, <1>6, <1>8, <1>19 DEF StateInv
<1>21. MainInv'
  BY <1>0, <1>1, <1>9 DEF MainInv
<1>22. BackInv'
  <2>1. ASSUME NEW b \in Blocks,
               StateOf(b[1])' # "Main" \/ b \notin block_dirty' \/ (committing' = "Back" /\ b[1] \in segment_dirty')
        PROVE  back_pm'[b] = {snap'[b]}
    BY <1>0, <1>1, <1>3, <1>5, <1>8, <1>b, <2>1 DEF BackInv
  <2>2. ASSUME NEW b \in Blocks, StateOf(b[1])' = "Initial" PROVE snap'[b] = Junk
    BY <1>0, <1>1, <1>8, <1>b, <2>2 DEF BackInv
  <2>3. ASSUME NEW x \in Workers, pc'[x] = "fence", NEW b \in BlocksOf(target[x])
        PROVE  back'[b] = snap[b]
    <3>1. pc[x] = "fence"
      BY <1>7, <2>3
    <3> QED
      BY <1>0, <1>1, <2>3, <3>1 DEF BackInv
  <2> QED
    BY <1>1, <1>3, <2>1, <2>2, <2>3 DEF BackInv
<1> QED
  BY <1>10, <1>11, <1>13, <1>14, <1>15, <1>16, <1>17, <1>18, <1>20, <1>21, <1>22 DEF FirstInv

\* The other slot, the bits and the lock: the segment is written back.
LEMMA LazyDoneFirst ==
  ASSUME Intact, IndInv, FirstInv, NEW w \in Workers, LazyDone(w)
  PROVE  FirstInv'
<1> USE DEF historyVars, hookVars, lockVars, ckptVars, Goto
<1>s. PICK s : s = target[w]
  OBVIOUS
<1>0. /\ TypeOK /\ TargetInv /\ LockInv /\ StageInv /\ ModeInv /\ PendInv /\ BitInv
      /\ ListInv /\ HeldInv /\ PassInv /\ SlotInv /\ StateInv /\ MainInv /\ BackInv
  BY DEF FirstInv, IndInv, StructInv
<1>1. /\ pc[w] = "state" /\ Return(w) /\ block_dirty' = block_dirty \ BlocksOf(s)
      /\ UNCHANGED <<committed_epoch, attributes, segment_state_dirty, back_to_main,
                     main_to_back, main, main_pm, back, back_pm>>
      /\ UNCHANGED <<range, address_buffer, flush_blocks, ckptVars, cleaner_mutex, historyVars>>
  BY <1>s DEF LazyDone
<1>2. Holds(w) /\ s \in Segments
  BY <1>s, <1>0, <1>1 DEF Holds, TargetInv
<1>3. /\ phase \in {"run", "lock"} /\ Early /\ ~Flushed /\ committing # "Back"
      /\ (w # Cleaner => w \in Threads /\ phase = "run")
  BY <1>0, <1>2, LazyPhase
<1>4. s \notin segment_dirty /\ StateOf(s) = "Back"
  BY <1>s, <1>0, <1>1, <1>2 DEF HeldInv
<1>5. /\ Active' = Active /\ Inactive' = Inactive
      /\ \A r \in Segments : /\ segment_state'[Active][r] = segment_state[Active][r]
                             /\ r # s => /\ segment_state'[Inactive][r] = segment_state[Inactive][r]
                                         /\ segment_state_pm'[Active][r] = segment_state_pm[Active][r]
                                         /\ segment_state_pm'[Inactive][r] = segment_state_pm[Inactive][r]
      /\ segment_state'[Inactive][s] = "Back"
      /\ segment_state_pm'[Active][s] = {"Back"}
  <2>1. /\ segment_state' = [segment_state EXCEPT ![Inactive][s] = "Back"]
        /\ segment_state_pm' = [e \in 0 .. 1 |-> [segment_state_pm[e] EXCEPT
             ![s] = IF e = Active THEN {"Back"} ELSE @ \cup {"Back"}]]
    BY <1>s DEF LazyDone
  <2>2. Active' = Active /\ Inactive' = Inactive
    BY <1>1 DEF Active, Inactive
  <2>3. /\ Active \in 0 .. 1 /\ Inactive \in 0 .. 1 /\ Active # Inactive
        /\ segment_state \in [0 .. 1 -> [Segments -> States]]
        /\ segment_state_pm \in [0 .. 1 -> [Segments -> (SUBSET States) \ {{}}]]
    BY <1>0, Shapes DEF TypeOK, ImageTypeOK
  <2> QED
    BY <1>2, <2>1, <2>2, <2>3
<1>6. /\ segment_dirty \subseteq segment_dirty' /\ segment_dirty' \subseteq segment_dirty \cup {s}
      /\ phase # "run" => segment_dirty' = segment_dirty
  BY <1>s, <1>1, <1>3 DEF Return
<1>7. /\ pc'[w] \in {"loop", "hook"}
      /\ \A x \in Workers : x # w => pc'[x] = pc[x] /\ target'[x] = target[x]
  BY <1>0, <1>1 DEF Return, TypeOK
<1>8. /\ \A r \in Segments : StateOf(r)' = StateOf(r)
      /\ \A r \in Segments : r # s => (Held(r)' <=> Held(r)) /\ (Settling(r)' <=> Settling(r))
      /\ ~Held(s)'
  <2>1. \A r : r # s => (Held(r)' <=> Held(r)) /\ (Settling(r)' <=> Settling(r))
    BY <1>s, <1>1, <1>7 DEF Held, Settling, Holds
  <2>2. ~Held(s)'
    BY <1>s, <1>0, <1>2, <1>7 DEF Held, Holds, LockInv
  <2> QED
    BY <1>5, <2>1, <2>2 DEF StateOf
<1>b. /\ block_dirty \subseteq Blocks /\ \A b \in Blocks : b[1] \in Segments
      /\ \A b \in Blocks : b \in BlocksOf(s) <=> b[1] = s
      /\ \A b \in BlocksOf(s) : b \in Blocks
      /\ segment_dirty \subseteq Segments
  BY <1>0, <1>2, Shapes DEF TypeOK
<1>9. /\ Drained' = Drained /\ Listed' = Listed /\ (Early' <=> Early) /\ (Flushed' <=> Flushed)
  BY <1>1 DEF Drained, Buffered, Listed, Early, Flushed
<1>10. Touched' = Touched
  <2>1. \A b \in Blocks : b \in block_dirty' <=> b \in block_dirty /\ b[1] # s
    BY <1>1, <1>b
  <2>2. block_dirty' \subseteq Blocks
    BY <1>1, <1>b
  <2> QED
    BY <1>4, <1>6, <1>9, <1>b, <2>1, <2>2 DEF Touched
<1>11. /\ StageInv' /\ ModeInv' /\ PendInv' /\ PassInv'
       /\ \A r \in segment_dirty' :
            \/ \E b \in Touched' : b[1] = r
            \/ \E t \in Threads : Storing(t)' /\ \E b \in range'[t] : b[1] = r
  <2>1. UNCHANGED <<range, address_buffer, flush_blocks, ckptVars, cleaner_mutex>>
    BY <1>1
  <2>2. StateOf(s)' # "Main"
    BY <1>2, <1>4, <1>8
  <2>3. \A r \in Segments : r # s => (Held(r)' => Held(r)) /\ StateOf(r)' = StateOf(r)
    BY <1>8
  <2> QED
    BY <1>s, <1>1, <1>2, <1>8, <1>10, <2>1, <2>2, <2>3, ReturnControl
<1>12. BitInv'
  <2>1. \A b \in block_dirty' : \/ b[1] \in segment_dirty' \/ StateOf(b[1])' = "Main"
                                \/ Settling(b[1])'
    BY <1>0, <1>1, <1>6, <1>8, <1>b DEF BitInv
  <2>2. \A b \in Drained' : b[1] \in segment_dirty'
    BY <1>0, <1>6, <1>9 DEF BitInv
  <2> QED
    BY <1>11, <2>1, <2>2 DEF BitInv
<1>13. ListInv'
  <2>1. \A b \in Blocks : b \in block_dirty' /\ b[1] \in segment_dirty'
                            <=> b \in block_dirty /\ b[1] \in segment_dirty
    BY <1>1, <1>4, <1>6, <1>b
  <2>2. block_dirty' \subseteq Blocks
    BY <1>1, <1>b
  <2> QED
    BY <1>0, <1>1, <1>9, <1>b, <2>1, <2>2 DEF ListInv
<1>14. HeldInv'
  <2>1. ASSUME NEW x \in Workers, Holds(x)' PROVE
          /\ target'[x] \notin segment_dirty'
          /\ StateOf(target[x])' = IF pc'[x] = "state" THEN "Back" ELSE "Main"
    <3>1. x # w
      BY <1>7, <2>1 DEF Holds
    <3>2. Holds(x) /\ pc'[x] = pc[x] /\ target[x] \in Segments /\ target'[x] = target[x]
      BY <1>0, <1>7, <2>1, <3>1 DEF Holds, TargetInv
    <3>3. target[x] # s
      BY <1>s, <1>0, <1>2, <3>1, <3>2 DEF LockInv
    <3>4. StateOf(target[x])' = StateOf(target[x])
      BY <1>8, <3>2
    <3> QED
      BY <1>0, <1>6, <3>2, <3>3, <3>4 DEF HeldInv
  <2>2. \A r \in segment_dirty' : StateOf(r)' # "Main"
    BY <1>0, <1>2, <1>3, <1>4, <1>6, <1>8, <1>b DEF HeldInv
  <2> QED
    BY <2>1, <2>2 DEF HeldInv
<1>15. SlotInv'
  <2>1. segment_state'[Active][s] = "Back"
    BY <1>2, <1>4, <1>5 DEF StateOf
  <2> QED
    BY <1>0, <1>1, <1>3, <1>5, <1>8, <2>1 DEF SlotInv
<1>16. \A b \in Blocks : b[1] = s => Both(b)
  <2> SUFFICES ASSUME NEW b \in Blocks, b[1] = s PROVE Both(b)
    OBVIOUS
  <2>1. b \notin Touched
    BY <1>0, <1>4 DEF BitInv, Touched
  <2>2. main_pm[b] = {snap[b]}
    BY <1>0, <2>1 DEF MainInv
  <2>3. back_pm[b] = {snap[b]}
    BY <1>0, <1>4 DEF BackInv
  <2> QED
    BY <2>2, <2>3 DEF Both
<1>17. \A r \in Segments : phase # "run" /\ (r = s \/ Indifferent(r)) => Indifferent(r)'
  <2> SUFFICES ASSUME NEW r \in Segments, phase # "run", r = s \/ Indifferent(r) PROVE Indifferent(r)'
    OBVIOUS
  <2>1. r \notin segment_dirty'
    BY <1>4, <1>6 DEF Indifferent
  <2>2. ASSUME NEW b \in BlocksOf(r) PROVE Both(b)'
    <3>1. Both(b)
      BY <1>16, <1>b, <2>2 DEF Indifferent
    <3> QED
      BY <1>1, <3>1 DEF Both
  <2> QED
    BY <2>1, <2>2 DEF Indifferent, BlocksOf
<1>18. StateInv'
  <2>1. StateOf(s)' = "Back"
    BY <1>2, <1>4, <1>8
  <2>2. ASSUME NEW r \in Segments PROVE \/ segment_state_pm'[Active'][r] = {StateOf(r)'}
                                        \/ Settling(r)'
                                        \/ phase' # "run" /\ Indifferent(r)'
    <3>1. CASE r = s
      BY <1>5, <2>1, <3>1
    <3>2. CASE r # s
      BY <1>0, <1>1, <1>5, <1>8, <1>17, <3>2 DEF StateInv
    <3> QED
      BY <3>1, <3>2
  <2>3. ASSUME NEW r \in Segments, phase' = "lock"
        PROVE  segment_state_pm'[Inactive'][r] = {segment_state'[Inactive'][r]} \/ Indifferent(r)'
    <3>1. CASE r = s
      BY <1>1, <1>17, <2>3, <3>1
    <3>2. CASE r # s
      BY <1>0, <1>1, <1>5, <1>17, <2>3, <3>2 DEF StateInv
    <3> QED
      BY <3>1, <3>2
  <2> QED
    BY <1>1, <1>3, <2>2, <2>3 DEF StateInv
<1>19. MainInv'
  BY <1>0, <1>1, <1>9, <1>10 DEF MainInv
<1>20. BackInv'
  <2>1. ASSUME NEW b \in Blocks,
               StateOf(b[1])' # "Main" \/ b \notin block_dirty' \/ (committing' = "Back" /\ b[1] \in segment_dirty')
        PROVE  back_pm'[b] = {snap'[b]}
    <3>1. CASE b[1] = s
      BY <1>1, <1>16, <3>1 DEF Both
    <3>2. CASE b[1] # s
      BY <1>0, <1>1, <1>3, <1>8, <1>b, <2>1, <3>2 DEF BackInv
    <3> QED
      BY <3>1, <3>2
  <2>2. ASSUME NEW b \in Blocks, StateOf(b[1])' = "Initial" PROVE snap'[b] = Junk
    BY <1>0, <1>1, <1>8, <1>b, <2>2 DEF BackInv
  <2>3. ASSUME NEW x \in Workers, pc'[x] = "fence"
        PROVE  \A b \in BlocksOf(target'[x]) : back'[b] = snap[b]
    <3>1. pc[x] = "fence" /\ target'[x] = target[x]
      BY <1>7, <2>3
    <3> QED
      BY <1>0, <1>1, <3>1 DEF BackInv
  <2> QED
    BY <1>1, <1>3, <2>1, <2>2, <2>3 DEF BackInv, BlocksOf
<1> QED
  BY <1>11, <1>12, <1>13, <1>14, <1>15, <1>18, <1>19, <1>20 DEF FirstInv

-----------------------------------------------------------------------------
(* The cleaner's loop, and the beginning of a checkpoint.                  *)

\* A thread that is not storing enters the checkpoint.
LEMMA CheckpointEnterFirst ==
  ASSUME Intact, IndInv, FirstInv, NEW t \in Threads, CheckpointEnter(t)
  PROVE  FirstInv'
<1> USE DEF imageVars, historyVars, hookVars, lockVars, ckptVars, cleanerVars, Goto
<1>0. /\ TypeOK /\ StageInv /\ ModeInv /\ PendInv /\ BitInv /\ PassInv
  BY DEF FirstInv, IndInv
<1>1. /\ phase = "run" /\ pc[t] = "app" /\ pc' = [pc EXCEPT ![t] = "ckpt"]
      /\ UNCHANGED <<imageVars, hookVars, phase, committing, historyVars>>
      /\ UNCHANGED <<range, pending, target, cleanerVars, skip_copy_on_write, flush_mode>>
  BY DEF CheckpointEnter
<1>2. /\ pc \in [Workers -> PcSet] /\ t \in Workers /\ t # Cleaner
      /\ Threads \subseteq Workers /\ Cleaner \in Workers
  BY <1>0, EngineAssumption DEF TypeOK, Workers
<1>3. pc'[t] = "ckpt" /\ \A w \in Workers : w # t => pc'[w] = pc[w]
  BY <1>1, <1>2
<1>4. \A w \in Workers : Holds(w) \/ pc'[w] \in {"copy", "fence", "state"}
                           => pc'[w] = pc[w] /\ target'[w] = target[w]
  BY <1>1, <1>3 DEF Holds
<1>5. /\ ListInv' /\ HeldInv' /\ SlotInv' /\ StateInv' /\ MainInv' /\ BackInv'
      /\ \A s : Held(s)' <=> Held(s)
      /\ Touched' = Touched
      /\ \A b \in Drained' : b[1] \in segment_dirty'
      /\ \A b \in block_dirty' : \/ b[1] \in segment_dirty' \/ StateOf(b[1])' = "Main"
                                 \/ Settling(b[1])'
  BY <1>1, <1>4, StillFrame
<1>6. StageInv'
  BY <1>0, <1>1, <1>2, <1>3 DEF StageInv, Holds, Up
<1>7. ModeInv'
  BY <1>0, <1>1, ModeFrame DEF ModeInv
<1>8. \A u \in Threads : (Storing(u)' <=> Storing(u)) /\ (Storing(u) => pc'[u] = pc[u])
  BY <1>1, <1>2, <1>3 DEF Storing, Holds
<1>9. PendInv'
  BY <1>0, <1>1, <1>8 DEF PendInv
<1>10. BitInv'
  BY <1>0, <1>1, <1>5, <1>8, OwedFrame DEF BitInv
<1>11. PassInv'
  BY <1>0, <1>1, <1>5, PassFrame DEF StateOf, Active
<1> QED
  BY <1>5, <1>6, <1>7, <1>9, <1>10, <1>11 DEF FirstInv

\* The cleaner waits for its mutex, starts a pass, turns to a segment or waits.
LEMMA CleanerStepFirst ==
  ASSUME Intact, IndInv, FirstInv, CleanerStep
  PROVE  FirstInv'
<1> USE DEF imageVars, historyVars, hookVars, lockVars, ckptVars, cleanerVars, Goto
<1>0. /\ TypeOK /\ StageInv /\ ModeInv /\ PendInv /\ BitInv /\ PassInv
  BY DEF FirstInv, IndInv
<1>1. /\ pc[Cleaner] \in {"blocked", "loop"}
      /\ UNCHANGED <<imageVars, hookVars, phase, committing, historyVars>>
      /\ UNCHANGED <<range, pending, skip_copy_on_write, flush_mode>>
  BY DEF CleanerStep, CleanerAcquire, CleanerLoop
<1>2. /\ pc \in [Workers -> PcSet] /\ target \in [Workers -> 0 .. nr_main_segments]
      /\ Threads \subseteq Workers /\ Cleaner \in Workers /\ Cleaner \notin Threads
  BY <1>0, EngineAssumption DEF TypeOK, Workers
<1>3. /\ \A w \in Workers : w # Cleaner => pc'[w] = pc[w] /\ target'[w] = target[w]
      /\ pc'[Cleaner] \in {"blocked", "loop", "lwb"}
  <2>1. CASE CleanerAcquire
    BY <1>2, <2>1 DEF CleanerAcquire
  <2>2. CASE CleanerLoop
    BY <1>2, <2>2 DEF CleanerLoop
  <2> QED
    BY <2>1, <2>2 DEF CleanerStep
<1>4. \A w \in Workers : Holds(w) \/ pc'[w] \in {"copy", "fence", "state"}
                           => pc'[w] = pc[w] /\ target'[w] = target[w]
  BY <1>1, <1>3 DEF Holds
<1>5. /\ ListInv' /\ HeldInv' /\ SlotInv' /\ StateInv' /\ MainInv' /\ BackInv'
      /\ \A s : Held(s)' <=> Held(s)
      /\ Touched' = Touched
      /\ \A b \in Drained' : b[1] \in segment_dirty'
      /\ \A b \in block_dirty' : \/ b[1] \in segment_dirty' \/ StateOf(b[1])' = "Main"
                                 \/ Settling(b[1])'
  BY <1>1, <1>4, StillFrame
<1>6. \A u \in Threads : pc'[u] = pc[u] /\ target'[u] = target[u] /\ (Storing(u)' <=> Storing(u))
  BY <1>2, <1>3 DEF Storing, Holds
<1>7. PendInv'
  BY <1>0, <1>1, <1>6 DEF PendInv
<1>8. BitInv'
  BY <1>0, <1>1, <1>5, <1>6, OwedFrame DEF BitInv
<1>9. CASE CleanerAcquire
  <2>1. /\ cleaner_mutex = "free" /\ cleaner_mutex' = "cleaner" /\ pc'[Cleaner] = "loop"
        /\ UNCHANGED <<cleaner_state, target>>
    BY <1>2, <1>9 DEF CleanerAcquire
  <2>2. StageInv'
    BY <1>0, <1>1, <1>6, <2>1 DEF StageInv, Holds, Up
  <2>3. ModeInv'
    BY <1>0, <1>1, <2>1, ModeFrame DEF ModeInv
  <2>4. PassInv'
    BY <1>0, <1>1, <1>5, <2>1, PassFrame DEF StateOf, Active
  <2> QED
    BY <1>5, <1>7, <1>8, <2>2, <2>3, <2>4 DEF FirstInv
<1>10. CASE CleanerLoop
  <2>0. pc[Cleaner] = "loop" /\ cleaner_mutex = "cleaner"
    BY <1>0, <1>10 DEF CleanerLoop, StageInv
  <2>1. CASE /\ cleaner_state = "STARTED" /\ target' = [target EXCEPT ![Cleaner] = 0]
             /\ cleaner_state' = "RUNNING" /\ UNCHANGED <<pc, cleaner_mutex>>
    <3>1. StageInv'
      BY <1>0, <1>1, <2>0, <2>1 DEF StageInv, Holds, Up
    <3>2. ModeInv'
      BY <1>0, <1>1, <2>1, ModeFrame DEF ModeInv
    <3>3. PassInv'
      <4>1. target'[Cleaner] = 0 /\ \A s \in Segments : ~(s < 0)
        BY <1>2, <2>1, ImageAssumption DEF Segments
      <4> QED
        BY <2>1, <4>1 DEF PassInv
    <3> QED
      BY <1>5, <1>7, <1>8, <3>1, <3>2, <3>3 DEF FirstInv
  <2>2. CASE /\ cleaner_state = "RUNNING" /\ pc' = [pc EXCEPT ![Cleaner] = "lwb"]
             /\ UNCHANGED <<target, cleaner_state, cleaner_mutex>>
    <3>1. StageInv'
      BY <1>0, <1>1, <1>2, <1>6, <2>0, <2>2 DEF StageInv, Holds, Up
    <3>2. ModeInv'
      BY <1>0, <1>1, <2>2, ModeFrame DEF ModeInv
    <3>3. PassInv'
      BY <1>0, <1>1, <1>5, <2>2, PassFrame DEF StateOf, Active
    <3> QED
      BY <1>5, <1>7, <1>8, <3>1, <3>2, <3>3 DEF FirstInv
  <2>3. CASE /\ pc' = [pc EXCEPT ![Cleaner] = "blocked"] /\ cleaner_mutex' = "free"
             /\ UNCHANGED <<target, cleaner_state>>
    <3>1. StageInv'
      BY <1>0, <1>1, <1>2, <1>6, <2>0, <2>3 DEF StageInv, Holds, Up
    <3>2. ModeInv'
      BY <1>0, <1>1, <2>3, ModeFrame DEF ModeInv
    <3>3. PassInv'
      BY <1>0, <1>1, <1>5, <2>3, PassFrame DEF StateOf, Active
    <3> QED
      BY <1>5, <1>7, <1>8, <3>1, <3>2, <3>3 DEF FirstInv
  <2> QED
    BY <1>10, <2>1, <2>2, <2>3 DEF CleanerLoop
<1> QED
  BY <1>9, <1>10 DEF CleanerStep

\* The leader takes the mutex.
LEMMA CheckpointLockFirst ==
  ASSUME Intact, IndInv, FirstInv, CheckpointLock
  PROVE  FirstInv'
<1> USE DEF imageVars, historyVars, hookVars, lockVars, threadVars
<1>0. /\ StageInv /\ ModeInv /\ PendInv /\ BitInv /\ ListInv /\ HeldInv /\ PassInv
      /\ SlotInv /\ StateInv /\ MainInv /\ BackInv
  BY DEF FirstInv
<1>1. /\ phase = "lock" /\ phase' = "flush" /\ cleaner_mutex = "free" /\ cleaner_mutex' = "leader"
      /\ UNCHANGED <<imageVars, threadVars, hookVars, historyVars, committing, flush_mode,
                     skip_copy_on_write, cleaner_state>>
  BY DEF CheckpointLock
<1>2. /\ \A w : Holds(w)' <=> Holds(w)
      /\ \A s : Held(s)' <=> Held(s)
      /\ \A s : Settling(s)' <=> Settling(s)
      /\ \A s : StateOf(s)' = StateOf(s)
      /\ \A t : Storing(t)' <=> Storing(t)
  BY <1>1 DEF Held, Settling, StateOf, Active, Holds, Storing
<1>3. /\ Drained' = Drained /\ Listed' = Listed /\ Touched' = Touched
      /\ Early' /\ Early /\ ~Flushed' /\ ~Flushed
      /\ Mode(flush_blocks)' = Mode(flush_blocks)
      /\ \A s : Indifferent(s)' <=> Indifferent(s)
  BY <1>1 DEF Drained, Buffered, Listed, Touched, Early, Flushed, Mode, Indifferent, Both
<1>4. StageInv'
  BY <1>0, <1>1, <1>2 DEF StageInv, Up, Holds
<1>5. ModeInv'
  BY <1>0, <1>1, <1>3 DEF ModeInv
<1>6. PendInv' /\ BitInv'
  BY <1>0, <1>1, <1>2, <1>3 DEF PendInv, BitInv
<1>7. ListInv' /\ HeldInv' /\ PassInv'
  BY <1>0, <1>1, <1>2, <1>3 DEF ListInv, HeldInv, PassInv
<1>8. SlotInv'
  BY <1>0, <1>1, <1>2 DEF SlotInv, Active, Inactive
<1>9. StateInv'
  BY <1>0, <1>1, <1>2, <1>3 DEF StateInv, Active, Inactive
<1>10. MainInv' /\ BackInv'
  BY <1>0, <1>1, <1>2, <1>3 DEF MainInv, BackInv
<1> QED
  BY <1>4, <1>5, <1>6, <1>7, <1>8, <1>9, <1>10 DEF FirstInv

\* The buffers are drained and the mode is chosen.
LEMMA CheckpointBeginFirst ==
  ASSUME Intact, IndInv, FirstInv, CheckpointBegin
  PROVE  FirstInv'
<1> USE DEF historyVars, lockVars, cleanerVars
<1>0. /\ TypeOK /\ StageInv /\ ModeInv /\ PendInv /\ BitInv /\ ListInv /\ HeldInv /\ PassInv
      /\ SlotInv /\ StateInv /\ MainInv /\ BackInv
  BY DEF FirstInv, IndInv
<1>1. /\ phase = "run" /\ \A t \in Threads : pc[t] = "ckpt"
      /\ address_buffer' = [t \in Threads |-> <<>>]
      /\ segment_state_pm' = StatesSettled
      /\ flush_mode' = Mode(flush_blocks')
      /\ UNCHANGED <<committed_epoch, attributes, segment_state, segment_state_dirty,
                     back_to_main, main_to_back, main, main_pm, back, back_pm>>
      /\ UNCHANGED <<range, pending, target, segment_dirty, cleanerVars, historyVars>>
  BY DEF CheckpointBegin
<1>2. PICK u \in Threads : hook_routine(u, Drained)
  BY DEF CheckpointBegin
<1>3. Drained \in SUBSET Blocks /\ \A b \in Drained : b[1] \in segment_dirty
  BY <1>0, BufferedType DEF Drained, BitInv
<1>4. ListInv' /\ block_dirty' = block_dirty \cup Drained
  BY <1>0, <1>1, <1>2, <1>3, HookLists
<1>5. Drained' = {}
  <2>1. \A t \in Threads : Buffered(t)' = {}
    BY <1>1 DEF Buffered
  <2> QED
    BY <2>1 DEF Drained
<1>6. Touched' = Touched
  BY <1>1, <1>3, <1>4, <1>5 DEF Touched
<1>7. \/ /\ flush_mode' = "NO_ACTION" /\ phase' = "run" /\ UNCHANGED <<committing, skip_copy_on_write>>
         /\ pc' = [w \in Workers |-> IF w \in Threads THEN "app" ELSE pc[w]]
      \/ /\ flush_mode' # "NO_ACTION" /\ committing' = "Main" /\ phase' \in {"lock", "flush"}
         /\ phase' = "flush" => cleaner_state = "IDLE"
         /\ skip_copy_on_write' => flush_mode' = "USE_FLUSH_BLOCKS" /\ cleaner_state = "IDLE"
         /\ pc' = pc
  <2>1. CASE /\ flush_mode' = "NO_ACTION"
             /\ pc' = [w \in Workers |-> IF w \in Threads THEN "app" ELSE pc[w]]
             /\ UNCHANGED <<phase, committing, thread_busy, checkpoint_in_progress,
                            skip_copy_on_write>>
    BY <1>1, <2>1
  <2>2. CASE /\ flush_mode' # "NO_ACTION"
             /\ thread_busy' = (cleaner_state # "IDLE")
             /\ checkpoint_in_progress' = TRUE
             /\ skip_copy_on_write' = (/\ flush_mode' = "USE_FLUSH_BLOCKS"
                                       /\ ~thread_busy'
                                       /\ nr_main_segments = nr_back_segments)
             /\ phase' = IF flush_mode' = "WBINVD" \/ thread_busy'
                         THEN "lock" ELSE "flush"
             /\ committing' = "Main"
             /\ UNCHANGED pc
    BY <2>2
  <2> QED
    BY <2>1, <2>2 DEF CheckpointBegin
<1>8. /\ pc \in [Workers -> PcSet] /\ Threads \subseteq Workers /\ Cleaner \in Workers
      /\ Cleaner \notin Threads /\ Workers = Threads \cup {Cleaner}
  BY <1>0, EngineAssumption DEF TypeOK, Workers
<1>9. /\ pc'[Cleaner] = pc[Cleaner] /\ \A t \in Threads : pc'[t] \in {"app", "ckpt"}
      /\ phase' # "run" => \A t \in Threads : pc'[t] = "ckpt"
  BY <1>1, <1>7, <1>8
<1>10. /\ \A w \in Workers : (Holds(w)' <=> Holds(w)) /\ (Holds(w) => w = Cleaner)
       /\ \A w \in Workers : /\ pc'[w] = "state" <=> pc[w] = "state"
                             /\ pc'[w] = "fence" <=> pc[w] = "fence"
  BY <1>1, <1>8, <1>9 DEF Holds
<1>11. /\ \A s : Held(s)' <=> Held(s)
       /\ \A s : Settling(s)' <=> Settling(s)
       /\ \A s : StateOf(s)' = StateOf(s)
       /\ \A t \in Threads : ~Storing(t) /\ ~Storing(t)'
  BY <1>1, <1>8, <1>9, <1>10 DEF Held, Settling, StateOf, Active, Storing, Holds
<1>12. Early /\ Early' /\ ~Flushed /\ ~Flushed' /\ committing' # "Back" /\ phase' \in {"run", "lock", "flush"}
       /\ committing # "Back"
  BY <1>1, <1>7 DEF Early, Flushed, IndInv, StructInv, PhaseInv
<1>13. StageInv'
  BY <1>0, <1>1, <1>7, <1>8, <1>9, <1>10 DEF StageInv, Up, Holds
<1>14. ModeInv'
  <2>1. CASE phase' = "run"
    BY <1>0, <1>1, <1>7, <2>1 DEF ModeInv
  <2>2. CASE phase' # "run"
    BY <1>1, <1>5, <1>7, <2>2 DEF ModeInv
  <2> QED
    BY <2>1, <2>2
<1>15. PendInv'
  BY <1>11 DEF PendInv
<1>16. BitInv'
  BY <1>0, <1>1, <1>3, <1>4, <1>5, <1>6, <1>11 DEF BitInv
<1>17. HeldInv'
  BY <1>0, <1>1, <1>10, <1>11, <1>12 DEF HeldInv
<1>18. PassInv'
  BY <1>0, <1>1, <1>11 DEF PassInv
<1>19. SlotInv'
  BY <1>0, <1>1, <1>11, <1>12 DEF SlotInv, Active, Inactive
<1>20. StateInv'
  <2>1. Active' = Active /\ Inactive' = Inactive /\ Active \in 0 .. 1 /\ Inactive \in 0 .. 1
    BY <1>0, <1>1, Shapes DEF Active, Inactive
  <2>2. \A s \in Segments : /\ segment_state_pm'[Active'][s] = {StateOf(s)'}
                            /\ segment_state_pm'[Inactive'][s] = {segment_state'[Inactive'][s]}
    BY <1>1, <2>1 DEF StatesSettled, StateOf
  <2> QED
    BY <2>2 DEF StateInv
<1>21. MainInv'
  BY <1>0, <1>1, <1>6, <1>12 DEF MainInv
<1>22. BackInv'
  BY <1>0, <1>1, <1>4, <1>10, <1>11, <1>12 DEF BackInv
<1> QED
  BY <1>4, <1>13, <1>14, <1>15, <1>16, <1>17, <1>18, <1>19, <1>20, <1>21, <1>22 DEF FirstInv

-----------------------------------------------------------------------------
(* The checkpoint, from the flush to the last commit.                      *)

\* While the leader works nobody stores and nobody writes back.
LEMMA LeaderAlone ==
  ASSUME IndInv, StageInv, phase \notin {"run", "lock"}
  PROVE  /\ \A w \in Workers : ~Holds(w) /\ pc[w] # "lwb"
         /\ \A s : ~Held(s) /\ ~Settling(s)
         /\ \A t \in Threads : ~Storing(t)
<1>1. \A w \in Workers : ~Holds(w) /\ pc[w] # "lwb"
  BY LazyPhase
<1>2. \A t \in Threads : ~Storing(t)
  BY <1>1 DEF StageInv, Storing, Workers
<1>3. \A s : ~Held(s) /\ ~Settling(s)
  BY <1>1 DEF Held, Settling, Holds
<1> QED
  BY <1>1, <1>2, <1>3

\* The segments that are committed are the dirty ones, in both modes.
LEMMA LayoutIsDirty ==
  ASSUME TypeOK, ListInv, ModeInv, BitInv, phase # "run", \A t \in Threads : ~Storing(t)
  PROVE  /\ LayoutSegments = segment_dirty
         /\ flush_mode # "WBINVD" => {b[1] : b \in Listed} = segment_dirty
         /\ \A s \in segment_dirty : \E b \in Touched : b[1] = s
<1>1. Drained = {}
  BY DEF ModeInv
<1>2. \A s \in segment_dirty : \E b \in Touched : b[1] = s
  BY DEF BitInv
<1>3. ASSUME flush_mode # "WBINVD" PROVE {b[1] : b \in Listed} = segment_dirty
  <2>1. {b \in block_dirty : b[1] \in segment_dirty} = Listed
    BY <1>3, AllListed
  <2>2. Touched = Listed
    BY <1>1, <2>1 DEF Touched
  <2> QED
    BY <1>2, <2>1, <2>2
<1> QED
  BY <1>2, <1>3 DEF LayoutSegments

\* A step of the leader that leaves the threads and the bit sets alone.
LEMMA LeaderFrame ==
  ASSUME Intact, IndInv, FirstInv, phase \notin {"run", "lock"},
         phase' \notin {"run", "lock", "open", "recover"},
         UNCHANGED <<threadVars, hookVars, cleanerVars, flush_mode, skip_copy_on_write>>,
         committing' \in {"Main", "Back"}
  PROVE  /\ StageInv' /\ PendInv' /\ ListInv'
         /\ Drained = {} /\ Drained' = {} /\ Touched' = Touched /\ Listed' = Listed
         /\ Mode(flush_blocks)' = Mode(flush_blocks)
         /\ \A w \in Workers : ~Holds(w) /\ ~Holds(w)' /\ pc'[w] # "fence"
         /\ \A s : ~Held(s) /\ ~Settling(s) /\ ~Held(s)' /\ ~Settling(s)'
         /\ \A t \in Threads : ~Storing(t) /\ ~Storing(t)'
         /\ \A s \in segment_dirty' : \E b \in Touched' : b[1] = s
<1> USE DEF threadVars, hookVars, cleanerVars
<1>0. /\ TypeOK /\ StageInv /\ PendInv /\ ListInv /\ BitInv /\ ModeInv
  BY DEF FirstInv, IndInv
<1>1. /\ \A w \in Workers : ~Holds(w)
      /\ \A s : ~Held(s) /\ ~Settling(s)
      /\ \A t \in Threads : ~Storing(t)
  BY <1>0, LeaderAlone
<1>2. /\ \A w : Holds(w)' <=> Holds(w)
      /\ \A s : (Held(s)' <=> Held(s)) /\ (Settling(s)' <=> Settling(s))
      /\ \A t : Storing(t)' <=> Storing(t)
      /\ Drained' = Drained /\ Touched' = Touched /\ Listed' = Listed
      /\ Mode(flush_blocks)' = Mode(flush_blocks)
  BY DEF Holds, Held, Settling, Storing, Drained, Buffered, Touched, Listed, Mode
<1>3. Drained = {}
  BY <1>0 DEF ModeInv
<1>4. StageInv'
  BY <1>0 DEF StageInv, Up, Holds
<1>5. PendInv' /\ ListInv'
  BY <1>0, <1>2 DEF PendInv, ListInv
<1>6. \A s \in segment_dirty' : \E b \in Touched' : b[1] = s
  BY <1>0, <1>1, <1>2 DEF BitInv
<1>7. \A w \in Workers : pc'[w] # "fence"
  BY <1>1 DEF Holds
<1> QED
  BY <1>1, <1>2, <1>3, <1>4, <1>5, <1>6, <1>7

\* The listed blocks, or all, are on the medium.
LEMMA FlushParallelFirst ==
  ASSUME Intact, IndInv, FirstInv, FlushParallel
  PROVE  FirstInv'
<1> USE DEF historyVars, hookVars, lockVars, threadVars, cleanerVars
<1>0. /\ TypeOK /\ StageInv /\ ModeInv /\ BitInv /\ ListInv /\ HeldInv /\ PassInv
      /\ SlotInv /\ StateInv /\ MainInv /\ BackInv
  BY DEF FirstInv, IndInv
<1>1. /\ phase = "flush" /\ phase' = "states"
      /\ main_pm' = Settle(main_pm, IF flush_mode = "WBINVD" THEN Blocks ELSE Listed, main)
      /\ UNCHANGED <<committed_epoch, attributes, segment_state, segment_state_pm,
                     segment_state_dirty, back_to_main, main_to_back, main, back, back_pm>>
      /\ UNCHANGED <<threadVars, hookVars, committing, flush_mode, skip_copy_on_write,
                     cleanerVars, historyVars>>
  BY DEF FlushParallel
<1>2. committing = "Main" /\ Early /\ Early' /\ Flushed' /\ ~Flushed
  BY <1>1 DEF IndInv, StructInv, PhaseInv, Early, Flushed
<1>3. /\ StageInv' /\ PendInv' /\ ListInv'
      /\ Drained = {} /\ Drained' = {} /\ Touched' = Touched /\ Listed' = Listed
      /\ Mode(flush_blocks)' = Mode(flush_blocks)
      /\ \A w \in Workers : ~Holds(w) /\ ~Holds(w)' /\ pc'[w] # "fence"
      /\ \A s : ~Held(s) /\ ~Settling(s) /\ ~Held(s)' /\ ~Settling(s)'
      /\ \A t \in Threads : ~Storing(t) /\ ~Storing(t)'
      /\ \A s \in segment_dirty' : \E b \in Touched' : b[1] = s
  BY <1>1, <1>2, LeaderFrame
<1>4. \A s : StateOf(s)' = StateOf(s)
  BY <1>1 DEF StateOf, Active
<1>5. \A b \in Blocks : main_pm'[b] = {app[b]}
  <2> SUFFICES ASSUME NEW b \in Blocks PROVE main_pm'[b] = {app[b]}
    OBVIOUS
  <2>1. DOMAIN main_pm = Blocks /\ main = app
    BY <1>0 DEF TypeOK, ImageTypeOK, MainInv
  <2>2. CASE flush_mode = "WBINVD"
    BY <1>1, <2>1, <2>2 DEF Settle
  <2>3. CASE flush_mode # "WBINVD"
    <3>1. Touched = Listed
      BY <1>0, <1>1, <1>3, <2>3, AllListed DEF Touched
    <3>2. main_pm' = Settle(main_pm, Listed, main)
      BY <1>1, <2>3
    <3>3. CASE b \in Listed
      BY <2>1, <3>2, <3>3 DEF Settle
    <3>4. CASE b \notin Listed
      BY <1>0, <2>1, <3>1, <3>2, <3>4 DEF Settle, MainInv
    <3> QED
      BY <3>3, <3>4
  <2> QED
    BY <2>2, <2>3
<1>6. \A b \in Blocks : b[1] \notin segment_dirty => app[b] = snap[b]
  BY <1>0, <1>3 DEF MainInv, Touched
<1>7. \A s \in Segments : Indifferent(s) => Indifferent(s)'
  <2> SUFFICES ASSUME NEW s \in Segments, Indifferent(s), NEW b \in BlocksOf(s) PROVE Both(b)'
    BY <1>1 DEF Indifferent, BlocksOf
  <2>1. b \in Blocks /\ b[1] = s /\ s \notin segment_dirty /\ Both(b)
    BY <1>0, Shapes DEF Indifferent
  <2> QED
    BY <1>1, <1>5, <1>6, <2>1 DEF Both
<1>8. ModeInv'
  BY <1>0, <1>1, <1>2, <1>3 DEF ModeInv
<1>9. BitInv' /\ HeldInv' /\ PassInv'
  BY <1>0, <1>1, <1>2, <1>3, <1>4 DEF BitInv, HeldInv, PassInv
<1>10. SlotInv'
  BY <1>0, <1>1, <1>2, <1>3, <1>4 DEF SlotInv, Active, Inactive
<1>11. StateInv'
  BY <1>0, <1>1, <1>3, <1>4, <1>7 DEF StateInv, Active, Inactive
<1>12. MainInv'
  BY <1>0, <1>1, <1>2, <1>3, <1>5 DEF MainInv
<1>13. BackInv'
  BY <1>0, <1>1, <1>3, <1>4 DEF BackInv
<1> QED
  BY <1>3, <1>8, <1>9, <1>10, <1>11, <1>12, <1>13 DEF FirstInv

\* The new states are written in the slot that does not count.
LEMMA CommitLayoutStateFirst ==
  ASSUME Intact, IndInv, FirstInv, CommitLayoutState
  PROVE  FirstInv'
<1> USE DEF historyVars, hookVars, lockVars, threadVars, cleanerVars
<1>0. /\ TypeOK /\ StageInv /\ ModeInv /\ BitInv /\ ListInv /\ HeldInv /\ PassInv
      /\ SlotInv /\ StateInv /\ MainInv /\ BackInv
  BY DEF FirstInv, IndInv
<1>1. /\ phase = "states" /\ phase' = "commit" /\ set_segment_state(LayoutSegments, committing)
      /\ UNCHANGED <<committed_epoch, attributes, back_to_main, main_to_back, main, main_pm,
                     back, back_pm>>
      /\ UNCHANGED <<threadVars, hookVars, committing, flush_mode, skip_copy_on_write,
                     cleanerVars, historyVars>>
  BY DEF CommitLayoutState
<1>2. committing \in {"Main", "Back"} /\ (Early' <=> Early) /\ Flushed' /\ Flushed
  BY <1>1 DEF IndInv, StructInv, PhaseInv, Early, Flushed
<1>3. /\ StageInv' /\ PendInv' /\ ListInv'
      /\ Drained = {} /\ Drained' = {} /\ Touched' = Touched /\ Listed' = Listed
      /\ Mode(flush_blocks)' = Mode(flush_blocks)
      /\ \A w \in Workers : ~Holds(w) /\ ~Holds(w)' /\ pc'[w] # "fence"
      /\ \A s : ~Held(s) /\ ~Settling(s) /\ ~Held(s)' /\ ~Settling(s)'
      /\ \A t \in Threads : ~Storing(t) /\ ~Storing(t)'
      /\ \A s \in segment_dirty' : \E b \in Touched' : b[1] = s
  BY <1>1, <1>2, LeaderFrame
<1>4. LayoutSegments = segment_dirty
  BY <1>0, <1>1, <1>3, LayoutIsDirty
<1>5. /\ Active' = Active /\ Inactive' = Inactive
      /\ \A s \in Segments :
           /\ segment_state'[Active][s] = segment_state[Active][s]
           /\ segment_state_pm'[Active][s] = segment_state_pm[Active][s]
           /\ s \in segment_dirty =>
                /\ segment_state'[Inactive][s] = committing
                /\ segment_state_pm'[Inactive][s] = segment_state_pm[Inactive][s] \cup {committing}
                /\ segment_state[Inactive][s] # committing => LineOf(s) \in segment_state_dirty'
           /\ s \notin segment_dirty =>
                /\ segment_state'[Inactive][s] = segment_state[Inactive][s]
                /\ segment_state_pm'[Inactive][s] = segment_state_pm[Inactive][s]
  <2> DEFINE new == [s \in Segments |-> IF s \in segment_dirty THEN committing
                                        ELSE segment_state[Inactive][s]]
  <2>1. /\ segment_state' = [segment_state EXCEPT ![Inactive] = new]
        /\ segment_state_pm' = [segment_state_pm EXCEPT ![Inactive] = Put(@, segment_dirty, new)]
        /\ segment_state_dirty' = segment_state_dirty \cup
             {LineOf(s) : s \in {r \in segment_dirty : segment_state[Inactive][r] # committing}}
    BY <1>1, <1>4 DEF set_segment_state
  <2>2. Active' = Active /\ Inactive' = Inactive
    BY <1>1 DEF Active, Inactive
  <2>3. /\ Active \in 0 .. 1 /\ Inactive \in 0 .. 1 /\ Active # Inactive
        /\ segment_state \in [0 .. 1 -> [Segments -> States]]
        /\ segment_state_pm \in [0 .. 1 -> [Segments -> (SUBSET States) \ {{}}]]
    BY <1>0, Shapes DEF TypeOK, ImageTypeOK
  <2>4. /\ segment_state'[Active] = segment_state[Active]
        /\ segment_state_pm'[Active] = segment_state_pm[Active]
        /\ segment_state'[Inactive] = new
        /\ segment_state_pm'[Inactive] = Put(segment_state_pm[Inactive], segment_dirty, new)
        /\ DOMAIN (segment_state_pm[Inactive]) = Segments
    <3> HIDE DEF new
    <3> QED
      BY <2>1, <2>3
  <2>5. \A s \in Segments : segment_state_pm'[Inactive][s] =
          IF s \in segment_dirty THEN segment_state_pm[Inactive][s] \cup {new[s]}
                                 ELSE segment_state_pm[Inactive][s]
    <3> HIDE DEF new
    <3> QED
      BY <2>4 DEF Put
  <2> QED
    BY <2>1, <2>2, <2>4, <2>5
<1>6. \A s \in Segments : StateOf(s)' = StateOf(s)
  BY <1>5 DEF StateOf
<1>b. /\ block_dirty \subseteq Blocks /\ \A b \in Blocks : b[1] \in Segments
      /\ segment_dirty \subseteq Segments
  BY <1>0, Shapes DEF TypeOK
<1>7. \A s : Indifferent(s)' <=> Indifferent(s)
  BY <1>1 DEF Indifferent, Both
<1>8. ModeInv'
  BY <1>0, <1>1, <1>2, <1>3 DEF ModeInv
<1>9. BitInv'
  BY <1>0, <1>1, <1>3, <1>6, <1>b DEF BitInv
<1>10. HeldInv' /\ PassInv'
  BY <1>0, <1>1, <1>2, <1>3, <1>6, <1>b DEF HeldInv, PassInv
<1>11. SlotInv'
  <2>1. ASSUME NEW s \in Segments
        PROVE  \/ segment_state'[Active'][s] = segment_state'[Inactive'][s]
               \/ s \in segment_dirty' /\ LineOf(s) \in segment_state_dirty'
    <3>1. segment_state[Active][s] = segment_state[Inactive][s]
      BY <1>0, <1>1, <1>3 DEF SlotInv
    <3>2. CASE s \in segment_dirty
      BY <1>1, <1>5, <3>1, <3>2
    <3>3. CASE s \notin segment_dirty
      BY <1>5, <3>1, <3>3
    <3> QED
      BY <3>2, <3>3
  <2> QED
    BY <1>1, <1>5, <1>b, <2>1 DEF SlotInv
<1>12. StateInv'
  <2>1. ASSUME NEW s \in Segments
        PROVE  segment_state_pm'[Active'][s] = {StateOf(s)'} \/ Indifferent(s)'
    BY <1>0, <1>3, <1>5, <1>6, <1>7 DEF StateInv
  <2>2. ASSUME NEW s \in Segments
        PROVE  \/ segment_state_pm'[Inactive'][s] = {segment_state'[Inactive'][s]}
               \/ Indifferent(s)' \/ LineOf(s) \in segment_state_dirty'
    <3>1. segment_state_pm[Inactive][s] = {segment_state[Inactive][s]} \/ Indifferent(s)
      BY <1>0, <1>1 DEF StateInv
    <3>2. CASE s \in segment_dirty
      <4>1. segment_state_pm[Inactive][s] = {segment_state[Inactive][s]}
        BY <3>1, <3>2 DEF Indifferent
      <4>2. CASE segment_state[Inactive][s] = committing
        BY <1>5, <3>2, <4>1, <4>2
      <4> QED
        BY <1>5, <3>2, <4>2
    <3>3. CASE s \notin segment_dirty
      BY <1>5, <1>7, <3>1, <3>3
    <3> QED
      BY <3>2, <3>3
  <2> QED
    BY <1>1, <2>1, <2>2 DEF StateInv
<1>13. MainInv'
  BY <1>0, <1>1, <1>2, <1>3 DEF MainInv
<1>14. BackInv'
  BY <1>0, <1>1, <1>3, <1>6, <1>b DEF BackInv
<1> QED
  BY <1>3, <1>8, <1>9, <1>10, <1>11, <1>12, <1>13, <1>14 DEF FirstInv

\* The new epoch: what was stored to is now Main and the checkpoint, or Back.
LEMMA CommitLayoutEpochFirst ==
  ASSUME Intact, IndInv, FirstInv, CommitLayoutEpoch
  PROVE  FirstInv'
<1> USE DEF hookVars, lockVars, threadVars, cleanerVars
<1>0. /\ TypeOK /\ StageInv /\ ModeInv /\ BitInv /\ ListInv /\ HeldInv /\ PassInv
      /\ SlotInv /\ StateInv /\ MainInv /\ BackInv
  BY DEF FirstInv, IndInv
<1>1. /\ phase = "commit" /\ phase' = "sync" /\ CommitEpoch
      /\ snap' = (IF committing = "Main" THEN app ELSE snap)
      /\ UNCHANGED <<attributes, back_to_main, main_to_back, main, main_pm, back, back_pm>>
      /\ UNCHANGED <<threadVars, hookVars, committing, flush_mode, skip_copy_on_write,
                     cleanerVars, app>>
  BY DEF CommitLayoutEpoch
<1>2. /\ committing \in {"Main", "Back"} /\ ~Early' /\ Flushed' /\ Flushed
      /\ (Early <=> committing = "Main")
  BY <1>0, <1>1 DEF Early, Flushed, ModeInv
<1>3. /\ StageInv' /\ PendInv' /\ ListInv'
      /\ Drained = {} /\ Drained' = {} /\ Touched' = Touched /\ Listed' = Listed
      /\ Mode(flush_blocks)' = Mode(flush_blocks)
      /\ \A w \in Workers : ~Holds(w) /\ ~Holds(w)' /\ pc'[w] # "fence"
      /\ \A s : ~Held(s) /\ ~Settling(s) /\ ~Held(s)' /\ ~Settling(s)'
      /\ \A t \in Threads : ~Storing(t) /\ ~Storing(t)'
      /\ \A s \in segment_dirty' : \E b \in Touched' : b[1] = s
  BY <1>1, <1>2, LeaderFrame
<1>4. /\ Active' = Inactive /\ Inactive' = Active
      /\ UNCHANGED <<segment_state, segment_state_dirty>>
      /\ \A s \in Segments : segment_state_pm'[Inactive][s] =
           IF LineOf(s) \in segment_state_dirty THEN {segment_state[Inactive][s]}
                                                ELSE segment_state_pm[Inactive][s]
  <2>1. /\ segment_state_pm' = [segment_state_pm EXCEPT
             ![Inactive] = Settle(@, SegmentsOfLines(segment_state_dirty), segment_state[Inactive])]
        /\ committed_epoch' = Inactive /\ UNCHANGED <<segment_state, segment_state_dirty>>
    BY <1>1 DEF CommitEpoch
  <2>2. /\ committed_epoch \in 0 .. 1 /\ Inactive \in 0 .. 1
        /\ segment_state_pm \in [0 .. 1 -> [Segments -> (SUBSET States) \ {{}}]]
    BY <1>0, Shapes DEF TypeOK, ImageTypeOK
  <2>3. Active' = Inactive /\ Inactive' = Active
    BY <2>1, <2>2 DEF Active, Inactive
  <2>4. segment_state_pm'[Inactive] =
          Settle(segment_state_pm[Inactive], SegmentsOfLines(segment_state_dirty), segment_state[Inactive])
    BY <2>1, <2>2
  <2>5. DOMAIN (segment_state_pm[Inactive]) = Segments
    BY <2>2
  <2> QED
    BY <2>1, <2>3, <2>4, <2>5 DEF Settle, SegmentsOfLines
<1>5. \A s \in Segments : /\ s \in segment_dirty => StateOf(s)' = committing
                          /\ s \notin segment_dirty => StateOf(s)' = StateOf(s)
  <2>1. \A s \in Segments : StateOf(s)' = segment_state[Inactive][s]
    BY <1>4 DEF StateOf
  <2> QED
    BY <1>0, <1>1, <1>3, <2>1 DEF SlotInv, StateOf
<1>b. /\ block_dirty \subseteq Blocks /\ \A b \in Blocks : b[1] \in Segments
      /\ segment_dirty \subseteq Segments
  BY <1>0, Shapes DEF TypeOK
<1>6. /\ \A b \in Blocks : app[b] = snap'[b]
      /\ \A b \in Blocks : b \notin Touched => snap'[b] = snap[b]
      /\ committing = "Back" => snap' = snap
  BY <1>0, <1>1, <1>2 DEF MainInv
<1>7. \A b \in Blocks : b[1] \notin segment_dirty => b \notin Touched
  BY <1>3 DEF Touched
<1>8. \A s \in Segments : Indifferent(s) => Indifferent(s)'
  <2> SUFFICES ASSUME NEW s \in Segments, Indifferent(s), NEW b \in BlocksOf(s) PROVE Both(b)'
    BY <1>1 DEF Indifferent, BlocksOf
  <2>1. b \in Blocks /\ b[1] = s /\ s \notin segment_dirty /\ Both(b)
    BY <1>0, Shapes DEF Indifferent
  <2> QED
    BY <1>1, <1>6, <1>7, <2>1 DEF Both
<1>9. ModeInv'
  BY <1>0, <1>1, <1>2, <1>3 DEF ModeInv
<1>10. BitInv'
  BY <1>0, <1>1, <1>3, <1>5, <1>b DEF BitInv
<1>11. HeldInv' /\ PassInv'
  BY <1>0, <1>1, <1>2, <1>3, <1>5 DEF HeldInv, PassInv
<1>12. SlotInv'
  BY <1>0, <1>1, <1>3, <1>4, <1>5, <1>b DEF SlotInv
<1>13. StateInv'
  <2>1. ASSUME NEW s \in Segments
        PROVE  segment_state_pm'[Active'][s] = {StateOf(s)'} \/ Indifferent(s)'
    <3>1. StateOf(s)' = segment_state[Inactive][s]
      BY <1>4 DEF StateOf
    <3> QED
      BY <1>0, <1>1, <1>4, <1>8, <3>1 DEF StateInv
  <2> QED
    BY <1>1, <2>1 DEF StateInv
<1>14. MainInv'
  BY <1>0, <1>1, <1>2, <1>3, <1>6 DEF MainInv
<1>15. BackInv'
  <2>1. ASSUME NEW b \in Blocks,
               \/ StateOf(b[1])' # "Main" \/ b \notin block_dirty'
               \/ committing' = "Back" /\ b[1] \in segment_dirty'
        PROVE  back_pm'[b] = {snap'[b]}
    <3>1. CASE b[1] \notin segment_dirty
      BY <1>0, <1>1, <1>5, <1>6, <1>7, <1>b, <2>1, <3>1 DEF BackInv
    <3>2. CASE b[1] \in segment_dirty /\ committing = "Back"
      BY <1>0, <1>1, <1>6, <3>2 DEF BackInv
    <3>3. CASE b[1] \in segment_dirty /\ committing = "Main"
      <4>1. b \notin block_dirty
        BY <1>1, <1>5, <1>b, <2>1, <3>3
      <4>2. b \notin Touched
        BY <1>3, <4>1 DEF Touched
      <4> QED
        BY <1>0, <1>1, <1>6, <4>1, <4>2 DEF BackInv
    <3> QED
      BY <1>2, <3>1, <3>2, <3>3
  <2>2. ASSUME NEW b \in Blocks, StateOf(b[1])' = "Initial" PROVE snap'[b] = Junk
    <3>1. b[1] \notin segment_dirty
      BY <1>2, <1>5, <1>b, <2>2
    <3> QED
      BY <1>0, <1>5, <1>6, <1>7, <1>b, <2>2, <3>1 DEF BackInv
  <2> QED
    BY <1>1, <1>3, <2>1, <2>2 DEF BackInv
<1> QED
  BY <1>3, <1>9, <1>10, <1>11, <1>12, <1>13, <1>14, <1>15 DEF FirstInv

\* The old slot is overwritten by the new one.
LEMMA SyncLayoutStatesFirst ==
  ASSUME Intact, IndInv, FirstInv, SyncLayoutStates
  PROVE  FirstInv'
<1> USE DEF historyVars, hookVars, lockVars, threadVars, cleanerVars
<1>0. /\ TypeOK /\ StageInv /\ ModeInv /\ BitInv /\ ListInv /\ HeldInv /\ PassInv
      /\ SlotInv /\ StateInv /\ MainInv /\ BackInv
  BY DEF FirstInv, IndInv
<1>1. /\ phase = "sync" /\ CopyStates
      /\ phase' = (IF committing = "Main" /\ flush_mode = "USE_FLUSH_BLOCKS"
                   THEN "writeback" ELSE "finish")
      /\ UNCHANGED <<attributes, back_to_main, main_to_back, main, main_pm, back, back_pm>>
      /\ UNCHANGED <<threadVars, hookVars, committing, flush_mode, skip_copy_on_write,
                     cleanerVars, historyVars>>
  BY DEF SyncLayoutStates
<1>2. /\ committing \in {"Main", "Back"} /\ phase' \in {"writeback", "finish"}
      /\ ~Early' /\ ~Early /\ Flushed' /\ Flushed
  BY <1>0, <1>1 DEF Early, Flushed, ModeInv
<1>3. /\ StageInv' /\ PendInv' /\ ListInv'
      /\ Drained = {} /\ Drained' = {} /\ Touched' = Touched /\ Listed' = Listed
      /\ Mode(flush_blocks)' = Mode(flush_blocks)
      /\ \A w \in Workers : ~Holds(w) /\ ~Holds(w)' /\ pc'[w] # "fence"
      /\ \A s : ~Held(s) /\ ~Settling(s) /\ ~Held(s)' /\ ~Settling(s)'
      /\ \A t \in Threads : ~Storing(t) /\ ~Storing(t)'
      /\ \A s \in segment_dirty' : \E b \in Touched' : b[1] = s
  BY <1>1, <1>2, LeaderFrame
<1>4. /\ Active' = Active /\ Inactive' = Inactive /\ segment_state_dirty' = {}
      /\ \A s \in Segments :
           /\ segment_state'[Active][s] = segment_state[Active][s]
           /\ segment_state_pm'[Active][s] = segment_state_pm[Active][s]
           /\ segment_state'[Inactive][s] = IF LineOf(s) \in segment_state_dirty
                                            THEN segment_state[Active][s]
                                            ELSE segment_state[Inactive][s]
  <2> DEFINE S == SegmentsOfLines(segment_state_dirty)
             new == [s \in Segments |-> IF s \in S THEN segment_state[Active][s]
                                        ELSE segment_state[Inactive][s]]
  <2>1. /\ segment_state' = [segment_state EXCEPT ![Inactive] = new]
        /\ segment_state_pm' = [segment_state_pm EXCEPT ![Inactive] = Put(@, S, new)]
        /\ segment_state_dirty' = {} /\ UNCHANGED committed_epoch
    BY <1>1 DEF CopyStates
  <2>2. Active' = Active /\ Inactive' = Inactive
    BY <2>1 DEF Active, Inactive
  <2>3. /\ Active \in 0 .. 1 /\ Inactive \in 0 .. 1 /\ Active # Inactive
        /\ segment_state \in [0 .. 1 -> [Segments -> States]]
        /\ segment_state_pm \in [0 .. 1 -> [Segments -> (SUBSET States) \ {{}}]]
    BY <1>0, Shapes DEF TypeOK, ImageTypeOK
  <2>4. /\ segment_state'[Active] = segment_state[Active]
        /\ segment_state_pm'[Active] = segment_state_pm[Active]
        /\ segment_state'[Inactive] = new
    <3> HIDE DEF new
    <3> QED
      BY <2>1, <2>3
  <2> QED
    BY <2>1, <2>2, <2>4 DEF SegmentsOfLines
<1>5. \A s \in Segments : StateOf(s)' = StateOf(s)
  BY <1>4 DEF StateOf
<1>b. /\ block_dirty \subseteq Blocks /\ \A b \in Blocks : b[1] \in Segments
      /\ segment_dirty \subseteq Segments
  BY <1>0, Shapes DEF TypeOK
<1>6. \A s : Indifferent(s)' <=> Indifferent(s)
  BY <1>1 DEF Indifferent, Both
<1>7. ModeInv'
  BY <1>0, <1>1, <1>2, <1>3 DEF ModeInv
<1>8. BitInv'
  BY <1>0, <1>1, <1>3, <1>5, <1>b DEF BitInv
<1>9. HeldInv' /\ PassInv'
  BY <1>0, <1>1, <1>2, <1>3, <1>5 DEF HeldInv, PassInv
<1>10. SlotInv'
  <2>1. \A s \in Segments : segment_state'[Active'][s] = segment_state'[Inactive'][s]
    BY <1>0, <1>1, <1>3, <1>4 DEF SlotInv
  <2>2. \A s \in segment_dirty' : StateOf(s)' = committing'
    BY <1>0, <1>1, <1>5, <1>b DEF SlotInv
  <2> QED
    BY <1>2, <1>4, <2>1, <2>2 DEF SlotInv
<1>11. StateInv'
  BY <1>0, <1>1, <1>2, <1>3, <1>4, <1>5, <1>6 DEF StateInv
<1>12. MainInv'
  BY <1>0, <1>1, <1>2, <1>3 DEF MainInv
<1>13. BackInv'
  BY <1>0, <1>1, <1>2, <1>3, <1>5, <1>b DEF BackInv
<1> QED
  BY <1>3, <1>7, <1>8, <1>9, <1>10, <1>11, <1>12, <1>13 DEF FirstInv

\* The listed blocks are copied; their segments are Main until the next commit.
LEMMA WriteBackParallelFirst ==
  ASSUME Intact, IndInv, OwnBack, FirstInv, WriteBackParallel
  PROVE  FirstInv'
<1> USE DEF historyVars, hookVars, lockVars, threadVars, cleanerVars
<1>0. /\ TypeOK /\ StageInv /\ ModeInv /\ BitInv /\ ListInv /\ HeldInv /\ PassInv
      /\ SlotInv /\ StateInv /\ MainInv /\ BackInv
  BY DEF FirstInv, IndInv
<1>1. /\ phase = "writeback" /\ phase' = "writeback_fence"
      /\ back' = Write(back, BackImage(Listed), BackData)
      /\ back_pm' = Put(back_pm, BackImage(Listed), BackData)
      /\ UNCHANGED <<committed_epoch, attributes, segment_state, segment_state_pm,
                     segment_state_dirty, back_to_main, main_to_back, main, main_pm>>
      /\ UNCHANGED <<threadVars, hookVars, committing, flush_mode, skip_copy_on_write,
                     cleanerVars, historyVars>>
  BY DEF WriteBackParallel
<1>2. /\ committing = "Main" /\ ~Early' /\ ~Early /\ Flushed' /\ Flushed
  BY <1>1 DEF IndInv, StructInv, PhaseInv, Early, Flushed
<1>3. /\ StageInv' /\ PendInv' /\ ListInv'
      /\ Drained = {} /\ Drained' = {} /\ Touched' = Touched /\ Listed' = Listed
      /\ Mode(flush_blocks)' = Mode(flush_blocks)
      /\ \A w \in Workers : ~Holds(w) /\ ~Holds(w)' /\ pc'[w] # "fence"
      /\ \A s : ~Held(s) /\ ~Settling(s) /\ ~Held(s)' /\ ~Settling(s)'
      /\ \A t \in Threads : ~Storing(t) /\ ~Storing(t)'
      /\ \A s \in segment_dirty' : \E b \in Touched' : b[1] = s
  BY <1>1, <1>2, LeaderFrame
<1>4. \A s : StateOf(s)' = StateOf(s)
  BY <1>1 DEF StateOf, Active
<1>5. /\ Listed \in SUBSET Blocks
      /\ \A b \in Listed : b \in block_dirty /\ b[1] \in segment_dirty /\ StateOf(b[1]) = "Main"
  <2>1. \A b \in Listed : b \in block_dirty /\ b[1] \in segment_dirty
    BY <1>0 DEF ListInv, Listed
  <2>2. \A s \in segment_dirty : StateOf(s) = "Main"
    BY <1>0, <1>1, <1>2 DEF SlotInv
  <2> QED
    BY <1>0, <2>1, <2>2 DEF TypeOK
<1>6. /\ \A b \in Listed : back'[b] = snap[b]
      /\ \A b \in Blocks : b \notin Listed => back'[b] = back[b] /\ back_pm'[b] = back_pm[b]
  <2>1. BackImage(Listed) = Listed /\ BackData = main
    BY <1>0, <1>1, <1>5, BackFacts
  <2>2. DOMAIN back = Blocks /\ DOMAIN back_pm = Blocks
    BY <1>0, Shapes DEF TypeOK, ImageTypeOK
  <2>3. \A b \in Blocks : main[b] = snap[b]
    BY <1>0, <1>2 DEF MainInv
  <2> QED
    BY <1>1, <1>5, <2>1, <2>2, <2>3 DEF Write, Put
<1>7. \A s \in Segments : Indifferent(s) => Indifferent(s)'
  <2> SUFFICES ASSUME NEW s \in Segments, Indifferent(s), NEW b \in BlocksOf(s) PROVE Both(b)'
    BY <1>1 DEF Indifferent, BlocksOf
  <2>1. b \in Blocks /\ b[1] = s /\ s \notin segment_dirty /\ Both(b)
    BY <1>0, Shapes DEF Indifferent
  <2> QED
    BY <1>1, <1>5, <1>6, <2>1 DEF Both
<1>8. ModeInv'
  BY <1>0, <1>1, <1>2, <1>3 DEF ModeInv
<1>9. BitInv' /\ HeldInv' /\ PassInv'
  BY <1>0, <1>1, <1>2, <1>3, <1>4 DEF BitInv, HeldInv, PassInv
<1>10. SlotInv'
  BY <1>0, <1>1, <1>3, <1>4 DEF SlotInv, Active, Inactive
<1>11. StateInv'
  BY <1>0, <1>1, <1>3, <1>4, <1>7 DEF StateInv, Active, Inactive
<1>12. MainInv'
  BY <1>0, <1>1, <1>2, <1>3 DEF MainInv
<1>13. BackInv'
  BY <1>0, <1>1, <1>2, <1>3, <1>4, <1>5, <1>6 DEF BackInv
<1> QED
  BY <1>3, <1>8, <1>9, <1>10, <1>11, <1>12, <1>13 DEF FirstInv

\* With the fence the back segments are the checkpoint, and the second commit
\* may say so.
LEMMA WriteBackFenceFirst ==
  ASSUME Intact, IndInv, OwnBack, FirstInv, WriteBackFence
  PROVE  FirstInv'
<1> USE DEF historyVars, hookVars, lockVars, threadVars, cleanerVars
<1>0. /\ TypeOK /\ StageInv /\ ModeInv /\ BitInv /\ ListInv /\ HeldInv /\ PassInv
      /\ SlotInv /\ StateInv /\ MainInv /\ BackInv
  BY DEF FirstInv, IndInv
<1>1. /\ phase = "writeback_fence" /\ phase' = "states" /\ committing' = "Back"
      /\ back_pm' = Settle(back_pm, BackImage(Listed), back)
      /\ segment_state_pm' = StatesSettled
      /\ UNCHANGED <<committed_epoch, attributes, segment_state, segment_state_dirty,
                     back_to_main, main_to_back, main, main_pm, back>>
      /\ UNCHANGED <<threadVars, hookVars, flush_mode, skip_copy_on_write, cleanerVars,
                     historyVars>>
  BY DEF WriteBackFence
<1>2. /\ committing = "Main" /\ flush_mode = "USE_FLUSH_BLOCKS"
      /\ ~Early' /\ ~Early /\ Flushed' /\ Flushed
  BY <1>0, <1>1 DEF IndInv, StructInv, PhaseInv, Early, Flushed, ModeInv
<1>3. /\ StageInv' /\ PendInv' /\ ListInv'
      /\ Drained = {} /\ Drained' = {} /\ Touched' = Touched /\ Listed' = Listed
      /\ Mode(flush_blocks)' = Mode(flush_blocks)
      /\ \A w \in Workers : ~Holds(w) /\ ~Holds(w)' /\ pc'[w] # "fence"
      /\ \A s : ~Held(s) /\ ~Settling(s) /\ ~Held(s)' /\ ~Settling(s)'
      /\ \A t \in Threads : ~Storing(t) /\ ~Storing(t)'
      /\ \A s \in segment_dirty' : \E b \in Touched' : b[1] = s
  BY <1>1, LeaderFrame
<1>4. \A s : StateOf(s)' = StateOf(s)
  BY <1>1 DEF StateOf, Active
<1>5. {b \in block_dirty : b[1] \in segment_dirty} = Listed /\ Listed \in SUBSET Blocks
  BY <1>0, <1>1, <1>2, AllListed DEF TypeOK
<1>6. \A b \in Blocks : back_pm'[b] = IF b \in Listed THEN {snap[b]} ELSE back_pm[b]
  <2>1. BackImage(Listed) = Listed
    BY <1>0, <1>1, <1>5, BackFacts
  <2>2. DOMAIN back_pm = Blocks
    BY <1>0, Shapes DEF TypeOK, ImageTypeOK
  <2>3. \A b \in Blocks : b \in Listed => back[b] = snap[b]
    BY <1>0, <1>1 DEF BackInv
  <2> QED
    BY <1>1, <2>1, <2>2, <2>3 DEF Settle
<1>7. ModeInv'
  BY <1>0, <1>1, <1>2, <1>3 DEF ModeInv
<1>8. BitInv' /\ HeldInv' /\ PassInv'
  BY <1>0, <1>1, <1>2, <1>3, <1>4 DEF BitInv, HeldInv, PassInv
<1>9. SlotInv'
  BY <1>0, <1>1, <1>2, <1>3, <1>4 DEF SlotInv, Active, Inactive
<1>10. StateInv'
  <2>1. Active' = Active /\ Inactive' = Inactive /\ Active \in 0 .. 1 /\ Inactive \in 0 .. 1
    BY <1>0, <1>1, Shapes DEF Active, Inactive
  <2>2. \A s \in Segments : /\ segment_state_pm'[Active'][s] = {StateOf(s)'}
                            /\ segment_state_pm'[Inactive'][s] = {segment_state'[Inactive'][s]}
    BY <1>1, <2>1 DEF StatesSettled, StateOf
  <2> QED
    BY <2>2 DEF StateInv
<1>11. MainInv'
  BY <1>0, <1>1, <1>2, <1>3 DEF MainInv
<1>12. BackInv'
  <2>1. ASSUME NEW b \in Blocks,
               \/ StateOf(b[1])' # "Main" \/ b \notin block_dirty'
               \/ committing' = "Back" /\ b[1] \in segment_dirty'
        PROVE  back_pm'[b] = {snap'[b]}
    <3>1. CASE b \in Listed
      BY <1>1, <1>6, <3>1
    <3>2. CASE b \notin Listed
      <4>1. StateOf(b[1]) # "Main" \/ b \notin block_dirty
        BY <1>1, <1>4, <1>5, <2>1, <3>2
      <4> QED
        BY <1>0, <1>1, <1>6, <3>2, <4>1 DEF BackInv
    <3> QED
      BY <3>1, <3>2
  <2> QED
    BY <1>0, <1>1, <1>3, <1>4, <2>1 DEF BackInv
<1> QED
  BY <1>3, <1>7, <1>8, <1>9, <1>10, <1>11, <1>12 DEF FirstInv

\* clear_region over a whole number of words clears every bit.
LEMMA WholeWords ==
  ASSUME Intact
  PROVE  ClearRegion(nr_main_segments) = Segments
<1> SUFFICES ASSUME NEW x \in Segments
             PROVE  x \div kBitWidth < nr_main_segments \div kBitWidth
  BY DEF ClearRegion
<1>1. /\ x \in Nat /\ x < nr_main_segments /\ nr_main_segments \in Nat
      /\ kBitWidth \in Nat /\ kBitWidth > 0 /\ nr_main_segments % kBitWidth = 0
  BY ImageAssumption, EngineAssumption DEF Segments, Intact
<1>2. PICK q \in Nat : q = nr_main_segments \div kBitWidth /\ nr_main_segments = kBitWidth * q
  BY <1>1
<1>3. PICK m \in Nat : m = x \div kBitWidth /\ x >= kBitWidth * m
  BY <1>1
<1>4. ASSUME m >= q PROVE FALSE
  <2>1. kBitWidth * m >= kBitWidth * q
    BY <1>1, <1>2, <1>3, <1>4
  <2> QED
    BY <1>1, <1>2, <1>3, <2>1
<1> QED
  BY <1>2, <1>3, <1>4

\* The bits of this epoch are cleared, and those that stay are of segments
\* whose back segment lacks the block.
LEMMA FinishBits ==
  ASSUME Intact, TypeOK, ListInv, ModeInv, BitInv, phase = "finish", CheckpointFinish,
         \A t \in Threads : ~Storing(t)
  PROVE  /\ segment_dirty' = {}
         /\ flush_mode = "WBINVD" => block_dirty' = block_dirty
         /\ flush_mode = "USE_FLUSH_BLOCKS" =>
              block_dirty' = {b \in block_dirty : b[1] \notin segment_dirty}
<1>0. flush_mode \in {"USE_FLUSH_BLOCKS", "WBINVD"} /\ segment_dirty \subseteq Segments
      /\ block_dirty \subseteq Blocks
  BY DEF TypeOK, ModeInv
<1>1. CASE flush_mode = "WBINVD"
  <2>1. segment_dirty' = segment_dirty \ ClearRegion(nr_main_segments) /\ UNCHANGED block_dirty
    BY <1>1 DEF CheckpointFinish
  <2> QED
    BY <1>0, <1>1, <2>1, WholeWords
<1>2. CASE flush_mode = "USE_FLUSH_BLOCKS"
  <2>1. clear_dirty_bits
    BY <1>2 DEF CheckpointFinish
  <2>2. /\ {b \in block_dirty : b[1] \in segment_dirty} = Listed
        /\ {b[1] : b \in Listed} = segment_dirty
    BY <1>2, AllListed, LayoutIsDirty
  <2>3. segment_dirty' = {}
    <3>1. segment_dirty' = segment_dirty \ WordsOf(segment_dirty, Segments)
      BY <2>1, <2>2 DEF clear_dirty_bits
    <3> QED
      BY <1>0, <3>1 DEF WordsOf
  <2>4. block_dirty' = {b \in block_dirty : b[1] \notin segment_dirty}
    <3>1. block_dirty' = {b \in block_dirty : \A d \in Listed :
                            b[1] = d[1] => b[2] \div kBitWidth # d[2] \div kBitWidth}
      BY <2>1 DEF clear_dirty_bits
    <3>2. \A b \in block_dirty : b[1] \notin segment_dirty => \A d \in Listed : b[1] # d[1]
      BY <2>2
    <3>3. \A b \in block_dirty : b[1] \in segment_dirty => b \in Listed
      BY <2>2
    <3> QED
      BY <3>1, <3>2, <3>3
  <2> QED
    BY <1>2, <2>3, <2>4
<1> QED
  BY <1>0, <1>1, <1>2

\* The end of the checkpoint.
LEMMA CheckpointFinishFirst ==
  ASSUME Intact, IndInv, FirstInv, LeaderInv, CheckpointFinish
  PROVE  FirstInv'
<1> USE DEF historyVars, lockVars
<1>0. /\ TypeOK /\ StageInv /\ ModeInv /\ BitInv /\ ListInv /\ HeldInv /\ PassInv
      /\ SlotInv /\ StateInv /\ MainInv /\ BackInv
  BY DEF FirstInv, IndInv
<1>1. /\ phase = "finish" /\ phase' = "run" /\ committing' = "None"
      /\ segment_state_pm' = StatesSettled
      /\ flush_blocks' = [t \in Threads |-> {}]
      /\ pc' = [w \in Workers |-> IF w \in Threads THEN "app" ELSE pc[w]]
      /\ UNCHANGED <<committed_epoch, segment_state, segment_state_dirty, back_to_main,
                     main_to_back, main, main_pm, back, back_pm>>
      /\ UNCHANGED <<range, pending, target, address_buffer, skip_copy_on_write, historyVars>>
  BY DEF CheckpointFinish
<1>2. \/ /\ flush_mode = "USE_FLUSH_BLOCKS" /\ UNCHANGED cleaner_state
         /\ cleaner_mutex' = IF thread_busy THEN "free" ELSE cleaner_mutex
      \/ flush_mode = "WBINVD" /\ cleaner_state' = "STARTED" /\ cleaner_mutex' = "free"
  BY DEF CheckpointFinish
<1>3. /\ \A w \in Workers : ~Holds(w) /\ pc[w] # "lwb"
      /\ \A s : ~Held(s) /\ ~Settling(s)
      /\ \A t \in Threads : ~Storing(t)
  BY <1>0, <1>1, LeaderAlone
<1>4. /\ segment_dirty' = {}
      /\ flush_mode = "WBINVD" => block_dirty' = block_dirty
      /\ flush_mode = "USE_FLUSH_BLOCKS" =>
           block_dirty' = {b \in block_dirty : b[1] \notin segment_dirty}
  BY <1>0, <1>1, <1>3, FinishBits
<1>5. /\ pc \in [Workers -> PcSet] /\ Threads \subseteq Workers /\ Cleaner \in Workers
      /\ Cleaner \notin Threads /\ Workers = Threads \cup {Cleaner}
  BY <1>0, EngineAssumption DEF TypeOK, Workers
<1>6. pc'[Cleaner] = pc[Cleaner] /\ \A t \in Threads : pc'[t] = "app"
  BY <1>1, <1>5
<1>7. /\ \A w \in Workers : ~Holds(w)' /\ pc'[w] # "lwb" /\ pc'[w] # "fence"
      /\ \A s : ~Held(s)' /\ ~Settling(s)'
      /\ \A t \in Threads : ~Storing(t)'
  <2>1. \A w \in Workers : ~Holds(w)' /\ pc'[w] # "lwb" /\ pc'[w] # "fence"
    BY <1>3, <1>5, <1>6 DEF Holds
  <2> QED
    BY <1>5, <1>6, <2>1 DEF Held, Settling, Storing, Holds
<1>8. \A s : StateOf(s)' = StateOf(s)
  BY <1>1 DEF StateOf, Active
<1>9. /\ Drained' = {} /\ Touched' = {} /\ ~Early /\ Flushed /\ Early' /\ ~Flushed'
  <2>1. Drained' = Drained
    BY <1>1 DEF Drained, Buffered
  <2>2. Drained = {}
    BY <1>0, <1>1 DEF ModeInv
  <2> QED
    BY <1>1, <1>4, <2>1, <2>2 DEF Touched, Early, Flushed
<1>b. /\ block_dirty \subseteq Blocks /\ \A b \in Blocks : b[1] \in Segments
      /\ segment_dirty \subseteq Segments
      /\ \A s \in segment_dirty : StateOf(s) = committing
      /\ flush_mode = "USE_FLUSH_BLOCKS" => committing = "Back"
      /\ flush_mode = "WBINVD" => committing = "Main"
  BY <1>0, <1>1, Shapes DEF TypeOK, SlotInv, ModeInv
<1>10. StageInv'
  <2>1. Up' /\ phase' \notin {"open", "recover"}
    BY <1>1 DEF Up
  <2>2. pc'[Cleaner] \notin {"app", "hook", "ckpt"}
    BY <1>0, <1>6 DEF StageInv
  <2>3. pc'[Cleaner] # "blocked" => cleaner_mutex' = "cleaner"
    BY <1>0, <1>1, <1>2, <1>6 DEF StageInv, LeaderInv
  <2> QED
    BY <1>1, <1>5, <1>6, <1>7, <2>1, <2>2, <2>3 DEF StageInv
<1>11. ModeInv'
  BY <1>0, <1>1, <1>2 DEF ModeInv
<1>12. PendInv'
  BY <1>7 DEF PendInv
<1>13. BitInv'
  <2>1. ASSUME NEW b \in block_dirty' PROVE StateOf(b[1])' = "Main"
    <3>1. b \in block_dirty /\ (b[1] \in segment_dirty => flush_mode = "WBINVD")
      BY <1>2, <1>4, <2>1
    <3>2. b[1] \in segment_dirty \/ StateOf(b[1]) = "Main"
      BY <1>0, <1>3, <3>1 DEF BitInv
    <3> QED
      BY <1>8, <1>b, <3>1, <3>2
  <2> QED
    BY <1>4, <1>9, <2>1 DEF BitInv
<1>14. ListInv'
  BY <1>1, <1>4 DEF ListInv
<1>15. HeldInv'
  BY <1>4, <1>7 DEF HeldInv
<1>16. PassInv'
  <2>1. CASE flush_mode = "WBINVD"
    BY <1>2, <2>1 DEF PassInv
  <2>2. CASE flush_mode = "USE_FLUSH_BLOCKS"
    <3>1. cleaner_state' = cleaner_state /\ target' = target
      BY <1>1, <1>2, <2>2
    <3> QED
      BY <1>0, <1>7, <1>8, <1>b, <2>2, <3>1 DEF PassInv
  <2> QED
    BY <1>2, <2>1, <2>2
<1>17. SlotInv'
  <2>1. \A s \in Segments : segment_state'[Active'][s] = segment_state'[Inactive'][s]
    BY <1>0, <1>1, <1>3 DEF SlotInv, Active, Inactive
  <2>2. segment_state_dirty' = {}
    BY <1>0, <1>1 DEF SlotInv
  <2> QED
    BY <1>1, <2>1, <2>2 DEF SlotInv
<1>18. StateInv'
  <2>1. Active' = Active /\ Active \in 0 .. 1
    BY <1>0, <1>1, Shapes DEF Active
  <2>2. \A s \in Segments : segment_state_pm'[Active'][s] = {StateOf(s)'}
    BY <1>1, <2>1 DEF StatesSettled, StateOf
  <2> QED
    BY <1>1, <2>2 DEF StateInv
<1>19. MainInv'
  BY <1>0, <1>1, <1>9 DEF MainInv
<1>20. BackInv'
  <2>1. ASSUME NEW b \in Blocks,
               \/ StateOf(b[1])' # "Main" \/ b \notin block_dirty'
               \/ committing' = "Back" /\ b[1] \in segment_dirty'
        PROVE  back_pm'[b] = {snap'[b]}
    <3>1. \/ StateOf(b[1]) # "Main" \/ b \notin block_dirty
          \/ committing = "Back" /\ b[1] \in segment_dirty
      BY <1>1, <1>2, <1>4, <1>8, <1>b, <2>1
    <3> QED
      BY <1>0, <1>1, <3>1 DEF BackInv
  <2> QED
    BY <1>0, <1>1, <1>7, <1>8, <2>1 DEF BackInv
<1> QED
  BY <1>10, <1>11, <1>12, <1>13, <1>14, <1>15, <1>16, <1>17, <1>18, <1>19, <1>20 DEF FirstInv

\* The leader has the mutex from CheckpointLock to CheckpointFinish.
LEMMA LeaderStep ==
  ASSUME IndInv, FirstInv, LeaderInv, Next, runs' = 1, phase' # "open"
  PROVE  LeaderInv'
<1> USE DEF imageVars, historyVars, hookVars, lockVars, threadVars, ckptVars, cleanerVars
<1>0. StageInv
  BY DEF FirstInv
<1>1. CASE UNCHANGED <<phase, thread_busy, flush_mode, cleaner_mutex>>
  BY <1>1 DEF LeaderInv
<1>2. CASE CheckpointBegin
  <2>1. \/ phase' = phase
        \/ /\ thread_busy' = (cleaner_state # "IDLE")
           /\ phase' = IF flush_mode' = "WBINVD" \/ thread_busy' THEN "lock" ELSE "flush"
    BY <1>2 DEF CheckpointBegin
  <2>2. phase = "run"
    BY <1>2 DEF CheckpointBegin
  <2>3. CASE phase' = phase
    BY <2>2, <2>3 DEF LeaderInv
  <2>4. CASE phase' = IF flush_mode' = "WBINVD" \/ thread_busy' THEN "lock" ELSE "flush"
    BY <2>4 DEF LeaderInv
  <2> QED
    BY <2>1, <2>3, <2>4
<1>3. CASE CheckpointLock
  BY <1>3 DEF CheckpointLock, LeaderInv
<1>4. ASSUME phase \notin {"run", "lock"}, UNCHANGED <<thread_busy, flush_mode, cleaner_mutex>>
      PROVE  LeaderInv'
  BY <1>4 DEF LeaderInv
<1>5. CASE CleanerAcquire
  BY <1>5 DEF CleanerAcquire, LeaderInv
<1>6. CASE CleanerLoop
  <2>1. pc[Cleaner] = "loop" /\ UNCHANGED <<phase, thread_busy, flush_mode>>
    BY <1>6 DEF CleanerLoop
  <2>2. cleaner_mutex = "cleaner"
    BY <1>0, <2>1 DEF StageInv
  <2> QED
    BY <2>1, <2>2 DEF LeaderInv
<1>7. CASE Hooks
  BY <1>1, <1>7 DEF Hooks, BeginStore, CopyOnWriteHook, FinishStore
<1>8. ASSUME NEW w \in Workers, LazyWriteBack(w) PROVE LeaderInv'
  BY <1>1, <1>8 DEF LazyWriteBack, LazyNothingToDo, LazyLock, LazyCopy, LazyFence, LazyDone
<1>9. CASE Stealing
  <2>1. PICK t \in Threads : LazyAllocate(t) \/ AllocateFail(t)
    BY <1>9 DEF Stealing
  <2>2. ~AllocateFail(t)
    BY DEF AllocateFail, Die
  <2> QED
    BY <1>1, <2>1, <2>2 DEF LazyAllocate
<1>10. CASE \E t \in Threads : CheckpointEnter(t)
  BY <1>1, <1>10 DEF CheckpointEnter
<1>11. CASE FlushParallel \/ CommitLayoutState \/ CommitLayoutEpoch \/ SyncLayoutStates
            \/ WriteBackParallel \/ WriteBackFence
  BY <1>4, <1>11 DEF FlushParallel, CommitLayoutState, CommitLayoutEpoch, SyncLayoutStates,
                     WriteBackParallel, WriteBackFence
<1>12. CASE CheckpointFinish
  BY <1>12 DEF CheckpointFinish, LeaderInv
<1>13. CASE Recovery
  BY <1>4, <1>13 DEF Recovery, OpenImage, RecoveryCopy, RecoveryCommit, OpenDone
<1>14. ~Crash
  BY DEF Crash, Die
<1> QED
  BY <1>2, <1>3, <1>5, <1>6, <1>7, <1>8, <1>9, <1>10, <1>11, <1>12, <1>13, <1>14
  DEF Next, Checkpoint, CleanerStep

-----------------------------------------------------------------------------
(* Crashes.                                                                *)

\* Block b of the last checkpoint is safe: both copies of it are good, or the
\* state that recovery will find is known and selects a good one.
Good(b) ==
  \/ Both(b)
  \/ /\ segment_state_pm[Active][b[1]] = {StateOf(b[1])}
     /\ \/ StateOf(b[1]) = "Main" /\ main_pm[b] = {snap[b]}
        \/ StateOf(b[1]) = "Back" /\ back_pm[b] = {snap[b]}

\* In the run that stores,
LEMMA FirstGood ==
  ASSUME Intact, IndInv, FirstInv, NEW b \in Blocks, snap[b] # Junk
  PROVE  Good(b)
<1>0. /\ TypeOK /\ StageInv /\ ModeInv /\ BitInv /\ ListInv /\ HeldInv /\ PassInv
      /\ SlotInv /\ StateInv /\ MainInv /\ BackInv
  BY DEF FirstInv, IndInv
<1>1. /\ b[1] \in Segments /\ StateOf(b[1]) \in States /\ b \in BlocksOf(b[1])
  <2>1. b[1] \in Segments /\ b \in BlocksOf(b[1])
    BY <1>0, Shapes
  <2>2. Active \in 0 .. 1 /\ segment_state \in [0 .. 1 -> [Segments -> States]]
    BY <1>0, Shapes DEF TypeOK, ImageTypeOK
  <2> QED
    BY <2>1, <2>2 DEF StateOf
<1>2. b[1] \notin segment_dirty => b \notin Touched
  BY <1>0 DEF BitInv, Touched
<1>3. b \notin Touched => main_pm[b] = {snap[b]}
  BY <1>0 DEF MainInv
<1>4. ~Early => main_pm[b] = {snap[b]}
  <2>1. ~Early => Flushed
    <3>1. phase \in {"run", "lock", "flush", "states", "commit", "sync", "writeback",
                     "writeback_fence", "finish"}
      BY <1>0 DEF TypeOK, StageInv
    <3> QED
      BY <3>1 DEF Early, Flushed
  <2> QED
    BY <1>0, <2>1 DEF MainInv
<1>5. StateOf(b[1]) = "Main" => main_pm[b] = {snap[b]}
  BY <1>0, <1>2, <1>3, <1>4 DEF HeldInv
<1>6. StateOf(b[1]) = "Back" => back_pm[b] = {snap[b]}
  BY <1>0 DEF BackInv
<1>7. StateOf(b[1]) # "Initial"
  BY <1>0 DEF BackInv
<1>8. CASE Settling(b[1])
  <2>1. PICK w \in Workers : pc[w] = "state" /\ target[w] = b[1]
    BY <1>8 DEF Settling
  <2>2. b[1] \notin segment_dirty /\ StateOf(b[1]) = "Back"
    BY <1>0, <2>1 DEF HeldInv, Holds
  <2> QED
    BY <1>2, <1>3, <1>6, <2>2 DEF Good, Both
<1>9. CASE Indifferent(b[1])
  BY <1>1, <1>9 DEF Indifferent, Good
<1>10. CASE segment_state_pm[Active][b[1]] = {StateOf(b[1])}
  BY <1>1, <1>5, <1>6, <1>7, <1>10 DEF States, Good
<1> QED
  BY <1>0, <1>1, <1>8, <1>9, <1>10 DEF StateInv

\* ... and after it, in the middle of a recovery too.
LEMMA LaterGood ==
  ASSUME Intact, IndInv, LaterInv, NEW b \in Blocks, snap[b] # Junk
  PROVE  Good(b)
<1>1. b[1] \in Segments
  BY Shapes DEF IndInv
<1> QED
  BY <1>1 DEF LaterInv, RecoveryInv, Good

\* What a crash leaves is the checkpoint, on the side that recovery will use.
LEMMA DieStep ==
  ASSUME Intact, IndInv, OwnBack, \A b \in Blocks : snap[b] # Junk => Good(b), Die
  PROVE  OwnBack' /\ Coherent' /\ LaterInv' /\ runs' # 1
<1>0. TypeOK
  BY DEF IndInv
<1>1. PICK m \in Resolve(main_pm, Contents), k \in Resolve(back_pm, Contents),
           s0 \in Resolve(segment_state_pm[0], States),
           s1 \in Resolve(segment_state_pm[1], States) :
        /\ main' = m
        /\ main_pm' = [b \in Blocks |-> {m[b]}]
        /\ back' = k
        /\ back_pm' = [b \in BackBlocks |-> {k[b]}]
        /\ segment_state' = [e \in 0 .. 1 |-> IF e = 0 THEN s0 ELSE s1]
        /\ segment_state_pm' = [e \in 0 .. 1 |->
                                  [s \in Segments |-> {IF e = 0 THEN s0[s] ELSE s1[s]}]]
  BY DEF Die
<1>2. /\ VolatileReset /\ phase' = "open" /\ committing' = "Recovery" /\ app' = snap
      /\ runs' = (IF runs <= MaxRuns THEN runs + 1 ELSE runs)
      /\ UNCHANGED <<committed_epoch, back_to_main, snap>>
  BY DEF Die
<1>3. /\ \A b \in Blocks : m[b] \in main_pm[b] /\ k[b] \in back_pm[b]
      /\ \A s \in Segments : s0[s] \in segment_state_pm[0][s] /\ s1[s] \in segment_state_pm[1][s]
  <2>1. /\ DOMAIN main_pm = Blocks /\ DOMAIN back_pm = Blocks
        /\ DOMAIN (segment_state_pm[0]) = Segments /\ DOMAIN (segment_state_pm[1]) = Segments
    BY <1>0, Shapes DEF TypeOK, ImageTypeOK
  <2> QED
    BY <2>1 DEF Resolve
<1>4. \A b \in Blocks : main_pm'[b] = {main'[b]} /\ back_pm'[b] = {back'[b]}
  BY <1>0, <1>1, Shapes
<1>5. \A e \in 0 .. 1, s \in Segments :
        /\ segment_state_pm'[e][s] = {segment_state'[e][s]}
        /\ segment_state'[e][s] \in segment_state_pm[e][s]
  <2> SUFFICES ASSUME NEW e \in 0 .. 1, NEW s \in Segments
               PROVE  /\ segment_state_pm'[e][s] = {segment_state'[e][s]}
                      /\ segment_state'[e][s] \in segment_state_pm[e][s]
    OBVIOUS
  <2>1. CASE e = 0
    BY <1>1, <1>3, <2>1
  <2>2. CASE e = 1
    BY <1>1, <1>3, <2>2
  <2> QED
    BY <2>1, <2>2
<1>6. Active' = Active /\ Active \in 0 .. 1 /\ \A b \in Blocks : b[1] \in Segments
  BY <1>0, <1>2, Shapes DEF Active
<1>7. runs' # 1
  <2>1. runs \in 1 .. 2 /\ MaxRuns = 1
    BY <1>0 DEF TypeOK, Intact
  <2> QED
    BY <1>2, <2>1
<1>8. OwnBack'
  BY <1>2 DEF OwnBack, VolatileReset
<1>9. Coherent'
  BY <1>4, <1>5 DEF Coherent
<1>10. IdleInv'
  <2>1. Cleaner \in Workers /\ Cleaner \notin Threads /\ Threads \subseteq Workers
    BY EngineAssumption DEF Workers
  <2>2. /\ pc'[Cleaner] = "blocked" /\ \A t \in Threads : pc'[t] = "app"
        /\ \A t \in Threads : flush_blocks'[t] = {} /\ address_buffer'[t] = <<>>
    BY <1>2, <2>1 DEF VolatileReset
  <2>3. /\ cleaner_state' = "IDLE" /\ ~skip_copy_on_write' /\ block_dirty' = {} /\ segment_dirty' = {}
    BY <1>2 DEF VolatileReset
  <2>4. ~Up'
    BY <1>2 DEF Up
  <2> QED
    BY <1>2, <2>2, <2>3, <2>4 DEF IdleInv
<1>11. RecoveryInv'
  <2>1. \A s \in Segments : segment_state_pm'[Active'][s] = {StateOf(s)'}
    BY <1>5, <1>6 DEF StateOf
  <2>2. ASSUME NEW b \in Blocks, snap[b] # Junk
        PROVE  \/ Both(b)'
               \/ StateOf(b[1])' = "Main" /\ main_pm'[b] = {snap[b]}
               \/ StateOf(b[1])' = "Back" /\ back_pm'[b] = {snap[b]}
    <3>1. StateOf(b[1])' \in segment_state_pm[Active][b[1]]
      BY <1>5, <1>6 DEF StateOf
    <3>2. main'[b] \in main_pm[b] /\ back'[b] \in back_pm[b]
      BY <1>1, <1>3
    <3>3. CASE Both(b)
      BY <1>2, <1>4, <3>2, <3>3 DEF Both
    <3>4. CASE ~Both(b)
      BY <1>4, <2>2, <3>1, <3>2, <3>4 DEF Good
    <3> QED
      BY <3>3, <3>4
  <2> QED
    BY <1>2, <2>1, <2>2 DEF RecoveryInv
<1> QED
  BY <1>7, <1>8, <1>9, <1>10, <1>11 DEF LaterInv

-----------------------------------------------------------------------------
(* Recovery, and the runs that only read.                                  *)

\* Open rebuilds the map that was there.
LEMMA OpenImageLater ==
  ASSUME Intact, IndInv, OwnBack, LaterInv, OpenImage
  PROVE  OwnBack' /\ LaterInv'
<1> USE DEF historyVars, hookVars, lockVars, threadVars, cleanerVars
<1>1. /\ phase = "open" /\ phase' = "recover" /\ main_to_back' = Rebuilt
      /\ UNCHANGED <<committed_epoch, segment_state, segment_state_pm, back_to_main, main,
                     main_pm, back, back_pm>>
      /\ UNCHANGED <<threadVars, hookVars, committing, skip_copy_on_write, cleanerVars,
                     historyVars>>
  BY DEF OpenImage
<1>2. Rebuilt = [s \in Segments |-> s]
  <2>1. ASSUME NEW s \in Segments PROVE Rebuilt[s] = s
    <3>1. s \in BackSegments /\ back_to_main[s] = s /\ \A c \in BackSegments : back_to_main[c] = c
      BY Shapes DEF OwnBack, IndInv
    <3>2. Rebuilt[s] = CHOOSE c \in BackSegments : back_to_main[c] = s
      BY <3>1 DEF Rebuilt
    <3> QED
      BY <3>1, <3>2
  <2> QED
    BY <2>1 DEF Rebuilt
<1>3. OwnBack'
  BY <1>1, <1>2 DEF OwnBack
<1>4. IdleInv'
  BY <1>1 DEF LaterInv, IdleInv, Up
<1>5. RecoveryInv'
  BY <1>1 DEF LaterInv, RecoveryInv, StateOf, Active, Both
<1> QED
  BY <1>3, <1>4, <1>5 DEF LaterInv

\* The copies of recovery.
LEMMA RecoveryCopyLater ==
  ASSUME Intact, IndInv, OwnBack, Coherent, LaterInv, RecoveryCopy
  PROVE  Coherent' /\ LaterInv'
<1> USE DEF historyVars, hookVars, lockVars, threadVars, cleanerVars
<1>0. TypeOK /\ IdleInv /\ RecoveryInv
  BY DEF IndInv, LaterInv
<1> DEFINE F == BlocksIn("Main")
           G == BlocksIn("Back")
           mainData == [b \in Blocks |-> IF b \in G THEN back[BackBlock(b[1], b)] ELSE main[b]]
<1>1. /\ phase = "recover" /\ phase' = "commit"
      /\ back' = Write(back, BackImage(F), BackData)
      /\ back_pm' = Put(back_pm, BackImage(F), BackData)
      /\ main' = mainData
      /\ main_pm' = Put(main_pm, G, mainData)
      /\ set_segment_state(Bound("Main"), "Back")
      /\ UNCHANGED <<committed_epoch, attributes, back_to_main, main_to_back>>
      /\ UNCHANGED <<threadVars, hookVars, committing, skip_copy_on_write, cleanerVars,
                     historyVars>>
  BY DEF RecoveryCopy
<1>2. /\ \A s \in Segments : main_to_back[s] # Null
      /\ \A B \in SUBSET Blocks : BackImage(B) = B
      /\ BackData = main
      /\ \A b \in Blocks : BackBlock(b[1], b) = b
  BY <1>0, <1>1, BackFacts
<1>3. \A state : \A b : b \in BlocksIn(state) <=> b \in Blocks /\ StateOf(b[1]) = state
  <2>1. \A state : Bound(state) = {s \in Segments : StateOf(s) = state}
    BY <1>2 DEF Bound
  <2>2. /\ \A s \in Segments : \A b : b \in BlocksOf(s) <=> (b \in Blocks /\ b[1] = s)
        /\ \A b \in Blocks : b[1] \in Segments
    BY <1>0, Shapes
  <2> QED
    BY <2>1, <2>2 DEF BlocksIn
<1>4. \A b \in Blocks :
        /\ b \in G => main'[b] = back[b] /\ main_pm'[b] = main_pm[b] \cup {back[b]}
        /\ b \notin G => main'[b] = main[b] /\ main_pm'[b] = main_pm[b]
        /\ b \in F => back'[b] = main[b] /\ back_pm'[b] = back_pm[b] \cup {main[b]}
        /\ b \notin F => back'[b] = back[b] /\ back_pm'[b] = back_pm[b]
  <2>1. F \in SUBSET Blocks
    BY <1>3
  <2>2. BackImage(F) = F
    BY <1>2, <2>1
  <2>3. DOMAIN main_pm = Blocks /\ DOMAIN back = Blocks /\ DOMAIN back_pm = Blocks
    BY <1>0, Shapes DEF TypeOK, ImageTypeOK
  <2>4. \A b \in Blocks : mainData[b] = IF b \in G THEN back[b] ELSE main[b]
    BY <1>2
  <2> HIDE DEF F, G, mainData
  <2> QED
    BY <1>1, <1>2, <2>2, <2>3, <2>4 DEF Write, Put
<1>5. /\ Active' = Active
      /\ \A s \in Segments : /\ segment_state'[Active][s] = segment_state[Active][s]
                             /\ segment_state_pm'[Active][s] = segment_state_pm[Active][s]
      /\ \A s \in Segments, e \in 0 .. 1 : segment_state'[e][s] \in segment_state_pm'[e][s]
  <2> DEFINE S == Bound("Main")
             new == [s \in Segments |-> IF s \in S THEN "Back" ELSE segment_state[Inactive][s]]
  <2>1. /\ segment_state' = [segment_state EXCEPT ![Inactive] = new]
        /\ segment_state_pm' = [segment_state_pm EXCEPT ![Inactive] = Put(@, S, new)]
    BY <1>1 DEF set_segment_state
  <2>2. /\ Active \in 0 .. 1 /\ Inactive \in 0 .. 1 /\ Active # Inactive
        /\ \A e \in 0 .. 1 : e = Active \/ e = Inactive
        /\ segment_state \in [0 .. 1 -> [Segments -> States]]
        /\ segment_state_pm \in [0 .. 1 -> [Segments -> (SUBSET States) \ {{}}]]
    BY <1>0, Shapes DEF TypeOK, ImageTypeOK
  <2>3. /\ segment_state'[Active] = segment_state[Active]
        /\ segment_state_pm'[Active] = segment_state_pm[Active]
        /\ segment_state'[Inactive] = new
        /\ segment_state_pm'[Inactive] = Put(segment_state_pm[Inactive], S, new)
        /\ DOMAIN (segment_state_pm[Inactive]) = Segments
    <3> HIDE DEF new, S
    <3> QED
      BY <2>1, <2>2
  <2>4. \A s \in Segments : segment_state'[Inactive][s] \in segment_state_pm'[Inactive][s]
    <3>1. \A s \in Segments : s \notin S => new[s] \in segment_state_pm[Inactive][s]
      BY <2>2 DEF Coherent
    <3> HIDE DEF new, S
    <3> QED
      BY <2>3, <3>1 DEF Put
  <2>5. \A s \in Segments : segment_state'[Active][s] \in segment_state_pm'[Active][s]
    BY <2>2, <2>3 DEF Coherent
  <2>6. Active' = Active
    BY <1>1 DEF Active
  <2> QED
    BY <2>2, <2>3, <2>4, <2>5, <2>6
<1>6. \A s \in Segments : StateOf(s)' = StateOf(s)
  BY <1>5 DEF StateOf
<1>7. Coherent'
  BY <1>4, <1>5 DEF Coherent
<1>8. IdleInv'
  BY <1>0, <1>1 DEF IdleInv, Up
<1>9. RecoveryInv'
  <2>1. ASSUME NEW b \in Blocks, snap[b] # Junk
        PROVE  /\ \/ Both(b)'
                  \/ StateOf(b[1])' = "Main" /\ main_pm'[b] = {snap[b]}
                  \/ StateOf(b[1])' = "Back" /\ back_pm'[b] = {snap[b]}
               /\ main'[b] = snap[b] /\ back'[b] = snap[b]
    <3>1. b[1] \in Segments /\ main[b] \in main_pm[b] /\ back[b] \in back_pm[b]
      BY <1>0, Shapes DEF Coherent
    <3>2. StateOf(b[1])' = StateOf(b[1]) /\ snap' = snap
      BY <1>1, <1>6, <3>1
    <3>3. /\ b \in F <=> StateOf(b[1]) = "Main"
          /\ b \in G <=> StateOf(b[1]) = "Back"
      BY <1>3
    <3> HIDE DEF F, G
    <3>4. CASE Both(b)
      <4>1. main_pm[b] = {snap[b]} /\ back_pm[b] = {snap[b]} /\ main[b] = snap[b] /\ back[b] = snap[b]
        BY <3>1, <3>4 DEF Both
      <4>2. main'[b] = snap[b] /\ back'[b] = snap[b] /\ main_pm'[b] = {snap[b]} /\ back_pm'[b] = {snap[b]}
        BY <1>4, <4>1
      <4> QED
        BY <3>2, <4>2 DEF Both
    <3>5. CASE StateOf(b[1]) = "Main" /\ main_pm[b] = {snap[b]}
      <4>1. main[b] = snap[b] /\ b \in F /\ b \notin G
        BY <3>1, <3>3, <3>5
      <4> QED
        BY <1>4, <3>2, <3>5, <4>1
    <3>6. CASE StateOf(b[1]) = "Back" /\ back_pm[b] = {snap[b]}
      <4>1. back[b] = snap[b] /\ b \in G /\ b \notin F
        BY <3>1, <3>3, <3>6
      <4> QED
        BY <1>4, <3>2, <3>6, <4>1
    <3> QED
      BY <1>0, <2>1, <3>4, <3>5, <3>6 DEF RecoveryInv
  <2>2. \A s \in Segments : segment_state_pm'[Active'][s] = {StateOf(s)'}
    BY <1>0, <1>1, <1>5, <1>6 DEF RecoveryInv
  <2> QED
    BY <1>0, <1>1, <2>1, <2>2 DEF RecoveryInv
<1> QED
  BY <1>7, <1>8, <1>9 DEF LaterInv

\* The commit of recovery fences the copies: both sides are the checkpoint.
LEMMA RecoveryCommitLater ==
  ASSUME Intact, IndInv, LaterInv, RecoveryCommit
  PROVE  LaterInv'
<1> USE DEF historyVars, hookVars, lockVars, threadVars, cleanerVars
<1>0. TypeOK /\ IdleInv /\ RecoveryInv
  BY DEF IndInv, LaterInv
<1>1. /\ phase = "commit" /\ phase' = "sync"
      /\ main_pm' = Settle(main_pm, Blocks, main)
      /\ back_pm' = Settle(back_pm, BackBlocks, back)
      /\ UNCHANGED <<main, back>>
      /\ UNCHANGED <<threadVars, hookVars, committing, skip_copy_on_write, cleanerVars,
                     historyVars>>
  BY DEF RecoveryCommit
<1>2. \A b \in Blocks : main_pm'[b] = {main[b]} /\ back_pm'[b] = {back[b]}
  BY <1>0, <1>1, Shapes DEF TypeOK, ImageTypeOK, Settle
<1>3. IdleInv'
  BY <1>0, <1>1 DEF IdleInv, Up
<1>4. \A b \in Blocks : snap[b] # Junk => Both(b)'
  BY <1>0, <1>1, <1>2 DEF RecoveryInv, Both
<1>5. RecoveryInv'
  BY <1>0, <1>1, <1>4 DEF RecoveryInv
<1> QED
  BY <1>3, <1>5 DEF LaterInv

\* With nothing stored a checkpoint returns at once.
LEMMA CheckpointBeginLater ==
  ASSUME Intact, IndInv, LaterInv, CheckpointBegin
  PROVE  LaterInv' /\ \A t \in Threads : pc'[t] = "app"
<1> USE DEF historyVars, lockVars, cleanerVars
<1>0. TypeOK /\ IdleInv /\ RecoveryInv
  BY DEF IndInv, LaterInv
<1>1. /\ phase = "run" /\ address_buffer' = [t \in Threads |-> <<>>]
      /\ flush_mode' = Mode(flush_blocks')
      /\ UNCHANGED <<committed_epoch, segment_state, main, main_pm, back, back_pm>>
      /\ UNCHANGED <<segment_dirty, cleanerVars, historyVars>>
  BY DEF CheckpointBegin
<1>2. PICK u \in Threads : hook_routine(u, Drained)
  BY DEF CheckpointBegin
<1>3. Drained = {}
  BY <1>0 DEF IdleInv, Drained, Buffered
<1>4. block_dirty' = {} /\ \A t \in Threads : flush_blocks'[t] = {}
  <2>1. flush_blocks[u] \subseteq block_dirty /\ Drained \in SUBSET Blocks
    BY <1>0, <1>3 DEF IdleInv
  <2>2. /\ block_dirty' = block_dirty \cup Drained
        /\ \A t \in Threads : flush_blocks'[t] \subseteq flush_blocks[t] \cup (Drained \ block_dirty)
    BY <1>0, <1>2, <2>1, HookFacts
  <2> QED
    BY <1>0, <1>3, <2>2 DEF IdleInv
<1>5. flush_mode' = "NO_ACTION"
  <2>1. Cardinality({}) = 0 /\ kMaxFlushBlocks \in Nat \ {0}
    BY FS_EmptySet, EngineAssumption
  <2>2. ASSUME NEW t \in Threads PROVE ~(Cardinality(flush_blocks'[t]) >= kMaxFlushBlocks)
    <3>1. Cardinality(flush_blocks'[t]) = 0
      BY <1>4, <2>1
    <3> QED
      BY <2>1, <3>1
  <2> QED
    BY <1>1, <1>4, <2>2 DEF Mode
<1>6. /\ pc' = [w \in Workers |-> IF w \in Threads THEN "app" ELSE pc[w]]
      /\ UNCHANGED <<phase, committing, skip_copy_on_write>>
  BY <1>5 DEF CheckpointBegin
<1>7. pc'[Cleaner] = pc[Cleaner] /\ \A t \in Threads : pc'[t] = "app"
  BY <1>6, EngineAssumption DEF Workers
<1>8. IdleInv'
  BY <1>0, <1>1, <1>4, <1>6, <1>7 DEF IdleInv, Up
<1>9. RecoveryInv'
  <2>1. phase' = "run"
    BY <1>1, <1>6
  <2> QED
    BY <1>0, <1>1, <2>1 DEF RecoveryInv, Both
<1> QED
  BY <1>7, <1>8, <1>9 DEF LaterInv

\* A step that leaves the medium alone and the program idle.
LEMMA IdleFrame ==
  ASSUME LaterInv, UNCHANGED <<main_pm, back_pm, snap, app>>, IdleInv',
         phase' \notin {"open", "recover", "commit"},
         phase \in {"open", "recover", "commit"} => phase' = phase
  PROVE  LaterInv'
BY DEF LaterInv, RecoveryInv, Both

\* The other steps of the runs that only read.
LEMMA LaterStep ==
  ASSUME Intact, IndInv, OwnBack, Coherent, LaterInv, runs # 1, Next, ~Crash,
         \A t \in Threads : ~AllocateFail(t)
  PROVE  LaterInv'
<1> USE DEF imageVars, historyVars, hookVars, lockVars, threadVars, ckptVars, cleanerVars, Goto
<1>0. TypeOK /\ IdleInv /\ RecoveryInv
  BY DEF IndInv, LaterInv
<1>1. /\ \A t \in Threads : pc[t] \in {"app", "ckpt"}
      /\ \A w \in Workers : pc[w] \in {"app", "ckpt", "blocked", "loop"}
      /\ pc[Cleaner] \in {"blocked", "loop"}
      /\ cleaner_state = "IDLE" /\ (Up <=> phase = "run")
      /\ phase \in {"run", "open", "recover", "commit", "sync", "finish"}
      /\ pc \in [Workers -> PcSet] /\ Threads \subseteq Workers /\ Cleaner \in Workers
      /\ Cleaner \notin Threads
  BY <1>0, EngineAssumption DEF IdleInv, TypeOK, Workers
<1>2. ~Hooks
  <2>1. ~(runs <= MaxRuns)
    BY <1>0 DEF TypeOK, Intact
  <2> QED
    BY <1>1, <2>1 DEF Hooks, BeginStore, CopyOnWriteHook, FinishStore
<1>3. \A w \in Workers : ~LazyWriteBack(w)
  BY <1>1 DEF LazyWriteBack, LazyNothingToDo, LazyLock, LazyCopy, LazyFence, LazyDone
<1>4. ~Stealing
  BY <1>1 DEF Stealing, LazyAllocate
<1>5. ~CheckpointLock /\ ~FlushParallel /\ ~CommitLayoutState /\ ~CommitLayoutEpoch
      /\ ~WriteBackParallel /\ ~WriteBackFence /\ ~CheckpointFinish
  BY <1>1 DEF CheckpointLock, FlushParallel, CommitLayoutState, CommitLayoutEpoch,
              WriteBackParallel, WriteBackFence, CheckpointFinish
<1>6. ASSUME NEW t \in Threads, CheckpointEnter(t) PROVE LaterInv'
  <2>1. /\ phase = "run" /\ pc' = [pc EXCEPT ![t] = "ckpt"]
        /\ UNCHANGED <<imageVars, hookVars, ckptVars, cleanerVars, historyVars>>
    BY <1>6 DEF CheckpointEnter
  <2>2. pc'[Cleaner] = pc[Cleaner] /\ \A u \in Threads : pc'[u] \in {"app", "ckpt"}
    BY <1>1, <2>1
  <2>3. IdleInv'
    BY <1>0, <2>1, <2>2 DEF IdleInv, Up
  <2> QED
    BY <2>1, <2>3, IdleFrame
<1>7. CASE SyncLayoutStates
  <2>1. /\ phase = "sync"
        /\ phase' = (IF committing = "Main" /\ flush_mode = "USE_FLUSH_BLOCKS"
                     THEN "writeback" ELSE "finish")
        /\ UNCHANGED <<main_pm, back_pm, threadVars, hookVars, committing, skip_copy_on_write,
                       cleanerVars, historyVars>>
    BY <1>7 DEF SyncLayoutStates
  <2>2. committing = "Recovery" /\ phase' = "finish"
    BY <1>1, <2>1 DEF Up
  <2>3. IdleInv'
    BY <1>0, <2>1, <2>2 DEF IdleInv, Up
  <2> QED
    BY <2>1, <2>2, <2>3, IdleFrame
<1>8. CASE CleanerStep
  <2>1. /\ Up \/ pc[Cleaner] = "loop"
        /\ pc' = [pc EXCEPT ![Cleaner] = "loop"] \/ pc' = [pc EXCEPT ![Cleaner] = "blocked"]
        /\ UNCHANGED <<imageVars, hookVars, ckptVars, cleaner_state, historyVars>>
    BY <1>1, <1>8 DEF CleanerStep, CleanerAcquire, CleanerLoop
  <2>2. pc'[Cleaner] \in {"loop", "blocked"} /\ \A u \in Threads : pc'[u] = pc[u]
    BY <1>1, <2>1
  <2>3. phase = "run"
    BY <1>1, <2>1 DEF IndInv, StructInv, QuietInv
  <2>4. IdleInv'
    BY <1>0, <2>1, <2>2 DEF IdleInv, Up
  <2> QED
    BY <2>1, <2>3, <2>4, IdleFrame
<1>9. CASE OpenDone
  <2>1. /\ phase = "finish" /\ phase' = "run" /\ committing' = "None"
        /\ UNCHANGED <<main_pm, back_pm, threadVars, hookVars, skip_copy_on_write, cleanerVars,
                       historyVars>>
    BY <1>9 DEF OpenDone
  <2>2. IdleInv'
    BY <1>0, <2>1 DEF IdleInv, Up
  <2> QED
    BY <2>1, <2>2, IdleFrame
<1> QED
  BY <1>2, <1>3, <1>4, <1>5, <1>6, <1>7, <1>8, <1>9, OpenImageLater, RecoveryCopyLater,
     RecoveryCommitLater, CheckpointBeginLater
  DEF Next, Checkpoint, Recovery

-----------------------------------------------------------------------------
(* Every step.                                                             *)

\* Stores and fences leave the medium with what loads find.
LEMMA PutIn ==
  ASSUME NEW D, NEW mem, NEW pm, DOMAIN mem = D, DOMAIN pm = D, \A x \in D : mem[x] \in pm[x],
         NEW X, NEW val
  PROVE  \A x \in D : Write(mem, X, val)[x] \in Put(pm, X, val)[x]
BY DEF Write, Put

\* ... for a fence,
LEMMA SettleIn ==
  ASSUME NEW D, NEW mem, NEW pm, DOMAIN pm = D, \A x \in D : mem[x] \in pm[x], NEW X
  PROVE  \A x \in D : mem[x] \in Settle(pm, X, mem)[x]
BY DEF Settle

\* One slot is written, or settled.
LEMMA SlotIn ==
  ASSUME TypeOK, Coherent, NEW new, NEW pm, DOMAIN pm = Segments,
         \A s \in Segments : new[s] \in pm[s],
         segment_state' = [segment_state EXCEPT ![Inactive] = new],
         segment_state_pm' = [segment_state_pm EXCEPT ![Inactive] = pm]
  PROVE  \A s \in Segments, e \in 0 .. 1 : segment_state'[e][s] \in segment_state_pm'[e][s]
<1>1. /\ segment_state \in [0 .. 1 -> [Segments -> States]]
      /\ segment_state_pm \in [0 .. 1 -> [Segments -> (SUBSET States) \ {{}}]]
  BY DEF TypeOK, ImageTypeOK
<1> QED
  BY <1>1 DEF Coherent

\* Every step but a crash keeps the medium in step with the caches.
LEMMA CoherentStep ==
  ASSUME Intact, IndInv, Coherent, Next, ~Crash, \A t \in Threads : ~AllocateFail(t),
         ~RecoveryCopy, \A w \in Workers : pc[w] = "state" => StateOf(target[w]) = "Back"
  PROVE  Coherent'
<1> USE DEF imageVars, historyVars, hookVars, lockVars, threadVars, ckptVars, cleanerVars
<1>0. /\ TypeOK /\ TargetInv /\ BackBlocks = Blocks
      /\ Active \in 0 .. 1 /\ Inactive \in 0 .. 1 /\ Active # Inactive
      /\ \A e \in 0 .. 1 : e = Active \/ e = Inactive
      /\ DOMAIN main = Blocks /\ DOMAIN main_pm = Blocks
      /\ DOMAIN back = Blocks /\ DOMAIN back_pm = Blocks
      /\ segment_state \in [0 .. 1 -> [Segments -> States]]
      /\ segment_state_pm \in [0 .. 1 -> [Segments -> (SUBSET States) \ {{}}]]
  BY Shapes DEF IndInv, StructInv, TypeOK, ImageTypeOK
<1>c. /\ \A b \in Blocks : main[b] \in main_pm[b] /\ back[b] \in back_pm[b]
      /\ \A s \in Segments, e \in 0 .. 1 : segment_state[e][s] \in segment_state_pm[e][s]
  BY DEF Coherent
<1> DEFINE SameMain == UNCHANGED <<main, main_pm>>
           SameBack == UNCHANGED <<back, back_pm>>
           SameStates == UNCHANGED <<segment_state, segment_state_pm>>
           Settles == segment_state_pm' = StatesSettled /\ UNCHANGED segment_state
<1>1. CASE SameMain /\ SameBack /\ SameStates
  BY <1>1 DEF Coherent
<1>2. ASSUME Settles PROVE \A s \in Segments, e \in 0 .. 1 : segment_state'[e][s] \in segment_state_pm'[e][s]
  BY <1>2 DEF StatesSettled
<1>3. ASSUME NEW t \in Threads, FinishStore(t) PROVE Coherent'
  <2>1. PICK v \in Values :
          /\ main' = [b \in Blocks |-> IF b \in range[t] THEN v ELSE main[b]]
          /\ main_pm' = Put(main_pm, range[t], [b \in Blocks |-> v])
    BY <1>3 DEF FinishStore
  <2>2. SameBack /\ SameStates
    BY <1>3 DEF FinishStore
  <2>3. \A b \in Blocks : main'[b] \in main_pm'[b]
    BY <1>0, <1>c, <2>1 DEF Put
  <2> QED
    BY <1>c, <2>2, <2>3 DEF Coherent
<1>4. ASSUME NEW w \in Workers, LazyCopy(w) PROVE Coherent'
  <2>1. PICK X : back' = Write(back, X, BackData) /\ back_pm' = Put(back_pm, X, BackData)
    BY <1>4 DEF LazyCopy
  <2>2. SameMain /\ SameStates
    BY <1>4 DEF LazyCopy
  <2>3. \A b \in Blocks : back'[b] \in back_pm'[b]
    BY <1>0, <1>c, <2>1, PutIn
  <2> QED
    BY <1>c, <2>2, <2>3 DEF Coherent
<1>5. ASSUME NEW w \in Workers, LazyFence(w) PROVE Coherent'
  <2>1. target[w] \in Segments
    BY <1>0, <1>5 DEF LazyFence, TargetInv, Holds
  <2>2. PICK X : back_pm' = Settle(back_pm, X, back)
    BY <1>5 DEF LazyFence
  <2>3. SameMain /\ back' = back
    BY <1>5 DEF LazyFence
  <2>4. \A b \in Blocks : back'[b] \in back_pm'[b]
    BY <1>0, <1>c, <2>2, <2>3, SettleIn
  <2>5. /\ segment_state' = [segment_state EXCEPT ![Active][target[w]] = "Back"]
        /\ segment_state_pm' = [segment_state_pm EXCEPT ![Active][target[w]] = @ \cup {"Back"}]
    BY <1>5 DEF LazyFence
  <2>6. \A s \in Segments, e \in 0 .. 1 : segment_state'[e][s] \in segment_state_pm'[e][s]
    BY <1>0, <1>c, <2>1, <2>5
  <2> QED
    BY <1>c, <2>3, <2>4, <2>6 DEF Coherent
<1>6. ASSUME NEW w \in Workers, LazyDone(w) PROVE Coherent'
  <2>1. target[w] \in Segments /\ SameMain /\ SameBack
    BY <1>0, <1>6 DEF LazyDone, TargetInv, Holds
  <2>2. /\ segment_state' = [segment_state EXCEPT ![Inactive][target[w]] = "Back"]
        /\ segment_state_pm' = [e \in 0 .. 1 |-> [segment_state_pm[e] EXCEPT
             ![target[w]] = IF e = Active THEN {"Back"} ELSE @ \cup {"Back"}]]
    BY <1>6 DEF LazyDone
  <2>3. segment_state[Active][target[w]] = "Back"
    BY <1>6 DEF LazyDone, StateOf
  <2>4. \A s \in Segments, e \in 0 .. 1 : segment_state'[e][s] \in segment_state_pm'[e][s]
    BY <1>0, <1>c, <2>1, <2>2, <2>3
  <2> QED
    BY <1>c, <2>1, <2>4 DEF Coherent
<1>7. ASSUME SameMain, SameBack, Settles PROVE Coherent'
  BY <1>c, <1>2, <1>7 DEF Coherent
<1>8. CASE CheckpointBegin \/ CheckpointFinish \/ OpenDone
  BY <1>7, <1>8 DEF CheckpointBegin, CheckpointFinish, OpenDone
<1>9. CASE WriteBackFence
  <2>1. SameMain /\ back' = back /\ Settles /\ back_pm' = Settle(back_pm, BackImage(Listed), back)
    BY <1>9 DEF WriteBackFence
  <2>2. \A b \in Blocks : back'[b] \in back_pm'[b]
    BY <1>0, <1>c, <2>1, SettleIn
  <2> QED
    BY <1>c, <1>2, <2>1, <2>2 DEF Coherent
<1>10. CASE FlushParallel
  <2>1. SameBack /\ SameStates /\ main' = main
    BY <1>10 DEF FlushParallel
  <2>2. PICK X : main_pm' = Settle(main_pm, X, main)
    BY <1>10 DEF FlushParallel
  <2>3. \A b \in Blocks : main'[b] \in main_pm'[b]
    BY <1>0, <1>c, <2>1, <2>2, SettleIn
  <2> QED
    BY <1>c, <2>1, <2>3 DEF Coherent
<1>11. CASE WriteBackParallel
  <2>1. PICK X : back' = Write(back, X, BackData) /\ back_pm' = Put(back_pm, X, BackData)
    BY <1>11 DEF WriteBackParallel
  <2>2. SameMain /\ SameStates
    BY <1>11 DEF WriteBackParallel
  <2>3. \A b \in Blocks : back'[b] \in back_pm'[b]
    BY <1>0, <1>c, <2>1, PutIn
  <2> QED
    BY <1>c, <2>2, <2>3 DEF Coherent
<1>12. ASSUME NEW S, NEW new, \A s \in Segments : s \notin S => new[s] = segment_state[Inactive][s],
              segment_state' = [segment_state EXCEPT ![Inactive] = new],
              NEW pm, pm = Put(segment_state_pm[Inactive], S, new),
              segment_state_pm' = [segment_state_pm EXCEPT ![Inactive] = pm]
       PROVE  \A s \in Segments, e \in 0 .. 1 : segment_state'[e][s] \in segment_state_pm'[e][s]
  <2>1. DOMAIN pm = Segments /\ \A s \in Segments : new[s] \in pm[s]
    BY <1>0, <1>c, <1>12 DEF Put
  <2> QED
    BY <1>0, <1>12, <2>1, SlotIn
<1>13. CASE CommitLayoutState
  <2>1. SameMain /\ SameBack /\ set_segment_state(LayoutSegments, committing)
    BY <1>13 DEF CommitLayoutState
  <2>2. PICK new : new = [s \in Segments |-> IF s \in LayoutSegments THEN committing
                                             ELSE segment_state[Inactive][s]]
    OBVIOUS
  <2>p. PICK pm : pm = Put(segment_state_pm[Inactive], LayoutSegments, new)
    OBVIOUS
  <2>3. /\ segment_state' = [segment_state EXCEPT ![Inactive] = new]
        /\ segment_state_pm' = [segment_state_pm EXCEPT ![Inactive] = pm]
    BY <2>1, <2>2, <2>p DEF set_segment_state
  <2>4. \A s \in Segments : s \notin LayoutSegments => new[s] = segment_state[Inactive][s]
    BY <2>2
  <2>5. \A s \in Segments, e \in 0 .. 1 : segment_state'[e][s] \in segment_state_pm'[e][s]
    BY <1>12, <2>3, <2>4, <2>p
  <2> QED
    BY <1>c, <2>1, <2>5 DEF Coherent
<1>14. CASE SyncLayoutStates
  <2>1. SameMain /\ SameBack /\ CopyStates
    BY <1>14 DEF SyncLayoutStates
  <2>2. PICK S : S = SegmentsOfLines(segment_state_dirty)
    OBVIOUS
  <2>3. PICK new : new = [s \in Segments |-> IF s \in S THEN segment_state[Active][s]
                                             ELSE segment_state[Inactive][s]]
    OBVIOUS
  <2>p. PICK pm : pm = Put(segment_state_pm[Inactive], S, new)
    OBVIOUS
  <2>4. /\ segment_state' = [segment_state EXCEPT ![Inactive] = new]
        /\ segment_state_pm' = [segment_state_pm EXCEPT ![Inactive] = pm]
    BY <2>1, <2>2, <2>3, <2>p DEF CopyStates
  <2>5. \A s \in Segments : s \notin S => new[s] = segment_state[Inactive][s]
    BY <2>3
  <2>6. \A s \in Segments, e \in 0 .. 1 : segment_state'[e][s] \in segment_state_pm'[e][s]
    BY <1>12, <2>4, <2>5, <2>p
  <2> QED
    BY <1>c, <2>1, <2>6 DEF Coherent
<1>15. ASSUME CommitEpoch
       PROVE  \A s \in Segments, e \in 0 .. 1 : segment_state'[e][s] \in segment_state_pm'[e][s]
  <2>1. PICK S : S = SegmentsOfLines(segment_state_dirty)
    OBVIOUS
  <2>2. /\ segment_state_pm' = [segment_state_pm EXCEPT
               ![Inactive] = Settle(@, S, segment_state[Inactive])]
        /\ segment_state' = segment_state
    BY <1>15, <2>1 DEF CommitEpoch
  <2>3. PICK pm : pm = Settle(segment_state_pm[Inactive], S, segment_state[Inactive])
    OBVIOUS
  <2>4. \A s \in Segments : segment_state[Inactive][s] \in pm[s]
    BY <1>0, <1>c, <2>3 DEF Settle
  <2>5. segment_state_pm' = [segment_state_pm EXCEPT ![Inactive] = pm]
    BY <2>2, <2>3
  <2> QED
    BY <1>0, <1>c, <2>2, <2>4, <2>5
<1>16. CASE CommitLayoutEpoch
  BY <1>c, <1>15, <1>16 DEF CommitLayoutEpoch, Coherent
<1>17. CASE RecoveryCommit
  <2>1. /\ CommitEpoch /\ main' = main /\ back' = back
        /\ main_pm' = Settle(main_pm, Blocks, main) /\ back_pm' = Settle(back_pm, BackBlocks, back)
    BY <1>17 DEF RecoveryCommit
  <2>2. \A b \in Blocks : main'[b] \in main_pm'[b] /\ back'[b] \in back_pm'[b]
    BY <1>0, <2>1 DEF Settle
  <2> QED
    BY <1>15, <2>1, <2>2 DEF Coherent
<1>18. CASE \E t \in Threads : BeginStore(t) \/ CopyOnWriteHook(t)
  BY <1>1, <1>18 DEF BeginStore, CopyOnWriteHook
<1>19. CASE \E w \in Workers : LazyNothingToDo(w) \/ LazyLock(w)
  BY <1>1, <1>19 DEF LazyNothingToDo, LazyLock
<1>20. CASE \E t \in Threads : LazyAllocate(t)
  BY <1>1, <1>20 DEF LazyAllocate
<1>21. CASE \/ \E t \in Threads : CheckpointEnter(t)
            \/ CheckpointLock
  BY <1>1, <1>21 DEF CheckpointEnter, CheckpointLock
<1>22. CASE CleanerStep
  BY <1>1, <1>22 DEF CleanerStep, CleanerAcquire, CleanerLoop
<1>23. CASE OpenImage
  BY <1>1, <1>23 DEF OpenImage
<1> HIDE DEF SameMain, SameBack, SameStates, Settles
<1>24. CASE Hooks
  BY <1>3, <1>18, <1>24 DEF Hooks
<1>25. CASE \E w \in Workers : LazyWriteBack(w)
  BY <1>4, <1>5, <1>6, <1>19, <1>25 DEF LazyWriteBack
<1>26. CASE Stealing
  BY <1>20, <1>26 DEF Stealing
<1>27. CASE Checkpoint
  BY <1>8, <1>9, <1>10, <1>11, <1>13, <1>14, <1>16, <1>21, <1>27 DEF Checkpoint
<1>28. CASE Recovery
  BY <1>8, <1>17, <1>23, <1>28 DEF Recovery
<1> QED
  BY <1>22, <1>24, <1>25, <1>26, <1>27, <1>28 DEF Next

\* With a back segment for each main segment none is ever stolen.
LEMMA NoStealing ==
  ASSUME Intact, IndInv, OwnBack, IF runs = 1 THEN FirstInv ELSE LaterInv
  PROVE  ~Stealing
<1>0. TypeOK /\ TargetInv
  BY DEF IndInv, StructInv
<1>1. CASE runs = 1
  <2>1. phase # "open"
    BY <1>1 DEF FirstInv, StageInv
  <2>2. ASSUME NEW t \in Threads, pc[t] = "lwb" PROVE main_to_back[target[t]] # Null
    <3>1. t \in Workers
      BY DEF Workers
    <3>2. target[t] \in Segments
      BY <1>0, <2>2, <3>1 DEF TargetInv
    <3> QED
      BY <1>0, <2>1, <3>2, BackFacts
  <2> QED
    BY <2>2 DEF Stealing, LazyAllocate, AllocateFail
<1>2. CASE runs # 1
  <2>1. \A t \in Threads : pc[t] # "lwb"
    BY <1>2 DEF LaterInv, IdleInv
  <2> QED
    BY <2>1 DEF Stealing, LazyAllocate, AllocateFail
<1> QED
  BY <1>1, <1>2

\* The assignment of back segments stays as it was created.
LEMMA OwnBackStep ==
  ASSUME Intact, IndInv, OwnBack, Next, ~Crash, ~Stealing, ~OpenImage
  PROVE  OwnBack'
<1> USE DEF imageVars, threadVars, ckptVars
<1>0. TypeOK /\ PhaseInv
  BY DEF IndInv, StructInv
<1>1. ASSUME UNCHANGED <<back_to_main, main_to_back, created>>, phase # "open"
      PROVE  OwnBack'
  BY <1>1 DEF OwnBack
<1>2. ASSUME UNCHANGED <<back_to_main, main_to_back, created, phase>>
      PROVE  OwnBack'
  BY <1>2 DEF OwnBack
<1>3. CASE Hooks
  BY <1>2, <1>3 DEF Hooks, BeginStore, CopyOnWriteHook, FinishStore
<1>4. ASSUME NEW w \in Workers, LazyWriteBack(w) PROVE OwnBack'
  <2>1. CASE LazyDone(w)
    <3>1. /\ created' = [created EXCEPT ![w] = FALSE]
          /\ UNCHANGED <<back_to_main, main_to_back, phase>>
      BY <2>1 DEF LazyDone
    <3>2. \A v \in Workers : ~created'[v]
      BY <1>0, <3>1 DEF TypeOK, OwnBack
    <3> QED
      BY <3>1, <3>2 DEF OwnBack
  <2>2. CASE ~LazyDone(w)
    BY <1>2, <1>4, <2>2 DEF LazyWriteBack, LazyNothingToDo, LazyLock, LazyCopy, LazyFence
  <2> QED
    BY <2>1, <2>2
<1>5. CASE \E t \in Threads : CheckpointEnter(t)
  BY <1>2, <1>5 DEF CheckpointEnter
<1>6. CASE Checkpoint
  <2>1. CASE CheckpointBegin \/ CheckpointLock \/ FlushParallel \/ CommitLayoutState
             \/ CommitLayoutEpoch
    BY <1>1, <2>1 DEF CheckpointBegin, CheckpointLock, FlushParallel, CommitLayoutState,
                      CommitLayoutEpoch
  <2>2. CASE SyncLayoutStates \/ WriteBackParallel \/ WriteBackFence \/ CheckpointFinish
    BY <1>1, <2>2 DEF SyncLayoutStates, WriteBackParallel, WriteBackFence, CheckpointFinish
  <2> QED
    BY <1>5, <1>6, <2>1, <2>2 DEF Checkpoint
<1>7. CASE CleanerStep
  BY <1>2, <1>7 DEF CleanerStep, CleanerAcquire, CleanerLoop
<1>8. CASE RecoveryCopy \/ RecoveryCommit \/ OpenDone
  BY <1>1, <1>8 DEF RecoveryCopy, RecoveryCommit, OpenDone
<1> QED
  BY <1>3, <1>4, <1>6, <1>7, <1>8 DEF Next, Recovery

\* Only a crash ends a run.
LEMMA RunsStep ==
  ASSUME Next, ~Crash, ~Stealing
  PROVE  runs' = runs
<1>1. CASE Hooks
  BY <1>1 DEF Hooks, BeginStore, CopyOnWriteHook, FinishStore
<1>2. CASE \E w \in Workers : LazyWriteBack(w)
  BY <1>2 DEF LazyWriteBack, LazyNothingToDo, LazyLock, LazyCopy, LazyFence, LazyDone
<1>3. CASE Checkpoint
  <2>1. CASE \E t \in Threads : CheckpointEnter(t)
    BY <2>1 DEF CheckpointEnter
  <2>2. CASE CheckpointBegin \/ CheckpointLock \/ FlushParallel \/ CommitLayoutState
             \/ CommitLayoutEpoch
    BY <2>2 DEF CheckpointBegin, CheckpointLock, FlushParallel, CommitLayoutState,
                CommitLayoutEpoch
  <2>3. CASE SyncLayoutStates \/ WriteBackParallel \/ WriteBackFence \/ CheckpointFinish
    BY <2>3 DEF SyncLayoutStates, WriteBackParallel, WriteBackFence, CheckpointFinish
  <2> QED
    BY <1>3, <2>1, <2>2, <2>3 DEF Checkpoint
<1>4. CASE CleanerStep
  BY <1>4 DEF CleanerStep, CleanerAcquire, CleanerLoop
<1>5. CASE Recovery
  BY <1>5 DEF Recovery, OpenImage, RecoveryCopy, RecoveryCommit, OpenDone
<1> QED
  BY <1>1, <1>2, <1>3, <1>4, <1>5 DEF Next

\* The run that stores: one case per action.
LEMMA FirstStep ==
  ASSUME Intact, IndInv, OwnBack, Coherent, FirstInv, LeaderInv, Next, ~Crash, ~Stealing
  PROVE  FirstInv'
<1>1. ~Recovery
  <2>1. phase \notin {"open", "recover"} /\ Up
    BY DEF FirstInv, StageInv
  <2> QED
    BY <2>1 DEF Recovery, OpenImage, RecoveryCopy, RecoveryCommit, OpenDone
<1>2. CASE Hooks
  BY <1>2, BeginStoreFirst, CopyOnWriteHookFirst, FinishStoreFirst DEF Hooks
<1>3. CASE \E w \in Workers : LazyWriteBack(w)
  BY <1>3, LazyNothingToDoFirst, LazyLockFirst, LazyCopyFirst, LazyFenceFirst, LazyDoneFirst
  DEF LazyWriteBack
<1>4. CASE Checkpoint
  BY <1>4, CheckpointEnterFirst, CheckpointBeginFirst, CheckpointLockFirst, FlushParallelFirst,
     CommitLayoutStateFirst, CommitLayoutEpochFirst, SyncLayoutStatesFirst,
     WriteBackParallelFirst, WriteBackFenceFirst, CheckpointFinishFirst
  DEF Checkpoint
<1>5. CASE CleanerStep
  BY <1>5, CleanerStepFirst
<1> QED
  BY <1>1, <1>2, <1>3, <1>4, <1>5 DEF Next

\* Whatever the run, the last checkpoint is safe.
LEMMA AllGood ==
  ASSUME Intact, IndInv, SafeInv
  PROVE  \A b \in Blocks : snap[b] # Junk => Good(b)
BY FirstGood, LaterGood DEF SafeInv

\* The invariant is inductive.
LEMMA SafeStep ==
  ASSUME Intact, IndInv, SafeInv, [Next]_vars
  PROVE  SafeInv'
<1>0. /\ OwnBack /\ Coherent
      /\ runs = 1 => FirstInv /\ LeaderInv
      /\ runs # 1 => LaterInv
  BY DEF SafeInv
<1>1. CASE UNCHANGED vars
  <2> USE <1>1 DEF vars, imageVars, historyVars, hookVars, lockVars, threadVars, ckptVars, cleanerVars
  <2>1. OwnBack' /\ Coherent' /\ runs' = runs
    BY <1>0 DEF OwnBack, Coherent
  <2>2. FirstInv => FirstInv'
    <3> USE DEF StateOf, Active, Inactive, Up, Holds, Held, Settling, Storing, Drained, Buffered,
                Touched, Early, Flushed, Both, Listed, Indifferent
    <3>1. StageInv => StageInv'
      BY DEF StageInv
    <3>2. ModeInv => ModeInv'
      <4>1. ModeInv /\ skip_copy_on_write => cleaner_state' = "IDLE"
        BY DEF ModeInv
      <4> QED
        BY <4>1, ModeFrame
    <3>3. PendInv => PendInv'
      BY DEF PendInv
    <3>4. BitInv => BitInv'
      BY DEF BitInv
    <3>5. ListInv => ListInv'
      BY DEF ListInv
    <3>6. HeldInv => HeldInv'
      BY DEF HeldInv
    <3>7. PassInv => PassInv'
      BY DEF PassInv
    <3>8. SlotInv => SlotInv'
      BY DEF SlotInv
    <3>9. StateInv => StateInv'
      BY DEF StateInv
    <3>10. MainInv => MainInv'
      BY DEF MainInv
    <3>11. BackInv => BackInv'
      BY DEF BackInv
    <3> QED
      BY <3>1, <3>2, <3>3, <3>4, <3>5, <3>6, <3>7, <3>8, <3>9, <3>10, <3>11 DEF FirstInv
  <2>3. LeaderInv => LeaderInv'
    BY DEF LeaderInv
  <2>4. LaterInv => LaterInv'
    BY DEF LaterInv, IdleInv, RecoveryInv, Up, StateOf, Active, Both
  <2> QED
    BY <1>0, <2>1, <2>2, <2>3, <2>4 DEF SafeInv
<1>2. ~Stealing
  BY <1>0, NoStealing
<1>3. CASE Crash
  BY <1>0, <1>3, AllGood, DieStep DEF Crash, SafeInv
<1>4. CASE Next /\ ~Crash
  <2>1. runs' = runs
    BY <1>2, <1>4, RunsStep
  <2>2. \A t \in Threads : ~AllocateFail(t)
    BY <1>2 DEF Stealing
  <2>3. OwnBack'
    <3>1. CASE OpenImage
      <4>1. runs # 1
        BY <1>0, <3>1 DEF OpenImage, FirstInv, StageInv
      <4> QED
        BY <1>0, <3>1, <4>1, OpenImageLater
    <3> QED
      BY <1>0, <1>2, <1>4, <3>1, OwnBackStep
  <2>4. Coherent'
    <3>1. CASE RecoveryCopy
      <4>1. runs # 1
        BY <1>0, <3>1 DEF RecoveryCopy, FirstInv, StageInv
      <4> QED
        BY <1>0, <3>1, <4>1, RecoveryCopyLater
    <3>2. \A w \in Workers : pc[w] = "state" => StateOf(target[w]) = "Back"
      <4>1. CASE runs = 1
        BY <1>0, <4>1 DEF FirstInv, HeldInv, Holds
      <4>2. CASE runs # 1
        BY <1>0, <4>2 DEF LaterInv, IdleInv, Workers
      <4> QED
        BY <4>1, <4>2
    <3> QED
      BY <1>0, <1>4, <2>2, <3>1, <3>2, CoherentStep
  <2>5. CASE runs = 1
    <3>1. FirstInv'
      BY <1>0, <1>2, <1>4, <2>5, FirstStep
    <3>2. phase' # "open"
      BY <3>1 DEF FirstInv, StageInv
    <3>3. LeaderInv'
      BY <1>0, <1>4, <2>1, <2>5, <3>2, LeaderStep
    <3> QED
      BY <2>1, <2>3, <2>4, <2>5, <3>1, <3>3 DEF SafeInv
  <2>6. CASE runs # 1
    <3>1. LaterInv'
      BY <1>0, <1>4, <2>2, <2>6, LaterStep
    <3> QED
      BY <2>1, <2>3, <2>4, <2>6, <3>1 DEF SafeInv
  <2> QED
    BY <2>5, <2>6
<1> QED
  BY <1>1, <1>3, <1>4

\* It holds when the pool has just been created.
LEMMA SafeInit ==
  ASSUME Intact, Init
  PROVE  SafeInv
<1>0. TypeOK
  BY InitInv DEF IndInv
<1>s. /\ BackSegments = Segments /\ BackBlocks = Blocks
      /\ Active \in 0 .. 1 /\ Inactive \in 0 .. 1
      /\ \A b \in Blocks : b[1] \in Segments
  BY <1>0, Shapes
<1>1. /\ phase = "run" /\ committing = "None" /\ runs = 1 /\ segment_state_dirty = {}
      /\ pc = [w \in Workers |-> IF w = Cleaner THEN "blocked" ELSE "app"]
      /\ created = [w \in Workers |-> FALSE]
      /\ block_dirty = {} /\ segment_dirty = {} /\ cleaner_state = "IDLE"
      /\ address_buffer = [t \in Threads |-> <<>>] /\ flush_blocks = [t \in Threads |-> {}]
      /\ skip_copy_on_write = FALSE /\ cleaner_mutex = "free"
  BY DEF Init, ImageInit, VolatileInit
<1>2. /\ app = [b \in Blocks |-> Junk] /\ snap = app /\ main = app
      /\ \A b \in Blocks : main_pm[b] = {Junk} /\ back[b] = Junk /\ back_pm[b] = {Junk}
      /\ \A s \in Segments, e \in 0 .. 1 : /\ segment_state[e][s] = "Initial"
                                           /\ segment_state_pm[e][s] = {"Initial"}
  BY <1>s DEF Init, ImageInit
<1>3. OwnBack
  BY <1>s, <1>1 DEF Init, ImageInit, OwnBack
<1>4. Coherent
  BY <1>2 DEF Coherent
<1>5. /\ \A t \in Threads : pc[t] = "app" /\ address_buffer[t] = <<>> /\ flush_blocks[t] = {}
      /\ \A w \in Workers : pc[w] \in {"app", "blocked"}
      /\ pc[Cleaner] = "blocked" /\ Cleaner \in Workers /\ Threads \subseteq Workers
  BY <1>1, EngineAssumption DEF Workers
<1>6. /\ \A w \in Workers : ~Holds(w)
      /\ \A t \in Threads : ~Storing(t)
      /\ \A s : ~Held(s)
      /\ Drained = {} /\ Touched = {} /\ Early /\ ~Flushed
  <2>1. \A w \in Workers : ~Holds(w)
    BY <1>5 DEF Holds
  <2>2. \A t \in Threads : ~Storing(t)
    BY <1>5, <2>1 DEF Storing
  <2>3. Drained = {}
    BY <1>5 DEF Drained, Buffered
  <2> QED
    BY <1>1, <2>1, <2>2, <2>3 DEF Held, Touched, Early, Flushed
<1>7. \A s \in Segments : StateOf(s) = "Initial"
  BY <1>s, <1>2 DEF StateOf
<1>8. StageInv /\ ModeInv /\ PendInv /\ BitInv /\ ListInv
  <2>1. StageInv
    BY <1>1, <1>5, <1>6 DEF StageInv, Up
  <2>2. ModeInv /\ PendInv
    BY <1>1, <1>6 DEF ModeInv, PendInv
  <2>3. BitInv /\ ListInv
    BY <1>1, <1>5, <1>6 DEF BitInv, ListInv
  <2> QED
    BY <2>1, <2>2, <2>3
<1>9. HeldInv /\ PassInv /\ SlotInv
  <2>1. HeldInv /\ PassInv
    BY <1>1, <1>6, <1>7 DEF HeldInv, PassInv
  <2>2. SlotInv
    BY <1>s, <1>1, <1>2 DEF SlotInv
  <2> QED
    BY <2>1, <2>2
<1>10. StateInv /\ MainInv /\ BackInv
  <2>1. StateInv
    BY <1>s, <1>1, <1>2 DEF StateInv, StateOf
  <2>2. MainInv
    BY <1>2, <1>6 DEF MainInv
  <2>3. BackInv
    BY <1>1, <1>2, <1>5 DEF BackInv
  <2> QED
    BY <2>1, <2>2, <2>3
<1>11. LeaderInv
  BY <1>1 DEF LeaderInv
<1> QED
  BY <1>1, <1>3, <1>4, <1>8, <1>9, <1>10, <1>11 DEF SafeInv, FirstInv

\* The invariants hold in every state of every behaviour.
LEMMA SafeInvHolds ==
  ASSUME Intact
  PROVE  Spec => [](IndInv /\ SafeInv)
<1>1. Init => SafeInv
  BY SafeInit
<1>2. IndInv /\ SafeInv /\ [Next]_vars => SafeInv'
  BY SafeStep
<1> QED
  BY <1>1, <1>2, IndInvHolds, PTL DEF Spec

\* What recovery would restore: exactly the checkpoint.
LEMMA SafeRecovery ==
  ASSUME Intact, IndInv, SafeInv
  PROVE  RecoverySafe
<1> SUFFICES ASSUME NEW b \in Blocks, snap[b] # Junk,
                    NEW state \in segment_state_pm[Active][b[1]]
             PROVE  Recoverable(b, state) = {snap[b]}
  BY DEF RecoverySafe
<1>0. TypeOK /\ Good(b) /\ OwnBack
  BY AllGood DEF IndInv, SafeInv
<1>1. b[1] \in BackSegments /\ b = <<b[1], b[2]>>
  BY <1>0, Shapes
<1>2. {c \in BackSegments : back_to_main[c] = b[1]} = {b[1]}
  BY <1>0, <1>1 DEF OwnBack
<1>3. UNION {back_pm[<<c, b[2]>>] : c \in {b[1]}} = back_pm[b]
  <2>1. {back_pm[<<c, b[2]>>] : c \in {b[1]}} = {back_pm[b]}
    BY <1>1
  <2> QED
    BY <2>1
<1>4. Recoverable(b, state) = IF state = "Back" THEN back_pm[b] ELSE main_pm[b]
  BY <1>2, <1>3 DEF Recoverable
<1> QED
  BY <1>0, <1>4 DEF Good, Both

\* What loads find.
LEMMA SafeMemory ==
  ASSUME Intact, IndInv, SafeInv
  PROVE  MemoryIsProgram
<1> SUFFICES ASSUME phase \notin {"open", "recover"}, NEW b \in Blocks, app[b] # Junk
             PROVE  main[b] = app[b]
  BY DEF MemoryIsProgram
<1>1. CASE runs = 1
  BY <1>1 DEF SafeInv, FirstInv, MainInv
<1>2. CASE runs # 1
  BY <1>2 DEF SafeInv, LaterInv, RecoveryInv, Coherent, Both
<1> QED
  BY <1>1, <1>2

\* Only the two ends of checkpoint let its callers go on.
LEMMA CheckpointReturns ==
  ASSUME TypeOK, [Next]_vars, NEW t \in Threads, pc[t] = "ckpt", pc'[t] = "app", phase' = "run"
  PROVE  CheckpointBegin \/ CheckpointFinish
<1> USE DEF threadVars, Goto
<1>0. /\ pc \in [Workers -> PcSet] /\ t \in Workers /\ t # Cleaner
  BY EngineAssumption DEF TypeOK, Workers
<1>1. pc'[t] # pc[t]
  OBVIOUS
<1>2. Next
  BY <1>1 DEF vars
<1>3. ~Hooks
  BY <1>0, <1>1 DEF Hooks, BeginStore, CopyOnWriteHook, FinishStore
<1>4. \A w \in Workers : ~LazyWriteBack(w)
  <2> SUFFICES ASSUME NEW w \in Workers, LazyWriteBack(w) PROVE FALSE
    OBVIOUS
  <2>1. w # t
    BY DEF LazyWriteBack, LazyNothingToDo, LazyLock, LazyCopy, LazyFence, LazyDone
  <2>2. PICK l : pc' = [pc EXCEPT ![w] = l]
    BY DEF LazyWriteBack, LazyNothingToDo, LazyLock, LazyCopy, LazyFence, LazyDone, Return
  <2> QED
    BY <1>0, <1>1, <2>1, <2>2
<1>5. ~Crash /\ ~Stealing
  <2>1. ~Die
    BY DEF Die
  <2>2. \A u \in Threads : ~LazyAllocate(u)
    BY <1>0, <1>1 DEF LazyAllocate
  <2> QED
    BY <2>1, <2>2 DEF Crash, Stealing, AllocateFail
<1>6. ~CleanerStep /\ ~Recovery
  <2>1. ~CleanerStep
    BY <1>0, <1>1 DEF CleanerStep, CleanerAcquire, CleanerLoop
  <2>2. ~Recovery
    BY <1>1 DEF Recovery, OpenImage, RecoveryCopy, RecoveryCommit, OpenDone
  <2> QED
    BY <2>1, <2>2
<1>7. \A u \in Threads : ~CheckpointEnter(u)
  BY <1>0, <1>1 DEF CheckpointEnter
<1>8. /\ ~CheckpointLock /\ ~FlushParallel /\ ~CommitLayoutState /\ ~CommitLayoutEpoch
      /\ ~SyncLayoutStates /\ ~WriteBackParallel /\ ~WriteBackFence
  BY <1>1 DEF CheckpointLock, FlushParallel, CommitLayoutState, CommitLayoutEpoch,
              SyncLayoutStates, WriteBackParallel, WriteBackFence
<1> QED
  BY <1>2, <1>3, <1>4, <1>5, <1>6, <1>7, <1>8 DEF Next, Checkpoint

\* A checkpoint that finds every list empty has nothing to make durable.
LEMMA NothingStored ==
  ASSUME Intact, IndInv, FirstInv, CheckpointBegin, flush_mode' = "NO_ACTION"
  PROVE  \A b \in Blocks : app[b] = snap[b]
<1>0. TypeOK /\ ListInv /\ BitInv /\ MainInv
  BY DEF IndInv, FirstInv
<1>1. PICK u \in Threads : hook_routine(u, Drained)
  BY DEF CheckpointBegin
<1>2. Drained \in SUBSET Blocks
  BY <1>0, BufferedType DEF Drained
<1>3. ListInv' /\ block_dirty' = block_dirty \cup Drained /\ segment_dirty' = segment_dirty
  <2>1. segment_dirty' = segment_dirty
    BY DEF CheckpointBegin
  <2> QED
    BY <1>0, <1>1, <1>2, <2>1, HookLists DEF BitInv
<1>4. \A t \in Threads : flush_blocks'[t] = {}
  <2>1. flush_blocks[u] \subseteq block_dirty
    BY <1>0 DEF ListInv
  <2>2. flush_blocks' \in [Threads -> SUBSET Blocks]
    BY <1>0, <1>1, <1>2, <2>1, HookFacts
  <2>3. Mode(flush_blocks') = "NO_ACTION"
    BY DEF CheckpointBegin
  <2> QED
    BY <2>2, <2>3, ModeFacts
<1>5. ASSUME NEW t \in Threads PROVE ~(Cardinality(flush_blocks'[t]) >= kMaxFlushBlocks)
  <2>1. Cardinality({}) = 0 /\ kMaxFlushBlocks \in Nat \ {0}
    BY FS_EmptySet, EngineAssumption
  <2>2. Cardinality(flush_blocks'[t]) = 0
    BY <1>4, <2>1
  <2> QED
    BY <2>1, <2>2
<1>6. Listed' = {}
  BY <1>4 DEF Listed
<1>7. \A b \in block_dirty' : b[1] \notin segment_dirty
  BY <1>3, <1>5, <1>6 DEF ListInv
<1>8. Touched = {}
  BY <1>0, <1>3, <1>7 DEF Touched, BitInv
<1> QED
  BY <1>0, <1>8 DEF MainInv

-----------------------------------------------------------------------------
(* The theorems of crash consistency.                                      *)

\* In every state of the run that stores, with any number of threads, the
\* cleaner and every step of a checkpoint between them, and in every state of
\* the recoveries after it, the image recovery would restore is the last
\* checkpoint: copy-on-write precedes the store, flushing precedes the commit,
\* the commit precedes the write-back and the write-back its own commit.
THEOREM CrashConsistent ==
  ASSUME Intact
  PROVE  Spec => []RecoverySafe
<1>1. IndInv /\ SafeInv => RecoverySafe
  BY SafeRecovery
<1> QED
  BY <1>1, SafeInvHolds, PTL

\* The program reads its own stores, and after a restart the checkpoint.
THEOREM MemoryCorrect ==
  ASSUME Intact
  PROVE  Spec => []MemoryIsProgram
<1>1. IndInv /\ SafeInv => MemoryIsProgram
  BY SafeMemory
<1> QED
  BY <1>1, SafeInvHolds, PTL

\* A checkpoint that returns to its callers has made durable all they stored,
\* whichever way it flushed, and has nothing to do only if nothing was stored.
THEOREM DurableWhenReturned ==
  ASSUME Intact
  PROVE  Spec => CheckpointDurable
<1> DEFINE A == (\E t \in Threads : pc[t] = "ckpt" /\ pc'[t] = "app" /\ Up /\ phase' = "run")
                  => snap' = app
<1>1. IndInv /\ SafeInv /\ [Next]_vars => A
  <2> SUFFICES ASSUME IndInv, SafeInv, [Next]_vars, NEW t \in Threads,
                      pc[t] = "ckpt", pc'[t] = "app", Up, phase' = "run"
               PROVE  snap' = app
    OBVIOUS
  <2>0. TypeOK
    BY DEF IndInv
  <2>1. CheckpointBegin \/ CheckpointFinish
    BY <2>0, CheckpointReturns
  <2>2. snap' = snap
    BY <2>1 DEF CheckpointBegin, CheckpointFinish, historyVars
  <2>3. \A b \in Blocks : app[b] = snap[b]
    <3>1. CASE runs # 1
      BY <3>1 DEF SafeInv, LaterInv, RecoveryInv
    <3>2. CASE runs = 1 /\ CheckpointBegin
      <4>1. FirstInv
        BY <3>2 DEF SafeInv
      <4>2. flush_mode' = "NO_ACTION"
        BY <3>2 DEF CheckpointBegin
      <4> QED
        BY <3>2, <4>1, <4>2, NothingStored
    <3>3. CASE runs = 1 /\ CheckpointFinish
      <4>1. MainInv /\ phase = "finish"
        BY <3>3 DEF SafeInv, FirstInv, CheckpointFinish
      <4> QED
        BY <4>1 DEF MainInv, Early
    <3> QED
      BY <2>1, <3>1, <3>2, <3>3
  <2>4. app \in [Blocks -> Contents] /\ snap \in [Blocks -> Contents]
    BY <2>0 DEF TypeOK
  <2> QED
    BY <2>2, <2>3, <2>4
<1>2. CheckpointDurable <=> [][A]_vars
  BY DEF CheckpointDurable
<1> HIDE DEF A
<1> QED
  BY <1>1, <1>2, SafeInvHolds, PTL DEF Spec

-----------------------------------------------------------------------------
(* The engine implements the abstract snapshot.                            *)

\* The refinement mapping: the recoverable image is the checkpoint,
LEMMA DurableIsSnap ==
  ASSUME Intact, IndInv, SafeInv
  PROVE  Durable = snap
<1>0. TypeOK /\ RecoverySafe
  BY SafeRecovery DEF IndInv
<1>1. snap \in [Blocks -> Contents]
  BY <1>0 DEF TypeOK
<1>2. ASSUME NEW b \in Blocks PROVE Durable[b] = snap[b]
  <2>1. CASE snap[b] = Junk
    BY <2>1 DEF Durable
  <2>2. CASE snap[b] # Junk
    <3>1. PICK S : S = segment_state_pm[Active][b[1]]
      OBVIOUS
    <3>2. S # {}
      <4>1. b[1] \in Segments /\ Active \in 0 .. 1
        BY <1>0, Shapes
      <4> QED
        BY <1>0, <3>1, <4>1 DEF TypeOK, ImageTypeOK
    <3>3. \A state \in S : Recoverable(b, state) = {snap[b]}
      BY <1>0, <2>2, <3>1 DEF RecoverySafe
    <3>4. PICK found : found = UNION {Recoverable(b, state) : state \in S}
      OBVIOUS
    <3>5. found = {snap[b]}
      BY <3>2, <3>3, <3>4
    <3>6. snap[b] \in Contents
      BY <1>1
    <3>7. Durable[b] = IF \E v \in Contents : found = {v}
                       THEN CHOOSE v \in Contents : found = {v} ELSE "torn"
      BY <2>2, <3>1, <3>4 DEF Durable
    <3> QED
      BY <3>5, <3>6, <3>7
  <2> QED
    BY <2>1, <2>2
<1> QED
  BY <1>1, <1>2 DEF Durable

\* and what loads return is what the program stored.
LEMMA LoadsIsApp ==
  ASSUME Intact, IndInv, SafeInv
  PROVE  Loads = app
<1>0. TypeOK /\ MemoryIsProgram /\ Durable = snap
  BY SafeMemory, DurableIsSnap DEF IndInv
<1>1. app \in [Blocks -> Contents]
  BY <1>0 DEF TypeOK
<1>2. ASSUME NEW b \in Blocks PROVE Loads[b] = app[b]
  <2>1. CASE app[b] = Junk
    BY <2>1 DEF Loads
  <2>2. CASE app[b] # Junk /\ phase \in {"open", "recover"}
    <3>1. app = snap
      BY <2>2 DEF SafeInv, FirstInv, StageInv, LaterInv, RecoveryInv
    <3> QED
      BY <1>0, <2>2, <3>1 DEF Loads
  <2>3. CASE app[b] # Junk /\ phase \notin {"open", "recover"}
    BY <1>0, <2>3 DEF Loads, MemoryIsProgram
  <2> QED
    BY <2>1, <2>2, <2>3
<1> QED
  BY <1>1, <1>2 DEF Loads

\* The process is up in the first run, and afterwards when the program runs.
LEMMA UpFacts ==
  ASSUME SafeInv
  PROVE  /\ runs = 1 => Up
         /\ runs # 1 => (Up <=> phase = "run") /\ \A t \in Threads : pc[t] \in {"app", "ckpt"}
         /\ phase \in {"run", "states", "writeback_fence"} => Up
BY DEF SafeInv, FirstInv, StageInv, LaterInv, IdleInv

\* Every step of the engine is a step of the snapshot, or leaves it alone.
LEMMA SnapshotStep ==
  ASSUME Intact, IndInv, SafeInv, [Next]_vars
  PROVE  \/ /\ Up
            /\ \E R \in SUBSET Blocks, v \in Values :
                  app' = [b \in Blocks |-> IF b \in R THEN v ELSE app[b]]
            /\ UNCHANGED <<Up, snap>>
         \/ Up /\ snap' = app /\ UNCHANGED <<Up, app>>
         \/ ~Up' /\ app' = snap /\ UNCHANGED snap
         \/ ~Up /\ Up' /\ UNCHANGED <<app, snap>>
         \/ UNCHANGED <<Up, app, snap>>
<1> USE DEF ckptVars, historyVars
<1>0. TypeOK
  BY DEF IndInv
<1>1. /\ runs = 1 => Up
      /\ runs # 1 => \A t \in Threads : pc[t] \in {"app", "ckpt"}
      /\ phase \in {"run", "states", "writeback_fence"} => Up
  BY UpFacts
<1> DEFINE Stutter == UNCHANGED <<Up, app, snap>>
<1>2. ASSUME UNCHANGED <<committing, app, snap>> PROVE Stutter
  BY <1>2 DEF Up
<1>3. CASE UNCHANGED vars
  BY <1>2, <1>3 DEF vars
<1>4. ASSUME NEW t \in Threads, FinishStore(t)
      PROVE  /\ Up
             /\ \E R \in SUBSET Blocks, v \in Values :
                  app' = [b \in Blocks |-> IF b \in R THEN v ELSE app[b]]
             /\ UNCHANGED <<Up, snap>>
  <2>1. Up
    BY <1>1, <1>4 DEF FinishStore
  <2>2. range[t] \in SUBSET Blocks
    BY <1>0 DEF TypeOK
  <2>3. PICK v \in Values : app' = [b \in Blocks |-> IF b \in range[t] THEN v ELSE app[b]]
    BY <1>4 DEF FinishStore
  <2>4. snap' = snap /\ committing' = committing
    BY <1>4 DEF FinishStore
  <2> QED
    BY <2>1, <2>2, <2>3, <2>4 DEF Up
<1>5. ASSUME NEW t \in Threads, BeginStore(t) \/ CopyOnWriteHook(t) PROVE Stutter
  BY <1>2, <1>5 DEF BeginStore, CopyOnWriteHook
<1>6. ASSUME NEW w \in Workers, LazyWriteBack(w) PROVE Stutter
  BY <1>2, <1>6 DEF LazyWriteBack, LazyNothingToDo, LazyLock, LazyCopy, LazyFence, LazyDone
<1>7. ASSUME Die PROVE ~Up' /\ app' = snap /\ UNCHANGED snap
  BY <1>7 DEF Die, Up
<1>8. ASSUME NEW t \in Threads, LazyAllocate(t) PROVE Stutter
  BY <1>2, <1>8 DEF LazyAllocate
<1>9. ASSUME NEW t \in Threads, CheckpointEnter(t) PROVE Stutter
  BY <1>2, <1>9 DEF CheckpointEnter
<1>10. ASSUME CheckpointBegin PROVE Stutter
  <2>1. Up /\ (committing' = committing \/ committing' = "Main") /\ UNCHANGED <<app, snap>>
    BY <1>1, <1>10 DEF CheckpointBegin
  <2> QED
    BY <2>1 DEF Up
<1>11. ASSUME CheckpointLock \/ FlushParallel \/ CommitLayoutState PROVE Stutter
  BY <1>2, <1>11 DEF CheckpointLock, FlushParallel, CommitLayoutState
<1>12. ASSUME CommitLayoutEpoch
       PROVE  (Up /\ snap' = app /\ UNCHANGED <<Up, app>>) \/ Stutter
  BY <1>2, <1>12 DEF CommitLayoutEpoch, Up
<1>13. ASSUME SyncLayoutStates \/ WriteBackParallel PROVE Stutter
  BY <1>2, <1>13 DEF SyncLayoutStates, WriteBackParallel
<1>14. ASSUME WriteBackFence PROVE Stutter
  BY <1>1, <1>14 DEF WriteBackFence, Up
<1>15. ASSUME CheckpointFinish PROVE Stutter
  BY <1>15 DEF CheckpointFinish, Up
<1>16. ASSUME CleanerStep PROVE Stutter
  BY <1>2, <1>16 DEF CleanerStep, CleanerAcquire, CleanerLoop
<1>17. ASSUME OpenImage \/ RecoveryCopy \/ RecoveryCommit PROVE Stutter
  BY <1>2, <1>17 DEF OpenImage, RecoveryCopy, RecoveryCommit
<1>18. ASSUME OpenDone PROVE ~Up /\ Up' /\ UNCHANGED <<app, snap>>
  BY <1>18 DEF OpenDone, Up
<1> HIDE DEF Stutter
<1>19. CASE Hooks
  <2>1. PICK t \in Threads : BeginStore(t) \/ CopyOnWriteHook(t) \/ FinishStore(t)
    BY <1>19 DEF Hooks
  <2>2. CASE FinishStore(t)
    BY <1>4, <2>2
  <2>3. CASE BeginStore(t) \/ CopyOnWriteHook(t)
    BY <1>5, <2>3 DEF Stutter
  <2> QED
    BY <2>1, <2>2, <2>3
<1>20. CASE Stealing
  <2>1. PICK t \in Threads : LazyAllocate(t) \/ AllocateFail(t)
    BY <1>20 DEF Stealing
  <2> QED
    BY <1>7, <1>8, <2>1 DEF AllocateFail, Stutter
<1>21. CASE Checkpoint
  <2>1. CASE CommitLayoutEpoch
    BY <1>12, <2>1 DEF Stutter
  <2>2. CASE ~CommitLayoutEpoch
    <3>1. Stutter
      BY <1>9, <1>10, <1>11, <1>13, <1>14, <1>15, <1>21, <2>2 DEF Checkpoint
    <3> QED
      BY <3>1 DEF Stutter
  <2> QED
    BY <2>1, <2>2
<1>22. CASE CleanerStep \/ \E w \in Workers : LazyWriteBack(w)
  BY <1>6, <1>16, <1>22 DEF Stutter
<1>23. CASE Crash
  BY <1>7, <1>23 DEF Crash
<1>24. CASE Recovery
  <2>1. CASE OpenDone
    BY <1>18, <2>1
  <2>2. CASE ~OpenDone
    BY <1>17, <1>24, <2>2 DEF Recovery, Stutter
  <2> QED
    BY <2>1, <2>2
<1> QED
  BY <1>3, <1>19, <1>20, <1>21, <1>22, <1>23, <1>24 DEF Next

\* The engine implements the snapshot: the recoverable image changes at the
\* commit of a checkpoint only, then in all blocks at once to what the program
\* had stored, and each restart returns it.
THEOREM SnapshotImplemented ==
  ASSUME Intact
  PROVE  Spec => ImplementsSnapshot
<1> DEFINE Mapped == Durable = snap /\ Loads = app
<1>1. IndInv /\ SafeInv => Mapped
  BY DurableIsSnap, LoadsIsApp
<1>2. Init /\ Mapped => Abstract!SInit
  <2> SUFFICES ASSUME Init, Mapped PROVE Abstract!SInit
    OBVIOUS
  <2>1. Up = TRUE /\ app = [b \in Blocks |-> Junk] /\ snap = [b \in Blocks |-> Junk]
    BY DEF Init, Up
  <2> QED
    BY <2>1 DEF Abstract!SInit
<1>3. IndInv /\ SafeInv /\ Mapped /\ Mapped' /\ [Next]_vars => [Abstract!SNext]_(Abstract!svars)
  <2> SUFFICES ASSUME IndInv, SafeInv, Mapped, Mapped', [Next]_vars
               PROVE  [Abstract!SNext]_(Abstract!svars)
    OBVIOUS
  <2>1. Durable = snap /\ Loads = app /\ Durable' = snap' /\ Loads' = app'
    OBVIOUS
  <2>2. \/ /\ Up
           /\ \E R \in SUBSET Blocks, v \in Values :
                app' = [b \in Blocks |-> IF b \in R THEN v ELSE app[b]]
           /\ UNCHANGED <<Up, snap>>
        \/ Up /\ snap' = app /\ UNCHANGED <<Up, app>>
        \/ ~Up' /\ app' = snap /\ UNCHANGED snap
        \/ ~Up /\ Up' /\ UNCHANGED <<app, snap>>
        \/ UNCHANGED <<Up, app, snap>>
    BY SnapshotStep
  <2> QED
    BY <2>1, <2>2 DEF Abstract!SNext, Abstract!SStore, Abstract!SCommit, Abstract!SCrash,
                      Abstract!SOpen, Abstract!svars
<1> HIDE DEF Mapped
<1> QED
  BY <1>1, <1>2, <1>3, SafeInvHolds, PTL DEF Spec, ImplementsSnapshot, Abstract!SSpec
=============================================================================
