------------------------ MODULE HybridInstEngine_proofs ------------------------
(***************************************************************************)
(* Proofs about HybridInstEngine: type correctness, crash consistency      *)
(* until one of the named events (SafeUnlessBroken), the agreement of the  *)
(* two sides of the image between checkpoints (SidesDifferWherePending),   *)
(* and what a returning checkpoint and a restart promise                   *)
(* (CheckpointDurable, RestartsFromSnapshot).                              *)
(***************************************************************************)
EXTENDS HybridInstEngine, FiniteSetTheorems, TLAPS

-----------------------------------------------------------------------------
(* Vocabulary of the invariant.                                            *)

Checkpointing == {"first", "states", "commit", "copy", "second", "finish"}
Recovering    == {"open", "recover", "recover_commit", "recover_copy"}

\* The two sides, and the one whose copy of a clean block may be old.
Sides       == {"Main", "Back"}
Other(side) == IF side = "Main" THEN "Back" ELSE "Main"
Lag         == IF phase = "second" THEN Other(NewSide) ELSE NewSide

\* A side has a place for block b, what loads find there, and what the medium
\* may hold.
HasBack(s)      == main_to_back[s] # Null
Has(side, b)    == side = "Back" => HasBack(b[1])
Copy(side, b)   == IF side = "Main" THEN main[b] ELSE back[BackBlock(b[1], b)]
Medium(side, b) == IF side = "Main" THEN main_pm[b] ELSE back_pm[BackBlock(b[1], b)]

\* Blocks stored to since the last checkpoint, and blocks of the last
\* checkpoint that only one side has.
Touched == block_dirty[epoch] \cup Buffered
Pending == IF NeedsSync THEN block_dirty[1 - epoch] ELSE {}
Dirty   == segment_dirty[0] \cup segment_dirty[1]

\* The lagging side does not have the clean block b yet.
Behind(b) == \/ phase = "run" /\ b \in Pending
             \/ \E t \in Threads : pc[t] = "sync" /\ b \in todo[t]
             \/ \E t \in Threads : pc[t] = "created" /\ target[t] = b[1]

\* A thread still has to copy the dirty block b to the side written to.
Remaining(b) == \E t \in Threads :
                  \/ pc[t] \in {"apply", "alloc", "created"} /\ b \in todo[t]
                  \/ pc[t] = "sync" /\ b \in Share(t, NewSide)

\* The side has the content of block b of the working memory.
Stored(side, b) == Has(side, b) /\ Copy(side, b) = working_memory[b]

-----------------------------------------------------------------------------
(* Control: holds whatever happened to the checkpoint.                     *)

\* Where the threads are in each phase of a checkpoint.
PcInv ==
  \A t \in Threads :
    /\ phase \in Recovering \cup {"run"} => pc[t] = "app"
    /\ phase = "first" => pc[t] # "app"
    /\ phase = "second" => pc[t] \in {"apply", "alloc", "created", "barrier"}
    /\ phase \in {"states", "commit", "copy", "finish"} => pc[t] = "barrier"

\* What a thread has to copy, and the segment it allocates for.
TodoInv ==
  \A t \in Threads :
    /\ pc[t] = "sync" => todo[t] \subseteq block_dirty[1 - epoch] \ block_dirty[epoch]
    /\ back_id[t] # Null => pc[t] = "sync" /\ target[t] \in Segments
    /\ pc[t] \in {"apply", "alloc", "created"} => todo[t] \subseteq block_dirty[epoch]
    /\ pc[t] = "barrier" => todo[t] = {}
    /\ pc[t] \in {"alloc", "created"} => target[t] \in segment_dirty[epoch]
    /\ pc[t] = "created" => HasBack(target[t])

\* The bit sets and the lists agree; what a list has no room for makes the
\* checkpoint a whole-cache one.
ListInv ==
  /\ \A e \in 0 .. 1 : \A b \in block_dirty[e] : b[1] \in segment_dirty[e]
  /\ \A t \in Threads : flush_blocks[t] \subseteq block_dirty[epoch]
  /\ \/ \A b \in block_dirty[epoch] : \E t \in Threads : b \in flush_blocks[t]
     \/ \E t \in Threads : Cardinality(flush_blocks[t]) >= kMaxFlushBlocks

ModeInv == phase \in Checkpointing => Buffered = {} /\ flush_mode = Mode(flush_blocks)

\* A process that recovers has an empty DRAM.
EmptyInv ==
  phase \in Recovering =>
    /\ \A e \in 0 .. 1 : block_dirty[e] = {} /\ segment_dirty[e] = {}
    /\ Buffered = {}
    /\ epoch = 1

\* main_to_back never names a back segment of another segment.
OwnerInv ==
  \A s \in Segments : HasBack(s) => back_to_main[main_to_back[s]] = s

ControlInv == PcInv /\ TodoInv /\ ListInv /\ ModeInv /\ EmptyInv /\ OwnerInv

-----------------------------------------------------------------------------
(* Data: holds until the checkpoint is lost.                               *)

\* The binding is one to one, and known in DRAM once the image is open; the
\* segment a thread has bound did not hold the checkpoint in a back segment.
BindInv ==
  /\ \A c, d \in BackSegments : back_to_main[c] = back_to_main[d] => c = d
  /\ phase # "open" => \A c \in BackSegments : main_to_back[back_to_main[c]] = c
  /\ \A t \in Threads :
       pc[t] = "created" => Side = "Back" /\ StateOf(target[t]) # "Back"

\* The slot that counts is on the medium, and so is the other one when it is
\* about to count, but for the lines the commit is going to flush.
SlotInv ==
  /\ \A s \in Segments : segment_state_pm[Active][s] = {StateOf(s)}
  /\ phase \in {"states", "commit", "open", "recover", "recover_commit"} =>
       \A s \in Segments : LineOf(s) \notin segment_state_dirty =>
         segment_state_pm[Inactive][s] = {segment_state[Inactive][s]}
  /\ phase \notin {"commit", "copy", "recover_commit", "recover_copy"} =>
       segment_state_dirty = {}

\* What the states say: the two slots agree on which segments have a
\* checkpoint, and a segment of the last checkpoint has the side it wrote.
StateInv ==
  /\ phase \notin {"open", "recover", "recover_commit"} =>
       \A s \in Segments : LineOf(s) \notin segment_state_dirty =>
         (StateOf(s) = "Initial" <=> segment_state[Inactive][s] = "Initial")
  /\ phase = "commit" => \A s \in Segments :
       /\ StateOf(s) # "Initial" => segment_state[Inactive][s] # "Initial"
       /\ s \in Dirty => segment_state[Inactive][s] = NewSide
  /\ phase \in {"run", "first", "states", "commit"} =>
       \A s \in segment_dirty[1 - epoch] : StateOf(s) = Other(NewSide)
  /\ phase \in {"copy", "second", "finish"} => \A s \in Dirty : StateOf(s) = NewSide

\* The medium may hold what loads find, and the side that is not written to is
\* there for certain.
MediumInv ==
  /\ \A b \in Blocks : main[b] \in main_pm[b]
  /\ \A d \in BackBlocks : back[d] \in back_pm[d]
  /\ phase # "recover_commit" /\ ~(phase \in {"first", "second"} /\ Side = "Main") =>
       main_pm = Settled(main)
  /\ phase # "recover_commit" /\ ~(phase \in {"first", "second"} /\ Side = "Back") =>
       back_pm = Settled(back)

\* The last checkpoint is on the medium, on the side the state names.  Before
\* the image is opened only back_to_main says which back segment that is.
Where(b) == IF HasBack(b[1]) THEN StateOf(b[1]) ELSE "Main"

SnapInv ==
  \A b \in Blocks : snap[b] # Junk =>
    /\ StateOf(b[1]) # "Initial"
    /\ phase # "open" => \A side \in Sides : side = Where(b) => Medium(side, b) = {snap[b]}
    /\ phase = "open" =>
         /\ \A c \in BackSegments : (StateOf(b[1]) = "Back" /\ back_to_main[c] = b[1])
              => back_pm[<<c, b[2]>>] = {snap[b]}
         /\ (StateOf(b[1]) = "Main" \/ \A c \in BackSegments : back_to_main[c] # b[1])
              => main_pm[b] = {snap[b]}

\* A block that was not stored to is in the image as it is in memory: on both
\* sides, or on the one that does not lag behind.
CleanInv ==
  phase \notin Recovering =>
    \A b \in Blocks \ Touched :
      /\ snap[b] # Junk => working_memory[b] = snap[b]
      /\ working_memory[b] # Junk =>
           /\ StateOf(b[1]) # "Initial"
           /\ \A side \in Sides : Has(side, b) =>
                \/ Copy(side, b) = working_memory[b]
                \/ HasBack(b[1]) /\ side = Lag /\ Behind(b)

\* A block that was stored to is copied to one side and then to the other.
DirtyInv ==
  /\ \A side \in Sides, b \in block_dirty[epoch] :
       /\ phase \in {"first", "second"} /\ side = Side => Remaining(b) \/ Stored(side, b)
       /\ phase \in Checkpointing \ {"first"} /\ side = NewSide => Stored(side, b)
       /\ phase = "finish" /\ ~OneSided /\ Has(side, b) => Stored(side, b)
  /\ phase \in {"copy", "second", "finish"} => snap = working_memory

\* Between checkpoints the sides agree on the checkpoint; recovery makes them
\* agree, and main has it.
SidesInv ==
  /\ phase = "run" => \A b \in Blocks :
       (HasBack(b[1]) /\ snap[b] # Junk /\ b \notin Pending) =>
         main[b] = back[BackBlock(b[1], b)]
  /\ phase \in {"recover_commit", "recover_copy"} => \A b \in Blocks :
       /\ HasBack(b[1]) /\ StateOf(b[1]) # "Initial" => main[b] = back[BackBlock(b[1], b)]
       /\ snap[b] # Junk => main[b] = snap[b]

DataInv == /\ BindInv /\ SlotInv /\ StateInv /\ MediumInv
           /\ SnapInv /\ CleanInv /\ DirtyInv /\ SidesInv

\* The inductive invariant.
IndInv == TypeOK /\ ControlInv /\ (broken = {} => DataInv)

-----------------------------------------------------------------------------
(* Operators.                                                              *)

\* Types of what the primitives of PersistentMemory return.
LEMMA WriteType ==
  ASSUME NEW D, NEW S, NEW mem \in [D -> S], NEW X, NEW val, \A x \in X \cap D : val[x] \in S
  PROVE  Write(mem, X, val) \in [D -> S]
BY DEF Write

LEMMA PutType ==
  ASSUME NEW D, NEW S, NEW pm \in [D -> (SUBSET S) \ {{}}], NEW X, NEW val,
         \A x \in X \cap D : val[x] \in S
  PROVE  Put(pm, X, val) \in [D -> (SUBSET S) \ {{}}]
BY DEF Put

LEMMA SettleType ==
  ASSUME NEW D, NEW S, NEW pm \in [D -> (SUBSET S) \ {{}}], NEW X, NEW val,
         \A x \in X \cap D : val[x] \in S
  PROVE  Settle(pm, X, val) \in [D -> (SUBSET S) \ {{}}]
BY DEF Settle

LEMMA SettledType ==
  ASSUME NEW D, NEW S, NEW mem \in [D -> S]
  PROVE  Settled(mem) \in [D -> (SUBSET S) \ {{}}]
BY DEF Settled

\* Segments, blocks and threads.
LEMMA Shapes ==
  /\ BackSegments \subseteq Segments /\ Segments \subseteq Nat
  /\ Null \notin BackSegments /\ Null \notin Segments
  /\ 0 \in BackSegments /\ 0 \in Segments /\ 0 \in Threads
  /\ \A b \in Blocks : b = <<b[1], b[2]>> /\ b[1] \in Segments /\ b[2] \in Offsets
  /\ \A s \in Segments, o \in Offsets : <<s, o>> \in Blocks
  /\ \A d \in BackBlocks : d = <<d[1], d[2]>> /\ d[1] \in BackSegments /\ d[2] \in Offsets
  /\ \A c \in BackSegments, o \in Offsets : <<c, o>> \in BackBlocks
<1>1. BackSegments \subseteq Segments /\ Segments \subseteq Nat
  BY ImageAssumption, SMT DEF BackSegments, Segments
<1>2. Null \notin BackSegments /\ Null \notin Segments
  <2>1. Null \notin Nat
    BY ImageAssumption
  <2> QED
    BY <1>1, <2>1
<1>3. 0 \in BackSegments /\ 0 \in Segments /\ 0 \in Threads
  BY <1>1, ImageAssumption, HybridAssumption, SMT DEF BackSegments, Threads
<1>4. \A b \in Blocks : b = <<b[1], b[2]>> /\ b[1] \in Segments /\ b[2] \in Offsets
  BY SMT DEF Blocks
<1>5. \A s \in Segments, o \in Offsets : <<s, o>> \in Blocks
  BY SMT DEF Blocks
<1>6. \A d \in BackBlocks : d = <<d[1], d[2]>> /\ d[1] \in BackSegments /\ d[2] \in Offsets
  BY SMT DEF BackBlocks
<1>7. \A c \in BackSegments, o \in Offsets : <<c, o>> \in BackBlocks
  BY SMT DEF BackBlocks
<1> QED
  BY <1>1, <1>2, <1>3, <1>4, <1>5, <1>6, <1>7

LEMMA BlocksOfShape ==
  ASSUME NEW s \in Segments
  PROVE  BlocksOf(s) \subseteq Blocks /\ \A b \in Blocks : b \in BlocksOf(s) <=> b[1] = s
BY Shapes, SMT DEF BlocksOf, Blocks

\* Every block belongs to the share of a thread.
LEMMA Shared ==
  \A b \in Blocks : \E t \in Threads : b \in SegmentShare(t)
<1> SUFFICES ASSUME NEW b \in Blocks
             PROVE  \E t \in Threads : b \in SegmentShare(t)
  OBVIOUS
<1>1. b[1] \in Nat
  BY Shapes
<1>2. b[1] % nr_threads \in Threads
  BY <1>1, HybridAssumption, SMT DEF Threads
<1> QED
  BY <1>2 DEF SegmentShare

LEMMA FiniteBlocks == IsFiniteSet(Blocks) /\ IsFiniteSet(Threads \X Blocks)
<1>1. IsFiniteSet(Segments) /\ IsFiniteSet(Offsets) /\ IsFiniteSet(Threads)
  <2>1. 0 \in Int /\ nr_main_segments - 1 \in Int /\ kBlocksPerSegment - 1 \in Int
        /\ nr_threads - 1 \in Int
    BY ImageAssumption, HybridAssumption
  <2> QED
    BY <2>1, FS_Interval DEF Segments, Offsets, Threads
<1>2. IsFiniteSet(Blocks)
  BY <1>1, FS_Product DEF Blocks
<1> QED
  BY <1>1, <1>2, FS_Product

\* The back segment of a segment.
LEMMA BackBlockFacts ==
  ASSUME TypeOK, OwnerInv
  PROVE  /\ \A b \in Blocks : HasBack(b[1]) => BackBlock(b[1], b) \in BackBlocks
         /\ \A b, d \in Blocks : (HasBack(b[1]) /\ HasBack(d[1])
              /\ BackBlock(b[1], b) = BackBlock(d[1], d)) => b = d
         /\ \A b \in Blocks : HasBack(b[1]) => FromWork[BackBlock(b[1], b)] = working_memory[b]
<1>1. \A s \in Segments : HasBack(s) => main_to_back[s] \in BackSegments
                                        /\ back_to_main[main_to_back[s]] = s
  BY DEF TypeOK, ImageTypeOK, OwnerInv, HasBack
<1>2. \A b \in Blocks : HasBack(b[1]) => BackBlock(b[1], b) \in BackBlocks
  BY <1>1, Shapes DEF BackBlock
<1>3. \A b, d \in Blocks : (HasBack(b[1]) /\ HasBack(d[1])
        /\ BackBlock(b[1], b) = BackBlock(d[1], d)) => b = d
  <2> SUFFICES ASSUME NEW b \in Blocks, NEW d \in Blocks, HasBack(b[1]), HasBack(d[1]),
                      BackBlock(b[1], b) = BackBlock(d[1], d)
               PROVE  b = d
    OBVIOUS
  <2>1. main_to_back[b[1]] = main_to_back[d[1]] /\ b[2] = d[2]
    BY DEF BackBlock
  <2>2. b[1] = d[1]
    BY <2>1, <1>1, Shapes
  <2> QED
    BY <2>1, <2>2, Shapes
<1>4. \A b \in Blocks : HasBack(b[1]) => FromWork[BackBlock(b[1], b)] = working_memory[b]
  <2> SUFFICES ASSUME NEW b \in Blocks, HasBack(b[1])
               PROVE  FromWork[BackBlock(b[1], b)] = working_memory[b]
    OBVIOUS
  <2>1. BackBlock(b[1], b)[1] = main_to_back[b[1]] /\ BackBlock(b[1], b)[2] = b[2]
    BY DEF BackBlock
  <2>2. FromWork[BackBlock(b[1], b)]
          = working_memory[<<back_to_main[main_to_back[b[1]]], b[2]>>]
    BY <2>1, <1>2 DEF FromWork
  <2>3. <<back_to_main[main_to_back[b[1]]], b[2]>> = b
    BY <1>1, Shapes
  <2> QED
    BY <2>2, <2>3
<1> QED
  BY <1>2, <1>3, <1>4

LEMMA FromWorkType == ASSUME TypeOK PROVE FromWork \in [BackBlocks -> Contents]
<1>1. \A d \in BackBlocks : <<back_to_main[d[1]], d[2]>> \in Blocks
  BY Shapes DEF TypeOK, ImageTypeOK
<1> QED
  BY <1>1 DEF FromWork, TypeOK

\* What the copies of blocks to a side change.
LEMMA CopyOutMain ==
  ASSUME TypeOK, NEW B, CopyOut("Main", B)
  PROVE  /\ main' \in [Blocks -> Contents] /\ main_pm' \in [Blocks -> (SUBSET Contents) \ {{}}]
         /\ back' = back /\ back_pm' = back_pm
         /\ \A b \in Blocks : /\ b \in B => main'[b] = working_memory[b]
                              /\ b \notin B => main'[b] = main[b] /\ main_pm'[b] = main_pm[b]
<1>1. /\ main' = Write(main, B, working_memory)
      /\ main_pm' = Put(main_pm, B, working_memory)
      /\ back' = back /\ back_pm' = back_pm
  BY DEF CopyOut
<1>2. /\ main \in [Blocks -> Contents] /\ main_pm \in [Blocks -> (SUBSET Contents) \ {{}}]
      /\ working_memory \in [Blocks -> Contents]
  BY DEF TypeOK, ImageTypeOK
<1>3. main' \in [Blocks -> Contents] /\ main_pm' \in [Blocks -> (SUBSET Contents) \ {{}}]
  BY <1>1, <1>2, WriteType, PutType
<1>4. \A b \in Blocks : /\ b \in B => main'[b] = working_memory[b]
                        /\ b \notin B => main'[b] = main[b] /\ main_pm'[b] = main_pm[b]
  BY <1>1, <1>2 DEF Write, Put
<1> QED
  BY <1>1, <1>3, <1>4

LEMMA CopyOutBack ==
  ASSUME TypeOK, OwnerInv, NEW B \in SUBSET Blocks, CopyOut("Back", B),
         \A b \in B : HasBack(b[1])
  PROVE  /\ back' \in [BackBlocks -> Contents]
         /\ back_pm' \in [BackBlocks -> (SUBSET Contents) \ {{}}]
         /\ main' = main /\ main_pm' = main_pm
         /\ \A b \in Blocks : HasBack(b[1]) =>
              /\ b \in B => back'[BackBlock(b[1], b)] = working_memory[b]
              /\ b \notin B => /\ back'[BackBlock(b[1], b)] = back[BackBlock(b[1], b)]
                               /\ back_pm'[BackBlock(b[1], b)] = back_pm[BackBlock(b[1], b)]
<1>1. /\ back' = Write(back, BackOf(B), FromWork)
      /\ back_pm' = Put(back_pm, BackOf(B), FromWork)
      /\ main' = main /\ main_pm' = main_pm
  BY DEF CopyOut
<1>2. /\ back \in [BackBlocks -> Contents] /\ back_pm \in [BackBlocks -> (SUBSET Contents) \ {{}}]
      /\ FromWork \in [BackBlocks -> Contents]
  BY FromWorkType DEF TypeOK, ImageTypeOK
<1>3. back' \in [BackBlocks -> Contents] /\ back_pm' \in [BackBlocks -> (SUBSET Contents) \ {{}}]
  BY <1>1, <1>2, WriteType, PutType
<1>4. ASSUME NEW b \in Blocks, HasBack(b[1])
      PROVE  /\ b \in B => back'[BackBlock(b[1], b)] = working_memory[b]
             /\ b \notin B => /\ back'[BackBlock(b[1], b)] = back[BackBlock(b[1], b)]
                              /\ back_pm'[BackBlock(b[1], b)] = back_pm[BackBlock(b[1], b)]
  <2> DEFINE d == BackBlock(b[1], b)
  <2>1. d \in BackBlocks /\ FromWork[d] = working_memory[b]
    BY <1>4, BackBlockFacts
  <2>2. d \in BackOf(B) <=> b \in B
    BY <1>4, BackBlockFacts DEF BackOf
  <2> HIDE DEF d
  <2>3. back'[d] = IF d \in BackOf(B) THEN FromWork[d] ELSE back[d]
    BY <1>1, <1>2, <2>1 DEF Write
  <2>4. d \notin BackOf(B) => back_pm'[d] = back_pm[d]
    BY <1>1, <1>2, <2>1 DEF Put
  <2> QED
    BY <2>1, <2>2, <2>3, <2>4 DEF d
<1> QED
  BY <1>1, <1>3, <1>4

\* ... whatever the blocks are, the types remain.
LEMMA CopyOutType ==
  ASSUME TypeOK, NEW side, NEW B, CopyOut(side, B)
  PROVE  /\ main' \in [Blocks -> Contents] /\ main_pm' \in [Blocks -> (SUBSET Contents) \ {{}}]
         /\ back' \in [BackBlocks -> Contents]
         /\ back_pm' \in [BackBlocks -> (SUBSET Contents) \ {{}}]
<1>1. /\ main \in [Blocks -> Contents] /\ main_pm \in [Blocks -> (SUBSET Contents) \ {{}}]
      /\ back \in [BackBlocks -> Contents] /\ back_pm \in [BackBlocks -> (SUBSET Contents) \ {{}}]
      /\ working_memory \in [Blocks -> Contents] /\ FromWork \in [BackBlocks -> Contents]
  BY FromWorkType DEF TypeOK, ImageTypeOK
<1>2. CASE /\ main' = Write(main, B, working_memory)
           /\ main_pm' = Put(main_pm, B, working_memory)
           /\ back' = back /\ back_pm' = back_pm
  BY <1>1, <1>2, WriteType, PutType
<1>3. CASE /\ back' = Write(back, BackOf(B), FromWork)
           /\ back_pm' = Put(back_pm, BackOf(B), FromWork)
           /\ main' = main /\ main_pm' = main_pm
  BY <1>1, <1>3, WriteType, PutType
<1> QED
  BY <1>2, <1>3 DEF CopyOut

-----------------------------------------------------------------------------
(* Types.                                                                  *)

Pcs    == {"app", "sync", "apply", "alloc", "created", "barrier"}
Phases == {"run", "first", "states", "commit", "copy", "second", "finish",
           "open", "recover", "recover_commit", "recover_copy"}

\* TypeOK in parts.
StateTypes == /\ committed_epoch \in 0 .. 1
              /\ segment_state \in [0 .. 1 -> [Segments -> States]]
              /\ segment_state_pm \in [0 .. 1 -> [Segments -> (SUBSET States) \ {{}}]]
              /\ segment_state_dirty \subseteq Lines
BindTypes  == /\ back_to_main \in [BackSegments -> Segments]
              /\ main_to_back \in [Segments -> BackSegments \cup {Null}]
              /\ next_back_segment \in BackSegments
DataTypes  == /\ main \in [Blocks -> Contents] /\ main_pm \in [Blocks -> (SUBSET Contents) \ {{}}]
              /\ back \in [BackBlocks -> Contents]
              /\ back_pm \in [BackBlocks -> (SUBSET Contents) \ {{}}]
HookTypes  == /\ address_buffer \in [Threads -> SUBSET Blocks]
              /\ flush_blocks \in [Threads -> SUBSET Blocks]
              /\ block_dirty \in [0 .. 1 -> SUBSET Blocks]
              /\ segment_dirty \in [0 .. 1 -> SUBSET Segments]
ModeTypes  == epoch \in 0 .. 1 /\ flush_mode \in Modes /\ mpi \in BOOLEAN
PcTypes    == /\ pc \in [Threads -> Pcs] /\ phase \in Phases
              /\ todo \in [Threads -> SUBSET Blocks]
              /\ target \in [Threads -> Segments \cup {Null}]
              /\ back_id \in [Threads -> BackSegments \cup {Null}]
MemTypes   == /\ working_memory \in [Blocks -> Contents] /\ snap \in [Blocks -> Contents]
BreakTypes == broken \subseteq {"idle", "stale", "steal", "overwrite", "slot"}

LEMMA TypeParts ==
  /\ TypeOK <=> /\ StateTypes /\ BindTypes /\ DataTypes /\ HookTypes /\ ModeTypes
                /\ PcTypes /\ MemTypes /\ BreakTypes /\ attributes \in BOOLEAN
  /\ TypeOK' <=> /\ StateTypes' /\ BindTypes' /\ DataTypes' /\ HookTypes' /\ ModeTypes'
                 /\ PcTypes' /\ MemTypes' /\ BreakTypes' /\ attributes' \in BOOLEAN
BY Zenon DEF TypeOK, ImageTypeOK, StateTypes, BindTypes, DataTypes, HookTypes, ModeTypes, PcTypes,
       MemTypes, BreakTypes, Pcs, Phases

LEMMA StateFrame == ASSUME StateTypes, UNCHANGED stateVars PROVE StateTypes'
BY DEF StateTypes, stateVars
LEMMA BindFrame == ASSUME BindTypes, UNCHANGED bindVars PROVE BindTypes'
BY DEF BindTypes, bindVars
LEMMA DataFrame == ASSUME DataTypes, UNCHANGED dataVars PROVE DataTypes'
BY DEF DataTypes, dataVars
LEMMA HookFrame ==
  ASSUME HookTypes, UNCHANGED <<address_buffer, flush_blocks, block_dirty, segment_dirty>>
  PROVE HookTypes'
BY DEF HookTypes
LEMMA ModeFrame == ASSUME ModeTypes, UNCHANGED modeVars PROVE ModeTypes'
BY DEF ModeTypes, modeVars
LEMMA MemFrame == ASSUME MemTypes, UNCHANGED <<working_memory, snap>> PROVE MemTypes'
BY DEF MemTypes

\* The slots of states.
LEMMA Slots ==
  ASSUME TypeOK
  PROVE  /\ Active \in 0 .. 1 /\ Inactive \in 0 .. 1 /\ Active # Inactive
         /\ \A e \in 0 .. 1 : e = Active \/ e = Inactive
         /\ \A s \in Segments : StateOf(s) \in States /\ segment_state[Inactive][s] \in States
         /\ epoch \in 0 .. 1 /\ 1 - epoch \in 0 .. 1 /\ 1 - epoch # epoch
         /\ \A e \in 0 .. 1 : e = epoch \/ e = 1 - epoch
BY SMT DEF TypeOK, ImageTypeOK, Active, Inactive, StateOf

LEMMA SetStateType ==
  ASSUME TypeOK, NEW S \in SUBSET Segments, NEW state \in States,
         set_segment_state(S, state), committed_epoch' = committed_epoch
  PROVE  StateTypes'
<1> DEFINE new == [s \in Segments |-> IF s \in S THEN state ELSE segment_state[Inactive][s]]
           pm == Put(segment_state_pm[Inactive], S, new)
<1>1. /\ segment_state' = [segment_state EXCEPT ![Inactive] = new]
      /\ segment_state_pm' = [segment_state_pm EXCEPT ![Inactive] = pm]
      /\ segment_state_dirty' = segment_state_dirty \cup
          {LineOf(s) : s \in {r \in S : segment_state[Inactive][r] # state}}
  BY DEF set_segment_state
<1>2. new \in [Segments -> States]
  BY Slots
<1>3. segment_state_pm[Inactive] \in [Segments -> (SUBSET States) \ {{}}]
  BY Slots DEF TypeOK, ImageTypeOK
<1>4. pm \in [Segments -> (SUBSET States) \ {{}}]
  <2>1. \A x \in S \cap Segments : new[x] \in States
    BY <1>2
  <2> HIDE DEF new
  <2> QED
    BY <1>3, <2>1, PutType
<1> HIDE DEF new, pm
<1>5. /\ segment_state' \in [0 .. 1 -> [Segments -> States]]
      /\ segment_state_pm' \in [0 .. 1 -> [Segments -> (SUBSET States) \ {{}}]]
  BY <1>1, <1>2, <1>4 DEF TypeOK, ImageTypeOK
<1>6. segment_state_dirty' \subseteq Lines
  BY <1>1 DEF TypeOK, ImageTypeOK, Lines
<1> QED
  BY <1>5, <1>6 DEF StateTypes, TypeOK, ImageTypeOK

LEMMA CommitEpochType == ASSUME TypeOK, CommitEpoch PROVE StateTypes'
<1> DEFINE pm == Settle(segment_state_pm[Inactive], SegmentsOfLines(segment_state_dirty),
                        segment_state[Inactive])
<1>1. /\ segment_state_pm' = [segment_state_pm EXCEPT ![Inactive] = pm]
      /\ committed_epoch' = Inactive
      /\ segment_state' = segment_state /\ segment_state_dirty' = segment_state_dirty
  BY DEF CommitEpoch
<1>2. /\ segment_state_pm[Inactive] \in [Segments -> (SUBSET States) \ {{}}]
      /\ segment_state[Inactive] \in [Segments -> States]
  BY Slots DEF TypeOK, ImageTypeOK
<1>3. pm \in [Segments -> (SUBSET States) \ {{}}]
  BY <1>2, SettleType
<1> HIDE DEF pm
<1> QED
  BY <1>1, <1>3, Slots DEF TypeOK, ImageTypeOK, StateTypes

LEMMA CopyStatesType == ASSUME TypeOK, CopyStates PROVE StateTypes'
<1> DEFINE S == SegmentsOfLines(segment_state_dirty)
           new == [s \in Segments |-> IF s \in S THEN segment_state[Active][s]
                                      ELSE segment_state[Inactive][s]]
           pm == Put(segment_state_pm[Inactive], S, new)
<1>1. /\ segment_state' = [segment_state EXCEPT ![Inactive] = new]
      /\ segment_state_pm' = [segment_state_pm EXCEPT ![Inactive] = pm]
      /\ segment_state_dirty' = {} /\ committed_epoch' = committed_epoch
  BY DEF CopyStates
<1>2. new \in [Segments -> States]
  BY Slots DEF StateOf
<1>3. segment_state_pm[Inactive] \in [Segments -> (SUBSET States) \ {{}}]
  BY Slots DEF TypeOK, ImageTypeOK
<1>4. pm \in [Segments -> (SUBSET States) \ {{}}]
  <2>1. \A x \in S \cap Segments : new[x] \in States
    BY <1>2
  <2> HIDE DEF new, S
  <2> QED
    BY <1>3, <2>1, PutType
<1> HIDE DEF new, pm
<1> QED
  BY <1>1, <1>2, <1>4, Slots DEF TypeOK, ImageTypeOK, StateTypes

LEMMA StatesSettledType ==
  ASSUME TypeOK
  PROVE  StatesSettled \in [0 .. 1 -> [Segments -> (SUBSET States) \ {{}}]]
<1>1. \A e \in 0 .. 1, s \in Segments : segment_state[e][s] \in States
  BY DEF TypeOK, ImageTypeOK
<1> QED
  BY <1>1 DEF StatesSettled

LEMMA FencedType == ASSUME TypeOK, Fenced, main' = main, back' = back PROVE DataTypes'
<1>1. main_pm' = Settled(main) /\ back_pm' = Settled(back)
  BY DEF Fenced
<1>2. main \in [Blocks -> Contents] /\ back \in [BackBlocks -> Contents]
  BY DEF TypeOK, ImageTypeOK
<1> QED
  BY <1>1, <1>2, SettledType DEF DataTypes

\* What the hook of a store does, seen as sets.
LEMMA HookFacts ==
  ASSUME TypeOK, NEW t \in Threads, NEW B \in SUBSET Blocks, hook_routine(t, B)
  PROVE  /\ block_dirty' \in [0 .. 1 -> SUBSET Blocks]
         /\ segment_dirty' \in [0 .. 1 -> SUBSET Segments]
         /\ flush_blocks' \in [Threads -> SUBSET Blocks]
         /\ block_dirty'[epoch] = block_dirty[epoch] \cup B
         /\ block_dirty'[1 - epoch] = block_dirty[1 - epoch]
         /\ segment_dirty'[1 - epoch] = segment_dirty[1 - epoch]
         /\ segment_dirty'[epoch] = segment_dirty[epoch] \cup {b[1] : b \in B \ block_dirty[epoch]}
         /\ \A u \in Threads : u # t => flush_blocks'[u] = flush_blocks[u]
         /\ \E listed \in SUBSET (B \ block_dirty[epoch]) :
              /\ \/ listed = B \ block_dirty[epoch]
                 \/ Cardinality(listed) = kMaxFlushBlocks - Cardinality(flush_blocks[t])
              /\ flush_blocks'[t] = flush_blocks[t] \cup listed
<1> DEFINE fresh == B \ block_dirty[epoch]
<1>1. /\ block_dirty' = [block_dirty EXCEPT ![epoch] = @ \cup fresh]
      /\ segment_dirty' = [segment_dirty EXCEPT ![epoch] = @ \cup {b[1] : b \in fresh}]
  BY DEF hook_routine
<1>2. PICK listed \in SUBSET fresh :
        /\ listed = fresh \/ Cardinality(listed) = kMaxFlushBlocks - Cardinality(flush_blocks[t])
        /\ flush_blocks' = [flush_blocks EXCEPT ![t] = @ \cup listed]
  BY DEF hook_routine
<1>3. fresh \subseteq Blocks /\ {b[1] : b \in fresh} \subseteq Segments /\ listed \subseteq Blocks
  BY Shapes
<1>4. /\ block_dirty \in [0 .. 1 -> SUBSET Blocks] /\ segment_dirty \in [0 .. 1 -> SUBSET Segments]
      /\ flush_blocks \in [Threads -> SUBSET Blocks]
  BY DEF TypeOK
<1>5. block_dirty[epoch] \cup fresh = block_dirty[epoch] \cup B
  OBVIOUS
<1>6. /\ block_dirty' \in [0 .. 1 -> SUBSET Blocks]
      /\ block_dirty'[epoch] = block_dirty[epoch] \cup fresh
      /\ block_dirty'[1 - epoch] = block_dirty[1 - epoch]
  <2> HIDE DEF fresh
  <2> QED
    BY <1>1, <1>3, <1>4, Slots
<1>7. /\ segment_dirty' \in [0 .. 1 -> SUBSET Segments]
      /\ segment_dirty'[epoch] = segment_dirty[epoch] \cup {b[1] : b \in fresh}
      /\ segment_dirty'[1 - epoch] = segment_dirty[1 - epoch]
  <2> DEFINE X == {b[1] : b \in fresh}
  <2>1. X \subseteq Segments /\ segment_dirty' = [segment_dirty EXCEPT ![epoch] = @ \cup X]
    BY <1>1, <1>3
  <2> HIDE DEF X
  <2>2. /\ segment_dirty' \in [0 .. 1 -> SUBSET Segments]
        /\ segment_dirty'[epoch] = segment_dirty[epoch] \cup X
        /\ segment_dirty'[1 - epoch] = segment_dirty[1 - epoch]
    BY <2>1, <1>4, Slots
  <2> QED
    BY <2>2 DEF X
<1>8. /\ flush_blocks' \in [Threads -> SUBSET Blocks]
      /\ flush_blocks'[t] = flush_blocks[t] \cup listed
      /\ \A u \in Threads : u # t => flush_blocks'[u] = flush_blocks[u]
  BY <1>2, <1>3, <1>4
<1> QED
  BY <1>2, <1>5, <1>6, <1>7, <1>8

-----------------------------------------------------------------------------
(* Control.                                                                *)

LEMMA BufferedType == ASSUME TypeOK PROVE Buffered \in SUBSET Blocks
BY DEF TypeOK, Buffered

LEMMA ShareSub ==
  ASSUME ListInv, NEW t \in Threads, NEW side \in {"Main", "Back"}
  PROVE  Share(t, side) \subseteq block_dirty[epoch]
<1>1. \A u \in Threads : flush_blocks[u] \subseteq block_dirty[epoch]
  BY DEF ListInv
<1> QED
  BY <1>1 DEF Share

LEMMA ShareSubNext ==
  ASSUME ListInv', NEW t \in Threads
  PROVE  Share(t, NewSide)' \subseteq block_dirty'[epoch']
<1>1. \A u \in Threads : flush_blocks'[u] \subseteq block_dirty'[epoch']
  BY DEF ListInv
<1> QED
  BY <1>1 DEF Share, NewSide

\* The hook keeps the bit sets and the lists together.
LEMMA HookList ==
  ASSUME TypeOK, ListInv, NEW t \in Threads, NEW B \in SUBSET Blocks, hook_routine(t, B),
         epoch' = epoch
  PROVE  ListInv'
<1> DEFINE fresh == B \ block_dirty[epoch]
<1>1. /\ block_dirty'[epoch] = block_dirty[epoch] \cup B
      /\ block_dirty'[1 - epoch] = block_dirty[1 - epoch]
      /\ segment_dirty'[1 - epoch] = segment_dirty[1 - epoch]
      /\ segment_dirty'[epoch] = segment_dirty[epoch] \cup {b[1] : b \in fresh}
      /\ \A u \in Threads : u # t => flush_blocks'[u] = flush_blocks[u]
      /\ flush_blocks' \in [Threads -> SUBSET Blocks]
  BY HookFacts
<1>2. PICK listed \in SUBSET fresh :
        /\ listed = fresh \/ Cardinality(listed) = kMaxFlushBlocks - Cardinality(flush_blocks[t])
        /\ flush_blocks'[t] = flush_blocks[t] \cup listed
  BY HookFacts
<1>3. \A e \in 0 .. 1 : \A b \in block_dirty'[e] : b[1] \in segment_dirty'[e]
  <2> SUFFICES ASSUME NEW e \in 0 .. 1, NEW b \in block_dirty'[e]
               PROVE  b[1] \in segment_dirty'[e]
    OBVIOUS
  <2>1. CASE e = epoch
    <3>1. CASE b \in block_dirty[epoch]
      BY <2>1, <3>1, <1>1, Slots DEF ListInv
    <3>2. CASE b \in fresh
      BY <2>1, <3>2, <1>1
    <3> QED
      BY <2>1, <3>1, <3>2, <1>1
  <2>2. CASE e = 1 - epoch
    BY <2>2, <1>1, Slots DEF ListInv
  <2> QED
    BY <2>1, <2>2, Slots
<1>4. \A u \in Threads : flush_blocks'[u] \subseteq block_dirty'[epoch]
  BY <1>1, <1>2 DEF ListInv
<1>5. \A u \in Threads : flush_blocks[u] \subseteq flush_blocks'[u]
  BY <1>1, <1>2
<1>6. \/ \A b \in block_dirty'[epoch] : \E u \in Threads : b \in flush_blocks'[u]
      \/ \E u \in Threads : Cardinality(flush_blocks'[u]) >= kMaxFlushBlocks
  <2>1. CASE \E u \in Threads : Cardinality(flush_blocks[u]) >= kMaxFlushBlocks
    <3>1. PICK u \in Threads : Cardinality(flush_blocks[u]) >= kMaxFlushBlocks
      BY <2>1
    <3>2. IsFiniteSet(flush_blocks'[u]) /\ flush_blocks[u] \in SUBSET flush_blocks'[u]
      BY <1>1, <1>5, FiniteBlocks, FS_Subset
    <3>3. /\ Cardinality(flush_blocks[u]) <= Cardinality(flush_blocks'[u])
          /\ IsFiniteSet(flush_blocks[u])
      BY <3>2, FS_Subset
    <3>4. Cardinality(flush_blocks[u]) \in Nat /\ Cardinality(flush_blocks'[u]) \in Nat
      BY <3>2, <3>3, FS_CardinalityType
    <3> QED
      BY <3>1, <3>3, <3>4, HybridAssumption
  <2>2. CASE Cardinality(listed) = kMaxFlushBlocks - Cardinality(flush_blocks[t])
    <3>1. flush_blocks[t] \in SUBSET Blocks /\ listed \in SUBSET Blocks
      BY DEF TypeOK
    <3>2. IsFiniteSet(flush_blocks[t]) /\ IsFiniteSet(listed)
      BY <3>1, FiniteBlocks, FS_Subset
    <3>3. flush_blocks[t] \cap listed = {}
      BY <1>2 DEF ListInv
    <3>4. Cardinality(flush_blocks'[t]) = Cardinality(flush_blocks[t]) + Cardinality(listed)
                                          - Cardinality({})
      BY <3>2, <3>3, <1>2, FS_Union
    <3>5. Cardinality(flush_blocks[t]) \in Nat /\ Cardinality(listed) \in Nat /\ Cardinality({}) = 0
      BY <3>2, FS_CardinalityType, FS_EmptySet
    <3>6. Cardinality(flush_blocks'[t]) = kMaxFlushBlocks
      BY <2>2, <3>4, <3>5, HybridAssumption
    <3> QED
      BY <3>6, HybridAssumption
  <2>3. CASE /\ \A b \in block_dirty[epoch] : \E u \in Threads : b \in flush_blocks[u]
             /\ listed = fresh
    <3> SUFFICES ASSUME NEW b \in block_dirty'[epoch]
                 PROVE  \E u \in Threads : b \in flush_blocks'[u]
      OBVIOUS
    <3>1. CASE b \in block_dirty[epoch]
      BY <2>3, <3>1, <1>5
    <3>2. CASE b \in fresh
      BY <2>3, <3>2, <1>2
    <3> QED
      BY <3>1, <3>2, <1>1
  <2> QED
    BY <2>1, <2>2, <2>3, <1>2 DEF ListInv
<1> HIDE DEF fresh
<1> QED
  BY <1>3, <1>4, <1>6 DEF ListInv

LEMMA InitBase == Init => TypeOK /\ ControlInv
<1> SUFFICES ASSUME Init PROVE TypeOK /\ ControlInv
  OBVIOUS
<1>1. StateTypes
  BY DEF Init, ImageInit, StateTypes, States
<1>2. BindTypes
  BY Shapes DEF Init, ImageInit, BindTypes
<1>3. DataTypes /\ MemTypes /\ BreakTypes
  BY DEF Init, ImageInit, DataTypes, MemTypes, BreakTypes, Contents
<1>4. HookTypes
  BY DEF Init, HookTypes, All
<1>5. PcTypes
  BY DEF Init, PcTypes, All, Pcs, Phases
<1>6. ModeTypes /\ attributes \in BOOLEAN
  <2>1. epoch \in 0 .. 1 /\ flush_mode \in Modes
    BY DEF Init, Unset, Modes
  <2>2. mpi \in BOOLEAN /\ attributes = FALSE
    BY Zenon DEF Init, ImageInit
  <2> QED
    BY <2>1, <2>2, Zenon DEF ModeTypes
<1>7. TypeOK
  BY <1>1, <1>2, <1>3, <1>4, <1>5, <1>6, TypeParts
<1>8. PcInv /\ TodoInv
  BY DEF Init, PcInv, TodoInv, All, Recovering
<1>9. ListInv
  BY DEF Init, ListInv, All
<1>10. ModeInv /\ EmptyInv
  BY DEF Init, ModeInv, EmptyInv, Checkpointing, Recovering
<1>11. OwnerInv
  BY Shapes DEF Init, ImageInit, OwnerInv, HasBack
<1> QED
  BY <1>7, <1>8, <1>9, <1>10, <1>11 DEF ControlInv

\* Only a thread that brings the other side up to date has a back segment in mind.
LEMMA NoBack ==
  ASSUME ControlInv PROVE \A t \in Threads : pc[t] # "sync" => back_id[t] = Null
BY DEF ControlInv, TodoInv

LEMMA StoreBase ==
  ASSUME TypeOK, ControlInv, NEW t \in Threads, Store(t)
  PROVE  TypeOK' /\ ControlInv'
<1>1. /\ phase = "run" /\ phase' = "run" /\ epoch' = epoch /\ pc' = pc /\ todo' = todo /\ target' = target
      /\ back_id' = back_id
      /\ UNCHANGED <<stateVars, attributes, bindVars, dataVars, modeVars, pcVars, snap, broken>>
  BY DEF Store, pcVars, modeVars
<1>2. PICK R \in Ranges[t], v \in Values :
        /\ working_memory' = [b \in Blocks |-> IF b \in R THEN v ELSE working_memory[b]]
        /\ \/ /\ address_buffer' = [address_buffer EXCEPT ![t] = @ \cup R]
              /\ UNCHANGED <<flush_blocks, block_dirty, segment_dirty>>
           \/ /\ hook_routine(t, address_buffer[t] \cup R)
              /\ address_buffer' = [address_buffer EXCEPT ![t] = {}]
           \/ /\ hook_routine(t, R)
              /\ UNCHANGED address_buffer
  BY DEF Store
<1>3. /\ R \in SUBSET Blocks /\ address_buffer \in [Threads -> SUBSET Blocks]
      /\ address_buffer[t] \cup R \in SUBSET Blocks
  BY HybridAssumption DEF TypeOK
<1>4. HookTypes'
  <2>1. CASE /\ address_buffer' = [address_buffer EXCEPT ![t] = @ \cup R]
             /\ UNCHANGED <<flush_blocks, block_dirty, segment_dirty>>
    BY <2>1, <1>3 DEF HookTypes, TypeOK
  <2>2. CASE /\ hook_routine(t, address_buffer[t] \cup R)
             /\ address_buffer' = [address_buffer EXCEPT ![t] = {}]
    BY <2>2, <1>3, HookFacts DEF HookTypes
  <2>3. CASE hook_routine(t, R) /\ UNCHANGED address_buffer
    BY <2>3, <1>3, HookFacts DEF HookTypes
  <2> QED
    BY <1>2, <2>1, <2>2, <2>3
<1>5. MemTypes'
  BY <1>1, <1>2 DEF TypeOK, MemTypes, Contents
<1>6. TypeOK'
  BY <1>1, <1>4, <1>5, TypeParts, StateFrame, BindFrame, DataFrame, ModeFrame
     DEF PcTypes, BreakTypes, pcVars
<1>7. PcInv' /\ TodoInv'
  BY <1>1 DEF ControlInv, PcInv, TodoInv, Recovering
<1>8. ListInv'
  <2>1. CASE UNCHANGED <<flush_blocks, block_dirty, segment_dirty>>
    BY <2>1, <1>1 DEF ControlInv, ListInv
  <2>2. CASE hook_routine(t, address_buffer[t] \cup R)
    BY <2>2, <1>1, <1>3, HookList DEF ControlInv
  <2>3. CASE hook_routine(t, R)
    BY <2>3, <1>1, <1>3, HookList DEF ControlInv
  <2> QED
    BY <1>2, <2>1, <2>2, <2>3
<1>9. ModeInv' /\ EmptyInv'
  BY <1>1 DEF ModeInv, EmptyInv, Checkpointing, Recovering
<1>10. OwnerInv'
  BY <1>1 DEF ControlInv, OwnerInv, HasBack, bindVars
<1> QED
  BY <1>6, <1>7, <1>8, <1>9, <1>10 DEF ControlInv

LEMMA ModeInModes == ASSUME NEW lists PROVE Mode(lists) \in Modes
BY DEF Mode, Modes

LEMMA CheckpointBeginBase ==
  ASSUME TypeOK, ControlInv, CheckpointBegin
  PROVE  TypeOK' /\ ControlInv'
<1>1. /\ phase = "run" /\ epoch' = epoch /\ mpi' = mpi /\ target' = target /\ back_id' = back_id
      /\ UNCHANGED <<stateVars, attributes, bindVars, dataVars, working_memory, snap>>
      /\ hook_routine(0, Buffered) /\ address_buffer' = All({}) /\ flush_mode' = Mode(flush_blocks')
      /\ 0 \in Threads /\ Buffered \in SUBSET Blocks
  BY BufferedType, Shapes DEF CheckpointBegin
<1>2. HookTypes'
  <2>1. address_buffer' \in [Threads -> SUBSET Blocks]
    BY <1>1 DEF All
  <2> QED
    BY <1>1, <2>1, HookFacts DEF HookTypes
<1>3. ModeTypes'
  BY <1>1, ModeInModes DEF ModeTypes, TypeOK
<1>4. ListInv'
  BY <1>1, HookList DEF ControlInv
<1>5. Buffered' = {}
  BY <1>1 DEF Buffered, All
<1>6. \A u \in Threads : pc[u] = "app" /\ back_id[u] = Null
  BY <1>1, NoBack DEF ControlInv, PcInv
<1>7. CASE flush_mode' = "NO_ACTION" /\ UNCHANGED <<pc, phase, todo>>
  <2>1. TypeOK'
    <3>1. PcTypes'
      BY <1>1, <1>7 DEF TypeOK, PcTypes, Pcs, Phases
    <3>2. BreakTypes'
      BY <1>7 DEF CheckpointBegin, TypeOK, BreakTypes
    <3> QED
      BY <1>1, <1>2, <1>3, <3>1, <3>2, TypeParts, StateFrame, BindFrame, DataFrame, MemFrame
  <2>2. PcInv' /\ TodoInv' /\ EmptyInv' /\ ModeInv'
    BY <1>1, <1>6, <1>7 DEF PcInv, TodoInv, EmptyInv, ModeInv, Recovering, Checkpointing
  <2>3. OwnerInv'
    BY <1>1 DEF ControlInv, OwnerInv, HasBack, bindVars
  <2> QED
    BY <2>1, <2>2, <2>3, <1>4 DEF ControlInv
<1>8. CASE /\ phase' = "first" /\ pc' = All("sync") /\ broken' = broken
           /\ todo' = [t \in Threads |->
                 (block_dirty[1 - epoch] \ block_dirty'[epoch]) \cap SegmentShare(t)]
  <2>0. block_dirty'[1 - epoch] = block_dirty[1 - epoch]
    BY <1>1, HookFacts
  <2>1. TypeOK'
    <3>1. PcTypes'
      <4>1. block_dirty[1 - epoch] \subseteq Blocks
        BY Slots DEF TypeOK
      <4>2. todo' \in [Threads -> SUBSET Blocks]
        BY <1>8, <4>1
      <4> QED
        BY <1>1, <1>8, <4>2 DEF TypeOK, PcTypes, Pcs, Phases, All
    <3>2. BreakTypes'
      BY <1>8 DEF TypeOK, BreakTypes
    <3> QED
      BY <1>1, <1>2, <1>3, <3>1, <3>2, TypeParts, StateFrame, BindFrame, DataFrame, MemFrame
  <2>2. PcInv' /\ EmptyInv' /\ ModeInv'
    BY <1>1, <1>5, <1>8 DEF PcInv, EmptyInv, ModeInv, Recovering, All
  <2>3. TodoInv'
    BY <1>1, <1>6, <1>8, <2>0 DEF TodoInv, All, SegmentShare
  <2>4. OwnerInv'
    BY <1>1 DEF ControlInv, OwnerInv, HasBack, bindVars
  <2> QED
    BY <2>1, <2>2, <2>3, <2>4, <1>4 DEF ControlInv
<1>9. CASE /\ phase' = "first" /\ pc' = All("apply") /\ broken' = broken
           /\ todo' = [t \in Threads |-> Share(t, NewSide)']
  <2>0. \A t \in Threads : todo'[t] \subseteq block_dirty'[epoch']
    BY <1>9, <1>4, ShareSubNext
  <2>1. TypeOK'
    <3>1. PcTypes'
      <4>1. block_dirty'[epoch'] \subseteq Blocks
        BY <1>1, <1>2, Slots DEF HookTypes
      <4>2. todo' \in [Threads -> SUBSET Blocks]
        BY <1>9, <2>0, <4>1
      <4> QED
        BY <1>1, <1>9, <4>2 DEF TypeOK, PcTypes, Pcs, Phases, All
    <3>2. BreakTypes'
      BY <1>9 DEF TypeOK, BreakTypes
    <3> QED
      BY <1>1, <1>2, <1>3, <3>1, <3>2, TypeParts, StateFrame, BindFrame, DataFrame, MemFrame
  <2>2. PcInv' /\ EmptyInv' /\ ModeInv'
    BY <1>1, <1>5, <1>9 DEF PcInv, EmptyInv, ModeInv, Recovering, All
  <2>3. TodoInv'
    BY <1>1, <1>6, <1>9, <2>0 DEF TodoInv, All
  <2>4. OwnerInv'
    BY <1>1 DEF ControlInv, OwnerInv, HasBack, bindVars
  <2> QED
    BY <2>1, <2>2, <2>3, <2>4, <1>4 DEF ControlInv
<1> QED
  BY <1>7, <1>8, <1>9 DEF CheckpointBegin

\* Only the first part of a checkpoint brings the other side up to date.
LEMMA PcFirst ==
  ASSUME TypeOK, ControlInv, NEW t \in Threads, pc[t] = "sync" PROVE phase = "first"
BY DEF TypeOK, ControlInv, PcInv, Recovering

LEMMA SyncSegmentBase ==
  ASSUME TypeOK, ControlInv, NEW t \in Threads, SyncSegment(t)
  PROVE  TypeOK' /\ ControlInv'
<1>1. /\ pc[t] = "sync" /\ phase' = phase /\ pc' = pc
      /\ UNCHANGED <<stateVars, attributes, bindVars, dataVars, hookVars, modeVars, snap, broken>>
  BY DEF SyncSegment
<1>2. /\ todo' \in [Threads -> SUBSET Blocks] /\ target' \in [Threads -> Segments \cup {Null}]
      /\ back_id' \in [Threads -> BackSegments \cup {Null}]
      /\ \A u \in Threads : todo'[u] \subseteq todo[u]
      /\ \A u \in Threads : u # t => target'[u] = target[u] /\ back_id'[u] = back_id[u]
      /\ back_id'[t] # Null => target'[t] \in Segments
      /\ \A u \in Threads : pc[u] # "sync" => todo'[u] = todo[u] /\ target'[u] = target[u]
  <2>1. PICK s \in {b[1] : b \in todo[t]} :
          \/ /\ main_to_back[s] = Null
             /\ todo' = [todo EXCEPT ![t] = @ \ BlocksOf(s)]
             /\ UNCHANGED <<target, back_id>>
          \/ /\ main_to_back[s] # Null
             /\ target' = [target EXCEPT ![t] = s]
             /\ back_id' = [back_id EXCEPT ![t] = main_to_back[s]]
             /\ UNCHANGED todo
    BY DEF SyncSegment
  <2>2. /\ todo \in [Threads -> SUBSET Blocks] /\ target \in [Threads -> Segments \cup {Null}]
        /\ back_id \in [Threads -> BackSegments \cup {Null}] /\ back_id[t] = Null
    BY DEF TypeOK, SyncSegment
  <2>3. s \in Segments /\ main_to_back[s] \in BackSegments \cup {Null}
    BY <2>2, Shapes DEF TypeOK, ImageTypeOK
  <2> QED
    BY <1>1, <2>1, <2>2, <2>3
<1>3. PcTypes'
  BY <1>1, <1>2 DEF TypeOK, PcTypes, Pcs, Phases
<1>4. TypeOK'
  BY <1>1, <1>3, TypeParts, StateFrame, BindFrame, DataFrame, HookFrame, ModeFrame, MemFrame
     DEF BreakTypes, hookVars
<1>5. PcInv'
  BY <1>1 DEF ControlInv, PcInv
<1>6. TodoInv'
  BY <1>1, <1>2 DEF ControlInv, TodoInv, hookVars, modeVars, bindVars, HasBack, SegmentShare
<1>7. ListInv' /\ ModeInv' /\ EmptyInv' /\ OwnerInv'
  BY <1>1 DEF ControlInv, ListInv, ModeInv, EmptyInv, OwnerInv, HasBack, Buffered, hookVars, modeVars,
              bindVars, Mode, Total
<1> QED
  BY <1>4, <1>5, <1>6, <1>7 DEF ControlInv

\* The copy of a sync that finds its back segment where it was.
LEMMA SyncCopyOut ==
  ASSUME TypeOK, ControlInv, NEW t \in Threads, SyncCopy(t), main_to_back[target[t]] = back_id[t]
  PROVE  /\ CopyOut(NewSide, todo[t] \cap BlocksOf(target[t]))
         /\ \A b \in todo[t] \cap BlocksOf(target[t]) : HasBack(b[1])
<1> DEFINE s == target[t]
           B == todo[t] \cap BlocksOf(s)
           c == back_id[t]
<1>1. /\ \/ NewSide = "Main" /\ CopyOut("Main", B)
         \/ /\ NewSide = "Back"
            /\ back' = Write(back, Into(c, B), FromSegment(s))
            /\ back_pm' = Put(back_pm, Into(c, B), FromSegment(s))
            /\ UNCHANGED <<main, main_pm>>
      /\ pc[t] = "sync" /\ c # Null /\ main_to_back[s] = c
  BY DEF SyncCopy
<1>2. s \in Segments /\ c \in BackSegments /\ back_to_main[c] = s /\ B \subseteq Blocks
  BY <1>1 DEF TypeOK, ControlInv, TodoInv, OwnerInv, HasBack
<1>3. \A b \in B : b[1] = s /\ BackBlock(b[1], b) = <<c, b[2]>>
  BY <1>1, <1>2, BlocksOfShape DEF BackBlock
<1> HIDE DEF s, B, c
<1>4. Into(c, B) = BackOf(B)
  BY <1>3 DEF Into, BackOf
<1>5. \A d \in Into(c, B) : d \in BackBlocks => FromSegment(s)[d] = FromWork[d]
  BY <1>2 DEF Into, FromSegment, FromWork
<1>6. DOMAIN back = BackBlocks /\ DOMAIN back_pm = BackBlocks
  BY DEF TypeOK, ImageTypeOK
<1>7. /\ Write(back, Into(c, B), FromSegment(s)) = Write(back, BackOf(B), FromWork)
      /\ Put(back_pm, Into(c, B), FromSegment(s)) = Put(back_pm, BackOf(B), FromWork)
  BY <1>4, <1>5, <1>6 DEF Write, Put
<1>8. CopyOut(NewSide, B) /\ \A b \in B : HasBack(b[1])
  BY <1>1, <1>3, <1>7 DEF CopyOut, HasBack
<1> QED
  BY <1>8 DEF B, s

LEMMA SyncCopyBase ==
  ASSUME TypeOK, ControlInv, NEW t \in Threads, SyncCopy(t)
  PROVE  TypeOK' /\ ControlInv'
<1> DEFINE s == target[t]
           B == todo[t] \cap BlocksOf(s)
           c == back_id[t]
<1>1. /\ pc[t] = "sync" /\ c # Null /\ phase' = phase /\ pc' = pc
      /\ UNCHANGED <<stateVars, attributes, bindVars, hookVars, modeVars, snap>>
      /\ todo' = [todo EXCEPT ![t] = @ \ B]
      /\ target' = [target EXCEPT ![t] = Null] /\ back_id' = [back_id EXCEPT ![t] = Null]
      /\ \/ broken' = broken
         \/ broken' = broken \cup {"stale"}
      /\ \/ NewSide = "Main" /\ CopyOut("Main", B)
         \/ /\ NewSide = "Back"
            /\ back' = Write(back, Into(c, B), FromSegment(s))
            /\ back_pm' = Put(back_pm, Into(c, B), FromSegment(s))
            /\ UNCHANGED <<main, main_pm>>
  BY DEF SyncCopy
<1>2. s \in Segments
  BY <1>1 DEF TypeOK, ControlInv, TodoInv
<1> HIDE DEF s, B, c
<1>3. DataTypes'
  <2>1. FromSegment(s) \in [BackBlocks -> Contents]
    BY <1>2, Shapes DEF FromSegment, TypeOK
  <2>2. DataTypes
    BY TypeParts
  <2>3. CASE NewSide = "Main" /\ CopyOut("Main", B)
    BY <2>3, CopyOutType DEF DataTypes
  <2>4. CASE /\ back' = Write(back, Into(c, B), FromSegment(s))
             /\ back_pm' = Put(back_pm, Into(c, B), FromSegment(s))
             /\ UNCHANGED <<main, main_pm>>
    <3>1. \A d \in Into(c, B) \cap BackBlocks : FromSegment(s)[d] \in Contents
      BY <2>1
    <3>2. back' \in [BackBlocks -> Contents]
      BY <2>2, <2>4, <3>1, WriteType DEF DataTypes
    <3>3. back_pm' \in [BackBlocks -> (SUBSET Contents) \ {{}}]
      BY <2>2, <2>4, <3>1, PutType DEF DataTypes
    <3> QED
      BY <2>2, <2>4, <3>2, <3>3 DEF DataTypes
  <2> QED
    BY <1>1, <2>3, <2>4
<1>4. PcTypes' /\ BreakTypes'
  BY <1>1 DEF TypeOK, PcTypes, Pcs, Phases, BreakTypes
<1>5. TypeOK'
  BY <1>1, <1>3, <1>4, TypeParts, StateFrame, BindFrame, HookFrame, ModeFrame, MemFrame DEF hookVars
<1>6. PcInv'
  BY <1>1 DEF ControlInv, PcInv
<1>7. TodoInv'
  BY <1>1 DEF ControlInv, TodoInv, TypeOK, hookVars, modeVars, bindVars, HasBack, SegmentShare
<1>8. ListInv' /\ ModeInv' /\ EmptyInv' /\ OwnerInv'
  BY <1>1 DEF ControlInv, ListInv, ModeInv, EmptyInv, OwnerInv, HasBack, Buffered, hookVars, modeVars,
              bindVars, Mode, Total
<1> QED
  BY <1>5, <1>6, <1>7, <1>8 DEF ControlInv

LEMMA SyncEndBase ==
  ASSUME TypeOK, ControlInv, NEW t \in Threads, SyncEnd(t)
  PROVE  TypeOK' /\ ControlInv'
<1> DEFINE S == Share(t, NewSide)
<1>1. /\ pc[t] = "sync" /\ back_id[t] = Null /\ phase' = phase
      /\ target' = target /\ back_id' = back_id
      /\ UNCHANGED <<stateVars, attributes, bindVars, dataVars, hookVars, modeVars, snap, broken>>
      /\ todo' = [todo EXCEPT ![t] = S] /\ pc' = [pc EXCEPT ![t] = "apply"]
  BY DEF SyncEnd, Goto
<1>2. phase = "first"
  BY <1>1, PcFirst
<1>3. S \subseteq block_dirty[epoch]
  BY ShareSub DEF ControlInv, NewSide
<1> HIDE DEF S
<1>4. S \subseteq Blocks
  BY <1>3, Slots DEF TypeOK
<1>5. PcTypes'
  BY <1>1, <1>4 DEF TypeOK, PcTypes, Pcs, Phases
<1>6. TypeOK'
  BY <1>1, <1>5, TypeParts, StateFrame, BindFrame, DataFrame, HookFrame, ModeFrame, MemFrame
     DEF BreakTypes, hookVars
<1>7. PcInv'
  BY <1>1, <1>2 DEF ControlInv, PcInv, Recovering, TypeOK
<1>8. TodoInv'
  BY <1>1, <1>3 DEF ControlInv, TodoInv, TypeOK, hookVars, modeVars, bindVars, HasBack, SegmentShare
<1>9. ListInv' /\ ModeInv' /\ EmptyInv' /\ OwnerInv'
  BY <1>1 DEF ControlInv, ListInv, ModeInv, EmptyInv, OwnerInv, HasBack, Buffered, hookVars, modeVars,
              bindVars, Mode, Total
<1> QED
  BY <1>6, <1>7, <1>8, <1>9 DEF ControlInv

LEMMA ApplyBase ==
  ASSUME TypeOK, ControlInv, NEW t \in Threads, Apply(t)
  PROVE  TypeOK' /\ ControlInv'
<1>1. /\ pc[t] = "apply" /\ phase' = phase /\ target' = target /\ back_id' = back_id
      /\ UNCHANGED <<stateVars, attributes, bindVars, hookVars, modeVars, snap>>
      /\ CopyOut(Side, Direct(t))
      /\ todo' = [todo EXCEPT ![t] = @ \ Direct(t)]
  BY DEF Apply
<1>2. \/ pc' = [pc EXCEPT ![t] = "barrier"] /\ todo[t] \ Direct(t) = {}
      \/ pc' = [pc EXCEPT ![t] = "apply"]
  BY DEF Apply, Goto
<1>3. DataTypes'
  BY <1>1, CopyOutType DEF DataTypes
<1>4. PcTypes'
  <2>1. todo' \in [Threads -> SUBSET Blocks]
    BY <1>1 DEF TypeOK
  <2>2. pc' \in [Threads -> Pcs]
    BY <1>2 DEF TypeOK, Pcs
  <2> QED
    BY <1>1, <2>1, <2>2 DEF TypeOK, PcTypes, Phases
<1>5. BreakTypes'
  <2>1. \A b \in Direct(t) : Harm(b) \subseteq {"steal", "overwrite"}
    BY DEF Harm
  <2>2. broken' = broken \cup UNION {Harm(b) : b \in Direct(t)}
    BY DEF Apply
  <2>3. \A x \in broken' : x \in broken \/ \E b \in Direct(t) : x \in Harm(b)
    BY <2>2
  <2>4. broken \subseteq {"idle", "stale", "steal", "overwrite", "slot"}
    BY DEF TypeOK
  <2>5. \A x \in broken' : x \in {"idle", "stale", "steal", "overwrite", "slot"}
    BY <2>1, <2>3, <2>4
  <2> QED
    BY <2>5 DEF BreakTypes
<1>6. TypeOK'
  BY <1>1, <1>3, <1>4, <1>5, TypeParts, StateFrame, BindFrame, HookFrame, ModeFrame, MemFrame
     DEF hookVars
<1>7. PcInv'
  BY <1>1, <1>2 DEF ControlInv, PcInv, Recovering, TypeOK
<1>8. TodoInv'
  BY <1>1, <1>2 DEF ControlInv, TodoInv, TypeOK, hookVars, modeVars, bindVars, HasBack, SegmentShare
<1>9. ListInv' /\ ModeInv' /\ EmptyInv' /\ OwnerInv'
  BY <1>1 DEF ControlInv, ListInv, ModeInv, EmptyInv, OwnerInv, HasBack, Buffered, hookVars, modeVars,
              bindVars, Mode, Total
<1> QED
  BY <1>6, <1>7, <1>8, <1>9 DEF ControlInv

LEMMA FindBackSegmentBase ==
  ASSUME TypeOK, ControlInv, NEW t \in Threads, FindBackSegment(t)
  PROVE  TypeOK' /\ ControlInv'
<1>1. /\ pc[t] = "apply" /\ phase' = phase /\ todo' = todo
      /\ UNCHANGED <<stateVars, attributes, bindVars, dataVars, hookVars, modeVars, snap, broken>>
      /\ pc' = [pc EXCEPT ![t] = "alloc"] /\ back_id' = back_id
  BY DEF FindBackSegment, Goto
<1>2. PICK b \in todo[t] : target' = [target EXCEPT ![t] = b[1]]
  BY DEF FindBackSegment
<1>3. b \in Blocks /\ b[1] \in Segments /\ b \in block_dirty[epoch] /\ b[1] \in segment_dirty[epoch]
  <2>1. b \in Blocks /\ b \in block_dirty[epoch]
    BY <1>1 DEF TypeOK, ControlInv, TodoInv
  <2> QED
    BY <2>1, Shapes, Slots DEF ControlInv, ListInv
<1>4. PcTypes'
  BY <1>1, <1>2, <1>3 DEF TypeOK, PcTypes, Pcs, Phases
<1>5. TypeOK'
  BY <1>1, <1>4, TypeParts, StateFrame, BindFrame, DataFrame, HookFrame, ModeFrame, MemFrame
     DEF BreakTypes, hookVars
<1>6. PcInv'
  BY <1>1 DEF ControlInv, PcInv, Recovering, TypeOK
<1>7. TodoInv'
  BY <1>1, <1>2, <1>3 DEF ControlInv, TodoInv, TypeOK, hookVars, modeVars, bindVars, HasBack, SegmentShare
<1>8. ListInv' /\ ModeInv' /\ EmptyInv' /\ OwnerInv'
  BY <1>1 DEF ControlInv, ListInv, ModeInv, EmptyInv, OwnerInv, HasBack, Buffered, hookVars, modeVars,
              bindVars, Mode, Total
<1> QED
  BY <1>5, <1>6, <1>7, <1>8 DEF ControlInv

\* What binding a back segment changes.
LEMMA BindFacts ==
  ASSUME TypeOK, OwnerInv, NEW s \in Segments, NEW c \in BackSegments, bind_back_segment(s, c)
  PROVE  /\ back_to_main' \in [BackSegments -> Segments]
         /\ main_to_back' \in [Segments -> BackSegments \cup {Null}]
         /\ main_to_back'[s] = c /\ back_to_main'[c] = s
         /\ \A d \in BackSegments : d # c => back_to_main'[d] = back_to_main[d]
         /\ \A r \in Segments : r # s /\ r # back_to_main[c] => main_to_back'[r] = main_to_back[r]
         /\ \A r \in Segments : r # s /\ main_to_back[r] = c => main_to_back'[r] = Null
         /\ \A r \in Segments : r # s => \/ main_to_back'[r] = main_to_back[r]
                                        \/ (main_to_back[r] = c /\ main_to_back'[r] = Null)
         /\ OwnerInv'
<1>1. /\ back_to_main' = [back_to_main EXCEPT ![c] = s]
      /\ main_to_back' = [r \in Segments |-> CASE r = s -> c
                                           [] r # s /\ main_to_back[r] = c -> Null
                                           [] OTHER -> main_to_back[r]]
  BY DEF bind_back_segment
<1>2. /\ back_to_main \in [BackSegments -> Segments]
      /\ main_to_back \in [Segments -> BackSegments \cup {Null}]
  BY DEF TypeOK, ImageTypeOK
<1>3. /\ main_to_back' \in [Segments -> BackSegments \cup {Null}]
      /\ main_to_back'[s] = c
      /\ \A r \in Segments : r # s => main_to_back'[r] = IF main_to_back[r] = c THEN Null
                                                         ELSE main_to_back[r]
  BY <1>1, <1>2
<1>4. /\ back_to_main' \in [BackSegments -> Segments] /\ back_to_main'[c] = s
      /\ \A d \in BackSegments : d # c => back_to_main'[d] = back_to_main[d]
  BY <1>1, <1>2
<1>5. \A r \in Segments : main_to_back[r] = c => back_to_main[c] = r
  BY Shapes DEF OwnerInv, HasBack
<1>6. OwnerInv'
  <2> SUFFICES ASSUME NEW r \in Segments, main_to_back'[r] # Null
               PROVE  back_to_main'[main_to_back'[r]] = r
    BY DEF OwnerInv, HasBack
  <2>1. CASE r = s
    BY <2>1, <1>3, <1>4
  <2>2. CASE r # s
    <3>1. main_to_back[r] # c /\ main_to_back'[r] = main_to_back[r]
      BY <2>2, <1>3
    <3>2. main_to_back[r] \in BackSegments
      BY <3>1, <1>2
    <3>3. back_to_main[main_to_back[r]] = r
      BY <3>1 DEF OwnerInv, HasBack
    <3> QED
      BY <3>1, <3>2, <3>3, <1>4
  <2> QED
    BY <2>1, <2>2
<1> QED
  BY <1>3, <1>4, <1>5, <1>6

LEMMA CandidateType ==
  ASSUME TypeOK, NEW n \in BackSegments
  PROVE  Candidate(n) \in BackSegments
         /\ \A c \in BackSegments : advance_next_back_segment(c) \in BackSegments
BY ImageAssumption, SMT DEF Candidate, BackSegments, TypeOK, advance_next_back_segment

LEMMA AllocateBackSegmentBase ==
  ASSUME TypeOK, ControlInv, NEW t \in Threads, AllocateBackSegment(t)
  PROVE  TypeOK' /\ ControlInv'
<1> DEFINE s == target[t]
<1>1. /\ pc[t] = "alloc" /\ phase' = phase /\ todo' = todo /\ target' = target /\ back_id' = back_id
      /\ UNCHANGED <<stateVars, attributes, dataVars, hookVars, modeVars, snap>>
      /\ pc' = [pc EXCEPT ![t] = "created"]
  BY DEF AllocateBackSegment, Goto
<1>2. PICK n \in BackSegments : /\ Stealable(n) /\ bind_back_segment(s, Candidate(n))
                                /\ next_back_segment' = advance_next_back_segment(Candidate(n))
  BY DEF AllocateBackSegment
<1> DEFINE c == Candidate(n)
<1>3. c \in BackSegments /\ next_back_segment' \in BackSegments
  BY <1>2, CandidateType
<1>4. s \in segment_dirty[epoch] /\ s \in Segments
  BY <1>1, Slots DEF TypeOK, ControlInv, TodoInv
<1>5. back_to_main[c] \notin segment_dirty[epoch] /\ bind_back_segment(s, c)
  BY <1>2 DEF Stealable
<1> HIDE DEF s, c
<1>6. /\ back_to_main' \in [BackSegments -> Segments]
      /\ main_to_back' \in [Segments -> BackSegments \cup {Null}]
      /\ main_to_back'[s] = c
      /\ \A r \in Segments : r # s /\ r # back_to_main[c] => main_to_back'[r] = main_to_back[r]
      /\ OwnerInv'
  BY <1>3, <1>4, <1>5, BindFacts DEF ControlInv
<1>7. BindTypes'
  BY <1>3, <1>6 DEF BindTypes
<1>8. PcTypes' /\ BreakTypes'
  <2>1. PcTypes'
    BY <1>1 DEF TypeOK, PcTypes, Pcs, Phases
  <2>2. BreakTypes'
    BY DEF AllocateBackSegment, TypeOK, BreakTypes
  <2> QED
    BY <2>1, <2>2
<1>9. TypeOK'
  BY <1>1, <1>7, <1>8, TypeParts, StateFrame, DataFrame, HookFrame, ModeFrame, MemFrame
     DEF hookVars
<1>10. PcInv'
  BY <1>1 DEF ControlInv, PcInv, Recovering, TypeOK
<1>11. \A r \in segment_dirty[epoch] : HasBack(r) => main_to_back'[r] # Null
  BY <1>3, <1>4, <1>5, <1>6, Shapes, Slots DEF HasBack, TypeOK
<1>12. TodoInv'
  <2> SUFFICES ASSUME NEW u \in Threads
               PROVE  /\ pc'[u] = "sync" => todo'[u] \subseteq block_dirty'[1 - epoch'] \ block_dirty'[epoch']
                      /\ back_id'[u] # Null => pc'[u] = "sync" /\ target'[u] \in Segments
                      /\ pc'[u] \in {"apply", "alloc", "created"} => todo'[u] \subseteq block_dirty'[epoch']
                      /\ pc'[u] = "barrier" => todo'[u] = {}
                      /\ pc'[u] \in {"alloc", "created"} => target'[u] \in segment_dirty'[epoch']
                      /\ pc'[u] = "created" => main_to_back'[target'[u]] # Null
    BY DEF TodoInv, HasBack, SegmentShare
  <2>1. CASE u = t
    <3>1. main_to_back'[s] # Null
      BY <1>3, <1>6, Shapes
    <3> QED
      BY <2>1, <3>1, <1>1, <1>4 DEF ControlInv, TodoInv, TypeOK, hookVars, modeVars, s
  <2>2. CASE u # t
    BY <2>2, <1>1, <1>11 DEF ControlInv, TodoInv, TypeOK, hookVars, modeVars
  <2> QED
    BY <2>1, <2>2
<1>13. ListInv' /\ ModeInv' /\ EmptyInv'
  BY <1>1 DEF ControlInv, ListInv, ModeInv, EmptyInv, Buffered, hookVars, modeVars, Mode, Total
<1> QED
  BY <1>6, <1>9, <1>10, <1>12, <1>13 DEF ControlInv

LEMMA FillBackBase ==
  ASSUME TypeOK, ControlInv, NEW t \in Threads, FillBack(t)
  PROVE  TypeOK' /\ ControlInv'
<1>1. /\ pc[t] = "created" /\ phase' = phase
      /\ UNCHANGED <<stateVars, attributes, bindVars, hookVars, modeVars, snap, broken>>
      /\ pc' = [pc EXCEPT ![t] = "apply"] /\ target' = [target EXCEPT ![t] = Null]
      /\ back_id' = back_id
  BY DEF FillBack, Goto
<1>2. DataTypes'
  <2>1. CASE CopyOut("Back", BlocksOf(target[t]))
    BY <2>1, CopyOutType DEF DataTypes
  <2>2. CASE UNCHANGED <<dataVars, todo>>
    BY <2>2, DataFrame, TypeParts
  <2> QED
    BY <2>1, <2>2 DEF FillBack
<1>3. /\ todo' \in [Threads -> SUBSET Blocks] /\ todo'[t] \subseteq todo[t]
      /\ \A u \in Threads : u # t => todo'[u] = todo[u]
  BY DEF FillBack, TypeOK
<1>4. PcTypes'
  BY <1>1, <1>3 DEF TypeOK, PcTypes, Pcs, Phases
<1>5. TypeOK'
  BY <1>1, <1>2, <1>4, TypeParts, StateFrame, BindFrame, HookFrame, ModeFrame, MemFrame
     DEF BreakTypes, hookVars
<1>6. PcInv'
  BY <1>1 DEF ControlInv, PcInv, Recovering, TypeOK
<1>7. TodoInv'
  BY <1>1, <1>3 DEF ControlInv, TodoInv, TypeOK, hookVars, modeVars, bindVars, HasBack, SegmentShare
<1>8. ListInv' /\ ModeInv' /\ EmptyInv' /\ OwnerInv'
  BY <1>1 DEF ControlInv, ListInv, ModeInv, EmptyInv, OwnerInv, HasBack, Buffered, hookVars, modeVars,
              bindVars, Mode, Total
<1> QED
  BY <1>5, <1>6, <1>7, <1>8 DEF ControlInv

LEMMA FillMainBase ==
  ASSUME TypeOK, ControlInv, NEW t \in Threads, FillMain(t)
  PROVE  TypeOK' /\ ControlInv'
<1> DEFINE s == target[t]
           old == [b \in Blocks |-> IF b[1] = s THEN back[BackBlock(s, b)] ELSE main[b]]
<1>1. /\ pc[t] = "created" /\ phase' = phase /\ todo' = todo
      /\ UNCHANGED <<committed_epoch, segment_state_dirty, attributes, bindVars, back, back_pm,
                     hookVars, modeVars, snap, broken>>
      /\ pc' = [pc EXCEPT ![t] = "apply"] /\ target' = [target EXCEPT ![t] = Null]
      /\ back_id' = back_id
      /\ main' = old /\ main_pm' = Put(main_pm, BlocksOf(s), old)
      /\ segment_state' = [e \in 0 .. 1 |-> [segment_state[e] EXCEPT ![s] = "Back"]]
      /\ segment_state_pm' = [e \in 0 .. 1 |-> [segment_state_pm[e] EXCEPT
                               ![s] = @ \cup {"Back"}]]
  BY DEF FillMain, Goto
<1>2. s \in Segments /\ HasBack(s)
  BY <1>1, Slots DEF TypeOK, ControlInv, TodoInv
<1>3. old \in [Blocks -> Contents]
  <2>1. main_to_back[s] \in BackSegments
    BY <1>2 DEF TypeOK, ImageTypeOK, HasBack
  <2>2. \A b \in Blocks : b[1] = s => BackBlock(s, b) \in BackBlocks
    BY <2>1, Shapes DEF BackBlock
  <2> QED
    BY <2>2 DEF TypeOK, ImageTypeOK
<1> HIDE DEF s, old
<1>4. DataTypes'
  <2>1. main_pm' \in [Blocks -> (SUBSET Contents) \ {{}}]
    BY <1>1, <1>3, PutType DEF TypeOK, ImageTypeOK
  <2> QED
    BY <1>1, <1>3, <2>1 DEF DataTypes, TypeOK, ImageTypeOK
<1>5. StateTypes'
  <2>1. \A e \in 0 .. 1 : /\ segment_state[e] \in [Segments -> States]
                          /\ segment_state_pm[e] \in [Segments -> (SUBSET States) \ {{}}]
    BY DEF TypeOK, ImageTypeOK
  <2>2. segment_state' \in [0 .. 1 -> [Segments -> States]]
    BY <1>1, <1>2, <2>1 DEF States
  <2>3. \A e \in 0 .. 1 : segment_state_pm'[e] \in [Segments -> (SUBSET States) \ {{}}]
    BY <1>1, <1>2, <2>1 DEF States
  <2>4. segment_state_pm' \in [0 .. 1 -> [Segments -> (SUBSET States) \ {{}}]]
    BY <1>1, <2>3
  <2> QED
    BY <1>1, <2>2, <2>4 DEF StateTypes, TypeOK, ImageTypeOK
<1>6. PcTypes'
  BY <1>1 DEF TypeOK, PcTypes, Pcs, Phases
<1>7. TypeOK'
  BY <1>1, <1>4, <1>5, <1>6, TypeParts, BindFrame, HookFrame, ModeFrame, MemFrame
     DEF BreakTypes, hookVars
<1>8. PcInv'
  BY <1>1 DEF ControlInv, PcInv, Recovering, TypeOK
<1>9. TodoInv'
  BY <1>1 DEF ControlInv, TodoInv, TypeOK, hookVars, modeVars, bindVars, HasBack, SegmentShare
<1>10. ListInv' /\ ModeInv' /\ EmptyInv' /\ OwnerInv'
  BY <1>1 DEF ControlInv, ListInv, ModeInv, EmptyInv, OwnerInv, HasBack, Buffered, hookVars, modeVars,
              bindVars, Mode, Total
<1> QED
  BY <1>7, <1>8, <1>9, <1>10 DEF ControlInv

\* The steps at a barrier leave the binding, the lists and the targets alone.
LEMMA LeaderBase ==
  ASSUME TypeOK, ControlInv, StateTypes', DataTypes', MemTypes',
         phase \in Checkpointing, phase' \in Checkpointing, pc' = pc, todo' = todo,
         target' = target, back_id' = back_id, broken' = broken, attributes' = attributes,
         UNCHANGED bindVars, UNCHANGED modeVars,
         UNCHANGED <<address_buffer, flush_blocks, block_dirty, segment_dirty>>,
         phase' # "first", phase' # "second", pc = All("barrier")
  PROVE  TypeOK' /\ ControlInv'
<1>1. PcTypes' /\ BreakTypes'
  BY DEF TypeOK, PcTypes, BreakTypes, Pcs, Phases, Checkpointing
<1>2. TypeOK'
  BY <1>1, TypeParts, BindFrame, HookFrame, ModeFrame
<1>3. \A t \in Threads : pc[t] = "barrier"
  BY DEF All
<1>4. PcInv'
  BY <1>3 DEF PcInv, Recovering, Checkpointing
<1>5. TodoInv'
  BY <1>3 DEF ControlInv, TodoInv
<1>6. ListInv' /\ ModeInv' /\ EmptyInv' /\ OwnerInv'
  BY DEF ControlInv, ListInv, ModeInv, EmptyInv, OwnerInv, HasBack, Buffered, modeVars,
         bindVars, Mode, Total, Recovering, Checkpointing
<1> QED
  BY <1>2, <1>4, <1>5, <1>6 DEF ControlInv

LEMMA AtBarrier ==
  ASSUME TypeOK, ControlInv, phase \in {"states", "commit", "copy", "finish"}
  PROVE  pc = All("barrier")
<1>1. pc \in [Threads -> Pcs]
  BY DEF TypeOK, Pcs
<1>2. \A t \in Threads : pc[t] = "barrier"
  BY DEF ControlInv, PcInv
<1> QED
  BY <1>1, <1>2 DEF All

LEMMA CommitLayoutStateBase ==
  ASSUME TypeOK, ControlInv, CommitLayoutState PROVE TypeOK' /\ ControlInv'
<1>1. /\ phase \in Checkpointing /\ phase' \in Checkpointing /\ phase' # "first" /\ phase' # "second"
      /\ pc' = pc /\ todo' = todo /\ target' = target
      /\ back_id' = back_id /\ broken' = broken /\ attributes' = attributes
      /\ UNCHANGED bindVars /\ UNCHANGED modeVars /\ UNCHANGED <<working_memory, snap>>
      /\ UNCHANGED <<address_buffer, flush_blocks, block_dirty, segment_dirty>>
      /\ pc = All("barrier") /\ main' = main /\ back' = back /\ Fenced
      /\ committed_epoch' = committed_epoch /\ segment_state' = segment_state
      /\ segment_state_dirty' = segment_state_dirty
  BY DEF CommitLayoutState, Checkpointing, hookVars
<1>2. StateTypes'
  BY <1>1, StatesSettledType DEF Fenced, StateTypes, TypeOK, ImageTypeOK
<1>3. DataTypes'
  BY <1>1, FencedType
<1>4. MemTypes'
  BY <1>1, MemFrame, TypeParts
<1> QED
  BY <1>1, <1>2, <1>3, <1>4, LeaderBase

LEMMA SetLayoutStateBase ==
  ASSUME TypeOK, ControlInv, SetLayoutState PROVE TypeOK' /\ ControlInv'
<1>1. /\ phase = "states" /\ phase \in Checkpointing /\ phase' \in Checkpointing
      /\ phase' # "first" /\ phase' # "second"
      /\ pc' = pc /\ todo' = todo /\ target' = target
      /\ back_id' = back_id /\ broken' = broken /\ attributes' = attributes
      /\ UNCHANGED bindVars /\ UNCHANGED modeVars /\ UNCHANGED <<working_memory, snap>>
      /\ UNCHANGED <<address_buffer, flush_blocks, block_dirty, segment_dirty>>
      /\ UNCHANGED dataVars /\ committed_epoch' = committed_epoch
      /\ set_segment_state(Dirty, NewSide)
  BY DEF SetLayoutState, Checkpointing, hookVars, Dirty
<1>2. Dirty \in SUBSET Segments /\ NewSide \in States
  BY DEF TypeOK, Dirty, NewSide, States
<1>3. StateTypes'
  BY <1>1, <1>2, SetStateType
<1>4. DataTypes' /\ MemTypes' /\ pc = All("barrier")
  BY <1>1, DataFrame, MemFrame, TypeParts, AtBarrier
<1> QED
  BY <1>1, <1>3, <1>4, LeaderBase

LEMMA CommitLayoutEpochBase ==
  ASSUME TypeOK, ControlInv, CommitLayoutEpoch PROVE TypeOK' /\ ControlInv'
<1>1. /\ phase = "commit" /\ phase \in Checkpointing /\ phase' \in Checkpointing
      /\ phase' # "first" /\ phase' # "second"
      /\ pc' = pc /\ todo' = todo /\ target' = target
      /\ back_id' = back_id /\ broken' = broken /\ attributes' = attributes
      /\ UNCHANGED bindVars /\ UNCHANGED modeVars
      /\ UNCHANGED <<address_buffer, flush_blocks, block_dirty, segment_dirty>>
      /\ UNCHANGED dataVars /\ CommitEpoch /\ snap' = working_memory /\ working_memory' = working_memory
  BY DEF CommitLayoutEpoch, Checkpointing, hookVars
<1>2. StateTypes'
  BY <1>1, CommitEpochType
<1>3. MemTypes'
  BY <1>1 DEF MemTypes, TypeOK
<1>4. DataTypes' /\ pc = All("barrier")
  BY <1>1, DataFrame, TypeParts, AtBarrier
<1> QED
  BY <1>1, <1>2, <1>3, <1>4, LeaderBase

LEMMA SyncLayoutStatesBase ==
  ASSUME TypeOK, ControlInv, SyncLayoutStates PROVE TypeOK' /\ ControlInv'
<1>1. /\ phase = "copy" /\ phase \in Checkpointing
      /\ target' = target /\ back_id' = back_id /\ broken' = broken /\ attributes' = attributes
      /\ UNCHANGED bindVars /\ UNCHANGED modeVars
      /\ UNCHANGED <<address_buffer, flush_blocks, block_dirty, segment_dirty>>
      /\ UNCHANGED dataVars /\ CopyStates /\ UNCHANGED <<working_memory, snap>>
  BY DEF SyncLayoutStates, Checkpointing, hookVars
<1>2. StateTypes'
  BY <1>1, CopyStatesType
<1>3. MemTypes' /\ DataTypes' /\ pc = All("barrier")
  BY <1>1, DataFrame, MemFrame, TypeParts, AtBarrier
<1>4. CASE phase' = "finish" /\ UNCHANGED <<pc, todo>>
  <2>1. phase' \in Checkpointing /\ phase' # "first" /\ phase' # "second" /\ pc' = pc /\ todo' = todo
    BY <1>4 DEF Checkpointing
  <2> QED
    BY <1>1, <1>2, <1>3, <2>1, LeaderBase
<1>5. CASE /\ phase' = "second" /\ pc' = All("apply")
           /\ todo' = [t \in Threads |-> Share(t, IF epoch = 1 THEN "Main" ELSE "Back")]
  <2>1. \A t \in Threads : todo'[t] \subseteq block_dirty[epoch]
    BY <1>5, ShareSub DEF ControlInv
  <2>2. PcTypes' /\ BreakTypes'
    <3>1. todo' \in [Threads -> SUBSET Blocks]
      BY <1>5, <2>1, Slots DEF TypeOK
    <3>2. pc' \in [Threads -> Pcs]
      BY <1>5 DEF All, Pcs
    <3> QED
      BY <3>1, <3>2, <1>1, <1>5 DEF PcTypes, BreakTypes, TypeOK, Phases
  <2>3. TypeOK'
    BY <1>1, <1>2, <1>3, <2>2, TypeParts, BindFrame, HookFrame, ModeFrame
  <2>4. PcInv'
    BY <1>5 DEF PcInv, Recovering, All
  <2>5. TodoInv'
    <3>1. \A t \in Threads : back_id'[t] = Null
      BY <1>1, <1>3, NoBack DEF All
    <3> QED
      BY <1>1, <1>5, <2>1, <3>1 DEF TodoInv, All, modeVars
  <2>6. ListInv' /\ ModeInv' /\ EmptyInv' /\ OwnerInv'
    BY <1>1, <1>5 DEF ControlInv, ListInv, ModeInv, EmptyInv, OwnerInv, HasBack, Buffered, modeVars,
         bindVars, Mode, Total, Recovering, Checkpointing
  <2> QED
    BY <2>3, <2>4, <2>5, <2>6 DEF ControlInv
<1> QED
  BY <1>4, <1>5 DEF SyncLayoutStates

LEMMA EndSecondBase ==
  ASSUME TypeOK, ControlInv, EndSecond PROVE TypeOK' /\ ControlInv'
<1>1. /\ phase \in Checkpointing /\ phase' \in Checkpointing /\ phase' # "first" /\ phase' # "second"
      /\ pc' = pc /\ todo' = todo /\ target' = target
      /\ back_id' = back_id /\ broken' = broken /\ attributes' = attributes
      /\ UNCHANGED bindVars /\ UNCHANGED modeVars /\ UNCHANGED <<working_memory, snap>>
      /\ UNCHANGED <<address_buffer, flush_blocks, block_dirty, segment_dirty>>
      /\ pc = All("barrier") /\ main' = main /\ back' = back /\ Fenced
      /\ committed_epoch' = committed_epoch /\ segment_state' = segment_state
      /\ segment_state_dirty' = segment_state_dirty
  BY DEF EndSecond, Checkpointing, hookVars
<1>2. StateTypes'
  BY <1>1, StatesSettledType DEF Fenced, StateTypes, TypeOK, ImageTypeOK
<1>3. DataTypes'
  BY <1>1, FencedType
<1>4. MemTypes'
  BY <1>1, MemFrame, TypeParts
<1> QED
  BY <1>1, <1>2, <1>3, <1>4, LeaderBase

LEMMA CheckpointFinishBase ==
  ASSUME TypeOK, ControlInv, CheckpointFinish PROVE TypeOK' /\ ControlInv'
<1>1. /\ phase = "finish" /\ phase' = "run" /\ pc' = All("app") /\ todo' = todo /\ target' = target
      /\ back_id' = back_id
      /\ UNCHANGED bindVars /\ UNCHANGED dataVars /\ UNCHANGED <<working_memory, snap>>
      /\ address_buffer' = address_buffer /\ flush_blocks' = All({}) /\ broken' = broken
      /\ block_dirty' = [block_dirty EXCEPT ![1 - epoch] = {}]
      /\ segment_dirty' = [segment_dirty EXCEPT ![1 - epoch] = {}]
      /\ epoch' = 1 - epoch /\ flush_mode' = flush_mode
      /\ committed_epoch' = committed_epoch /\ segment_state' = segment_state
      /\ segment_state_dirty' = segment_state_dirty
      /\ (segment_state_pm' = segment_state_pm \/ segment_state_pm' = StatesSettled)
  BY DEF CheckpointFinish, LastEpoch
<1>2. StateTypes'
  BY <1>1, StatesSettledType DEF StateTypes, TypeOK, ImageTypeOK
<1>3. HookTypes'
  <2>1. flush_blocks' \in [Threads -> SUBSET Blocks]
    BY <1>1 DEF All
  <2> QED
    BY <1>1, <2>1 DEF HookTypes, TypeOK
<1>4. PcTypes' /\ BreakTypes'
  BY <1>1 DEF PcTypes, BreakTypes, TypeOK, Pcs, Phases, All
<1>5. ModeTypes' /\ attributes' \in BOOLEAN
  <2>1. epoch' \in 0 .. 1 /\ flush_mode' \in Modes
    BY <1>1, Slots DEF TypeOK
  <2>2. mpi' = mpi /\ mpi \in BOOLEAN /\ attributes' = TRUE
    BY Zenon DEF CheckpointFinish, TypeOK
  <2> QED
    BY <2>1, <2>2, Zenon DEF ModeTypes
<1>6. TypeOK'
  BY <1>1, <1>2, <1>3, <1>4, <1>5, TypeParts, BindFrame, DataFrame, MemFrame
<1>7. PcInv' /\ TodoInv'
  <2>1. \A t \in Threads : back_id'[t] = Null
    BY <1>1, AtBarrier, NoBack DEF All
  <2> QED
    BY <1>1, <2>1 DEF PcInv, TodoInv, Recovering, All
<1>8. ModeInv' /\ EmptyInv'
  BY <1>1 DEF ModeInv, EmptyInv, Recovering, Checkpointing
<1>9. OwnerInv'
  BY <1>1 DEF ControlInv, OwnerInv, HasBack, bindVars
<1>10. ListInv'
  <2>1. block_dirty'[epoch'] = {} /\ \A t \in Threads : flush_blocks'[t] = {}
    BY <1>1, Slots DEF TypeOK, All
  <2>2. \A e \in 0 .. 1 : \A b \in block_dirty'[e] : b[1] \in segment_dirty'[e]
    <3> SUFFICES ASSUME NEW e \in 0 .. 1, NEW b \in block_dirty'[e] PROVE b[1] \in segment_dirty'[e]
      OBVIOUS
    <3>1. e # 1 - epoch
      BY <1>1, <2>1
    <3>2. block_dirty'[e] = block_dirty[e] /\ segment_dirty'[e] = segment_dirty[e]
      BY <1>1, <3>1 DEF TypeOK
    <3> QED
      BY <3>2 DEF ControlInv, ListInv
  <2> QED
    BY <2>1, <2>2 DEF ListInv
<1> QED
  BY <1>6, <1>7, <1>8, <1>9, <1>10 DEF ControlInv

\* What a crash leaves: one of the contents the medium may have.
LEMMA DieBase ==
  ASSUME TypeOK, ControlInv, Die PROVE TypeOK' /\ ControlInv'
<1>1. /\ phase' = "open" /\ pc' = All("app") /\ todo' = All({}) /\ target' = All(Null) /\ back_id' = All(Null)
      /\ segment_state_dirty' = {} /\ main_to_back' = [s \in Segments |-> Null]
      /\ next_back_segment' = 0 /\ working_memory' = [b \in Blocks |-> Junk]
      /\ address_buffer' = All({}) /\ flush_blocks' = All({})
      /\ block_dirty' = [e \in 0 .. 1 |-> {}] /\ segment_dirty' = [e \in 0 .. 1 |-> {}]
      /\ epoch' = 1 /\ flush_mode' \in Modes
      /\ committed_epoch' = committed_epoch /\ back_to_main' = back_to_main
      /\ snap' = snap /\ broken' = broken
  BY DEF Die, Unset, Modes
<1>2. PICK m \in Resolve(main_pm, Contents), k \in Resolve(back_pm, Contents),
           s0 \in Resolve(segment_state_pm[0], States), s1 \in Resolve(segment_state_pm[1], States) :
         /\ main' = m /\ main_pm' = Settled(m) /\ back' = k /\ back_pm' = Settled(k)
         /\ segment_state' = [e \in 0 .. 1 |-> IF e = 0 THEN s0 ELSE s1]
         /\ segment_state_pm' = [e \in 0 .. 1 |-> Settled(IF e = 0 THEN s0 ELSE s1)]
  BY DEF Die
<1>3. /\ m \in [Blocks -> Contents] /\ k \in [BackBlocks -> Contents]
      /\ s0 \in [Segments -> States] /\ s1 \in [Segments -> States]
  BY DEF Resolve, TypeOK, ImageTypeOK
<1>4. DataTypes'
  BY <1>2, <1>3, SettledType DEF DataTypes
<1>5. StateTypes'
  <2>1. Settled(s0) \in [Segments -> (SUBSET States) \ {{}}] /\ Settled(s1) \in [Segments -> (SUBSET States) \ {{}}]
    BY <1>3, SettledType
  <2>2. segment_state_pm' \in [0 .. 1 -> [Segments -> (SUBSET States) \ {{}}]]
    <3>1. segment_state_pm' = [e \in 0 .. 1 |-> IF e = 0 THEN Settled(s0) ELSE Settled(s1)]
      BY <1>2
    <3> QED
      BY <3>1, <2>1
  <2> QED
    BY <1>1, <1>2, <1>3, <2>2 DEF StateTypes, TypeOK, ImageTypeOK
<1>6. BindTypes'
  BY <1>1, Shapes DEF BindTypes, TypeOK, ImageTypeOK
<1>7. HookTypes' /\ PcTypes' /\ BreakTypes'
  BY <1>1 DEF HookTypes, PcTypes, BreakTypes, TypeOK, All, Pcs, Phases
<1>8. MemTypes'
  BY <1>1 DEF MemTypes, TypeOK, Contents
<1>9. ModeTypes' /\ attributes' \in BOOLEAN
  <2>1. mpi' = mpi /\ mpi \in BOOLEAN /\ attributes' = attributes /\ attributes \in BOOLEAN
    BY Zenon DEF Die, TypeOK, ImageTypeOK
  <2>2. epoch' \in 0 .. 1 /\ flush_mode' \in Modes
    BY <1>1
  <2> QED
    BY <2>1, <2>2, Zenon DEF ModeTypes
<1>10. TypeOK'
  BY <1>4, <1>5, <1>6, <1>7, <1>8, <1>9, TypeParts
<1>11. PcInv' /\ TodoInv' /\ ListInv'
  BY <1>1 DEF PcInv, TodoInv, ListInv, All, Recovering
<1>12. ModeInv' /\ EmptyInv'
  BY <1>1 DEF ModeInv, EmptyInv, Checkpointing, Recovering, Buffered, All
<1>13. OwnerInv'
  BY <1>1 DEF OwnerInv, HasBack
<1> QED
  BY <1>10, <1>11, <1>12, <1>13 DEF ControlInv

\* The steps of recovery keep an empty DRAM.
LEMMA RecoveryControl ==
  ASSUME TypeOK, ControlInv, phase \in Recovering, phase' \in Recovering \cup {"run"},
         pc' = pc, todo' = todo, target' = target, back_id' = back_id, UNCHANGED modeVars,
         UNCHANGED <<address_buffer, flush_blocks, block_dirty, segment_dirty>>, OwnerInv'
  PROVE  ControlInv'
<1>1. \A t \in Threads : pc[t] = "app" /\ back_id[t] = Null
  BY NoBack DEF ControlInv, PcInv
<1>2. PcInv' /\ TodoInv'
  BY <1>1 DEF PcInv, TodoInv, Recovering
<1>3. ListInv' /\ ModeInv' /\ EmptyInv'
  BY DEF ControlInv, ListInv, ModeInv, EmptyInv, Buffered, modeVars, Recovering, Checkpointing
<1> QED
  BY <1>2, <1>3 DEF ControlInv

LEMMA RebuiltFacts ==
  ASSUME TypeOK
  PROVE  /\ Rebuilt \in [Segments -> BackSegments \cup {Null}]
         /\ \A s \in Segments : Rebuilt[s] # Null <=> \E c \in BackSegments : back_to_main[c] = s
         /\ \A s \in Segments : Rebuilt[s] # Null => back_to_main[Rebuilt[s]] = s
<1>1. ASSUME NEW s \in Segments
      PROVE  /\ Rebuilt[s] \in BackSegments \cup {Null}
             /\ Rebuilt[s] # Null <=> \E c \in BackSegments : back_to_main[c] = s
             /\ Rebuilt[s] # Null => back_to_main[Rebuilt[s]] = s
  <2>1. CASE \E c \in BackSegments : back_to_main[c] = s
    <3>1. Rebuilt[s] = CHOOSE c \in BackSegments : back_to_main[c] = s
      BY <2>1 DEF Rebuilt
    <3>2. Rebuilt[s] \in BackSegments /\ back_to_main[Rebuilt[s]] = s
      BY <2>1, <3>1
    <3> QED
      BY <2>1, <3>2, Shapes
  <2>2. CASE ~\E c \in BackSegments : back_to_main[c] = s
    BY <2>2 DEF Rebuilt
  <2> QED
    BY <2>1, <2>2
<1>2. Rebuilt \in [Segments -> BackSegments \cup {Null}]
  <2>1. Rebuilt = [s \in Segments |-> Rebuilt[s]]
    BY DEF Rebuilt
  <2> QED
    BY <1>1, <2>1
<1> QED
  BY <1>1, <1>2

LEMMA OpenImageBase ==
  ASSUME TypeOK, ControlInv, OpenImage PROVE TypeOK' /\ ControlInv'
<1>1. /\ phase = "open" /\ phase' = "recover" /\ pc' = pc /\ todo' = todo /\ target' = target
      /\ back_id' = back_id
      /\ UNCHANGED stateVars /\ UNCHANGED dataVars /\ UNCHANGED modeVars /\ attributes' = attributes
      /\ UNCHANGED <<address_buffer, flush_blocks, block_dirty, segment_dirty>>
      /\ UNCHANGED <<working_memory, snap>> /\ broken' = broken
      /\ back_to_main' = back_to_main /\ next_back_segment' = next_back_segment
      /\ main_to_back' = Rebuilt
  BY DEF OpenImage, hookVars
<1>2. BindTypes' /\ OwnerInv'
  BY <1>1, RebuiltFacts DEF BindTypes, OwnerInv, HasBack, TypeOK, ImageTypeOK
<1>3. PcTypes' /\ BreakTypes'
  BY <1>1 DEF PcTypes, BreakTypes, TypeOK, Pcs, Phases
<1>4. TypeOK'
  BY <1>1, <1>2, <1>3, TypeParts, StateFrame, DataFrame, ModeFrame, HookFrame, MemFrame
<1>5. phase \in Recovering /\ phase' \in Recovering \cup {"run"}
  BY <1>1 DEF Recovering
<1> QED
  BY <1>1, <1>2, <1>4, <1>5, RecoveryControl

LEMMA RecoveryCopyBase ==
  ASSUME TypeOK, ControlInv, RecoveryCopy PROVE TypeOK' /\ ControlInv'
<1> DEFINE B        == UNION {BlocksOf(s) : s \in Bound("Back")}
           toBack   == BackOf(UNION {BlocksOf(s) : s \in Bound("Main")})
           fromMain == [d \in BackBlocks |-> main[<<back_to_main[d[1]], d[2]>>]]
           fromBack == [b \in Blocks |-> IF b \in B THEN back[BackBlock(b[1], b)] ELSE main[b]]
<1>1. /\ phase = "recover" /\ phase' = "recover_commit" /\ pc' = pc /\ todo' = todo /\ target' = target
      /\ back_id' = back_id
      /\ UNCHANGED bindVars /\ UNCHANGED modeVars /\ attributes' = attributes
      /\ UNCHANGED <<address_buffer, flush_blocks, block_dirty, segment_dirty>>
      /\ UNCHANGED <<working_memory, snap>> /\ broken' = broken
      /\ committed_epoch' = committed_epoch /\ set_segment_state(Bound("Back"), "Main")
      /\ back' = Write(back, toBack, fromMain) /\ back_pm' = Put(back_pm, toBack, fromMain)
      /\ main' = Write(main, B, fromBack)      /\ main_pm' = Put(main_pm, B, fromBack)
  BY DEF RecoveryCopy, hookVars
<1>2. Bound("Back") \in SUBSET Segments /\ "Main" \in States
  BY DEF Bound, States
<1>3. fromMain \in [BackBlocks -> Contents]
  <2>1. \A d \in BackBlocks : <<back_to_main[d[1]], d[2]>> \in Blocks
    BY Shapes DEF TypeOK, ImageTypeOK
  <2> QED
    BY <2>1 DEF TypeOK, ImageTypeOK
<1>4. fromBack \in [Blocks -> Contents]
  <2>1. \A b \in Blocks : b \in B => b[1] \in Bound("Back")
    <3> SUFFICES ASSUME NEW b \in Blocks, b \in B PROVE b[1] \in Bound("Back")
      OBVIOUS
    <3>1. PICK s \in Bound("Back") : b \in BlocksOf(s)
      OBVIOUS
    <3> QED
      BY <3>1, <1>2, BlocksOfShape
  <2>2. \A b \in Blocks : b \in B => BackBlock(b[1], b) \in BackBlocks
    BY <2>1, BackBlockFacts DEF ControlInv, Bound, HasBack
  <2> HIDE DEF B
  <2> QED
    BY <2>2 DEF TypeOK, ImageTypeOK
<1> HIDE DEF B, toBack, fromMain, fromBack
<1>5. DataTypes'
  BY <1>1, <1>3, <1>4, WriteType, PutType DEF DataTypes, TypeOK, ImageTypeOK
<1>6. StateTypes'
  BY <1>1, <1>2, SetStateType
<1>7. PcTypes' /\ BreakTypes'
  BY <1>1 DEF PcTypes, BreakTypes, TypeOK, Pcs, Phases
<1>8. TypeOK'
  BY <1>1, <1>5, <1>6, <1>7, TypeParts, BindFrame, ModeFrame, HookFrame, MemFrame
<1>9. phase \in Recovering /\ phase' \in Recovering \cup {"run"}
  BY <1>1 DEF Recovering
<1>10. OwnerInv'
  BY <1>1 DEF ControlInv, OwnerInv, HasBack, bindVars
<1> QED
  BY <1>1, <1>8, <1>9, <1>10, RecoveryControl

LEMMA RecoveryCommitBase ==
  ASSUME TypeOK, ControlInv, RecoveryCommit PROVE TypeOK' /\ ControlInv'
<1>1. /\ phase = "recover_commit" /\ phase' = "recover_copy" /\ pc' = pc /\ todo' = todo
      /\ target' = target
      /\ back_id' = back_id /\ UNCHANGED bindVars /\ UNCHANGED modeVars /\ attributes' = attributes
      /\ UNCHANGED <<address_buffer, flush_blocks, block_dirty, segment_dirty>>
      /\ UNCHANGED <<working_memory, snap>> /\ CommitEpoch
      /\ main' = main /\ back' = back /\ main_pm' = Settled(main) /\ back_pm' = Settled(back)
      /\ (broken' = broken \/ broken' = broken \cup {"slot"})
  BY DEF RecoveryCommit, hookVars
<1>2. StateTypes'
  BY <1>1, CommitEpochType
<1>3. DataTypes'
  BY <1>1, SettledType DEF DataTypes, TypeOK, ImageTypeOK
<1>4. PcTypes' /\ BreakTypes'
  BY <1>1 DEF PcTypes, BreakTypes, TypeOK, Pcs, Phases
<1>5. TypeOK'
  BY <1>1, <1>2, <1>3, <1>4, TypeParts, BindFrame, ModeFrame, HookFrame, MemFrame
<1>6. phase \in Recovering /\ phase' \in Recovering \cup {"run"}
  BY <1>1 DEF Recovering
<1>7. OwnerInv'
  BY <1>1 DEF ControlInv, OwnerInv, HasBack, bindVars
<1> QED
  BY <1>1, <1>5, <1>6, <1>7, RecoveryControl

LEMMA OpenDoneBase ==
  ASSUME TypeOK, ControlInv, OpenDone PROVE TypeOK' /\ ControlInv'
<1>1. /\ phase = "recover_copy" /\ phase' = "run" /\ pc' = pc /\ todo' = todo
      /\ target' = target
      /\ back_id' = back_id /\ UNCHANGED bindVars /\ UNCHANGED modeVars /\ attributes' = attributes
      /\ UNCHANGED <<address_buffer, flush_blocks, block_dirty, segment_dirty>>
      /\ UNCHANGED dataVars /\ CopyStates /\ snap' = snap /\ broken' = broken
      /\ working_memory' = [b \in Blocks |-> IF Loaded(b[1]) THEN main[b] ELSE Junk]
  BY DEF OpenDone
<1>2. StateTypes'
  BY <1>1, CopyStatesType
<1>3. MemTypes'
  BY <1>1 DEF MemTypes, TypeOK, ImageTypeOK, Contents
<1>4. PcTypes' /\ BreakTypes'
  BY <1>1 DEF PcTypes, BreakTypes, TypeOK, Pcs, Phases
<1>5. TypeOK'
  BY <1>1, <1>2, <1>3, <1>4, TypeParts, BindFrame, DataFrame, ModeFrame, HookFrame
<1>6. phase \in Recovering /\ phase' \in Recovering \cup {"run"}
  BY <1>1 DEF Recovering
<1>7. OwnerInv'
  BY <1>1 DEF ControlInv, OwnerInv, HasBack, bindVars
<1> QED
  BY <1>1, <1>5, <1>6, <1>7, RecoveryControl

\* Every step keeps the types and the control part.
LEMMA NextBase ==
  ASSUME TypeOK, ControlInv, Next PROVE TypeOK' /\ ControlInv'
<1>1. ASSUME NEW t \in Threads, Store(t) PROVE TypeOK' /\ ControlInv'
  BY <1>1, StoreBase
<1>2. ASSUME Checkpoint PROVE TypeOK' /\ ControlInv'
  BY <1>2, CheckpointBeginBase, CommitLayoutStateBase, SetLayoutStateBase, CommitLayoutEpochBase,
     SyncLayoutStatesBase, EndSecondBase, CheckpointFinishBase DEF Checkpoint
<1>3. ASSUME NEW t \in Threads, \/ SyncSegment(t) \/ SyncCopy(t) \/ SyncEnd(t)
                                \/ Apply(t) \/ FindBackSegment(t)
                                \/ AllocateBackSegment(t) \/ AllocateFail(t)
                                \/ FillBack(t) \/ FillMain(t)
      PROVE  TypeOK' /\ ControlInv'
  <2>1. AllocateFail(t) => Die
    BY DEF AllocateFail
  <2> QED
    BY <1>3, <2>1, SyncSegmentBase, SyncCopyBase, SyncEndBase, ApplyBase, FindBackSegmentBase, AllocateBackSegmentBase, FillBackBase,
       FillMainBase, DieBase
<1>4. ASSUME Crash PROVE TypeOK' /\ ControlInv'
  BY <1>4, DieBase DEF Crash
<1>5. ASSUME Recovery PROVE TypeOK' /\ ControlInv'
  BY <1>5, OpenImageBase, RecoveryCopyBase, RecoveryCommitBase, OpenDoneBase DEF Recovery
<1> QED
  BY <1>1, <1>2, <1>3, <1>4, <1>5 DEF Next, Section

-----------------------------------------------------------------------------
(* Modes, lists and copies.                                                *)

\* A list that is full, or not empty, shows in the mode.
LEMMA ModeFacts ==
  ASSUME NEW lists \in [Threads -> SUBSET Blocks]
  PROVE  /\ Mode(lists) # "WBINVD" => \A t \in Threads : ~(Cardinality(lists[t]) >= kMaxFlushBlocks)
         /\ Mode(lists) = "NO_ACTION" => \A t \in Threads : lists[t] = {}
<1> DEFINE P == {e \in Threads \X Blocks : e[2] \in lists[e[1]]}
<1>1. IsFiniteSet(P) /\ Cardinality(P) \in Nat /\ Total(lists) = Cardinality(P)
  <2>1. IsFiniteSet(P)
    BY FiniteBlocks, FS_Subset
  <2> QED
    BY <2>1, FS_CardinalityType DEF Total
<1>2. ASSUME NEW t \in Threads
      PROVE  /\ Cardinality(lists[t]) \in Nat /\ Cardinality(lists[t]) <= Cardinality(P)
             /\ \A b \in lists[t] : <<t, b>> \in P
  <2> DEFINE Q == {t} \X lists[t]
  <2>1. IsFiniteSet({t}) /\ Cardinality({t}) = 1
    BY FS_Singleton
  <2>2. IsFiniteSet(lists[t])
    BY FiniteBlocks, FS_Subset
  <2>3. Cardinality(lists[t]) \in Nat
    BY <2>2, FS_CardinalityType
  <2>4. IsFiniteSet(Q) /\ Cardinality(Q) = Cardinality({t}) * Cardinality(lists[t])
    BY <2>1, <2>2, FS_Product
  <2>5. Cardinality(Q) = Cardinality(lists[t])
    BY <2>1, <2>3, <2>4
  <2>6. \A b \in lists[t] : <<t, b>> \in P
    OBVIOUS
  <2>7. Q \in SUBSET P
    BY <2>6
  <2>8. Cardinality(Q) <= Cardinality(P)
    BY <1>1, <2>7, FS_Subset
  <2> QED
    BY <2>3, <2>5, <2>6, <2>8
<1>3. ASSUME NEW t \in Threads, Cardinality(lists[t]) >= kMaxFlushBlocks
      PROVE  Mode(lists) = "WBINVD"
  <2> HIDE DEF P
  <2>1. Total(lists) >= kMaxFlushBlocks /\ Total(lists) # 0
    BY <1>1, <1>2, <1>3, HybridAssumption
  <2> QED
    BY <2>1 DEF Mode
<1>4. ASSUME Mode(lists) = "NO_ACTION", NEW t \in Threads PROVE lists[t] = {}
  <2>1. Total(lists) = 0
    BY <1>4 DEF Mode
  <2>2. P = {}
    BY <2>1, <1>1, FS_EmptySet
  <2> HIDE DEF P
  <2> QED
    BY <1>2, <2>2
<1> QED
  BY <1>3, <1>4

\* In a checkpoint every dirty block is in the share of a thread.
LEMMA Covered ==
  ASSUME TypeOK, ControlInv, flush_mode = Mode(flush_blocks), NEW side \in Sides
  PROVE  \A b \in block_dirty[epoch] : \E t \in Threads : b \in Share(t, side)
<1> SUFFICES ASSUME NEW b \in block_dirty[epoch] PROVE \E t \in Threads : b \in Share(t, side)
  OBVIOUS
<1>1. CASE flush_mode = "WBINVD"
  <2>1. b \in Blocks
    BY Slots DEF TypeOK
  <2>2. PICK t \in Threads : b \in SegmentShare(t)
    BY <2>1, Shared
  <2> QED
    BY <1>1, <2>2 DEF Share
<1>2. CASE flush_mode # "WBINVD"
  <2>1. flush_blocks \in [Threads -> SUBSET Blocks]
    BY DEF TypeOK
  <2>2. \A t \in Threads : ~(Cardinality(flush_blocks[t]) >= kMaxFlushBlocks)
    BY <1>2, <2>1, ModeFacts
  <2>3. PICK t \in Threads : b \in flush_blocks[t]
    BY <2>2 DEF ControlInv, ListInv
  <2>4. CASE side = "Main"
    BY <1>2, <2>3, <2>4 DEF Share
  <2>5. CASE side = "Back"
    <3>1. b \in Share(0, side)
      BY <1>2, <2>3, <2>5 DEF Share
    <3> QED
      BY <3>1, Shapes
  <2> QED
    BY <2>4, <2>5 DEF Sides
<1> QED
  BY <1>1, <1>2

LEMMA CoveredNext ==
  ASSUME TypeOK', ControlInv', flush_mode' = Mode(flush_blocks')
  PROVE  \A b \in block_dirty'[epoch'] : \E t \in Threads : b \in Share(t, NewSide)'
<1> SUFFICES ASSUME NEW b \in block_dirty'[epoch'] PROVE \E t \in Threads : b \in Share(t, NewSide)'
  OBVIOUS
<1>1. CASE flush_mode' = "WBINVD"
  <2>1. b \in Blocks
    BY DEF TypeOK
  <2>2. PICK t \in Threads : b \in SegmentShare(t)
    BY <2>1, Shared
  <2> QED
    BY <1>1, <2>2 DEF Share, SegmentShare
<1>2. CASE flush_mode' # "WBINVD"
  <2>1. flush_blocks' \in [Threads -> SUBSET Blocks]
    BY DEF TypeOK
  <2>2. \A t \in Threads : ~(Cardinality(flush_blocks'[t]) >= kMaxFlushBlocks)
    BY <1>2, <2>1, ModeFacts
  <2>3. PICK t \in Threads : b \in flush_blocks'[t]
    BY <2>2 DEF ControlInv, ListInv
  <2>4. CASE epoch' # 1
    BY <1>2, <2>3, <2>4 DEF Share, NewSide
  <2>5. CASE epoch' = 1
    <3>1. b \in Share(0, NewSide)'
      BY <1>2, <2>3, <2>5 DEF Share, NewSide
    <3> QED
      BY <3>1, Shapes
  <2> QED
    BY <2>4, <2>5
<1> QED
  BY <1>1, <1>2

\* Copies to one side, seen from both.
LEMMA CopyOutFacts ==
  ASSUME TypeOK, OwnerInv, MediumInv, NEW side \in Sides, NEW B \in SUBSET Blocks,
         CopyOut(side, B), \A b \in B : Has(side, b), main_to_back' = main_to_back,
         working_memory' = working_memory
  PROVE  /\ \A s \in Sides, b \in Blocks : Has(s, b) =>
              /\ Has(s, b)'
              /\ s # side \/ b \notin B => Copy(s, b)' = Copy(s, b) /\ Medium(s, b)' = Medium(s, b)
              /\ s = side /\ b \in B => Copy(s, b)' = working_memory[b]
         /\ side = "Main" => back' = back /\ back_pm' = back_pm
         /\ side = "Back" => main' = main /\ main_pm' = main_pm
         /\ \A b \in Blocks : main'[b] \in main_pm'[b]
         /\ \A d \in BackBlocks : back'[d] \in back_pm'[d]
<1>1. CASE side = "Main"
  <2>1. /\ back' = back /\ back_pm' = back_pm
        /\ \A b \in Blocks : /\ b \in B => main'[b] = working_memory[b]
                             /\ b \notin B => main'[b] = main[b] /\ main_pm'[b] = main_pm[b]
    BY <1>1, CopyOutMain
  <2>2. \A b \in Blocks : main'[b] \in main_pm'[b]
    BY <1>1 DEF CopyOut, Write, Put, MediumInv, TypeOK, ImageTypeOK
  <2>3. \A d \in BackBlocks : back'[d] \in back_pm'[d]
    BY <2>1 DEF MediumInv
  <2>4. ASSUME NEW s \in Sides, NEW b \in Blocks, Has(s, b)
        PROVE  /\ Has(s, b)'
               /\ s # side \/ b \notin B => Copy(s, b)' = Copy(s, b) /\ Medium(s, b)' = Medium(s, b)
               /\ s = side /\ b \in B => Copy(s, b)' = working_memory[b]
    BY <1>1, <2>1, <2>4 DEF Has, HasBack, Copy, Medium, BackBlock, Sides
  <2> QED
    BY <1>1, <2>1, <2>2, <2>3, <2>4
<1>2. CASE side = "Back"
  <2>1. /\ main' = main /\ main_pm' = main_pm
        /\ \A b \in Blocks : HasBack(b[1]) =>
              /\ b \in B => back'[BackBlock(b[1], b)] = working_memory[b]
              /\ b \notin B => /\ back'[BackBlock(b[1], b)] = back[BackBlock(b[1], b)]
                               /\ back_pm'[BackBlock(b[1], b)] = back_pm[BackBlock(b[1], b)]
    BY <1>2, CopyOutBack DEF Has
  <2>2. \A d \in BackBlocks : back'[d] \in back_pm'[d]
    <3>1. back' = Write(back, BackOf(B), FromWork) /\ back_pm' = Put(back_pm, BackOf(B), FromWork)
      BY <1>2 DEF CopyOut
    <3> QED
      BY <3>1 DEF Write, Put, MediumInv, TypeOK, ImageTypeOK
  <2>3. \A b \in Blocks : main'[b] \in main_pm'[b]
    BY <2>1 DEF MediumInv
  <2>4. ASSUME NEW s \in Sides, NEW b \in Blocks, Has(s, b)
        PROVE  /\ Has(s, b)'
               /\ s # side \/ b \notin B => Copy(s, b)' = Copy(s, b) /\ Medium(s, b)' = Medium(s, b)
               /\ s = side /\ b \in B => Copy(s, b)' = working_memory[b]
    <3>1. BackBlock(b[1], b)' = BackBlock(b[1], b) /\ Has(s, b)'
      BY <2>4 DEF BackBlock, Has, HasBack
    <3> QED
      BY <1>2, <2>1, <2>4, <3>1 DEF Has, Copy, Medium, Sides
  <2> QED
    BY <1>2, <2>1, <2>2, <2>3, <2>4
<1> QED
  BY <1>1, <1>2 DEF Sides

-----------------------------------------------------------------------------
(* Data.                                                                   *)

Safe == TypeOK /\ ControlInv /\ DataInv

LEMMA InitData == Init => DataInv
<1> SUFFICES ASSUME Init PROVE DataInv
  OBVIOUS
<1>1. BindInv
  BY Shapes DEF Init, ImageInit, BindInv, All
<1>2. SlotInv
  BY DEF Init, ImageInit, SlotInv, StateOf, Active, Inactive
<1>3. StateInv
  BY DEF Init, ImageInit, StateInv, StateOf, Active, Inactive
<1>4. MediumInv
  BY DEF Init, ImageInit, MediumInv, Settled
<1>5. SnapInv /\ DirtyInv /\ SidesInv
  BY DEF Init, SnapInv, DirtyInv, SidesInv, Checkpointing
<1>6. CleanInv
  BY DEF Init, CleanInv
<1> QED
  BY <1>1, <1>2, <1>3, <1>4, <1>5, <1>6 DEF DataInv

\* Parts of the invariant that only read variables the step leaves alone.
LEMMA SlotFrame ==
  ASSUME SlotInv, UNCHANGED stateVars, phase' = phase \/ {phase, phase'} \subseteq {"run", "first"}
  PROVE  SlotInv'
BY DEF SlotInv, stateVars, StateOf, Active, Inactive

LEMMA StateInvFrame ==
  ASSUME StateInv, UNCHANGED stateVars, epoch' = epoch,
         \/ phase' = phase /\ segment_dirty' = segment_dirty
         \/ {phase, phase'} \subseteq {"run", "first"} /\ segment_dirty'[1 - epoch] = segment_dirty[1 - epoch]
  PROVE  StateInv'
BY DEF StateInv, stateVars, StateOf, Active, Inactive, NewSide, Other, Dirty

LEMMA SnapFrame ==
  ASSUME SnapInv, UNCHANGED stateVars, back_to_main' = back_to_main, main_to_back' = main_to_back,
         main_pm' = main_pm, back_pm' = back_pm, snap' = snap, phase # "open", phase' # "open"
  PROVE  SnapInv'
BY DEF SnapInv, stateVars, StateOf, Active, Where, Medium, HasBack, BackBlock

LEMMA StoreData ==
  ASSUME Safe, NEW t \in Threads, Store(t)
  PROVE  DataInv'
<1>1. /\ phase = "run" /\ phase' = "run" /\ epoch' = epoch /\ pc' = pc /\ todo' = todo /\ target' = target
      /\ flush_mode' = flush_mode /\ mpi' = mpi /\ snap' = snap
      /\ back_to_main' = back_to_main /\ main_to_back' = main_to_back
      /\ main' = main /\ main_pm' = main_pm /\ back' = back /\ back_pm' = back_pm
      /\ committed_epoch' = committed_epoch /\ segment_state' = segment_state
      /\ UNCHANGED stateVars
  BY DEF Store, pcVars, modeVars, bindVars, dataVars, stateVars
<1>2. PICK R \in Ranges[t], v \in Values :
        /\ working_memory' = [b \in Blocks |-> IF b \in R THEN v ELSE working_memory[b]]
        /\ \/ /\ address_buffer' = [address_buffer EXCEPT ![t] = @ \cup R]
              /\ UNCHANGED <<flush_blocks, block_dirty, segment_dirty>>
           \/ /\ hook_routine(t, address_buffer[t] \cup R)
              /\ address_buffer' = [address_buffer EXCEPT ![t] = {}]
           \/ /\ hook_routine(t, R)
              /\ UNCHANGED address_buffer
  BY DEF Store
<1>3. /\ R \in SUBSET Blocks /\ address_buffer \in [Threads -> SUBSET Blocks]
      /\ address_buffer[t] \cup R \in SUBSET Blocks /\ TypeOK
  BY HybridAssumption DEF TypeOK, Safe
<1>4. /\ R \subseteq Touched' /\ Touched \subseteq Touched'
      /\ block_dirty'[1 - epoch] = block_dirty[1 - epoch]
      /\ segment_dirty'[1 - epoch] = segment_dirty[1 - epoch]
  <2>1. CASE /\ address_buffer' = [address_buffer EXCEPT ![t] = @ \cup R]
             /\ UNCHANGED <<flush_blocks, block_dirty, segment_dirty>>
    <3>1. address_buffer'[t] = address_buffer[t] \cup R
          /\ \A u \in Threads : u # t => address_buffer'[u] = address_buffer[u]
      BY <2>1, <1>3
    <3>2. Buffered' = Buffered \cup R
      BY <3>1 DEF Buffered
    <3> QED
      BY <2>1, <3>2, <1>1 DEF Touched
  <2>2. CASE /\ hook_routine(t, address_buffer[t] \cup R)
             /\ address_buffer' = [address_buffer EXCEPT ![t] = {}]
    <3>1. \A u \in Threads : u # t => address_buffer'[u] = address_buffer[u]
      BY <2>2, <1>3
    <3>2. Buffered \subseteq Buffered' \cup address_buffer[t]
      BY <3>1 DEF Buffered
    <3>3. /\ block_dirty'[epoch] = block_dirty[epoch] \cup (address_buffer[t] \cup R)
          /\ block_dirty'[1 - epoch] = block_dirty[1 - epoch]
          /\ segment_dirty'[1 - epoch] = segment_dirty[1 - epoch]
      BY <2>2, <1>3, HookFacts
    <3> QED
      BY <3>2, <3>3, <1>1 DEF Touched
  <2>3. CASE hook_routine(t, R) /\ UNCHANGED address_buffer
    <3>1. /\ block_dirty'[epoch] = block_dirty[epoch] \cup R
          /\ block_dirty'[1 - epoch] = block_dirty[1 - epoch]
          /\ segment_dirty'[1 - epoch] = segment_dirty[1 - epoch]
      BY <2>3, <1>3, HookFacts
    <3> QED
      BY <3>1, <2>3, <1>1 DEF Touched, Buffered
  <2> QED
    BY <1>2, <2>1, <2>2, <2>3
<1>5. Pending' = Pending
  BY <1>1, <1>4 DEF Pending, NeedsSync
<1>6. BindInv' /\ SlotInv' /\ StateInv' /\ MediumInv' /\ SnapInv'
  <2>1. BindInv'
    BY <1>1 DEF Safe, DataInv, BindInv, Side, StateOf, Active
  <2>2. SlotInv' /\ StateInv' /\ SnapInv'
    BY <1>1, <1>4, SlotFrame, StateInvFrame, SnapFrame DEF Safe, DataInv
  <2>3. MediumInv'
    BY <1>1 DEF Safe, DataInv, MediumInv, Side
  <2> QED
    BY <2>1, <2>2, <2>3
<1>7. CleanInv'
  <2> SUFFICES ASSUME NEW b \in Blocks, b \notin Touched'
               PROVE  /\ snap'[b] # Junk => working_memory'[b] = snap'[b]
                      /\ working_memory'[b] # Junk =>
                           /\ StateOf(b[1])' # "Initial"
                           /\ \A side \in Sides : Has(side, b)' =>
                                \/ Copy(side, b)' = working_memory'[b]
                                \/ HasBack(b[1])' /\ side = Lag' /\ Behind(b)'
    BY DEF CleanInv
  <2>1. b \notin Touched /\ working_memory'[b] = working_memory[b]
    BY <1>2, <1>4
  <2>2. /\ StateOf(b[1])' = StateOf(b[1]) /\ Lag' = Lag /\ (HasBack(b[1])' <=> HasBack(b[1]))
        /\ \A side \in Sides : (Has(side, b)' <=> Has(side, b)) /\ Copy(side, b)' = Copy(side, b)
    BY <1>1 DEF StateOf, Active, Lag, NewSide, Other, HasBack, Has, Copy, BackBlock
  <2>3. Behind(b) => Behind(b)'
    BY <1>1, <1>5 DEF Behind
  <2>4. phase \notin Recovering
    BY <1>1 DEF Recovering
  <2> QED
    BY <2>1, <2>2, <2>3, <2>4, <1>1 DEF Safe, DataInv, CleanInv
<1>8. DirtyInv'
  BY <1>1 DEF DirtyInv, Checkpointing
<1>9. SidesInv'
  BY <1>1, <1>5 DEF Safe, DataInv, SidesInv, HasBack, BackBlock
<1> QED
  BY <1>6, <1>7, <1>8, <1>9 DEF DataInv

\* What CleanInv says of one clean block, and how it is shown.
CleanBlock(b) ==
  /\ snap[b] # Junk => working_memory[b] = snap[b]
  /\ working_memory[b] # Junk =>
       /\ StateOf(b[1]) # "Initial"
       /\ \A side \in Sides : Has(side, b) =>
            \/ Copy(side, b) = working_memory[b]
            \/ HasBack(b[1]) /\ side = Lag /\ Behind(b)

LEMMA CleanUse ==
  ASSUME Safe, phase \notin Recovering, NEW b \in Blocks, b \notin Touched PROVE CleanBlock(b)
BY DEF Safe, DataInv, CleanInv, CleanBlock

LEMMA CleanShow ==
  ASSUME ASSUME NEW b \in Blocks, b \notin Touched' PROVE CleanBlock(b)' PROVE CleanInv'
BY DEF CleanInv, CleanBlock

\* In a checkpoint the blocks stored to are the dirty ones.
LEMMA TouchedDirty ==
  ASSUME ControlInv, phase \in Checkpointing PROVE Touched = block_dirty[epoch]
BY DEF ControlInv, ModeInv, Touched

\* The side written to is the one that may lag.
LEMMA SideFacts ==
  /\ Side \in Sides /\ NewSide \in Sides /\ Lag \in Sides
  /\ phase \in {"first", "second"} => Lag = Side
  /\ phase # "second" => Lag = NewSide
  /\ phase = "first" => Side = NewSide
  /\ phase = "second" => Side = Other(NewSide)
  /\ \A s \in Sides : Other(s) \in Sides /\ Other(s) # s
  /\ \A s, r \in Sides : r = s \/ r = Other(s)
BY DEF Side, NewSide, Lag, Other, Sides

LEMMA CheckpointBeginData ==
  ASSUME Safe, CheckpointBegin, TypeOK', ControlInv', broken' = {}
  PROVE  DataInv'
<1>1. /\ phase = "run" /\ epoch' = epoch /\ target' = target /\ mpi' = mpi /\ snap' = snap
      /\ back_to_main' = back_to_main /\ main_to_back' = main_to_back
      /\ main' = main /\ main_pm' = main_pm /\ back' = back /\ back_pm' = back_pm
      /\ committed_epoch' = committed_epoch /\ segment_state' = segment_state
      /\ UNCHANGED stateVars /\ working_memory' = working_memory
      /\ address_buffer' = All({}) /\ flush_mode' = Mode(flush_blocks')
      /\ hook_routine(0, Buffered)
  BY DEF CheckpointBegin, bindVars, dataVars, stateVars
<1>2. /\ block_dirty'[epoch] = block_dirty[epoch] \cup Buffered
      /\ block_dirty'[1 - epoch] = block_dirty[1 - epoch]
      /\ segment_dirty'[1 - epoch] = segment_dirty[1 - epoch]
  <2>1. Buffered \in SUBSET Blocks /\ 0 \in Threads /\ TypeOK
    BY BufferedType, Shapes DEF Safe
  <2> QED
    BY <1>1, <2>1, HookFacts
<1>3. Touched' = Touched
  <2>1. Buffered' = {}
    BY <1>1 DEF Buffered, All
  <2> QED
    BY <1>1, <1>2, <2>1 DEF Touched
<1>4. /\ \A s \in Segments : StateOf(s)' = StateOf(s) /\ (HasBack(s)' <=> HasBack(s))
      /\ NewSide' = NewSide
      /\ \A side \in Sides, b \in Blocks : (Has(side, b)' <=> Has(side, b)) /\ Copy(side, b)' = Copy(side, b)
  BY <1>1 DEF StateOf, Active, NewSide, HasBack, Has, Copy, BackBlock
<1>5. \A u \in Threads : pc[u] = "app"
  BY <1>1 DEF Safe, ControlInv, PcInv
<1>6. CASE flush_mode' = "NO_ACTION"
  <2>1. phase' = "run" /\ pc' = pc /\ todo' = todo
    BY <1>6 DEF CheckpointBegin
  <2>2. ~(flush_mode = "WBINVD" /\ ~mpi /\ block_dirty[1 - epoch] # {})
    BY <1>6 DEF CheckpointBegin
  <2>3. Pending' = Pending
    BY <1>1, <1>2, <1>6, <2>2 DEF Pending, NeedsSync
  <2>4. BindInv' /\ MediumInv'
    BY <1>1, <2>1 DEF Safe, DataInv, BindInv, MediumInv, Side, StateOf, Active
  <2>5. SlotInv' /\ StateInv' /\ SnapInv'
    BY <1>1, <1>2, <2>1, SlotFrame, StateInvFrame, SnapFrame DEF Safe, DataInv
  <2>6. CleanInv'
    <3>1. ASSUME NEW b \in Blocks, b \notin Touched' PROVE CleanBlock(b)'
      <4>1. CleanBlock(b)
        BY <3>1, <1>1, <1>3, CleanUse DEF Recovering
      <4>2. Behind(b) => Behind(b)'
        BY <1>1, <2>1, <2>3 DEF Behind
      <4>3. Lag' = Lag
        BY <1>1, <1>4, <2>1 DEF Lag
      <4> QED
        BY <4>1, <4>2, <4>3, <1>1, <1>4, Shapes DEF CleanBlock
    <3> QED
      BY <3>1, CleanShow
  <2>7. DirtyInv' /\ SidesInv'
    BY <1>1, <2>1, <2>3 DEF Safe, DataInv, DirtyInv, SidesInv, Checkpointing, HasBack, BackBlock
  <2> QED
    BY <2>4, <2>5, <2>6, <2>7 DEF DataInv
<1>7. CASE flush_mode' # "NO_ACTION"
  <2>1. /\ phase' = "first"
        /\ \/ /\ NeedsSync /\ pc' = All("sync")
              /\ todo' = [t \in Threads |->
                    (block_dirty[1 - epoch] \ block_dirty'[epoch]) \cap SegmentShare(t)]
           \/ /\ ~NeedsSync /\ pc' = All("apply")
              /\ todo' = [t \in Threads |-> Share(t, NewSide)']
    BY <1>7 DEF CheckpointBegin
  <2>2. BindInv'
    BY <1>1, <2>1 DEF Safe, DataInv, BindInv, All
  <2>3. MediumInv'
    BY <1>1, <2>1 DEF Safe, DataInv, MediumInv
  <2>4. SlotInv' /\ StateInv' /\ SnapInv'
    BY <1>1, <1>2, <2>1, SlotFrame, StateInvFrame, SnapFrame DEF Safe, DataInv
  <2>5. CleanInv'
    <3>1. ASSUME NEW b \in Blocks, b \notin Touched' PROVE CleanBlock(b)'
      <4>1. CleanBlock(b)
        BY <3>1, <1>1, <1>3, CleanUse DEF Recovering
      <4>2. Behind(b) => Behind(b)'
        <5> SUFFICES ASSUME Behind(b) PROVE Behind(b)'
          OBVIOUS
        <5>1. b \in Pending
          BY <1>5 DEF Behind
        <5>2. NeedsSync /\ b \in block_dirty[1 - epoch]
          BY <5>1 DEF Pending
        <5>3. PICK t \in Threads : b \in SegmentShare(t)
          BY Shared
        <5>4. b \notin block_dirty'[epoch]
          BY <3>1, <1>1 DEF Touched
        <5>5. pc'[t] = "sync" /\ b \in todo'[t]
          BY <2>1, <5>2, <5>3, <5>4 DEF All
        <5> QED
          BY <5>5 DEF Behind
      <4>3. Lag' = Lag
        BY <1>1, <1>4, <2>1 DEF Lag
      <4> QED
        BY <4>1, <4>2, <4>3, <1>1, <1>4, Shapes DEF CleanBlock
    <3> QED
      BY <3>1, CleanShow
  <2>6. DirtyInv'
    <3>1. ASSUME NEW b \in block_dirty'[epoch'] PROVE Remaining(b)'
      <4>1. PICK t \in Threads : b \in Share(t, NewSide)'
        BY <3>1, <1>1, CoveredNext
      <4>2. (pc'[t] = "sync" /\ b \in Share(t, NewSide)') \/ (pc'[t] = "apply" /\ b \in todo'[t])
        BY <2>1, <4>1 DEF All
      <4> QED
        BY <4>2 DEF Remaining
    <3> QED
      BY <3>1, <2>1 DEF DirtyInv, Checkpointing
  <2>7. SidesInv'
    BY <2>1 DEF SidesInv
  <2> QED
    BY <2>2, <2>3, <2>4, <2>5, <2>6, <2>7 DEF DataInv
<1> QED
  BY <1>6, <1>7

\* A copy to the side written to, of blocks whose checkpoint is not there.
LEMMA CopyData ==
  ASSUME Safe, NEW side \in Sides, side = Side, phase \in {"first", "second"}, phase' = phase,
         epoch' = epoch, segment_dirty' = segment_dirty, UNCHANGED stateVars, snap' = snap,
         back_to_main' = back_to_main, main_to_back' = main_to_back,
         working_memory' = working_memory, NEW B \in SUBSET Blocks,
         CopyOut(side, B), \A b \in B : Has(side, b),
         \A b \in B : snap[b] # Junk => Where(b) # side,
         \A u \in Threads : pc'[u] = "created" => pc[u] = "created" /\ target'[u] = target[u]
  PROVE  /\ BindInv' /\ SlotInv' /\ StateInv' /\ MediumInv' /\ SnapInv' /\ SidesInv'
         /\ \A s \in Sides, b \in Blocks : Has(s, b)' <=> Has(s, b)
         /\ \A s \in Sides, b \in Blocks : Has(s, b) =>
              /\ s # side \/ b \notin B => Copy(s, b)' = Copy(s, b)
              /\ s = side /\ b \in B => Copy(s, b)' = working_memory[b]
         /\ \A s \in Segments : StateOf(s)' = StateOf(s) /\ (HasBack(s)' <=> HasBack(s))
         /\ Lag' = Lag /\ Side' = Side /\ NewSide' = NewSide
<1>1. TypeOK /\ OwnerInv /\ MediumInv /\ BindInv /\ SlotInv /\ StateInv /\ SnapInv
  BY DEF Safe, ControlInv, DataInv
<1>2. /\ \A s \in Sides, b \in Blocks : Has(s, b) =>
              /\ s # side \/ b \notin B => Copy(s, b)' = Copy(s, b) /\ Medium(s, b)' = Medium(s, b)
              /\ s = side /\ b \in B => Copy(s, b)' = working_memory[b]
      /\ side = "Main" => back' = back /\ back_pm' = back_pm
      /\ side = "Back" => main' = main /\ main_pm' = main_pm
      /\ \A b \in Blocks : main'[b] \in main_pm'[b]
      /\ \A d \in BackBlocks : back'[d] \in back_pm'[d]
  BY <1>1, CopyOutFacts
<1>3. /\ \A s \in Segments : StateOf(s)' = StateOf(s) /\ (HasBack(s)' <=> HasBack(s))
      /\ Lag' = Lag /\ Side' = Side /\ NewSide' = NewSide
      /\ \A s \in Sides, b \in Blocks : Has(s, b)' <=> Has(s, b)
      /\ \A b \in Blocks : Where(b)' = Where(b)
  BY DEF stateVars, StateOf, Active, Lag, Side, NewSide, Other, HasBack, Has, Where
<1>4. BindInv'
  BY <1>1, <1>3 DEF BindInv, stateVars, StateOf, Active
<1>5. SlotInv' /\ StateInv'
  BY <1>1, SlotFrame, StateInvFrame
<1>6. MediumInv'
  BY <1>1, <1>2, <1>3 DEF MediumInv, Sides
<1>7. SnapInv'
  <2> SUFFICES ASSUME NEW b \in Blocks, snap[b] # Junk
               PROVE  /\ StateOf(b[1])' # "Initial"
                      /\ \A s \in Sides : s = Where(b)' => Medium(s, b)' = {snap[b]}
    BY DEF SnapInv
  <2>1. /\ StateOf(b[1]) # "Initial"
        /\ \A s \in Sides : s = Where(b) => Medium(s, b) = {snap[b]}
    BY <1>1 DEF SnapInv
  <2>2. \A s \in Sides : s = Where(b) => Has(s, b)
    BY DEF Where, Has, Sides
  <2> QED
    BY <2>1, <2>2, <1>2, <1>3, Shapes
<1>8. SidesInv'
  BY DEF SidesInv
<1> QED
  BY <1>2, <1>3, <1>4, <1>5, <1>6, <1>7, <1>8

\* A step that copies nothing: the blocks a side lacks are still on the way.
LEMMA QuietData ==
  ASSUME Safe, phase = "first", phase' = phase, UNCHANGED <<stateVars, bindVars, dataVars,
         hookVars, modeVars, snap>>,
         \A u \in Threads : pc'[u] = "created" => pc[u] = "created" /\ target'[u] = target[u],
         \A b \in Blocks : HasBack(b[1]) /\ Behind(b) => Behind(b)',
         \A b \in Blocks : Remaining(b) => Remaining(b)'
  PROVE  DataInv'
<1>1. /\ phase = "first" /\ phase' = phase /\ epoch' = epoch
      /\ flush_mode' = flush_mode /\ flush_blocks' = flush_blocks /\ mpi' = mpi
      /\ UNCHANGED stateVars /\ committed_epoch' = committed_epoch /\ segment_state' = segment_state
      /\ snap' = snap /\ working_memory' = working_memory
      /\ back_to_main' = back_to_main /\ main_to_back' = main_to_back
      /\ main' = main /\ main_pm' = main_pm /\ back' = back /\ back_pm' = back_pm
      /\ block_dirty' = block_dirty /\ segment_dirty' = segment_dirty
      /\ address_buffer' = address_buffer
  BY DEF modeVars, bindVars, hookVars, dataVars, stateVars
<1>2. /\ Lag' = Lag /\ Side' = Side /\ NewSide' = NewSide
      /\ \A s \in Segments : StateOf(s)' = StateOf(s) /\ (HasBack(s)' <=> HasBack(s))
      /\ \A side \in Sides, b \in Blocks : (Has(side, b)' <=> Has(side, b)) /\ Copy(side, b)' = Copy(side, b)
  BY <1>1 DEF StateOf, Active, Lag, Side, NewSide, Other, HasBack, Has, Copy, BackBlock
<1>3. BindInv'
  BY <1>1, <1>2 DEF Safe, DataInv, BindInv, StateOf, Active
<1>4. SlotInv' /\ StateInv' /\ SnapInv'
  BY <1>1, SlotFrame, StateInvFrame, SnapFrame DEF Safe, DataInv
<1>5. MediumInv' /\ SidesInv'
  BY <1>1, <1>2 DEF Safe, DataInv, MediumInv, SidesInv
<1>6. CleanInv'
  <2>1. ASSUME NEW b \in Blocks, b \notin Touched' PROVE CleanBlock(b)'
    <3>1. CleanBlock(b)
      BY <2>1, <1>1, CleanUse DEF Recovering, Touched, Buffered
    <3>2. HasBack(b[1]) /\ Behind(b) => Behind(b)'
      OBVIOUS
    <3> QED
      BY <3>1, <3>2, <1>1, <1>2, Shapes DEF CleanBlock
  <2> QED
    BY <2>1, CleanShow
<1>7. DirtyInv'
  <2>1. \A side \in Sides, b \in Blocks : Stored(side, b)' <=> Stored(side, b)
    BY <1>1, <1>2 DEF Stored
  <2>2. block_dirty[epoch] \subseteq Blocks
    BY Slots DEF Safe, TypeOK
  <2> QED
    BY <2>1, <2>2, <1>1, <1>2 DEF Safe, DataInv, DirtyInv
<1> QED
  BY <1>3, <1>4, <1>5, <1>6, <1>7 DEF DataInv

LEMMA SyncSegmentData ==
  ASSUME Safe, NEW t \in Threads, SyncSegment(t) PROVE DataInv'
<1>1. /\ pc[t] = "sync" /\ phase' = phase /\ pc' = pc
      /\ UNCHANGED <<stateVars, bindVars, dataVars, hookVars, modeVars, snap>>
  BY DEF SyncSegment
<1>2. TypeOK /\ ControlInv /\ phase = "first"
  BY <1>1, PcFirst DEF Safe
<1>3. /\ \A u \in Threads : pc[u] # "sync" => todo'[u] = todo[u] /\ target'[u] = target[u]
      /\ \A u \in Threads, b \in Blocks : b \in todo[u] => b \in todo'[u] \/ ~HasBack(b[1])
  <2>1. PICK s \in {b[1] : b \in todo[t]} :
          \/ /\ main_to_back[s] = Null
             /\ todo' = [todo EXCEPT ![t] = @ \ BlocksOf(s)]
             /\ UNCHANGED <<target, back_id>>
          \/ /\ main_to_back[s] # Null
             /\ target' = [target EXCEPT ![t] = s]
             /\ back_id' = [back_id EXCEPT ![t] = main_to_back[s]]
             /\ UNCHANGED todo
    BY DEF SyncSegment
  <2>2. /\ todo \in [Threads -> SUBSET Blocks] /\ target \in [Threads -> Segments \cup {Null}]
        /\ s \in Segments
    BY <1>2, Shapes DEF TypeOK
  <2>3. \A b \in Blocks : b \in BlocksOf(s) <=> b[1] = s
    BY <2>2, BlocksOfShape
  <2> QED
    BY <1>1, <2>1, <2>2, <2>3 DEF HasBack
<1>4. \A u \in Threads : pc'[u] = "created" => pc[u] = "created" /\ target'[u] = target[u]
  BY <1>1, <1>3
<1>5. \A b \in Blocks : HasBack(b[1]) /\ Behind(b) => Behind(b)'
  <2>1. phase # "run" /\ \A u \in Threads : pc[u] = "created" => target'[u] = target[u]
    BY <1>2, <1>3
  <2> QED
    BY <1>1, <1>3, <2>1 DEF Behind
<1>6. \A b \in Blocks : Remaining(b) => Remaining(b)'
  <2>1. \A u \in Threads : Share(u, NewSide)' = Share(u, NewSide)
    BY <1>1 DEF Share, NewSide, SegmentShare, modeVars, hookVars
  <2>2. \A u \in Threads : pc[u] # "sync" => todo'[u] = todo[u]
    BY <1>3
  <2> QED
    BY <1>1, <2>1, <2>2 DEF Remaining
<1> QED
  BY <1>1, <1>2, <1>4, <1>5, <1>6, QuietData

LEMMA SyncEndData ==
  ASSUME Safe, NEW t \in Threads, SyncEnd(t) PROVE DataInv'
<1>1. /\ pc[t] = "sync" /\ todo[t] = {} /\ phase' = phase /\ target' = target
      /\ UNCHANGED <<stateVars, bindVars, dataVars, hookVars, modeVars, snap>>
      /\ todo' = [todo EXCEPT ![t] = Share(t, NewSide)] /\ pc' = [pc EXCEPT ![t] = "apply"]
  BY DEF SyncEnd, Goto
<1>2. TypeOK /\ ControlInv /\ phase = "first" /\ pc \in [Threads -> Pcs]
      /\ todo \in [Threads -> SUBSET Blocks]
  BY <1>1, PcFirst DEF Safe, TypeOK, Pcs
<1>3. /\ \A u \in Threads : u # t => pc'[u] = pc[u] /\ todo'[u] = todo[u]
      /\ pc'[t] = "apply" /\ todo'[t] = Share(t, NewSide)
  BY <1>1, <1>2
<1>4. \A u \in Threads : pc'[u] = "created" => pc[u] = "created" /\ target'[u] = target[u]
  BY <1>1, <1>3
<1>5. \A b \in Blocks : HasBack(b[1]) /\ Behind(b) => Behind(b)'
  BY <1>1, <1>2, <1>3 DEF Behind
<1>6. \A b \in Blocks : Remaining(b) => Remaining(b)'
  <2>1. \A u \in Threads : Share(u, NewSide)' = Share(u, NewSide)
    BY <1>1 DEF Share, NewSide, SegmentShare, modeVars, hookVars
  <2> QED
    BY <1>1, <1>3, <2>1 DEF Remaining
<1> QED
  BY <1>1, <1>2, <1>4, <1>5, <1>6, QuietData

LEMMA SyncCopyData ==
  ASSUME Safe, NEW t \in Threads, SyncCopy(t), broken' = {} PROVE DataInv'
<1> DEFINE B == todo[t] \cap BlocksOf(target[t])
<1>1. /\ pc[t] = "sync" /\ phase' = phase /\ pc' = pc /\ epoch' = epoch
      /\ flush_mode' = flush_mode /\ flush_blocks' = flush_blocks /\ mpi' = mpi
      /\ UNCHANGED stateVars /\ snap' = snap /\ working_memory' = working_memory
      /\ back_to_main' = back_to_main /\ main_to_back' = main_to_back
      /\ block_dirty' = block_dirty /\ segment_dirty' = segment_dirty
      /\ address_buffer' = address_buffer
      /\ todo' = [todo EXCEPT ![t] = @ \ B] /\ target' = [target EXCEPT ![t] = Null]
      /\ main_to_back[target[t]] = back_id[t]
  BY DEF SyncCopy, modeVars, bindVars, hookVars
<1>2. /\ TypeOK /\ ControlInv /\ todo[t] \subseteq Blocks /\ phase = "first"
      /\ todo[t] \subseteq block_dirty[1 - epoch] \ block_dirty[epoch]
      /\ CopyOut(NewSide, B) /\ \A b \in B : HasBack(b[1])
  BY <1>1, PcFirst, SyncCopyOut DEF Safe, TypeOK, ControlInv, TodoInv
<1>3. PICK side \in Sides : side = Side /\ side = NewSide /\ side = Lag
  BY <1>2, SideFacts
<1>4. /\ B \in SUBSET Blocks /\ CopyOut(side, B) /\ \A b \in B : Has(side, b)
      /\ B \subseteq todo[t]
  BY <1>1, <1>2, <1>3 DEF Has, HasBack
<1>5. ASSUME NEW b \in B PROVE Where(b) # side
  <2>1. b[1] \in segment_dirty[1 - epoch] /\ HasBack(b[1])
    BY <1>2, Slots DEF ControlInv, ListInv, HasBack
  <2>2. StateOf(b[1]) = Other(NewSide)
    BY <2>1, <1>2 DEF Safe, DataInv, StateInv
  <2> QED
    BY <2>1, <2>2, <1>3, SideFacts DEF Where
<1>6. \A u \in Threads : pc'[u] = "created" => pc[u] = "created" /\ target'[u] = target[u]
  BY <1>1 DEF Safe, TypeOK
<1> HIDE DEF B
<1>7. /\ BindInv' /\ SlotInv' /\ StateInv' /\ MediumInv' /\ SnapInv' /\ SidesInv'
      /\ \A s \in Sides, b \in Blocks : Has(s, b)' <=> Has(s, b)
      /\ \A s \in Sides, b \in Blocks : Has(s, b) =>
              /\ s # side \/ b \notin B => Copy(s, b)' = Copy(s, b)
              /\ s = side /\ b \in B => Copy(s, b)' = working_memory[b]
      /\ \A s \in Segments : StateOf(s)' = StateOf(s) /\ (HasBack(s)' <=> HasBack(s))
      /\ Lag' = Lag /\ Side' = Side /\ NewSide' = NewSide
  <2>1. phase \in {"first", "second"} /\ side = Side /\ \A b \in B : snap[b] # Junk => Where(b) # side
    BY <1>2, <1>3, <1>5
  <2> QED
    BY <2>1, <1>1, <1>4, <1>6, CopyData
<1>8. CleanInv'
  <2>1. ASSUME NEW b \in Blocks, b \notin Touched' PROVE CleanBlock(b)'
    <3>1. b \notin Touched
      BY <2>1, <1>1 DEF Touched, Buffered
    <3>2. CleanBlock(b)
      BY <3>1, <1>2, CleanUse DEF Recovering
    <3>3. Behind(b) => Behind(b)' \/ b \in B
      BY <1>1, <1>2, <1>6 DEF Behind, TypeOK
    <3> QED
      BY <3>2, <3>3, <1>1, <1>3, <1>7, Shapes DEF CleanBlock
  <2> QED
    BY <2>1, CleanShow
<1>9. DirtyInv'
  <2>1. ASSUME NEW b \in block_dirty'[epoch'] PROVE Remaining(b)' \/ Stored(side, b)'
    <3>1. b \in block_dirty[epoch] /\ b \in Blocks /\ b \notin B
      BY <1>1, <1>2, <1>4, Slots DEF TypeOK
    <3>2. Remaining(b) \/ Stored(side, b)
      BY <3>1, <1>2, <1>3 DEF Safe, DataInv, DirtyInv
    <3>3. CASE Remaining(b)
      <4>1. \A u \in Threads : Share(u, NewSide)' = Share(u, NewSide)
        BY <1>1 DEF Share, NewSide, SegmentShare
      <4>2. \A u \in Threads : pc[u] # "sync" => todo'[u] = todo[u]
        BY <1>1, <1>2 DEF TypeOK
      <4> QED
        BY <3>3, <4>1, <4>2, <1>1 DEF Remaining
    <3>4. CASE Stored(side, b)
      BY <3>1, <3>4, <1>1, <1>7 DEF Stored
    <3> QED
      BY <3>2, <3>3, <3>4
  <2> QED
    BY <2>1, <1>1, <1>2, <1>3, <1>7 DEF DirtyInv, Checkpointing
<1> QED
  BY <1>7, <1>8, <1>9 DEF DataInv

LEMMA ApplyData ==
  ASSUME Safe, NEW t \in Threads, Apply(t), broken' = {} PROVE DataInv'
<1> DEFINE B == Direct(t)
<1>1. /\ pc[t] = "apply" /\ phase' = phase /\ target' = target /\ epoch' = epoch
      /\ flush_mode' = flush_mode /\ flush_blocks' = flush_blocks /\ mpi' = mpi
      /\ UNCHANGED stateVars /\ snap' = snap /\ working_memory' = working_memory
      /\ back_to_main' = back_to_main /\ main_to_back' = main_to_back
      /\ block_dirty' = block_dirty /\ segment_dirty' = segment_dirty
      /\ address_buffer' = address_buffer
      /\ todo' = [todo EXCEPT ![t] = @ \ B] /\ CopyOut(Side, B)
      /\ pc' = [pc EXCEPT ![t] = IF todo[t] = B THEN "barrier" ELSE "apply"]
      /\ \A b \in B : Harm(b) = {}
  BY DEF Apply, Goto, modeVars, bindVars, hookVars
<1>2. /\ TypeOK /\ ControlInv /\ todo[t] \in SUBSET Blocks /\ todo[t] \subseteq block_dirty[epoch]
      /\ pc \in [Threads -> Pcs] /\ todo \in [Threads -> SUBSET Blocks]
  BY <1>1 DEF Safe, TypeOK, ControlInv, TodoInv, Pcs
<1>3. phase \in {"first", "second"}
  BY <1>1, <1>2 DEF ControlInv, PcInv, TypeOK, Recovering
<1>4. PICK side \in Sides : side = Side /\ side = Lag
  BY <1>3, SideFacts
<1>5. B \subseteq todo[t] /\ \A b \in B : ~NeedsBack(b[1])
  BY DEF Direct
<1> HIDE DEF B
<1>6. B \in SUBSET Blocks /\ CopyOut(side, B) /\ \A b \in B : Has(side, b)
  <2>1. B \in SUBSET Blocks
    BY <1>2, <1>5
  <2>2. \A b \in B : Has(side, b)
    BY <1>4, <1>5 DEF NeedsBack, Has, HasBack
  <2> QED
    BY <2>1, <2>2, <1>1, <1>4
<1>7. ASSUME NEW b \in B, snap[b] # Junk PROVE Where(b) # side
  <2>1. b \in Blocks /\ StateOf(b[1]) # "Initial" /\ StateOf(b[1]) \in States
    BY <1>2, <1>5, <1>7, Slots, Shapes DEF Safe, DataInv, SnapInv
  <2>2. CASE HasBack(b[1])
    <3>1. StateOf(b[1]) # Side
      BY <1>1, <2>2 DEF Harm, HasBack
    <3> QED
      BY <2>2, <3>1, <1>4 DEF Where
  <2>3. CASE ~HasBack(b[1])
    <3>1. StateOf(b[1]) # "Back" /\ StateOf(b[1]) # "Main"
      BY <1>1, <1>5, <2>3 DEF Harm, NeedsBack, HasBack
    <3> QED
      BY <2>1, <3>1 DEF States
  <2> QED
    BY <2>2, <2>3
<1>8. \A u \in Threads : pc'[u] = "created" => pc[u] = "created" /\ target'[u] = target[u]
  BY <1>1, <1>2
<1>9. /\ BindInv' /\ SlotInv' /\ StateInv' /\ MediumInv' /\ SnapInv' /\ SidesInv'
      /\ \A s \in Sides, b \in Blocks : Has(s, b)' <=> Has(s, b)
      /\ \A s \in Sides, b \in Blocks : Has(s, b) =>
              /\ s # side \/ b \notin B => Copy(s, b)' = Copy(s, b)
              /\ s = side /\ b \in B => Copy(s, b)' = working_memory[b]
      /\ \A s \in Segments : StateOf(s)' = StateOf(s) /\ (HasBack(s)' <=> HasBack(s))
      /\ Lag' = Lag /\ Side' = Side /\ NewSide' = NewSide
  <2>1. side = Side /\ \A b \in B : snap[b] # Junk => Where(b) # side
    BY <1>4, <1>7
  <2> QED
    BY <2>1, <1>1, <1>3, <1>6, <1>8, CopyData
<1>10. CleanInv'
  <2>1. ASSUME NEW b \in Blocks, b \notin Touched' PROVE CleanBlock(b)'
    <3>1. b \notin Touched /\ b \notin B
      BY <2>1, <1>1, <1>2, <1>5 DEF Touched, Buffered
    <3>2. CleanBlock(b)
      BY <3>1, <1>3, CleanUse DEF Recovering
    <3>3. Behind(b) => Behind(b)'
      BY <1>1, <1>2, <1>3 DEF Behind
    <3> QED
      BY <3>1, <3>2, <3>3, <1>1, <1>9, Shapes DEF CleanBlock
  <2> QED
    BY <2>1, CleanShow
<1>11. DirtyInv'
  <2>0. Side # NewSide \/ phase = "first"
    BY <1>3, SideFacts
  <2>1. ASSUME NEW b \in block_dirty'[epoch'] PROVE Remaining(b)' \/ Stored(side, b)'
    <3>1. b \in block_dirty[epoch] /\ b \in Blocks
      BY <1>1, <1>2, Slots DEF TypeOK
    <3>2. Remaining(b) \/ Stored(side, b)
      BY <3>1, <1>3, <1>4 DEF Safe, DataInv, DirtyInv
    <3>3. CASE Remaining(b) /\ b \notin B
      <4>1. PICK u \in Threads : \/ pc[u] \in {"apply", "alloc", "created"} /\ b \in todo[u]
                                 \/ pc[u] = "sync" /\ b \in Share(u, NewSide)
        BY <3>3 DEF Remaining
      <4>2. CASE u = t
        <5>1. b \in todo[t] /\ todo[t] # B
          BY <4>1, <4>2, <1>1, <3>3
        <5>2. pc'[t] = "apply" /\ b \in todo'[t]
          BY <5>1, <1>1, <1>2, <3>3
        <5> QED
          BY <5>2 DEF Remaining
      <4>3. CASE u # t
        <5>1. Share(u, NewSide)' = Share(u, NewSide)
          BY <1>1 DEF Share, NewSide, SegmentShare
        <5>2. pc'[u] = pc[u] /\ todo'[u] = todo[u]
          BY <4>3, <1>1, <1>2
        <5> QED
          BY <4>1, <5>1, <5>2 DEF Remaining
      <4> QED
        BY <4>2, <4>3
    <3>4. CASE b \in B
      BY <3>1, <3>4, <1>1, <1>6, <1>9 DEF Stored
    <3>5. CASE Stored(side, b) /\ b \notin B
      BY <3>1, <3>5, <1>1, <1>9 DEF Stored
    <3> QED
      BY <3>2, <3>3, <3>4, <3>5
  <2>2. ASSUME NEW s \in Sides, NEW b \in block_dirty'[epoch'], phase # "first", s = NewSide
        PROVE  Stored(s, b)'
    <3>1. b \in block_dirty[epoch] /\ b \in Blocks
      BY <1>1, <1>2, Slots DEF TypeOK
    <3>2. Stored(s, b)
      BY <2>2, <3>1, <1>3 DEF Safe, DataInv, DirtyInv, Checkpointing
    <3> QED
      BY <2>0, <2>2, <3>1, <3>2, <1>1, <1>4, <1>9 DEF Stored
  <2>3. phase \in {"copy", "second", "finish"} => snap = working_memory
    BY DEF Safe, DataInv, DirtyInv
  <2> QED
    BY <2>1, <2>2, <2>3, <1>1, <1>3, <1>4, <1>9 DEF DirtyInv
<1> QED
  BY <1>9, <1>10, <1>11 DEF DataInv

LEMMA FindBackSegmentData ==
  ASSUME Safe, NEW t \in Threads, FindBackSegment(t) PROVE DataInv'
<1>1. /\ pc[t] = "apply" /\ phase' = phase /\ todo' = todo /\ epoch' = epoch
      /\ flush_mode' = flush_mode /\ flush_blocks' = flush_blocks /\ mpi' = mpi
      /\ UNCHANGED stateVars /\ committed_epoch' = committed_epoch /\ segment_state' = segment_state
      /\ snap' = snap /\ working_memory' = working_memory
      /\ back_to_main' = back_to_main /\ main_to_back' = main_to_back
      /\ main' = main /\ main_pm' = main_pm /\ back' = back /\ back_pm' = back_pm
      /\ block_dirty' = block_dirty /\ segment_dirty' = segment_dirty
      /\ address_buffer' = address_buffer /\ pc' = [pc EXCEPT ![t] = "alloc"]
  BY DEF FindBackSegment, Goto, modeVars, bindVars, hookVars, dataVars, stateVars
<1>2. \A u \in Threads : u # t => target'[u] = target[u]
  BY DEF FindBackSegment, Safe, TypeOK
<1>3. TypeOK /\ ControlInv /\ pc \in [Threads -> Pcs]
  BY DEF Safe, TypeOK, Pcs
<1>4. phase \in {"first", "second"}
  BY <1>1, <1>3 DEF ControlInv, PcInv, TypeOK, Recovering
<1>5. /\ Lag' = Lag /\ Side' = Side /\ NewSide' = NewSide
      /\ \A s \in Segments : StateOf(s)' = StateOf(s) /\ (HasBack(s)' <=> HasBack(s))
      /\ \A side \in Sides, b \in Blocks : (Has(side, b)' <=> Has(side, b)) /\ Copy(side, b)' = Copy(side, b)
  BY <1>1 DEF StateOf, Active, Lag, Side, NewSide, Other, HasBack, Has, Copy, BackBlock
<1>6. BindInv'
  BY <1>1, <1>2, <1>3, <1>5 DEF Safe, DataInv, BindInv, StateOf, Active
<1>7. SlotInv' /\ StateInv' /\ SnapInv'
  BY <1>1, <1>4, SlotFrame, StateInvFrame, SnapFrame DEF Safe, DataInv
<1>8. MediumInv' /\ SidesInv'
  BY <1>1, <1>4, <1>5 DEF Safe, DataInv, MediumInv, SidesInv
<1>9. CleanInv'
  <2>1. ASSUME NEW b \in Blocks, b \notin Touched' PROVE CleanBlock(b)'
    <3>1. CleanBlock(b)
      BY <2>1, <1>1, <1>4, CleanUse DEF Recovering, Touched, Buffered
    <3>2. Behind(b) => Behind(b)'
      <4>1. \A u \in Threads : pc[u] \in {"sync", "created"} =>
                                 u # t /\ pc'[u] = pc[u] /\ target'[u] = target[u]
        BY <1>1, <1>2, <1>3
      <4> QED
        BY <4>1, <1>1, <1>4 DEF Behind
    <3> QED
      BY <3>1, <3>2, <1>1, <1>5, Shapes DEF CleanBlock
  <2> QED
    BY <2>1, CleanShow
<1>10. DirtyInv'
  <2>1. ASSUME NEW b \in Blocks PROVE Remaining(b) => Remaining(b)'
    <3> SUFFICES ASSUME Remaining(b) PROVE Remaining(b)'
      OBVIOUS
    <3>1. PICK u \in Threads : \/ pc[u] \in {"apply", "alloc", "created"} /\ b \in todo[u]
                               \/ pc[u] = "sync" /\ b \in Share(u, NewSide)
      BY DEF Remaining
    <3>2. Share(u, NewSide)' = Share(u, NewSide)
      BY <1>1 DEF Share, NewSide, SegmentShare
    <3>3. \/ pc'[u] \in {"apply", "alloc", "created"} /\ b \in todo'[u]
          \/ pc'[u] = "sync" /\ b \in Share(u, NewSide)'
      BY <3>1, <3>2, <1>1, <1>3
    <3> QED
      BY <3>3 DEF Remaining
  <2>2. \A side \in Sides, b \in Blocks : Stored(side, b)' <=> Stored(side, b)
    BY <1>1, <1>5 DEF Stored
  <2>3. block_dirty[epoch] \subseteq Blocks
    BY <1>3, Slots DEF TypeOK
  <2> QED
    BY <2>1, <2>2, <2>3, <1>1, <1>4, <1>5 DEF Safe, DataInv, DirtyInv
<1> QED
  BY <1>6, <1>7, <1>8, <1>9, <1>10 DEF DataInv

\* The back segment taken away belonged to a segment that is not dirty, and
\* that the main side has.
LEMMA AllocateBackSegmentData ==
  ASSUME Safe, NEW t \in Threads, AllocateBackSegment(t), TypeOK', ControlInv', broken' = {}
  PROVE  DataInv'
<1>0. PICK s : s = target[t]
  OBVIOUS
<1>1. /\ pc[t] = "alloc" /\ phase' = phase /\ todo' = todo /\ epoch' = epoch /\ target' = target
      /\ flush_mode' = flush_mode /\ flush_blocks' = flush_blocks /\ mpi' = mpi
      /\ UNCHANGED stateVars /\ committed_epoch' = committed_epoch /\ segment_state' = segment_state
      /\ snap' = snap /\ working_memory' = working_memory
      /\ main' = main /\ main_pm' = main_pm /\ back' = back /\ back_pm' = back_pm
      /\ block_dirty' = block_dirty /\ segment_dirty' = segment_dirty
      /\ address_buffer' = address_buffer /\ pc' = [pc EXCEPT ![t] = "created"]
  BY DEF AllocateBackSegment, Goto, modeVars, hookVars, dataVars, stateVars
<1>2. Side = "Back" /\ StateOf(s) # "Back" /\ ~HasBack(s)
  <2>1. broken' = IF Side = "Main" \/ StateOf(s) = "Back" \/ main_to_back[s] # Null
                  THEN broken \cup {"steal"} ELSE broken
    BY <1>0 DEF AllocateBackSegment
  <2>2. ~(Side = "Main" \/ StateOf(s) = "Back" \/ main_to_back[s] # Null)
    BY <2>1
  <2> QED
    BY <2>2, SideFacts DEF HasBack, Sides
<1>3. PICK n \in BackSegments : Stealable(n) /\ bind_back_segment(s, Candidate(n))
  BY <1>0 DEF AllocateBackSegment
<1>3a. PICK c, r : c = Candidate(n) /\ r = back_to_main[c]
  OBVIOUS
<1>4. TypeOK /\ ControlInv /\ pc \in [Threads -> Pcs] /\ OwnerInv
  BY DEF Safe, TypeOK, ControlInv, Pcs
<1>5. s \in segment_dirty[epoch] /\ s \in Segments /\ c \in BackSegments
  BY <1>0, <1>3a, <1>1, <1>4, CandidateType, Slots DEF TypeOK, ControlInv, TodoInv
<1>6. r \notin segment_dirty[epoch] /\ bind_back_segment(s, c) /\ r # s /\ r \in Segments
  BY <1>3, <1>3a, <1>4, <1>5 DEF Stealable, TypeOK, ImageTypeOK
<1>7. phase \in {"first", "second"} /\ phase # "open"
  BY <1>1, <1>4 DEF ControlInv, PcInv, TypeOK, Recovering
<1>8. /\ main_to_back'[s] = c /\ back_to_main'[c] = s
      /\ \A d \in BackSegments : d # c => back_to_main'[d] = back_to_main[d]
      /\ \A q \in Segments : q # s /\ q # back_to_main[c] => main_to_back'[q] = main_to_back[q]
      /\ \A q \in Segments : q # s /\ main_to_back[q] = c => main_to_back'[q] = Null
  BY <1>4, <1>5, <1>6, BindFacts
<1>9. main_to_back[r] = c /\ main_to_back'[r] = Null
  BY <1>3a, <1>5, <1>6, <1>7, <1>8 DEF Safe, DataInv, BindInv
<1>10. /\ HasBack(r) /\ ~HasBack(r)' /\ HasBack(s)'
       /\ \A q \in Segments : q # s /\ q # r =>
            main_to_back'[q] = main_to_back[q] /\ (HasBack(q)' <=> HasBack(q))
  BY <1>3a, <1>5, <1>8, <1>9, Shapes DEF HasBack
<1>11. /\ Lag' = Lag /\ Lag = "Back" /\ Side' = Side /\ NewSide' = NewSide
       /\ \A q \in Segments : StateOf(q)' = StateOf(q)
  BY <1>1, <1>2, <1>7, SideFacts DEF StateOf, Active, Lag, Side, NewSide, Other
<1>12. ASSUME NEW b \in Blocks, b[1] # s, b[1] # r
       PROVE  \A side \in Sides : /\ Has(side, b)' <=> Has(side, b)
                                  /\ Copy(side, b)' = Copy(side, b) /\ Medium(side, b)' = Medium(side, b)
  BY <1>1, <1>10, <1>12, Shapes DEF Has, HasBack, Copy, Medium, BackBlock
<1>13. ASSUME NEW b \in Blocks, b[1] = r PROVE CleanBlock(b)
  <2>1. b \notin block_dirty[epoch]
    BY <1>4, <1>6, <1>13, Slots DEF ControlInv, ListInv
  <2>2. b \notin Touched
    BY <1>4, <1>7, <2>1, TouchedDirty DEF Checkpointing
  <2> QED
    BY <2>2, <1>7, CleanUse DEF Recovering
<1>14. ASSUME NEW b \in Blocks, b[1] = r, working_memory[b] # Junk PROVE main[b] = working_memory[b]
  BY <1>11, <1>13, <1>14 DEF CleanBlock, Sides, Has, Copy
<1>15. BindInv'
  <2>1. \A d \in BackSegments : d # c => /\ back_to_main[d] # s /\ back_to_main[d] # r
                                         /\ main_to_back[back_to_main[d]] = d
                                         /\ back_to_main[d] \in Segments
    <3> SUFFICES ASSUME NEW d \in BackSegments, d # c
                 PROVE  /\ back_to_main[d] # s /\ back_to_main[d] # r
                        /\ main_to_back[back_to_main[d]] = d
                        /\ back_to_main[d] \in Segments
      OBVIOUS
    <3>1. main_to_back[back_to_main[d]] = d
      BY <1>7 DEF Safe, DataInv, BindInv
    <3>2. main_to_back[s] = Null /\ d # Null
      BY <1>2, Shapes DEF HasBack
    <3> QED
      BY <3>1, <3>2, <1>4, <1>9 DEF TypeOK, ImageTypeOK
  <2>2. \A d \in BackSegments : main_to_back'[back_to_main'[d]] = d
    BY <2>1, <1>8, <1>10
  <2>3. \A d, e \in BackSegments : back_to_main'[d] = back_to_main'[e] => d = e
    BY <2>2
  <2>4. \A u \in Threads : pc'[u] = "created" => Side' = "Back" /\ StateOf(target[u])' # "Back"
    <3> SUFFICES ASSUME NEW u \in Threads, pc'[u] = "created"
                 PROVE  StateOf(target[u])' # "Back"
      BY <1>2, <1>11
    <3>1. StateOf(target[u]) # "Back"
      <4>1. CASE u = t
        BY <4>1, <1>0, <1>2
      <4>2. CASE u # t
        BY <4>2, <1>1, <1>4 DEF Safe, DataInv, BindInv
      <4> QED
        BY <4>1, <4>2
    <3> QED
      BY <3>1, <1>1 DEF StateOf, Active
  <2> QED
    BY <2>2, <2>3, <2>4, <1>1 DEF BindInv, StateOf, Active
<1>16. SlotInv' /\ StateInv'
  BY <1>1, SlotFrame, StateInvFrame DEF Safe, DataInv
<1>17. MediumInv' /\ SidesInv'
  BY <1>1, <1>7, <1>11 DEF Safe, DataInv, MediumInv, SidesInv
<1>18. SnapInv'
  <2> SUFFICES ASSUME NEW b \in Blocks, snap[b] # Junk
               PROVE  /\ StateOf(b[1])' # "Initial"
                      /\ \A side \in Sides : side = Where(b)' => Medium(side, b)' = {snap[b]}
    BY <1>1, <1>7 DEF SnapInv
  <2>1. /\ StateOf(b[1]) # "Initial" /\ b[1] \in Segments /\ StateOf(b[1]) \in States
        /\ \A side \in Sides : side = Where(b) => Medium(side, b) = {snap[b]}
    BY <1>4, <1>7, Shapes, Slots DEF Safe, DataInv, SnapInv
  <2>2. CASE b[1] = s
    <3>1. Where(b) = "Main" /\ Where(b)' = "Main"
      BY <2>1, <2>2, <1>2, <1>10, <1>11 DEF Where, States
    <3> QED
      BY <2>1, <3>1, <1>1, <1>11 DEF Medium, Sides
  <2>3. CASE b[1] = r
    <3>1. Where(b)' = "Main"
      BY <2>3, <1>10 DEF Where
    <3>2. main[b] = snap[b]
      BY <2>3, <1>13, <1>14 DEF CleanBlock
    <3>3. main_pm[b] = {main[b]}
      <4>1. main_pm = Settled(main)
        BY <1>2, <1>7 DEF Safe, DataInv, MediumInv
      <4> QED
        BY <4>1, <1>4 DEF Settled, TypeOK, ImageTypeOK
    <3> QED
      BY <2>1, <3>1, <3>2, <3>3, <1>1, <1>11 DEF Medium, Sides
  <2>4. CASE b[1] # s /\ b[1] # r
    <3>1. Where(b)' = Where(b)
      BY <2>1, <2>4, <1>10, <1>11 DEF Where
    <3> QED
      BY <2>1, <2>4, <3>1, <1>11, <1>12
  <2> QED
    BY <2>2, <2>3, <2>4
<1>19. CleanInv'
  <2>1. ASSUME NEW b \in Blocks, b \notin Touched' PROVE CleanBlock(b)'
    <3>1. CleanBlock(b)
      BY <2>1, <1>1, <1>7, CleanUse DEF Recovering, Touched, Buffered
    <3>2. b[1] \in Segments /\ StateOf(b[1])' = StateOf(b[1])
      BY <1>11, Shapes
    <3>3. CASE b[1] = s
      <4>1. working_memory[b] # Junk => main[b] = working_memory[b]
        BY <3>1, <3>3, <1>2 DEF CleanBlock, Sides, Has, Copy
      <4>2. Behind(b)'
        <5>1. pc'[t] = "created" /\ target'[t] = b[1]
          BY <3>3, <1>0, <1>1, <1>4
        <5> QED
          BY <5>1 DEF Behind
      <4>3. \A side \in Sides : side = "Main" \/ side = Lag'
        BY <1>11 DEF Sides
      <4> QED
        BY <3>1, <3>2, <3>3, <4>1, <4>2, <4>3, <1>1, <1>10 DEF CleanBlock, Copy
    <3>4. CASE b[1] = r
      <4>1. \A side \in Sides : Has(side, b)' => side = "Main"
        BY <3>4, <1>10 DEF Sides, Has
      <4> QED
        BY <3>1, <3>2, <3>4, <4>1, <1>1, <1>14 DEF CleanBlock, Copy
    <3>5. CASE b[1] # s /\ b[1] # r
      <4>1. Behind(b) => Behind(b)'
        <5>1. \A u \in Threads : pc[u] \in {"sync", "created"} => pc'[u] = pc[u]
          BY <1>1, <1>4
        <5> QED
          BY <5>1, <1>1, <1>7 DEF Behind
      <4>2. HasBack(b[1])' <=> HasBack(b[1])
        BY <3>2, <3>5, <1>10
      <4> QED
        BY <3>1, <3>2, <3>5, <4>1, <4>2, <1>1, <1>11, <1>12 DEF CleanBlock
    <3> QED
      BY <3>3, <3>4, <3>5
  <2> QED
    BY <2>1, CleanShow
<1>20. DirtyInv'
  <2>0. block_dirty[epoch] \subseteq Blocks /\ \A b \in block_dirty[epoch] : b[1] # r
    BY <1>4, <1>6, Slots DEF TypeOK, ControlInv, ListInv
  <2>1. ASSUME NEW b \in Blocks PROVE Remaining(b) => Remaining(b)'
    <3> SUFFICES ASSUME Remaining(b) PROVE Remaining(b)'
      OBVIOUS
    <3>1. PICK u \in Threads : \/ pc[u] \in {"apply", "alloc", "created"} /\ b \in todo[u]
                               \/ pc[u] = "sync" /\ b \in Share(u, NewSide)
      BY DEF Remaining
    <3>2. Share(u, NewSide)' = Share(u, NewSide)
      BY <1>1 DEF Share, NewSide, SegmentShare
    <3>3. \/ pc'[u] \in {"apply", "alloc", "created"} /\ b \in todo'[u]
          \/ pc'[u] = "sync" /\ b \in Share(u, NewSide)'
      BY <3>1, <3>2, <1>1, <1>4
    <3> QED
      BY <3>3 DEF Remaining
  <2>2. ASSUME NEW side \in Sides, NEW b \in block_dirty[epoch], Stored(side, b)
        PROVE  Stored(side, b)'
    <3>1. CASE b[1] = s
      <4>1. side = "Main"
        BY <2>2, <3>1, <1>2 DEF Stored, Has, Sides
      <4> QED
        BY <2>2, <4>1, <1>1 DEF Stored, Has, Copy
    <3>2. CASE b[1] # s
      BY <2>0, <2>2, <3>2, <1>1, <1>12 DEF Stored
    <3> QED
      BY <3>1, <3>2
  <2> QED
    BY <2>0, <2>1, <2>2, <1>1, <1>7, <1>11 DEF Safe, DataInv, DirtyInv
<1> QED
  BY <1>15, <1>16, <1>17, <1>18, <1>19, <1>20 DEF DataInv

LEMMA FillBackData ==
  ASSUME Safe, NEW t \in Threads, FillBack(t) PROVE DataInv'
<1> DEFINE s == target[t]
           B == IF StateOf(s) # "Initial" THEN BlocksOf(s) ELSE {}
<1>1. /\ pc[t] = "created" /\ phase' = phase /\ epoch' = epoch
      /\ flush_mode' = flush_mode /\ flush_blocks' = flush_blocks /\ mpi' = mpi
      /\ UNCHANGED stateVars /\ snap' = snap /\ working_memory' = working_memory
      /\ back_to_main' = back_to_main /\ main_to_back' = main_to_back
      /\ block_dirty' = block_dirty /\ segment_dirty' = segment_dirty
      /\ address_buffer' = address_buffer /\ pc' = [pc EXCEPT ![t] = "apply"]
      /\ target' = [target EXCEPT ![t] = Null] /\ Side = "Back"
  BY DEF FillBack, Goto, modeVars, bindVars, hookVars
<1>2. /\ TypeOK /\ ControlInv /\ pc \in [Threads -> Pcs] /\ todo \in [Threads -> SUBSET Blocks]
      /\ target \in [Threads -> Segments \cup {Null}]
  BY DEF Safe, TypeOK, ControlInv, Pcs
<1>3. s \in Segments /\ HasBack(s) /\ StateOf(s) # "Back"
  BY <1>1, <1>2, Slots DEF TypeOK, ControlInv, TodoInv, Safe, DataInv, BindInv
<1>4. phase \in {"first", "second"} /\ phase # "open"
  BY <1>1, <1>2 DEF ControlInv, PcInv, TypeOK, Recovering
<1>5. "Back" \in Sides /\ "Back" = Side /\ Lag = "Back"
  BY <1>1, <1>4, SideFacts DEF Sides
<1>6. B \in SUBSET Blocks /\ \A b \in Blocks : b \in B <=> (b[1] = s /\ StateOf(s) # "Initial")
  BY <1>3, BlocksOfShape
<1>7. \A b \in B : Has("Back", b) /\ Where(b) # "Back"
  BY <1>3, <1>6 DEF Has, Where
<1>8. CopyOut("Back", B) /\ todo' = [todo EXCEPT ![t] = @ \ B]
  <2>1. CASE StateOf(s) # "Initial"
    BY <2>1 DEF FillBack
  <2>2. CASE StateOf(s) = "Initial"
    <3>1. /\ main' = main /\ main_pm' = main_pm /\ back' = back /\ back_pm' = back_pm /\ todo' = todo
          /\ B = {}
      BY <2>2 DEF FillBack, dataVars
    <3> HIDE DEF B
    <3>2. /\ back \in [BackBlocks -> Contents] /\ back_pm \in [BackBlocks -> (SUBSET Contents) \ {{}}]
      BY <1>2 DEF TypeOK, ImageTypeOK
    <3>3. BackOf(B) = {}
      BY <3>1 DEF BackOf
    <3>4. back = Write(back, BackOf(B), FromWork) /\ back_pm = Put(back_pm, BackOf(B), FromWork)
      BY <3>2, <3>3 DEF Write, Put
    <3>5. todo' = [todo EXCEPT ![t] = @ \ B]
      BY <3>1, <1>2
    <3> QED
      BY <3>1, <3>4, <3>5 DEF CopyOut
  <2> QED
    BY <2>1, <2>2
<1>9. \A u \in Threads : pc'[u] = "created" => u # t /\ pc[u] = "created" /\ target'[u] = target[u]
  BY <1>1, <1>2
<1> HIDE DEF s, B
<1>10. /\ BindInv' /\ SlotInv' /\ StateInv' /\ MediumInv' /\ SnapInv' /\ SidesInv'
       /\ \A r \in Sides, b \in Blocks : Has(r, b)' <=> Has(r, b)
       /\ \A r \in Sides, b \in Blocks : Has(r, b) =>
              /\ r # "Back" \/ b \notin B => Copy(r, b)' = Copy(r, b)
              /\ r = "Back" /\ b \in B => Copy(r, b)' = working_memory[b]
       /\ \A r \in Segments : StateOf(r)' = StateOf(r) /\ (HasBack(r)' <=> HasBack(r))
       /\ Lag' = Lag /\ Side' = Side /\ NewSide' = NewSide
  <2>1. /\ \A b \in B : Has("Back", b) /\ (snap[b] # Junk => Where(b) # "Back")
        /\ \A u \in Threads : pc'[u] = "created" => pc[u] = "created" /\ target'[u] = target[u]
    BY <1>7, <1>9
  <2> QED
    BY <2>1, <1>1, <1>4, <1>5, <1>6, <1>8, CopyData
<1>11. CleanInv'
  <2>1. ASSUME NEW b \in Blocks, b \notin Touched' PROVE CleanBlock(b)'
    <3>1. CleanBlock(b) /\ b[1] \in Segments
      BY <2>1, <1>1, <1>4, CleanUse, Shapes DEF Recovering, Touched, Buffered
    <3>2. Behind(b) => Behind(b)' \/ b[1] = s
      <4>1. \A u \in Threads : pc[u] = "created" => u = t \/ (pc'[u] = "created" /\ target'[u] = target[u])
        BY <1>1, <1>2
      <4>2. \A u \in Threads : pc[u] = "sync" => pc'[u] = "sync" /\ todo'[u] = todo[u]
        BY <1>1, <1>2, <1>8
      <4> QED
        BY <4>1, <4>2, <1>4 DEF Behind, s
    <3>3. working_memory[b] # Junk => StateOf(b[1]) # "Initial"
      BY <3>1 DEF CleanBlock
    <3>4. b[1] = s /\ StateOf(b[1]) # "Initial" => b \in B
      BY <1>6
    <3> QED
      BY <3>1, <3>2, <3>3, <3>4, <1>1, <1>5, <1>10 DEF CleanBlock
  <2> QED
    BY <2>1, CleanShow
<1>12. DirtyInv'
  <2>0. (NewSide # "Back" \/ phase = "first") /\ block_dirty[epoch] \subseteq Blocks
    BY <1>2, <1>4, <1>5, SideFacts, Slots DEF TypeOK
  <2>1. ASSUME NEW b \in block_dirty[epoch] PROVE Remaining(b)' \/ Stored("Back", b)'
    <3>1. b \in Blocks /\ (Remaining(b) \/ Stored("Back", b))
      BY <2>0, <1>4, <1>5 DEF Safe, DataInv, DirtyInv
    <3>2. CASE Remaining(b) /\ b \notin B
      <4>1. PICK u \in Threads : \/ pc[u] \in {"apply", "alloc", "created"} /\ b \in todo[u]
                                 \/ pc[u] = "sync" /\ b \in Share(u, NewSide)
        BY <3>2 DEF Remaining
      <4>2. Share(u, NewSide)' = Share(u, NewSide)
        BY <1>1 DEF Share, NewSide, SegmentShare
      <4>3. \/ pc'[u] \in {"apply", "alloc", "created"} /\ b \in todo'[u]
            \/ pc'[u] = "sync" /\ b \in Share(u, NewSide)'
        BY <3>2, <4>1, <4>2, <1>1, <1>2, <1>8
      <4> QED
        BY <4>3 DEF Remaining
    <3>3. CASE b \in B
      BY <3>1, <3>3, <1>1, <1>5, <1>7, <1>10 DEF Stored
    <3>4. CASE Stored("Back", b) /\ b \notin B
      BY <3>1, <3>4, <1>1, <1>5, <1>10 DEF Stored
    <3> QED
      BY <3>1, <3>2, <3>3, <3>4
  <2>2. ASSUME NEW r \in Sides, NEW b \in block_dirty[epoch], phase # "first", r = NewSide
        PROVE  Stored(r, b)'
    <3>1. Stored(r, b)
      BY <2>2, <1>4 DEF Safe, DataInv, DirtyInv, Checkpointing
    <3> QED
      BY <2>0, <2>2, <3>1, <1>1, <1>10 DEF Stored
  <2>3. phase \in {"copy", "second", "finish"} => snap = working_memory
    BY DEF Safe, DataInv, DirtyInv
  <2> QED
    BY <2>1, <2>2, <2>3, <1>1, <1>4, <1>5, <1>10 DEF DirtyInv
<1> QED
  BY <1>10, <1>11, <1>12 DEF DataInv

\* Only a process that has lost its checkpoint overwrites a main segment by
\* its new back segment.
LEMMA FillMainData == ASSUME Safe, NEW t \in Threads, FillMain(t) PROVE FALSE
BY DEF Safe, DataInv, BindInv, FillMain

\* All threads at the barrier: nothing is left to copy, and both sides have
\* the clean blocks.
LEMMA BarrierFacts ==
  ASSUME Safe, phase \in Checkpointing, pc = All("barrier")
  PROVE  /\ \A b \in Blocks : ~Behind(b) /\ ~Remaining(b)
         /\ Touched = block_dirty[epoch]
         /\ \A b \in Blocks \ block_dirty[epoch] :
              /\ snap[b] # Junk => working_memory[b] = snap[b]
              /\ working_memory[b] # Junk =>
                   /\ StateOf(b[1]) # "Initial"
                   /\ \A side \in Sides : Has(side, b) => Copy(side, b) = working_memory[b]
<1>1. \A t \in Threads : pc[t] = "barrier"
  BY DEF All
<1>2. \A b \in Blocks : ~Behind(b) /\ ~Remaining(b)
  BY <1>1 DEF Behind, Remaining, Checkpointing
<1>3. Touched = block_dirty[epoch]
  BY TouchedDirty DEF Safe
<1>4. ASSUME NEW b \in Blocks, b \notin block_dirty[epoch]
      PROVE  /\ snap[b] # Junk => working_memory[b] = snap[b]
             /\ working_memory[b] # Junk =>
                   /\ StateOf(b[1]) # "Initial"
                   /\ \A side \in Sides : Has(side, b) => Copy(side, b) = working_memory[b]
  <2>1. phase \notin Recovering
    BY DEF Recovering, Checkpointing
  <2>2. CleanBlock(b)
    BY <1>3, <1>4, <2>1, CleanUse
  <2> QED
    BY <1>2, <2>2 DEF CleanBlock
<1> QED
  BY <1>2, <1>3, <1>4

\* Clean blocks are shown to be clean when both sides have them.
LEMMA CleanBoth ==
  ASSUME NEW b \in Blocks, snap'[b] # Junk => working_memory'[b] = snap'[b],
         working_memory'[b] # Junk =>
           /\ StateOf(b[1])' # "Initial"
           /\ \A side \in Sides : Has(side, b)' => Copy(side, b)' = working_memory'[b]
  PROVE  CleanBlock(b)'
BY DEF CleanBlock

\* Where the checkpoint of a block is, there is a place for it.
LEMMA WhereHas == ASSUME NEW b PROVE \A side \in Sides : side = Where(b) => Has(side, b)
BY DEF Where, Has, Sides

\* The barrier of a phase that copies blocks.
LEMMA FenceData ==
  ASSUME Safe, phase \in {"first", "second"}, pc = All("barrier"), Fenced, pc' = pc,
         phase' \in {"states", "finish"}, committed_epoch' = committed_epoch,
         segment_state' = segment_state, segment_state_dirty' = segment_state_dirty,
         back_to_main' = back_to_main, main_to_back' = main_to_back, main' = main, back' = back,
         working_memory' = working_memory, snap' = snap, epoch' = epoch,
         block_dirty' = block_dirty, address_buffer' = address_buffer
  PROVE  /\ BindInv' /\ SlotInv' /\ MediumInv' /\ SnapInv' /\ CleanInv' /\ SidesInv'
         /\ \A b \in block_dirty[epoch], side \in Sides : side = Side => Stored(side, b)'
         /\ \A b \in Blocks, side \in Sides : Stored(side, b)' <=> Stored(side, b)
         /\ \A s \in Segments : StateOf(s)' = StateOf(s)
<1>1. TypeOK /\ ControlInv /\ DataInv /\ phase \in Checkpointing
  BY DEF Safe, Checkpointing
<1>2. /\ main_pm' = Settled(main) /\ back_pm' = Settled(back)
      /\ segment_state_pm' = StatesSettled
  BY DEF Fenced
<1>3. /\ \A b \in Blocks : main_pm'[b] = {main[b]}
      /\ \A d \in BackBlocks : back_pm'[d] = {back[d]}
  BY <1>1, <1>2 DEF Settled, TypeOK, ImageTypeOK
<1>4. /\ \A s \in Segments : StateOf(s)' = StateOf(s) /\ (HasBack(s)' <=> HasBack(s))
      /\ \A side \in Sides, b \in Blocks : (Has(side, b)' <=> Has(side, b)) /\ Copy(side, b)' = Copy(side, b)
      /\ \A b \in Blocks : Where(b)' = Where(b)
  BY DEF StateOf, Active, HasBack, Has, Copy, BackBlock, Where
<1>5. BindInv'
  <2>1. \A u \in Threads : pc'[u] # "created"
    BY DEF All
  <2> QED
    BY <1>1, <2>1 DEF DataInv, BindInv
<1>6. SlotInv'
  <2>1. segment_state_dirty = {}
    BY <1>1 DEF DataInv, SlotInv
  <2>2. \A s \in Segments : /\ segment_state_pm'[Active'][s] = {StateOf(s)'}
                            /\ segment_state_pm'[Inactive'][s] = {segment_state'[Inactive'][s]}
    BY <1>1, <1>2, Slots DEF StatesSettled, StateOf, Active, Inactive
  <2> QED
    BY <2>1, <2>2 DEF SlotInv, Active, Inactive
<1>7. MediumInv'
  BY <1>2, <1>3 DEF MediumInv
<1>8. \A side \in Sides, b \in Blocks : Has(side, b) =>
        /\ Copy(side, b) \in Medium(side, b) /\ Medium(side, b)' = {Copy(side, b)}
  <2> SUFFICES ASSUME NEW side \in Sides, NEW b \in Blocks, Has(side, b)
               PROVE  Copy(side, b) \in Medium(side, b) /\ Medium(side, b)' = {Copy(side, b)}
    OBVIOUS
  <2>1. CASE side = "Main"
    BY <2>1, <1>1, <1>3 DEF Copy, Medium, DataInv, MediumInv
  <2>2. CASE side = "Back"
    <3>1. BackBlock(b[1], b) \in BackBlocks /\ BackBlock(b[1], b)' = BackBlock(b[1], b)
      BY <2>2, <1>1, BackBlockFacts DEF Has, ControlInv, BackBlock
    <3> QED
      BY <2>2, <3>1, <1>1, <1>3 DEF Copy, Medium, DataInv, MediumInv
  <2> QED
    BY <2>1, <2>2 DEF Sides
<1>9. SnapInv'
  <2> SUFFICES ASSUME NEW b \in Blocks, snap[b] # Junk
               PROVE  /\ StateOf(b[1])' # "Initial"
                      /\ \A side \in Sides : side = Where(b)' => Medium(side, b)' = {snap[b]}
    BY DEF SnapInv
  <2>1. /\ StateOf(b[1]) # "Initial"
        /\ \A side \in Sides : side = Where(b) => Medium(side, b) = {snap[b]}
    BY <1>1 DEF DataInv, SnapInv
  <2> QED
    BY <2>1, <1>4, <1>8, WhereHas, Shapes
<1>10. CleanInv'
  <2>1. ASSUME NEW b \in Blocks, b \notin Touched' PROVE CleanBlock(b)'
    <3>1. b \notin block_dirty[epoch]
      BY <2>1 DEF Touched
    <3> QED
      BY <3>1, <1>1, <1>4, BarrierFacts, CleanBoth, Shapes
  <2> QED
    BY <2>1, CleanShow
<1>11. SidesInv'
  BY DEF SidesInv
<1>12. \A b \in Blocks, side \in Sides : Stored(side, b)' <=> Stored(side, b)
  BY <1>4 DEF Stored
<1>13. \A b \in block_dirty[epoch], side \in Sides : side = Side => Stored(side, b)'
  <2>1. block_dirty[epoch] \subseteq Blocks
    BY <1>1, Slots DEF TypeOK
  <2> QED
    BY <2>1, <1>1, <1>12, BarrierFacts DEF DataInv, DirtyInv
<1> QED
  BY <1>4, <1>5, <1>6, <1>7, <1>9, <1>10, <1>11, <1>12, <1>13

LEMMA CommitLayoutStateData == ASSUME Safe, CommitLayoutState PROVE DataInv'
<1>1. /\ phase = "first" /\ phase' = "states" /\ pc = All("barrier") /\ Fenced /\ pc' = pc
      /\ committed_epoch' = committed_epoch /\ segment_state' = segment_state
      /\ segment_state_dirty' = segment_state_dirty
      /\ back_to_main' = back_to_main /\ main_to_back' = main_to_back /\ main' = main /\ back' = back
      /\ working_memory' = working_memory /\ snap' = snap /\ epoch' = epoch
      /\ block_dirty' = block_dirty /\ segment_dirty' = segment_dirty /\ address_buffer' = address_buffer
  BY DEF CommitLayoutState, bindVars, hookVars, modeVars
<1>2. /\ BindInv' /\ SlotInv' /\ MediumInv' /\ SnapInv' /\ CleanInv' /\ SidesInv'
      /\ \A b \in block_dirty[epoch], side \in Sides : side = Side => Stored(side, b)'
      /\ \A s \in Segments : StateOf(s)' = StateOf(s)
  BY <1>1, FenceData
<1>3. StateInv'
  BY <1>1 DEF Safe, DataInv, StateInv, StateOf, Active, Inactive, NewSide, Other, Dirty
<1>4. DirtyInv'
  <2>1. Side = NewSide /\ NewSide' = NewSide
    BY <1>1, SideFacts DEF NewSide
  <2> QED
    BY <1>1, <1>2, <2>1 DEF DirtyInv
<1> QED
  BY <1>2, <1>3, <1>4 DEF DataInv

LEMMA EndSecondData == ASSUME Safe, EndSecond PROVE DataInv'
<1>1. /\ phase = "second" /\ phase' = "finish" /\ pc = All("barrier") /\ Fenced /\ pc' = pc
      /\ committed_epoch' = committed_epoch /\ segment_state' = segment_state
      /\ segment_state_dirty' = segment_state_dirty
      /\ back_to_main' = back_to_main /\ main_to_back' = main_to_back /\ main' = main /\ back' = back
      /\ working_memory' = working_memory /\ snap' = snap /\ epoch' = epoch
      /\ block_dirty' = block_dirty /\ segment_dirty' = segment_dirty /\ address_buffer' = address_buffer
  BY DEF EndSecond, bindVars, hookVars, modeVars
<1>2. /\ BindInv' /\ SlotInv' /\ MediumInv' /\ SnapInv' /\ CleanInv' /\ SidesInv'
      /\ \A b \in block_dirty[epoch], side \in Sides : side = Side => Stored(side, b)'
      /\ \A b \in Blocks, side \in Sides : Stored(side, b)' <=> Stored(side, b)
      /\ \A s \in Segments : StateOf(s)' = StateOf(s)
  BY <1>1, FenceData
<1>3. StateInv'
  BY <1>1 DEF Safe, DataInv, StateInv, StateOf, Active, Inactive, NewSide, Other, Dirty
<1>4. DirtyInv'
  <2>1. Side = Other(NewSide) /\ NewSide' = NewSide
    BY <1>1, SideFacts DEF NewSide
  <2>2. block_dirty[epoch] \subseteq Blocks
    BY Slots DEF Safe, TypeOK
  <2>3. \A b \in block_dirty[epoch], side \in Sides : side = NewSide => Stored(side, b)
    BY <1>1 DEF Safe, DataInv, DirtyInv, Checkpointing
  <2>4. \A b \in block_dirty[epoch], side \in Sides : Stored(side, b)'
    BY <1>2, <2>1, <2>2, <2>3, SideFacts
  <2>5. snap = working_memory
    BY <1>1 DEF Safe, DataInv, DirtyInv
  <2> QED
    BY <1>1, <2>4, <2>5 DEF DirtyInv
<1> QED
  BY <1>2, <1>3, <1>4 DEF DataInv

\* What set_segment_state changes in the slot that does not count.
LEMMA SetStateFacts ==
  ASSUME TypeOK, NEW S \in SUBSET Segments, NEW state \in States,
         set_segment_state(S, state), committed_epoch' = committed_epoch
  PROVE  /\ Active' = Active /\ Inactive' = Inactive
         /\ segment_state'[Active] = segment_state[Active]
         /\ segment_state_pm'[Active] = segment_state_pm[Active]
         /\ segment_state_dirty \subseteq segment_state_dirty'
         /\ \A s \in Segments :
              /\ segment_state'[Inactive][s] = IF s \in S THEN state ELSE segment_state[Inactive][s]
              /\ segment_state_pm'[Inactive][s] = IF s \in S THEN segment_state_pm[Inactive][s] \cup {state}
                                                  ELSE segment_state_pm[Inactive][s]
              /\ LineOf(s) \notin segment_state_dirty' =>
                   segment_state'[Inactive][s] = segment_state[Inactive][s]
<1> DEFINE new == [s \in Segments |-> IF s \in S THEN state ELSE segment_state[Inactive][s]]
           pm == Put(segment_state_pm[Inactive], S, new)
<1>1. /\ segment_state' = [segment_state EXCEPT ![Inactive] = new]
      /\ segment_state_pm' = [segment_state_pm EXCEPT ![Inactive] = pm]
      /\ segment_state_dirty' = segment_state_dirty \cup
          {LineOf(s) : s \in {r \in S : segment_state[Inactive][r] # state}}
  BY DEF set_segment_state
<1>2. /\ \A s \in Segments : new[s] = IF s \in S THEN state ELSE segment_state[Inactive][s]
      /\ \A s \in Segments : pm[s] = IF s \in S THEN segment_state_pm[Inactive][s] \cup {state}
                                     ELSE segment_state_pm[Inactive][s]
  <2>1. segment_state_pm[Inactive] \in [Segments -> (SUBSET States) \ {{}}]
    BY Slots DEF TypeOK, ImageTypeOK
  <2> QED
    BY <2>1 DEF Put
<1> HIDE DEF new, pm
<1>3. /\ segment_state'[Active] = segment_state[Active] /\ segment_state'[Inactive] = new
      /\ segment_state_pm'[Active] = segment_state_pm[Active] /\ segment_state_pm'[Inactive] = pm
  BY <1>1, Slots DEF TypeOK, ImageTypeOK
<1>4. \A s \in Segments : LineOf(s) \notin segment_state_dirty' =>
                            segment_state'[Inactive][s] = segment_state[Inactive][s]
  BY <1>1, <1>2, <1>3
<1>5. Active' = Active /\ Inactive' = Inactive
  BY DEF Active, Inactive
<1> QED
  BY <1>1, <1>2, <1>3, <1>4, <1>5

\* The slot that does not count stays known, but for the marked lines.
LEMMA SetStateSlot ==
  ASSUME TypeOK, NEW S \in SUBSET Segments, NEW state \in States,
         set_segment_state(S, state), committed_epoch' = committed_epoch,
         phase \in {"states", "recover"}, phase' \in {"commit", "recover_commit"}, SlotInv
  PROVE  SlotInv' /\ \A s \in Segments : StateOf(s)' = StateOf(s)
<1>1. /\ Active' = Active /\ Inactive' = Inactive
      /\ segment_state'[Active] = segment_state[Active]
      /\ segment_state_pm'[Active] = segment_state_pm[Active]
      /\ segment_state_dirty \subseteq segment_state_dirty'
      /\ \A s \in Segments :
              /\ segment_state'[Inactive][s] = IF s \in S THEN state ELSE segment_state[Inactive][s]
              /\ segment_state_pm'[Inactive][s] = IF s \in S THEN segment_state_pm[Inactive][s] \cup {state}
                                                  ELSE segment_state_pm[Inactive][s]
              /\ LineOf(s) \notin segment_state_dirty' =>
                   segment_state'[Inactive][s] = segment_state[Inactive][s]
  BY SetStateFacts
<1>2. \A s \in Segments : StateOf(s)' = StateOf(s)
  BY <1>1 DEF StateOf
<1>3. \A s \in Segments : LineOf(s) \notin segment_state_dirty' =>
        segment_state_pm'[Inactive][s] = {segment_state'[Inactive][s]}
  <2> SUFFICES ASSUME NEW s \in Segments, LineOf(s) \notin segment_state_dirty'
               PROVE  segment_state_pm'[Inactive][s] = {segment_state'[Inactive][s]}
    OBVIOUS
  <2>1. segment_state_pm[Inactive][s] = {segment_state[Inactive][s]}
    BY <1>1 DEF SlotInv
  <2> QED
    BY <2>1, <1>1
<1>4. \A s \in Segments : segment_state_pm'[Active'][s] = {StateOf(s)'}
  BY <1>1, <1>2 DEF SlotInv
<1> QED
  BY <1>1, <1>2, <1>3, <1>4 DEF SlotInv, LineOf

LEMMA SetLayoutStateData == ASSUME Safe, SetLayoutState PROVE DataInv'
<1>1. /\ phase = "states" /\ phase' = "commit" /\ pc' = pc /\ todo' = todo /\ target' = target
      /\ committed_epoch' = committed_epoch /\ set_segment_state(Dirty, NewSide)
      /\ back_to_main' = back_to_main /\ main_to_back' = main_to_back
      /\ main' = main /\ main_pm' = main_pm /\ back' = back /\ back_pm' = back_pm
      /\ working_memory' = working_memory /\ snap' = snap /\ epoch' = epoch
      /\ flush_mode' = flush_mode /\ mpi' = mpi
      /\ block_dirty' = block_dirty /\ segment_dirty' = segment_dirty /\ address_buffer' = address_buffer
  BY DEF SetLayoutState, bindVars, hookVars, modeVars, dataVars, Dirty
<1>2. /\ TypeOK /\ ControlInv /\ DataInv /\ phase \in Checkpointing /\ pc = All("barrier")
      /\ Dirty \in SUBSET Segments /\ NewSide \in States /\ NewSide # "Initial" /\ NewSide' = NewSide
  <2>1. TypeOK /\ ControlInv /\ DataInv /\ phase \in Checkpointing
    BY <1>1 DEF Safe, Checkpointing
  <2> QED
    BY <1>1, <2>1, AtBarrier DEF TypeOK, Dirty, NewSide, States
<1>3. PICK side \in States : side = NewSide
  BY <1>2
<1>4. /\ Active' = Active /\ Inactive' = Inactive
      /\ segment_state'[Active] = segment_state[Active]
      /\ segment_state_dirty \subseteq segment_state_dirty'
      /\ \A s \in Segments :
              /\ segment_state'[Inactive][s] = IF s \in Dirty THEN side ELSE segment_state[Inactive][s]
              /\ LineOf(s) \notin segment_state_dirty' =>
                   segment_state'[Inactive][s] = segment_state[Inactive][s]
  BY <1>1, <1>2, <1>3, SetStateFacts
<1>5. SlotInv' /\ \A s \in Segments : StateOf(s)' = StateOf(s)
  BY <1>1, <1>2, SetStateSlot DEF DataInv
<1>6. StateInv'
  <2>1. \A s \in Segments : StateOf(s) = "Initial" <=> segment_state[Inactive][s] = "Initial"
    <3>1. segment_state_dirty = {}
      BY <1>1, <1>2 DEF DataInv, SlotInv
    <3> QED
      BY <3>1, <1>1, <1>2 DEF DataInv, StateInv
  <2>2. \A s \in Segments : LineOf(s) \notin segment_state_dirty' =>
         (StateOf(s)' = "Initial" <=> segment_state'[Inactive][s] = "Initial")
    BY <2>1, <1>4, <1>5
  <2>3. \A s \in Segments :
          /\ StateOf(s)' # "Initial" => segment_state'[Inactive][s] # "Initial"
          /\ s \in Dirty => segment_state'[Inactive][s] = NewSide
    BY <2>1, <1>2, <1>3, <1>4, <1>5
  <2>4. \A s \in segment_dirty[1 - epoch] : StateOf(s)' = Other(NewSide)
    <3>1. segment_dirty[1 - epoch] \subseteq Segments
      BY <1>2, Slots DEF TypeOK
    <3> QED
      BY <3>1, <1>1, <1>2, <1>5 DEF DataInv, StateInv
  <2>5. Dirty' = Dirty /\ Other(NewSide)' = Other(NewSide) /\ \A s : LineOf(s)' = LineOf(s)
    BY <1>1, <1>2 DEF Dirty, Other, LineOf
  <2> QED
    BY <2>2, <2>3, <2>4, <2>5, <1>1, <1>2, <1>4 DEF StateInv, LineOf
<1>7. BindInv'
  <2>1. \A u \in Threads : pc'[u] # "created"
    BY <1>1, <1>2 DEF All
  <2> QED
    BY <1>1, <1>2, <2>1 DEF DataInv, BindInv
<1>8. MediumInv' /\ SidesInv'
  BY <1>1, <1>2 DEF DataInv, MediumInv, SidesInv
<1>9. /\ \A s \in Segments : HasBack(s)' <=> HasBack(s)
      /\ \A r \in Sides, b \in Blocks : /\ Has(r, b)' <=> Has(r, b)
                                        /\ Copy(r, b)' = Copy(r, b) /\ Medium(r, b)' = Medium(r, b)
      /\ \A b \in Blocks : Where(b)' = Where(b)
  BY <1>1, <1>5, Shapes DEF HasBack, Has, Copy, BackBlock, Medium, Where
<1>10. SnapInv'
  BY <1>1, <1>2, <1>5, <1>9, Shapes DEF DataInv, SnapInv
<1>11. CleanInv'
  <2>1. ASSUME NEW b \in Blocks, b \notin Touched' PROVE CleanBlock(b)'
    <3>1. b \notin block_dirty[epoch]
      BY <2>1, <1>1 DEF Touched
    <3> QED
      BY <3>1, <1>1, <1>2, <1>5, <1>9, BarrierFacts, CleanBoth, Shapes
  <2> QED
    BY <2>1, CleanShow
<1>12. DirtyInv'
  <2>1. \A r \in Sides, b \in Blocks : Stored(r, b)' <=> Stored(r, b)
    BY <1>1, <1>9 DEF Stored
  <2>2. block_dirty[epoch] \subseteq Blocks
    BY <1>2, Slots DEF TypeOK
  <2> QED
    BY <2>1, <2>2, <1>1, <1>2 DEF DataInv, DirtyInv, Checkpointing
<1> QED
  BY <1>5, <1>6, <1>7, <1>8, <1>10, <1>11, <1>12 DEF DataInv

\* The commit exchanges the slots, and the new one is on the medium.
LEMMA CommitFacts ==
  ASSUME TypeOK, SlotInv, CommitEpoch, phase \in {"commit", "recover_commit"},
         phase' \in {"copy", "recover_copy"}
  PROVE  /\ Active' = Inactive /\ Inactive' = Active
         /\ segment_state' = segment_state /\ segment_state_dirty' = segment_state_dirty
         /\ \A s \in Segments : StateOf(s)' = segment_state[Inactive][s]
         /\ SlotInv'
<1> DEFINE pm == Settle(segment_state_pm[Inactive], SegmentsOfLines(segment_state_dirty),
                        segment_state[Inactive])
<1>1. /\ segment_state_pm' = [segment_state_pm EXCEPT ![Inactive] = pm]
      /\ committed_epoch' = Inactive
      /\ segment_state' = segment_state /\ segment_state_dirty' = segment_state_dirty
  BY DEF CommitEpoch
<1>2. \A s \in Segments : pm[s] = {segment_state[Inactive][s]}
  <2>1. segment_state_pm[Inactive] \in [Segments -> (SUBSET States) \ {{}}]
    BY Slots DEF TypeOK, ImageTypeOK
  <2>2. \A s \in Segments : LineOf(s) \notin segment_state_dirty =>
         segment_state_pm[Inactive][s] = {segment_state[Inactive][s]}
    BY DEF SlotInv
  <2> QED
    BY <2>1, <2>2 DEF Settle, SegmentsOfLines
<1> HIDE DEF pm
<1>3. segment_state_pm'[Inactive] = pm
  BY <1>1, Slots DEF TypeOK, ImageTypeOK
<1>4. Active' = Inactive /\ Inactive' = Active
  <2>1. committed_epoch \in 0 .. 1
    BY DEF TypeOK, ImageTypeOK
  <2> QED
    BY <1>1, <2>1, SMT DEF Active, Inactive
<1>5. \A s \in Segments : StateOf(s)' = segment_state[Inactive][s]
  BY <1>1, <1>4 DEF StateOf
<1>6. \A s \in Segments : segment_state_pm'[Active'][s] = {StateOf(s)'}
  BY <1>2, <1>3, <1>4, <1>5
<1>7. SlotInv'
  BY <1>6 DEF SlotInv
<1> QED
  BY <1>1, <1>4, <1>5, <1>7

LEMMA CommitLayoutEpochData == ASSUME Safe, CommitLayoutEpoch PROVE DataInv'
<1>1. /\ phase = "commit" /\ phase' = "copy" /\ pc' = pc /\ todo' = todo /\ target' = target
      /\ CommitEpoch /\ snap' = working_memory /\ working_memory' = working_memory
      /\ back_to_main' = back_to_main /\ main_to_back' = main_to_back
      /\ main' = main /\ main_pm' = main_pm /\ back' = back /\ back_pm' = back_pm
      /\ epoch' = epoch /\ flush_mode' = flush_mode /\ mpi' = mpi
      /\ block_dirty' = block_dirty /\ segment_dirty' = segment_dirty /\ address_buffer' = address_buffer
  BY DEF CommitLayoutEpoch, bindVars, hookVars, modeVars, dataVars
<1>2. /\ TypeOK /\ ControlInv /\ DataInv /\ phase \in Checkpointing /\ pc = All("barrier")
      /\ NewSide \in Sides /\ NewSide' = NewSide /\ block_dirty[epoch] \subseteq Blocks
  <2>1. TypeOK /\ ControlInv /\ DataInv /\ phase \in Checkpointing
    BY <1>1 DEF Safe, Checkpointing
  <2> QED
    BY <1>1, <2>1, AtBarrier, SideFacts, Slots DEF NewSide, TypeOK
<1>3. /\ Active' = Inactive /\ Inactive' = Active
      /\ segment_state' = segment_state /\ segment_state_dirty' = segment_state_dirty
      /\ \A s \in Segments : StateOf(s)' = segment_state[Inactive][s]
      /\ SlotInv'
  <2>1. SlotInv /\ phase \in {"commit", "recover_commit"} /\ phase' \in {"copy", "recover_copy"}
    BY <1>1, <1>2 DEF DataInv
  <2> QED
    BY <2>1, <1>1, <1>2, CommitFacts
<1>4. \A s \in Segments : /\ StateOf(s) # "Initial" => StateOf(s)' # "Initial"
                          /\ s \in Dirty => StateOf(s)' = NewSide
                          /\ StateOf(s)' \in States
  BY <1>1, <1>2, <1>3, Slots DEF DataInv, StateInv
<1>5. StateInv'
  <2>1. \A s \in Segments : LineOf(s) \notin segment_state_dirty =>
          (StateOf(s)' = "Initial" <=> segment_state[Active][s] = "Initial")
    BY <1>1, <1>2, <1>3 DEF DataInv, StateInv, StateOf
  <2>2. Dirty' = Dirty /\ Dirty \subseteq Segments
    BY <1>1, <1>2 DEF Dirty, TypeOK
  <2> QED
    BY <2>1, <2>2, <1>1, <1>2, <1>3, <1>4 DEF StateInv, LineOf
<1>6. BindInv'
  <2>1. \A u \in Threads : pc'[u] # "created"
    BY <1>1, <1>2 DEF All
  <2> QED
    BY <1>1, <1>2, <2>1 DEF DataInv, BindInv
<1>7. MediumInv' /\ SidesInv'
  BY <1>1, <1>2 DEF DataInv, MediumInv, SidesInv
<1>8. /\ \A s \in Segments : HasBack(s)' <=> HasBack(s)
      /\ \A r \in Sides, b \in Blocks : /\ Has(r, b)' <=> Has(r, b)
                                        /\ Copy(r, b)' = Copy(r, b) /\ Medium(r, b)' = Medium(r, b)
  BY <1>1 DEF HasBack, Has, Copy, BackBlock, Medium
<1>9. \A side \in Sides, b \in Blocks : Has(side, b) => Medium(side, b) = {Copy(side, b)}
  <2> SUFFICES ASSUME NEW side \in Sides, NEW b \in Blocks, Has(side, b)
               PROVE  Medium(side, b) = {Copy(side, b)}
    OBVIOUS
  <2>0. main_pm = Settled(main) /\ back_pm = Settled(back)
    BY <1>1, <1>2 DEF DataInv, MediumInv
  <2>1. CASE side = "Main"
    BY <2>0, <2>1, <1>2 DEF Copy, Medium, Settled, TypeOK, ImageTypeOK
  <2>2. CASE side = "Back"
    <3>1. BackBlock(b[1], b) \in BackBlocks
      BY <2>2, <1>2, BackBlockFacts DEF Has, ControlInv
    <3> QED
      BY <2>0, <2>2, <3>1, <1>2 DEF Copy, Medium, Settled, TypeOK, ImageTypeOK
  <2> QED
    BY <2>1, <2>2 DEF Sides
<1>10. SnapInv'
  <2> SUFFICES ASSUME NEW b \in Blocks, working_memory[b] # Junk
               PROVE  /\ StateOf(b[1])' # "Initial"
                      /\ \A side \in Sides : side = Where(b)' => Medium(side, b)' = {working_memory[b]}
    BY <1>1 DEF SnapInv
  <2>0. b[1] \in Segments
    BY Shapes
  <2>1. \A side \in Sides : side = Where(b)' => Has(side, b)
    <3>1. \A side \in Sides : side = Where(b)' => Has(side, b)'
      BY DEF Where, Has, Sides
    <3> QED
      BY <3>1, <1>8
  <2>2. CASE b \in block_dirty[epoch]
    <3>1. b[1] \in Dirty
      BY <2>2, <1>2, Slots DEF ControlInv, ListInv, Dirty
    <3>2. StateOf(b[1])' = NewSide /\ \A side \in Sides : side = NewSide => Stored(side, b)
      BY <2>0, <2>2, <3>1, <1>1, <1>2, <1>4 DEF DataInv, DirtyInv, Checkpointing
    <3>3. \A side \in Sides : side = Where(b)' => side = NewSide
      <4>1. CASE NewSide = "Back"
        <5>1. HasBack(b[1])
          BY <3>2, <4>1 DEF Stored, Has, Sides
        <5> QED
          BY <5>1, <2>0, <3>2, <1>8 DEF Where
      <4>2. CASE NewSide = "Main"
        BY <4>2, <3>2 DEF Where
      <4> QED
        BY <4>1, <4>2, <1>2 DEF Sides
    <3> QED
      BY <2>1, <3>2, <3>3, <1>2, <1>8, <1>9 DEF Stored, Sides
  <2>3. CASE b \notin block_dirty[epoch]
    <3>1. /\ StateOf(b[1]) # "Initial"
          /\ \A side \in Sides : Has(side, b) => Copy(side, b) = working_memory[b]
      BY <2>3, <1>2, BarrierFacts
    <3> QED
      BY <2>0, <2>1, <3>1, <1>4, <1>8, <1>9
  <2> QED
    BY <2>2, <2>3
<1>11. CleanInv'
  <2>1. ASSUME NEW b \in Blocks, b \notin Touched' PROVE CleanBlock(b)'
    <3>1. b \notin block_dirty[epoch]
      BY <2>1, <1>1 DEF Touched
    <3>2. working_memory[b] # Junk =>
            /\ StateOf(b[1]) # "Initial"
            /\ \A side \in Sides : Has(side, b) => Copy(side, b) = working_memory[b]
      BY <3>1, <1>2, BarrierFacts
    <3> QED
      BY <3>2, <1>1, <1>4, <1>8, CleanBoth, Shapes
  <2> QED
    BY <2>1, CleanShow
<1>12. DirtyInv'
  <2>1. \A r \in Sides, b \in Blocks : Stored(r, b)' <=> Stored(r, b)
    BY <1>1, <1>8 DEF Stored
  <2> QED
    BY <2>1, <1>1, <1>2 DEF DataInv, DirtyInv, Checkpointing
<1> QED
  BY <1>3, <1>5, <1>6, <1>7, <1>10, <1>11, <1>12 DEF DataInv

\* The copy of the marked lines makes the slots agree on what has a checkpoint.
LEMMA CopyStatesFacts ==
  ASSUME TypeOK, SlotInv, StateInv, CopyStates, phase \in {"copy", "recover_copy"},
         phase' \in {"run", "second", "finish"}
  PROVE  /\ Active' = Active /\ Inactive' = Inactive /\ SlotInv'
         /\ \A s \in Segments : StateOf(s)' = StateOf(s)
         /\ \A s \in Segments : StateOf(s) = "Initial" <=> segment_state'[Inactive][s] = "Initial"
<1> DEFINE S == SegmentsOfLines(segment_state_dirty)
           new == [s \in Segments |-> IF s \in S THEN segment_state[Active][s]
                                      ELSE segment_state[Inactive][s]]
           pm == Put(segment_state_pm[Inactive], S, new)
<1>1. /\ segment_state' = [segment_state EXCEPT ![Inactive] = new]
      /\ segment_state_pm' = [segment_state_pm EXCEPT ![Inactive] = pm]
      /\ segment_state_dirty' = {} /\ committed_epoch' = committed_epoch
  BY DEF CopyStates
<1>2. \A s \in Segments : StateOf(s) = "Initial" <=> new[s] = "Initial"
  <2>1. \A s \in Segments : LineOf(s) \notin segment_state_dirty =>
         (StateOf(s) = "Initial" <=> segment_state[Inactive][s] = "Initial")
    BY DEF StateInv
  <2> QED
    BY <2>1 DEF SegmentsOfLines, StateOf
<1> HIDE DEF new, pm
<1>3. /\ Active' = Active /\ Inactive' = Inactive
      /\ segment_state'[Active] = segment_state[Active] /\ segment_state'[Inactive] = new
      /\ segment_state_pm'[Active] = segment_state_pm[Active]
  BY <1>1, Slots DEF Active, Inactive, TypeOK, ImageTypeOK
<1>4. \A s \in Segments : StateOf(s)' = StateOf(s)
  BY <1>3 DEF StateOf
<1>5. \A s \in Segments : segment_state_pm'[Active'][s] = {StateOf(s)'}
  BY <1>3, <1>4 DEF SlotInv
<1>6. SlotInv'
  BY <1>1, <1>5 DEF SlotInv
<1> QED
  BY <1>2, <1>3, <1>4, <1>6

LEMMA SyncLayoutStatesData == ASSUME Safe, SyncLayoutStates PROVE DataInv'
<1>1. /\ phase = "copy" /\ phase' \in {"finish", "second"} /\ CopyStates
      /\ snap' = snap /\ working_memory' = working_memory
      /\ back_to_main' = back_to_main /\ main_to_back' = main_to_back
      /\ main' = main /\ main_pm' = main_pm /\ back' = back /\ back_pm' = back_pm
      /\ epoch' = epoch /\ flush_mode' = flush_mode /\ mpi' = mpi /\ flush_blocks' = flush_blocks
      /\ block_dirty' = block_dirty /\ segment_dirty' = segment_dirty /\ address_buffer' = address_buffer
  BY DEF SyncLayoutStates, bindVars, hookVars, modeVars, dataVars
<1>2. \/ OneSided /\ phase' = "finish" /\ pc' = pc
      \/ /\ phase' = "second" /\ pc' = All("apply")
         /\ todo' = [t \in Threads |-> Share(t, IF epoch = 1 THEN "Main" ELSE "Back")]
  BY DEF SyncLayoutStates
<1>3. /\ TypeOK /\ ControlInv /\ DataInv /\ phase \in Checkpointing /\ pc = All("barrier")
      /\ NewSide \in Sides /\ NewSide' = NewSide /\ block_dirty[epoch] \subseteq Blocks
  <2>1. TypeOK /\ ControlInv /\ DataInv /\ phase \in Checkpointing
    BY <1>1 DEF Safe, Checkpointing
  <2> QED
    BY <1>1, <2>1, AtBarrier, SideFacts, Slots DEF NewSide, TypeOK
<1>4. /\ Active' = Active /\ Inactive' = Inactive /\ SlotInv'
      /\ \A s \in Segments : StateOf(s)' = StateOf(s)
      /\ \A s \in Segments : StateOf(s) = "Initial" <=> segment_state'[Inactive][s] = "Initial"
  <2>1. /\ SlotInv /\ StateInv /\ phase \in {"copy", "recover_copy"}
        /\ phase' \in {"run", "second", "finish"}
    BY <1>1, <1>3 DEF DataInv
  <2> QED
    BY <2>1, <1>1, <1>3, CopyStatesFacts
<1>5. StateInv'
  <2>1. Dirty' = Dirty /\ Dirty \subseteq Segments
    BY <1>1, <1>3 DEF Dirty, TypeOK
  <2>2. \A s \in Dirty : StateOf(s) = NewSide
    BY <1>1, <1>3 DEF DataInv, StateInv
  <2> QED
    BY <2>1, <2>2, <1>1, <1>3, <1>4 DEF StateInv
<1>6. BindInv'
  <2>1. \A u \in Threads : pc'[u] # "created"
    BY <1>2, <1>3 DEF All
  <2> QED
    BY <1>1, <1>3, <2>1 DEF DataInv, BindInv
<1>7. MediumInv' /\ SidesInv'
  BY <1>1, <1>3 DEF DataInv, MediumInv, SidesInv
<1>8. /\ \A s \in Segments : HasBack(s)' <=> HasBack(s)
      /\ \A r \in Sides, b \in Blocks : /\ Has(r, b)' <=> Has(r, b)
                                        /\ Copy(r, b)' = Copy(r, b) /\ Medium(r, b)' = Medium(r, b)
      /\ \A b \in Blocks : Where(b)' = Where(b)
  BY <1>1, <1>4, Shapes DEF HasBack, Has, Copy, BackBlock, Medium, Where
<1>9. SnapInv'
  BY <1>1, <1>3, <1>4, <1>8, Shapes DEF DataInv, SnapInv
<1>10. CleanInv'
  <2>1. ASSUME NEW b \in Blocks, b \notin Touched' PROVE CleanBlock(b)'
    <3>1. b \notin block_dirty[epoch]
      BY <2>1, <1>1 DEF Touched
    <3> QED
      BY <3>1, <1>1, <1>3, <1>4, <1>8, BarrierFacts, CleanBoth, Shapes
  <2> QED
    BY <2>1, CleanShow
<1>11. DirtyInv'
  <2>1. \A r \in Sides, b \in Blocks : Stored(r, b)' <=> Stored(r, b)
    BY <1>1, <1>8 DEF Stored
  <2>2. \A r \in Sides, b \in block_dirty[epoch] : r = NewSide => Stored(r, b)'
    BY <2>1, <1>1, <1>3 DEF DataInv, DirtyInv, Checkpointing
  <2>3. snap = working_memory
    BY <1>1, <1>3 DEF DataInv, DirtyInv
  <2>4. ASSUME phase' = "second", NEW b \in block_dirty[epoch] PROVE Remaining(b)'
    <3>1. flush_mode = Mode(flush_blocks)
      BY <1>3 DEF ControlInv, ModeInv
    <3>2. PICK other \in Sides : other = IF epoch = 1 THEN "Main" ELSE "Back"
      BY DEF Sides
    <3>3. PICK t \in Threads : b \in Share(t, other)
      BY <3>1, <1>3, Covered
    <3>4. pc'[t] = "apply" /\ b \in todo'[t]
      BY <2>4, <3>2, <3>3, <1>2 DEF All
    <3> QED
      BY <3>4 DEF Remaining
  <2>5. phase' = "finish" => OneSided'
    BY <1>1, <1>2 DEF OneSided
  <2> QED
    BY <2>2, <2>3, <2>4, <2>5, <1>1, <1>3 DEF DirtyInv
<1> QED
  BY <1>4, <1>5, <1>6, <1>7, <1>9, <1>10, <1>11 DEF DataInv

LEMMA CheckpointFinishData == ASSUME Safe, CheckpointFinish PROVE DataInv'
<1>1. /\ phase = "finish" /\ phase' = "run" /\ pc' = All("app") /\ todo' = todo /\ target' = target
      /\ back_to_main' = back_to_main /\ main_to_back' = main_to_back
      /\ main' = main /\ main_pm' = main_pm /\ back' = back /\ back_pm' = back_pm
      /\ working_memory' = working_memory /\ snap' = snap
      /\ address_buffer' = address_buffer
      /\ block_dirty' = [block_dirty EXCEPT ![1 - epoch] = {}]
      /\ segment_dirty' = [segment_dirty EXCEPT ![1 - epoch] = {}]
      /\ epoch' = 1 - epoch /\ flush_mode' = flush_mode /\ mpi' = mpi
      /\ committed_epoch' = committed_epoch /\ segment_state' = segment_state
      /\ segment_state_dirty' = segment_state_dirty
      /\ (segment_state_pm' = segment_state_pm \/ segment_state_pm' = StatesSettled)
  BY DEF CheckpointFinish, LastEpoch, bindVars, dataVars
<1>2. /\ TypeOK /\ ControlInv /\ DataInv /\ phase \in Checkpointing /\ pc = All("barrier")
      /\ NewSide \in Sides /\ block_dirty[epoch] \subseteq Blocks /\ snap = working_memory
  <2>1. TypeOK /\ ControlInv /\ DataInv /\ phase \in Checkpointing
    BY <1>1 DEF Safe, Checkpointing
  <2> QED
    BY <1>1, <2>1, AtBarrier, SideFacts, Slots DEF TypeOK, DataInv, DirtyInv
<1>3. /\ 1 - epoch' = epoch /\ block_dirty'[epoch'] = {} /\ block_dirty'[1 - epoch'] = block_dirty[epoch]
      /\ segment_dirty'[1 - epoch'] = segment_dirty[epoch]
      /\ NewSide' = Other(NewSide) /\ Other(NewSide)' = NewSide
  <2>1. epoch \in 0 .. 1
    BY <1>2 DEF TypeOK
  <2>2. 1 - epoch' = epoch /\ NewSide' = Other(NewSide) /\ Other(NewSide)' = NewSide
    BY <2>1, <1>1 DEF NewSide, Other
  <2> QED
    BY <2>2, <1>1, <1>2, Slots DEF TypeOK
<1>4. /\ \A s \in Segments : StateOf(s)' = StateOf(s) /\ (HasBack(s)' <=> HasBack(s))
      /\ \A r \in Sides, b \in Blocks : /\ Has(r, b)' <=> Has(r, b)
                                        /\ Copy(r, b)' = Copy(r, b) /\ Medium(r, b)' = Medium(r, b)
      /\ \A b \in Blocks : Where(b)' = Where(b)
  BY <1>1 DEF StateOf, Active, HasBack, Has, Copy, BackBlock, Medium, Where
<1>5. BindInv'
  BY <1>1, <1>2 DEF DataInv, BindInv, All
<1>6. SlotInv'
  <2>1. \A s \in Segments : segment_state_pm'[Active'][s] = {StateOf(s)'}
    <3>1. CASE segment_state_pm' = segment_state_pm
      BY <3>1, <1>1, <1>2, <1>4 DEF DataInv, SlotInv, Active
    <3>2. CASE segment_state_pm' = StatesSettled
      BY <3>2, <1>1, <1>2, Slots DEF StatesSettled, StateOf, Active
    <3> QED
      BY <3>1, <3>2, <1>1
  <2>2. segment_state_dirty' = {}
    BY <1>1, <1>2 DEF DataInv, SlotInv
  <2> QED
    BY <2>1, <2>2, <1>1 DEF SlotInv
<1>7. StateInv'
  <2>1. segment_dirty[epoch] \subseteq Segments /\ \A s \in segment_dirty[epoch] : StateOf(s) = NewSide
    <3>1. segment_dirty[epoch] \subseteq Dirty
      BY <1>2, Slots DEF Dirty
    <3> QED
      BY <3>1, <1>1, <1>2, Slots DEF TypeOK, DataInv, StateInv
  <2>2. \A s \in segment_dirty'[1 - epoch'] : StateOf(s)' = Other(NewSide)'
    BY <2>1, <1>3, <1>4
  <2>3. \A s \in Segments : LineOf(s) \notin segment_state_dirty' =>
         (StateOf(s)' = "Initial" <=> segment_state'[Inactive'][s] = "Initial")
    BY <1>1, <1>2, <1>4 DEF DataInv, StateInv, Inactive
  <2> QED
    BY <2>2, <2>3, <1>1 DEF StateInv
<1>8. MediumInv'
  BY <1>1, <1>2 DEF DataInv, MediumInv
<1>9. SnapInv'
  BY <1>1, <1>2, <1>4, Shapes DEF DataInv, SnapInv
<1>10. Pending' = IF OneSided THEN block_dirty[epoch] ELSE {}
  BY <1>1, <1>3 DEF Pending, NeedsSync, OneSided
<1>11. ASSUME NEW b \in Blocks, working_memory[b] # Junk
       PROVE  /\ StateOf(b[1]) # "Initial"
              /\ \A side \in Sides : Has(side, b) =>
                   Copy(side, b) = working_memory[b] \/ (b \in Pending' /\ side # NewSide /\ HasBack(b[1]))
  <2>1. /\ StateOf(b[1]) # "Initial"
        /\ \A side \in Sides : side = Where(b) => Medium(side, b) = {working_memory[b]}
    BY <1>1, <1>2, <1>11 DEF DataInv, SnapInv
  <2>2. CASE b \notin block_dirty[epoch]
    BY <2>1, <2>2, <1>2, <1>11, BarrierFacts
  <2>3. CASE b \in block_dirty[epoch]
    <3>1. \A side \in Sides : side = NewSide => Copy(side, b) = working_memory[b]
      BY <2>3, <1>1, <1>2 DEF DataInv, DirtyInv, Stored, Checkpointing
    <3>2. ~OneSided => \A side \in Sides : Has(side, b) => Copy(side, b) = working_memory[b]
      BY <2>3, <1>1, <1>2 DEF DataInv, DirtyInv, Stored
    <3>3. ~HasBack(b[1]) => main[b] = working_memory[b]
      <4> SUFFICES ASSUME ~HasBack(b[1]) PROVE main[b] = working_memory[b]
        OBVIOUS
      <4>1. main_pm[b] = {working_memory[b]}
        BY <2>1 DEF Where, Medium, Sides
      <4> QED
        BY <4>1, <1>2 DEF DataInv, MediumInv
    <3>4. ~HasBack(b[1]) => \A side \in Sides : Has(side, b) => Copy(side, b) = working_memory[b]
      BY <3>3 DEF Sides, Has, Copy
    <3> QED
      BY <2>1, <2>3, <3>1, <3>2, <3>4, <1>10
  <2> QED
    BY <2>2, <2>3
<1>12. Lag' = Other(NewSide) /\ \A side \in Sides : side # NewSide => side = Lag'
  <2>1. Lag' = Other(NewSide)
    BY <1>1, <1>3 DEF Lag
  <2> QED
    BY <2>1, <1>2, SideFacts
<1>13. CleanInv'
  <2>1. ASSUME NEW b \in Blocks, b \notin Touched' PROVE CleanBlock(b)'
    <3>1. b \in Pending' => Behind(b)'
      BY <1>1 DEF Behind
    <3> QED
      BY <3>1, <1>1, <1>2, <1>4, <1>11, <1>12, Shapes DEF CleanBlock
  <2> QED
    BY <2>1, CleanShow
<1>14. DirtyInv'
  BY <1>1 DEF DirtyInv, Checkpointing
<1>15. SidesInv'
  <2> SUFFICES ASSUME NEW b \in Blocks, HasBack(b[1])', snap[b] # Junk, b \notin Pending'
               PROVE  main[b] = back'[BackBlock(b[1], b)']
    BY <1>1 DEF SidesInv
  <2>1. HasBack(b[1]) /\ BackBlock(b[1], b)' = BackBlock(b[1], b)
    BY <1>1 DEF HasBack, BackBlock
  <2>2. \A side \in Sides : Copy(side, b) = working_memory[b]
    BY <2>1, <1>2, <1>11 DEF Has
  <2> QED
    BY <2>1, <2>2, <1>1 DEF Sides, Copy
<1> QED
  BY <1>5, <1>6, <1>7, <1>8, <1>9, <1>13, <1>14, <1>15 DEF DataInv

\* A crash leaves the checkpoint on the medium, wherever the threads were.
LEMMA DieData == ASSUME Safe, Die PROVE DataInv'
<1>1. /\ phase' = "open" /\ pc' = All("app") /\ segment_state_dirty' = {}
      /\ committed_epoch' = committed_epoch /\ back_to_main' = back_to_main /\ snap' = snap
  BY DEF Die, Unset, Modes
<1>2. PICK m \in Resolve(main_pm, Contents), k \in Resolve(back_pm, Contents),
           s0 \in Resolve(segment_state_pm[0], States), s1 \in Resolve(segment_state_pm[1], States) :
         /\ main' = m /\ main_pm' = Settled(m) /\ back' = k /\ back_pm' = Settled(k)
         /\ segment_state' = [e \in 0 .. 1 |-> IF e = 0 THEN s0 ELSE s1]
         /\ segment_state_pm' = [e \in 0 .. 1 |-> Settled(IF e = 0 THEN s0 ELSE s1)]
  BY DEF Die
<1>3. TypeOK /\ ControlInv /\ DataInv
  BY DEF Safe
<1>4. /\ \A b \in Blocks : m[b] \in main_pm[b] /\ main_pm'[b] = {m[b]}
      /\ \A d \in BackBlocks : k[d] \in back_pm[d] /\ back_pm'[d] = {k[d]}
  BY <1>2, <1>3 DEF Resolve, Settled, TypeOK, ImageTypeOK
<1>5. \A e \in 0 .. 1, s \in Segments : /\ segment_state'[e][s] \in segment_state_pm[e][s]
                                        /\ segment_state_pm'[e][s] = {segment_state'[e][s]}
  <2>1. /\ segment_state_pm[0] \in [Segments -> (SUBSET States) \ {{}}]
        /\ segment_state_pm[1] \in [Segments -> (SUBSET States) \ {{}}]
    BY <1>3 DEF TypeOK, ImageTypeOK
  <2>2. \A s \in Segments : /\ s0[s] \in segment_state_pm[0][s] /\ Settled(s0)[s] = {s0[s]}
                            /\ s1[s] \in segment_state_pm[1][s] /\ Settled(s1)[s] = {s1[s]}
    BY <2>1 DEF Resolve, Settled
  <2>3. /\ segment_state'[0] = s0 /\ segment_state'[1] = s1
        /\ segment_state_pm'[0] = Settled(s0) /\ segment_state_pm'[1] = Settled(s1)
    BY <1>2
  <2>4. \A e \in 0 .. 1 : e = 0 \/ e = 1
    OBVIOUS
  <2> QED
    BY <2>2, <2>3, <2>4
<1>6. /\ Active' = Active /\ Inactive' = Inactive
      /\ \A s \in Segments : StateOf(s)' = StateOf(s)
  <2>1. \A s \in Segments : segment_state_pm[Active][s] = {StateOf(s)}
    BY <1>3 DEF DataInv, SlotInv
  <2>2. Active' = Active /\ Inactive' = Inactive
    BY <1>1 DEF Active, Inactive
  <2> QED
    BY <2>1, <2>2, <1>3, <1>5, Slots DEF StateOf
<1>7. BindInv'
  BY <1>1, <1>3 DEF DataInv, BindInv, All
<1>8. SlotInv'
  <2>1. \A s \in Segments : /\ segment_state_pm'[Active'][s] = {StateOf(s)'}
                            /\ segment_state_pm'[Inactive'][s] = {segment_state'[Inactive'][s]}
    BY <1>3, <1>5, <1>6, Slots DEF StateOf
  <2> QED
    BY <2>1, <1>1 DEF SlotInv
<1>9. StateInv'
  BY <1>1 DEF StateInv
<1>10. MediumInv'
  BY <1>2, <1>4 DEF MediumInv
<1>11. SnapInv'
  <2> SUFFICES ASSUME NEW b \in Blocks, snap[b] # Junk
               PROVE  /\ StateOf(b[1])' # "Initial"
                      /\ \A c \in BackSegments : (StateOf(b[1])' = "Back" /\ back_to_main[c] = b[1])
                            => back_pm'[<<c, b[2]>>] = {snap[b]}
                      /\ (StateOf(b[1])' = "Main" \/ \A c \in BackSegments : back_to_main[c] # b[1])
                            => main_pm'[b] = {snap[b]}
    BY <1>1 DEF SnapInv
  <2>1. b[1] \in Segments /\ StateOf(b[1])' = StateOf(b[1]) /\ StateOf(b[1]) # "Initial"
        /\ StateOf(b[1]) \in States
    BY <1>3, <1>6, Shapes, Slots DEF DataInv, SnapInv
  <2>2. ASSUME NEW c \in BackSegments, StateOf(b[1]) = "Back", back_to_main[c] = b[1]
        PROVE  back_pm'[<<c, b[2]>>] = {snap[b]}
    <3>1. <<c, b[2]>> \in BackBlocks
      BY Shapes
    <3>2. back_pm[<<c, b[2]>>] = {snap[b]}
      <4>1. CASE phase = "open"
        BY <2>2, <4>1, <1>3 DEF DataInv, SnapInv
      <4>2. CASE phase # "open"
        <5>1. main_to_back[b[1]] = c
          BY <2>2, <4>2, <1>3 DEF DataInv, BindInv
        <5>2. Where(b) = "Back" /\ BackBlock(b[1], b) = <<c, b[2]>>
          BY <2>2, <5>1, Shapes DEF Where, HasBack, BackBlock
        <5>3. Medium("Back", b) = {snap[b]}
          BY <4>2, <5>2, <1>3 DEF DataInv, SnapInv, Sides
        <5> QED
          BY <5>2, <5>3 DEF Medium
      <4> QED
        BY <4>1, <4>2
    <3> QED
      BY <3>1, <3>2, <1>4
  <2>3. ASSUME StateOf(b[1]) = "Main" \/ \A c \in BackSegments : back_to_main[c] # b[1]
        PROVE  main_pm'[b] = {snap[b]}
    <3>1. main_pm[b] = {snap[b]}
      <4>1. CASE phase = "open"
        BY <2>3, <4>1, <1>3 DEF DataInv, SnapInv
      <4>2. CASE phase # "open"
        <5>1. Where(b) = "Main"
          <6>1. CASE StateOf(b[1]) = "Main"
            BY <6>1 DEF Where
          <6>2. CASE \A c \in BackSegments : back_to_main[c] # b[1]
            <7>1. ~HasBack(b[1])
              <8>1. main_to_back[b[1]] \in BackSegments \cup {Null}
                BY <2>1, <1>3 DEF TypeOK, ImageTypeOK
              <8>2. HasBack(b[1]) => back_to_main[main_to_back[b[1]]] = b[1]
                BY <2>1, <1>3 DEF ControlInv, OwnerInv
              <8> QED
                BY <6>2, <8>1, <8>2 DEF HasBack
            <7> QED
              BY <7>1 DEF Where
          <6> QED
            BY <2>3, <6>1, <6>2
        <5>2. Medium("Main", b) = {snap[b]}
          BY <4>2, <5>1, <1>3 DEF DataInv, SnapInv, Sides
        <5> QED
          BY <5>2 DEF Medium
      <4> QED
        BY <4>1, <4>2
    <3> QED
      BY <3>1, <1>4
  <2> QED
    BY <2>1, <2>2, <2>3
<1>12. CleanInv' /\ DirtyInv' /\ SidesInv'
  BY <1>1 DEF CleanInv, DirtyInv, SidesInv, Recovering, Checkpointing
<1> QED
  BY <1>7, <1>8, <1>9, <1>10, <1>11, <1>12 DEF DataInv

LEMMA OpenImageData == ASSUME Safe, OpenImage PROVE DataInv'
<1>1. /\ phase = "open" /\ phase' = "recover" /\ pc' = pc
      /\ committed_epoch' = committed_epoch /\ segment_state' = segment_state
      /\ segment_state_pm' = segment_state_pm /\ segment_state_dirty' = segment_state_dirty
      /\ main' = main /\ main_pm' = main_pm /\ back' = back /\ back_pm' = back_pm
      /\ back_to_main' = back_to_main /\ main_to_back' = Rebuilt /\ snap' = snap
  BY DEF OpenImage, stateVars, dataVars
<1>2. TypeOK /\ ControlInv /\ DataInv /\ \A u \in Threads : pc[u] = "app"
  BY <1>1 DEF Safe, ControlInv, PcInv, Recovering
<1>3. /\ Rebuilt \in [Segments -> BackSegments \cup {Null}]
      /\ \A s \in Segments : Rebuilt[s] # Null <=> \E c \in BackSegments : back_to_main[c] = s
      /\ \A s \in Segments : Rebuilt[s] # Null => back_to_main[Rebuilt[s]] = s
  BY <1>2, RebuiltFacts
<1>4. \A s \in Segments : StateOf(s)' = StateOf(s)
  BY <1>1 DEF StateOf, Active
<1>5. BindInv'
  <2>1. \A c, d \in BackSegments : back_to_main[c] = back_to_main[d] => c = d
    BY <1>2 DEF DataInv, BindInv
  <2>2. ASSUME NEW c \in BackSegments PROVE Rebuilt[back_to_main[c]] = c
    <3>1. back_to_main[c] \in Segments
      BY <1>2 DEF TypeOK, ImageTypeOK
    <3>2. Rebuilt[back_to_main[c]] \in BackSegments
          /\ back_to_main[Rebuilt[back_to_main[c]]] = back_to_main[c]
      BY <3>1, <1>3
    <3> QED
      BY <2>1, <3>2
  <2> QED
    BY <2>1, <2>2, <1>1, <1>2 DEF BindInv
<1>6. SlotInv' /\ StateInv' /\ MediumInv'
  BY <1>1, <1>2 DEF DataInv, SlotInv, StateInv, MediumInv, StateOf, Active, Inactive
<1>7. SnapInv'
  <2> SUFFICES ASSUME NEW b \in Blocks, snap[b] # Junk
               PROVE  /\ StateOf(b[1])' # "Initial"
                      /\ \A side \in Sides : side = Where(b)' => Medium(side, b)' = {snap[b]}
    BY <1>1 DEF SnapInv
  <2>1. /\ b[1] \in Segments /\ StateOf(b[1])' = StateOf(b[1]) /\ StateOf(b[1]) # "Initial"
        /\ StateOf(b[1]) \in States
        /\ \A c \in BackSegments : (StateOf(b[1]) = "Back" /\ back_to_main[c] = b[1])
              => back_pm[<<c, b[2]>>] = {snap[b]}
        /\ (StateOf(b[1]) = "Main" \/ \A c \in BackSegments : back_to_main[c] # b[1])
              => main_pm[b] = {snap[b]}
    BY <1>1, <1>2, <1>4, Shapes, Slots DEF DataInv, SnapInv
  <2>2. CASE Rebuilt[b[1]] = Null
    <3>1. Where(b)' = "Main" /\ main_pm[b] = {snap[b]}
      BY <2>1, <2>2, <1>1, <1>3 DEF Where, HasBack
    <3> QED
      BY <2>1, <3>1, <1>1 DEF Medium
  <2>3. CASE Rebuilt[b[1]] # Null /\ StateOf(b[1]) = "Main"
    <3>1. Where(b)' = "Main" /\ main_pm[b] = {snap[b]}
      BY <2>1, <2>3, <1>1 DEF Where
    <3> QED
      BY <2>1, <3>1, <1>1 DEF Medium
  <2>4. CASE Rebuilt[b[1]] # Null /\ StateOf(b[1]) = "Back"
    <3>1. Where(b)' = "Back"
      BY <2>1, <2>4, <1>1 DEF Where, HasBack
    <3>2. Rebuilt[b[1]] \in BackSegments /\ back_to_main[Rebuilt[b[1]]] = b[1]
      BY <2>1, <2>4, <1>3
    <3>3. back_pm[<<Rebuilt[b[1]], b[2]>>] = {snap[b]}
      BY <2>1, <2>4, <3>2
    <3>4. Medium("Back", b)' = {snap[b]}
      BY <3>3, <1>1 DEF Medium, BackBlock
    <3> QED
      BY <2>1, <3>1, <3>4 DEF Sides
  <2> QED
    BY <2>1, <2>2, <2>3, <2>4 DEF States
<1>8. CleanInv' /\ DirtyInv' /\ SidesInv'
  BY <1>1 DEF CleanInv, DirtyInv, SidesInv, Recovering, Checkpointing
<1> QED
  BY <1>5, <1>6, <1>7, <1>8 DEF DataInv

LEMMA RecoveryCopyData == ASSUME Safe, RecoveryCopy PROVE DataInv'
<1> DEFINE B        == UNION {BlocksOf(s) : s \in Bound("Back")}
           M        == UNION {BlocksOf(s) : s \in Bound("Main")}
           toBack   == BackOf(M)
           fromMain == [d \in BackBlocks |-> main[<<back_to_main[d[1]], d[2]>>]]
           fromBack == [b \in Blocks |-> IF b \in B THEN back[BackBlock(b[1], b)] ELSE main[b]]
<1>1. /\ phase = "recover" /\ phase' = "recover_commit" /\ pc' = pc
      /\ back_to_main' = back_to_main /\ main_to_back' = main_to_back /\ snap' = snap
      /\ committed_epoch' = committed_epoch /\ set_segment_state(Bound("Back"), "Main")
      /\ back' = Write(back, toBack, fromMain) /\ back_pm' = Put(back_pm, toBack, fromMain)
      /\ main' = Write(main, B, fromBack)      /\ main_pm' = Put(main_pm, B, fromBack)
  BY DEF RecoveryCopy, bindVars
<1>2. TypeOK /\ ControlInv /\ DataInv /\ \A u \in Threads : pc[u] = "app"
  BY <1>1 DEF Safe, ControlInv, PcInv, Recovering
<1>3. \A b \in Blocks : /\ b \in B <=> (HasBack(b[1]) /\ StateOf(b[1]) = "Back")
                        /\ b \in M <=> (HasBack(b[1]) /\ StateOf(b[1]) = "Main")
  <2>1. \A s \in Segments, b \in Blocks : b \in BlocksOf(s) <=> b[1] = s
    BY BlocksOfShape
  <2>2. Bound("Back") \subseteq Segments /\ Bound("Main") \subseteq Segments
    BY DEF Bound
  <2>3. \A b \in Blocks : (b \in B <=> b[1] \in Bound("Back")) /\ (b \in M <=> b[1] \in Bound("Main"))
    BY <2>1, <2>2
  <2> HIDE DEF B, M
  <2> QED
    BY <2>3, Shapes DEF Bound, HasBack
<1>4. M \subseteq Blocks
  <2>1. Bound("Main") \subseteq Segments
    BY DEF Bound
  <2> QED
    BY <2>1, BlocksOfShape
<1> HIDE DEF B, M
<1>5. \A b \in Blocks : HasBack(b[1]) =>
        /\ BackBlock(b[1], b) \in BackBlocks
        /\ BackBlock(b[1], b) \in toBack <=> b \in M
        /\ fromMain[BackBlock(b[1], b)] = main[b]
  <2> SUFFICES ASSUME NEW b \in Blocks, HasBack(b[1])
               PROVE  /\ BackBlock(b[1], b) \in BackBlocks
                      /\ BackBlock(b[1], b) \in toBack <=> b \in M
                      /\ fromMain[BackBlock(b[1], b)] = main[b]
    OBVIOUS
  <2>0. OwnerInv
    BY <1>2 DEF ControlInv
  <2>1. /\ BackBlock(b[1], b) \in BackBlocks
        /\ \A d \in Blocks : HasBack(d[1]) /\ BackBlock(b[1], b) = BackBlock(d[1], d) => b = d
    BY <1>2, <2>0, BackBlockFacts
  <2>2. BackBlock(b[1], b) \in toBack <=> b \in M
    <3>1. \A d \in M : d \in Blocks /\ HasBack(d[1])
      BY <1>3, <1>4
    <3> QED
      BY <2>1, <3>1 DEF BackOf
  <2>3. BackBlock(b[1], b)[1] = main_to_back[b[1]] /\ BackBlock(b[1], b)[2] = b[2]
    BY DEF BackBlock
  <2>4. back_to_main[main_to_back[b[1]]] = b[1]
    BY <2>0, Shapes DEF OwnerInv
  <2>5. fromMain[BackBlock(b[1], b)] = main[<<back_to_main[main_to_back[b[1]]], b[2]>>]
    BY <2>1, <2>3
  <2> QED
    BY <2>1, <2>2, <2>4, <2>5, Shapes
<1>6. \A b \in Blocks : /\ fromBack[b] = IF b \in B THEN back[BackBlock(b[1], b)] ELSE main[b]
                        /\ main'[b] = IF b \in B THEN back[BackBlock(b[1], b)] ELSE main[b]
                        /\ main_pm'[b] = IF b \in B THEN main_pm[b] \cup {fromBack[b]} ELSE main_pm[b]
  BY <1>1, <1>2 DEF Write, Put, TypeOK, ImageTypeOK
<1> HIDE DEF toBack, fromMain, fromBack
<1>7. \A d \in BackBlocks : /\ back'[d] = IF d \in toBack THEN fromMain[d] ELSE back[d]
                            /\ back_pm'[d] = IF d \in toBack THEN back_pm[d] \cup {fromMain[d]} ELSE back_pm[d]
  BY <1>1, <1>2 DEF Write, Put, TypeOK, ImageTypeOK
<1>8. SlotInv' /\ \A s \in Segments : StateOf(s)' = StateOf(s)
  <2>1. Bound("Back") \in SUBSET Segments /\ "Main" \in States /\ SlotInv
    BY <1>2 DEF Bound, States, DataInv
  <2> QED
    BY <2>1, <1>1, <1>2, SetStateSlot
<1>9. BindInv'
  BY <1>1, <1>2 DEF DataInv, BindInv
<1>10. StateInv'
  BY <1>1 DEF StateInv
<1>11. MediumInv'
  <2>1. \A b \in Blocks : main'[b] \in main_pm'[b]
    BY <1>2, <1>6 DEF DataInv, MediumInv
  <2>2. \A d \in BackBlocks : back'[d] \in back_pm'[d]
    BY <1>2, <1>7 DEF DataInv, MediumInv
  <2> QED
    BY <2>1, <2>2, <1>1 DEF MediumInv
<1>12. ASSUME NEW b \in Blocks, snap[b] # Junk
       PROVE  /\ StateOf(b[1]) # "Initial" /\ StateOf(b[1]) \in States /\ b[1] \in Segments
              /\ \A side \in Sides : side = Where(b) => Medium(side, b) = {snap[b]}
  BY <1>1, <1>2, <1>12, Shapes, Slots DEF DataInv, SnapInv
<1>13. /\ \A s \in Segments : HasBack(s)' <=> HasBack(s)
       /\ \A b \in Blocks : BackBlock(b[1], b)' = BackBlock(b[1], b)
  BY <1>1 DEF HasBack, BackBlock
<1>14. SnapInv'
  <2> SUFFICES ASSUME NEW b \in Blocks, snap[b] # Junk
               PROVE  /\ StateOf(b[1])' # "Initial"
                      /\ \A side \in Sides : side = Where(b)' => Medium(side, b)' = {snap[b]}
    BY <1>1 DEF SnapInv
  <2>1. /\ StateOf(b[1]) # "Initial" /\ StateOf(b[1]) \in States /\ b[1] \in Segments
        /\ \A side \in Sides : side = Where(b) => Medium(side, b) = {snap[b]}
    BY <1>12
  <2>2. Where(b)' = Where(b) /\ StateOf(b[1])' = StateOf(b[1])
    BY <2>1, <1>8, <1>13 DEF Where
  <2>3. CASE Where(b) = "Main"
    <3>1. b \notin B
      BY <2>3, <1>3 DEF Where
    <3> QED
      BY <2>1, <2>2, <2>3, <3>1, <1>6 DEF Medium, Sides
  <2>4. CASE Where(b) = "Back"
    <3>1. HasBack(b[1]) /\ b \notin M
      BY <2>4, <1>3 DEF Where
    <3>2. back_pm'[BackBlock(b[1], b)] = back_pm[BackBlock(b[1], b)]
      BY <3>1, <1>5, <1>7
    <3> QED
      BY <2>1, <2>2, <2>4, <3>2, <1>13 DEF Medium, Sides
  <2> QED
    BY <2>1, <2>2, <2>3, <2>4 DEF Where, States
<1>15. SidesInv'
  <2>0. \A b \in Blocks : main_pm[b] = {main[b]}
    <3>1. main_pm = Settled(main)
      BY <1>1, <1>2 DEF DataInv, MediumInv
    <3> QED
      BY <3>1, <1>2 DEF Settled, TypeOK, ImageTypeOK
  <2>1. ASSUME NEW b \in Blocks, HasBack(b[1]), StateOf(b[1]) # "Initial"
        PROVE  main'[b] = back'[BackBlock(b[1], b)]
    <3>1. StateOf(b[1]) \in {"Main", "Back"}
      BY <2>1, <1>2, Shapes, Slots DEF States
    <3>2. CASE StateOf(b[1]) = "Main"
      BY <2>1, <3>2, <1>3, <1>5, <1>6, <1>7
    <3>3. CASE StateOf(b[1]) = "Back"
      BY <2>1, <3>3, <1>3, <1>5, <1>6, <1>7
    <3> QED
      BY <3>1, <3>2, <3>3
  <2>2. ASSUME NEW b \in Blocks, snap[b] # Junk PROVE main'[b] = snap[b]
    <3>1. /\ StateOf(b[1]) # "Initial" /\ StateOf(b[1]) \in States
          /\ \A side \in Sides : side = Where(b) => Medium(side, b) = {snap[b]}
      BY <2>2, <1>12
    <3>2. CASE Where(b) = "Main"
      <4>1. b \notin B /\ main_pm[b] = {snap[b]}
        BY <3>1, <3>2, <1>3 DEF Where, Medium, Sides
      <4> QED
        BY <4>1, <2>0, <1>6
    <3>3. CASE Where(b) = "Back"
      <4>1. HasBack(b[1]) /\ b \in B /\ back_pm[BackBlock(b[1], b)] = {snap[b]}
        BY <3>1, <3>3, <1>3 DEF Where, Medium, Sides
      <4>2. back[BackBlock(b[1], b)] \in back_pm[BackBlock(b[1], b)]
        BY <4>1, <1>2, <1>5 DEF DataInv, MediumInv
      <4> QED
        BY <4>1, <4>2, <1>6
    <3> QED
      BY <3>1, <3>2, <3>3 DEF Where, States
  <2> QED
    BY <2>1, <2>2, <1>1, <1>8, <1>13, Shapes DEF SidesInv
<1>16. CleanInv' /\ DirtyInv'
  BY <1>1 DEF CleanInv, DirtyInv, Recovering, Checkpointing
<1> QED
  BY <1>8, <1>9, <1>10, <1>11, <1>14, <1>15, <1>16 DEF DataInv

LEMMA RecoveryCommitData == ASSUME Safe, RecoveryCommit, broken' = {} PROVE DataInv'
<1>1. /\ phase = "recover_commit" /\ phase' = "recover_copy" /\ pc' = pc /\ CommitEpoch
      /\ back_to_main' = back_to_main /\ main_to_back' = main_to_back /\ snap' = snap
      /\ main' = main /\ back' = back /\ main_pm' = Settled(main) /\ back_pm' = Settled(back)
  BY DEF RecoveryCommit, bindVars
<1>2. TypeOK /\ ControlInv /\ DataInv /\ \A u \in Threads : pc[u] = "app"
  BY <1>1 DEF Safe, ControlInv, PcInv, Recovering
<1>3. /\ Active' = Inactive /\ Inactive' = Active
      /\ segment_state' = segment_state /\ segment_state_dirty' = segment_state_dirty
      /\ \A s \in Segments : StateOf(s)' = segment_state[Inactive][s]
      /\ SlotInv'
  <2>1. SlotInv /\ phase \in {"commit", "recover_commit"} /\ phase' \in {"copy", "recover_copy"}
    BY <1>1, <1>2 DEF DataInv
  <2> QED
    BY <2>1, <1>1, <1>2, CommitFacts
<1>4. \A s \in Segments :
        /\ HasBack(s) /\ StateOf(s) # "Initial" => StateOf(s)' = "Main"
        /\ ~HasBack(s) \/ StateOf(s) = "Initial" => StateOf(s)' = StateOf(s)
  <2>1. broken' = IF \E s \in Segments : LeftOver(s) THEN broken \cup {"slot"} ELSE broken
    BY DEF RecoveryCommit
  <2>2. \A s \in Segments : ~LeftOver(s)
    BY <2>1
  <2>3. \A s \in Segments : StateOf(s) \in {"Initial", "Main", "Back"}
    BY <1>2, Slots DEF States
  <2> QED
    BY <2>2, <2>3, <1>3 DEF LeftOver, Bound, HasBack
<1>5. BindInv'
  BY <1>1, <1>2 DEF DataInv, BindInv
<1>6. StateInv'
  <2>1. \A s \in Segments : StateOf(s)' = "Initial" <=> segment_state[Active][s] = "Initial"
    BY <1>4 DEF StateOf
  <2> QED
    BY <2>1, <1>1, <1>3 DEF StateInv
<1>7. /\ \A b \in Blocks : main_pm'[b] = {main[b]}
      /\ \A d \in BackBlocks : back_pm'[d] = {back[d]}
  BY <1>1, <1>2 DEF Settled, TypeOK, ImageTypeOK
<1>8. MediumInv'
  BY <1>1, <1>7 DEF MediumInv
<1>9. /\ \A s \in Segments : HasBack(s)' <=> HasBack(s)
      /\ \A b \in Blocks : BackBlock(b[1], b)' = BackBlock(b[1], b)
  BY <1>1 DEF HasBack, BackBlock
<1>10. SnapInv'
  <2> SUFFICES ASSUME NEW b \in Blocks, snap[b] # Junk
               PROVE  /\ StateOf(b[1])' # "Initial"
                      /\ \A side \in Sides : side = Where(b)' => Medium(side, b)' = {snap[b]}
    BY <1>1 DEF SnapInv
  <2>1. b[1] \in Segments /\ StateOf(b[1]) # "Initial" /\ main[b] = snap[b]
    BY <1>1, <1>2, Shapes DEF DataInv, SnapInv, SidesInv
  <2>2. StateOf(b[1])' # "Initial" /\ Where(b)' = "Main"
    BY <2>1, <1>4, <1>9 DEF Where
  <2> QED
    BY <2>1, <2>2, <1>7 DEF Medium
<1>11. SidesInv'
  <2>1. \A b \in Blocks : /\ HasBack(b[1]) /\ StateOf(b[1]) # "Initial" => main[b] = back[BackBlock(b[1], b)]
                          /\ snap[b] # Junk => main[b] = snap[b]
    BY <1>1, <1>2 DEF DataInv, SidesInv
  <2>2. \A b \in Blocks : StateOf(b[1])' # "Initial" => StateOf(b[1]) # "Initial"
    BY <1>4, Shapes
  <2> QED
    BY <2>1, <2>2, <1>1, <1>9, Shapes DEF SidesInv
<1>12. CleanInv' /\ DirtyInv'
  BY <1>1 DEF CleanInv, DirtyInv, Recovering, Checkpointing
<1> QED
  BY <1>3, <1>5, <1>6, <1>8, <1>10, <1>11, <1>12 DEF DataInv

LEMMA OpenDoneData == ASSUME Safe, OpenDone PROVE DataInv'
<1>1. /\ phase = "recover_copy" /\ phase' = "run" /\ pc' = pc /\ CopyStates
      /\ back_to_main' = back_to_main /\ main_to_back' = main_to_back /\ snap' = snap
      /\ main' = main /\ back' = back /\ main_pm' = main_pm /\ back_pm' = back_pm
      /\ working_memory' = [b \in Blocks |-> IF Loaded(b[1]) THEN main[b] ELSE Junk]
      /\ epoch' = epoch /\ block_dirty' = block_dirty /\ segment_dirty' = segment_dirty
  BY DEF OpenDone, bindVars, dataVars, modeVars
<1>2. /\ TypeOK /\ ControlInv /\ DataInv /\ \A u \in Threads : pc[u] = "app"
      /\ block_dirty[1 - epoch] = {} /\ segment_dirty[1 - epoch] = {}
  <2>1. TypeOK /\ ControlInv /\ DataInv /\ phase \in Recovering
    BY <1>1 DEF Safe, Recovering
  <2> QED
    BY <2>1, <1>1, Slots DEF ControlInv, PcInv, EmptyInv
<1>3. /\ Active' = Active /\ Inactive' = Inactive /\ SlotInv'
      /\ \A s \in Segments : StateOf(s)' = StateOf(s)
      /\ \A s \in Segments : StateOf(s) = "Initial" <=> segment_state'[Inactive][s] = "Initial"
  <2>1. /\ SlotInv /\ StateInv /\ phase \in {"copy", "recover_copy"}
        /\ phase' \in {"run", "second", "finish"}
    BY <1>1, <1>2 DEF DataInv
  <2> QED
    BY <2>1, <1>1, <1>2, CopyStatesFacts
<1>4. BindInv'
  BY <1>1, <1>2 DEF DataInv, BindInv
<1>5. StateInv'
  BY <1>1, <1>2, <1>3 DEF StateInv
<1>6. MediumInv'
  BY <1>1, <1>2 DEF DataInv, MediumInv
<1>7. /\ \A s \in Segments : HasBack(s)' <=> HasBack(s)
      /\ \A r \in Sides, b \in Blocks : /\ Has(r, b)' <=> Has(r, b)
                                        /\ Copy(r, b)' = Copy(r, b) /\ Medium(r, b)' = Medium(r, b)
      /\ \A b \in Blocks : Where(b)' = Where(b)
  BY <1>1, <1>3, Shapes DEF HasBack, Has, Copy, BackBlock, Medium, Where
<1>8. SnapInv'
  BY <1>1, <1>2, <1>3, <1>7, Shapes DEF DataInv, SnapInv
<1>9. \A b \in Blocks : /\ HasBack(b[1]) /\ StateOf(b[1]) # "Initial" => main[b] = back[BackBlock(b[1], b)]
                        /\ snap[b] # Junk => main[b] = snap[b] /\ StateOf(b[1]) # "Initial"
  BY <1>1, <1>2 DEF DataInv, SidesInv, SnapInv
<1>10. CleanInv'
  <2>1. ASSUME NEW b \in Blocks, b \notin Touched' PROVE CleanBlock(b)'
    <3>1. working_memory'[b] = IF StateOf(b[1]) # "Initial" THEN main[b] ELSE Junk
      BY <1>1 DEF Loaded
    <3>2. snap'[b] # Junk => working_memory'[b] = snap'[b]
      BY <3>1, <1>1, <1>9
    <3>3. working_memory'[b] # Junk => StateOf(b[1])' # "Initial"
      BY <3>1, <1>3, Shapes
    <3>4. working_memory'[b] # Junk =>
            \A side \in Sides : Has(side, b)' => Copy(side, b)' = working_memory'[b]
      BY <3>1, <1>7, <1>9 DEF Sides, Has, Copy
    <3> QED
      BY <3>2, <3>3, <3>4, CleanBoth
  <2> QED
    BY <2>1, CleanShow
<1>11. DirtyInv'
  BY <1>1 DEF DirtyInv, Checkpointing
<1>12. SidesInv'
  BY <1>1, <1>9 DEF SidesInv, HasBack, BackBlock
<1> QED
  BY <1>3, <1>4, <1>5, <1>6, <1>8, <1>10, <1>11, <1>12 DEF DataInv

-----------------------------------------------------------------------------
(* The theorems.                                                           *)

\* A step never forgets that the checkpoint was lost.
LEMMA BrokenGrows == ASSUME Next PROVE broken \subseteq broken'
<1>1. ASSUME NEW t \in Threads, Store(t) PROVE broken \subseteq broken'
  BY <1>1 DEF Store
<1>2. ASSUME Checkpoint PROVE broken \subseteq broken'
  BY <1>2 DEF Checkpoint, CheckpointBegin, CommitLayoutState, SetLayoutState, CommitLayoutEpoch,
              SyncLayoutStates, EndSecond, CheckpointFinish
<1>3. ASSUME NEW t \in Threads, \/ SyncSegment(t) \/ SyncCopy(t) \/ SyncEnd(t)
                                \/ Apply(t) \/ FindBackSegment(t)
                                \/ AllocateBackSegment(t) \/ AllocateFail(t)
                                \/ FillBack(t) \/ FillMain(t)
      PROVE  broken \subseteq broken'
  BY <1>3 DEF SyncSegment, SyncCopy, SyncEnd, Apply, FindBackSegment, AllocateBackSegment, AllocateFail, Die, FillBack, FillMain
<1>4. ASSUME Crash PROVE broken \subseteq broken'
  BY <1>4 DEF Crash, Die
<1>5. ASSUME Recovery PROVE broken \subseteq broken'
  BY <1>5 DEF Recovery, OpenImage, RecoveryCopy, RecoveryCommit, OpenDone
<1> QED
  BY <1>1, <1>2, <1>3, <1>4, <1>5 DEF Next, Section

\* Every step that does not lose the checkpoint keeps the data part.
LEMMA NextData ==
  ASSUME Safe, Next, TypeOK', ControlInv', broken' = {} PROVE DataInv'
<1>1. ASSUME NEW t \in Threads, Store(t) PROVE DataInv'
  BY <1>1, StoreData
<1>2. ASSUME Checkpoint PROVE DataInv'
  BY <1>2, CheckpointBeginData, CommitLayoutStateData, SetLayoutStateData, CommitLayoutEpochData,
     SyncLayoutStatesData, EndSecondData, CheckpointFinishData DEF Checkpoint
<1>3. ASSUME NEW t \in Threads, \/ SyncSegment(t) \/ SyncCopy(t) \/ SyncEnd(t)
                                \/ Apply(t) \/ FindBackSegment(t)
                                \/ AllocateBackSegment(t) \/ AllocateFail(t)
                                \/ FillBack(t) \/ FillMain(t)
      PROVE  DataInv'
  <2>1. AllocateFail(t) => Die
    BY DEF AllocateFail
  <2> QED
    BY <1>3, <2>1, SyncSegmentData, SyncCopyData, SyncEndData, ApplyData, FindBackSegmentData, AllocateBackSegmentData, FillBackData,
       FillMainData, DieData
<1>4. ASSUME Crash PROVE DataInv'
  BY <1>4, DieData DEF Crash
<1>5. ASSUME Recovery PROVE DataInv'
  BY <1>5, OpenImageData, RecoveryCopyData, RecoveryCommitData, OpenDoneData DEF Recovery
<1> QED
  BY <1>1, <1>2, <1>3, <1>4, <1>5 DEF Next, Section

\* The invariant is inductive.
LEMMA Inductive == IndInv /\ [Next]_vars => IndInv'
<1> SUFFICES ASSUME IndInv, [Next]_vars PROVE IndInv'
  OBVIOUS
<1>1. CASE Next
  <2>1. TypeOK' /\ ControlInv'
    BY <1>1, NextBase DEF IndInv
  <2>2. ASSUME broken' = {} PROVE DataInv'
    <3>1. broken = {}
      BY <1>1, <2>2, BrokenGrows
    <3>2. Safe
      BY <3>1 DEF IndInv, Safe
    <3> QED
      BY <1>1, <2>1, <2>2, <3>2, NextData
  <2> QED
    BY <2>1, <2>2 DEF IndInv
<1>2. CASE UNCHANGED vars
  <2>1. /\ UNCHANGED stateVars /\ UNCHANGED bindVars /\ UNCHANGED dataVars /\ UNCHANGED modeVars
        /\ UNCHANGED <<working_memory, address_buffer, flush_blocks, block_dirty, segment_dirty>>
        /\ pc' = pc /\ phase' = phase /\ todo' = todo /\ target' = target /\ back_id' = back_id
        /\ snap' = snap /\ broken' = broken /\ attributes' = attributes
    BY <1>2 DEF vars, hookVars, pcVars
  <2>2. TypeOK'
    <3>1. PcTypes' /\ BreakTypes'
      BY <2>1 DEF IndInv, TypeOK, PcTypes, BreakTypes, Pcs, Phases
    <3> QED
      BY <2>1, <3>1, TypeParts, StateFrame, BindFrame, DataFrame, HookFrame, ModeFrame, MemFrame DEF IndInv
  <2>3. ControlInv'
    BY <2>1 DEF IndInv, ControlInv, PcInv, TodoInv, ListInv, ModeInv, EmptyInv, OwnerInv, HasBack,
                Buffered, Mode, Total, SegmentShare, modeVars, bindVars
  <2>4. DataInv => DataInv'
    <3> SUFFICES ASSUME DataInv PROVE DataInv'
      OBVIOUS
    <3>0. /\ Side' = Side /\ NewSide' = NewSide /\ Lag' = Lag /\ Pending' = Pending /\ Touched' = Touched
          /\ Dirty' = Dirty /\ (OneSided' <=> OneSided)
          /\ \A s : StateOf(s)' = StateOf(s) /\ (HasBack(s)' <=> HasBack(s))
          /\ \A side, b : /\ Has(side, b)' <=> Has(side, b)
                          /\ Copy(side, b)' = Copy(side, b) /\ Medium(side, b)' = Medium(side, b)
                          /\ Stored(side, b)' <=> Stored(side, b)
          /\ \A b : /\ Where(b)' = Where(b) /\ BackBlock(b[1], b)' = BackBlock(b[1], b)
                    /\ Behind(b)' <=> Behind(b)
      BY <2>1 DEF Side, NewSide, Lag, Other, Pending, NeedsSync, Touched, Buffered, Dirty, OneSided,
                  StateOf, Active, HasBack, Has, Copy, Medium, Stored, BackBlock, Where, Behind,
                  stateVars, bindVars, dataVars, modeVars
    <3>1. \A b : Remaining(b) => Remaining(b)'
      <4>1. \A t \in Threads : Share(t, NewSide)' = Share(t, NewSide)
        BY <2>1 DEF Share, NewSide, SegmentShare, modeVars
      <4> QED
        BY <2>1, <4>1 DEF Remaining
    <3>2. BindInv' /\ MediumInv' /\ SidesInv'
      BY <2>1, <3>0 DEF DataInv, BindInv, MediumInv, SidesInv, bindVars, dataVars, StateOf, Active, stateVars
    <3>3. SlotInv' /\ StateInv'
      BY <2>1, SlotFrame, StateInvFrame DEF DataInv, modeVars
    <3>4. SnapInv'
      BY <2>1, <3>0 DEF DataInv, SnapInv, bindVars, dataVars
    <3>5. CleanInv'
      BY <2>1, <3>0 DEF DataInv, CleanInv
    <3>6. DirtyInv'
      BY <2>1, <3>0, <3>1 DEF DataInv, DirtyInv, modeVars
    <3> QED
      BY <3>2, <3>3, <3>4, <3>5, <3>6 DEF DataInv
  <2> QED
    BY <2>1, <2>2, <2>3, <2>4 DEF IndInv
<1> QED
  BY <1>1, <1>2

LEMMA InitInd == Init => IndInv
BY InitBase, InitData DEF IndInv

LEMMA Invariance == Spec => []IndInv
<1>1. Init => IndInv
  BY InitInd
<1>2. IndInv /\ [Next]_vars => IndInv'
  BY Inductive
<1> QED
  BY <1>1, <1>2, PTL DEF Spec

\* What the invariant says of a crash now.
LEMMA IndSafe == IndInv => SafeUnlessBroken
<1> SUFFICES ASSUME IndInv, broken = {}, NEW b \in Blocks, snap[b] # Junk,
                    NEW state \in segment_state_pm[Active][b[1]]
             PROVE  Recoverable(b, state) = {snap[b]}
  BY DEF SafeUnlessBroken
<1>1. TypeOK /\ ControlInv /\ DataInv /\ b[1] \in Segments
  BY Shapes DEF IndInv
<1>2. state = StateOf(b[1]) /\ StateOf(b[1]) # "Initial" /\ StateOf(b[1]) \in States
  BY <1>1, Slots DEF DataInv, SlotInv, SnapInv
<1> DEFINE owners == {c \in BackSegments : back_to_main[c] = b[1]}
<1>3. CASE state = "Back" /\ owners # {}
  <2>1. \A c \in owners : back_pm[<<c, b[2]>>] = {snap[b]}
    <3> SUFFICES ASSUME NEW c \in BackSegments, back_to_main[c] = b[1]
                 PROVE  back_pm[<<c, b[2]>>] = {snap[b]}
      OBVIOUS
    <3>1. CASE phase = "open"
      BY <3>1, <1>1, <1>2, <1>3 DEF DataInv, SnapInv
    <3>2. CASE phase # "open"
      <4>1. main_to_back[b[1]] = c
        BY <3>2, <1>1 DEF DataInv, BindInv
      <4>2. Where(b) = "Back" /\ BackBlock(b[1], b) = <<c, b[2]>>
        BY <4>1, <1>2, <1>3, Shapes DEF Where, HasBack, BackBlock
      <4>3. Medium("Back", b) = {snap[b]}
        BY <3>2, <4>2, <1>1 DEF DataInv, SnapInv, Sides
      <4> QED
        BY <4>2, <4>3 DEF Medium
    <3> QED
      BY <3>1, <3>2
  <2>2. Recoverable(b, state) = UNION {back_pm[<<c, b[2]>>] : c \in owners}
    BY <1>3 DEF Recoverable
  <2> QED
    BY <2>1, <2>2, <1>3
<1>4. CASE ~(state = "Back" /\ owners # {})
  <2>1. Recoverable(b, state) = main_pm[b]
    BY <1>4 DEF Recoverable
  <2>2. StateOf(b[1]) = "Main" \/ \A c \in BackSegments : back_to_main[c] # b[1]
    BY <1>2, <1>4 DEF States
  <2>3. CASE phase = "open"
    BY <2>1, <2>2, <2>3, <1>1 DEF DataInv, SnapInv
  <2>4. CASE phase # "open"
    <3>1. Where(b) = "Main"
      <4>1. CASE StateOf(b[1]) = "Main"
        BY <4>1 DEF Where
      <4>2. CASE \A c \in BackSegments : back_to_main[c] # b[1]
        <5>1. main_to_back[b[1]] \in BackSegments \cup {Null}
          BY <1>1 DEF TypeOK, ImageTypeOK
        <5>2. HasBack(b[1]) => back_to_main[main_to_back[b[1]]] = b[1]
          BY <1>1 DEF ControlInv, OwnerInv
        <5>3. ~HasBack(b[1])
          BY <4>2, <5>1, <5>2 DEF HasBack
        <5> QED
          BY <5>3 DEF Where
      <4> QED
        BY <2>2, <4>1, <4>2
    <3>2. Medium("Main", b) = {snap[b]}
      BY <2>4, <3>1, <1>1 DEF DataInv, SnapInv, Sides
    <3> QED
      BY <2>1, <3>2 DEF Medium
  <2> QED
    BY <2>3, <2>4
<1> QED
  BY <1>3, <1>4

\* Crash consistency of the engine for every number of segments, blocks,
\* threads and list entries: whatever the threads of a checkpoint or a
\* recovery were doing, the medium holds the last checkpoint on the side the
\* segment states name, until one of the five events recorded in broken.
THEOREM CrashConsistent == Spec => []SafeUnlessBroken
BY Invariance, IndSafe, PTL

\* The state is well typed, and between checkpoints main and back segments
\* differ only in the blocks of the last epoch, while the next checkpoint is
\* going to copy them (apply_nvm_to_nvm_parallel).
THEOREM SidesAgree == Spec => []SidesDifferWherePending
<1>1. IndInv => SidesDifferWherePending
  <2> SUFFICES ASSUME IndInv PROVE SidesDifferWherePending
    OBVIOUS
  <2>1. TypeOK
    BY DEF IndInv
  <2>2. ASSUME broken = {}, phase = "run", NEW b \in Blocks, main_to_back[b[1]] # Null,
               snap[b] # Junk, main[b] # back[BackBlock(b[1], b)]
        PROVE  b \in block_dirty[1 - epoch] /\ (mpi \/ flush_mode = "WBINVD")
    <3>1. b \in Pending
      BY <2>2 DEF IndInv, DataInv, SidesInv, HasBack
    <3> QED
      BY <3>1 DEF Pending, NeedsSync
  <2> QED
    BY <2>1, <2>2 DEF SidesDifferWherePending
<1> QED
  BY <1>1, Invariance, PTL

\* A checkpoint that returns has made durable all that was stored before: at
\* the end of checkpoint the commit has taken the working memory, and one that
\* returns early (NO_ACTION) has found every list, and so every bit set, empty.
THEOREM DurableWhenReturned == Spec => CheckpointDurable
<1> DEFINE A == (CheckpointFinish \/ (CheckpointBegin /\ phase' = "run")) /\ broken = {}
                  => \A b \in Blocks :
                       (snap[b] # Junk \/ b \in block_dirty[epoch] \cup Buffered)
                       => snap'[b] = working_memory[b]
<1>1. IndInv /\ [Next]_vars => A
  <2> SUFFICES ASSUME IndInv, [Next]_vars, CheckpointFinish \/ (CheckpointBegin /\ phase' = "run"),
                      broken = {}, NEW b \in Blocks,
                      snap[b] # Junk \/ b \in block_dirty[epoch] \cup Buffered
               PROVE  snap'[b] = working_memory[b]
    OBVIOUS
  <2>0. TypeOK /\ ControlInv /\ Safe
    BY DEF IndInv, Safe
  <2>1. CASE CheckpointFinish
    BY <2>0, <2>1 DEF CheckpointFinish, Safe, DataInv, DirtyInv
  <2>2. CASE CheckpointBegin /\ phase' = "run"
    <3>1. /\ phase = "run" /\ epoch' = epoch /\ snap' = snap /\ hook_routine(0, Buffered)
          /\ flush_mode' = Mode(flush_blocks') /\ flush_mode' = "NO_ACTION"
      BY <2>2 DEF CheckpointBegin
    <3>2. TypeOK' /\ ControlInv'
      BY <2>0, <2>2, CheckpointBeginBase
    <3>3. flush_blocks' \in [Threads -> SUBSET Blocks] /\ Mode(flush_blocks') = "NO_ACTION"
      BY <3>1, <3>2 DEF TypeOK
    <3>4. \A t \in Threads : flush_blocks'[t] = {}
      BY <3>3, ModeFacts
    <3>5. block_dirty'[epoch] = {}
      <4>1. Cardinality({}) = 0
        BY FS_EmptySet
      <4>2. ~\E t \in Threads : Cardinality(flush_blocks'[t]) >= kMaxFlushBlocks
        <5> SUFFICES ASSUME NEW t \in Threads PROVE ~(Cardinality(flush_blocks'[t]) >= kMaxFlushBlocks)
          OBVIOUS
        <5>1. flush_blocks'[t] = {}
          BY <3>4
        <5>2. Cardinality(flush_blocks'[t]) = 0
          BY <4>1, <5>1
        <5>3. kMaxFlushBlocks \in Nat /\ kMaxFlushBlocks # 0
          BY HybridAssumption
        <5> QED
          BY <5>2, <5>3
      <4>3. \A d \in block_dirty'[epoch] : \E t \in Threads : d \in flush_blocks'[t]
        BY <3>1, <3>2, <4>2 DEF ControlInv, ListInv
      <4> QED
        BY <3>4, <4>3
    <3>6. block_dirty'[epoch] = block_dirty[epoch] \cup Buffered
      <4>1. Buffered \in SUBSET Blocks /\ 0 \in Threads
        BY <2>0, BufferedType, Shapes
      <4> QED
        BY <2>0, <3>1, <4>1, HookFacts
    <3>7. Touched = {} /\ snap[b] # Junk
      BY <3>5, <3>6 DEF Touched
    <3>8. CleanBlock(b)
      BY <2>0, <3>1, <3>7, CleanUse DEF Recovering
    <3> QED
      BY <3>1, <3>7, <3>8 DEF CleanBlock
  <2> QED
    BY <2>1, <2>2
<1>2. CheckpointDurable <=> [][A]_vars
  BY DEF CheckpointDurable
<1> HIDE DEF A
<1> QED
  BY <1>1, <1>2, Invariance, PTL DEF Spec

\* A program that was restarted begins with the last checkpoint: when Open
\* returns, prepare_working_memory has loaded it to DRAM.
THEOREM Restarted == Spec => RestartsFromSnapshot
<1> DEFINE A == (phase = "recover_copy" /\ phase' = "run" /\ broken = {})
                  => \A b \in Blocks : snap[b] # Junk => working_memory'[b] = snap[b]
<1>1. IndInv /\ [Next]_vars => A
  <2> SUFFICES ASSUME IndInv, [Next]_vars, phase = "recover_copy", phase' = "run", broken = {},
                      NEW b \in Blocks, snap[b] # Junk
               PROVE  working_memory'[b] = snap[b]
    OBVIOUS
  <2>0. TypeOK /\ ControlInv /\ Safe
    BY DEF IndInv, Safe
  <2>1. OpenDone
    <3>1. Next
      BY DEF vars, pcVars
    <3>2. \A t \in Threads : ~Store(t)
      BY DEF Store
    <3>3. ~Checkpoint
      BY DEF Checkpoint, CheckpointBegin, CommitLayoutState, SetLayoutState, CommitLayoutEpoch,
             SyncLayoutStates, EndSecond, CheckpointFinish
    <3>4. \A t \in Threads : pc[t] = "app"
      BY <2>0 DEF ControlInv, PcInv, Recovering
    <3>5. ~Section
      BY <3>4 DEF Section, SyncSegment, SyncCopy, SyncEnd, Apply, FindBackSegment, AllocateBackSegment, AllocateFail, FillBack,
                  FillMain
    <3>6. ~Crash
      BY DEF Crash, Die
    <3> QED
      BY <3>1, <3>2, <3>3, <3>5, <3>6 DEF Next, Recovery, OpenImage, RecoveryCopy, RecoveryCommit
  <2>2. main[b] = snap[b] /\ StateOf(b[1]) # "Initial"
    BY <2>0 DEF Safe, DataInv, SidesInv, SnapInv
  <2> QED
    BY <2>1, <2>2 DEF OpenDone, Loaded
<1>2. RestartsFromSnapshot <=> [][A]_vars
  BY DEF RestartsFromSnapshot
<1> HIDE DEF A
<1> QED
  BY <1>1, <1>2, Invariance, PTL DEF Spec

=============================================================================
