-------------------------- MODULE CheckpointImage --------------------------
(***************************************************************************)
(* The checkpoint image of a pool on persistent memory (checkpoint.cpp):   *)
(* the main segments the application works on, the back segments that      *)
(* shadow them, the binding between the two, and two slots of segment      *)
(* states of which the committed epoch selects the one that counts.        *)
(* How stores reach the medium is the subject of PersistentMemory.         *)
(***************************************************************************)
EXTENDS Naturals, FiniteSets, PersistentMemory

CONSTANTS nr_main_segments,
          nr_back_segments,
          kBlocksPerSegment,
          kRecordsPerCacheLine,  \* segment states in one cache line
          Values,                \* what the application stores in a block
          Junk,                  \* content of a block nobody stored to
          Null                   \* kNullSegmentIndex

ASSUME ImageAssumption ==
  /\ nr_main_segments \in Nat \ {0}
  /\ nr_back_segments \in Nat \ {0}
  /\ nr_back_segments <= nr_main_segments
  /\ kBlocksPerSegment \in Nat \ {0}
  /\ kRecordsPerCacheLine \in Nat \ {0}
  /\ Junk \notin Values
  /\ Null \notin Nat

Segments     == 0 .. (nr_main_segments - 1)
BackSegments == 0 .. (nr_back_segments - 1)
Offsets      == 0 .. (kBlocksPerSegment - 1)
Blocks       == Segments \X Offsets       \* <<segment, block of it>>
BackBlocks   == BackSegments \X Offsets
Contents     == Values \cup {Junk}
States       == {"Initial", "Main", "Back"}

VARIABLES committed_epoch,     \* its lowest bit: the slot that counts
          attributes,          \* kAttributeHasSnapshot is set
          segment_state,       \* the two slots, as loads see them
          segment_state_pm,    \* ... and as the medium may have them
          segment_state_dirty, \* lines changed since the last commit
          back_to_main,        \* on the medium
          main_to_back,        \* its inverse, in DRAM
          main,                \* main segments, as loads see them
          main_pm,             \* ... and as the medium may have them
          back, back_pm        \* back segments, likewise

imageVars == <<committed_epoch, attributes, segment_state, segment_state_pm,
               segment_state_dirty, back_to_main, main_to_back,
               main, main_pm, back, back_pm>>

BlocksOf(s) == {s} \X Offsets
LineOf(s)   == s \div kRecordsPerCacheLine
Lines       == {LineOf(s) : s \in Segments}
Active      == committed_epoch
Inactive    == 1 - committed_epoch

\* get_segment_state
StateOf(s) == segment_state[Active][s]

\* The location b of the main memory is copied to or from this one.
BackBlock(s, b) == <<main_to_back[s], b[2]>>

-----------------------------------------------------------------------------
\* CheckpointImage::Open with initialize: every segment Initial, the back
\* segment i bound to the main segment i, and everything flushed.
ImageInit ==
  /\ committed_epoch = 0
  /\ attributes = FALSE
  /\ segment_state = [e \in 0 .. 1 |-> [s \in Segments |-> "Initial"]]
  /\ segment_state_pm = [e \in 0 .. 1 |-> [s \in Segments |-> {"Initial"}]]
  /\ segment_state_dirty = {}
  /\ back_to_main = [c \in BackSegments |-> c]
  /\ main_to_back = [s \in Segments |-> IF s \in BackSegments THEN s ELSE Null]
  /\ main = [b \in Blocks |-> Junk]
  /\ main_pm = [b \in Blocks |-> {Junk}]
  /\ back = [b \in BackBlocks |-> Junk]
  /\ back_pm = [b \in BackBlocks |-> {Junk}]

\* CheckpointImage::Open of an existing image: main_to_back from back_to_main.
Rebuilt == [s \in Segments |->
              IF \E c \in BackSegments : back_to_main[c] = s
              THEN CHOOSE c \in BackSegments : back_to_main[c] = s
              ELSE Null]

\* Mutant: the old owner goes on pointing at the back segment.
OwnerKept(s, c) ==
  /\ back_to_main' = [back_to_main EXCEPT ![c] = s]
  /\ main_to_back' = [main_to_back EXCEPT ![s] = c]

\* bind_back_segment: the old owner of c loses it, and both maps change.
bind_back_segment(s, c) ==
  /\ back_to_main' = [back_to_main EXCEPT ![c] = s]
  /\ main_to_back' = [r \in Segments |-> CASE r = s -> c
                                           [] r # s /\ main_to_back[r] = c -> Null
                                           [] OTHER -> main_to_back[r]]

\* set_segment_state for all segments of S, in the slot that does not count.
\* A line is marked only when one of its records really changes.
set_segment_state(S, state) ==
  LET new == [s \in Segments |-> IF s \in S THEN state
                                 ELSE segment_state[Inactive][s]]
  IN /\ segment_state' = [segment_state EXCEPT ![Inactive] = new]
     /\ segment_state_pm' = [segment_state_pm EXCEPT
                               ![Inactive] = Put(@, S, new)]
     /\ segment_state_dirty' = segment_state_dirty \cup
          {LineOf(s) : s \in {r \in S : segment_state[Inactive][r] # state}}

SegmentsOfLines(L) == {s \in Segments : LineOf(s) \in L}

\* commit_segment_state_update, up to the second fence: the marked lines are
\* flushed, then the epoch selects the slot just written.
CommitEpoch ==
  /\ segment_state_pm' = [segment_state_pm EXCEPT
        ![Inactive] = Settle(@, SegmentsOfLines(segment_state_dirty),
                             segment_state[Inactive])]
  /\ committed_epoch' = Inactive
  /\ UNCHANGED <<segment_state, segment_state_dirty>>

\* ... and after it: the marked lines are copied over the other slot, which
\* no fence follows.
CopyStates ==
  LET S == SegmentsOfLines(segment_state_dirty)
      new == [s \in Segments |-> IF s \in S THEN segment_state[Active][s]
                                 ELSE segment_state[Inactive][s]]
  IN /\ segment_state' = [segment_state EXCEPT ![Inactive] = new]
     /\ segment_state_pm' = [segment_state_pm EXCEPT ![Inactive] = Put(@, S, new)]
     /\ segment_state_dirty' = {}
     /\ UNCHANGED committed_epoch

\* The flushes and non-temporal stores issued so far are fenced: the medium
\* holds what the loads see in both slots.
StatesSettled == [e \in 0 .. 1 |-> [s \in Segments |-> {segment_state[e][s]}]]

\* The medium holds something in every location, and the rest has its type.
ImageTypeOK ==
  /\ committed_epoch \in 0 .. 1
  /\ attributes \in BOOLEAN
  /\ segment_state \in [0 .. 1 -> [Segments -> States]]
  /\ segment_state_pm \in [0 .. 1 -> [Segments -> (SUBSET States) \ {{}}]]
  /\ segment_state_dirty \subseteq Lines
  /\ back_to_main \in [BackSegments -> Segments]
  /\ main_to_back \in [Segments -> BackSegments \cup {Null}]
  /\ main \in [Blocks -> Contents]
  /\ main_pm \in [Blocks -> (SUBSET Contents) \ {{}}]
  /\ back \in [BackBlocks -> Contents]
  /\ back_pm \in [BackBlocks -> (SUBSET Contents) \ {{}}]
=============================================================================
