------------------------------ MODULE MpiEpoch ------------------------------
(***************************************************************************)
(* How the processes of an MPI program keep their images together          *)
(* (checkpoint_for_mpi and OpenForMPI of NvmInstEngine and                 *)
(* HybridInstEngine, commit_segment_state_update_for_mpi).  Each process   *)
(* commits its own image by storing the next epoch, and only then waits    *)
(* for the others; until they have come it leaves the previous checkpoint  *)
(* in place.  After a failure all go back to the smallest epoch.           *)
(*                                                                         *)
(* What a single image does is the subject of NvmInstEngine and            *)
(* HybridInstEngine, whose events steal, stale and overwrite are not       *)
(* followed here.  A slot of an image is just the content of the memory    *)
(* that its states and segments restore; 0 is no checkpoint at all         *)
(* (attributes is not set).  All segments are treated as one, so a slot    *)
(* has one state.                                                          *)
(***************************************************************************)
EXTENDS Integers, Sequences, FiniteSetsExt

CONSTANTS Ranks,          \* processes
          Engines,        \* subset of {"NvmInst", "Hybrid"}
          kEpochModulus,  \* next_epoch is a uint32_t: 2^32
          MaxCalls        \* bound: checkpoints the program takes

ASSUME MpiAssumption ==
  /\ Ranks # {}
  /\ Engines \subseteq {"NvmInst", "Hybrid"}
  /\ kEpochModulus \in Nat /\ kEpochModulus % 2 = 0 /\ kEpochModulus > 2
  /\ MaxCalls \in Nat

VARIABLES engine,          \* chosen once
          committed_epoch, \* in the image of each process
          slot,            \* content each of its two slots restores
          state_pm,        \* ... and the states it may say on the medium
          dirty,           \* the program has stored since its last call
          pc,
          arrived,         \* MPI_Barrier calls of this execution
          min_epoch,       \* result of MPI_Allreduce
          hist,            \* history: the content at each call of checkpoint,
          returned,        \* the last call that returned,
          broken           \* and what made the processes disagree

vars == <<engine, committed_epoch, slot, state_pm, dirty, pc, arrived, min_epoch, hist, returned,
          broken>>

Epochs == 0 .. (kEpochModulus - 1)
States == {"Initial", "Main", "Back"}

NextEpoch(e) == (e + 1) % kEpochModulus

\* The slot that counts, and the other one.
Active(r)   == committed_epoch[r] % 2
Inactive(r) == (committed_epoch[r] + 1) % 2

\* Content of process r at its n-th call.
At(r, n) == IF n = 0 THEN 0 ELSE hist[r][n]
Calls(r) == Len(hist[r])

\* Bound: processes that disagree are not followed further.
Followed == broken = {}

Init ==
  /\ engine \in Engines
  /\ committed_epoch = [r \in Ranks |-> 0]
  /\ slot = [r \in Ranks |-> [i \in 0 .. 1 |-> 0]]
  /\ state_pm = [r \in Ranks |-> [i \in 0 .. 1 |-> {"Initial"}]]
  /\ dirty = [r \in Ranks |-> FALSE]
  /\ pc = [r \in Ranks |-> "run"]
  /\ arrived = [r \in Ranks |-> 0]
  /\ min_epoch = 0
  /\ hist = [r \in Ranks |-> << >>]
  /\ returned = [r \in Ranks |-> 0]
  /\ broken = {}

-----------------------------------------------------------------------------
\* The program changes its memory.
Store(r) ==
  /\ pc[r] = "run" /\ ~dirty[r] /\ Calls(r) < MaxCalls /\ Followed
  /\ dirty' = [dirty EXCEPT ![r] = TRUE]
  /\ UNCHANGED <<engine, committed_epoch, slot, state_pm, pc, arrived, min_epoch, hist,
                 returned, broken>>

\* HybridInstEngine returns when nothing is dirty; NvmInstEngine goes on with
\* empty lists.
Skips(r) == engine = "Hybrid" /\ ~dirty[r]

\* Another process found something dirty in its n-th call, this one with the
\* content c did not, or the other way round.
Disagree(r, n, c) ==
  \E q \in Ranks \ {r} : n <= Calls(q) /\ (At(q, n) = At(q, n - 1)) # (c = At(r, n - 1))

\* The side HybridInstEngine writes to: its epoch is 1 in the first checkpoint of
\* an execution, then 0, and so on.  (The states of NvmInstEngine are not
\* followed: recovery makes its two sides equal, and before a store the hook
\* makes the slot that counts name the copy, whatever it named.)
Side(r) == CASE engine = "NvmInst"                       -> "Initial"
             [] engine # "NvmInst" /\ arrived[r] % 2 = 0 -> "Back"
             [] OTHER                                    -> "Main"

\* That side holds the last checkpoint.
Overwrites(r) == engine = "Hybrid" /\ state_pm[r][Active(r)] = {Side(r)} /\ slot[r][Active(r)] # 0

\* checkpoint_for_mpi up to the commit: data and states go to the slot that does
\* not count; the states need not be on the medium yet.
Call(r) ==
  LET n == Calls(r) + 1
      c == IF dirty[r] THEN n ELSE At(r, n - 1)
  IN /\ pc[r] = "run" /\ n <= MaxCalls
     /\ hist' = [hist EXCEPT ![r] = Append(@, c)]
     /\ dirty' = [dirty EXCEPT ![r] = FALSE]
     /\ broken' = broken
          \cup (IF engine = "Hybrid" /\ Disagree(r, n, c) THEN {"idle"} ELSE {})
          \cup (IF ~Skips(r) /\ Overwrites(r) THEN {"undone"} ELSE {})
     /\ \/ /\ Skips(r)
           /\ returned' = [returned EXCEPT ![r] = n]
           /\ UNCHANGED <<slot, state_pm, pc>>
        \/ /\ ~Skips(r)
           /\ slot' = [slot EXCEPT ![r] = [i \in 0 .. 1 |->
                         IF i = Inactive(r) \/ Overwrites(r) THEN c ELSE slot[r][i]]]
           /\ state_pm' = [state_pm EXCEPT ![r][Inactive(r)] = @ \cup {Side(r)}]
           /\ pc' = [pc EXCEPT ![r] = "commit"]
           /\ UNCHANGED returned
     /\ UNCHANGED <<engine, committed_epoch, arrived, min_epoch>>

\* The commit, which flushes the states first, and the arrival at MPI_Barrier.
Commit(r) ==
  /\ pc[r] = "commit"
  /\ state_pm' = [state_pm EXCEPT ![r][Inactive(r)] = {Side(r)}]
  /\ committed_epoch' = [committed_epoch EXCEPT ![r] = NextEpoch(@)]
  /\ arrived' = [arrived EXCEPT ![r] = @ + 1]
  /\ pc' = [pc EXCEPT ![r] = "barrier"]
  /\ UNCHANGED <<engine, slot, dirty, min_epoch, hist, returned, broken>>

\* Mutant: the states are copied without waiting for the others.
NoBarrier(r) == TRUE

\* Mutant: the barrier waits for one arrival too many.
OneMore(r) == \A q \in Ranks \ {r} : arrived[q] > arrived[r]

\* MPI_Barrier lets process r go when the others have come as often.
AllArrived(r) == \A q \in Ranks : arrived[q] >= arrived[r]

\* The states are copied to the other slot, without a fence: the previous
\* checkpoint is gone.
Pass(r) ==
  /\ pc[r] = "barrier" /\ AllArrived(r)
  /\ slot' = [slot EXCEPT ![r] = [i \in 0 .. 1 |-> slot[r][Active(r)]]]
  /\ state_pm' = [state_pm EXCEPT ![r][Inactive(r)] = @ \cup state_pm[r][Active(r)]]
  /\ returned' = [returned EXCEPT ![r] = Calls(r)]
  /\ pc' = [pc EXCEPT ![r] = "run"]
  /\ UNCHANGED <<engine, committed_epoch, dirty, arrived, min_epoch, hist, broken>>

-----------------------------------------------------------------------------
\* A process has begun a checkpoint, which overwrites the slot that another
\* one, still recovering, may ask it to go back to.
Ahead == \E q, r \in Ranks : pc[q] \in {"reset", "recover"} /\ pc[r] \in {"commit", "barrier"}

\* A process has not yet given up the epoch the others did not reach, and one
\* of them has already used its number for the recovery.
Unreset == \E q, r \in Ranks : /\ pc[q] = "reset" /\ committed_epoch[q] # min_epoch
                               /\ pc[r] \notin {"reset", "recover"}

MinEpoch == Min({committed_epoch[r] : r \in Ranks})

\* One process has passed the largest epoch and another one has not.
Wrapped == {0, kEpochModulus - 1} \subseteq {committed_epoch[r] : r \in Ranks}

\* The failure of one process ends them all.
Crash ==
  /\ Followed
  /\ pc' = [r \in Ranks |-> "open"]
  /\ dirty' = [r \in Ranks |-> FALSE]
  /\ arrived' = [r \in Ranks |-> 0]
  /\ broken' = broken \cup (IF Ahead THEN {"ahead"} ELSE {})
                      \cup (IF Unreset THEN {"unreset"} ELSE {})
                      \cup (IF Wrapped THEN {"wrap"} ELSE {})
  /\ UNCHANGED <<engine, committed_epoch, slot, state_pm, min_epoch, hist, returned>>

Unrecoverable == \E r \in Ranks : committed_epoch[r] - MinEpoch >= 2

\* Checkpoints of the program the slots of epoch e restore in all processes.
Common(e) == {n \in 0 .. MaxCalls : \A r \in Ranks : /\ n <= Calls(r)
                                                     /\ At(r, n) = slot[r][e % 2]}

\* OpenForMPI: MPI_Allreduce gives all processes the smallest epoch, or one of
\* them gives up.  The program continues after the checkpoint it finds.
Agree ==
  /\ \A r \in Ranks : pc[r] = "open"
  /\ \/ /\ Unrecoverable
        /\ pc' = [r \in Ranks |-> "exit"]
        /\ UNCHANGED <<min_epoch, hist, returned>>
     \/ /\ ~Unrecoverable
        /\ pc' = [r \in Ranks |-> "reset"]
        /\ min_epoch' = MinEpoch
        /\ IF Common(MinEpoch) = {} THEN UNCHANGED <<hist, returned>>
           ELSE LET n == Max(Common(MinEpoch))
                IN /\ hist' = [r \in Ranks |-> SubSeq(hist[r], 1, n)]
                   /\ returned' = [r \in Ranks |-> n]
  /\ UNCHANGED <<engine, committed_epoch, slot, state_pm, dirty, arrived, broken>>

\* Mutant: the epoch is left as it is.
NoReset(r) == committed_epoch[r]

reset_committed_epoch(r) == min_epoch

\* A process that was ahead goes back to the agreed epoch.
Reset(r) ==
  /\ pc[r] = "reset"
  /\ committed_epoch' = [committed_epoch EXCEPT ![r] = reset_committed_epoch(r)]
  /\ pc' = [pc EXCEPT ![r] = "recover"]
  /\ UNCHANGED <<engine, slot, state_pm, dirty, arrived, min_epoch, hist, returned, broken>>

\* recovery copies the side that the slot that counts names to the other one, so
\* that both slots restore the same.
RecoveredSlots(r) == [i \in 0 .. 1 |-> slot[r][Active(r)]]

\* States in the slot that counted and in the one that does now.
Recovered(r, old, new) == [state_pm EXCEPT ![r] = [i \in 0 .. 1 |->
                             IF i = Active(r) THEN old ELSE new]]

\* recovery writes a state, Main, to the other slot only if this one says Back, and
\* copies it to this one without a fence; if not, the other slot, which may be that
\* of an undone or unfinished checkpoint, still says what it said.  It commits that
\* slot as an epoch of its own, without waiting for the others.
Recover(r) ==
  /\ pc[r] = "recover"
  /\ slot' = [slot EXCEPT ![r] = RecoveredSlots(r)]
  /\ \/ /\ "Back" \in state_pm[r][Active(r)]
        /\ state_pm' = Recovered(r, {"Back", "Main"}, {"Main"})
     \/ \E s \in state_pm[r][Active(r)] \ {"Back"}, left \in state_pm[r][Inactive(r)] :
          state_pm' = Recovered(r, {s}, {left})
  /\ committed_epoch' = [committed_epoch EXCEPT ![r] = NextEpoch(@)]
  /\ pc' = [pc EXCEPT ![r] = "run"]
  /\ UNCHANGED <<engine, dirty, arrived, min_epoch, hist, returned, broken>>

-----------------------------------------------------------------------------
Next == \/ \E r \in Ranks : \/ Store(r) \/ Call(r) \/ Commit(r) \/ Pass(r)
                            \/ Reset(r) \/ Recover(r)
        \/ Agree \/ Crash

\* A process that can go on does, and all of them call checkpoint as often.
Fairness == /\ \A r \in Ranks : /\ WF_vars(Call(r)) /\ WF_vars(Commit(r)) /\ WF_vars(Pass(r))
                                /\ WF_vars(Reset(r)) /\ WF_vars(Recover(r))
            /\ WF_vars(Agree)

Spec == Init /\ [][Next]_vars /\ Fairness

-----------------------------------------------------------------------------
(* Properties.                                                             *)

\* The variables have the types of the fields and locals they model.
TypeOK ==
  /\ engine \in Engines
  /\ committed_epoch \in [Ranks -> Epochs]
  /\ slot \in [Ranks -> [0 .. 1 -> 0 .. MaxCalls]]
  /\ state_pm \in [Ranks -> [0 .. 1 -> (SUBSET States) \ {{}}]]
  /\ dirty \in [Ranks -> BOOLEAN]
  /\ pc \in [Ranks -> {"run", "commit", "barrier", "open", "exit", "reset", "recover"}]
  /\ arrived \in [Ranks -> 0 .. MaxCalls]
  /\ min_epoch \in Epochs
  /\ hist \in [Ranks -> Seq(0 .. MaxCalls)]
  /\ returned \in [Ranks -> 0 .. MaxCalls]
  /\ broken \subseteq {"idle", "undone", "ahead", "unreset", "wrap"}

\* A failure at any moment leaves images whose smallest epoch restores one and
\* the same checkpoint in every process, not older than one that returned to
\* any of them.  Not so when a process of HybridInstEngine skipped a checkpoint
\* in which it had nothing to save, or wrote its first one after a recovery over
\* the side that the slot committed by the recovery names, a slot left over from
\* a checkpoint that was undone or cut off; or at the wrap of the epoch, or when
\* they recover without waiting for each other: one begins a checkpoint while
\* another is still recovering, or recovers while another has not reset its epoch.
SameCheckpoint ==
  (broken = {} /\ ~Ahead /\ ~Unreset /\ ~Wrapped) =>
    \E n \in Common(MinEpoch) : \A r \in Ranks :
       n >= returned[r] \/ At(r, n) = At(r, returned[r])

\* The state is well typed, and the epochs of two processes never differ by two or more, which would make
\* the pool unrecoverable, unless one is still recovering while another one
\* commits, or the epoch wraps.
EpochsClose ==
  /\ TypeOK
  /\ \A q, r \in Ranks :
       \/ (committed_epoch[r] - committed_epoch[q]) % kEpochModulus \in {0, 1, kEpochModulus - 1}
       \/ Ahead \/ broken # {}

\* A process that waits for the others does not wait for ever: all come to the
\* same barrier, unless one has skipped a checkpoint.
BarrierEnds ==
  \A r \in Ranks : pc[r] = "barrier" ~> (pc[r] # "barrier" \/ broken # {})
=============================================================================
