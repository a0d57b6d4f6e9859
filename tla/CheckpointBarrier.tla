------------------------- MODULE CheckpointBarrier -------------------------
(***************************************************************************)
(* How the threads of a checkpoint keep together: the sense-reversing      *)
(* barrier and latch of common.h (struct Barrier, used once as a barrier   *)
(* and once as a latch), and the skeleton of NvmInstEngine::checkpoint     *)
(* that they carry.                                                        *)
(*                                                                         *)
(* A call runs through at most seven steps.  Steps 1, 2, 4 and 6 are       *)
(* barriers; at 3, 5 and 7 the leader (thread id 0) works alone, adds to   *)
(* the latch, and everybody waits for it.  The flush mode, chosen by the   *)
(* leader at step 3, says which of the steps 3, 5 and 7 is the last one.   *)
(*                                                                         *)
(* my_local_sense is a reference into an array, which the spin loops load  *)
(* again in every turn (after the pause and the atomic load of the flag).  *)
(* Thread ids are given out afresh in every call, so a spinning thread's   *)
(* entry may be written by the next owner of its id.                       *)
(***************************************************************************)
EXTENDS Naturals, FiniteSets

CONSTANTS Threads,   \* the threads of the application
          Groups     \* the sets of threads that call checkpoint together

ASSUME BarrierAssumption ==
  /\ IsFiniteSet(Threads)
  /\ Groups # {} /\ Groups \subseteq (SUBSET Threads) \ {{}}

Ids          == 0 .. (Cardinality(Threads) - 1)
BarrierSteps == {1, 2, 4, 6}
Modes        == {"NO_ACTION", "WBINVD", "USE_FLUSH_BLOCKS"}
LastStep(m)  == CASE m = "NO_ACTION" -> 3
                  [] m = "WBINVD" -> 5
                  [] m = "USE_FLUSH_BLOCKS" -> 7

VARIABLES next_thread_id,
          counter, flag, local_sense,  \* the barrier
          latch_flag, latch_sense,     \* the latch
          flush_mode,
          pc, step, tid,               \* each thread: where it is in the call
          my_sense,                    \* history: the sense it last stored
          group,                       \* who calls checkpoint, and so nr_threads
          round                        \* history: calls of a thread, modulo 3

vars == <<next_thread_id, counter, flag, local_sense, latch_flag, latch_sense,
          flush_mode, pc, step, tid, my_sense, group, round>>

nr_threads == Cardinality(group)

Init ==
  /\ next_thread_id = 0
  /\ counter = 0 /\ flag = 0 /\ local_sense = [i \in Ids |-> 0]
  /\ latch_flag = 0 /\ latch_sense = [i \in Ids |-> 0]
  /\ flush_mode = "NO_ACTION"
  /\ pc = [t \in Threads |-> "app"]
  /\ step = [t \in Threads |-> 0]
  /\ tid = [t \in Threads |-> 0]
  /\ my_sense = [t \in Threads |-> 0]
  /\ group \in Groups
  /\ round = [t \in Threads |-> 0]

\* The sense a spinning thread compares the flag with: the entry of its id.
Awaited(t, sense) == sense[tid[t]]

\* Thread t goes on to the next step of the call.
Advance(t) ==
  /\ step' = [step EXCEPT ![t] = @ + 1]
  /\ pc' = [pc EXCEPT ![t] = IF step[t] + 1 \in BarrierSteps THEN "arrive"
                             ELSE IF tid[t] = 0 THEN "solo" ELSE "latch"]

\* checkpoint: a thread id is drawn.
Enter(t) ==
  /\ t \in group /\ pc[t] = "app"
  /\ tid' = [tid EXCEPT ![t] = next_thread_id]
  /\ next_thread_id' = next_thread_id + 1
  /\ pc' = [pc EXCEPT ![t] = "arrive"]
  /\ step' = [step EXCEPT ![t] = 1]
  /\ UNCHANGED <<counter, flag, local_sense, latch_flag, latch_sense, flush_mode,
                 my_sense, group, round>>

\* Mutant: the sense is not reversed.
SenseKept(t) ==
  /\ pc[t] = "arrive"
  /\ my_sense' = [my_sense EXCEPT ![t] = local_sense[tid[t]]]
  /\ counter' = counter + 1
  /\ pc' = [pc EXCEPT ![t] = IF counter + 1 = nr_threads THEN "reset" ELSE "spin"]
  /\ UNCHANGED <<next_thread_id, flag, local_sense, latch_flag, latch_sense,
                 flush_mode, step, tid, group, round>>

\* Barrier::barrier: reverse the sense, count the arrival.
Arrive(t) ==
  /\ pc[t] = "arrive"
  /\ local_sense' = [local_sense EXCEPT ![tid[t]] = 1 - @]
  /\ my_sense' = [my_sense EXCEPT ![t] = local_sense'[tid[t]]]
  /\ counter' = counter + 1
  /\ pc' = [pc EXCEPT ![t] = IF counter + 1 = nr_threads THEN "reset" ELSE "spin"]
  /\ UNCHANGED <<next_thread_id, flag, latch_flag, latch_sense, flush_mode, step,
                 tid, group, round>>

\* ... the last one resets the counter,
ResetCounter(t) ==
  /\ pc[t] = "reset"
  /\ counter' = 0
  /\ pc' = [pc EXCEPT ![t] = "release"]
  /\ UNCHANGED <<next_thread_id, flag, local_sense, latch_flag, latch_sense,
                 flush_mode, step, tid, my_sense, group, round>>

\* ... and sets the flag,
Release(t) ==
  /\ pc[t] = "release"
  /\ flag' = local_sense[tid[t]]
  /\ Advance(t)
  /\ UNCHANGED <<next_thread_id, counter, local_sense, latch_flag, latch_sense,
                 flush_mode, tid, my_sense, group,
                 round>>

\* ... for which the others spin.
Spin(t) ==
  /\ pc[t] = "spin" /\ flag = Awaited(t, local_sense)
  /\ Advance(t)
  /\ UNCHANGED <<next_thread_id, counter, flag, local_sense, latch_flag,
                 latch_sense, flush_mode, tid, my_sense, group,
                 round>>

\* Mutant: thread ids are never given out from 0 again.
IdsNotReset(t) ==
  /\ pc[t] = "solo"
  /\ IF step[t] = 3 THEN flush_mode' \in Modes ELSE UNCHANGED flush_mode
  /\ pc' = [pc EXCEPT ![t] = "add"]
  /\ UNCHANGED <<next_thread_id, counter, flag, local_sense, latch_flag, latch_sense,
                 step, tid, my_sense, group, round>>

\* What the leader does alone: choose the mode (step 3), commit (5 and 7).
\* In the last step of the call it gives out thread ids from 0 again.
Solo(t) ==
  /\ pc[t] = "solo"
  /\ IF step[t] = 3 THEN flush_mode' \in Modes ELSE UNCHANGED flush_mode
  /\ next_thread_id' = IF step[t] = LastStep(flush_mode') THEN 0 ELSE next_thread_id
  /\ pc' = [pc EXCEPT ![t] = "add"]
  /\ UNCHANGED <<counter, flag, local_sense, latch_flag, latch_sense, step, tid,
                 my_sense, group, round>>

\* Mutant: the flag is set to the old sense.
LatchNotAdded(t) ==
  /\ pc[t] = "add"
  /\ latch_flag' = latch_sense[tid[t]]
  /\ pc' = [pc EXCEPT ![t] = "latch"]
  /\ UNCHANGED <<next_thread_id, counter, flag, local_sense, latch_sense,
                 flush_mode, step, tid, my_sense, group, round>>

\* Barrier::latch_add
LatchAdd(t) ==
  /\ pc[t] = "add"
  /\ latch_flag' = 1 - latch_sense[tid[t]]
  /\ pc' = [pc EXCEPT ![t] = "latch"]
  /\ UNCHANGED <<next_thread_id, counter, flag, local_sense, latch_sense,
                 flush_mode, step, tid, my_sense, group, round>>

\* Mutant: the waiting thread does not reverse its sense.
LatchPassed(t) ==
  /\ pc[t] = "latch"
  /\ my_sense' = [my_sense EXCEPT ![t] = latch_sense[tid[t]]]
  /\ pc' = [pc EXCEPT ![t] = "latch_spin"]
  /\ UNCHANGED <<next_thread_id, counter, flag, local_sense, latch_flag,
                 latch_sense, flush_mode, step, tid, group, round>>

\* Barrier::latch_wait: reverse the sense,
LatchWait(t) ==
  /\ pc[t] = "latch"
  /\ latch_sense' = [latch_sense EXCEPT ![tid[t]] = 1 - @]
  /\ my_sense' = [my_sense EXCEPT ![t] = latch_sense'[tid[t]]]
  /\ pc' = [pc EXCEPT ![t] = "latch_spin"]
  /\ UNCHANGED <<next_thread_id, counter, flag, local_sense, latch_flag,
                 flush_mode, step, tid, group, round>>

\* ... and spin; after the last step of the mode the call returns.
LatchSpin(t) ==
  /\ pc[t] = "latch_spin" /\ latch_flag = Awaited(t, latch_sense)
  /\ \/ /\ step[t] < LastStep(flush_mode)
        /\ Advance(t)
        /\ UNCHANGED <<tid, round>>
     \/ /\ step[t] >= LastStep(flush_mode)
        /\ pc' = [pc EXCEPT ![t] = "app"]
        /\ step' = [step EXCEPT ![t] = 0]
        /\ tid' = [tid EXCEPT ![t] = 0]
        /\ round' = [round EXCEPT ![t] = (@ + 1) % 3]
  /\ UNCHANGED <<next_thread_id, counter, flag, local_sense, latch_flag,
                 latch_sense, flush_mode, my_sense, group>>

\* A turn of a spin loop that finds the flag unchanged.
Pause(t) ==
  /\ \/ pc[t] = "spin" /\ flag # Awaited(t, local_sense)
     \/ pc[t] = "latch_spin" /\ latch_flag # Awaited(t, latch_sense)
  /\ UNCHANGED vars

\* When nobody is in a call, another group of threads may go on to call.
Regroup ==
  /\ \A t \in Threads : pc[t] = "app"
  /\ \A t, u \in group : round[t] = round[u]
  /\ group' \in Groups \ {group}
  /\ round' = [t \in Threads |-> 0]
  /\ UNCHANGED <<next_thread_id, counter, flag, local_sense, latch_flag,
                 latch_sense, flush_mode, pc, step, tid, my_sense>>

Call(t) == \/ Arrive(t) \/ ResetCounter(t) \/ Release(t) \/ Spin(t)
           \/ Solo(t) \/ LatchAdd(t) \/ LatchWait(t) \/ LatchSpin(t)

Next == \/ \E t \in Threads : Enter(t) \/ Call(t) \/ Pause(t)
        \/ Regroup

\* A thread inside a call is not stopped for ever by the scheduler, and the
\* program goes on calling checkpoint: the other members of a group come too.
Fairness == \A t \in Threads : WF_vars(Call(t)) /\ WF_vars(Enter(t))

Spec == Init /\ [][Next]_vars /\ Fairness

-----------------------------------------------------------------------------
\* The variables have the types of the fields and locals they model.
TypeOK ==
  /\ next_thread_id \in 0 .. Cardinality(Threads)
  /\ counter \in 0 .. Cardinality(Threads)
  /\ flag \in 0 .. 1 /\ local_sense \in [Ids -> 0 .. 1]
  /\ latch_flag \in 0 .. 1 /\ latch_sense \in [Ids -> 0 .. 1]
  /\ flush_mode \in Modes
  /\ pc \in [Threads -> {"app", "arrive", "reset", "release", "spin", "solo",
                         "add", "latch", "latch_spin"}]
  /\ step \in [Threads -> 0 .. 7]
  /\ tid \in [Threads -> Ids]
  /\ my_sense \in [Threads -> 0 .. 1]
  /\ group \in Groups
  /\ round \in [Threads -> 0 .. 2]

\* Thread u has entered step k of the call thread t is in, or gone further.
Reached(u, t, k) ==
  \/ round[u] = (round[t] + 1) % 3
  \/ round[u] = round[t] /\ step[u] > k
  \/ round[u] = round[t] /\ step[u] = k /\ pc[u] # "arrive"

\* Nobody leaves a barrier before all threads of the call have arrived at it,
\* although ids and senses pass from thread to thread between calls.
BarrierTogether ==
  \A t, u \in group : \A k \in BarrierSteps : step[t] > k => Reached(u, t, k)

\* While the leader works alone (chooses the mode, commits the layout, clears
\* the dirty bits) every other thread of the call is held before or in the
\* latch: none flushes, writes back or returns to the program.
LeaderAlone ==
  \A t \in group : pc[t] \in {"solo", "add"} =>
    \A u \in group \ {t} : /\ round[u] = round[t]
                           /\ step[u] <= step[t]
                           /\ pc[u] \notin {"solo", "add"}

\* The next owner of its id has reversed the sense that thread t spins on.
Overtaken(t) ==
  \/ pc[t] = "spin" /\ local_sense[tid[t]] # my_sense[t]
  \/ pc[t] = "latch_spin" /\ latch_sense[tid[t]] # my_sense[t]

\* A thread is overtaken only in the last barrier of its call, by one of two
\* threads that have both returned from that call and entered the next one
\* before this one has seen the flag: never in a latch, never in a barrier that
\* other barriers follow, and never when only two threads call checkpoint.
OvertakenAtTheEnd ==
  \A t \in group : Overtaken(t) =>
    /\ pc[t] = "spin" /\ step[t] = LastStep(flush_mode) - 1
    /\ \E u, v \in group \ {t} : /\ u # v /\ tid[u] = tid[t]
                                /\ step[u] = 1 /\ round[u] = (round[t] + 1) % 3
                                /\ step[v] = 1 /\ round[v] = (round[t] + 1) % 3

\* A call of checkpoint returns unless a thread in it is overtaken: nothing
\* else leaves a thread spinning on a sense that will not come.  (A thread that
\* is overtaken spins for ever: the flag turns only when it arrives.)
CheckpointReturns ==
  \A t \in Threads : (pc[t] # "app") ~> (pc[t] = "app" \/ \E u \in group : Overtaken(u))
=============================================================================
