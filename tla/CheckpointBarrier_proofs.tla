----------------------- MODULE CheckpointBarrier_proofs -----------------------
(***************************************************************************)
(* The barrier and the latch, for any number of threads, as long as all    *)
(* calls of checkpoint have the same number of threads.                    *)
(*                                                                         *)
(* Thread ids, and with them the entries of local_sense, pass from thread  *)
(* to thread while some are still in the call before.  The invariant       *)
(* divides the threads into those that have entered the next call (New)    *)
(* and the others, says of each which barrier it has passed last, and      *)
(* ties every sense to the one thread that may have reversed it.           *)
(***************************************************************************)
EXTENDS CheckpointBarrier, FiniteSetTheorems, TLAPS

\* All calls of checkpoint have the same number of threads.
SameSize == \A g, h \in Groups : Cardinality(g) = Cardinality(h)

\* A thread is in the barrier, which has not opened yet
Arrived(t) == pc[t] \in {"reset", "release"} \/ (pc[t] = "spin" /\ my_sense[t] # flag)

\* ... or has: it will notice.
Released(t) == pc[t] = "spin" /\ my_sense[t] = flag

\* The last barrier of a call, and the one before barrier k.
LastBarrier == LastStep(flush_mode) - 1
Prev(k)     == CASE k = 1 -> LastBarrier [] k = 2 -> 1 [] k = 4 -> 2 [] k = 6 -> 4

\* The barrier a thread has passed last.
Passed(t) ==
  CASE pc[t] = "app"                  -> LastBarrier
    [] pc[t] = "arrive" \/ Arrived(t) -> Prev(step[t])
    [] Released(t)                    -> step[t]
    [] OTHER                          -> step[t] - 1

\* The thread has returned from the call, or is in the next one.
New(t) == pc[t] = "app" \/ (step[t] = 1 /\ ~Released(t))

\* The leader has still to add to the latch of this step, or of the next.
PreAdd(t) == tid[t] = 0 /\ ((Released(t) /\ step[t] # 1) \/ pc[t] \in {"solo", "add"})

\* A thread has still to reverse its sense of the latch.
Latching(t) == (Released(t) /\ step[t] # 1) \/ pc[t] \in {"solo", "add", "latch"}

\* Thread ids are given out from 0 again.
ResetDone ==
  /\ \A t \in group : Passed(t) = LastBarrier
  /\ \A t \in group : ~(~New(t) /\ tid[t] = 0 /\ (Released(t) \/ pc[t] = "solo"))

\* The thread has drawn its id since then.
Owner(t) == pc[t] # "app" /\ (ResetDone => New(t))

-----------------------------------------------------------------------------
\* Where a thread can be.
ControlInv ==
  /\ \A t \in Threads \ group : pc[t] = "app"
  /\ \A t \in Threads :
       /\ pc[t] = "app" => step[t] = 0 /\ tid[t] = 0
       /\ pc[t] \in {"arrive", "spin", "reset", "release"} => step[t] \in BarrierSteps
       /\ pc[t] \in {"solo", "add", "latch", "latch_spin"} => step[t] \in {3, 5, 7}
       /\ pc[t] \in {"solo", "add"} => tid[t] = 0
       /\ step[t] <= LastStep(flush_mode)

\* All threads have passed the same barrier last.
PassedInv == \A t, u \in group : Passed(t) = Passed(u)

\* Those that are new are one call ahead.
RoundInv ==
  \A t, u \in group : /\ (New(t) <=> New(u)) => round[t] = round[u]
                      /\ New(t) /\ ~New(u) => round[t] = (round[u] + 1) % 3

\* Until the leader adds to the latch nobody gets further.
LeaderInv ==
  \A t \in group : PreAdd(t) => \A u \in group \ {t} : Released(u) \/ pc[u] \in {"latch", "latch_spin"}

\* Ids are given out without gaps and no two threads have the same one.
IdInv ==
  /\ next_thread_id = Cardinality({t \in group : Owner(t)})
  /\ \A t \in group : Owner(t) => tid[t] < next_thread_id
  /\ \A i \in 0 .. (next_thread_id - 1) : \E t \in group : Owner(t) /\ tid[t] = i
  /\ \A t \in group : tid[t] < nr_threads
  /\ \A t, u \in group : t # u /\ pc[t] # "app" /\ pc[u] # "app" /\ (New(t) <=> New(u)) => tid[t] # tid[u]
  /\ (\E t \in group : PreAdd(t)) => \A i \in 0 .. (nr_threads - 1) : \E t \in group : tid[t] = i

\* The counter counts those that have arrived; the last one resets it.
CounterInv ==
  /\ \A t \in group : pc[t] \in {"reset", "release"} =>
       \A u \in group \ {t} : Arrived(u) /\ pc[u] = "spin"
  /\ \A t \in group : pc[t] = "release" => counter = 0
  /\ (\A t \in group : pc[t] \notin {"reset", "release"}) => counter = Cardinality({t \in group : Arrived(t)})

\* Exactly the threads that have arrived have reversed their senses.
SenseInv ==
  /\ \A t \in group : Arrived(t) => my_sense[t] # flag
  /\ \A i \in 0 .. (nr_threads - 1) :
       local_sense[i] # flag <=> \E t \in group : Arrived(t) /\ tid[t] = i

\* Before the leader adds to the latch the threads that wait have reversed their
\* senses; after it those that have still to wait have not.
LatchInv ==
  /\ \A t \in group : pc[t] = "latch_spin" => my_sense[t] = latch_sense[tid[t]]
  /\ \A i \in 0 .. (nr_threads - 1) :
       /\ (\E p \in group : PreAdd(p)) =>
            (latch_sense[i] # latch_flag <=> \E t \in group : pc[t] = "latch_spin" /\ tid[t] = i)
       /\ (\A p \in group : ~PreAdd(p)) =>
            (latch_sense[i] # latch_flag <=> \E t \in group : Latching(t) /\ tid[t] = i)

IndInv == /\ TypeOK /\ ControlInv /\ PassedInv /\ RoundInv /\ LeaderInv
          /\ IdInv /\ CounterInv /\ SenseInv /\ LatchInv

-----------------------------------------------------------------------------
(* Facts about one state.                                                  *)

\* The number of threads of a call.
LEMMA GroupFacts ==
  ASSUME NEW g \in Groups
  PROVE  /\ IsFiniteSet(g) /\ g \subseteq Threads /\ g # {}
         /\ Cardinality(g) \in Nat /\ Cardinality(g) >= 1 /\ Cardinality(g) <= Cardinality(Threads)
         /\ Cardinality(Threads) \in Nat
<1>1. IsFiniteSet(Threads) /\ g \subseteq Threads /\ g # {}
  BY BarrierAssumption
<1>2. IsFiniteSet(g) /\ Cardinality(g) <= Cardinality(Threads)
  BY <1>1, FS_Subset
<1>3. Cardinality(g) \in Nat /\ Cardinality(Threads) \in Nat
  BY <1>1, <1>2, FS_CardinalityType
<1>4. Cardinality(g) # 0
  BY <1>1, <1>2, FS_EmptySet
<1> QED
  BY <1>1, <1>2, <1>3, <1>4

\* The steps and barriers of a call.
LEMMA StepFacts ==
  ASSUME TypeOK
  PROVE  /\ LastStep(flush_mode) \in {3, 5, 7} /\ LastBarrier \in {2, 4, 6}
         /\ LastStep(flush_mode) = LastBarrier + 1
         /\ Prev(1) = LastBarrier /\ Prev(2) = 1 /\ Prev(4) = 2 /\ Prev(6) = 4
<1>1. flush_mode \in {"NO_ACTION", "WBINVD", "USE_FLUSH_BLOCKS"}
  BY DEF TypeOK, Modes
<1>2. LastStep(flush_mode) \in {3, 5, 7}
  BY <1>1 DEF LastStep
<1>3. Prev(1) = LastBarrier /\ Prev(2) = 1 /\ Prev(4) = 2 /\ Prev(6) = 4
  BY DEF Prev
<1> QED
  BY <1>2, <1>3 DEF LastBarrier

\* What is known of a thread, from where it is.
LEMMA PlaceFacts ==
  ASSUME TypeOK, ControlInv, NEW t \in Threads
  PROVE  /\ pc[t] = "app" => /\ New(t) /\ Passed(t) = LastBarrier /\ ~Arrived(t) /\ ~Released(t)
                             /\ ~PreAdd(t) /\ ~Latching(t) /\ step[t] = 0 /\ tid[t] = 0
         /\ pc[t] = "arrive" \/ Arrived(t) =>
              /\ step[t] \in {1, 2, 4, 6} /\ (New(t) <=> step[t] = 1) /\ Passed(t) = Prev(step[t])
              /\ ~Released(t) /\ ~PreAdd(t) /\ ~Latching(t) /\ pc[t] # "app"
         /\ Released(t) => /\ step[t] \in {1, 2, 4, 6} /\ ~New(t) /\ Passed(t) = step[t] /\ ~Arrived(t)
                           /\ Latching(t) <=> step[t] # 1
         /\ pc[t] \in {"solo", "add", "latch", "latch_spin"} =>
              /\ step[t] \in {3, 5, 7} /\ ~New(t) /\ Passed(t) = step[t] - 1 /\ ~Arrived(t) /\ ~Released(t)
              /\ Latching(t) <=> pc[t] # "latch_spin"
              /\ PreAdd(t) <=> pc[t] \in {"solo", "add"}
         /\ \/ pc[t] = "app" \/ pc[t] = "arrive" \/ Arrived(t) \/ Released(t)
            \/ pc[t] \in {"solo", "add", "latch", "latch_spin"}
<1>1. /\ pc[t] \in {"app", "arrive", "reset", "release", "spin", "solo", "add", "latch", "latch_spin"}
      /\ pc[t] = "app" => step[t] = 0 /\ tid[t] = 0
      /\ pc[t] \in {"arrive", "spin", "reset", "release"} => step[t] \in {1, 2, 4, 6}
      /\ pc[t] \in {"solo", "add", "latch", "latch_spin"} => step[t] \in {3, 5, 7}
      /\ pc[t] \in {"solo", "add"} => tid[t] = 0
  BY DEF TypeOK, ControlInv, BarrierSteps
<1>2. CASE pc[t] = "app"
  BY <1>1, <1>2 DEF New, Passed, Arrived, Released, PreAdd, Latching
<1>3. CASE pc[t] = "arrive" \/ Arrived(t)
  BY <1>1, <1>3 DEF New, Passed, Arrived, Released, PreAdd, Latching
<1>4. CASE Released(t)
  BY <1>1, <1>4 DEF New, Passed, Arrived, Released, PreAdd, Latching
<1>5. CASE pc[t] \in {"solo", "add", "latch", "latch_spin"}
  BY <1>1, <1>5 DEF New, Passed, Arrived, Released, PreAdd, Latching
<1>6. \/ pc[t] = "app" \/ pc[t] = "arrive" \/ Arrived(t) \/ Released(t)
      \/ pc[t] \in {"solo", "add", "latch", "latch_spin"}
  BY <1>1 DEF Arrived, Released
<1> QED
  BY <1>2, <1>3, <1>4, <1>5, <1>6

\* The same after a step.
LEMMA AfterFacts ==
  ASSUME TypeOK', ControlInv', NEW t \in Threads
  PROVE  /\ pc'[t] = "app" =>
              /\ New(t)' /\ Passed(t)' = LastBarrier' /\ ~Arrived(t)' /\ ~Released(t)'
              /\ ~PreAdd(t)' /\ ~Latching(t)' /\ step'[t] = 0 /\ tid'[t] = 0
         /\ pc'[t] = "arrive" \/ Arrived(t)' =>
              /\ step'[t] \in {1, 2, 4, 6} /\ (New(t)' <=> step'[t] = 1) /\ Passed(t)' = Prev(step[t])'
              /\ ~Released(t)' /\ ~PreAdd(t)' /\ ~Latching(t)' /\ pc'[t] # "app"
         /\ Released(t)' =>
              /\ step'[t] \in {1, 2, 4, 6} /\ ~New(t)' /\ Passed(t)' = step'[t] /\ ~Arrived(t)'
              /\ Latching(t)' <=> step'[t] # 1
         /\ pc'[t] \in {"solo", "add", "latch", "latch_spin"} =>
              /\ step'[t] \in {3, 5, 7} /\ ~New(t)' /\ Passed(t)' = step'[t] - 1 /\ ~Arrived(t)'
              /\ ~Released(t)'
              /\ Latching(t)' <=> pc'[t] # "latch_spin"
              /\ PreAdd(t)' <=> pc'[t] \in {"solo", "add"}
         /\ \/ pc'[t] = "app" \/ pc'[t] = "arrive" \/ Arrived(t)' \/ Released(t)'
            \/ pc'[t] \in {"solo", "add", "latch", "latch_spin"}
<1>1. /\ pc'[t] \in {"app", "arrive", "reset", "release", "spin", "solo", "add", "latch", "latch_spin"}
      /\ pc'[t] = "app" => step'[t] = 0 /\ tid'[t] = 0
      /\ pc'[t] \in {"arrive", "spin", "reset", "release"} => step'[t] \in {1, 2, 4, 6}
      /\ pc'[t] \in {"solo", "add", "latch", "latch_spin"} => step'[t] \in {3, 5, 7}
      /\ pc'[t] \in {"solo", "add"} => tid'[t] = 0
  BY DEF TypeOK, ControlInv, BarrierSteps
<1>2. CASE pc'[t] = "app"
  BY <1>1, <1>2 DEF New, Passed, Arrived, Released, PreAdd, Latching
<1>3. CASE pc'[t] = "arrive" \/ Arrived(t)'
  BY <1>1, <1>3 DEF New, Passed, Arrived, Released, PreAdd, Latching
<1>4. CASE Released(t)'
  BY <1>1, <1>4 DEF New, Passed, Arrived, Released, PreAdd, Latching
<1>5. CASE pc'[t] \in {"solo", "add", "latch", "latch_spin"}
  BY <1>1, <1>5 DEF New, Passed, Arrived, Released, PreAdd, Latching
<1>6. \/ pc'[t] = "app" \/ pc'[t] = "arrive" \/ Arrived(t)' \/ Released(t)'
      \/ pc'[t] \in {"solo", "add", "latch", "latch_spin"}
  BY <1>1 DEF Arrived, Released
<1> QED
  BY <1>2, <1>3, <1>4, <1>5, <1>6

\* Threads that have come to a barrier have come to the same one.
LEMMA SameBarrier ==
  ASSUME TypeOK, ControlInv, PassedInv, NEW t \in group, NEW u \in group,
         pc[t] = "arrive" \/ Arrived(t), pc[u] = "arrive" \/ Arrived(u)
  PROVE  step[t] = step[u] /\ (New(t) <=> New(u))
<1>1. t \in Threads /\ u \in Threads
  BY GroupFacts DEF TypeOK
<1>2. /\ step[t] \in {1, 2, 4, 6} /\ (New(t) <=> step[t] = 1) /\ Passed(t) = Prev(step[t])
      /\ step[u] \in {1, 2, 4, 6} /\ (New(u) <=> step[u] = 1) /\ Passed(u) = Prev(step[u])
  BY <1>1, PlaceFacts
<1>3. step[t] <= LastStep(flush_mode) /\ step[u] <= LastStep(flush_mode) /\ Passed(t) = Passed(u)
  BY <1>1 DEF ControlInv, PassedInv
<1> DEFINE L == LastBarrier
           m == LastStep(flush_mode)
<1>4. L \in {2, 4, 6} /\ m = L + 1
  BY StepFacts
<1>5. ASSUME NEW k \in {1, 2, 4, 6}
      PROVE  Prev(k) = IF k = 1 THEN L ELSE IF k = 2 THEN 1 ELSE IF k = 4 THEN 2 ELSE 4
  BY StepFacts
<1>6. (IF step[t] = 1 THEN L ELSE IF step[t] = 2 THEN 1 ELSE IF step[t] = 4 THEN 2 ELSE 4)
        = (IF step[u] = 1 THEN L ELSE IF step[u] = 2 THEN 1 ELSE IF step[u] = 4 THEN 2 ELSE 4)
  BY <1>2, <1>3, <1>5
<1>7. step[t] <= L + 1 /\ step[u] <= L + 1
  BY <1>3, <1>4
<1> HIDE DEF L, m
<1>8. step[t] = step[u]
  BY <1>2, <1>4, <1>6, <1>7
<1> QED
  BY <1>2, <1>8

\* The leader that has not added to the latch is alone.
LEMMA LeaderFacts ==
  ASSUME TypeOK, ControlInv, PassedInv, LeaderInv, NEW p \in group, PreAdd(p), NEW u \in group, u # p
  PROVE  /\ ~New(p) /\ ~New(u) /\ ~Arrived(u) /\ pc[p] # "app" /\ pc[u] # "app" /\ Passed(p) \in {2, 4, 6}
         /\ Released(u) => step[u] = Passed(p)
         /\ pc[u] \in {"latch", "latch_spin"} => step[u] = Passed(p) + 1
         /\ Released(u) \/ pc[u] \in {"latch", "latch_spin"}
<1>1. p \in Threads /\ u \in Threads
  BY GroupFacts DEF TypeOK
<1>2. Released(u) \/ pc[u] \in {"latch", "latch_spin"}
  BY DEF LeaderInv
<1>3. (Released(p) /\ step[p] # 1) \/ pc[p] \in {"solo", "add"}
  BY DEF PreAdd
<1>4. Passed(u) = Passed(p)
  BY DEF PassedInv
<1>5. /\ ~New(p) /\ pc[p] # "app" /\ Passed(p) \in {2, 4, 6}
  <2>1. CASE Released(p) /\ step[p] # 1
    BY <1>1, <2>1, PlaceFacts
  <2>2. CASE pc[p] \in {"solo", "add"}
    BY <1>1, <2>2, PlaceFacts
  <2> QED
    BY <1>3, <2>1, <2>2
<1>6. CASE Released(u)
  BY <1>1, <1>4, <1>5, <1>6, PlaceFacts
<1>7. CASE pc[u] \in {"latch", "latch_spin"}
  <2>1. step[u] \in {3, 5, 7} /\ ~New(u) /\ Passed(u) = step[u] - 1 /\ ~Arrived(u) /\ ~Released(u)
    BY <1>1, <1>7, PlaceFacts
  <2> QED
    BY <1>4, <1>5, <1>7, <2>1
<1> QED
  BY <1>2, <1>5, <1>6, <1>7

\* A thread has returned or entered the next call: the ids are given out again.
LEMMA NewReset ==
  ASSUME TypeOK, ControlInv, PassedInv, LeaderInv, NEW t \in group, New(t)
  PROVE  ResetDone /\ \A p \in group : ~PreAdd(p)
<1>1. t \in Threads /\ \A u \in group : u \in Threads
  BY GroupFacts DEF TypeOK
<1>2. ASSUME NEW p \in group PROVE ~PreAdd(p)
  <2> SUFFICES ASSUME PreAdd(p) PROVE FALSE
    OBVIOUS
  <2>1. p # t
    BY <1>1, PlaceFacts DEF PreAdd
  <2> QED
    BY <2>1, LeaderFacts
<1>3. Passed(t) = LastBarrier
  BY <1>1, PlaceFacts, StepFacts
<1>4. \A u \in group : Passed(u) = LastBarrier
  BY <1>3 DEF PassedInv
<1>5. ASSUME NEW u \in group, tid[u] = 0, Released(u) \/ pc[u] = "solo" PROVE FALSE
  <2>1. Released(u) => step[u] # 1
    <3>1. Released(u) => Passed(u) = step[u]
      BY <1>1, PlaceFacts
    <3> QED
      BY <1>4, <3>1, StepFacts
  <2>2. PreAdd(u)
    BY <1>5, <2>1 DEF PreAdd
  <2> QED
    BY <1>2, <2>2
<1> QED
  BY <1>2, <1>4, <1>5 DEF ResetDone

\* A thread on its way to a barrier, or in it: the latch is at rest.
LEMMA BarrierQuiet ==
  ASSUME TypeOK, ControlInv, PassedInv, LeaderInv, NEW t \in group, pc[t] = "arrive" \/ Arrived(t)
  PROVE  \A p \in group : ~PreAdd(p)
<1>1. t \in Threads
  BY GroupFacts DEF TypeOK
<1>2. ~Released(t) /\ ~PreAdd(t) /\ pc[t] \notin {"latch", "latch_spin"}
  BY <1>1, PlaceFacts
<1> QED
  BY <1>2 DEF LeaderInv

\* The barrier before barrier k.
LEMMA PrevFrame ==
  ASSUME NEW t \in Threads, step'[t] = step[t], flush_mode' = flush_mode
  PROVE  Prev(step[t])' = Prev(step[t]) /\ LastBarrier' = LastBarrier
BY DEF Prev, LastBarrier, LastStep

\* A thread that takes no part in a step.
LEMMA Apart ==
  ASSUME NEW u \in Threads, pc'[u] = pc[u], step'[u] = step[u], tid'[u] = tid[u], my_sense'[u] = my_sense[u],
         flag' = flag, flush_mode' = flush_mode
  PROVE  /\ Arrived(u)' <=> Arrived(u)
         /\ Released(u)' <=> Released(u)
         /\ New(u)' <=> New(u)
         /\ Passed(u)' = Passed(u)
         /\ PreAdd(u)' <=> PreAdd(u)
         /\ Latching(u)' <=> Latching(u)
<1>1. (Arrived(u)' <=> Arrived(u)) /\ (Released(u)' <=> Released(u))
  BY DEF Arrived, Released
<1>2. LastBarrier' = LastBarrier
  BY DEF LastBarrier, LastStep
<1>3. Passed(u)' = Passed(u)
  BY <1>1, <1>2 DEF Passed, Prev
<1> QED
  BY <1>1, <1>3 DEF New, PreAdd, Latching

-----------------------------------------------------------------------------
(* Steps that leave a part of the state alone.                             *)

LEMMA PassedRoundFrame ==
  ASSUME PassedInv, RoundInv, group' = group, round' = round,
         \A u \in group : Passed(u)' = Passed(u) /\ (New(u)' <=> New(u))
  PROVE  PassedInv' /\ RoundInv'
BY DEF PassedInv, RoundInv

LEMMA OwnerFrame ==
  ASSUME group' = group, flush_mode' = flush_mode,
         \A u \in group : /\ Passed(u)' = Passed(u) /\ (New(u)' <=> New(u)) /\ tid'[u] = tid[u]
                          /\ pc'[u] = "app" <=> pc[u] = "app"
                          /\ Passed(u) = LastBarrier /\ tid[u] = 0 =>
                               ((Released(u)' \/ pc'[u] = "solo") <=> (Released(u) \/ pc[u] = "solo"))
  PROVE  \A u \in group : Owner(u)' <=> Owner(u)
<1>1. LastBarrier' = LastBarrier
  BY DEF LastBarrier, LastStep
<1>2. ResetDone' <=> ResetDone
  BY <1>1 DEF ResetDone
<1> QED
  BY <1>2 DEF Owner

LEMMA IdFrame ==
  ASSUME IdInv, group' = group, next_thread_id' = next_thread_id,
         \A u \in group : /\ tid'[u] = tid[u] /\ (pc'[u] = "app" <=> pc[u] = "app")
                          /\ New(u)' <=> New(u)
                          /\ Owner(u)' <=> Owner(u)
                          /\ PreAdd(u)' => PreAdd(u)
  PROVE  IdInv'
<1>1. nr_threads' = nr_threads
  BY DEF nr_threads
<1>2. {t \in group' : Owner(t)'} = {t \in group : Owner(t)}
  OBVIOUS
<1>3. next_thread_id' = Cardinality({t \in group' : Owner(t)'})
  BY <1>2 DEF IdInv
<1>4. \A t \in group' : Owner(t)' => tid'[t] < next_thread_id'
  BY DEF IdInv
<1>5. \A i \in 0 .. (next_thread_id' - 1) : \E t \in group' : Owner(t)' /\ tid'[t] = i
  BY DEF IdInv
<1>6. \A t \in group' : tid'[t] < nr_threads'
  BY <1>1 DEF IdInv
<1>7. \A t, u \in group' : t # u /\ pc'[t] # "app" /\ pc'[u] # "app" /\ (New(t)' <=> New(u)') => tid'[t] # tid'[u]
  BY DEF IdInv
<1>8. (\E t \in group' : PreAdd(t)') => \A i \in 0 .. (nr_threads' - 1) : \E t \in group' : tid'[t] = i
  BY <1>1 DEF IdInv
<1> QED
  BY <1>3, <1>4, <1>5, <1>6, <1>7, <1>8 DEF IdInv

LEMMA CounterFrame ==
  ASSUME CounterInv, group' = group, counter' = counter,
         \A u \in group : /\ Arrived(u)' <=> Arrived(u)
                          /\ Arrived(u) => pc'[u] = pc[u]
  PROVE  CounterInv'
<1>1. \A u \in group : /\ pc'[u] = "reset" <=> pc[u] = "reset"
                       /\ pc'[u] = "release" <=> pc[u] = "release"
  BY DEF Arrived
<1>2. {t \in group' : Arrived(t)'} = {t \in group : Arrived(t)}
  OBVIOUS
<1>3. (\A t \in group' : pc'[t] \notin {"reset", "release"}) => counter' = Cardinality({t \in group' : Arrived(t)'})
  BY <1>1, <1>2 DEF CounterInv
<1>4. \A t \in group' : pc'[t] \in {"reset", "release"} => \A u \in group' \ {t} : Arrived(u)' /\ pc'[u] = "spin"
  BY <1>1 DEF CounterInv
<1>5. \A t \in group' : pc'[t] = "release" => counter' = 0
  BY <1>1 DEF CounterInv
<1> QED
  BY <1>3, <1>4, <1>5 DEF CounterInv

LEMMA SenseFrame ==
  ASSUME SenseInv, group' = group, flag' = flag, local_sense' = local_sense,
         \A u \in group : /\ Arrived(u)' <=> Arrived(u)
                          /\ Arrived(u) => my_sense'[u] = my_sense[u] /\ tid'[u] = tid[u]
  PROVE  SenseInv'
<1>1. nr_threads' = nr_threads
  BY DEF nr_threads
<1> QED
  BY <1>1 DEF SenseInv

LEMMA LatchFrame ==
  ASSUME LatchInv, group' = group, latch_flag' = latch_flag, latch_sense' = latch_sense,
         \A u \in group : /\ pc'[u] = "latch_spin" <=> pc[u] = "latch_spin"
                          /\ Latching(u)' <=> Latching(u)
                          /\ PreAdd(u)' <=> PreAdd(u)
                          /\ pc[u] = "latch_spin" => my_sense'[u] = my_sense[u] /\ tid'[u] = tid[u]
                          /\ Latching(u) => tid'[u] = tid[u]
  PROVE  LatchInv'
<1>1. nr_threads' = nr_threads
  BY DEF nr_threads
<1>2. \A t \in group' : pc'[t] = "latch_spin" => my_sense'[t] = latch_sense'[tid'[t]]
  BY DEF LatchInv
<1>3. ASSUME NEW i \in 0 .. (nr_threads - 1)
      PROVE  /\ (\E p \in group' : PreAdd(p)') =>
                  (latch_sense'[i] # latch_flag' <=> \E t \in group' : pc'[t] = "latch_spin" /\ tid'[t] = i)
             /\ (\A p \in group' : ~PreAdd(p)') =>
                  (latch_sense'[i] # latch_flag' <=> \E t \in group' : Latching(t)' /\ tid'[t] = i)
  BY <1>3 DEF LatchInv
<1> QED
  BY <1>1, <1>2, <1>3 DEF LatchInv

-----------------------------------------------------------------------------
(* Each step.                                                              *)

\* A thread enters the call.
LEMMA EnterStep == ASSUME IndInv, NEW t \in Threads, Enter(t) PROVE IndInv'
<1>0. /\ TypeOK /\ ControlInv /\ PassedInv /\ RoundInv /\ LeaderInv
      /\ IdInv /\ CounterInv /\ SenseInv /\ LatchInv
  BY DEF IndInv
<1>g. /\ t \in group /\ t \in Threads /\ (\A u \in group : u \in Threads) /\ group \in Groups
      /\ pc \in [Threads -> {"app", "arrive", "reset", "release", "spin", "solo", "add", "latch", "latch_spin"}]
      /\ step \in [Threads -> 0 .. 7] /\ tid \in [Threads -> Ids] /\ my_sense \in [Threads -> 0 .. 1]
      /\ Cardinality(Threads) \in Nat /\ nr_threads \in Nat /\ nr_threads <= Cardinality(Threads)
  <2>1. t \in group /\ group \in Groups
    BY <1>0 DEF Enter, ControlInv, TypeOK
  <2> QED
    BY <1>0, <2>1, GroupFacts DEF TypeOK, nr_threads
<1>1. /\ pc[t] = "app" /\ tid' = [tid EXCEPT ![t] = next_thread_id] /\ next_thread_id' = next_thread_id + 1
      /\ pc' = [pc EXCEPT ![t] = "arrive"] /\ step' = [step EXCEPT ![t] = 1]
      /\ counter' = counter /\ flag' = flag /\ local_sense' = local_sense /\ latch_flag' = latch_flag
      /\ latch_sense' = latch_sense /\ flush_mode' = flush_mode /\ my_sense' = my_sense
      /\ group' = group /\ round' = round
  BY DEF Enter
<1>2. ASSUME NEW u \in Threads, u # t
      PROVE  /\ pc'[u] = pc[u] /\ step'[u] = step[u] /\ tid'[u] = tid[u] /\ my_sense'[u] = my_sense[u]
             /\ Arrived(u)' <=> Arrived(u)
             /\ Released(u)' <=> Released(u)
             /\ New(u)' <=> New(u)
             /\ Passed(u)' = Passed(u)
             /\ PreAdd(u)' <=> PreAdd(u)
             /\ Latching(u)' <=> Latching(u)
  <2>1. pc'[u] = pc[u] /\ step'[u] = step[u] /\ tid'[u] = tid[u] /\ my_sense'[u] = my_sense[u]
    BY <1>g, <1>1, <1>2
  <2> QED
    BY <1>1, <1>2, <2>1, Apart
<1>3. /\ New(t) /\ Passed(t) = LastBarrier /\ ~Arrived(t) /\ ~Released(t) /\ ~PreAdd(t) /\ ~Latching(t)
      /\ ResetDone /\ \A p \in group : ~PreAdd(p)
  BY <1>0, <1>g, <1>1, PlaceFacts, NewReset
<1>4. /\ pc'[t] = "arrive" /\ step'[t] = 1 /\ tid'[t] = next_thread_id
      /\ New(t)' /\ Passed(t)' = Passed(t) /\ ~Arrived(t)' /\ ~Released(t)' /\ ~PreAdd(t)' /\ ~Latching(t)'
  <2>1. pc'[t] = "arrive" /\ step'[t] = 1 /\ tid'[t] = next_thread_id
    BY <1>g, <1>1
  <2>2. LastBarrier' = LastBarrier
    BY <1>1 DEF LastBarrier, LastStep
  <2>3. Passed(t)' = Prev(step[t])'
    BY <2>1 DEF Passed, Arrived, Released
  <2>4. Prev(step[t])' = LastBarrier'
    BY <2>1 DEF Prev
  <2> QED
    BY <1>3, <2>1, <2>2, <2>3, <2>4 DEF New, Arrived, Released, PreAdd, Latching
<1>5. ResetDone'
  <2>1. LastBarrier' = LastBarrier
    BY <1>1 DEF LastBarrier, LastStep
  <2>2. \A u \in group : Passed(u)' = LastBarrier'
    BY <1>g, <1>2, <1>3, <1>4, <2>1 DEF ResetDone
  <2>3. ASSUME NEW u \in group PROVE ~(~New(u)' /\ tid'[u] = 0 /\ (Released(u)' \/ pc'[u] = "solo"))
    BY <1>g, <1>2, <1>3, <1>4 DEF ResetDone
  <2> QED
    BY <1>1, <2>2, <2>3 DEF ResetDone
<1>6. \A u \in group : Owner(u)' <=> (Owner(u) \/ u = t)
  BY <1>g, <1>1, <1>2, <1>3, <1>4, <1>5 DEF Owner
<1>7. ~Owner(t)
  BY <1>1 DEF Owner
<1> DEFINE O == {u \in group : Owner(u)}
<1>8. /\ IsFiniteSet(O) /\ Cardinality(O) = next_thread_id /\ next_thread_id \in Nat
      /\ Cardinality(O \cup {t}) = next_thread_id + 1 /\ next_thread_id < nr_threads
  <2>1. IsFiniteSet(group) /\ Cardinality(group) \in Nat
    BY <1>g, GroupFacts
  <2>2. IsFiniteSet(O) /\ Cardinality(O) \in Nat
    BY <2>1, FS_Subset, FS_CardinalityType
  <2>3. Cardinality(O) = next_thread_id
    BY <1>0 DEF IdInv
  <2>4. Cardinality(O \cup {t}) = Cardinality(O) + 1
    BY <1>7, <2>2, FS_AddElement
  <2>5. O \cup {t} \subseteq group
    BY <1>g
  <2>6. Cardinality(O \cup {t}) <= Cardinality(group)
    BY <2>1, <2>5, FS_Subset
  <2> HIDE DEF O
  <2> QED
    BY <2>1, <2>2, <2>3, <2>4, <2>6 DEF nr_threads
<1>t. TypeOK'
  <2>1. next_thread_id \in Ids /\ next_thread_id' \in 0 .. Cardinality(Threads)
    <3> HIDE DEF O
    <3> QED
      BY <1>g, <1>1, <1>8 DEF Ids
  <2>2. /\ tid' \in [Threads -> Ids] /\ step' \in [Threads -> 0 .. 7]
        /\ pc' \in [Threads -> {"app", "arrive", "reset", "release", "spin", "solo", "add", "latch", "latch_spin"}]
    BY <1>g, <1>1, <2>1
  <2> QED
    BY <1>0, <1>1, <2>1, <2>2 DEF TypeOK
<1>c. ControlInv'
  <2>1. LastStep(flush_mode)' = LastStep(flush_mode) /\ 1 <= LastStep(flush_mode)
    BY <1>0, <1>1, StepFacts
  <2> QED
    BY <1>0, <1>g, <1>1, <1>2, <1>4, <2>1 DEF ControlInv, BarrierSteps
<1>p. PassedInv' /\ RoundInv'
  BY <1>0, <1>g, <1>1, <1>2, <1>3, <1>4, PassedRoundFrame
<1>l. LeaderInv'
  BY <1>g, <1>1, <1>2, <1>3, <1>4 DEF LeaderInv
<1>i. IdInv'
  <2>0. nr_threads' = nr_threads
    BY <1>1 DEF nr_threads
  <2>1. next_thread_id' = Cardinality({u \in group' : Owner(u)'})
    <3>1. {u \in group' : Owner(u)'} = O \cup {t}
      BY <1>g, <1>1, <1>6
    <3> HIDE DEF O
    <3> QED
      BY <1>1, <1>8, <3>1
  <2>2. \A u \in group' : Owner(u)' => tid'[u] < next_thread_id'
    <3>1. \A u \in group : Owner(u) => tid[u] < next_thread_id /\ tid[u] \in Nat
      BY <1>0, <1>g DEF IdInv, Ids
    <3> HIDE DEF O
    <3> QED
      BY <1>g, <1>1, <1>2, <1>4, <1>6, <1>7, <1>8, <3>1
  <2>3. ASSUME NEW i \in 0 .. (next_thread_id' - 1) PROVE \E u \in group' : Owner(u)' /\ tid'[u] = i
    <3>1. CASE i = next_thread_id
      BY <1>g, <1>1, <1>4, <1>6, <3>1
    <3>2. CASE i # next_thread_id
      <4>1. i \in 0 .. (next_thread_id - 1)
        <5> HIDE DEF O
        <5> QED
          BY <1>1, <1>8, <3>2
      <4>2. PICK u \in group : Owner(u) /\ tid[u] = i
        BY <1>0, <4>1 DEF IdInv
      <4> QED
        BY <1>g, <1>1, <1>2, <1>6, <1>7, <4>2
    <3> QED
      BY <3>1, <3>2
  <2>4. \A u \in group' : tid'[u] < nr_threads'
    <3>1. \A u \in group : tid[u] < nr_threads
      BY <1>0 DEF IdInv
    <3> HIDE DEF O
    <3> QED
      BY <1>g, <1>1, <1>2, <1>4, <1>8, <2>0, <3>1
  <2>5. ASSUME NEW u \in group, NEW v \in group, u # v, pc'[u] # "app", pc'[v] # "app", New(u)' <=> New(v)'
        PROVE  tid'[u] # tid'[v]
    <3>1. ASSUME NEW w \in group, w # t, pc[w] # "app", New(w) PROVE tid[w] # next_thread_id
      <4>1. tid[w] < next_thread_id /\ tid[w] \in Nat
        BY <1>0, <1>g, <3>1 DEF IdInv, Ids, Owner
      <4> HIDE DEF O
      <4> QED
        BY <1>8, <4>1
    <3>2. CASE u # t /\ v # t
      BY <1>0, <1>g, <1>2, <2>5, <3>2 DEF IdInv
    <3>3. CASE u = t
      <4>1. v # t /\ pc[v] # "app" /\ New(v) /\ tid'[v] = tid[v]
        BY <1>g, <1>2, <1>4, <2>5, <3>3
      <4> QED
        BY <1>4, <3>1, <3>3, <4>1
    <3>4. CASE v = t
      <4>1. u # t /\ pc[u] # "app" /\ New(u) /\ tid'[u] = tid[u]
        BY <1>g, <1>2, <1>4, <2>5, <3>4
      <4> QED
        BY <1>4, <3>1, <3>4, <4>1
    <3> QED
      BY <3>2, <3>3, <3>4
  <2>6. \A p \in group' : ~PreAdd(p)'
    BY <1>g, <1>1, <1>2, <1>3, <1>4
  <2>7. \A u, v \in group' : u # v /\ pc'[u] # "app" /\ pc'[v] # "app" /\ (New(u)' <=> New(v)') => tid'[u] # tid'[v]
    BY <1>1, <2>5
  <2> HIDE DEF O
  <2> QED
    BY <2>1, <2>2, <2>3, <2>4, <2>6, <2>7 DEF IdInv
<1>n. CounterInv'
  BY <1>0, <1>g, <1>1, <1>2, <1>3, <1>4, CounterFrame
<1>s. SenseInv'
  BY <1>0, <1>g, <1>1, <1>2, <1>3, <1>4, SenseFrame
<1>w. LatchInv'
  BY <1>0, <1>g, <1>1, <1>2, <1>3, <1>4, LatchFrame
<1> QED
  BY <1>t, <1>c, <1>p, <1>l, <1>i, <1>n, <1>s, <1>w DEF IndInv

\* The last one to arrive resets the counter.
LEMMA ResetCounterStep == ASSUME IndInv, NEW t \in Threads, ResetCounter(t) PROVE IndInv'
<1>0. /\ TypeOK /\ ControlInv /\ PassedInv /\ RoundInv /\ LeaderInv
      /\ IdInv /\ CounterInv /\ SenseInv /\ LatchInv
  BY DEF IndInv
<1>g. /\ t \in group /\ t \in Threads /\ (\A u \in group : u \in Threads) /\ group \in Groups
      /\ pc \in [Threads -> {"app", "arrive", "reset", "release", "spin", "solo", "add", "latch", "latch_spin"}]
      /\ step \in [Threads -> 0 .. 7] /\ tid \in [Threads -> Ids] /\ my_sense \in [Threads -> 0 .. 1]
      /\ Cardinality(Threads) \in Nat /\ nr_threads \in Nat /\ nr_threads <= Cardinality(Threads)
  <2>1. t \in group /\ group \in Groups
    BY <1>0 DEF ResetCounter, ControlInv, TypeOK
  <2> QED
    BY <1>0, <2>1, GroupFacts DEF TypeOK, nr_threads
<1>1. /\ pc[t] = "reset" /\ pc' = [pc EXCEPT ![t] = "release"] /\ counter' = 0
      /\ flag' = flag /\ local_sense' = local_sense /\ latch_flag' = latch_flag
      /\ latch_sense' = latch_sense /\ flush_mode' = flush_mode /\ my_sense' = my_sense
      /\ group' = group /\ round' = round /\ next_thread_id' = next_thread_id /\ tid' = tid /\ step' = step
  BY DEF ResetCounter
<1>2. ASSUME NEW u \in Threads, u # t
      PROVE  /\ pc'[u] = pc[u] /\ step'[u] = step[u] /\ tid'[u] = tid[u] /\ my_sense'[u] = my_sense[u]
             /\ Arrived(u)' <=> Arrived(u)
             /\ Released(u)' <=> Released(u)
             /\ New(u)' <=> New(u)
             /\ Passed(u)' = Passed(u)
             /\ PreAdd(u)' <=> PreAdd(u)
             /\ Latching(u)' <=> Latching(u)
  <2>1. pc'[u] = pc[u] /\ step'[u] = step[u] /\ tid'[u] = tid[u] /\ my_sense'[u] = my_sense[u]
    BY <1>g, <1>1, <1>2
  <2> QED
    BY <1>1, <1>2, <2>1, Apart
<1>t. TypeOK'
  <2>1. pc' \in [Threads -> {"app", "arrive", "reset", "release", "spin", "solo", "add", "latch", "latch_spin"}]
    BY <1>g, <1>1
  <2>2. counter' \in 0 .. Cardinality(Threads)
    BY <1>g, <1>1
  <2> QED
    BY <1>0, <1>1, <2>1, <2>2 DEF TypeOK
<1>c. ControlInv'
  <2>1. LastStep(flush_mode)' = LastStep(flush_mode)
    BY <1>1
  <2>2. ASSUME NEW u \in Threads
        PROVE  /\ pc'[u] = "app" => step'[u] = 0 /\ tid'[u] = 0
               /\ pc'[u] \in {"arrive", "spin", "reset", "release"} => step'[u] \in BarrierSteps
               /\ pc'[u] \in {"solo", "add", "latch", "latch_spin"} => step'[u] \in {3, 5, 7}
               /\ pc'[u] \in {"solo", "add"} => tid'[u] = 0
               /\ step'[u] <= LastStep(flush_mode)'
    <3>1. CASE u = t
      BY <1>0, <1>g, <1>1, <2>1, <3>1 DEF ControlInv
    <3>2. CASE u # t
      BY <1>0, <1>g, <1>2, <2>1, <2>2, <3>2 DEF ControlInv
    <3> QED
      BY <3>1, <3>2
  <2>3. \A u \in Threads \ group' : pc'[u] = "app"
    BY <1>0, <1>g, <1>1, <1>2 DEF ControlInv
  <2> QED
    BY <2>2, <2>3 DEF ControlInv
<1>3. Arrived(t) /\ Arrived(t)' /\ pc'[t] = "release" /\ tid'[t] = tid[t] /\ step'[t] = step[t]
  BY <1>g, <1>1 DEF Arrived
<1>4. /\ Passed(t)' = Passed(t) /\ (New(t)' <=> New(t)) /\ ~PreAdd(t) /\ ~PreAdd(t)' /\ ~Latching(t) /\ ~Latching(t)'
      /\ ~Released(t) /\ ~Released(t)'
  BY <1>0, <1>g, <1>t, <1>c, <1>1, <1>3, PlaceFacts, AfterFacts, PrevFrame
<1>p. PassedInv' /\ RoundInv'
  BY <1>0, <1>g, <1>1, <1>2, <1>4, PassedRoundFrame
<1>5. \A p \in group : ~PreAdd(p)
  BY <1>0, <1>g, <1>3, BarrierQuiet
<1>l. LeaderInv'
  BY <1>g, <1>1, <1>2, <1>4, <1>5 DEF LeaderInv
<1>i. IdInv'
  <2>1. \A u \in group : Owner(u)' <=> Owner(u)
    BY <1>g, <1>1, <1>2, <1>3, <1>4, OwnerFrame
  <2> QED
    BY <1>0, <1>g, <1>1, <1>2, <1>3, <1>4, <2>1, IdFrame
<1>n. CounterInv'
  <2>1. \A u \in group \ {t} : Arrived(u) /\ pc[u] = "spin"
    BY <1>0, <1>g, <1>1 DEF CounterInv
  <2> QED
    BY <1>g, <1>1, <1>2, <1>3, <2>1 DEF CounterInv
<1>s. SenseInv'
  BY <1>0, <1>g, <1>1, <1>2, <1>3, SenseFrame
<1>w. LatchInv'
  BY <1>0, <1>g, <1>1, <1>2, <1>3, <1>4, LatchFrame
<1> QED
  BY <1>t, <1>c, <1>p, <1>l, <1>i, <1>n, <1>s, <1>w DEF IndInv

\* A thread arrives at a barrier.
LEMMA ArriveStep == ASSUME IndInv, NEW t \in Threads, Arrive(t) PROVE IndInv'
<1>0. /\ TypeOK /\ ControlInv /\ PassedInv /\ RoundInv /\ LeaderInv
      /\ IdInv /\ CounterInv /\ SenseInv /\ LatchInv
  BY DEF IndInv
<1>g. /\ t \in group /\ t \in Threads /\ (\A u \in group : u \in Threads) /\ group \in Groups
      /\ pc \in [Threads -> {"app", "arrive", "reset", "release", "spin", "solo", "add", "latch", "latch_spin"}]
      /\ step \in [Threads -> 0 .. 7] /\ tid \in [Threads -> Ids] /\ my_sense \in [Threads -> 0 .. 1]
      /\ Cardinality(Threads) \in Nat /\ nr_threads \in Nat /\ nr_threads <= Cardinality(Threads)
  <2>1. t \in group /\ group \in Groups
    BY <1>0 DEF Arrive, ControlInv, TypeOK
  <2> QED
    BY <1>0, <2>1, GroupFacts DEF TypeOK, nr_threads
<1>1. /\ pc[t] = "arrive" /\ local_sense' = [local_sense EXCEPT ![tid[t]] = 1 - local_sense[tid[t]]]
      /\ my_sense' = [my_sense EXCEPT ![t] = local_sense'[tid[t]]] /\ counter' = counter + 1
      /\ pc' = [pc EXCEPT ![t] = IF counter + 1 = nr_threads THEN "reset" ELSE "spin"]
      /\ flag' = flag /\ latch_flag' = latch_flag /\ latch_sense' = latch_sense /\ flush_mode' = flush_mode
      /\ group' = group /\ round' = round /\ next_thread_id' = next_thread_id /\ tid' = tid /\ step' = step
  BY DEF Arrive
<1>2. ASSUME NEW u \in Threads, u # t
      PROVE  /\ pc'[u] = pc[u] /\ step'[u] = step[u] /\ tid'[u] = tid[u] /\ my_sense'[u] = my_sense[u]
             /\ Arrived(u)' <=> Arrived(u)
             /\ Released(u)' <=> Released(u)
             /\ New(u)' <=> New(u)
             /\ Passed(u)' = Passed(u)
             /\ PreAdd(u)' <=> PreAdd(u)
             /\ Latching(u)' <=> Latching(u)
  <2>1. pc'[u] = pc[u] /\ step'[u] = step[u] /\ tid'[u] = tid[u] /\ my_sense'[u] = my_sense[u]
    BY <1>g, <1>1, <1>2
  <2> QED
    BY <1>1, <1>2, <2>1, Apart
<1>3. /\ step[t] \in {1, 2, 4, 6} /\ ~Arrived(t) /\ ~Released(t) /\ ~PreAdd(t) /\ ~Latching(t)
      /\ New(t) <=> step[t] = 1
      /\ Passed(t) = Prev(step[t])
  <2>1. ~Arrived(t)
    BY <1>1 DEF Arrived
  <2> QED
    BY <1>0, <1>g, <1>1, <2>1, PlaceFacts
<1>4. tid[t] \in 0 .. (nr_threads - 1) /\ tid[t] \in Ids
  BY <1>0, <1>g DEF IdInv, Ids
<1>5. local_sense[tid[t]] = flag
  <2> SUFFICES ASSUME local_sense[tid[t]] # flag PROVE FALSE
    OBVIOUS
  <2>1. PICK u \in group : Arrived(u) /\ tid[u] = tid[t]
    BY <1>0, <1>4 DEF SenseInv
  <2>2. u # t /\ (New(t) <=> New(u)) /\ pc[u] # "app"
    BY <1>0, <1>g, <1>1, <1>3, <2>1, SameBarrier, PlaceFacts
  <2> QED
    BY <1>0, <1>g, <1>1, <2>1, <2>2 DEF IdInv
<1>6. /\ local_sense' \in [Ids -> 0 .. 1] /\ my_sense'[t] \in 0 .. 1 /\ my_sense'[t] # flag
      /\ local_sense'[tid[t]] # flag /\ \A i \in Ids : i # tid[t] => local_sense'[i] = local_sense[i]
      /\ my_sense' \in [Threads -> 0 .. 1]
  <2>1. local_sense \in [Ids -> 0 .. 1] /\ flag \in 0 .. 1
    BY <1>0 DEF TypeOK
  <2>2. 1 - flag \in 0 .. 1 /\ 1 - flag # flag
    BY <2>1
  <2>3. local_sense' = [local_sense EXCEPT ![tid[t]] = 1 - flag]
    BY <1>1, <1>5
  <2>4. local_sense' \in [Ids -> 0 .. 1] /\ local_sense'[tid[t]] = 1 - flag
    BY <1>4, <2>1, <2>2, <2>3
  <2>5. my_sense'[t] = 1 - flag /\ my_sense' \in [Threads -> 0 .. 1]
    BY <1>g, <1>1, <2>2, <2>4
  <2> QED
    BY <2>1, <2>2, <2>3, <2>4, <2>5
<1>7. \A u \in group : pc[u] \notin {"reset", "release"}
  BY <1>0, <1>g, <1>1, <1>3 DEF CounterInv
<1> DEFINE A == {u \in group : Arrived(u)}
<1>8. /\ counter \in Nat /\ Cardinality(A \cup {t}) = counter + 1 /\ counter + 1 <= nr_threads
      /\ counter + 1 = nr_threads => A \cup {t} = group
  <2>1. IsFiniteSet(group) /\ Cardinality(group) \in Nat
    BY <1>g, GroupFacts
  <2>2. IsFiniteSet(A) /\ Cardinality(A) \in Nat
    BY <2>1, FS_Subset, FS_CardinalityType
  <2>3. Cardinality(A) = counter
    BY <1>0, <1>7 DEF CounterInv
  <2>4. Cardinality(A \cup {t}) = Cardinality(A) + 1
    BY <1>3, <2>2, FS_AddElement
  <2>5. A \cup {t} \subseteq group
    BY <1>g
  <2>6. Cardinality(A \cup {t}) <= Cardinality(group) /\ (Cardinality(group) = Cardinality(A \cup {t}) => group = A \cup {t})
    BY <2>1, <2>5, FS_Subset
  <2> HIDE DEF A
  <2> QED
    BY <2>1, <2>2, <2>3, <2>4, <2>6 DEF nr_threads
<1>t. TypeOK'
  <2>1. pc' \in [Threads -> {"app", "arrive", "reset", "release", "spin", "solo", "add", "latch", "latch_spin"}]
    BY <1>g, <1>1
  <2>2. counter' \in 0 .. Cardinality(Threads)
    <3> HIDE DEF A
    <3> QED
      BY <1>g, <1>1, <1>8
  <2> QED
    BY <1>0, <1>1, <1>6, <2>1, <2>2 DEF TypeOK
<1>c. ControlInv'
  <2>1. LastStep(flush_mode)' = LastStep(flush_mode)
    BY <1>1
  <2>2. ASSUME NEW u \in Threads
        PROVE  /\ pc'[u] = "app" => step'[u] = 0 /\ tid'[u] = 0
               /\ pc'[u] \in {"arrive", "spin", "reset", "release"} => step'[u] \in BarrierSteps
               /\ pc'[u] \in {"solo", "add", "latch", "latch_spin"} => step'[u] \in {3, 5, 7}
               /\ pc'[u] \in {"solo", "add"} => tid'[u] = 0
               /\ step'[u] <= LastStep(flush_mode)'
    <3>1. CASE u = t
      BY <1>0, <1>g, <1>1, <2>1, <3>1 DEF ControlInv
    <3>2. CASE u # t
      BY <1>0, <1>g, <1>2, <2>1, <2>2, <3>2 DEF ControlInv
    <3> QED
      BY <3>1, <3>2
  <2>3. \A u \in Threads \ group' : pc'[u] = "app"
    BY <1>0, <1>g, <1>1, <1>2 DEF ControlInv
  <2> QED
    BY <2>2, <2>3 DEF ControlInv
<1>9. Arrived(t)' /\ pc'[t] \in {"spin", "reset"} /\ tid'[t] = tid[t] /\ step'[t] = step[t]
  BY <1>g, <1>1, <1>6 DEF Arrived
<1>10. /\ Passed(t)' = Passed(t) /\ (New(t)' <=> New(t)) /\ ~PreAdd(t)' /\ ~Latching(t)' /\ ~Released(t)'
  BY <1>0, <1>g, <1>t, <1>c, <1>1, <1>3, <1>9, AfterFacts, PrevFrame
<1>p. PassedInv' /\ RoundInv'
  BY <1>0, <1>g, <1>1, <1>2, <1>10, PassedRoundFrame
<1>11. \A p \in group : ~PreAdd(p)
  BY <1>0, <1>g, <1>1, BarrierQuiet
<1>l. LeaderInv'
  BY <1>g, <1>1, <1>2, <1>10, <1>11 DEF LeaderInv
<1>i. IdInv'
  <2>1. \A u \in group : Owner(u)' <=> Owner(u)
    BY <1>g, <1>1, <1>2, <1>3, <1>9, <1>10, OwnerFrame
  <2> QED
    BY <1>0, <1>g, <1>1, <1>2, <1>9, <1>10, <2>1, IdFrame
<1>n. CounterInv'
  <2>1. {u \in group' : Arrived(u)'} = A \cup {t}
    BY <1>g, <1>1, <1>2, <1>9
  <2>2. counter' = Cardinality({u \in group' : Arrived(u)'})
    <3> HIDE DEF A
    <3> QED
      BY <1>1, <1>8, <2>1
  <2>3. ASSUME NEW v \in group', pc'[v] \in {"reset", "release"}
        PROVE  pc'[v] # "release" /\ \A u \in group' \ {v} : Arrived(u)' /\ pc'[u] = "spin"
    <3>1. v = t
      BY <1>g, <1>1, <1>2, <1>7, <2>3
    <3>2. counter + 1 = nr_threads
      BY <1>g, <1>1, <2>3, <3>1
    <3>3. A \cup {t} = group
      <4> HIDE DEF A
      <4> QED
        BY <1>8, <3>2
    <3>4. ASSUME NEW u \in group', u # t PROVE Arrived(u)' /\ pc'[u] = "spin"
      <4>1. Arrived(u) /\ pc[u] = "spin"
        BY <1>1, <1>7, <3>3, <3>4 DEF Arrived
      <4> QED
        BY <1>g, <1>1, <1>2, <3>4, <4>1
    <3> QED
      BY <1>9, <3>1, <3>4
  <2> QED
    BY <2>2, <2>3 DEF CounterInv
<1>s. SenseInv'
  <2>1. nr_threads' = nr_threads /\ \A i \in 0 .. (nr_threads - 1) : i \in Ids
    BY <1>g, <1>1 DEF nr_threads, Ids
  <2>2. \A u \in group' : Arrived(u)' => my_sense'[u] # flag'
    BY <1>0, <1>g, <1>1, <1>2, <1>6 DEF SenseInv
  <2>3. ASSUME NEW i \in 0 .. (nr_threads - 1)
        PROVE  local_sense'[i] # flag' <=> \E u \in group' : Arrived(u)' /\ tid'[u] = i
    <3>1. CASE i = tid[t]
      BY <1>g, <1>1, <1>6, <1>9, <3>1
    <3>2. CASE i # tid[t]
      <4>1. local_sense'[i] = local_sense[i] /\ i \in Ids
        BY <1>6, <2>1, <3>2
      <4>2. local_sense[i] # flag <=> \E u \in group : Arrived(u) /\ tid[u] = i
        BY <1>0, <2>3 DEF SenseInv
      <4> QED
        BY <1>g, <1>1, <1>2, <1>3, <1>9, <3>2, <4>1, <4>2
    <3> QED
      BY <3>1, <3>2
  <2> QED
    BY <2>1, <2>2, <2>3 DEF SenseInv
<1>w. LatchInv'
  BY <1>0, <1>g, <1>1, <1>2, <1>3, <1>9, <1>10, LatchFrame
<1> QED
  BY <1>t, <1>c, <1>p, <1>l, <1>i, <1>n, <1>s, <1>w DEF IndInv

\* A thread finds the barrier open.
LEMMA SpinStep == ASSUME IndInv, NEW t \in Threads, Spin(t) PROVE IndInv'
<1>0. /\ TypeOK /\ ControlInv /\ PassedInv /\ RoundInv /\ LeaderInv
      /\ IdInv /\ CounterInv /\ SenseInv /\ LatchInv
  BY DEF IndInv
<1>g. /\ t \in group /\ t \in Threads /\ (\A u \in group : u \in Threads) /\ group \in Groups
      /\ pc \in [Threads -> {"app", "arrive", "reset", "release", "spin", "solo", "add", "latch", "latch_spin"}]
      /\ step \in [Threads -> 0 .. 7] /\ tid \in [Threads -> Ids] /\ my_sense \in [Threads -> 0 .. 1]
      /\ Cardinality(Threads) \in Nat /\ nr_threads \in Nat /\ nr_threads <= Cardinality(Threads)
  <2>1. t \in group /\ group \in Groups
    BY <1>0 DEF Spin, ControlInv, TypeOK
  <2> QED
    BY <1>0, <2>1, GroupFacts DEF TypeOK, nr_threads
<1>1. /\ pc[t] = "spin" /\ flag = Awaited(t, local_sense)
      /\ step' = [step EXCEPT ![t] = step[t] + 1]
      /\ pc' = [pc EXCEPT ![t] = IF step[t] + 1 \in BarrierSteps THEN "arrive" ELSE IF tid[t] = 0 THEN "solo" ELSE "latch"]
      /\ flag' = flag /\ local_sense' = local_sense /\ latch_flag' = latch_flag
      /\ latch_sense' = latch_sense /\ flush_mode' = flush_mode /\ my_sense' = my_sense
      /\ group' = group /\ round' = round /\ counter' = counter /\ next_thread_id' = next_thread_id
      /\ tid' = tid
  BY DEF Spin, Advance
<1>2. ASSUME NEW u \in Threads, u # t
      PROVE  /\ pc'[u] = pc[u] /\ step'[u] = step[u] /\ tid'[u] = tid[u] /\ my_sense'[u] = my_sense[u]
             /\ Arrived(u)' <=> Arrived(u)
             /\ Released(u)' <=> Released(u)
             /\ New(u)' <=> New(u)
             /\ Passed(u)' = Passed(u)
             /\ PreAdd(u)' <=> PreAdd(u)
             /\ Latching(u)' <=> Latching(u)
  <2>1. pc'[u] = pc[u] /\ step'[u] = step[u] /\ tid'[u] = tid[u] /\ my_sense'[u] = my_sense[u]
    BY <1>g, <1>1, <1>2
  <2> QED
    BY <1>1, <1>2, <2>1, Apart
<1>a. /\ step[t] \in {1, 2, 4, 6} /\ step'[t] = step[t] + 1 /\ step'[t] <= LastStep(flush_mode)
      /\ tid'[t] = tid[t]
      /\ step[t] = 1 => step'[t] = 2 /\ pc'[t] = "arrive"
      /\ step[t] # 1 => step'[t] \in {3, 5, 7} /\ pc'[t] = IF tid[t] = 0 THEN "solo" ELSE "latch"
      /\ step[t] <= LastBarrier
  <2>1. step[t] \in {1, 2, 4, 6} /\ step[t] <= LastStep(flush_mode)
    BY <1>0, <1>g, <1>1 DEF ControlInv, BarrierSteps
  <2>2. LastStep(flush_mode) \in {3, 5, 7} /\ LastStep(flush_mode) = LastBarrier + 1 /\ LastBarrier \in {2, 4, 6}
    BY <1>0, StepFacts
  <2>3. /\ step'[t] = step[t] + 1
        /\ pc'[t] = IF step[t] + 1 \in BarrierSteps THEN "arrive" ELSE IF tid[t] = 0 THEN "solo" ELSE "latch"
    BY <1>g, <1>1
  <2>4. step[t] + 1 <= LastStep(flush_mode) /\ step[t] <= LastBarrier
    BY <2>1, <2>2
  <2> QED
    BY <1>1, <2>1, <2>3, <2>4 DEF BarrierSteps
<1>t. TypeOK'
  <2>1. pc' \in [Threads -> {"app", "arrive", "reset", "release", "spin", "solo", "add", "latch", "latch_spin"}]
    BY <1>g, <1>1
  <2>2. step' \in [Threads -> 0 .. 7]
    <3>1. step[t] + 1 \in 0 .. 7
      BY <1>a
    <3> QED
      BY <1>g, <1>1, <3>1
  <2>3. flag' \in 0 .. 1
    BY <1>0, <1>1 DEF TypeOK
  <2> QED
    BY <1>0, <1>1, <2>1, <2>2, <2>3 DEF TypeOK
<1>c. ControlInv'
  <2>1. LastStep(flush_mode)' = LastStep(flush_mode)
    BY <1>1
  <2>2. ASSUME NEW u \in Threads
        PROVE  /\ pc'[u] = "app" => step'[u] = 0 /\ tid'[u] = 0
               /\ pc'[u] \in {"arrive", "spin", "reset", "release"} => step'[u] \in BarrierSteps
               /\ pc'[u] \in {"solo", "add", "latch", "latch_spin"} => step'[u] \in {3, 5, 7}
               /\ pc'[u] \in {"solo", "add"} => tid'[u] = 0
               /\ step'[u] <= LastStep(flush_mode)'
    <3>1. CASE u = t
      BY <1>g, <1>1, <1>a, <2>1, <3>1 DEF BarrierSteps
    <3>2. CASE u # t
      BY <1>0, <1>g, <1>2, <2>1, <2>2, <3>2 DEF ControlInv
    <3> QED
      BY <3>1, <3>2
  <2>3. \A u \in Threads \ group' : pc'[u] = "app"
    BY <1>0, <1>g, <1>1, <1>2 DEF ControlInv
  <2> QED
    BY <2>2, <2>3 DEF ControlInv
<1>3. Released(t)
  <2> SUFFICES ASSUME Arrived(t) PROVE FALSE
    BY <1>0, <1>g, <1>1 DEF Arrived, Released
  <2>1. my_sense[t] # flag
    BY <1>0, <1>g DEF SenseInv
  <2>2. tid[t] \in 0 .. (nr_threads - 1)
    BY <1>0, <1>g DEF IdInv, Ids
  <2>3. local_sense[tid[t]] # flag
    BY <1>0, <1>g, <2>2 DEF SenseInv
  <2> QED
    BY <1>1, <2>1, <2>3 DEF Awaited
<1>4. Passed(t) = step[t] /\ ~New(t) /\ ~Arrived(t) /\ (Latching(t) <=> step[t] # 1) /\ (PreAdd(t) <=> tid[t] = 0 /\ step[t] # 1)
  <2>1. Passed(t) = step[t] /\ ~New(t) /\ ~Arrived(t) /\ (Latching(t) <=> step[t] # 1)
    BY <1>0, <1>g, <1>3, PlaceFacts
  <2> QED
    BY <1>1, <1>3, <2>1 DEF PreAdd
<1>5. /\ Passed(t)' = step[t] /\ ~New(t)' /\ ~Arrived(t)' /\ ~Released(t)' /\ (Latching(t)' <=> step[t] # 1)
      /\ PreAdd(t)' <=> tid[t] = 0 /\ step[t] # 1
  <2>1. CASE step[t] = 1
    <3>1. step'[t] = 2 /\ pc'[t] = "arrive"
      BY <1>a, <2>1
    <3>2. Prev(step[t])' = 1
      BY <3>1 DEF Prev
    <3>3. ~Arrived(t)'
      BY <3>1 DEF Arrived
    <3> QED
      BY <1>g, <1>t, <1>c, <2>1, <3>1, <3>2, <3>3, AfterFacts
  <2>2. CASE step[t] # 1
    <3>1. step'[t] = step[t] + 1 /\ pc'[t] \in {"solo", "latch"} /\ (pc'[t] = "solo" <=> tid[t] = 0)
      BY <1>a, <2>2
    <3>2. /\ Passed(t)' = step'[t] - 1 /\ ~New(t)' /\ ~Arrived(t)' /\ ~Released(t)' /\ Latching(t)'
          /\ PreAdd(t)' <=> pc'[t] = "solo"
      BY <1>g, <1>t, <1>c, <3>1, AfterFacts
    <3> QED
      BY <1>a, <2>2, <3>1, <3>2
  <2> QED
    BY <2>1, <2>2
<1>p. PassedInv' /\ RoundInv'
  BY <1>0, <1>g, <1>1, <1>2, <1>4, <1>5, PassedRoundFrame
<1>l. LeaderInv'
  <2>1. ASSUME NEW p \in group, PreAdd(p)', NEW u \in group, u # p
        PROVE  Released(u)' \/ pc'[u] \in {"latch", "latch_spin"}
    <3>1. PreAdd(p)
      BY <1>g, <1>2, <1>4, <1>5, <2>1
    <3>2. Released(u) \/ pc[u] \in {"latch", "latch_spin"}
      BY <1>0, <2>1, <3>1 DEF LeaderInv
    <3>3. CASE u # t
      BY <1>g, <1>2, <3>2, <3>3
    <3>4. CASE u = t
      <4>1. /\ step[t] = Passed(p) /\ Passed(p) \in {2, 4, 6} /\ ~New(p) /\ pc[p] # "app"
        BY <1>0, <1>g, <1>3, <2>1, <3>1, <3>4, LeaderFacts
      <4>2. tid[t] # 0
        BY <1>0, <1>g, <1>1, <1>4, <2>1, <3>1, <3>4, <4>1 DEF IdInv, PreAdd
      <4> QED
        BY <1>a, <3>4, <4>1, <4>2
    <3> QED
      BY <3>3, <3>4
  <2> QED
    BY <1>1, <2>1 DEF LeaderInv
<1>i. IdInv'
  <2>1. Passed(t) = LastBarrier /\ tid[t] = 0 => pc'[t] = "solo"
    BY <1>0, <1>4, <1>a, StepFacts
  <2>2. \A u \in group : Owner(u)' <=> Owner(u)
    BY <1>g, <1>1, <1>2, <1>3, <1>4, <1>5, <1>a, <2>1, OwnerFrame
  <2> QED
    BY <1>0, <1>g, <1>1, <1>2, <1>4, <1>5, <1>a, <2>2, IdFrame
<1>n. CounterInv'
  BY <1>0, <1>g, <1>1, <1>2, <1>4, <1>5, CounterFrame
<1>s. SenseInv'
  BY <1>0, <1>g, <1>1, <1>2, <1>4, <1>5, SenseFrame
<1>w. LatchInv'
  BY <1>0, <1>g, <1>1, <1>2, <1>4, <1>5, <1>a, LatchFrame
<1> QED
  BY <1>t, <1>c, <1>p, <1>l, <1>i, <1>n, <1>s, <1>w DEF IndInv

\* The last one to arrive opens the barrier.
LEMMA ReleaseStep == ASSUME IndInv, NEW t \in Threads, Release(t) PROVE IndInv'
<1>0. /\ TypeOK /\ ControlInv /\ PassedInv /\ RoundInv /\ LeaderInv
      /\ IdInv /\ CounterInv /\ SenseInv /\ LatchInv
  BY DEF IndInv
<1>g. /\ t \in group /\ t \in Threads /\ (\A u \in group : u \in Threads) /\ group \in Groups
      /\ pc \in [Threads -> {"app", "arrive", "reset", "release", "spin", "solo", "add", "latch", "latch_spin"}]
      /\ step \in [Threads -> 0 .. 7] /\ tid \in [Threads -> Ids] /\ my_sense \in [Threads -> 0 .. 1]
      /\ Cardinality(Threads) \in Nat /\ nr_threads \in Nat /\ nr_threads <= Cardinality(Threads)
  <2>1. t \in group /\ group \in Groups
    BY <1>0 DEF Release, ControlInv, TypeOK
  <2> QED
    BY <1>0, <2>1, GroupFacts DEF TypeOK, nr_threads
<1>1. /\ pc[t] = "release" /\ flag' = local_sense[tid[t]]
      /\ step' = [step EXCEPT ![t] = step[t] + 1]
      /\ pc' = [pc EXCEPT ![t] = IF step[t] + 1 \in BarrierSteps THEN "arrive" ELSE IF tid[t] = 0 THEN "solo" ELSE "latch"]
      /\ local_sense' = local_sense /\ latch_flag' = latch_flag /\ latch_sense' = latch_sense
      /\ flush_mode' = flush_mode /\ my_sense' = my_sense
      /\ group' = group /\ round' = round /\ counter' = counter /\ next_thread_id' = next_thread_id
      /\ tid' = tid
  BY DEF Release, Advance
<1>2. ASSUME NEW u \in Threads, u # t
      PROVE  pc'[u] = pc[u] /\ step'[u] = step[u] /\ tid'[u] = tid[u] /\ my_sense'[u] = my_sense[u]
  BY <1>g, <1>1, <1>2
<1>a. /\ step[t] \in {1, 2, 4, 6} /\ step'[t] = step[t] + 1 /\ step'[t] <= LastStep(flush_mode)
      /\ tid'[t] = tid[t]
      /\ step[t] = 1 => step'[t] = 2 /\ pc'[t] = "arrive"
      /\ step[t] # 1 => step'[t] \in {3, 5, 7} /\ pc'[t] = IF tid[t] = 0 THEN "solo" ELSE "latch"
      /\ step[t] <= LastBarrier
  <2>1. step[t] \in {1, 2, 4, 6} /\ step[t] <= LastStep(flush_mode)
    BY <1>0, <1>g, <1>1 DEF ControlInv, BarrierSteps
  <2>2. LastStep(flush_mode) \in {3, 5, 7} /\ LastStep(flush_mode) = LastBarrier + 1 /\ LastBarrier \in {2, 4, 6}
    BY <1>0, StepFacts
  <2>3. /\ step'[t] = step[t] + 1
        /\ pc'[t] = IF step[t] + 1 \in BarrierSteps THEN "arrive" ELSE IF tid[t] = 0 THEN "solo" ELSE "latch"
    BY <1>g, <1>1
  <2>4. step[t] + 1 <= LastStep(flush_mode) /\ step[t] <= LastBarrier
    BY <2>1, <2>2
  <2> QED
    BY <1>1, <2>1, <2>3, <2>4 DEF BarrierSteps
<1>3. Arrived(t) /\ tid[t] \in 0 .. (nr_threads - 1)
  BY <1>0, <1>g, <1>1 DEF Arrived, IdInv, Ids
<1>4. flag \in 0 .. 1 /\ flag' \in 0 .. 1 /\ flag' # flag
  <2>1. local_sense[tid[t]] # flag
    BY <1>0, <1>g, <1>3 DEF SenseInv
  <2> QED
    BY <1>0, <1>g, <1>1, <2>1 DEF TypeOK
<1>t. TypeOK'
  <2>1. pc' \in [Threads -> {"app", "arrive", "reset", "release", "spin", "solo", "add", "latch", "latch_spin"}]
    BY <1>g, <1>1
  <2>2. step' \in [Threads -> 0 .. 7]
    <3>1. step[t] + 1 \in 0 .. 7
      BY <1>a
    <3> QED
      BY <1>g, <1>1, <3>1
  <2>3. flag' \in 0 .. 1
    BY <1>4
  <2> QED
    BY <1>0, <1>1, <2>1, <2>2, <2>3 DEF TypeOK
<1>c. ControlInv'
  <2>1. LastStep(flush_mode)' = LastStep(flush_mode)
    BY <1>1
  <2>2. ASSUME NEW u \in Threads
        PROVE  /\ pc'[u] = "app" => step'[u] = 0 /\ tid'[u] = 0
               /\ pc'[u] \in {"arrive", "spin", "reset", "release"} => step'[u] \in BarrierSteps
               /\ pc'[u] \in {"solo", "add", "latch", "latch_spin"} => step'[u] \in {3, 5, 7}
               /\ pc'[u] \in {"solo", "add"} => tid'[u] = 0
               /\ step'[u] <= LastStep(flush_mode)'
    <3>1. CASE u = t
      BY <1>g, <1>1, <1>a, <2>1, <3>1 DEF BarrierSteps
    <3>2. CASE u # t
      BY <1>0, <1>g, <1>2, <2>1, <2>2, <3>2 DEF ControlInv
    <3> QED
      BY <3>1, <3>2
  <2>3. \A u \in Threads \ group' : pc'[u] = "app"
    BY <1>0, <1>g, <1>1, <1>2 DEF ControlInv
  <2> QED
    BY <2>2, <2>3 DEF ControlInv
<1>5. ASSUME NEW u \in group, u # t
      PROVE  /\ Arrived(u) /\ pc[u] = "spin" /\ step[u] = step[t] /\ (New(u) <=> New(t))
             /\ Released(u)' /\ ~Arrived(u)' /\ ~New(u)' /\ Passed(u)' = step[t]
             /\ Latching(u)' <=> step[t] # 1
             /\ PreAdd(u)' <=> tid[u] = 0 /\ step[t] # 1
  <2>1. Arrived(u) /\ pc[u] = "spin"
    BY <1>0, <1>g, <1>1, <1>5 DEF CounterInv
  <2>2. step[u] = step[t] /\ (New(u) <=> New(t))
    BY <1>0, <1>g, <1>3, <2>1, SameBarrier
  <2>3. my_sense[u] = flag'
    <3>1. my_sense[u] # flag /\ my_sense[u] \in 0 .. 1
      BY <1>0, <1>g, <2>1 DEF SenseInv
    <3> QED
      BY <1>4, <3>1
  <2>4. pc'[u] = "spin" /\ step'[u] = step[t] /\ tid'[u] = tid[u] /\ Released(u)'
    BY <1>g, <1>2, <1>5, <2>1, <2>2, <2>3 DEF Released
  <2>5. ~Arrived(u)' /\ ~New(u)' /\ Passed(u)' = step[t] /\ (Latching(u)' <=> step[t] # 1)
    <3>1. u \in Threads
      BY <1>g
    <3>2. ~Arrived(u)' /\ ~New(u)' /\ Passed(u)' = step'[u] /\ (Latching(u)' <=> step'[u] # 1)
      BY <1>t, <1>c, <2>4, <3>1, AfterFacts
    <3> QED
      BY <2>4, <3>2
  <2>6. PreAdd(u)' <=> tid[u] = 0 /\ step[t] # 1
    BY <2>4 DEF PreAdd
  <2> QED
    BY <2>1, <2>2, <2>4, <2>5, <2>6
<1>6. /\ Passed(t)' = step[t] /\ ~New(t)' /\ ~Arrived(t)' /\ ~Released(t)' /\ (Latching(t)' <=> step[t] # 1)
      /\ PreAdd(t)' <=> tid[t] = 0 /\ step[t] # 1
  <2>1. CASE step[t] = 1
    <3>1. step'[t] = 2 /\ pc'[t] = "arrive"
      BY <1>a, <2>1
    <3>2. Prev(step[t])' = 1
      BY <3>1 DEF Prev
    <3>3. ~Arrived(t)'
      BY <3>1 DEF Arrived
    <3> QED
      BY <1>g, <1>t, <1>c, <2>1, <3>1, <3>2, <3>3, AfterFacts
  <2>2. CASE step[t] # 1
    <3>1. step'[t] = step[t] + 1 /\ pc'[t] \in {"solo", "latch"} /\ (pc'[t] = "solo" <=> tid[t] = 0)
      BY <1>a, <2>2
    <3>2. /\ Passed(t)' = step'[t] - 1 /\ ~New(t)' /\ ~Arrived(t)' /\ ~Released(t)' /\ Latching(t)'
          /\ PreAdd(t)' <=> pc'[t] = "solo"
      BY <1>g, <1>t, <1>c, <3>1, AfterFacts
    <3> QED
      BY <1>a, <2>2, <3>1, <3>2
  <2> QED
    BY <2>1, <2>2
<1>7. ASSUME NEW u \in group
      PROVE  /\ Arrived(u) /\ pc[u] # "app" /\ (New(u) <=> step[t] = 1) /\ ~PreAdd(u) /\ ~Latching(u)
             /\ pc'[u] # "app" /\ ~New(u)' /\ ~Arrived(u)' /\ Passed(u)' = step[t] /\ tid'[u] = tid[u]
             /\ pc'[u] \notin {"reset", "release", "latch_spin"} /\ (PreAdd(u)' <=> tid[u] = 0 /\ step[t] # 1)
             /\ Latching(u)' <=> step[t] # 1
  <2>1. Arrived(u) /\ (New(u) <=> New(t)) /\ ~Arrived(u)' /\ ~New(u)' /\ Passed(u)' = step[t]
    BY <1>3, <1>5, <1>6
  <2>2. pc[u] # "app" /\ (New(t) <=> step[t] = 1) /\ ~PreAdd(u) /\ ~Latching(u)
    BY <1>0, <1>g, <1>3, <2>1, PlaceFacts
  <2>3. pc'[u] # "app" /\ tid'[u] = tid[u] /\ pc'[u] \notin {"reset", "release", "latch_spin"}
    <3>1. CASE u = t
      BY <1>a, <3>1
    <3>2. CASE u # t
      BY <1>g, <1>2, <1>5, <3>2
    <3> QED
      BY <3>1, <3>2
  <2> QED
    BY <1>5, <1>6, <2>1, <2>2, <2>3
<1>p. PassedInv' /\ RoundInv'
  <2>1. PassedInv'
    BY <1>1, <1>7 DEF PassedInv
  <2>2. \A u, v \in group : round[u] = round[v]
    BY <1>0, <1>7 DEF RoundInv
  <2> QED
    BY <1>1, <1>7, <2>1, <2>2 DEF RoundInv
<1>8. ASSUME NEW u \in group, NEW v \in group, u # v PROVE tid[u] # tid[v]
  BY <1>0, <1>7, <1>8 DEF IdInv
<1>l. LeaderInv'
  <2>1. ASSUME NEW p \in group, PreAdd(p)', NEW u \in group, u # p
        PROVE  Released(u)' \/ pc'[u] \in {"latch", "latch_spin"}
    <3>1. tid[p] = 0 /\ step[t] # 1
      BY <1>7, <2>1
    <3>2. CASE u # t
      BY <1>5, <3>2
    <3>3. CASE u = t
      BY <1>8, <1>a, <2>1, <3>1, <3>3
    <3> QED
      BY <3>2, <3>3
  <2> QED
    BY <1>1, <2>1 DEF LeaderInv
<1>9. ~ResetDone \/ \A u \in group : New(u)
  <2> SUFFICES ASSUME step[t] # 1 PROVE ~ResetDone
    BY <1>7
  <2>1. Passed(t) = Prev(step[t])
    BY <1>0, <1>g, <1>3, PlaceFacts
  <2>2. Prev(2) = 1 /\ Prev(4) = 2 /\ Prev(6) = 4 /\ LastBarrier \in {2, 4, 6}
    BY <1>0, StepFacts
  <2>3. Passed(t) < step[t]
    BY <1>a, <2>1, <2>2
  <2>4. Passed(t) # LastBarrier
    BY <1>a, <2>2, <2>3
  <2> QED
    BY <1>g, <2>4 DEF ResetDone
<1>10. \A u \in group : Owner(u)
  BY <1>7, <1>9 DEF Owner
<1>11. next_thread_id = nr_threads /\ \A i \in 0 .. (nr_threads - 1) : \E u \in group : tid[u] = i
  <2>1. {u \in group : Owner(u)} = group
    BY <1>10
  <2>2. next_thread_id = nr_threads
    BY <1>0, <2>1 DEF IdInv, nr_threads
  <2> QED
    BY <1>0, <2>2 DEF IdInv
<1>12. PICK ld \in group : tid[ld] = 0
  <2>1. nr_threads >= 1
    BY <1>g, GroupFacts DEF nr_threads
  <2> QED
    BY <1>g, <1>11, <2>1
<1>13. ~ResetDone'
  <2>1. LastBarrier' = LastBarrier /\ LastBarrier \in {2, 4, 6}
    BY <1>0, <1>1, StepFacts DEF LastBarrier
  <2>2. CASE step[t] = 1
    BY <1>g, <1>1, <1>7, <2>1, <2>2 DEF ResetDone
  <2>3. CASE step[t] # 1
    <3>1. ~New(ld)' /\ tid'[ld] = 0
      BY <1>7, <1>12
    <3>2. Released(ld)' \/ pc'[ld] = "solo"
      BY <1>5, <1>12, <1>a, <2>3
    <3> QED
      BY <1>1, <3>1, <3>2 DEF ResetDone
  <2> QED
    BY <2>2, <2>3
<1>i. IdInv'
  <2>1. \A u \in group : Owner(u)'
    BY <1>7, <1>13 DEF Owner
  <2>2. nr_threads' = nr_threads /\ {u \in group' : Owner(u)'} = group
    BY <1>1, <2>1 DEF nr_threads
  <2>3. next_thread_id' = Cardinality({u \in group' : Owner(u)'})
    BY <1>1, <1>11, <2>2 DEF nr_threads
  <2>4. \A u \in group' : Owner(u)' => tid'[u] < next_thread_id'
    BY <1>0, <1>1, <1>7, <1>10 DEF IdInv
  <2>5. \A i \in 0 .. (next_thread_id' - 1) : \E u \in group' : Owner(u)' /\ tid'[u] = i
    BY <1>1, <1>7, <1>11, <2>1
  <2>6. \A u \in group' : tid'[u] < nr_threads'
    BY <1>0, <1>1, <1>7, <2>2 DEF IdInv
  <2>7. \A u, v \in group' : u # v /\ pc'[u] # "app" /\ pc'[v] # "app" /\ (New(u)' <=> New(v)') => tid'[u] # tid'[v]
    BY <1>1, <1>7, <1>8
  <2>8. \A i \in 0 .. (nr_threads' - 1) : \E u \in group' : tid'[u] = i
    BY <1>1, <1>7, <1>11, <2>2
  <2> QED
    BY <2>3, <2>4, <2>5, <2>6, <2>7, <2>8 DEF IdInv
<1>n. CounterInv'
  <2>1. {u \in group' : Arrived(u)'} = {}
    BY <1>1, <1>7
  <2>2. counter' = 0
    BY <1>0, <1>g, <1>1 DEF CounterInv
  <2>3. counter' = Cardinality({u \in group' : Arrived(u)'})
    BY <2>1, <2>2, FS_EmptySet
  <2> QED
    BY <1>1, <1>7, <2>3 DEF CounterInv
<1>s. SenseInv'
  <2>1. nr_threads' = nr_threads /\ \A i \in 0 .. (nr_threads - 1) : i \in Ids
    BY <1>g, <1>1 DEF nr_threads, Ids
  <2>2. ASSUME NEW i \in 0 .. (nr_threads - 1) PROVE local_sense'[i] = flag'
    <3>1. \E u \in group : Arrived(u) /\ tid[u] = i
      BY <1>7, <1>11, <2>2
    <3>2. local_sense[i] # flag /\ local_sense[i] \in 0 .. 1
      BY <1>0, <2>1, <2>2, <3>1 DEF SenseInv, TypeOK
    <3> QED
      BY <1>1, <1>4, <3>2
  <2> QED
    BY <1>1, <1>7, <2>1, <2>2 DEF SenseInv
<1>w. LatchInv'
  <2>1. nr_threads' = nr_threads
    BY <1>1 DEF nr_threads
  <2>2. ASSUME NEW i \in 0 .. (nr_threads - 1) PROVE latch_sense'[i] = latch_flag'
    BY <1>0, <1>1, <1>7, <2>2 DEF LatchInv
  <2>3. step[t] # 1 => \E p \in group : PreAdd(p)'
    BY <1>7, <1>12
  <2>4. step[t] = 1 => \A u \in group : ~Latching(u)'
    BY <1>7
  <2>5. \A u \in group : pc'[u] # "latch_spin"
    BY <1>7
  <2> QED
    BY <1>1, <2>1, <2>2, <2>3, <2>4, <2>5 DEF LatchInv
<1> QED
  BY <1>t, <1>c, <1>p, <1>l, <1>i, <1>n, <1>s, <1>w DEF IndInv

\* The leader has done its work alone.
LEMMA SoloStep == ASSUME IndInv, NEW t \in Threads, Solo(t) PROVE IndInv'
<1>0. /\ TypeOK /\ ControlInv /\ PassedInv /\ RoundInv /\ LeaderInv
      /\ IdInv /\ CounterInv /\ SenseInv /\ LatchInv
  BY DEF IndInv
<1>g. /\ t \in group /\ t \in Threads /\ (\A u \in group : u \in Threads) /\ group \in Groups
      /\ pc \in [Threads -> {"app", "arrive", "reset", "release", "spin", "solo", "add", "latch", "latch_spin"}]
      /\ step \in [Threads -> 0 .. 7] /\ tid \in [Threads -> Ids] /\ my_sense \in [Threads -> 0 .. 1]
      /\ Cardinality(Threads) \in Nat /\ nr_threads \in Nat /\ nr_threads <= Cardinality(Threads)
  <2>1. t \in group /\ group \in Groups
    BY <1>0 DEF Solo, ControlInv, TypeOK
  <2> QED
    BY <1>0, <2>1, GroupFacts DEF TypeOK, nr_threads
<1>1. /\ pc[t] = "solo" /\ pc' = [pc EXCEPT ![t] = "add"]
      /\ step[t] # 3 => flush_mode' = flush_mode
      /\ flush_mode' \in Modes
      /\ next_thread_id' = IF step[t] = LastStep(flush_mode') THEN 0 ELSE next_thread_id
      /\ flag' = flag /\ local_sense' = local_sense /\ latch_flag' = latch_flag
      /\ latch_sense' = latch_sense /\ my_sense' = my_sense
      /\ group' = group /\ round' = round /\ counter' = counter /\ tid' = tid /\ step' = step
  <2>1. flush_mode \in Modes
    BY <1>0 DEF TypeOK
  <2> QED
    BY <2>1 DEF Solo
<1>2. ASSUME NEW u \in Threads, u # t
      PROVE  pc'[u] = pc[u] /\ step'[u] = step[u] /\ tid'[u] = tid[u] /\ my_sense'[u] = my_sense[u]
  BY <1>g, <1>1, <1>2
<1>t. TypeOK'
  <2>1. pc' \in [Threads -> {"app", "arrive", "reset", "release", "spin", "solo", "add", "latch", "latch_spin"}]
    BY <1>g, <1>1
  <2>2. next_thread_id' \in 0 .. Cardinality(Threads)
    BY <1>0, <1>g, <1>1 DEF TypeOK
  <2> QED
    BY <1>0, <1>1, <2>1, <2>2 DEF TypeOK
<1>3. /\ step[t] \in {3, 5, 7} /\ tid[t] = 0 /\ PreAdd(t) /\ ~New(t) /\ Passed(t) = step[t] - 1
      /\ ~Arrived(t) /\ ~Released(t)
      /\ Latching(t)
  <2>1. tid[t] = 0
    BY <1>0, <1>g, <1>1 DEF ControlInv
  <2> QED
    BY <1>0, <1>g, <1>1, <2>1, PlaceFacts
<1>4. ASSUME NEW u \in group, u # t
      PROVE  /\ Released(u) \/ pc[u] \in {"latch", "latch_spin"}
             /\ Released(u) => step[u] = step[t] - 1
             /\ pc[u] \in {"latch", "latch_spin"} => step[u] = step[t]
             /\ ~New(u) /\ ~Arrived(u) /\ pc[u] # "app" /\ tid[u] # 0 /\ step[u] <= step[t]
  <2>1. /\ Released(u) \/ pc[u] \in {"latch", "latch_spin"}
        /\ Released(u) => step[u] = Passed(t)
        /\ pc[u] \in {"latch", "latch_spin"} => step[u] = Passed(t) + 1
        /\ ~New(u) /\ ~Arrived(u) /\ pc[u] # "app"
    BY <1>0, <1>g, <1>3, <1>4, LeaderFacts
  <2>2. tid[u] # 0
    BY <1>0, <1>g, <1>1, <1>3, <1>4, <2>1 DEF IdInv
  <2> QED
    BY <1>3, <2>1, <2>2
<1>5. /\ LastStep(flush_mode') \in {3, 5, 7} /\ LastBarrier' = LastStep(flush_mode') - 1
      /\ step[t] <= LastStep(flush_mode')
  <2>1. LastStep(flush_mode') \in {3, 5, 7}
    BY <1>1 DEF Modes, LastStep
  <2>2. LastBarrier' = LastStep(flush_mode') - 1
    BY DEF LastBarrier
  <2>3. CASE step[t] = 3
    BY <2>1, <2>2, <2>3
  <2>4. CASE step[t] # 3
    <3>1. LastStep(flush_mode') = LastStep(flush_mode)
      BY <1>1, <2>4
    <3> QED
      BY <1>0, <1>g, <2>1, <2>2, <3>1 DEF ControlInv
  <2> QED
    BY <2>3, <2>4
<1>c. ControlInv'
  <2>2. ASSUME NEW u \in Threads
        PROVE  /\ pc'[u] = "app" => step'[u] = 0 /\ tid'[u] = 0
               /\ pc'[u] \in {"arrive", "spin", "reset", "release"} => step'[u] \in BarrierSteps
               /\ pc'[u] \in {"solo", "add", "latch", "latch_spin"} => step'[u] \in {3, 5, 7}
               /\ pc'[u] \in {"solo", "add"} => tid'[u] = 0
               /\ step'[u] <= LastStep(flush_mode')
    <3>1. CASE u = t
      BY <1>g, <1>1, <1>3, <1>5, <3>1
    <3>2. CASE u # t
      <4>1. step[u] <= LastStep(flush_mode')
        <5>1. CASE u \in group
          <6>1. step[u] <= step[t] /\ step[u] \in Nat
            BY <1>g, <1>4, <3>2, <5>1
          <6> QED
            BY <1>3, <1>5, <6>1
        <5>2. CASE u \notin group
          BY <1>0, <1>5, <5>2 DEF ControlInv
        <5> QED
          BY <5>1, <5>2
      <4> QED
        BY <1>0, <1>2, <2>2, <3>2, <4>1 DEF ControlInv
    <3> QED
      BY <3>1, <3>2
  <2>3. \A u \in Threads \ group' : pc'[u] = "app"
    BY <1>0, <1>g, <1>1, <1>2 DEF ControlInv
  <2> QED
    BY <2>2, <2>3 DEF ControlInv
<1>6. /\ pc'[t] = "add" /\ step'[t] = step[t] /\ tid'[t] = 0
      /\ PreAdd(t)' /\ ~New(t)' /\ Passed(t)' = step[t] - 1 /\ ~Arrived(t)' /\ ~Released(t)' /\ Latching(t)'
  <2>1. pc'[t] = "add" /\ step'[t] = step[t] /\ tid'[t] = 0
    BY <1>g, <1>1, <1>3
  <2> QED
    BY <1>g, <1>t, <1>c, <2>1, AfterFacts
<1>7. ASSUME NEW u \in group, u # t
      PROVE  /\ pc'[u] = pc[u] /\ step'[u] = step[u] /\ tid'[u] = tid[u] /\ my_sense'[u] = my_sense[u]
             /\ Arrived(u)' <=> Arrived(u)
             /\ Released(u)' <=> Released(u)
             /\ New(u)' <=> New(u)
             /\ Passed(u)' = Passed(u)
             /\ PreAdd(u)' <=> PreAdd(u)
             /\ Latching(u)' <=> Latching(u)
  <2>1. u \in Threads /\ pc'[u] = pc[u] /\ step'[u] = step[u] /\ tid'[u] = tid[u] /\ my_sense'[u] = my_sense[u]
    BY <1>g, <1>2, <1>7
  <2>2. (Arrived(u)' <=> Arrived(u)) /\ (Released(u)' <=> Released(u))
    BY <1>1, <2>1 DEF Arrived, Released
  <2>3. Passed(u)' = Passed(u)
    <3>1. CASE Released(u)
      BY <1>0, <1>t, <1>c, <2>1, <2>2, <3>1, PlaceFacts, AfterFacts
    <3>2. CASE pc[u] \in {"latch", "latch_spin"}
      BY <1>0, <1>t, <1>c, <2>1, <2>2, <3>2, PlaceFacts, AfterFacts
    <3> QED
      BY <1>4, <1>7, <3>1, <3>2
  <2> QED
    BY <2>1, <2>2, <2>3 DEF New, PreAdd, Latching
<1>p. PassedInv' /\ RoundInv'
  BY <1>0, <1>g, <1>1, <1>3, <1>6, <1>7, PassedRoundFrame
<1>l. LeaderInv'
  BY <1>0, <1>1, <1>3, <1>4, <1>6, <1>7 DEF LeaderInv
<1>8. \A u \in group : Passed(u)' = step[t] - 1 /\ ~New(u)' /\ pc'[u] # "app" /\ pc[u] # "app"
  <2>1. \A u \in group : Passed(u)' = Passed(t)'
    BY <1>1, <1>g, <1>p DEF PassedInv
  <2> QED
    BY <1>1, <1>4, <1>6, <1>7, <2>1
<1>9. ~ResetDone
  BY <1>g, <1>1, <1>3 DEF ResetDone
<1>i. IdInv'
  <2>1. CASE step[t] # LastStep(flush_mode')
    <3>1. Passed(t)' # LastBarrier'
      BY <1>3, <1>5, <1>6, <2>1
    <3>2. ~ResetDone'
      BY <1>g, <1>1, <3>1 DEF ResetDone
    <3>3. \A u \in group : Owner(u) /\ Owner(u)'
      BY <1>8, <1>9, <3>2 DEF Owner
    <3> QED
      BY <1>0, <1>1, <1>3, <1>6, <1>7, <1>8, <2>1, <3>3, IdFrame
  <2>2. CASE step[t] = LastStep(flush_mode')
    <3>1. ResetDone'
      <4>1. \A u \in group' : Passed(u)' = LastBarrier'
        BY <1>1, <1>5, <1>8, <2>2
      <4>2. \A u \in group' : ~(~New(u)' /\ tid'[u] = 0 /\ (Released(u)' \/ pc'[u] = "solo"))
        BY <1>1, <1>4, <1>6, <1>7
      <4> QED
        BY <4>1, <4>2 DEF ResetDone
    <3>2. {u \in group' : Owner(u)'} = {}
      BY <1>1, <1>8, <3>1 DEF Owner
    <3>3. next_thread_id' = 0 /\ next_thread_id' = Cardinality({u \in group' : Owner(u)'})
      BY <1>1, <2>2, <3>2, FS_EmptySet
    <3>4. nr_threads' = nr_threads /\ \A u \in group : tid'[u] = tid[u]
      BY <1>1 DEF nr_threads
    <3>5. \A u \in group' : Owner(u)' => tid'[u] < next_thread_id'
      BY <3>2
    <3>6. \A i \in 0 .. (next_thread_id' - 1) : \E u \in group' : Owner(u)' /\ tid'[u] = i
      BY <3>3
    <3>7. \A u \in group' : tid'[u] < nr_threads'
      BY <1>0, <1>1, <3>4 DEF IdInv
    <3>8. \A u, v \in group' : u # v /\ pc'[u] # "app" /\ pc'[v] # "app" /\ (New(u)' <=> New(v)') => tid'[u] # tid'[v]
      <4>1. \A u \in group : ~New(u)
        BY <1>3, <1>4
      <4>2. \A u, v \in group : u # v => tid[u] # tid[v]
        BY <1>0, <1>8, <4>1 DEF IdInv
      <4> QED
        BY <1>1, <3>4, <4>2
    <3>9. \A i \in 0 .. (nr_threads' - 1) : \E u \in group' : tid'[u] = i
      BY <1>0, <1>g, <1>1, <1>3, <3>4 DEF IdInv
    <3> QED
      BY <3>3, <3>5, <3>6, <3>7, <3>8, <3>9 DEF IdInv
  <2> QED
    BY <2>1, <2>2
<1>n. CounterInv'
  BY <1>0, <1>1, <1>3, <1>6, <1>7, CounterFrame
<1>s. SenseInv'
  BY <1>0, <1>1, <1>3, <1>6, <1>7, SenseFrame
<1>w. LatchInv'
  BY <1>0, <1>1, <1>3, <1>6, <1>7, LatchFrame
<1> QED
  BY <1>t, <1>c, <1>p, <1>l, <1>i, <1>n, <1>s, <1>w DEF IndInv

\* The leader adds to the latch.
LEMMA LatchAddStep == ASSUME IndInv, NEW t \in Threads, LatchAdd(t) PROVE IndInv'
<1>0. /\ TypeOK /\ ControlInv /\ PassedInv /\ RoundInv /\ LeaderInv
      /\ IdInv /\ CounterInv /\ SenseInv /\ LatchInv
  BY DEF IndInv
<1>g. /\ t \in group /\ t \in Threads /\ (\A u \in group : u \in Threads) /\ group \in Groups
      /\ pc \in [Threads -> {"app", "arrive", "reset", "release", "spin", "solo", "add", "latch", "latch_spin"}]
      /\ step \in [Threads -> 0 .. 7] /\ tid \in [Threads -> Ids] /\ my_sense \in [Threads -> 0 .. 1]
      /\ Cardinality(Threads) \in Nat /\ nr_threads \in Nat /\ nr_threads <= Cardinality(Threads)
  <2>1. t \in group /\ group \in Groups
    BY <1>0 DEF LatchAdd, ControlInv, TypeOK
  <2> QED
    BY <1>0, <2>1, GroupFacts DEF TypeOK, nr_threads
<1>1. /\ pc[t] = "add" /\ pc' = [pc EXCEPT ![t] = "latch"] /\ latch_flag' = 1 - latch_sense[tid[t]]
      /\ flag' = flag /\ local_sense' = local_sense /\ latch_sense' = latch_sense
      /\ flush_mode' = flush_mode /\ my_sense' = my_sense
      /\ group' = group /\ round' = round /\ counter' = counter /\ next_thread_id' = next_thread_id
      /\ tid' = tid /\ step' = step
  BY DEF LatchAdd
<1>2. ASSUME NEW u \in Threads, u # t
      PROVE  /\ pc'[u] = pc[u] /\ step'[u] = step[u] /\ tid'[u] = tid[u] /\ my_sense'[u] = my_sense[u]
             /\ Arrived(u)' <=> Arrived(u)
             /\ Released(u)' <=> Released(u)
             /\ New(u)' <=> New(u)
             /\ Passed(u)' = Passed(u)
             /\ PreAdd(u)' <=> PreAdd(u)
             /\ Latching(u)' <=> Latching(u)
  <2>1. pc'[u] = pc[u] /\ step'[u] = step[u] /\ tid'[u] = tid[u] /\ my_sense'[u] = my_sense[u]
    BY <1>g, <1>1, <1>2
  <2> QED
    BY <1>1, <1>2, <2>1, Apart
<1>3. /\ tid[t] = 0 /\ PreAdd(t) /\ ~New(t) /\ Passed(t) = step[t] - 1 /\ ~Arrived(t)
      /\ ~Released(t) /\ Latching(t)
      /\ step[t] \in {3, 5, 7}
  <2>1. tid[t] = 0
    BY <1>0, <1>g, <1>1 DEF ControlInv
  <2> QED
    BY <1>0, <1>g, <1>1, <2>1, PlaceFacts
<1>4. ASSUME NEW u \in group, u # t
      PROVE  /\ Released(u) \/ pc[u] \in {"latch", "latch_spin"}
             /\ ~New(u) /\ pc[u] # "app" /\ ~PreAdd(u)
             /\ Latching(u) <=> pc[u] # "latch_spin"
  <2>1. /\ Released(u) \/ pc[u] \in {"latch", "latch_spin"}
        /\ Released(u) => step[u] \in {2, 4, 6}
        /\ ~New(u) /\ pc[u] # "app"
    BY <1>0, <1>g, <1>3, <1>4, LeaderFacts
  <2>2. ~PreAdd(u)
    BY <1>0, <1>g, <1>1, <1>3, <1>4, <2>1 DEF IdInv, PreAdd
  <2>3. Latching(u) <=> pc[u] # "latch_spin"
    BY <2>1 DEF Latching, Released
  <2> QED
    BY <2>1, <2>2, <2>3
<1>5. \A u, v \in group : u # v => tid[u] # tid[v]
  <2>1. \A u \in group : ~New(u) /\ pc[u] # "app"
    BY <1>1, <1>3, <1>4
  <2> QED
    BY <1>0, <2>1 DEF IdInv
<1>6. latch_flag \in 0 .. 1 /\ latch_flag' = 1 - latch_flag /\ 0 \in 0 .. (nr_threads - 1) /\ latch_flag' \in 0 .. 1
  <2>1. 0 \in 0 .. (nr_threads - 1)
    BY <1>0, <1>g, <1>3 DEF IdInv
  <2>2. ~ \E u \in group : pc[u] = "latch_spin" /\ tid[u] = 0
    BY <1>g, <1>1, <1>3, <1>5
  <2>3. latch_sense[0] = latch_flag
    BY <1>0, <1>g, <1>3, <2>1, <2>2 DEF LatchInv
  <2>4. latch_flag \in 0 .. 1
    BY <1>0 DEF TypeOK
  <2> QED
    BY <1>1, <1>3, <2>1, <2>3, <2>4
<1>t. TypeOK'
  <2>1. pc' \in [Threads -> {"app", "arrive", "reset", "release", "spin", "solo", "add", "latch", "latch_spin"}]
    BY <1>g, <1>1
  <2> QED
    BY <1>0, <1>1, <1>6, <2>1 DEF TypeOK
<1>c. ControlInv'
  <2>1. LastStep(flush_mode)' = LastStep(flush_mode)
    BY <1>1
  <2>2. ASSUME NEW u \in Threads
        PROVE  /\ pc'[u] = "app" => step'[u] = 0 /\ tid'[u] = 0
               /\ pc'[u] \in {"arrive", "spin", "reset", "release"} => step'[u] \in BarrierSteps
               /\ pc'[u] \in {"solo", "add", "latch", "latch_spin"} => step'[u] \in {3, 5, 7}
               /\ pc'[u] \in {"solo", "add"} => tid'[u] = 0
               /\ step'[u] <= LastStep(flush_mode)'
    <3>1. CASE u = t
      BY <1>0, <1>g, <1>1, <2>1, <3>1 DEF ControlInv
    <3>2. CASE u # t
      BY <1>0, <1>g, <1>2, <2>1, <2>2, <3>2 DEF ControlInv
    <3> QED
      BY <3>1, <3>2
  <2>3. \A u \in Threads \ group' : pc'[u] = "app"
    BY <1>0, <1>g, <1>1, <1>2 DEF ControlInv
  <2> QED
    BY <2>2, <2>3 DEF ControlInv
<1>7. /\ pc'[t] = "latch" /\ ~PreAdd(t)' /\ ~New(t)' /\ Passed(t)' = Passed(t) /\ ~Arrived(t)'
      /\ ~Released(t)' /\ Latching(t)'
      /\ tid'[t] = tid[t]
  <2>1. pc'[t] = "latch" /\ step'[t] = step[t] /\ tid'[t] = tid[t]
    BY <1>g, <1>1
  <2> QED
    BY <1>g, <1>t, <1>c, <1>3, <2>1, AfterFacts
<1>8. \A p \in group : ~PreAdd(p)'
  BY <1>g, <1>2, <1>4, <1>7
<1>p. PassedInv' /\ RoundInv'
  BY <1>0, <1>g, <1>1, <1>2, <1>3, <1>7, PassedRoundFrame
<1>l. LeaderInv'
  BY <1>1, <1>8 DEF LeaderInv
<1>i. IdInv'
  <2>1. \A u \in group : Owner(u)' <=> Owner(u)
    BY <1>g, <1>1, <1>2, <1>3, <1>7, OwnerFrame
  <2> QED
    BY <1>0, <1>g, <1>1, <1>2, <1>3, <1>7, <2>1, IdFrame
<1>n. CounterInv'
  BY <1>0, <1>g, <1>1, <1>2, <1>3, <1>7, CounterFrame
<1>s. SenseInv'
  BY <1>0, <1>g, <1>1, <1>2, <1>3, <1>7, SenseFrame
<1>w. LatchInv'
  <2>1. nr_threads' = nr_threads
    BY <1>1 DEF nr_threads
  <2>2. \A u \in group' : pc'[u] = "latch_spin" => my_sense'[u] = latch_sense'[tid'[u]]
    BY <1>0, <1>g, <1>1, <1>2, <1>7 DEF LatchInv
  <2>3. ASSUME NEW i \in 0 .. (nr_threads - 1)
        PROVE  latch_sense'[i] # latch_flag' <=> \E u \in group' : Latching(u)' /\ tid'[u] = i
    <3>1. PICK w \in group : tid[w] = i
      BY <1>0, <1>g, <1>3, <2>3 DEF IdInv
    <3>2. latch_sense[i] # latch_flag <=> pc[w] = "latch_spin"
      BY <1>0, <1>g, <1>3, <1>5, <2>3, <3>1 DEF LatchInv
    <3>3. (\E u \in group' : Latching(u)' /\ tid'[u] = i) <=> pc[w] # "latch_spin"
      <4>1. \A u \in group : tid'[u] = i <=> u = w
        BY <1>1, <1>5, <3>1
      <4>2. Latching(w)' <=> pc[w] # "latch_spin"
        BY <1>g, <1>1, <1>2, <1>4, <1>7
      <4> QED
        BY <1>1, <4>1, <4>2
    <3>4. latch_sense'[i] # latch_flag' <=> latch_sense[i] = latch_flag
      <4>1. i \in Ids
        BY <1>g, <2>3 DEF Ids
      <4>2. latch_sense[i] \in 0 .. 1
        BY <1>0, <4>1 DEF TypeOK
      <4> QED
        BY <1>1, <1>6, <4>2
    <3> QED
      BY <3>2, <3>3, <3>4
  <2> QED
    BY <1>1, <1>8, <2>1, <2>2, <2>3 DEF LatchInv
<1> QED
  BY <1>t, <1>c, <1>p, <1>l, <1>i, <1>n, <1>s, <1>w DEF IndInv

\* A thread reverses its sense of the latch.
LEMMA LatchWaitStep == ASSUME IndInv, NEW t \in Threads, LatchWait(t) PROVE IndInv'
<1>0. /\ TypeOK /\ ControlInv /\ PassedInv /\ RoundInv /\ LeaderInv
      /\ IdInv /\ CounterInv /\ SenseInv /\ LatchInv
  BY DEF IndInv
<1>g. /\ t \in group /\ t \in Threads /\ (\A u \in group : u \in Threads) /\ group \in Groups
      /\ pc \in [Threads -> {"app", "arrive", "reset", "release", "spin", "solo", "add", "latch", "latch_spin"}]
      /\ step \in [Threads -> 0 .. 7] /\ tid \in [Threads -> Ids] /\ my_sense \in [Threads -> 0 .. 1]
      /\ Cardinality(Threads) \in Nat /\ nr_threads \in Nat /\ nr_threads <= Cardinality(Threads)
  <2>1. t \in group /\ group \in Groups
    BY <1>0 DEF LatchWait, ControlInv, TypeOK
  <2> QED
    BY <1>0, <2>1, GroupFacts DEF TypeOK, nr_threads
<1>1. /\ pc[t] = "latch" /\ pc' = [pc EXCEPT ![t] = "latch_spin"]
      /\ latch_sense' = [latch_sense EXCEPT ![tid[t]] = 1 - latch_sense[tid[t]]]
      /\ my_sense' = [my_sense EXCEPT ![t] = latch_sense'[tid[t]]]
      /\ flag' = flag /\ local_sense' = local_sense /\ latch_flag' = latch_flag /\ flush_mode' = flush_mode
      /\ group' = group /\ round' = round /\ counter' = counter /\ next_thread_id' = next_thread_id
      /\ tid' = tid /\ step' = step
  BY DEF LatchWait
<1>2. ASSUME NEW u \in Threads, u # t
      PROVE  /\ pc'[u] = pc[u] /\ step'[u] = step[u] /\ tid'[u] = tid[u] /\ my_sense'[u] = my_sense[u]
             /\ Arrived(u)' <=> Arrived(u)
             /\ Released(u)' <=> Released(u)
             /\ New(u)' <=> New(u)
             /\ Passed(u)' = Passed(u)
             /\ PreAdd(u)' <=> PreAdd(u)
             /\ Latching(u)' <=> Latching(u)
  <2>1. pc'[u] = pc[u] /\ step'[u] = step[u] /\ tid'[u] = tid[u] /\ my_sense'[u] = my_sense[u]
    BY <1>g, <1>1, <1>2
  <2> QED
    BY <1>1, <1>2, <2>1, Apart
<1>3. /\ ~PreAdd(t) /\ ~New(t) /\ Passed(t) = step[t] - 1 /\ ~Arrived(t) /\ ~Released(t) /\ Latching(t)
  BY <1>0, <1>g, <1>1, PlaceFacts
<1>4. tid[t] \in 0 .. (nr_threads - 1) /\ tid[t] \in Ids
  BY <1>0, <1>g DEF IdInv, Ids
<1>5. /\ latch_sense' \in [Ids -> 0 .. 1] /\ my_sense' \in [Threads -> 0 .. 1]
      /\ my_sense'[t] = latch_sense'[tid[t]]
      /\ latch_sense[tid[t]] \in 0 .. 1 /\ latch_sense'[tid[t]] = 1 - latch_sense[tid[t]]
      /\ \A i \in Ids : i # tid[t] => latch_sense'[i] = latch_sense[i]
  <2>1. latch_sense \in [Ids -> 0 .. 1] /\ latch_sense[tid[t]] \in 0 .. 1
    BY <1>0, <1>4 DEF TypeOK
  <2>2. 1 - latch_sense[tid[t]] \in 0 .. 1
    BY <2>1
  <2>3. latch_sense' \in [Ids -> 0 .. 1] /\ latch_sense'[tid[t]] = 1 - latch_sense[tid[t]]
    BY <1>1, <1>4, <2>1, <2>2
  <2>4. my_sense' \in [Threads -> 0 .. 1] /\ my_sense'[t] = latch_sense'[tid[t]]
    BY <1>g, <1>1, <2>2, <2>3
  <2>5. \A i \in Ids : i # tid[t] => latch_sense'[i] = latch_sense[i]
    BY <1>1, <1>4, <2>1
  <2> QED
    BY <2>1, <2>3, <2>4, <2>5
<1>t. TypeOK'
  <2>1. pc' \in [Threads -> {"app", "arrive", "reset", "release", "spin", "solo", "add", "latch", "latch_spin"}]
    BY <1>g, <1>1
  <2> QED
    BY <1>0, <1>1, <1>5, <2>1 DEF TypeOK
<1>c. ControlInv'
  <2>1. LastStep(flush_mode)' = LastStep(flush_mode)
    BY <1>1
  <2>2. ASSUME NEW u \in Threads
        PROVE  /\ pc'[u] = "app" => step'[u] = 0 /\ tid'[u] = 0
               /\ pc'[u] \in {"arrive", "spin", "reset", "release"} => step'[u] \in BarrierSteps
               /\ pc'[u] \in {"solo", "add", "latch", "latch_spin"} => step'[u] \in {3, 5, 7}
               /\ pc'[u] \in {"solo", "add"} => tid'[u] = 0
               /\ step'[u] <= LastStep(flush_mode)'
    <3>1. CASE u = t
      BY <1>0, <1>g, <1>1, <2>1, <3>1 DEF ControlInv
    <3>2. CASE u # t
      BY <1>0, <1>g, <1>2, <2>1, <2>2, <3>2 DEF ControlInv
    <3> QED
      BY <3>1, <3>2
  <2>3. \A u \in Threads \ group' : pc'[u] = "app"
    BY <1>0, <1>g, <1>1, <1>2 DEF ControlInv
  <2> QED
    BY <2>2, <2>3 DEF ControlInv
<1>7. /\ pc'[t] = "latch_spin" /\ ~PreAdd(t)' /\ ~New(t)' /\ Passed(t)' = Passed(t) /\ ~Arrived(t)'
      /\ ~Released(t)' /\ ~Latching(t)'
      /\ tid'[t] = tid[t]
  <2>1. pc'[t] = "latch_spin" /\ step'[t] = step[t] /\ tid'[t] = tid[t]
    BY <1>g, <1>1
  <2> QED
    BY <1>g, <1>t, <1>c, <1>3, <2>1, AfterFacts
<1>p. PassedInv' /\ RoundInv'
  BY <1>0, <1>g, <1>1, <1>2, <1>3, <1>7, PassedRoundFrame
<1>l. LeaderInv'
  BY <1>0, <1>g, <1>1, <1>2, <1>3, <1>7 DEF LeaderInv
<1>i. IdInv'
  <2>1. \A u \in group : Owner(u)' <=> Owner(u)
    BY <1>g, <1>1, <1>2, <1>3, <1>7, OwnerFrame
  <2> QED
    BY <1>0, <1>g, <1>1, <1>2, <1>3, <1>7, <2>1, IdFrame
<1>n. CounterInv'
  BY <1>0, <1>g, <1>1, <1>2, <1>3, <1>7, CounterFrame
<1>s. SenseInv'
  BY <1>0, <1>g, <1>1, <1>2, <1>3, <1>7, SenseFrame
<1>w. LatchInv'
  <2>1. nr_threads' = nr_threads
    BY <1>1 DEF nr_threads
  <2>2. ASSUME NEW u \in group, u # t, Latching(u) \/ pc[u] = "latch_spin" PROVE tid[u] # tid[t]
    <3>1. ~New(u) /\ pc[u] # "app"
      BY <1>0, <1>g, <2>2, PlaceFacts
    <3> QED
      BY <1>0, <1>g, <1>1, <1>3, <2>2, <3>1 DEF IdInv
  <2>3. ASSUME NEW u \in group', pc'[u] = "latch_spin" PROVE my_sense'[u] = latch_sense'[tid'[u]]
    <3>1. CASE u = t
      BY <1>5, <1>7, <3>1
    <3>2. CASE u # t
      <4>1. u \in group /\ pc[u] = "latch_spin" /\ tid'[u] = tid[u] /\ my_sense'[u] = my_sense[u]
        BY <1>g, <1>1, <1>2, <2>3, <3>2
      <4>2. my_sense[u] = latch_sense[tid[u]] /\ tid[u] # tid[t] /\ tid[u] \in Ids
        BY <1>0, <1>g, <2>2, <3>2, <4>1 DEF LatchInv
      <4> QED
        BY <1>5, <4>1, <4>2
    <3> QED
      BY <3>1, <3>2
  <2>4. ASSUME NEW i \in 0 .. (nr_threads - 1)
        PROVE  /\ (\E p \in group' : PreAdd(p)') =>
                    (latch_sense'[i] # latch_flag' <=> \E u \in group' : pc'[u] = "latch_spin" /\ tid'[u] = i)
               /\ (\A p \in group' : ~PreAdd(p)') =>
                    (latch_sense'[i] # latch_flag' <=> \E u \in group' : Latching(u)' /\ tid'[u] = i)
    <3>0. (\E p \in group' : PreAdd(p)') <=> (\E p \in group : PreAdd(p))
      BY <1>g, <1>1, <1>2, <1>3, <1>7
    <3>1. /\ (\E p \in group : PreAdd(p)) =>
               (latch_sense[i] # latch_flag <=> \E u \in group : pc[u] = "latch_spin" /\ tid[u] = i)
          /\ (\A p \in group : ~PreAdd(p)) =>
               (latch_sense[i] # latch_flag <=> \E u \in group : Latching(u) /\ tid[u] = i)
      BY <1>0, <2>4 DEF LatchInv
    <3>2. CASE i # tid[t]
      <4>1. latch_sense'[i] = latch_sense[i]
        <5>1. i \in Ids
          BY <1>g, <2>4 DEF Ids
        <5> QED
          BY <1>5, <3>2, <5>1
      <4>2. (\E u \in group' : pc'[u] = "latch_spin" /\ tid'[u] = i) <=> (\E u \in group : pc[u] = "latch_spin" /\ tid[u] = i)
        BY <1>g, <1>1, <1>2, <1>7, <3>2
      <4>3. (\E u \in group' : Latching(u)' /\ tid'[u] = i) <=> (\E u \in group : Latching(u) /\ tid[u] = i)
        BY <1>g, <1>1, <1>2, <1>7, <3>2
      <4> QED
        BY <1>1, <3>0, <3>1, <4>1, <4>2, <4>3
    <3>3. CASE i = tid[t]
      <4>1. latch_sense'[i] # latch_flag' <=> latch_sense[i] = latch_flag
        <5>1. latch_flag \in 0 .. 1
          BY <1>0 DEF TypeOK
        <5> QED
          BY <1>1, <1>5, <3>3, <5>1
      <4>2. ~ \E u \in group : pc[u] = "latch_spin" /\ tid[u] = i
        BY <1>1, <2>2, <3>3
      <4>3. \E u \in group : Latching(u) /\ tid[u] = i
        BY <1>g, <1>3, <3>3
      <4>4. \E u \in group' : pc'[u] = "latch_spin" /\ tid'[u] = i
        BY <1>g, <1>1, <1>7, <3>3
      <4>5. ~ \E u \in group' : Latching(u)' /\ tid'[u] = i
        BY <1>g, <1>1, <1>2, <1>7, <2>2, <3>3
      <4> QED
        BY <3>0, <3>1, <4>1, <4>2, <4>3, <4>4, <4>5
    <3> QED
      BY <3>2, <3>3
  <2> QED
    BY <1>1, <2>1, <2>3, <2>4 DEF LatchInv
<1> QED
  BY <1>t, <1>c, <1>p, <1>l, <1>i, <1>n, <1>s, <1>w DEF IndInv

\* A thread passes the latch and goes on to the next barrier.
LEMMA LatchSpinOnStep ==
  ASSUME IndInv, NEW t \in Threads, LatchSpin(t), step[t] < LastStep(flush_mode) PROVE IndInv'
<1>0. /\ TypeOK /\ ControlInv /\ PassedInv /\ RoundInv /\ LeaderInv
      /\ IdInv /\ CounterInv /\ SenseInv /\ LatchInv
  BY DEF IndInv
<1>g. /\ t \in group /\ t \in Threads /\ (\A u \in group : u \in Threads) /\ group \in Groups
      /\ pc \in [Threads -> {"app", "arrive", "reset", "release", "spin", "solo", "add", "latch", "latch_spin"}]
      /\ step \in [Threads -> 0 .. 7] /\ tid \in [Threads -> Ids] /\ my_sense \in [Threads -> 0 .. 1]
      /\ Cardinality(Threads) \in Nat /\ nr_threads \in Nat /\ nr_threads <= Cardinality(Threads)
  <2>1. t \in group /\ group \in Groups
    BY <1>0 DEF LatchSpin, ControlInv, TypeOK
  <2> QED
    BY <1>0, <2>1, GroupFacts DEF TypeOK, nr_threads
<1>1. /\ pc[t] = "latch_spin" /\ latch_flag = Awaited(t, latch_sense)
      /\ step' = [step EXCEPT ![t] = step[t] + 1]
      /\ pc' = [pc EXCEPT ![t] = IF step[t] + 1 \in BarrierSteps THEN "arrive" ELSE IF tid[t] = 0 THEN "solo" ELSE "latch"]
      /\ flag' = flag /\ local_sense' = local_sense /\ latch_flag' = latch_flag
      /\ latch_sense' = latch_sense /\ flush_mode' = flush_mode /\ my_sense' = my_sense
      /\ group' = group /\ round' = round /\ counter' = counter /\ next_thread_id' = next_thread_id
      /\ tid' = tid
  <2>1. ~(step[t] >= LastStep(flush_mode))
    BY <1>0, <1>g, StepFacts
  <2> QED
    BY <2>1 DEF LatchSpin, Advance
<1>2. ASSUME NEW u \in Threads, u # t
      PROVE  /\ pc'[u] = pc[u] /\ step'[u] = step[u] /\ tid'[u] = tid[u] /\ my_sense'[u] = my_sense[u]
             /\ Arrived(u)' <=> Arrived(u)
             /\ Released(u)' <=> Released(u)
             /\ New(u)' <=> New(u)
             /\ Passed(u)' = Passed(u)
             /\ PreAdd(u)' <=> PreAdd(u)
             /\ Latching(u)' <=> Latching(u)
  <2>1. pc'[u] = pc[u] /\ step'[u] = step[u] /\ tid'[u] = tid[u] /\ my_sense'[u] = my_sense[u]
    BY <1>g, <1>1, <1>2
  <2> QED
    BY <1>1, <1>2, <2>1, Apart
<1>3. /\ ~PreAdd(t) /\ ~New(t) /\ Passed(t) = step[t] - 1 /\ ~Arrived(t) /\ ~Released(t) /\ ~Latching(t)
      /\ step[t] \in {3, 5, 7} /\ step[t] <= LastStep(flush_mode)
      /\ LastStep(flush_mode) \in {3, 5, 7} /\ LastBarrier \in {2, 4, 6}
      /\ LastStep(flush_mode) = LastBarrier + 1
  BY <1>0, <1>g, <1>1, PlaceFacts, StepFacts DEF ControlInv
<1>4. \A p \in group : ~PreAdd(p)
  <2>1. tid[t] \in 0 .. (nr_threads - 1)
    BY <1>0, <1>g DEF IdInv, Ids
  <2>2. my_sense[t] = latch_sense[tid[t]]
    BY <1>0, <1>g, <1>1 DEF LatchInv
  <2>3. latch_flag = latch_sense[tid[t]]
    BY <1>1, <2>2 DEF Awaited
  <2> QED
    BY <1>0, <1>g, <1>1, <2>1, <2>3 DEF LatchInv
<1>a. /\ step'[t] = step[t] + 1 /\ pc'[t] = "arrive" /\ step'[t] \in {4, 6} /\ tid'[t] = tid[t]
      /\ step'[t] <= LastStep(flush_mode)
  <2>1. step[t] + 1 \in {4, 6} /\ step[t] + 1 <= LastStep(flush_mode)
    BY <1>3
  <2> QED
    BY <1>g, <1>1, <2>1 DEF BarrierSteps
<1>t. TypeOK'
  <2>1. pc' \in [Threads -> {"app", "arrive", "reset", "release", "spin", "solo", "add", "latch", "latch_spin"}]
    BY <1>g, <1>1
  <2>2. step' \in [Threads -> 0 .. 7]
    <3>1. step[t] + 1 \in 0 .. 7
      BY <1>3
    <3> QED
      BY <1>g, <1>1, <3>1
  <2> QED
    BY <1>0, <1>1, <2>1, <2>2 DEF TypeOK
<1>c. ControlInv'
  <2>1. LastStep(flush_mode)' = LastStep(flush_mode)
    BY <1>1
  <2>2. ASSUME NEW u \in Threads
        PROVE  /\ pc'[u] = "app" => step'[u] = 0 /\ tid'[u] = 0
               /\ pc'[u] \in {"arrive", "spin", "reset", "release"} => step'[u] \in BarrierSteps
               /\ pc'[u] \in {"solo", "add", "latch", "latch_spin"} => step'[u] \in {3, 5, 7}
               /\ pc'[u] \in {"solo", "add"} => tid'[u] = 0
               /\ step'[u] <= LastStep(flush_mode)'
    <3>1. CASE u = t
      BY <1>g, <1>1, <1>a, <2>1, <3>1 DEF BarrierSteps
    <3>2. CASE u # t
      BY <1>0, <1>g, <1>2, <2>1, <2>2, <3>2 DEF ControlInv
    <3> QED
      BY <3>1, <3>2
  <2>3. \A u \in Threads \ group' : pc'[u] = "app"
    BY <1>0, <1>g, <1>1, <1>2 DEF ControlInv
  <2> QED
    BY <2>2, <2>3 DEF ControlInv
<1>7. /\ pc'[t] = "arrive" /\ ~PreAdd(t)' /\ ~New(t)' /\ Passed(t)' = Passed(t) /\ ~Arrived(t)'
      /\ ~Released(t)' /\ ~Latching(t)'
      /\ tid'[t] = tid[t]
  <2>1. ~Arrived(t)'
    BY <1>a DEF Arrived
  <2>2. Prev(step[t])' = step[t] - 1
    <3>1. CASE step'[t] = 4
      <4>1. Prev(step[t])' = 2
        BY <3>1 DEF Prev
      <4> QED
        BY <1>3, <1>a, <3>1, <4>1
    <3>2. CASE step'[t] = 6
      <4>1. Prev(step[t])' = 4
        BY <3>2 DEF Prev
      <4> QED
        BY <1>3, <1>a, <3>2, <4>1
    <3> QED
      BY <1>a, <3>1, <3>2
  <2>3. Passed(t)' = Prev(step[t])' /\ ~PreAdd(t)' /\ (New(t)' <=> step'[t] = 1) /\ ~Released(t)' /\ ~Latching(t)'
    BY <1>g, <1>t, <1>c, <1>a, AfterFacts
  <2> QED
    BY <1>3, <1>a, <2>1, <2>2, <2>3
<1>8. \A p \in group : ~PreAdd(p)'
  BY <1>g, <1>2, <1>4, <1>7
<1>p. PassedInv' /\ RoundInv'
  BY <1>0, <1>g, <1>1, <1>2, <1>3, <1>7, PassedRoundFrame
<1>l. LeaderInv'
  BY <1>1, <1>8 DEF LeaderInv
<1>i. IdInv'
  <2>1. \A u \in group : Owner(u)' <=> Owner(u)
    BY <1>g, <1>1, <1>2, <1>3, <1>7, OwnerFrame
  <2> QED
    BY <1>0, <1>g, <1>1, <1>2, <1>3, <1>7, <2>1, IdFrame
<1>n. CounterInv'
  BY <1>0, <1>g, <1>1, <1>2, <1>3, <1>7, CounterFrame
<1>s. SenseInv'
  BY <1>0, <1>g, <1>1, <1>2, <1>3, <1>7, SenseFrame
<1>w. LatchInv'
  <2>1. nr_threads' = nr_threads
    BY <1>1 DEF nr_threads
  <2>2. \A u \in group' : pc'[u] = "latch_spin" => my_sense'[u] = latch_sense'[tid'[u]]
    BY <1>0, <1>g, <1>1, <1>2, <1>7 DEF LatchInv
  <2>3. ASSUME NEW i \in 0 .. (nr_threads - 1)
        PROVE  latch_sense'[i] # latch_flag' <=> \E u \in group' : Latching(u)' /\ tid'[u] = i
    <3>1. latch_sense[i] # latch_flag <=> \E u \in group : Latching(u) /\ tid[u] = i
      BY <1>0, <1>4, <2>3 DEF LatchInv
    <3> QED
      BY <1>g, <1>1, <1>2, <1>3, <1>7, <3>1
  <2> QED
    BY <1>1, <1>8, <2>1, <2>2, <2>3 DEF LatchInv
<1> QED
  BY <1>t, <1>c, <1>p, <1>l, <1>i, <1>n, <1>s, <1>w DEF IndInv

\* A thread passes the last latch and returns.
LEMMA LatchSpinReturnStep ==
  ASSUME IndInv, NEW t \in Threads, LatchSpin(t), step[t] >= LastStep(flush_mode) PROVE IndInv'
<1>0. /\ TypeOK /\ ControlInv /\ PassedInv /\ RoundInv /\ LeaderInv
      /\ IdInv /\ CounterInv /\ SenseInv /\ LatchInv
  BY DEF IndInv
<1>g. /\ t \in group /\ t \in Threads /\ (\A u \in group : u \in Threads) /\ group \in Groups
      /\ pc \in [Threads -> {"app", "arrive", "reset", "release", "spin", "solo", "add", "latch", "latch_spin"}]
      /\ step \in [Threads -> 0 .. 7] /\ tid \in [Threads -> Ids] /\ my_sense \in [Threads -> 0 .. 1]
      /\ Cardinality(Threads) \in Nat /\ nr_threads \in Nat /\ nr_threads <= Cardinality(Threads)
  <2>1. t \in group /\ group \in Groups
    BY <1>0 DEF LatchSpin, ControlInv, TypeOK
  <2> QED
    BY <1>0, <2>1, GroupFacts DEF TypeOK, nr_threads
<1>1. /\ pc[t] = "latch_spin" /\ latch_flag = Awaited(t, latch_sense)
      /\ pc' = [pc EXCEPT ![t] = "app"] /\ step' = [step EXCEPT ![t] = 0] /\ tid' = [tid EXCEPT ![t] = 0]
      /\ round' = [round EXCEPT ![t] = (round[t] + 1) % 3]
      /\ flag' = flag /\ local_sense' = local_sense /\ latch_flag' = latch_flag
      /\ latch_sense' = latch_sense /\ flush_mode' = flush_mode /\ my_sense' = my_sense
      /\ group' = group /\ counter' = counter /\ next_thread_id' = next_thread_id
  <2>1. ~(step[t] < LastStep(flush_mode))
    BY <1>0, <1>g, StepFacts
  <2> QED
    BY <2>1 DEF LatchSpin
<1>2. ASSUME NEW u \in Threads, u # t
      PROVE  /\ pc'[u] = pc[u] /\ step'[u] = step[u] /\ tid'[u] = tid[u] /\ my_sense'[u] = my_sense[u]
             /\ Arrived(u)' <=> Arrived(u)
             /\ Released(u)' <=> Released(u)
             /\ New(u)' <=> New(u)
             /\ Passed(u)' = Passed(u)
             /\ PreAdd(u)' <=> PreAdd(u)
             /\ Latching(u)' <=> Latching(u)
  <2>1. pc'[u] = pc[u] /\ step'[u] = step[u] /\ tid'[u] = tid[u] /\ my_sense'[u] = my_sense[u]
    BY <1>g, <1>1, <1>2
  <2> QED
    BY <1>1, <1>2, <2>1, Apart
<1>3. /\ ~PreAdd(t) /\ ~New(t) /\ Passed(t) = step[t] - 1 /\ ~Arrived(t) /\ ~Released(t) /\ ~Latching(t)
      /\ step[t] \in {3, 5, 7} /\ step[t] <= LastStep(flush_mode)
      /\ LastStep(flush_mode) \in {3, 5, 7} /\ LastBarrier \in {2, 4, 6}
      /\ LastStep(flush_mode) = LastBarrier + 1
  BY <1>0, <1>g, <1>1, PlaceFacts, StepFacts DEF ControlInv
<1>4. \A p \in group : ~PreAdd(p)
  <2>1. tid[t] \in 0 .. (nr_threads - 1)
    BY <1>0, <1>g DEF IdInv, Ids
  <2>2. my_sense[t] = latch_sense[tid[t]]
    BY <1>0, <1>g, <1>1 DEF LatchInv
  <2>3. latch_flag = latch_sense[tid[t]]
    BY <1>1, <2>2 DEF Awaited
  <2> QED
    BY <1>0, <1>g, <1>1, <2>1, <2>3 DEF LatchInv
<1>5. Passed(t) = LastBarrier
  BY <1>3
<1>6. 0 \in Ids /\ 0 < nr_threads
  <2>1. nr_threads >= 1
    BY <1>g, GroupFacts DEF nr_threads
  <2> QED
    BY <1>g, <2>1 DEF Ids
<1>t. TypeOK'
  <2>1. pc' \in [Threads -> {"app", "arrive", "reset", "release", "spin", "solo", "add", "latch", "latch_spin"}]
    BY <1>g, <1>1
  <2>2. step' \in [Threads -> 0 .. 7]
    BY <1>g, <1>1
  <2>3. tid' \in [Threads -> Ids]
    BY <1>g, <1>1, <1>6
  <2>4. round' \in [Threads -> 0 .. 2]
    <3>1. round \in [Threads -> 0 .. 2] /\ round[t] \in 0 .. 2
      BY <1>0 DEF TypeOK
    <3>2. (round[t] + 1) % 3 \in 0 .. 2
      BY <3>1
    <3> QED
      BY <1>g, <1>1, <3>1, <3>2
  <2> QED
    BY <1>0, <1>1, <2>1, <2>2, <2>3, <2>4 DEF TypeOK
<1>a. pc'[t] = "app" /\ step'[t] = 0 /\ tid'[t] = 0 /\ 0 <= LastStep(flush_mode)
  BY <1>g, <1>1, <1>3
<1>c. ControlInv'
  <2>1. LastStep(flush_mode)' = LastStep(flush_mode)
    BY <1>1
  <2>2. ASSUME NEW u \in Threads
        PROVE  /\ pc'[u] = "app" => step'[u] = 0 /\ tid'[u] = 0
               /\ pc'[u] \in {"arrive", "spin", "reset", "release"} => step'[u] \in BarrierSteps
               /\ pc'[u] \in {"solo", "add", "latch", "latch_spin"} => step'[u] \in {3, 5, 7}
               /\ pc'[u] \in {"solo", "add"} => tid'[u] = 0
               /\ step'[u] <= LastStep(flush_mode)'
    <3>1. CASE u = t
      BY <1>g, <1>1, <1>a, <2>1, <3>1 DEF BarrierSteps
    <3>2. CASE u # t
      BY <1>0, <1>g, <1>2, <2>1, <2>2, <3>2 DEF ControlInv
    <3> QED
      BY <3>1, <3>2
  <2>3. \A u \in Threads \ group' : pc'[u] = "app"
    BY <1>0, <1>g, <1>1, <1>2 DEF ControlInv
  <2> QED
    BY <2>2, <2>3 DEF ControlInv
<1>7. /\ pc'[t] = "app" /\ ~PreAdd(t)' /\ New(t)' /\ Passed(t)' = LastBarrier /\ ~Arrived(t)'
      /\ ~Released(t)' /\ ~Latching(t)'
      /\ tid'[t] = 0 /\ LastBarrier' = LastBarrier
  <2>1. LastBarrier' = LastBarrier
    BY <1>1 DEF LastBarrier
  <2> QED
    BY <1>g, <1>t, <1>c, <1>a, <2>1, AfterFacts
<1>8. \A p \in group : ~PreAdd(p)'
  BY <1>g, <1>2, <1>4, <1>7
<1>p. PassedInv' /\ RoundInv'
  <2>1. PassedInv'
    BY <1>0, <1>g, <1>1, <1>2, <1>5, <1>7 DEF PassedInv
  <2>2. \A u \in Threads : u # t => round'[u] = round[u]
    BY <1>0, <1>g, <1>1 DEF TypeOK
  <2>3. round'[t] = (round[t] + 1) % 3
    BY <1>0, <1>g, <1>1 DEF TypeOK
  <2>4. ASSUME NEW u \in group, NEW v \in group
        PROVE  /\ (New(u)' <=> New(v)') => round'[u] = round'[v]
               /\ New(u)' /\ ~New(v)' => round'[u] = (round'[v] + 1) % 3
    <3>1. CASE u # t /\ v # t
      BY <1>0, <1>g, <1>2, <2>2, <3>1 DEF RoundInv
    <3>2. CASE u = t /\ v # t
      BY <1>0, <1>g, <1>2, <1>3, <1>7, <2>2, <2>3, <3>2 DEF RoundInv
    <3>3. CASE u # t /\ v = t
      BY <1>0, <1>g, <1>2, <1>3, <1>7, <2>2, <2>3, <3>3 DEF RoundInv
    <3>4. CASE u = t /\ v = t
      BY <3>4
    <3> QED
      BY <3>1, <3>2, <3>3, <3>4
  <2> QED
    BY <1>1, <2>1, <2>4 DEF RoundInv
<1>l. LeaderInv'
  BY <1>1, <1>8 DEF LeaderInv
<1>9. ResetDone /\ ResetDone'
  <2>1. \A u \in group : Passed(u) = LastBarrier /\ Passed(u)' = LastBarrier'
    BY <1>0, <1>g, <1>2, <1>5, <1>7 DEF PassedInv
  <2>2. ASSUME NEW u \in group, tid[u] = 0, Released(u) \/ pc[u] = "solo" PROVE FALSE
    <3>1. Released(u) => step[u] # 1
      <4>1. Released(u) => Passed(u) = step[u]
        BY <1>0, <1>g, PlaceFacts
      <4> QED
        BY <1>3, <2>1, <4>1
    <3>2. PreAdd(u)
      BY <2>2, <3>1 DEF PreAdd
    <3> QED
      BY <1>4, <3>2
  <2>3. \A u \in group : ~(tid'[u] = 0 /\ (Released(u)' \/ pc'[u] = "solo"))
    BY <1>g, <1>2, <1>7, <2>2
  <2> QED
    BY <1>1, <2>1, <2>2, <2>3 DEF ResetDone
<1>i. IdInv'
  <2>0. ~Owner(t) /\ ~Owner(t)'
    BY <1>3, <1>7, <1>9 DEF Owner
  <2>1. \A u \in group : Owner(u)' <=> Owner(u)
    BY <1>g, <1>1, <1>2, <1>9, <2>0 DEF Owner
  <2>2. nr_threads' = nr_threads /\ {u \in group' : Owner(u)'} = {u \in group : Owner(u)}
    BY <1>1, <2>1 DEF nr_threads
  <2>3. next_thread_id' = Cardinality({u \in group' : Owner(u)'})
    BY <1>0, <1>1, <2>2 DEF IdInv
  <2>4. \A u \in group' : Owner(u)' => tid'[u] < next_thread_id'
    BY <1>0, <1>g, <1>1, <1>2, <2>0, <2>1 DEF IdInv
  <2>5. \A i \in 0 .. (next_thread_id' - 1) : \E u \in group' : Owner(u)' /\ tid'[u] = i
    BY <1>0, <1>g, <1>1, <1>2, <2>0, <2>1 DEF IdInv
  <2>6. \A u \in group' : tid'[u] < nr_threads'
    BY <1>0, <1>g, <1>1, <1>2, <1>6, <1>7, <2>2 DEF IdInv
  <2>7. \A u, v \in group' : u # v /\ pc'[u] # "app" /\ pc'[v] # "app" /\ (New(u)' <=> New(v)') => tid'[u] # tid'[v]
    BY <1>0, <1>g, <1>1, <1>2, <1>7 DEF IdInv
  <2> QED
    BY <1>1, <1>8, <2>3, <2>4, <2>5, <2>6, <2>7 DEF IdInv
<1>n. CounterInv'
  BY <1>0, <1>g, <1>1, <1>2, <1>3, <1>7, CounterFrame
<1>s. SenseInv'
  BY <1>0, <1>g, <1>1, <1>2, <1>3, <1>7, SenseFrame
<1>w. LatchInv'
  <2>1. nr_threads' = nr_threads
    BY <1>1 DEF nr_threads
  <2>2. \A u \in group' : pc'[u] = "latch_spin" => my_sense'[u] = latch_sense'[tid'[u]]
    BY <1>0, <1>g, <1>1, <1>2, <1>7 DEF LatchInv
  <2>3. ASSUME NEW i \in 0 .. (nr_threads - 1)
        PROVE  latch_sense'[i] # latch_flag' <=> \E u \in group' : Latching(u)' /\ tid'[u] = i
    <3>1. latch_sense[i] # latch_flag <=> \E u \in group : Latching(u) /\ tid[u] = i
      BY <1>0, <1>4, <2>3 DEF LatchInv
    <3> QED
      BY <1>g, <1>1, <1>2, <1>3, <1>7, <3>1
  <2> QED
    BY <1>1, <1>8, <2>1, <2>2, <2>3 DEF LatchInv
<1> QED
  BY <1>t, <1>c, <1>p, <1>l, <1>i, <1>n, <1>s, <1>w DEF IndInv

\* Other threads go on to call checkpoint.
LEMMA RegroupStep == ASSUME SameSize, IndInv, Regroup PROVE IndInv'
<1>0. /\ TypeOK /\ ControlInv /\ PassedInv /\ RoundInv /\ LeaderInv
      /\ IdInv /\ CounterInv /\ SenseInv /\ LatchInv
  BY DEF IndInv
<1>1. /\ \A t \in Threads : pc[t] = "app"
      /\ group \in Groups /\ group' \in Groups /\ round' = [t \in Threads |-> 0]
      /\ next_thread_id' = next_thread_id /\ counter' = counter /\ flag' = flag /\ local_sense' = local_sense
      /\ latch_flag' = latch_flag /\ latch_sense' = latch_sense /\ flush_mode' = flush_mode /\ pc' = pc
      /\ step' = step /\ tid' = tid /\ my_sense' = my_sense
  BY <1>0 DEF Regroup, TypeOK
<1>2. /\ group \subseteq Threads /\ group' \subseteq Threads /\ group # {} /\ nr_threads' = nr_threads
      /\ nr_threads \in Nat /\ nr_threads >= 1
  BY <1>1, GroupFacts DEF SameSize, nr_threads
<1>3. ASSUME NEW t \in Threads
      PROVE  /\ New(t) /\ ~Arrived(t) /\ ~PreAdd(t) /\ ~Latching(t) /\ tid[t] = 0 /\ pc[t] = "app" /\ ~Owner(t)
             /\ New(t)' /\ ~Arrived(t)' /\ ~PreAdd(t)' /\ ~Latching(t)' /\ tid'[t] = 0
             /\ pc'[t] = "app" /\ ~Owner(t)'
             /\ Passed(t)' = LastBarrier
  <2>1. /\ New(t) /\ ~Arrived(t) /\ ~PreAdd(t) /\ ~Latching(t) /\ tid[t] = 0 /\ pc[t] = "app"
        /\ Passed(t) = LastBarrier
    BY <1>0, <1>1, PlaceFacts
  <2>2. /\ New(t)' /\ ~Arrived(t)' /\ ~PreAdd(t)' /\ ~Latching(t)' /\ Passed(t)' = Passed(t)
    BY <1>1, <2>1, Apart
  <2> QED
    BY <1>1, <2>1, <2>2 DEF Owner
<1>t. TypeOK'
  BY <1>0, <1>1 DEF TypeOK
<1>c. ControlInv'
  BY <1>0, <1>1 DEF ControlInv
<1>p. PassedInv' /\ RoundInv'
  BY <1>1, <1>2, <1>3 DEF PassedInv, RoundInv
<1>l. LeaderInv'
  BY <1>2, <1>3 DEF LeaderInv
<1>i. IdInv'
  <2>1. {t \in group : Owner(t)} = {} /\ {t \in group' : Owner(t)'} = {}
    BY <1>2, <1>3
  <2>2. next_thread_id = 0 /\ next_thread_id' = Cardinality({t \in group' : Owner(t)'})
    BY <1>0, <1>1, <2>1, FS_EmptySet DEF IdInv
  <2>3. \A i \in 0 .. (next_thread_id' - 1) : \E t \in group' : Owner(t)' /\ tid'[t] = i
    <3>1. next_thread_id' = 0
      BY <1>1, <2>2
    <3> QED
      BY <3>1
  <2>4. \A t \in group' : t \in Threads
    BY <1>2
  <2>5. \A t \in group' : ~Owner(t)' /\ ~PreAdd(t)' /\ pc'[t] = "app" /\ tid'[t] < nr_threads'
    BY <1>2, <1>3, <2>4
  <2> QED
    BY <2>2, <2>3, <2>5 DEF IdInv
<1>n. CounterInv'
  <2>1. {t \in group : Arrived(t)} = {} /\ {t \in group' : Arrived(t)'} = {}
    BY <1>2, <1>3
  <2>2. counter = Cardinality({t \in group : Arrived(t)})
    BY <1>0, <1>2, <1>3 DEF CounterInv
  <2> QED
    BY <1>1, <1>2, <1>3, <2>1, <2>2 DEF CounterInv
<1>s. SenseInv'
  <2>1. \A i \in 0 .. (nr_threads - 1) : local_sense[i] = flag
    BY <1>0, <1>2, <1>3 DEF SenseInv
  <2> QED
    BY <1>1, <1>2, <1>3, <2>1 DEF SenseInv
<1>w. LatchInv'
  <2>1. \A i \in 0 .. (nr_threads - 1) : latch_sense[i] = latch_flag
    BY <1>0, <1>2, <1>3 DEF LatchInv
  <2> QED
    BY <1>1, <1>2, <1>3, <2>1 DEF LatchInv
<1> QED
  BY <1>t, <1>c, <1>p, <1>l, <1>i, <1>n, <1>s, <1>w DEF IndInv

\* A turn of a spin loop changes nothing.
LEMMA StutterStep == ASSUME IndInv, UNCHANGED vars PROVE IndInv'
<1>0. /\ TypeOK /\ ControlInv /\ PassedInv /\ RoundInv /\ LeaderInv
      /\ IdInv /\ CounterInv /\ SenseInv /\ LatchInv
  BY DEF IndInv
<1>1. /\ next_thread_id' = next_thread_id /\ counter' = counter /\ flag' = flag /\ local_sense' = local_sense
      /\ latch_flag' = latch_flag /\ latch_sense' = latch_sense /\ flush_mode' = flush_mode /\ pc' = pc
      /\ step' = step /\ tid' = tid /\ my_sense' = my_sense /\ group' = group /\ round' = round
  BY DEF vars
<1>2. ASSUME NEW u \in group
      PROVE  /\ Arrived(u)' <=> Arrived(u)
             /\ Released(u)' <=> Released(u)
             /\ New(u)' <=> New(u)
             /\ Passed(u)' = Passed(u)
             /\ PreAdd(u)' <=> PreAdd(u)
             /\ Latching(u)' <=> Latching(u)
  <2>1. u \in Threads
    BY <1>0, GroupFacts DEF TypeOK
  <2> QED
    BY <1>1, <2>1, Apart
<1>t. TypeOK'
  BY <1>0, <1>1 DEF TypeOK
<1>c. ControlInv'
  BY <1>0, <1>1 DEF ControlInv
<1>p. PassedInv' /\ RoundInv'
  BY <1>0, <1>1, <1>2, PassedRoundFrame
<1>l. LeaderInv'
  BY <1>0, <1>1, <1>2 DEF LeaderInv
<1>i. IdInv'
  <2>1. \A u \in group : Owner(u)' <=> Owner(u)
    BY <1>1, <1>2, OwnerFrame
  <2> QED
    BY <1>0, <1>1, <1>2, <2>1, IdFrame
<1>n. CounterInv'
  BY <1>0, <1>1, <1>2, CounterFrame
<1>s. SenseInv'
  BY <1>0, <1>1, <1>2, SenseFrame
<1>w. LatchInv'
  BY <1>0, <1>1, <1>2, LatchFrame
<1> QED
  BY <1>t, <1>c, <1>p, <1>l, <1>i, <1>n, <1>s, <1>w DEF IndInv

\* Before the first call.
LEMMA InitInv == Init => IndInv
<1> SUFFICES ASSUME Init PROVE IndInv
  OBVIOUS
<1>1. /\ next_thread_id = 0 /\ counter = 0 /\ flag = 0 /\ local_sense = [i \in Ids |-> 0] /\ latch_flag = 0
      /\ latch_sense = [i \in Ids |-> 0] /\ flush_mode = "NO_ACTION" /\ pc = [t \in Threads |-> "app"]
      /\ step = [t \in Threads |-> 0] /\ tid = [t \in Threads |-> 0] /\ my_sense = [t \in Threads |-> 0]
      /\ group \in Groups /\ round = [t \in Threads |-> 0]
  BY DEF Init
<1>2. /\ group \subseteq Threads /\ nr_threads \in Nat /\ nr_threads >= 1 /\ nr_threads <= Cardinality(Threads)
      /\ Cardinality(Threads) \in Nat
  BY <1>1, GroupFacts DEF nr_threads
<1>3. 0 \in Ids /\ \A i \in 0 .. (nr_threads - 1) : i \in Ids
  BY <1>2 DEF Ids
<1>t. TypeOK
  BY <1>1, <1>2, <1>3 DEF TypeOK, Modes
<1>4. LastStep(flush_mode) = 3
  BY <1>1 DEF LastStep
<1>c. ControlInv
  BY <1>1, <1>4 DEF ControlInv
<1>5. ASSUME NEW t \in Threads
      PROVE  New(t) /\ ~Arrived(t) /\ ~PreAdd(t) /\ ~Latching(t) /\ tid[t] = 0 /\ pc[t] = "app" /\ ~Owner(t) /\ Passed(t) = LastBarrier
  <2>1. pc[t] = "app"
    BY <1>1
  <2> QED
    BY <1>t, <1>c, <2>1, PlaceFacts DEF Owner
<1>p. PassedInv /\ RoundInv /\ LeaderInv
  BY <1>1, <1>2, <1>5 DEF PassedInv, RoundInv, LeaderInv
<1>i. IdInv
  <2>1. {t \in group : Owner(t)} = {}
    BY <1>2, <1>5
  <2>2. next_thread_id = Cardinality({t \in group : Owner(t)})
    BY <1>1, <2>1, FS_EmptySet
  <2>3. \A i \in 0 .. (next_thread_id - 1) : \E t \in group : Owner(t) /\ tid[t] = i
    BY <1>1
  <2> QED
    BY <1>2, <1>5, <2>2, <2>3 DEF IdInv
<1>n. CounterInv
  <2>1. {t \in group : Arrived(t)} = {}
    BY <1>2, <1>5
  <2> QED
    BY <1>1, <1>2, <1>5, <2>1, FS_EmptySet DEF CounterInv
<1>s. SenseInv /\ LatchInv
  BY <1>1, <1>2, <1>3, <1>5 DEF SenseInv, LatchInv
<1> QED
  BY <1>t, <1>c, <1>p, <1>i, <1>n, <1>s DEF IndInv

-----------------------------------------------------------------------------
(* The results.                                                            *)

\* The invariant is inductive.
LEMMA Inductive == ASSUME SameSize PROVE IndInv /\ [Next]_vars => IndInv'
<1> SUFFICES ASSUME IndInv, [Next]_vars PROVE IndInv'
  OBVIOUS
<1>1. ASSUME NEW t \in Threads, Enter(t) PROVE IndInv'
  BY <1>1, EnterStep
<1>2. ASSUME NEW t \in Threads, Call(t) PROVE IndInv'
  <2>1. CASE Arrive(t)
    BY <2>1, ArriveStep
  <2>2. CASE ResetCounter(t)
    BY <2>2, ResetCounterStep
  <2>3. CASE Release(t)
    BY <2>3, ReleaseStep
  <2>4. CASE Spin(t)
    BY <2>4, SpinStep
  <2>5. CASE Solo(t)
    BY <2>5, SoloStep
  <2>6. CASE LatchAdd(t)
    BY <2>6, LatchAddStep
  <2>7. CASE LatchWait(t)
    BY <2>7, LatchWaitStep
  <2>8. CASE LatchSpin(t)
    <3>1. step[t] < LastStep(flush_mode) \/ step[t] >= LastStep(flush_mode)
      BY <2>8 DEF LatchSpin
    <3> QED
      BY <2>8, <3>1, LatchSpinOnStep, LatchSpinReturnStep
  <2> QED
    BY <1>2, <2>1, <2>2, <2>3, <2>4, <2>5, <2>6, <2>7, <2>8 DEF Call
<1>3. CASE Regroup
  BY <1>3, RegroupStep
<1>4. CASE UNCHANGED vars
  BY <1>4, StutterStep
<1>5. ASSUME NEW t \in Threads, Pause(t) PROVE IndInv'
  BY <1>4, <1>5 DEF Pause
<1> QED
  BY <1>1, <1>2, <1>3, <1>4, <1>5 DEF Next

LEMMA IndInvAlways == ASSUME SameSize PROVE Spec => []IndInv
BY InitInv, Inductive, PTL DEF Spec

\* TypeOK: no counter of the barrier, and no thread id, leaves its range.
THEOREM TypeCorrect == ASSUME SameSize PROVE Spec => []TypeOK
<1>1. IndInv => TypeOK
  BY DEF IndInv
<1> QED
  BY <1>1, IndInvAlways, PTL

\* BarrierTogether: nobody leaves a barrier (Barrier::barrier) before all threads
\* of the call have arrived at it, although ids and senses are handed on.
THEOREM NobodyLeavesEarly == ASSUME SameSize PROVE Spec => []BarrierTogether
<1>1. IndInv => BarrierTogether
  <2> SUFFICES ASSUME IndInv, NEW t \in group, NEW u \in group, NEW k \in BarrierSteps, step[t] > k
               PROVE  Reached(u, t, k)
    BY DEF BarrierTogether
  <2>0. TypeOK /\ ControlInv /\ PassedInv /\ RoundInv
    BY DEF IndInv
  <2>1. t \in Threads /\ u \in Threads /\ k \in {1, 2, 4, 6}
    BY <2>0, GroupFacts DEF TypeOK, BarrierSteps
  <2>2. ASSUME NEW j \in {1, 2, 4, 6}
        PROVE  j # 1 => Prev(j) = IF j = 2 THEN 1 ELSE IF j = 4 THEN 2 ELSE 4
    BY <2>0, StepFacts
  <2>3. step[t] \in 2 .. 7 /\ step[u] \in 0 .. 7
    BY <2>0, <2>1 DEF TypeOK
  <2>4. ~New(t) /\ Passed(t) >= k
    <3>1. CASE pc[t] = "arrive" \/ Arrived(t)
      <4>1. step[t] \in {2, 4, 6} /\ ~New(t) /\ Passed(t) = Prev(step[t])
        BY <2>0, <2>1, <2>3, <3>1, PlaceFacts
      <4>2. Prev(step[t]) = IF step[t] = 2 THEN 1 ELSE IF step[t] = 4 THEN 2 ELSE 4
        BY <2>2, <4>1
      <4> QED
        BY <2>1, <4>1, <4>2
    <3>2. CASE Released(t)
      BY <2>0, <2>1, <3>2, PlaceFacts
    <3>3. CASE pc[t] \in {"solo", "add", "latch", "latch_spin"}
      <4>1. step[t] \in {3, 5, 7} /\ ~New(t) /\ Passed(t) = step[t] - 1
        BY <2>0, <2>1, <3>3, PlaceFacts
      <4> QED
        BY <2>1, <4>1
    <3>4. CASE pc[t] = "app"
      <4>1. step[t] = 0
        BY <2>0, <2>1, <3>4, PlaceFacts
      <4> QED
        BY <2>3, <4>1
    <3> QED
      BY <2>0, <2>1, <3>1, <3>2, <3>3, <3>4, PlaceFacts
  <2>5. CASE New(u)
    BY <2>0, <2>4, <2>5 DEF RoundInv, Reached
  <2>6. CASE ~New(u)
    <3>0. round[u] = round[t] /\ Passed(u) >= k
      BY <2>0, <2>4, <2>6 DEF RoundInv, PassedInv
    <3>1. CASE pc[u] = "arrive" \/ Arrived(u)
      <4>1. step[u] \in {2, 4, 6} /\ Passed(u) = Prev(step[u])
        BY <2>0, <2>1, <2>6, <3>1, PlaceFacts
      <4>2. Prev(step[u]) = IF step[u] = 2 THEN 1 ELSE IF step[u] = 4 THEN 2 ELSE 4
        BY <2>2, <4>1
      <4>3. step[u] > k
        BY <2>1, <3>0, <4>1, <4>2
      <4> QED
        BY <3>0, <4>3 DEF Reached
    <3>2. CASE Released(u)
      <4>1. step[u] \in {1, 2, 4, 6} /\ Passed(u) = step[u]
        BY <2>0, <2>1, <3>2, PlaceFacts
      <4>2. step[u] > k \/ step[u] = k
        BY <2>1, <3>0, <4>1
      <4>3. pc[u] # "arrive"
        BY <3>2 DEF Released
      <4> QED
        BY <3>0, <4>2, <4>3 DEF Reached
    <3>3. CASE pc[u] \in {"solo", "add", "latch", "latch_spin"}
      <4>1. step[u] \in {3, 5, 7} /\ Passed(u) = step[u] - 1
        BY <2>0, <2>1, <3>3, PlaceFacts
      <4>2. step[u] > k
        BY <2>1, <3>0, <4>1
      <4> QED
        BY <3>0, <4>2 DEF Reached
    <3>4. pc[u] # "app"
      BY <2>0, <2>1, <2>6, PlaceFacts
    <3> QED
      BY <2>0, <2>1, <3>1, <3>2, <3>3, <3>4, PlaceFacts
  <2> QED
    BY <2>5, <2>6
<1> QED
  BY <1>1, IndInvAlways, PTL

\* LeaderAlone: while the leader of NvmInstEngine::checkpoint commits, every other
\* thread of the call is held before or in the latch.
THEOREM LeaderWorksAlone == ASSUME SameSize PROVE Spec => []LeaderAlone
<1>1. IndInv => LeaderAlone
  <2> SUFFICES ASSUME IndInv, NEW t \in group, pc[t] \in {"solo", "add"}, NEW u \in group \ {t}
               PROVE  round[u] = round[t] /\ step[u] <= step[t] /\ pc[u] \notin {"solo", "add"}
    BY DEF LeaderAlone
  <2>0. TypeOK /\ ControlInv /\ PassedInv /\ RoundInv /\ LeaderInv
    BY DEF IndInv
  <2>1. t \in Threads /\ u \in Threads
    BY <2>0, GroupFacts DEF TypeOK
  <2>2. step[t] \in {3, 5, 7} /\ ~New(t) /\ Passed(t) = step[t] - 1 /\ PreAdd(t)
    BY <2>0, <2>1, PlaceFacts
  <2>3. /\ ~New(u) /\ (Released(u) => step[u] = Passed(t))
        /\ pc[u] \in {"latch", "latch_spin"} => step[u] = Passed(t) + 1
        /\ Released(u) \/ pc[u] \in {"latch", "latch_spin"}
    BY <2>0, <2>2, LeaderFacts
  <2>4. round[u] = round[t]
    BY <2>0, <2>2, <2>3 DEF RoundInv
  <2>5. step[u] <= step[t]
    BY <2>2, <2>3
  <2>6. pc[u] \notin {"solo", "add"}
    BY <2>3 DEF Released
  <2> QED
    BY <2>4, <2>5, <2>6
<1> QED
  BY <1>1, IndInvAlways, PTL

=============================================================================
