-------------------------- MODULE MpiEpoch_proofs --------------------------
(***************************************************************************)
(* The processes of an MPI program, for any number of them and of          *)
(* checkpoints, and any even epoch modulus.  That the smallest epoch       *)
(* restores the same checkpoint everywhere rests on how far the processes  *)
(* can be apart: by one arrival at the barrier, hence by one epoch, and    *)
(* then the one ahead still has the checkpoint before.  The invariant      *)
(* states this for every pair of processes; what restores which call is    *)
(* added as long as nothing has made the processes disagree.               *)
(***************************************************************************)
EXTENDS MpiEpoch, WellFoundedInduction, TLAPS

Live(r)    == pc[r] \notin {"open", "exit"}
Running(r) == pc[r] \in {"run", "commit", "barrier"}

\* All processes are live, or none is; a process counts its calls.
ControlInv ==
  /\ \A q, r \in Ranks : pc[r] \in {"open", "exit"} => pc[q] = pc[r]
  /\ \A r \in Ranks : /\ Calls(r) <= MaxCalls /\ arrived[r] <= Calls(r) /\ returned[r] <= Calls(r)
                      /\ pc[r] = "commit" => arrived[r] < Calls(r)
                      /\ pc[r] \in {"commit", "barrier"} => returned[r] < Calls(r)
                      /\ ~Running(r) => arrived[r] = 0

\* At the barrier a process is at most one arrival ahead, elsewhere not at all.
CountInv ==
  \A q, r \in Ranks : /\ arrived[r] <= arrived[q] + 1
                      /\ pc[r] # "barrier" => arrived[r] <= arrived[q]

\* The epochs follow the arrivals.
EpochInv ==
  /\ \A q, r \in Ranks : Running(q) /\ Running(r) =>
       /\ arrived[r] = arrived[q] => committed_epoch[r] = committed_epoch[q]
       /\ arrived[r] = arrived[q] + 1 => committed_epoch[r] = NextEpoch(committed_epoch[q])
  /\ \A r \in Ranks :
       /\ pc[r] = "reset" => committed_epoch[r] \in {min_epoch, min_epoch + 1}
       /\ pc[r] = "recover" => committed_epoch[r] = min_epoch
  /\ \A q, r \in Ranks : pc[q] \in {"reset", "recover"} /\ Running(r) =>
       /\ arrived[r] = 0 => committed_epoch[r] = NextEpoch(min_epoch)
       /\ arrived[r] = 1 => committed_epoch[r] = NextEpoch(NextEpoch(min_epoch))

BaseInv == TypeOK /\ ControlInv /\ CountInv /\ EpochInv

\* Two epochs are the same or next to each other.
Close(a, b) == a = b \/ a = NextEpoch(b) \/ b = NextEpoch(a)

\* Processes that are not broken can be recovered.
OpenInv ==
  broken = {} => /\ \A r \in Ranks : pc[r] # "exit"
                 /\ \A q, r \in Ranks : pc[r] = "open" =>
                      Close(committed_epoch[q], committed_epoch[r]) /\ ~Wrapped

-----------------------------------------------------------------------------
\* At(r, n) for the history h of process r.
Val(h, n) == IF n = 0 THEN 0 ELSE h[n]

\* The content of a call is its number or what the call before had; it is the
\* number of the call that had it first.
HistOK(h) ==
  \A n \in 0 .. Len(h) : /\ n > 0 => Val(h, n) = n \/ Val(h, n) = Val(h, n - 1)
                         /\ Val(h, n) \in 0 .. n /\ Val(h, Val(h, n)) = Val(h, n)
                         /\ \A m \in 0 .. n : Val(h, m) <= Val(h, n)

\* The call that the committed epoch of a live process restores, its content
\* and that of the call before.
Base(r)   == IF pc[r] = "commit" THEN Calls(r) - 1 ELSE Calls(r)
Held(r)   == Val(hist[r], Base(r))
Before(r) == Val(hist[r], Base(r) - 1)

\* Calls that left nothing out had something new, in HybridInstEngine.
NewInv(r) ==
  engine = "Hybrid" /\ pc[r] \in {"commit", "barrier"} => Val(hist[r], Calls(r)) = Calls(r)

\* What the slots restore.
SlotInv(r) ==
  LET this  == committed_epoch[r] % 2
      other == (committed_epoch[r] + 1) % 2
  IN /\ pc[r] = "run" => slot[r][this] = Held(r) /\ slot[r][other] = Held(r)
     /\ pc[r] = "commit" => slot[r][this] = Held(r) /\ slot[r][other] = Val(hist[r], Calls(r))
     /\ pc[r] = "barrier" => slot[r][this] = Held(r) /\ slot[r][other] = Before(r)
     /\ pc[r] \in {"reset", "recover"} => slot[r][min_epoch % 2] = Held(r)
     /\ Live(r) => Val(hist[r], returned[r]) = IF pc[r] = "barrier" THEN Before(r) ELSE Held(r)

\* The processes that have come equally far restore the same call (NvmInst) or
\* calls with the same content (Hybrid).
PairInv(q, r) ==
  Live(q) /\ Live(r) =>
    /\ engine = "NvmInst" =>
         /\ arrived[r] = arrived[q] => Base(r) = Base(q)
         /\ arrived[r] = arrived[q] + 1 => Base(r) = Base(q) + 1
    /\ engine = "Hybrid" =>
         /\ arrived[r] = arrived[q] => Held(r) = Held(q)
         /\ arrived[r] = arrived[q] + 1 => Before(r) = Held(q)

\* In HybridInstEngine they have had something new in the same calls.
AgreeInv(q, r) ==
  engine = "Hybrid" =>
    \A n \in 0 .. MaxCalls : n <= Calls(q) /\ n <= Calls(r) => Val(hist[q], n) = Val(hist[r], n)

\* The processes to recover have the same checkpoint.
Restorable ==
  \E n \in Common(MinEpoch) : \A r \in Ranks : n >= returned[r] \/ At(r, n) = At(r, returned[r])

\* Of those that recover, one has the smallest epoch.
MinInv == (\A r \in Ranks : pc[r] \in {"reset", "recover"}) => \E r \in Ranks : committed_epoch[r] = min_epoch

DataInv ==
  /\ \A r \in Ranks : HistOK(hist[r]) /\ NewInv(r) /\ SlotInv(r)
  /\ \A q, r \in Ranks : PairInv(q, r) /\ AgreeInv(q, r)
  /\ \A r \in Ranks : pc[r] = "open" => Restorable
  /\ MinInv

IndInv == BaseInv /\ OpenInv /\ (broken = {} => DataInv)

-----------------------------------------------------------------------------
(* Epochs, sets and histories.                                             *)

\* The next epoch, which is in the other slot.
LEMMA NextFacts ==
  ASSUME NEW e \in Epochs
  PROVE  /\ e \in Nat /\ e < kEpochModulus
         /\ NextEpoch(e) \in Epochs
         /\ NextEpoch(e) = IF e = kEpochModulus - 1 THEN 0 ELSE e + 1
         /\ NextEpoch(e) % 2 = (e + 1) % 2
         /\ (NextEpoch(e) + 1) % 2 = e % 2
         /\ e % 2 \in 0 .. 1 /\ (e + 1) % 2 \in 0 .. 1 /\ (e + 1) % 2 # e % 2
         /\ \A i \in 0 .. 1 : i = e % 2 \/ i = (e + 1) % 2
<1>1. e \in Nat /\ e < kEpochModulus /\ kEpochModulus \in Nat /\ kEpochModulus > 2 /\ kEpochModulus % 2 = 0
  BY MpiAssumption DEF Epochs
<1>2. NextEpoch(e) = IF e = kEpochModulus - 1 THEN 0 ELSE e + 1
  <2>1. CASE e = kEpochModulus - 1
    <3>1. e + 1 = kEpochModulus
      BY <1>1, <2>1
    <3>2. kEpochModulus % kEpochModulus = 0
      BY <1>1
    <3> QED
      BY <2>1, <3>1, <3>2 DEF NextEpoch
  <2>2. CASE e # kEpochModulus - 1
    <3>1. e + 1 \in 0 .. (kEpochModulus - 1)
      BY <1>1, <2>2
    <3>2. (e + 1) % kEpochModulus = e + 1
      BY <1>1, <3>1
    <3> QED
      BY <2>2, <3>2 DEF NextEpoch
  <2> QED
    BY <2>1, <2>2
<1>3. NextEpoch(e) \in Epochs
  BY <1>1, <1>2 DEF Epochs
<1>4. NextEpoch(e) % 2 = (e + 1) % 2 /\ (NextEpoch(e) + 1) % 2 = e % 2
  BY <1>1, <1>2
<1>5. /\ e % 2 \in 0 .. 1 /\ (e + 1) % 2 \in 0 .. 1 /\ (e + 1) % 2 # e % 2
  BY <1>1
<1> QED
  BY <1>1, <1>2, <1>3, <1>4, <1>5

\* Epochs that are close differ by at most one, modulo the wrap.
LEMMA CloseMod ==
  ASSUME NEW a \in Epochs, NEW b \in Epochs, Close(a, b)
  PROVE  (a - b) % kEpochModulus \in {0, 1, kEpochModulus - 1}
<1>1. kEpochModulus \in Nat /\ kEpochModulus > 2
  BY MpiAssumption
<1>2. a \in Nat /\ b \in Nat /\ a < kEpochModulus /\ b < kEpochModulus
  BY NextFacts
<1>3. a - b \in {0, 1, -1, kEpochModulus - 1, 1 - kEpochModulus}
  BY <1>1, <1>2, NextFacts DEF Close
<1>4. /\ 0 % kEpochModulus = 0 /\ 1 % kEpochModulus = 1
      /\ (kEpochModulus - 1) % kEpochModulus = kEpochModulus - 1
  BY <1>1
<1>5. (-1) % kEpochModulus = kEpochModulus - 1
  BY <1>1
<1>6. (1 - kEpochModulus) % kEpochModulus = 1
  BY <1>1
<1> QED
  BY <1>3, <1>4, <1>5, <1>6

\* A nonempty set of numbers has a smallest element, and a largest one if it is
\* bounded.
LEMMA MinExists ==
  ASSUME NEW S \in SUBSET Nat, S # {}
  PROVE  Min(S) \in S /\ \A y \in S : Min(S) <= y
<1>1. PICK x \in S : \A y \in S : ~(<<y, x>> \in OpToRel(<, Nat))
  BY WFMin, NatLessThanWellFounded
<1>2. \A y \in S : ~(y < x)
  BY <1>1 DEF OpToRel
<1>3. \A y \in S : x <= y
  BY <1>2
<1> QED
  BY <1>3 DEF Min

LEMMA MaxExists ==
  ASSUME NEW h \in Nat, NEW S \in SUBSET (0 .. h), S # {}
  PROVE  Max(S) \in S
<1> DEFINE D == {h - i : i \in S}
<1>1. D \subseteq Nat /\ D # {}
  <2>1. ASSUME NEW i \in S PROVE h - i \in Nat
    BY <2>1
  <2>2. PICK i \in S : TRUE
    OBVIOUS
  <2>3. h - i \in D
    OBVIOUS
  <2> QED
    BY <2>1, <2>3
<1>2. Min(D) \in D /\ \A y \in D : Min(D) <= y
  BY <1>1, MinExists
<1>3. PICK i \in S : Min(D) = h - i
  BY <1>2
<1>4. ASSUME NEW j \in S PROVE i >= j
  <2>1. h - j \in D
    OBVIOUS
  <2>2. h - i <= h - j
    BY <1>2, <1>3, <2>1
  <2> QED
    BY <2>2
<1> QED
  BY <1>4 DEF Max

\* The smallest epoch is that of a process.
LEMMA MinEpochFacts ==
  ASSUME TypeOK
  PROVE  /\ MinEpoch \in Epochs
         /\ \E r \in Ranks : committed_epoch[r] = MinEpoch
         /\ \A r \in Ranks : MinEpoch <= committed_epoch[r]
<1> DEFINE S == {committed_epoch[r] : r \in Ranks}
<1>1. S \subseteq Epochs /\ S # {} /\ Epochs \subseteq Nat
  BY MpiAssumption DEF TypeOK, Epochs
<1>2. Min(S) \in S /\ \A y \in S : Min(S) <= y
  BY <1>1, MinExists
<1>3. MinEpoch = Min(S)
  BY DEF MinEpoch
<1> HIDE DEF S
<1>4. \A r \in Ranks : committed_epoch[r] \in S
  BY DEF S
<1>5. \E r \in Ranks : committed_epoch[r] = Min(S)
  BY <1>2 DEF S
<1> QED
  BY <1>1, <1>2, <1>3, <1>4, <1>5

\* The contents of calls.
LEMMA AtType ==
  ASSUME TypeOK, NEW r \in Ranks
  PROVE  /\ Calls(r) \in Nat
         /\ \A n \in 0 .. Calls(r) : At(r, n) \in 0 .. MaxCalls
<1>1. hist[r] \in Seq(0 .. MaxCalls) /\ MaxCalls \in Nat
  BY MpiAssumption DEF TypeOK
<1> QED
  BY <1>1 DEF Calls, At

\* The counters are numbers.
LEMMA Numbers ==
  ASSUME TypeOK
  PROVE  \A r \in Ranks : arrived[r] \in Nat /\ returned[r] \in Nat /\ Calls(r) \in Nat
<1>1. MaxCalls \in Nat /\ arrived \in [Ranks -> 0 .. MaxCalls] /\ returned \in [Ranks -> 0 .. MaxCalls]
  BY MpiAssumption DEF TypeOK
<1>2. ASSUME NEW r \in Ranks PROVE arrived[r] \in Nat /\ returned[r] \in Nat
  BY <1>1, <1>2
<1> QED
  BY <1>2, AtType

\* What the slots may say on the medium stays a nonempty set of states.
LEMMA StatesStep ==
  ASSUME TypeOK, NEW r \in Ranks, Call(r) \/ Commit(r) \/ Pass(r) \/ Recover(r)
  PROVE  state_pm' \in [Ranks -> [0 .. 1 -> (SUBSET States) \ {{}}]]
<1> DEFINE T == (SUBSET States) \ {{}}
<1>1. state_pm \in [Ranks -> [0 .. 1 -> T]] /\ Active(r) \in 0 .. 1 /\ Inactive(r) \in 0 .. 1
  BY NextFacts DEF TypeOK, Active, Inactive
<1>2. Side(r) \in States /\ {"Back", "Main"} \in T /\ {"Main"} \in T
  BY DEF Side, States
<1>3. /\ {Side(r)} \in T
      /\ state_pm[r][Inactive(r)] \cup {Side(r)} \in T
      /\ state_pm[r][Inactive(r)] \cup state_pm[r][Active(r)] \in T
      /\ \A i \in 0 .. 1 : \A s \in state_pm[r][i] : {s} \in T
  BY <1>1, <1>2
<1> HIDE DEF T
<1>4. \A t \in T : [state_pm EXCEPT ![r][Inactive(r)] = t] \in [Ranks -> [0 .. 1 -> T]]
  BY <1>1
<1>5. \A old, new \in T : Recovered(r, old, new) \in [Ranks -> [0 .. 1 -> T]]
  <2>1. ASSUME NEW old \in T, NEW new \in T
        PROVE  [i \in 0 .. 1 |-> IF i = Active(r) THEN old ELSE new] \in [0 .. 1 -> T]
    OBVIOUS
  <2> QED
    BY <1>1, <2>1 DEF Recovered
<1>6. CASE Call(r)
  <2>1. \/ state_pm' = state_pm
        \/ state_pm' = [state_pm EXCEPT ![r][Inactive(r)] = state_pm[r][Inactive(r)] \cup {Side(r)}]
    BY <1>1, <1>6 DEF Call
  <2> QED
    BY <1>1, <1>3, <1>4, <2>1 DEF T
<1>7. CASE Commit(r)
  BY <1>3, <1>4, <1>7 DEF Commit, T
<1>8. CASE Pass(r)
  <2>1. state_pm' = [state_pm EXCEPT ![r][Inactive(r)] = state_pm[r][Inactive(r)] \cup state_pm[r][Active(r)]]
    BY <1>1, <1>8 DEF Pass
  <2> QED
    BY <1>3, <1>4, <2>1 DEF T
<1>9. CASE Recover(r)
  <2>1. CASE state_pm' = Recovered(r, {"Back", "Main"}, {"Main"})
    BY <1>2, <1>5, <2>1 DEF T
  <2>2. ASSUME NEW s \in state_pm[r][Active(r)], NEW left \in state_pm[r][Inactive(r)],
               state_pm' = Recovered(r, {s}, {left})
        PROVE  state_pm' \in [Ranks -> [0 .. 1 -> T]]
    <3>1. {s} \in T /\ {left} \in T
      BY <1>1, <1>3
    <3> QED
      BY <1>5, <2>2, <3>1
  <2> QED
    BY <1>9, <2>1, <2>2 DEF Recover, T
<1> QED
  BY <1>6, <1>7, <1>8, <1>9

\* A call adds to the history of its process.
LEMMA CallStep ==
  ASSUME BaseInv, NEW r \in Ranks, Call(r)
  PROVE  \E k \in 1 .. MaxCalls, c \in 0 .. MaxCalls :
           /\ k = Calls(r) + 1 /\ Calls(r)' = k
           /\ c = k \/ c = At(r, k - 1)
           /\ dirty[r] => c = k
           /\ ~dirty[r] => c = At(r, k - 1)
           /\ \A n \in 0 .. (k - 1) : At(r, n)' = At(r, n)
           /\ At(r, k)' = c
           /\ hist'[r] = Append(hist[r], c) /\ \A q \in Ranks : q # r => hist'[q] = hist[q]
           /\ hist' \in [Ranks -> Seq(0 .. MaxCalls)]
           /\ broken' \subseteq broken \cup {"idle", "undone"}
           /\ broken' = {} => broken = {} /\ ~(engine = "Hybrid" /\ Disagree(r, k, c))
           /\ slot' \in [Ranks -> [0 .. 1 -> 0 .. MaxCalls]]
           /\ \/ Skips(r) /\ returned' = [returned EXCEPT ![r] = k] /\ slot' = slot /\ pc' = pc
              \/ /\ ~Skips(r) /\ (broken' = {} => slot' = [slot EXCEPT ![r][(committed_epoch[r] + 1) % 2] = c])
                 /\ pc' = [pc EXCEPT ![r] = "commit"] /\ returned' = returned
<1> DEFINE k == Calls(r) + 1
           c == IF dirty[r] THEN k ELSE At(r, k - 1)
<1>1. TypeOK /\ hist[r] \in Seq(0 .. MaxCalls) /\ Calls(r) \in Nat
  BY AtType DEF BaseInv, TypeOK
<1>2. k <= MaxCalls
  BY DEF Call
<1>3. MaxCalls \in Nat /\ k \in 1 .. MaxCalls
  BY <1>1, <1>2, MpiAssumption
<1>4. c \in 0 .. MaxCalls
  <2>1. Calls(r) = k - 1 /\ k - 1 \in 0 .. Calls(r)
    BY <1>1
  <2>2. At(r, k - 1) \in 0 .. MaxCalls
    BY <1>1, <2>1, AtType
  <2> QED
    BY <1>3, <2>2
<1>5. hist' = [hist EXCEPT ![r] = Append(hist[r], c)]
  BY DEF Call
<1>6. c = k \/ c = At(r, k - 1)
  OBVIOUS
<1>7. (dirty[r] => c = k) /\ (~dirty[r] => c = At(r, k - 1))
  OBVIOUS
<1>8. /\ broken' = broken \cup (IF engine = "Hybrid" /\ Disagree(r, k, c) THEN {"idle"} ELSE {})
                         \cup (IF ~Skips(r) /\ Overwrites(r) THEN {"undone"} ELSE {})
      /\ slot' = slot \/ slot' = [slot EXCEPT ![r] = [i \in 0 .. 1 |->
                                     IF i = Inactive(r) \/ Overwrites(r) THEN c ELSE slot[r][i]]]
  BY DEF Call
<1>9. \/ Skips(r) /\ returned' = [returned EXCEPT ![r] = k] /\ slot' = slot /\ pc' = pc
      \/ /\ ~Skips(r) /\ (broken' = {} => slot' = [slot EXCEPT ![r][(committed_epoch[r] + 1) % 2] = c])
         /\ pc' = [pc EXCEPT ![r] = "commit"] /\ returned' = returned
  <2>1. CASE Skips(r) /\ returned' = [returned EXCEPT ![r] = k] /\ UNCHANGED <<slot, state_pm, pc>>
    BY <2>1
  <2>2. CASE /\ ~Skips(r)
             /\ slot' = [slot EXCEPT ![r] = [i \in 0 .. 1 |->
                           IF i = Inactive(r) \/ Overwrites(r) THEN c ELSE slot[r][i]]]
             /\ pc' = [pc EXCEPT ![r] = "commit"] /\ UNCHANGED returned
    <3> SUFFICES ASSUME broken' = {}
                 PROVE  slot' = [slot EXCEPT ![r][(committed_epoch[r] + 1) % 2] = c]
      BY <2>2
    <3>1. ~Overwrites(r)
      BY <1>8, <2>2
    <3>2. slot \in [Ranks -> [0 .. 1 -> 0 .. MaxCalls]]
      BY <1>1 DEF TypeOK
    <3>3. [i \in 0 .. 1 |-> IF i = Inactive(r) \/ Overwrites(r) THEN c ELSE slot[r][i]]
          = [slot[r] EXCEPT ![(committed_epoch[r] + 1) % 2] = c]
      BY <3>1, <3>2 DEF Inactive
    <3> QED
      BY <2>2, <3>2, <3>3
  <2> QED
    BY <2>1, <2>2 DEF Call
<1>10. PICK kk \in 1 .. MaxCalls, cc \in 0 .. MaxCalls : kk = k /\ cc = c
  BY <1>3, <1>4
<1> HIDE DEF k, c
<1>11. kk = Calls(r) + 1 /\ kk - 1 = Calls(r)
  BY <1>1, <1>10 DEF k
<1>12. hist' = [hist EXCEPT ![r] = Append(hist[r], cc)]
  BY <1>5, <1>10
<1>13. hist'[r] = Append(hist[r], cc) /\ \A q \in Ranks : q # r => hist'[q] = hist[q]
  BY <1>1, <1>12 DEF TypeOK
<1>14. /\ Append(hist[r], cc) \in Seq(0 .. MaxCalls) /\ Len(Append(hist[r], cc)) = Len(hist[r]) + 1
       /\ \A n \in 1 .. Len(hist[r]) : Append(hist[r], cc)[n] = hist[r][n]
       /\ Append(hist[r], cc)[Len(hist[r]) + 1] = cc
  BY <1>1
<1>15. hist' \in [Ranks -> Seq(0 .. MaxCalls)]
  BY <1>1, <1>12, <1>14 DEF TypeOK
<1>16. Calls(r)' = kk
  BY <1>11, <1>13, <1>14 DEF Calls
<1>17. \A n \in 0 .. (kk - 1) : At(r, n)' = At(r, n)
  <2>1. \A n \in 0 .. (kk - 1) : n = 0 \/ n \in 1 .. Len(hist[r])
    BY <1>1, <1>11 DEF Calls
  <2> QED
    BY <1>13, <1>14, <2>1 DEF At
<1>18. At(r, kk)' = cc
  BY <1>11, <1>13, <1>14 DEF At, Calls
<1>19. /\ kk = Calls(r) + 1 /\ (cc = kk \/ cc = At(r, kk - 1))
       /\ (dirty[r] => cc = kk) /\ (~dirty[r] => cc = At(r, kk - 1))
  BY <1>6, <1>7, <1>10, <1>11
<1>20. /\ broken' \subseteq broken \cup {"idle", "undone"}
       /\ broken' = {} => broken = {} /\ ~(engine = "Hybrid" /\ Disagree(r, kk, cc))
  BY <1>8, <1>10
<1>22. slot' \in [Ranks -> [0 .. 1 -> 0 .. MaxCalls]]
  <2>1. slot \in [Ranks -> [0 .. 1 -> 0 .. MaxCalls]]
    BY <1>1 DEF TypeOK
  <2>2. [i \in 0 .. 1 |-> IF i = Inactive(r) \/ Overwrites(r) THEN cc ELSE slot[r][i]] \in [0 .. 1 -> 0 .. MaxCalls]
    BY <2>1
  <2> QED
    BY <1>8, <1>10, <2>1, <2>2
<1>21. \/ Skips(r) /\ returned' = [returned EXCEPT ![r] = kk] /\ slot' = slot /\ pc' = pc
       \/ /\ ~Skips(r) /\ (broken' = {} => slot' = [slot EXCEPT ![r][(committed_epoch[r] + 1) % 2] = cc])
          /\ pc' = [pc EXCEPT ![r] = "commit"] /\ returned' = returned
  BY <1>9, <1>10
<1> QED
  BY <1>13, <1>15, <1>16, <1>17, <1>18, <1>19, <1>20, <1>21, <1>22

-----------------------------------------------------------------------------
(* Control, arrivals and epochs.                                           *)

\* Initially all processes run, with epoch 0.
LEMMA InitBase == Init => BaseInv
<1> SUFFICES ASSUME Init PROVE BaseInv
  OBVIOUS
<1>1. MaxCalls \in Nat /\ kEpochModulus \in Nat /\ kEpochModulus > 2
  BY MpiAssumption
<1>2. dirty \in [Ranks -> BOOLEAN]
  BY Zenon DEF Init
<1>3. /\ committed_epoch \in [Ranks -> Epochs] /\ min_epoch \in Epochs
      /\ arrived \in [Ranks -> 0 .. MaxCalls] /\ returned \in [Ranks -> 0 .. MaxCalls]
  BY <1>1 DEF Init, Epochs
<1>4. slot \in [Ranks -> [0 .. 1 -> 0 .. MaxCalls]] /\ hist \in [Ranks -> Seq(0 .. MaxCalls)]
  BY <1>1 DEF Init
<1>s. state_pm \in [Ranks -> [0 .. 1 -> (SUBSET States) \ {{}}]]
  BY DEF Init, States
<1>5. TypeOK
  BY <1>2, <1>3, <1>4, <1>s DEF Init, TypeOK
<1>6. \A r \in Ranks : Calls(r) = 0 /\ arrived[r] = 0 /\ returned[r] = 0 /\ pc[r] = "run" /\ committed_epoch[r] = 0
  BY DEF Init, Calls
<1>7. ControlInv /\ CountInv /\ EpochInv
  BY <1>1, <1>6 DEF ControlInv, CountInv, EpochInv, Running
<1> QED
  BY <1>5, <1>7 DEF BaseInv

\* A store.
LEMMA StoreBase == ASSUME BaseInv, NEW r \in Ranks, Store(r) PROVE BaseInv'
<1>0. TypeOK /\ ControlInv /\ CountInv /\ EpochInv
  BY DEF BaseInv
<1>n. \A q \in Ranks : arrived[q] \in Nat /\ Calls(q) \in Nat /\ returned[q] \in Nat
  BY <1>0, Numbers
<1>a. UNCHANGED <<engine, committed_epoch, slot, state_pm, pc, arrived, min_epoch, hist, returned, broken>>
  BY DEF Store
<1>1. TypeOK'
  <2>1. dirty' \in [Ranks -> BOOLEAN]
    BY <1>0, Zenon DEF TypeOK, Store
  <2> QED
    BY <1>0, <1>a, <2>1 DEF TypeOK
<1>2. ControlInv'
  BY <1>0, <1>a DEF ControlInv, Calls, Running
<1>3. CountInv'
  BY <1>0, <1>a DEF CountInv
<1>4. EpochInv'
  BY <1>0, <1>a DEF EpochInv, Running
<1> QED
  BY <1>1, <1>2, <1>3, <1>4 DEF BaseInv

\* A call.
LEMMA CallBase == ASSUME BaseInv, NEW r \in Ranks, Call(r) PROVE BaseInv'
<1>0. TypeOK /\ ControlInv /\ CountInv /\ EpochInv
  BY DEF BaseInv
<1>n. \A q \in Ranks : arrived[q] \in Nat /\ Calls(q) \in Nat /\ returned[q] \in Nat
  BY <1>0, Numbers
<1>a. PICK k \in 1 .. MaxCalls, c \in 0 .. MaxCalls :
        /\ k = Calls(r) + 1 /\ Calls(r)' = k
        /\ \A q \in Ranks : q # r => hist'[q] = hist[q]
        /\ hist' \in [Ranks -> Seq(0 .. MaxCalls)]
        /\ broken' \subseteq broken \cup {"idle", "undone"}
        /\ slot' \in [Ranks -> [0 .. 1 -> 0 .. MaxCalls]]
        /\ \/ Skips(r) /\ returned' = [returned EXCEPT ![r] = k] /\ pc' = pc
           \/ ~Skips(r) /\ pc' = [pc EXCEPT ![r] = "commit"] /\ returned' = returned
  BY CallStep
<1>b. UNCHANGED <<engine, committed_epoch, arrived, min_epoch>> /\ pc[r] = "run"
      /\ dirty' = [dirty EXCEPT ![r] = FALSE]
  BY DEF Call
<1>c. /\ \A q \in Ranks : q # r => Calls(q)' = Calls(q) /\ pc'[q] = pc[q] /\ returned'[q] = returned[q]
      /\ \/ pc'[r] = "run" /\ returned'[r] = k
         \/ pc'[r] = "commit" /\ returned'[r] = returned[r]
  <2>1. \A q \in Ranks : q # r => Calls(q)' = Calls(q)
    BY <1>a DEF Calls
  <2> QED
    BY <1>0, <1>a, <1>b, <2>1 DEF TypeOK
<1>1. TypeOK'
  <2>1. dirty' \in [Ranks -> BOOLEAN]
    <3>1. dirty \in [Ranks -> BOOLEAN]
      BY <1>0 DEF TypeOK
    <3> QED
      BY <1>b, <3>1, Zenon
  <2>2. state_pm' \in [Ranks -> [0 .. 1 -> (SUBSET States) \ {{}}]]
    BY <1>0, StatesStep
  <2>3. returned' \in [Ranks -> 0 .. MaxCalls]
    <3>1. k \in 0 .. MaxCalls /\ returned \in [Ranks -> 0 .. MaxCalls]
      BY <1>0 DEF TypeOK
    <3> QED
      BY <1>a, <3>1
  <2>4. pc' \in [Ranks -> {"run", "commit", "barrier", "open", "exit", "reset", "recover"}]
    BY <1>0, <1>a DEF TypeOK
  <2>5. broken' \subseteq {"idle", "undone", "ahead", "unreset", "wrap"}
    BY <1>0, <1>a DEF TypeOK
  <2> QED
    BY <1>0, <1>a, <1>b, <2>1, <2>2, <2>3, <2>4, <2>5 DEF TypeOK
<1>2. ControlInv'
  <2>1. ASSUME NEW q \in Ranks, q # r
        PROVE  /\ Calls(q)' <= MaxCalls /\ arrived'[q] <= Calls(q)' /\ returned'[q] <= Calls(q)'
               /\ pc'[q] = "commit" => arrived'[q] < Calls(q)'
               /\ pc'[q] \in {"commit", "barrier"} => returned'[q] < Calls(q)'
               /\ ~Running(q)' => arrived'[q] = 0
    BY <1>0, <1>b, <1>c, <2>1 DEF ControlInv, Running
  <2>2. /\ Calls(r)' <= MaxCalls /\ arrived'[r] <= Calls(r)' /\ returned'[r] <= Calls(r)'
        /\ pc'[r] = "commit" => arrived'[r] < Calls(r)'
        /\ pc'[r] \in {"commit", "barrier"} => returned'[r] < Calls(r)'
        /\ ~Running(r)' => arrived'[r] = 0
    BY <1>0, <1>n, <1>a, <1>b, <1>c DEF ControlInv, Running
  <2>3. \A p, q \in Ranks : pc'[q] \in {"open", "exit"} => pc'[p] = pc'[q]
    BY <1>0, <1>b, <1>c DEF ControlInv
  <2> QED
    BY <2>1, <2>2, <2>3 DEF ControlInv
<1>3. CountInv'
  BY <1>0, <1>b, <1>c DEF CountInv
<1>4. EpochInv'
  <2>1. \A q \in Ranks : /\ Running(q)' <=> Running(q)
                         /\ pc'[q] \in {"reset", "recover"} => pc'[q] = pc[q]
    BY <1>b, <1>c DEF Running
  <2> QED
    BY <1>0, <1>b, <2>1 DEF EpochInv
<1> QED
  BY <1>1, <1>2, <1>3, <1>4 DEF BaseInv

\* A commit.
LEMMA CommitBase == ASSUME BaseInv, NEW r \in Ranks, Commit(r) PROVE BaseInv'
<1>0. TypeOK /\ ControlInv /\ CountInv /\ EpochInv
  BY DEF BaseInv
<1>n. \A q \in Ranks : arrived[q] \in Nat /\ Calls(q) \in Nat /\ returned[q] \in Nat
  BY <1>0, Numbers
<1>h. \A q \in Ranks : Calls(q)' = Calls(q)
  BY DEF Commit, Calls
<1>a. /\ pc[r] = "commit" /\ UNCHANGED <<engine, slot, dirty, min_epoch, hist, returned, broken>>
      /\ pc' = [pc EXCEPT ![r] = "barrier"] /\ arrived' = [arrived EXCEPT ![r] = @ + 1]
      /\ committed_epoch' = [committed_epoch EXCEPT ![r] = NextEpoch(@)]
  BY DEF Commit
<1>b. /\ \A q \in Ranks : q # r => /\ pc'[q] = pc[q] /\ arrived'[q] = arrived[q]
                                   /\ committed_epoch'[q] = committed_epoch[q]
      /\ pc'[r] = "barrier" /\ arrived'[r] = arrived[r] + 1
      /\ committed_epoch'[r] = NextEpoch(committed_epoch[r])
  BY <1>0, <1>a DEF TypeOK
<1>c. arrived[r] < Calls(r) /\ Calls(r) <= MaxCalls
  BY <1>0, <1>a DEF ControlInv
<1>1. TypeOK'
  <2>1. committed_epoch' \in [Ranks -> Epochs]
    <3>1. NextEpoch(committed_epoch[r]) \in Epochs
      BY <1>0, NextFacts DEF TypeOK
    <3> QED
      BY <1>0, <1>a, <3>1 DEF TypeOK
  <2>2. arrived' \in [Ranks -> 0 .. MaxCalls]
    <3>1. arrived[r] + 1 \in 0 .. MaxCalls /\ arrived \in [Ranks -> 0 .. MaxCalls]
      BY <1>0, <1>n, <1>c, MpiAssumption DEF TypeOK
    <3> QED
      BY <1>a, <3>1
  <2>3. pc' \in [Ranks -> {"run", "commit", "barrier", "open", "exit", "reset", "recover"}]
    BY <1>0, <1>a DEF TypeOK
  <2>4. state_pm' \in [Ranks -> [0 .. 1 -> (SUBSET States) \ {{}}]]
    BY <1>0, StatesStep
  <2> QED
    BY <1>0, <1>a, <2>1, <2>2, <2>3, <2>4 DEF TypeOK
<1>2. ControlInv'
  <2>1. \A q \in Ranks : arrived'[q] <= Calls(q)
    BY <1>0, <1>n, <1>b, <1>c DEF ControlInv
  <2> QED
    BY <1>0, <1>a, <1>b, <1>h, <2>1 DEF ControlInv, Running
<1>3. CountInv'
  BY <1>0, <1>n, <1>a, <1>b DEF CountInv
<1>4. EpochInv'
  <2>1. \A q \in Ranks : /\ Running(q)' <=> Running(q)
                         /\ pc'[q] \in {"reset", "recover"} => pc'[q] = pc[q] /\ q # r
    BY <1>a, <1>b DEF Running
  <2>2. Running(r) /\ UNCHANGED min_epoch
    BY <1>a DEF Running
  <2>3. ASSUME NEW p \in Ranks, NEW q \in Ranks, Running(p), Running(q)
        PROVE  /\ arrived'[q] = arrived'[p] => committed_epoch'[q] = committed_epoch'[p]
               /\ arrived'[q] = arrived'[p] + 1 => committed_epoch'[q] = NextEpoch(committed_epoch'[p])
    <3>1. arrived[r] <= arrived[p] /\ arrived[r] <= arrived[q]
      BY <1>0, <1>a DEF CountInv
    <3>2. CASE p # r /\ q # r
      BY <1>0, <1>b, <2>3, <3>2 DEF EpochInv
    <3>3. CASE p = r /\ q = r
      BY <1>n, <1>b, <3>3
    <3>4. CASE p = r /\ q # r
      BY <1>0, <1>n, <1>b, <2>2, <2>3, <3>1, <3>4 DEF EpochInv, CountInv
    <3>5. CASE p # r /\ q = r
      BY <1>0, <1>n, <1>b, <2>2, <2>3, <3>1, <3>5 DEF EpochInv, CountInv
    <3> QED
      BY <3>2, <3>3, <3>4, <3>5
  <2>4. ASSUME NEW q \in Ranks, NEW p \in Ranks, pc[q] \in {"reset", "recover"}, Running(p)
        PROVE  /\ arrived'[p] = 0 => committed_epoch'[p] = NextEpoch(min_epoch)
               /\ arrived'[p] = 1 => committed_epoch'[p] = NextEpoch(NextEpoch(min_epoch))
    <3>1. CASE p # r
      BY <1>0, <1>b, <2>4, <3>1 DEF EpochInv
    <3>2. CASE p = r
      <4>1. arrived[q] = 0 /\ arrived[r] <= arrived[q]
        BY <1>0, <1>a, <2>4 DEF ControlInv, CountInv, Running
      <4>2. arrived[r] = 0
        BY <1>n, <4>1
      <4>3. committed_epoch[r] = NextEpoch(min_epoch)
        BY <1>0, <2>2, <2>4, <4>2 DEF EpochInv
      <4> QED
        BY <1>b, <3>2, <4>2, <4>3
    <3> QED
      BY <3>1, <3>2
  <2>5. \A q \in Ranks : /\ pc[q] = "reset" => committed_epoch[q] \in {min_epoch, min_epoch + 1}
                         /\ pc[q] = "recover" => committed_epoch[q] = min_epoch
    BY <1>0 DEF EpochInv
  <2> QED
    BY <1>b, <2>1, <2>2, <2>3, <2>4, <2>5 DEF EpochInv
<1> QED
  BY <1>1, <1>2, <1>3, <1>4 DEF BaseInv

\* The barrier is passed.
LEMMA PassBase == ASSUME BaseInv, NEW r \in Ranks, Pass(r) PROVE BaseInv'
<1>0. TypeOK /\ ControlInv /\ CountInv /\ EpochInv
  BY DEF BaseInv
<1>n. \A q \in Ranks : arrived[q] \in Nat /\ Calls(q) \in Nat /\ returned[q] \in Nat
  BY <1>0, Numbers
<1>h. \A q \in Ranks : Calls(q)' = Calls(q)
  BY DEF Pass, Calls
<1>a. /\ pc[r] = "barrier" /\ \A q \in Ranks : arrived[q] >= arrived[r]
      /\ UNCHANGED <<engine, committed_epoch, dirty, arrived, min_epoch, hist, broken>>
      /\ pc' = [pc EXCEPT ![r] = "run"] /\ returned' = [returned EXCEPT ![r] = Calls(r)]
      /\ slot' = [slot EXCEPT ![r] = [i \in 0 .. 1 |-> slot[r][committed_epoch[r] % 2]]]
  BY DEF Pass, AllArrived, Active
<1>b. /\ \A q \in Ranks : q # r => pc'[q] = pc[q] /\ returned'[q] = returned[q]
      /\ pc'[r] = "run" /\ returned'[r] = Calls(r)
  BY <1>0, <1>a DEF TypeOK
<1>1. TypeOK'
  <2>1. slot' \in [Ranks -> [0 .. 1 -> 0 .. MaxCalls]]
    <3>1. slot \in [Ranks -> [0 .. 1 -> 0 .. MaxCalls]] /\ committed_epoch[r] % 2 \in 0 .. 1
      BY <1>0, NextFacts DEF TypeOK
    <3>2. [i \in 0 .. 1 |-> slot[r][committed_epoch[r] % 2]] \in [0 .. 1 -> 0 .. MaxCalls]
      BY <3>1
    <3> QED
      BY <1>a, <3>1, <3>2
  <2>2. returned' \in [Ranks -> 0 .. MaxCalls]
    <3>1. Calls(r) \in 0 .. MaxCalls
      BY <1>0, <1>n, MpiAssumption DEF ControlInv
    <3> QED
      BY <1>0, <1>a, <3>1 DEF TypeOK
  <2>3. pc' \in [Ranks -> {"run", "commit", "barrier", "open", "exit", "reset", "recover"}]
    BY <1>0, <1>a DEF TypeOK
  <2>4. state_pm' \in [Ranks -> [0 .. 1 -> (SUBSET States) \ {{}}]]
    BY <1>0, StatesStep
  <2> QED
    BY <1>0, <1>a, <2>1, <2>2, <2>3, <2>4 DEF TypeOK
<1>2. ControlInv'
  BY <1>0, <1>n, <1>a, <1>b, <1>h DEF ControlInv, Running
<1>3. CountInv'
  BY <1>0, <1>n, <1>a, <1>b DEF CountInv
<1>4. EpochInv'
  <2>1. \A q \in Ranks : /\ Running(q)' <=> Running(q)
                         /\ pc'[q] \in {"reset", "recover"} => pc'[q] = pc[q]
    BY <1>a, <1>b DEF Running
  <2> QED
    BY <1>0, <1>a, <2>1 DEF EpochInv
<1> QED
  BY <1>1, <1>2, <1>3, <1>4 DEF BaseInv

\* A crash.
LEMMA CrashBase == ASSUME BaseInv, Crash PROVE BaseInv'
<1>0. TypeOK /\ ControlInv /\ CountInv /\ EpochInv
  BY DEF BaseInv
<1>n. \A q \in Ranks : arrived[q] \in Nat /\ Calls(q) \in Nat /\ returned[q] \in Nat
  BY <1>0, Numbers
<1>h. \A q \in Ranks : Calls(q)' = Calls(q)
  BY DEF Crash, Calls
<1>a. /\ UNCHANGED <<engine, committed_epoch, slot, state_pm, min_epoch, hist, returned>>
      /\ \A q \in Ranks : pc'[q] = "open" /\ arrived'[q] = 0 /\ ~Running(q)'
  BY DEF Crash, Running
<1>1. TypeOK'
  <2>1. dirty' \in [Ranks -> BOOLEAN]
    BY Zenon DEF Crash
  <2>2. arrived' \in [Ranks -> 0 .. MaxCalls] /\ pc' \in [Ranks -> {"run", "commit", "barrier", "open", "exit", "reset", "recover"}]
    BY MpiAssumption DEF Crash
  <2>3. broken' \subseteq {"idle", "undone", "ahead", "unreset", "wrap"}
    BY <1>0 DEF TypeOK, Crash
  <2> QED
    BY <1>0, <1>a, <2>1, <2>2, <2>3 DEF TypeOK
<1>2. ControlInv'
  BY <1>0, <1>n, <1>a, <1>h DEF ControlInv
<1>3. CountInv'
  BY <1>a DEF CountInv
<1>4. EpochInv'
  BY <1>a DEF EpochInv
<1> QED
  BY <1>1, <1>2, <1>3, <1>4 DEF BaseInv

\* What the processes agree on: an epoch, and the call it restores.
LEMMA AgreeStep ==
  ASSUME BaseInv, Agree
  PROVE  \/ Unrecoverable /\ pc' = [r \in Ranks |-> "exit"] /\ UNCHANGED <<min_epoch, hist, returned>>
         \/ /\ ~Unrecoverable /\ pc' = [r \in Ranks |-> "reset"] /\ min_epoch' = MinEpoch
            /\ Common(MinEpoch) = {} /\ UNCHANGED <<hist, returned>>
         \/ /\ ~Unrecoverable /\ pc' = [r \in Ranks |-> "reset"] /\ min_epoch' = MinEpoch
            /\ \E n \in Common(MinEpoch) :
                 /\ hist' = [r \in Ranks |-> SubSeq(hist[r], 1, n)]
                 /\ returned' = [r \in Ranks |-> n]
<1>1. Common(MinEpoch) \in SUBSET (0 .. MaxCalls) /\ MaxCalls \in Nat
  BY MpiAssumption DEF Common
<1>2. Common(MinEpoch) # {} => Max(Common(MinEpoch)) \in Common(MinEpoch)
  BY <1>1, MaxExists
<1> QED
  BY <1>2 DEF Agree

\* A history is cut.
LEMMA CutFacts ==
  ASSUME TypeOK, NEW r \in Ranks, NEW n \in 0 .. Calls(r)
  PROVE  /\ SubSeq(hist[r], 1, n) \in Seq(0 .. MaxCalls) /\ Len(SubSeq(hist[r], 1, n)) = n
         /\ \A i \in 1 .. n : SubSeq(hist[r], 1, n)[i] = hist[r][i]
<1> DEFINE T == 0 .. MaxCalls
           s == hist[r]
<1>1. s \in Seq(T) /\ n \in Nat /\ n <= Len(s) /\ Len(s) \in Nat
  BY AtType DEF TypeOK, Calls
<1> HIDE DEF T, s
<1>2. \A i \in 1 .. n : s[i] \in T
  BY <1>1
<1>3. SubSeq(s, 1, n) = [i \in 1 .. n |-> s[i]]
  BY <1>1
<1> QED
  BY <1>1, <1>2, <1>3 DEF s, T

\* The processes agree.
LEMMA AgreeBase == ASSUME BaseInv, Agree PROVE BaseInv'
<1>0. TypeOK /\ ControlInv /\ CountInv /\ EpochInv
  BY DEF BaseInv
<1>n. \A q \in Ranks : arrived[q] \in Nat /\ Calls(q) \in Nat /\ returned[q] \in Nat
  BY <1>0, Numbers
<1>a. /\ \A q \in Ranks : pc[q] = "open"
      /\ UNCHANGED <<engine, committed_epoch, slot, state_pm, dirty, arrived, broken>>
  BY DEF Agree
<1>b. /\ pc' = [r \in Ranks |-> "exit"] \/ pc' = [r \in Ranks |-> "reset"]
      /\ pc' = [r \in Ranks |-> "reset"] => ~Unrecoverable /\ min_epoch' = MinEpoch
      /\ min_epoch' \in {min_epoch, MinEpoch}
  <2>1. Ranks # {}
    BY MpiAssumption
  <2>2. [r \in Ranks |-> "exit"] # [r \in Ranks |-> "reset"]
    BY <2>1
  <2> QED
    BY <2>2, AgreeStep
<1>c. /\ hist' \in [Ranks -> Seq(0 .. MaxCalls)] /\ returned' \in [Ranks -> 0 .. MaxCalls]
      /\ \A q \in Ranks : Calls(q)' <= MaxCalls /\ returned'[q] <= Calls(q)' /\ Calls(q)' \in Nat
  <2>1. CASE UNCHANGED <<hist, returned>>
    BY <1>0, <1>n, <2>1 DEF TypeOK, ControlInv, Calls
  <2>2. CASE \E n \in Common(MinEpoch) : /\ hist' = [r \in Ranks |-> SubSeq(hist[r], 1, n)]
                                         /\ returned' = [r \in Ranks |-> n]
    <3>1. PICK n \in Common(MinEpoch) : /\ hist' = [r \in Ranks |-> SubSeq(hist[r], 1, n)]
                                        /\ returned' = [r \in Ranks |-> n]
      BY <2>2
    <3>2. n \in 0 .. MaxCalls /\ \A q \in Ranks : n <= Calls(q)
      BY DEF Common
    <3>3. \A q \in Ranks : n \in 0 .. Calls(q)
      BY <1>n, <3>2
    <3>4. ASSUME NEW q \in Ranks
          PROVE  SubSeq(hist[q], 1, n) \in Seq(0 .. MaxCalls) /\ Len(SubSeq(hist[q], 1, n)) = n
      BY <1>0, <3>3, <3>4, CutFacts
    <3> QED
      BY <3>1, <3>2, <3>4 DEF Calls
  <2> QED
    BY <2>1, <2>2, AgreeStep
<1>1. TypeOK'
  <2>1. min_epoch' \in Epochs
    BY <1>0, <1>b, MinEpochFacts DEF TypeOK
  <2>2. pc' \in [Ranks -> {"run", "commit", "barrier", "open", "exit", "reset", "recover"}]
    BY <1>b
  <2> QED
    BY <1>0, <1>a, <1>c, <2>1, <2>2 DEF TypeOK
<1>2. ControlInv'
  <2>1. \A q \in Ranks : arrived'[q] = 0
    BY <1>0, <1>a DEF ControlInv, Running
  <2>2. \A p, q \in Ranks : pc'[p] = pc'[q] /\ pc'[p] \in {"exit", "reset"}
    BY <1>b
  <2> QED
    BY <1>c, <2>1, <2>2 DEF ControlInv
<1>3. CountInv'
  <2>1. \A q \in Ranks : arrived'[q] = 0
    BY <1>0, <1>a DEF ControlInv, Running
  <2> QED
    BY <2>1 DEF CountInv
<1>4. EpochInv'
  <2>1. \A q \in Ranks : ~Running(q)' /\ pc'[q] # "recover"
    BY <1>b DEF Running
  <2>2. ASSUME NEW q \in Ranks, pc'[q] = "reset"
        PROVE  committed_epoch'[q] \in {min_epoch', min_epoch' + 1}
    <3>1. ~Unrecoverable /\ min_epoch' = MinEpoch
      BY <1>b, <2>2
    <3>2. MinEpoch \in Nat /\ committed_epoch[q] \in Nat /\ MinEpoch <= committed_epoch[q]
      BY <1>0, MinEpochFacts, NextFacts DEF TypeOK
    <3>3. ~(committed_epoch[q] - MinEpoch >= 2)
      BY <3>1 DEF Unrecoverable
    <3> QED
      BY <1>a, <3>1, <3>2, <3>3
  <2> QED
    BY <2>1, <2>2 DEF EpochInv
<1> QED
  BY <1>1, <1>2, <1>3, <1>4 DEF BaseInv

\* A process gives up the epoch the others did not reach.
LEMMA ResetBase == ASSUME BaseInv, NEW r \in Ranks, Reset(r) PROVE BaseInv'
<1>0. TypeOK /\ ControlInv /\ CountInv /\ EpochInv
  BY DEF BaseInv
<1>n. \A q \in Ranks : arrived[q] \in Nat /\ Calls(q) \in Nat /\ returned[q] \in Nat
  BY <1>0, Numbers
<1>h. \A q \in Ranks : Calls(q)' = Calls(q)
  BY DEF Reset, Calls
<1>a. /\ pc[r] = "reset" /\ UNCHANGED <<engine, slot, state_pm, dirty, arrived, min_epoch, hist, returned, broken>>
      /\ pc' = [pc EXCEPT ![r] = "recover"]
      /\ committed_epoch' = [committed_epoch EXCEPT ![r] = min_epoch]
  BY DEF Reset, reset_committed_epoch
<1>b. /\ \A q \in Ranks : q # r => pc'[q] = pc[q] /\ committed_epoch'[q] = committed_epoch[q]
      /\ pc'[r] = "recover" /\ committed_epoch'[r] = min_epoch
  BY <1>0, <1>a DEF TypeOK
<1>1. TypeOK'
  BY <1>0, <1>a DEF TypeOK
<1>2. ControlInv'
  BY <1>0, <1>a, <1>b, <1>h DEF ControlInv, Running
<1>3. CountInv'
  BY <1>0, <1>a, <1>b DEF CountInv
<1>4. EpochInv'
  <2>1. \A q \in Ranks : /\ Running(q)' => Running(q) /\ q # r
                         /\ pc'[q] \in {"reset", "recover"} => pc[q] \in {"reset", "recover"}
    BY <1>a, <1>b DEF Running
  <2> QED
    BY <1>0, <1>a, <1>b, <2>1 DEF EpochInv
<1> QED
  BY <1>1, <1>2, <1>3, <1>4 DEF BaseInv

\* A process recovers.
LEMMA RecoverBase == ASSUME BaseInv, NEW r \in Ranks, Recover(r) PROVE BaseInv'
<1>0. TypeOK /\ ControlInv /\ CountInv /\ EpochInv
  BY DEF BaseInv
<1>n. \A q \in Ranks : arrived[q] \in Nat /\ Calls(q) \in Nat /\ returned[q] \in Nat
  BY <1>0, Numbers
<1>h. \A q \in Ranks : Calls(q)' = Calls(q)
  BY DEF Recover, Calls
<1>a. /\ pc[r] = "recover" /\ UNCHANGED <<engine, dirty, arrived, min_epoch, hist, returned, broken>>
      /\ pc' = [pc EXCEPT ![r] = "run"]
      /\ slot' = [slot EXCEPT ![r] = [i \in 0 .. 1 |-> slot[r][committed_epoch[r] % 2]]]
      /\ committed_epoch' = [committed_epoch EXCEPT ![r] = NextEpoch(@)]
  BY DEF Recover, RecoveredSlots, Active
<1>b. /\ \A q \in Ranks : q # r => pc'[q] = pc[q] /\ committed_epoch'[q] = committed_epoch[q]
      /\ pc'[r] = "run" /\ committed_epoch'[r] = NextEpoch(min_epoch)
  BY <1>0, <1>a DEF TypeOK, EpochInv
<1>c. arrived[r] = 0 /\ \A q \in Ranks : arrived[q] <= 1
  <2>1. arrived[r] = 0
    BY <1>0, <1>a DEF ControlInv, Running
  <2> QED
    BY <1>0, <1>n, <2>1 DEF CountInv
<1>1. TypeOK'
  <2>1. slot' \in [Ranks -> [0 .. 1 -> 0 .. MaxCalls]]
    <3>1. slot \in [Ranks -> [0 .. 1 -> 0 .. MaxCalls]] /\ committed_epoch[r] % 2 \in 0 .. 1
      BY <1>0, NextFacts DEF TypeOK
    <3>2. [i \in 0 .. 1 |-> slot[r][committed_epoch[r] % 2]] \in [0 .. 1 -> 0 .. MaxCalls]
      BY <3>1
    <3> QED
      BY <1>a, <3>1, <3>2
  <2>2. committed_epoch' \in [Ranks -> Epochs]
    <3>1. NextEpoch(committed_epoch[r]) \in Epochs
      BY <1>0, NextFacts DEF TypeOK
    <3> QED
      BY <1>0, <1>a, <3>1 DEF TypeOK
  <2>3. state_pm' \in [Ranks -> [0 .. 1 -> (SUBSET States) \ {{}}]]
    BY <1>0, StatesStep
  <2> QED
    BY <1>0, <1>a, <2>1, <2>2, <2>3 DEF TypeOK
<1>2. ControlInv'
  BY <1>0, <1>a, <1>b, <1>h DEF ControlInv, Running
<1>3. CountInv'
  BY <1>0, <1>n, <1>a, <1>b, <1>c DEF CountInv
<1>4. EpochInv'
  <2>1. \A q \in Ranks : /\ Running(q)' <=> (Running(q) \/ q = r)
                         /\ pc'[q] \in {"reset", "recover"} => pc'[q] = pc[q] /\ q # r
    BY <1>a, <1>b DEF Running
  <2>2. ASSUME NEW q \in Ranks, Running(q)
        PROVE  /\ arrived[q] = 0 => committed_epoch[q] = NextEpoch(min_epoch)
               /\ arrived[q] = 1 => committed_epoch[q] = NextEpoch(NextEpoch(min_epoch))
    BY <1>0, <1>a, <2>2 DEF EpochInv
  <2>3. ASSUME NEW p \in Ranks, NEW q \in Ranks, Running(p) \/ p = r, Running(q) \/ q = r
        PROVE  /\ arrived[q] = arrived[p] => committed_epoch'[q] = committed_epoch'[p]
               /\ arrived[q] = arrived[p] + 1 => committed_epoch'[q] = NextEpoch(committed_epoch'[p])
    <3>1. CASE p # r /\ q # r
      BY <1>0, <1>b, <2>3, <3>1 DEF EpochInv
    <3>2. CASE p = r \/ q = r
      BY <1>n, <1>b, <1>c, <2>2, <2>3, <3>2
    <3> QED
      BY <3>1, <3>2
  <2> QED
    BY <1>0, <1>a, <1>b, <1>c, <2>1, <2>2, <2>3 DEF EpochInv
<1> QED
  BY <1>1, <1>2, <1>3, <1>4 DEF BaseInv

LEMMA NextBase == BaseInv /\ [Next]_vars => BaseInv'
<1> SUFFICES ASSUME BaseInv, [Next]_vars PROVE BaseInv'
  OBVIOUS
<1>1. CASE UNCHANGED vars
  BY <1>1 DEF vars, BaseInv, TypeOK, ControlInv, CountInv, EpochInv, Calls, Running
<1>2. CASE \E r \in Ranks : \/ Store(r) \/ Call(r) \/ Commit(r) \/ Pass(r) \/ Reset(r) \/ Recover(r)
  BY <1>2, StoreBase, CallBase, CommitBase, PassBase, ResetBase, RecoverBase
<1>3. CASE Agree \/ Crash
  BY <1>3, AgreeBase, CrashBase
<1> QED
  BY <1>1, <1>2, <1>3 DEF Next

LEMMA BaseInductive == Spec => []BaseInv
BY InitBase, NextBase, PTL DEF Spec

-----------------------------------------------------------------------------
(* The epochs are close.                                                   *)

\* Processes that do not run ahead of a recovery are at most one epoch apart.
LEMMA ProcessesClose ==
  ASSUME BaseInv, OpenInv, broken = {}, ~Ahead, NEW q \in Ranks, NEW r \in Ranks
  PROVE  Close(committed_epoch[q], committed_epoch[r])
<1>0. TypeOK /\ ControlInv /\ CountInv /\ EpochInv
  BY DEF BaseInv
<1>n. \A p \in Ranks : arrived[p] \in Nat
  BY <1>0, Numbers
<1>1. CASE pc[q] \in {"open", "exit"} \/ pc[r] \in {"open", "exit"}
  BY <1>0, <1>1 DEF OpenInv, ControlInv
<1>2. CASE Running(q) /\ Running(r)
  <2>1. arrived[q] = arrived[r] \/ arrived[q] = arrived[r] + 1 \/ arrived[r] = arrived[q] + 1
    <3>1. arrived[q] <= arrived[r] + 1 /\ arrived[r] <= arrived[q] + 1
      BY <1>0 DEF CountInv
    <3> QED
      BY <1>n, <3>1
  <2> QED
    BY <1>0, <1>2, <2>1 DEF EpochInv, Close
<1>3. ASSUME NEW p \in Ranks, pc[p] \in {"reset", "recover"}
      PROVE  committed_epoch[p] = min_epoch \/ committed_epoch[p] = NextEpoch(min_epoch)
  <2>1. committed_epoch[p] \in {min_epoch, min_epoch + 1} /\ committed_epoch[p] \in Epochs /\ min_epoch \in Epochs
    BY <1>0, <1>3 DEF EpochInv, TypeOK
  <2>2. min_epoch \in Nat /\ NextEpoch(min_epoch) = IF min_epoch = kEpochModulus - 1 THEN 0 ELSE min_epoch + 1
    BY <2>1, NextFacts
  <2>3. committed_epoch[p] \in Nat /\ committed_epoch[p] < kEpochModulus
    BY <2>1, NextFacts
  <2>4. kEpochModulus \in Nat
    BY MpiAssumption
  <2> QED
    BY <2>1, <2>2, <2>3, <2>4
<1>4. ASSUME NEW p \in Ranks, NEW s \in Ranks, pc[p] \in {"reset", "recover"}, Running(s)
      PROVE  committed_epoch[s] = NextEpoch(min_epoch)
  <2>1. pc[s] = "run" /\ arrived[p] = 0
    BY <1>0, <1>4 DEF Ahead, Running, ControlInv
  <2>2. arrived[s] <= 0
    BY <1>0, <2>1 DEF CountInv
  <2>3. arrived[s] = 0
    BY <1>n, <2>2
  <2> QED
    BY <1>0, <1>4, <2>3 DEF EpochInv
<1>5. pc[q] \in {"reset", "recover"} \/ Running(q) \/ pc[q] \in {"open", "exit"}
  BY <1>0 DEF TypeOK, Running
<1>6. pc[r] \in {"reset", "recover"} \/ Running(r) \/ pc[r] \in {"open", "exit"}
  BY <1>0 DEF TypeOK, Running
<1> QED
  BY <1>1, <1>2, <1>3, <1>4, <1>5, <1>6 DEF Close

\* Close epochs on the same side of the wrap can be recovered.
LEMMA CanRecover ==
  ASSUME TypeOK, ~Wrapped, \A q, r \in Ranks : Close(committed_epoch[q], committed_epoch[r])
  PROVE  ~Unrecoverable
<1> SUFFICES ASSUME Unrecoverable PROVE FALSE
  OBVIOUS
<1>1. PICK r \in Ranks : committed_epoch[r] - MinEpoch >= 2
  BY DEF Unrecoverable
<1>2. PICK q \in Ranks : committed_epoch[q] = MinEpoch
  BY MinEpochFacts
<1>3. committed_epoch[q] \in Epochs /\ committed_epoch[r] \in Epochs
  BY DEF TypeOK
<1>4. Close(committed_epoch[q], committed_epoch[r])
  OBVIOUS
<1>5. committed_epoch[q] = 0 /\ committed_epoch[r] = kEpochModulus - 1
  <2> DEFINE a == committed_epoch[q]
             b == committed_epoch[r]
  <2>1. a \in Nat /\ NextEpoch(a) = IF a = kEpochModulus - 1 THEN 0 ELSE a + 1
    BY <1>3, NextFacts
  <2>2. b \in Nat /\ NextEpoch(b) = IF b = kEpochModulus - 1 THEN 0 ELSE b + 1
    BY <1>3, NextFacts
  <2>3. b - a >= 2 /\ (a = b \/ a = NextEpoch(b) \/ b = NextEpoch(a))
    BY <1>1, <1>2, <1>4 DEF Close
  <2> HIDE DEF a, b
  <2>4. a = 0 /\ b = kEpochModulus - 1
    BY <2>1, <2>2, <2>3, MpiAssumption
  <2> QED
    BY <2>4 DEF a, b
<1> QED
  BY <1>5 DEF Wrapped

\* A step of one process leaves all of them live.
LEMMA StaysLive ==
  ASSUME BaseInv, NEW r \in Ranks,
         Store(r) \/ Call(r) \/ Commit(r) \/ Pass(r) \/ Reset(r) \/ Recover(r)
  PROVE  \A q \in Ranks : Live(q) /\ Live(q)'
<1>1. pc \in [Ranks -> {"run", "commit", "barrier", "open", "exit", "reset", "recover"}] /\ ControlInv
  BY DEF BaseInv, TypeOK
<1>2. Live(r)
  BY DEF Live, Store, Call, Commit, Pass, Reset, Recover
<1>3. \A q \in Ranks : Live(q)
  BY <1>1, <1>2 DEF ControlInv, Live
<1>4. pc' = pc \/ \E s \in {"run", "commit", "barrier", "recover"} : pc' = [pc EXCEPT ![r] = s]
  BY DEF Store, Call, Commit, Pass, Reset, Recover
<1> QED
  BY <1>1, <1>3, <1>4 DEF Live

LEMMA NextOpen == BaseInv /\ OpenInv /\ [Next]_vars => OpenInv'
<1> SUFFICES ASSUME BaseInv, OpenInv, [Next]_vars PROVE OpenInv'
  OBVIOUS
<1>1. CASE UNCHANGED vars
  BY <1>1 DEF vars, OpenInv, Wrapped
<1>2. CASE \E r \in Ranks : \/ Store(r) \/ Call(r) \/ Commit(r) \/ Pass(r) \/ Reset(r) \/ Recover(r)
  <2>1. \A q \in Ranks : Live(q)'
    BY <1>2, StaysLive
  <2> QED
    BY <2>1 DEF OpenInv, Live
<1>3. CASE Crash
  <2> SUFFICES ASSUME broken' = {} PROVE OpenInv'
    BY DEF OpenInv
  <2>1. broken = {} /\ ~Ahead /\ ~Wrapped
    BY <1>3 DEF Crash
  <2>2. \A q, r \in Ranks : Close(committed_epoch[q], committed_epoch[r])
    BY <2>1, ProcessesClose
  <2>3. committed_epoch' = committed_epoch /\ \A r \in Ranks : pc'[r] = "open"
    BY <1>3 DEF Crash
  <2>4. ~Wrapped'
    BY <2>1, <2>3 DEF Wrapped
  <2> QED
    BY <2>2, <2>3, <2>4 DEF OpenInv
<1>4. CASE Agree
  <2> SUFFICES ASSUME broken' = {} PROVE OpenInv'
    BY DEF OpenInv
  <2>1. broken = {} /\ \A r \in Ranks : pc[r] = "open"
    BY <1>4 DEF Agree
  <2>2. ~Wrapped /\ \A q, r \in Ranks : Close(committed_epoch[q], committed_epoch[r])
    BY <2>1, MpiAssumption DEF OpenInv
  <2>3. ~Unrecoverable
    BY <2>2, CanRecover DEF BaseInv
  <2>4. \A r \in Ranks : pc'[r] = "reset"
    BY <1>4, <2>3 DEF Agree
  <2> QED
    BY <2>4 DEF OpenInv
<1> QED
  BY <1>1, <1>2, <1>3, <1>4 DEF Next

LEMMA OpenInductive == Spec => [](BaseInv /\ OpenInv)
<1>1. Init => OpenInv
  BY DEF Init, OpenInv
<1> QED
  BY <1>1, InitBase, NextBase, NextOpen, PTL DEF Spec

\* In every state, for any number of processes and of checkpoints and however
\* often they crash and recover, the epochs of two processes differ by at most
\* one modulo the wrap, as long as none has begun a checkpoint before another
\* one has recovered (committed_epoch in checkpoint_for_mpi and OpenForMPI).
THEOREM EpochsStayClose == Spec => []EpochsClose
<1>1. ASSUME BaseInv, OpenInv PROVE EpochsClose
  <2>1. TypeOK
    BY <1>1 DEF BaseInv
  <2>2. ASSUME NEW q \in Ranks, NEW r \in Ranks, ~Ahead, broken = {}
        PROVE  (committed_epoch[r] - committed_epoch[q]) % kEpochModulus \in {0, 1, kEpochModulus - 1}
    <3>1. Close(committed_epoch[r], committed_epoch[q])
      BY <1>1, <2>2, ProcessesClose
    <3>2. committed_epoch[q] \in Epochs /\ committed_epoch[r] \in Epochs
      BY <2>1 DEF TypeOK
    <3> QED
      BY <3>1, <3>2, CloseMod
  <2> QED
    BY <2>1, <2>2 DEF EpochsClose
<1>2. BaseInv /\ OpenInv => EpochsClose
  BY <1>1
<1> QED
  BY <1>2, OpenInductive, PTL

-----------------------------------------------------------------------------
(* Histories.                                                              *)

LEMMA ValAt == \A r \in Ranks : \A n \in Nat : At(r, n) = Val(hist[r], n)
BY DEF At, Val

\* A call is added.
LEMMA AppendVal ==
  ASSUME NEW h \in Seq(0 .. MaxCalls), NEW c \in 0 .. MaxCalls
  PROVE  /\ Len(Append(h, c)) = Len(h) + 1
         /\ \A n \in 0 .. Len(h) : Val(Append(h, c), n) = Val(h, n)
         /\ Val(Append(h, c), Len(h) + 1) = c
<1>1. /\ Len(Append(h, c)) = Len(h) + 1 /\ Len(h) \in Nat
      /\ \A n \in 1 .. Len(h) : Append(h, c)[n] = h[n]
      /\ Append(h, c)[Len(h) + 1] = c
  OBVIOUS
<1>2. \A n \in 0 .. Len(h) : n = 0 \/ n \in 1 .. Len(h)
  BY <1>1
<1> QED
  BY <1>1, <1>2 DEF Val

LEMMA AppendOK ==
  ASSUME NEW h \in Seq(0 .. MaxCalls), NEW c \in 0 .. MaxCalls, HistOK(h),
         c = Len(h) + 1 \/ c = Val(h, Len(h))
  PROVE  HistOK(Append(h, c))
<1> DEFINE L == Len(h)
           g == Append(h, c)
<1>1. L \in Nat /\ Len(g) = L + 1 /\ (\A n \in 0 .. L : Val(g, n) = Val(h, n)) /\ Val(g, L + 1) = c
  BY AppendVal
<1>2. \A n \in 0 .. L : /\ n > 0 => Val(h, n) = n \/ Val(h, n) = Val(h, n - 1)
                        /\ Val(h, n) \in 0 .. n /\ Val(h, Val(h, n)) = Val(h, n)
                        /\ \A m \in 0 .. n : Val(h, m) <= Val(h, n)
  BY DEF HistOK
<1>3. c = L + 1 \/ c = Val(h, L)
  OBVIOUS
<1> HIDE DEF L, g
<1>4. ASSUME NEW n \in 0 .. L
      PROVE  /\ n > 0 => Val(g, n) = n \/ Val(g, n) = Val(g, n - 1)
             /\ Val(g, n) \in 0 .. n /\ Val(g, Val(g, n)) = Val(g, n)
             /\ \A m \in 0 .. n : Val(g, m) <= Val(g, n)
  <2>1. Val(g, n) = Val(h, n) /\ \A m \in 0 .. n : m \in 0 .. L /\ Val(g, m) = Val(h, m)
    BY <1>1
  <2>2. n > 0 => n - 1 \in 0 .. n
    BY <1>1
  <2> QED
    BY <1>2, <2>1, <2>2
<1>5. /\ c \in 0 .. (L + 1) /\ Val(g, c) = c
      /\ c = L + 1 \/ c = Val(g, L)
      /\ \A m \in 0 .. (L + 1) : Val(g, m) <= c
  <2>0. L \in 0 .. L
    BY <1>1
  <2>1. CASE c = L + 1
    <3>1. \A m \in 0 .. L : Val(g, m) \in 0 .. m
      BY <1>4
    <3>2. \A m \in 0 .. (L + 1) : m \in 0 .. L \/ m = L + 1
      BY <1>1
    <3>3. \A m \in 0 .. (L + 1) : Val(g, m) <= L + 1
      BY <1>1, <2>1, <3>1, <3>2
    <3> QED
      BY <1>1, <2>1, <3>3
  <2>2. CASE c = Val(h, L)
    <3>1. c = Val(g, L) /\ c \in 0 .. L
      BY <1>1, <1>2, <2>0, <2>2
    <3>2. Val(g, c) = c /\ \A m \in 0 .. L : Val(g, m) <= c
      BY <1>4, <2>0, <3>1
    <3> QED
      BY <1>1, <3>1, <3>2
  <2> QED
    BY <1>3, <2>1, <2>2
<1>6. ASSUME NEW n \in 0 .. Len(g)
      PROVE  /\ n > 0 => Val(g, n) = n \/ Val(g, n) = Val(g, n - 1)
             /\ Val(g, n) \in 0 .. n /\ Val(g, Val(g, n)) = Val(g, n)
             /\ \A m \in 0 .. n : Val(g, m) <= Val(g, n)
  <2>1. CASE n \in 0 .. L
    BY <1>4, <2>1
  <2>2. CASE n = L + 1
    <3>1. n - 1 = L /\ Val(g, n) = c
      BY <1>1, <2>2
    <3> QED
      BY <1>5, <2>2, <3>1
  <2> QED
    BY <1>1, <1>6, <2>1, <2>2
<1> QED
  BY <1>6 DEF HistOK, g

\* A history is cut.
LEMMA CutVal ==
  ASSUME TypeOK, NEW r \in Ranks, NEW n \in 0 .. Calls(r)
  PROVE  /\ Len(SubSeq(hist[r], 1, n)) = n
         /\ \A i \in 0 .. n : Val(SubSeq(hist[r], 1, n), i) = Val(hist[r], i)
<1>1. Len(SubSeq(hist[r], 1, n)) = n /\ \A i \in 1 .. n : SubSeq(hist[r], 1, n)[i] = hist[r][i]
  BY CutFacts
<1>2. n \in Nat /\ \A i \in 0 .. n : i = 0 \/ i \in 1 .. n
  BY AtType
<1> QED
  BY <1>1, <1>2 DEF Val

LEMMA CutOK ==
  ASSUME TypeOK, NEW r \in Ranks, NEW n \in 0 .. Calls(r), HistOK(hist[r])
  PROVE  HistOK(SubSeq(hist[r], 1, n))
<1> DEFINE g == SubSeq(hist[r], 1, n)
           h == hist[r]
<1>1. Len(g) = n /\ (\A i \in 0 .. n : Val(g, i) = Val(h, i)) /\ n \in Nat /\ Len(h) \in Nat /\ n <= Len(h)
  BY CutVal, AtType DEF Calls
<1>2. \A i \in 0 .. Len(h) : /\ i > 0 => Val(h, i) = i \/ Val(h, i) = Val(h, i - 1)
                             /\ Val(h, i) \in 0 .. i /\ Val(h, Val(h, i)) = Val(h, i)
                             /\ \A m \in 0 .. i : Val(h, m) <= Val(h, i)
  BY DEF HistOK
<1> HIDE DEF g, h
<1>3. ASSUME NEW i \in 0 .. Len(g)
      PROVE  /\ i > 0 => Val(g, i) = i \/ Val(g, i) = Val(g, i - 1)
             /\ Val(g, i) \in 0 .. i /\ Val(g, Val(g, i)) = Val(g, i)
             /\ \A m \in 0 .. i : Val(g, m) <= Val(g, i)
  <2>1. i \in 0 .. Len(h) /\ i \in 0 .. n
    BY <1>1
  <2>2. Val(g, i) = Val(h, i) /\ \A m \in 0 .. i : m \in 0 .. n /\ Val(g, m) = Val(h, m)
    BY <1>1, <2>1
  <2>3. i > 0 => i - 1 \in 0 .. i
    BY <2>1
  <2> QED
    BY <1>2, <2>1, <2>2, <2>3
<1> QED
  BY <1>3 DEF HistOK, g

\* Calls that all processes have in common: the same one, or the first with
\* the content they agree on.
LEMMA CommonCall ==
  ASSUME BaseInv, DataInv, NEW T \in [Ranks -> Nat], \A r \in Ranks : T[r] <= Calls(r),
         engine = "NvmInst" => \A q, r \in Ranks : T[q] = T[r],
         engine = "Hybrid" => \A q, r \in Ranks : Val(hist[q], T[q]) = Val(hist[r], T[r])
  PROVE  \E n \in 0 .. MaxCalls : \A r \in Ranks :
           /\ n <= Calls(r) /\ Val(hist[r], n) = Val(hist[r], T[r])
           /\ n = T[r] \/ (engine = "Hybrid" /\ n = Val(hist[r], T[r]))
<1>0. TypeOK /\ ControlInv /\ MaxCalls \in Nat /\ engine \in {"NvmInst", "Hybrid"}
  BY MpiAssumption DEF BaseInv, TypeOK
<1>n. \A r \in Ranks : Calls(r) \in Nat /\ Calls(r) <= MaxCalls
  BY <1>0, Numbers DEF ControlInv
<1>1. PICK p \in Ranks : TRUE
  BY MpiAssumption
<1>2. CASE engine = "NvmInst"
  <2>1. T[p] \in 0 .. MaxCalls /\ \A r \in Ranks : T[r] = T[p] /\ T[p] <= Calls(r)
    BY <1>0, <1>n, <1>2
  <2> QED
    BY <2>1
<1>3. CASE engine = "Hybrid"
  <2> DEFINE n == Val(hist[p], T[p])
  <2>1. ASSUME NEW r \in Ranks
        PROVE  Val(hist[r], T[r]) = n /\ n \in 0 .. T[r] /\ Val(hist[r], n) = n
    <3>1. Val(hist[r], T[r]) = n
      BY <1>3
    <3>2. HistOK(hist[r]) /\ T[r] \in 0 .. Len(hist[r])
      BY <1>n DEF DataInv, Calls
    <3> QED
      BY <3>1, <3>2 DEF HistOK
  <2> HIDE DEF n
  <2>2. n \in 0 .. MaxCalls /\ \A r \in Ranks : n <= Calls(r)
    BY <1>0, <1>n, <1>1, <2>1
  <2> QED
    BY <1>3, <2>1, <2>2
<1> QED
  BY <1>0, <1>2, <1>3

-----------------------------------------------------------------------------
(* What the images restore.                                                *)

\* The call that the slot of epoch e restores in process r.
Target(e) == [r \in Ranks |-> IF pc[r] = "barrier" /\ committed_epoch[r] # e THEN Base(r) - 1 ELSE Base(r)]

\* Calls are numbers, for the processes that are live.
LEMMA BaseFacts ==
  ASSUME BaseInv, NEW r \in Ranks
  PROVE  /\ Calls(r) \in Nat /\ Base(r) \in Nat /\ Base(r) <= Calls(r) /\ Calls(r) <= MaxCalls
         /\ returned[r] \in Nat /\ returned[r] <= Calls(r)
         /\ pc[r] = "barrier" => Base(r) = Calls(r) /\ Base(r) - 1 \in Nat
<1>1. ControlInv /\ Calls(r) \in Nat /\ returned[r] \in Nat
  BY Numbers DEF BaseInv
<1>2. Calls(r) <= MaxCalls /\ returned[r] <= Calls(r) /\ (pc[r] \in {"commit", "barrier"} => returned[r] < Calls(r))
  BY <1>1 DEF ControlInv
<1> QED
  BY <1>1, <1>2 DEF Base

\* Where processes run and others recover, those that run have epoch and slots
\* after the recovery, the others before.
LEMMA RecoveringMin ==
  ASSUME BaseInv, OpenInv, DataInv, broken = {}, ~Ahead, ~Unreset, ~Wrapped,
         \A r \in Ranks : Live(r), NEW p \in Ranks, pc[p] \in {"reset", "recover"}
  PROVE  /\ MinEpoch = min_epoch
         /\ \A r \in Ranks : pc[r] \in {"reset", "recover", "run"} /\ arrived[r] = 0
<1>0. TypeOK /\ ControlInv /\ CountInv /\ EpochInv /\ MinInv
  BY DEF BaseInv, DataInv
<1>1. ASSUME NEW r \in Ranks PROVE pc[r] \in {"reset", "recover", "run"}
  BY <1>0 DEF TypeOK, Live, Ahead
<1>2. ASSUME NEW r \in Ranks PROVE arrived[r] = 0
  <2>1. arrived[p] = 0 /\ pc[r] # "barrier" /\ arrived[r] \in Nat
    BY <1>0, <1>1, Numbers DEF ControlInv, Running
  <2>2. arrived[r] <= arrived[p]
    BY <1>0, <2>1 DEF CountInv
  <2> QED
    BY <2>1, <2>2
<1>3. min_epoch \in Epochs /\ min_epoch \in Nat /\ kEpochModulus \in Nat
      /\ NextEpoch(min_epoch) = IF min_epoch = kEpochModulus - 1 THEN 0 ELSE min_epoch + 1
  BY <1>0, NextFacts, MpiAssumption DEF TypeOK
<1>4. ASSUME NEW r \in Ranks, pc[r] = "run" PROVE committed_epoch[r] = NextEpoch(min_epoch)
  BY <1>0, <1>2, <1>4 DEF EpochInv, Running
<1>5. ASSUME NEW r \in Ranks, pc[r] \in {"reset", "recover"} PROVE committed_epoch[r] \in {min_epoch, min_epoch + 1}
  BY <1>0, <1>5 DEF EpochInv
<1>6. PICK m \in Ranks : committed_epoch[m] = min_epoch
  <2>1. CASE \E r \in Ranks : pc[r] = "run"
    <3>1. pc[p] = "reset" => committed_epoch[p] = min_epoch
      BY <2>1 DEF Unreset
    <3>2. committed_epoch[p] = min_epoch
      BY <1>0, <3>1 DEF EpochInv
    <3> QED
      BY <3>2
  <2>2. CASE ~\E r \in Ranks : pc[r] = "run"
    BY <1>0, <1>1, <2>2 DEF MinInv
  <2> QED
    BY <2>1, <2>2
<1>7. ASSUME NEW r \in Ranks, pc[r] = "run" PROVE min_epoch # kEpochModulus - 1
  <2> SUFFICES ASSUME min_epoch = kEpochModulus - 1 PROVE FALSE
    OBVIOUS
  <2>1. committed_epoch[r] = 0 /\ committed_epoch[m] = kEpochModulus - 1
    BY <1>3, <1>4, <1>6, <1>7
  <2> QED
    BY <2>1 DEF Wrapped
<1>8. \A r \in Ranks : committed_epoch[r] \in {min_epoch, min_epoch + 1}
  BY <1>1, <1>3, <1>4, <1>5, <1>7
<1>9. /\ MinEpoch \in Nat /\ MinEpoch <= committed_epoch[m]
      /\ \E r \in Ranks : committed_epoch[r] = MinEpoch
  <2>1. MinEpoch \in Epochs /\ \A r \in Ranks : MinEpoch <= committed_epoch[r]
    BY <1>0, MinEpochFacts
  <2> QED
    BY <1>0, <2>1, MinEpochFacts, NextFacts
<1>10. MinEpoch = min_epoch
  BY <1>3, <1>6, <1>8, <1>9
<1> QED
  BY <1>1, <1>2, <1>10

\* Where all run, those with the smallest epoch have arrived equally often and
\* the others once more.
LEMMA RunningMin ==
  ASSUME BaseInv, OpenInv, broken = {}, ~Ahead, ~Wrapped,
         \A r \in Ranks : Running(r), NEW m \in Ranks, committed_epoch[m] = MinEpoch, NEW r \in Ranks
  PROVE  \/ committed_epoch[r] = MinEpoch /\ arrived[r] = arrived[m]
         \/ /\ committed_epoch[r] = NextEpoch(MinEpoch) /\ committed_epoch[r] # MinEpoch
            /\ arrived[r] = arrived[m] + 1 /\ pc[r] = "barrier"
<1>0. TypeOK /\ CountInv /\ EpochInv
  BY DEF BaseInv
<1>n. arrived[r] \in Nat /\ arrived[m] \in Nat
  BY <1>0, Numbers
<1>1. arrived[r] = arrived[m] \/ arrived[r] = arrived[m] + 1 \/ arrived[m] = arrived[r] + 1
  <2>1. arrived[r] <= arrived[m] + 1 /\ arrived[m] <= arrived[r] + 1
    BY <1>0 DEF CountInv
  <2> QED
    BY <1>n, <2>1
<1>2. CASE arrived[r] = arrived[m]
  BY <1>0, <1>2 DEF EpochInv
<1>3. CASE arrived[r] = arrived[m] + 1
  <2>1. committed_epoch[r] = NextEpoch(MinEpoch)
    BY <1>0, <1>3 DEF EpochInv
  <2>2. MinEpoch \in Epochs
    BY <1>0 DEF TypeOK
  <2>3. NextEpoch(MinEpoch) # MinEpoch
    <3>1. MinEpoch \in Nat /\ NextEpoch(MinEpoch) = IF MinEpoch = kEpochModulus - 1 THEN 0 ELSE MinEpoch + 1
      BY <2>2, NextFacts
    <3> QED
      BY <3>1, MpiAssumption
  <2>4. pc[r] = "barrier"
    <3>1. pc[r] # "barrier" => arrived[r] <= arrived[m]
      BY <1>0 DEF CountInv
    <3> QED
      BY <1>n, <1>3, <3>1
  <2> QED
    BY <1>3, <2>1, <2>3, <2>4
<1>4. CASE arrived[m] = arrived[r] + 1
  <2> DEFINE a == committed_epoch[r]
             b == committed_epoch[m]
  <2>1. b = NextEpoch(a)
    BY <1>0, <1>4 DEF EpochInv
  <2>2. a \in Epochs /\ b \in Epochs /\ b <= a
    BY <1>0, MinEpochFacts DEF TypeOK
  <2>3. a \in Nat /\ NextEpoch(a) = IF a = kEpochModulus - 1 THEN 0 ELSE a + 1
    BY <2>2, NextFacts
  <2>4. a = kEpochModulus - 1 /\ b = 0
    <3> HIDE DEF a, b
    <3> QED
      BY <2>1, <2>2, <2>3
  <2>5. Wrapped
    BY <2>4 DEF Wrapped
  <2> QED
    BY <2>5
<1> QED
  BY <1>1, <1>2, <1>3, <1>4

\* The slot of the smallest epoch restores the target of each process, which is
\* not older than what returned, and the targets fit.
LEMMA TargetFacts ==
  ASSUME BaseInv, OpenInv, DataInv, broken = {}, ~Ahead, ~Unreset, ~Wrapped,
         \A r \in Ranks : Live(r)
  PROVE  LET T == Target(MinEpoch)
         IN /\ T \in [Ranks -> Nat]
            /\ \A r \in Ranks : /\ T[r] <= Calls(r) /\ slot[r][MinEpoch % 2] = Val(hist[r], T[r])
                                /\ \/ Val(hist[r], returned[r]) = Val(hist[r], T[r])
                                   \/ /\ T[r] = Calls(r)
                                      /\ engine = "Hybrid" => Val(hist[r], T[r]) = Calls(r)
            /\ engine = "NvmInst" => \A q, r \in Ranks : T[q] = T[r]
            /\ engine = "Hybrid" => \A q, r \in Ranks : Val(hist[q], T[q]) = Val(hist[r], T[r])
<1> DEFINE T == Target(MinEpoch)
<1>0. /\ TypeOK /\ \A r \in Ranks : SlotInv(r) /\ NewInv(r)
      /\ \A q, r \in Ranks : PairInv(q, r)
  BY DEF BaseInv, DataInv
<1>n. \A r \in Ranks : arrived[r] \in Nat
  BY <1>0, Numbers
<1>1. \A r \in Ranks : T[r] = IF pc[r] = "barrier" /\ committed_epoch[r] # MinEpoch THEN Base(r) - 1 ELSE Base(r)
  BY DEF Target
<1>2. T \in [Ranks -> Nat] /\ \A r \in Ranks : T[r] <= Calls(r)
  <2>1. \A r \in Ranks : (IF pc[r] = "barrier" /\ committed_epoch[r] # MinEpoch THEN Base(r) - 1 ELSE Base(r)) \in Nat
    BY BaseFacts
  <2>2. T \in [Ranks -> Nat]
    BY <2>1 DEF Target
  <2>3. ASSUME NEW r \in Ranks PROVE T[r] <= Calls(r)
    BY <1>1, BaseFacts
  <2> QED
    BY <2>2, <2>3
<1>3. CASE \E p \in Ranks : pc[p] \in {"reset", "recover"}
  <2>1. MinEpoch = min_epoch /\ \A r \in Ranks : pc[r] \in {"reset", "recover", "run"} /\ arrived[r] = 0
    BY <1>3, RecoveringMin
  <2>2. \A r \in Ranks : T[r] = Base(r) /\ Val(hist[r], T[r]) = Held(r)
    BY <1>1, <2>1 DEF Held
  <2>3. ASSUME NEW r \in Ranks PROVE slot[r][MinEpoch % 2] = Held(r) /\ Val(hist[r], returned[r]) = Held(r)
    <3>1. Val(hist[r], returned[r]) = Held(r)
      BY <1>0, <2>1 DEF SlotInv
    <3>2. CASE pc[r] \in {"reset", "recover"}
      BY <1>0, <2>1, <3>1, <3>2 DEF SlotInv
    <3>3. CASE pc[r] = "run"
      <4>1. committed_epoch[r] \in Epochs /\ MinEpoch \in Epochs
        BY <1>0, MinEpochFacts DEF TypeOK
      <4>2. MinEpoch % 2 = committed_epoch[r] % 2 \/ MinEpoch % 2 = (committed_epoch[r] + 1) % 2
        BY <4>1, NextFacts
      <4> QED
        BY <1>0, <3>1, <3>3, <4>2 DEF SlotInv
    <3> QED
      BY <2>1, <3>2, <3>3
  <2>4. ASSUME NEW q \in Ranks, NEW r \in Ranks
        PROVE  (engine = "NvmInst" => T[q] = T[r]) /\ (engine = "Hybrid" => Val(hist[q], T[q]) = Val(hist[r], T[r]))
    BY <1>0, <2>1, <2>2 DEF PairInv
  <2> HIDE DEF T
  <2>5. \A r \in Ranks : slot[r][MinEpoch % 2] = Val(hist[r], T[r]) /\ Val(hist[r], returned[r]) = Val(hist[r], T[r])
    BY <2>2, <2>3
  <2> QED
    BY <1>2, <2>4, <2>5 DEF T
<1>4. CASE \A p \in Ranks : Running(p)
  <2>1. PICK m \in Ranks : committed_epoch[m] = MinEpoch
    BY <1>0, MinEpochFacts
  <2>2. ASSUME NEW r \in Ranks
        PROVE  \/ committed_epoch[r] = MinEpoch /\ arrived[r] = arrived[m]
               \/ /\ committed_epoch[r] = NextEpoch(MinEpoch) /\ committed_epoch[r] # MinEpoch
                  /\ arrived[r] = arrived[m] + 1 /\ pc[r] = "barrier"
    BY <1>4, <2>1, RunningMin
  <2>3. ASSUME NEW r \in Ranks
        PROVE  /\ slot[r][MinEpoch % 2] = Val(hist[r], T[r])
               /\ \/ Val(hist[r], returned[r]) = Val(hist[r], T[r])
                  \/ T[r] = Calls(r) /\ (engine = "Hybrid" => Val(hist[r], T[r]) = Calls(r))
               /\ engine = "NvmInst" => T[r] = T[m]
               /\ engine = "Hybrid" => Val(hist[r], T[r]) = Val(hist[m], T[m])
    <3>0. T[m] = Base(m) /\ Val(hist[m], T[m]) = Held(m)
      BY <1>1, <2>1 DEF Held
    <3>1. CASE committed_epoch[r] = MinEpoch /\ arrived[r] = arrived[m]
      <4>1. T[r] = Base(r) /\ Val(hist[r], T[r]) = Held(r)
        BY <1>1, <3>1 DEF Held
      <4>2. slot[r][MinEpoch % 2] = Held(r)
        BY <1>0, <1>4, <3>1 DEF SlotInv, Running
      <4>3. CASE pc[r] = "barrier"
        <5>1. T[r] = Calls(r) /\ (engine = "Hybrid" => Val(hist[r], T[r]) = Calls(r))
          BY <1>0, <4>1, <4>3 DEF Base, NewInv
        <5> QED
          BY <1>0, <3>0, <3>1, <4>1, <4>2, <5>1 DEF PairInv
      <4>4. CASE pc[r] # "barrier"
        <5>1. Val(hist[r], returned[r]) = Val(hist[r], T[r])
          BY <1>0, <4>1, <4>4 DEF SlotInv
        <5> QED
          BY <1>0, <3>0, <3>1, <4>1, <4>2, <5>1 DEF PairInv
      <4> QED
        BY <4>3, <4>4
    <3>2. CASE /\ committed_epoch[r] = NextEpoch(MinEpoch) /\ committed_epoch[r] # MinEpoch
               /\ arrived[r] = arrived[m] + 1 /\ pc[r] = "barrier"
      <4>1. T[r] = Base(r) - 1 /\ Val(hist[r], T[r]) = Before(r)
        BY <1>1, <3>2 DEF Before
      <4>2. (committed_epoch[r] + 1) % 2 = MinEpoch % 2
        BY <1>0, <3>2, MinEpochFacts, NextFacts
      <4>3. slot[r][MinEpoch % 2] = Before(r) /\ Val(hist[r], returned[r]) = Before(r)
        BY <1>0, <3>2, <4>2 DEF SlotInv
      <4>4. engine = "NvmInst" => T[r] = T[m]
        <5>1. Base(m) \in Nat
          BY BaseFacts
        <5>2. engine = "NvmInst" => Base(r) = Base(m) + 1
          BY <1>0, <3>2 DEF PairInv
        <5> QED
          BY <3>0, <4>1, <5>1, <5>2
      <4>5. engine = "Hybrid" => Before(r) = Held(m)
        BY <1>0, <3>2 DEF PairInv
      <4> QED
        BY <3>0, <4>1, <4>3, <4>4, <4>5
    <3> QED
      BY <2>2, <3>1, <3>2
  <2> HIDE DEF T
  <2>4. engine = "NvmInst" => \A q, r \in Ranks : T[q] = T[r]
    BY <2>3
  <2>5. engine = "Hybrid" => \A q, r \in Ranks : Val(hist[q], T[q]) = Val(hist[r], T[r])
    BY <2>3
  <2> QED
    BY <1>2, <2>3, <2>4, <2>5 DEF T
<1>5. \A r \in Ranks : pc[r] \in {"reset", "recover"} \/ Running(r)
  BY <1>0 DEF TypeOK, Live, Running
<1> QED
  BY <1>3, <1>4, <1>5

\* The checkpoint the processes agree on, in all states.
LEMMA Agreed ==
  ASSUME BaseInv, OpenInv, DataInv, broken = {}, ~Ahead, ~Unreset, ~Wrapped
  PROVE  Restorable
<1>0. TypeOK /\ ControlInv
  BY DEF BaseInv
<1>1. CASE \E r \in Ranks : pc[r] \in {"open", "exit"}
  <2>1. PICK r \in Ranks : pc[r] = "open"
    BY <1>1 DEF OpenInv
  <2> QED
    BY <2>1 DEF DataInv
<1>2. CASE \A r \in Ranks : Live(r)
  <2>1. PICK T \in [Ranks -> Nat] :
            /\ \A r \in Ranks : /\ T[r] <= Calls(r) /\ slot[r][MinEpoch % 2] = Val(hist[r], T[r])
                                /\ \/ Val(hist[r], returned[r]) = Val(hist[r], T[r])
                                   \/ /\ T[r] = Calls(r)
                                      /\ engine = "Hybrid" => Val(hist[r], T[r]) = Calls(r)
            /\ engine = "NvmInst" => \A q, r \in Ranks : T[q] = T[r]
            /\ engine = "Hybrid" => \A q, r \in Ranks : Val(hist[q], T[q]) = Val(hist[r], T[r])
    BY <1>2, TargetFacts
  <2>2. PICK n \in 0 .. MaxCalls : \A r \in Ranks :
           /\ n <= Calls(r) /\ Val(hist[r], n) = Val(hist[r], T[r])
           /\ n = T[r] \/ (engine = "Hybrid" /\ n = Val(hist[r], T[r]))
    BY <2>1, CommonCall
  <2>3. n \in Nat /\ \A r \in Ranks : At(r, n) = Val(hist[r], n) /\ At(r, returned[r]) = Val(hist[r], returned[r])
    BY <1>0, ValAt, Numbers, MpiAssumption
  <2>4. n \in Common(MinEpoch)
    BY <2>1, <2>2, <2>3 DEF Common
  <2>5. ASSUME NEW r \in Ranks PROVE n >= returned[r] \/ At(r, n) = At(r, returned[r])
    <3>1. CASE Val(hist[r], returned[r]) = Val(hist[r], T[r])
      BY <2>2, <2>3, <3>1
    <3>2. CASE T[r] = Calls(r) /\ (engine = "Hybrid" => Val(hist[r], T[r]) = Calls(r))
      <4>1. n = Calls(r)
        BY <2>2, <3>2
      <4>2. Calls(r) \in Nat /\ returned[r] \in Nat /\ returned[r] <= Calls(r)
        BY BaseFacts
      <4> QED
        BY <4>1, <4>2
    <3> QED
      BY <2>1, <3>1, <3>2
  <2> QED
    BY <2>4, <2>5 DEF Restorable
<1> QED
  BY <1>1, <1>2 DEF Live

-----------------------------------------------------------------------------
(* Each step keeps what the images restore.                                *)

\* A process that takes no part in a step.
LEMMA Apart ==
  ASSUME NEW q \in Ranks, engine' = engine, min_epoch' = min_epoch, hist'[q] = hist[q], pc'[q] = pc[q],
         slot'[q] = slot[q], committed_epoch'[q] = committed_epoch[q], returned'[q] = returned[q]
  PROVE  /\ Calls(q)' = Calls(q) /\ Base(q)' = Base(q) /\ Held(q)' = Held(q) /\ Before(q)' = Before(q)
         /\ Live(q)' <=> Live(q)
         /\ HistOK(hist[q]) => HistOK(hist'[q])
         /\ NewInv(q) => NewInv(q)'
         /\ SlotInv(q) => SlotInv(q)'
<1>1. Calls(q)' = Calls(q)
  BY DEF Calls
<1>2. Base(q)' = Base(q) /\ (Live(q)' <=> Live(q))
  BY <1>1 DEF Base, Live
<1>3. Held(q)' = Held(q) /\ Before(q)' = Before(q)
  BY <1>2 DEF Held, Before
<1>4. NewInv(q) => NewInv(q)'
  BY <1>1 DEF NewInv
<1>5. SlotInv(q) => SlotInv(q)'
  BY <1>1, <1>2, <1>3 DEF SlotInv
<1> QED
  BY <1>1, <1>2, <1>3, <1>4, <1>5

\* Histories that stay as they are.
LEMMA SameHistories ==
  ASSUME DataInv, engine' = engine, hist' = hist
  PROVE  /\ \A r \in Ranks : HistOK(hist'[r]) /\ Calls(r)' = Calls(r)
         /\ \A q, r \in Ranks : AgreeInv(q, r)'
<1>1. \A r \in Ranks : Calls(r)' = Calls(r)
  BY DEF Calls
<1>2. \A r \in Ranks : HistOK(hist'[r])
  BY DEF DataInv
<1>3. ASSUME NEW q \in Ranks, NEW r \in Ranks PROVE AgreeInv(q, r)'
  <2>1. AgreeInv(q, r)
    BY DEF DataInv
  <2> QED
    BY <1>1, <2>1 DEF AgreeInv
<1> QED
  BY <1>1, <1>2, <1>3

\* Pairs in which neither what is restored nor the arrivals change.
LEMMA SamePairs ==
  ASSUME DataInv, engine' = engine, arrived' = arrived,
         \A r \in Ranks : Live(r) /\ Base(r)' = Base(r) /\ Held(r)' = Held(r) /\ Before(r)' = Before(r)
  PROVE  \A q, r \in Ranks : PairInv(q, r)'
<1> SUFFICES ASSUME NEW q \in Ranks, NEW r \in Ranks PROVE PairInv(q, r)'
  OBVIOUS
<1>1. PairInv(q, r)
  BY DEF DataInv
<1> QED
  BY <1>1 DEF PairInv

\* Images that stay as they are.
LEMMA SameRestorable ==
  ASSUME Restorable, committed_epoch' = committed_epoch, slot' = slot, hist' = hist, returned' = returned
  PROVE  Restorable'
<1>1. MinEpoch' = MinEpoch
  BY DEF MinEpoch
<1>2. PICK n \in Common(MinEpoch) : \A r \in Ranks : n >= returned[r] \/ At(r, n) = At(r, returned[r])
  BY DEF Restorable
<1>3. PICK e : e = MinEpoch
  OBVIOUS
<1>4. n \in {k \in 0 .. MaxCalls : \A r \in Ranks : /\ k <= Calls(r) /\ At(r, k) = slot[r][e % 2]}
  BY <1>2, <1>3 DEF Common
<1>5. \A r \in Ranks : /\ Calls(r)' = Calls(r) /\ At(r, n)' = At(r, n)
                       /\ (At(r, returned[r]))' = At(r, returned[r])
  BY DEF Calls, At
<1>6. n \in {k \in 0 .. MaxCalls : \A r \in Ranks : /\ k <= Calls(r)' /\ At(r, k)' = slot'[r][MinEpoch' % 2]}
  BY <1>1, <1>3, <1>4, <1>5
<1>7. n \in Common(MinEpoch)'
  BY <1>6 DEF Common
<1>8. \A r \in Ranks : (n >= returned[r] \/ At(r, n) = At(r, returned[r]))'
  BY <1>2, <1>5
<1> QED
  BY <1>7, <1>8 DEF Restorable

\* The first state.
LEMMA InitData == Init => DataInv
<1> SUFFICES ASSUME Init PROVE DataInv
  OBVIOUS
<1>1. \A r \in Ranks : hist[r] = << >> /\ Calls(r) = 0 /\ pc[r] = "run" /\ Base(r) = 0 /\ Held(r) = 0
  BY DEF Init, Calls, Base, Held, Val
<1>2. HistOK(<< >>)
  BY DEF HistOK, Val
<1>3. \A i \in 0 .. 1 : \A r \in Ranks : slot[r][i] = 0
  BY DEF Init
<1>4. ASSUME NEW r \in Ranks PROVE NewInv(r) /\ SlotInv(r)
  <2>1. committed_epoch[r] = 0 /\ returned[r] = 0 /\ Val(hist[r], 0) = 0
    BY DEF Init, Val
  <2>2. 0 % 2 = 0 /\ (0 + 1) % 2 = 1
    OBVIOUS
  <2> QED
    BY <1>1, <1>3, <2>1, <2>2 DEF NewInv, SlotInv
<1>5. ASSUME NEW q \in Ranks, NEW r \in Ranks PROVE PairInv(q, r) /\ AgreeInv(q, r)
  <2>1. arrived[q] = 0 /\ arrived[r] = 0 /\ hist[q] = hist[r]
    BY <1>1 DEF Init
  <2> QED
    BY <1>1, <2>1 DEF PairInv, AgreeInv
<1>6. MinInv
  BY <1>1, MpiAssumption DEF MinInv
<1> QED
  BY <1>1, <1>2, <1>4, <1>5, <1>6 DEF DataInv

\* A store.
LEMMA StoreData ==
  ASSUME BaseInv, OpenInv, DataInv, BaseInv', broken' = {}, broken = {}, NEW r \in Ranks, Store(r)
  PROVE  DataInv'
<1>0. /\ TypeOK /\ ControlInv /\ CountInv /\ EpochInv
      /\ \A q \in Ranks : HistOK(hist[q]) /\ NewInv(q) /\ SlotInv(q)
      /\ \A p, q \in Ranks : PairInv(p, q) /\ AgreeInv(p, q)
  BY DEF BaseInv, DataInv
<1>1. \A q \in Ranks : Live(q) /\ Live(q)'
  BY StaysLive
<1>2. /\ engine' = engine /\ committed_epoch' = committed_epoch /\ slot' = slot /\ pc' = pc
      /\ arrived' = arrived /\ min_epoch' = min_epoch /\ hist' = hist /\ returned' = returned
  BY DEF Store
<1>3. \A q \in Ranks : /\ NewInv(q)' /\ SlotInv(q)'
                       /\ Base(q)' = Base(q) /\ Held(q)' = Held(q) /\ Before(q)' = Before(q)
  <2>1. ASSUME NEW q \in Ranks
        PROVE  /\ NewInv(q) => NewInv(q)'
               /\ SlotInv(q) => SlotInv(q)'
               /\ Base(q)' = Base(q) /\ Held(q)' = Held(q) /\ Before(q)' = Before(q)
    <3>1. /\ hist'[q] = hist[q] /\ pc'[q] = pc[q] /\ slot'[q] = slot[q]
          /\ committed_epoch'[q] = committed_epoch[q] /\ returned'[q] = returned[q]
      BY <1>2
    <3> QED
      BY <1>2, <3>1, Apart
  <2> QED
    BY <1>0, <2>1
<1>4. \A p, q \in Ranks : PairInv(p, q)'
  BY <1>1, <1>2, <1>3, SamePairs
<1>5. MinInv'
  BY <1>2 DEF MinInv, Store
<1>6. (\A q \in Ranks : HistOK(hist'[q])) /\ \A p, q \in Ranks : AgreeInv(p, q)'
  BY <1>2, SameHistories
<1> QED
  BY <1>1, <1>3, <1>4, <1>5, <1>6 DEF DataInv, Live

\* The barrier is passed.
LEMMA PassData ==
  ASSUME BaseInv, OpenInv, DataInv, BaseInv', broken' = {}, broken = {}, NEW r \in Ranks, Pass(r)
  PROVE  DataInv'
<1>0. /\ TypeOK /\ ControlInv /\ CountInv /\ EpochInv
      /\ \A q \in Ranks : HistOK(hist[q]) /\ NewInv(q) /\ SlotInv(q)
      /\ \A p, q \in Ranks : PairInv(p, q) /\ AgreeInv(p, q)
  BY DEF BaseInv, DataInv
<1>1. \A q \in Ranks : Live(q) /\ Live(q)'
  BY StaysLive
<1>2. /\ pc[r] = "barrier" /\ engine' = engine /\ committed_epoch' = committed_epoch
      /\ arrived' = arrived /\ min_epoch' = min_epoch /\ hist' = hist
      /\ slot' = [slot EXCEPT ![r] = [i \in 0 .. 1 |-> slot[r][committed_epoch[r] % 2]]]
      /\ returned' = [returned EXCEPT ![r] = Calls(r)] /\ pc' = [pc EXCEPT ![r] = "run"]
  BY DEF Pass, Active
<1>3. /\ \A q \in Ranks : q # r => slot'[q] = slot[q] /\ returned'[q] = returned[q] /\ pc'[q] = pc[q]
      /\ slot'[r] = [i \in 0 .. 1 |-> slot[r][committed_epoch[r] % 2]]
      /\ returned'[r] = Calls(r) /\ pc'[r] = "run"
  BY <1>0, <1>2 DEF TypeOK
<1>4. (\A q \in Ranks : HistOK(hist'[q]) /\ Calls(q)' = Calls(q)) /\ \A p, q \in Ranks : AgreeInv(p, q)'
  BY <1>2, SameHistories
<1>5. Base(r)' = Base(r) /\ Held(r)' = Held(r) /\ Before(r)' = Before(r) /\ Held(r) = Val(hist[r], Calls(r))
  <2>1. Base(r)' = Base(r) /\ Base(r) = Calls(r)
    BY <1>2, <1>3, <1>4 DEF Base
  <2> QED
    BY <1>2, <2>1 DEF Held, Before
<1>6. NewInv(r)' /\ SlotInv(r)'
  <2>1. slot[r][committed_epoch[r] % 2] = Held(r)
    BY <1>0, <1>2 DEF SlotInv
  <2>2. committed_epoch[r] % 2 \in 0 .. 1 /\ (committed_epoch[r] + 1) % 2 \in 0 .. 1
    BY <1>0, NextFacts DEF TypeOK
  <2> QED
    BY <1>2, <1>3, <1>5, <2>1, <2>2 DEF NewInv, SlotInv
<1>7. \A q \in Ranks : q # r => /\ NewInv(q)' /\ SlotInv(q)'
                                /\ Base(q)' = Base(q) /\ Held(q)' = Held(q) /\ Before(q)' = Before(q)
  <2>1. ASSUME NEW q \in Ranks, q # r
        PROVE  /\ NewInv(q) => NewInv(q)'
               /\ SlotInv(q) => SlotInv(q)'
               /\ Base(q)' = Base(q) /\ Held(q)' = Held(q) /\ Before(q)' = Before(q)
    <3>1. /\ hist'[q] = hist[q] /\ pc'[q] = pc[q] /\ slot'[q] = slot[q]
          /\ committed_epoch'[q] = committed_epoch[q] /\ returned'[q] = returned[q]
      BY <1>2, <1>3, <2>1
    <3> QED
      BY <1>2, <3>1, Apart
  <2> QED
    BY <1>0, <2>1
<1>8. \A p, q \in Ranks : PairInv(p, q)'
  BY <1>1, <1>2, <1>5, <1>7, SamePairs
<1>9. MinInv'
  BY <1>3 DEF MinInv
<1> QED
  BY <1>1, <1>4, <1>6, <1>7, <1>8, <1>9 DEF DataInv, Live

\* A process gives up the epoch the others did not reach.
LEMMA ResetData ==
  ASSUME BaseInv, OpenInv, DataInv, BaseInv', broken' = {}, broken = {}, NEW r \in Ranks, Reset(r)
  PROVE  DataInv'
<1>0. /\ TypeOK /\ ControlInv /\ CountInv /\ EpochInv
      /\ \A q \in Ranks : HistOK(hist[q]) /\ NewInv(q) /\ SlotInv(q)
      /\ \A p, q \in Ranks : PairInv(p, q) /\ AgreeInv(p, q)
  BY DEF BaseInv, DataInv
<1>1. \A q \in Ranks : Live(q) /\ Live(q)'
  BY StaysLive
<1>2. /\ pc[r] = "reset" /\ engine' = engine /\ slot' = slot /\ returned' = returned
      /\ arrived' = arrived /\ min_epoch' = min_epoch /\ hist' = hist
      /\ committed_epoch' = [committed_epoch EXCEPT ![r] = min_epoch] /\ pc' = [pc EXCEPT ![r] = "recover"]
  BY DEF Reset, reset_committed_epoch
<1>3. /\ \A q \in Ranks : q # r => committed_epoch'[q] = committed_epoch[q] /\ pc'[q] = pc[q]
      /\ committed_epoch'[r] = min_epoch /\ pc'[r] = "recover"
  BY <1>0, <1>2 DEF TypeOK
<1>4. (\A q \in Ranks : HistOK(hist'[q]) /\ Calls(q)' = Calls(q)) /\ \A p, q \in Ranks : AgreeInv(p, q)'
  BY <1>2, SameHistories
<1>5. Base(r)' = Base(r) /\ Held(r)' = Held(r) /\ Before(r)' = Before(r)
  <2>1. Base(r)' = Base(r)
    BY <1>2, <1>3, <1>4 DEF Base
  <2> QED
    BY <1>2, <2>1 DEF Held, Before
<1>6. NewInv(r)' /\ SlotInv(r)'
  <2>1. slot[r][min_epoch % 2] = Held(r) /\ Val(hist[r], returned[r]) = Held(r)
    BY <1>0, <1>1, <1>2 DEF SlotInv
  <2> QED
    BY <1>2, <1>3, <1>5, <2>1 DEF NewInv, SlotInv
<1>7. \A q \in Ranks : q # r => /\ NewInv(q)' /\ SlotInv(q)'
                                /\ Base(q)' = Base(q) /\ Held(q)' = Held(q) /\ Before(q)' = Before(q)
  <2>1. ASSUME NEW q \in Ranks, q # r
        PROVE  /\ NewInv(q) => NewInv(q)'
               /\ SlotInv(q) => SlotInv(q)'
               /\ Base(q)' = Base(q) /\ Held(q)' = Held(q) /\ Before(q)' = Before(q)
    <3>1. /\ hist'[q] = hist[q] /\ pc'[q] = pc[q] /\ slot'[q] = slot[q]
          /\ committed_epoch'[q] = committed_epoch[q] /\ returned'[q] = returned[q]
      BY <1>2, <1>3, <2>1
    <3> QED
      BY <1>2, <3>1, Apart
  <2> QED
    BY <1>0, <2>1
<1>8. \A p, q \in Ranks : PairInv(p, q)'
  BY <1>1, <1>2, <1>5, <1>7, SamePairs
<1>9. MinInv'
  BY <1>2, <1>3 DEF MinInv
<1> QED
  BY <1>1, <1>4, <1>6, <1>7, <1>8, <1>9 DEF DataInv, Live

\* A process recovers.
LEMMA RecoverData ==
  ASSUME BaseInv, OpenInv, DataInv, BaseInv', broken' = {}, broken = {}, NEW r \in Ranks, Recover(r)
  PROVE  DataInv'
<1>0. /\ TypeOK /\ ControlInv /\ CountInv /\ EpochInv
      /\ \A q \in Ranks : HistOK(hist[q]) /\ NewInv(q) /\ SlotInv(q)
      /\ \A p, q \in Ranks : PairInv(p, q) /\ AgreeInv(p, q)
  BY DEF BaseInv, DataInv
<1>1. \A q \in Ranks : Live(q) /\ Live(q)'
  BY StaysLive
<1>2. /\ pc[r] = "recover" /\ engine' = engine /\ returned' = returned
      /\ arrived' = arrived /\ min_epoch' = min_epoch /\ hist' = hist
      /\ slot' = [slot EXCEPT ![r] = [i \in 0 .. 1 |-> slot[r][committed_epoch[r] % 2]]]
      /\ committed_epoch' = [committed_epoch EXCEPT ![r] = NextEpoch(@)] /\ pc' = [pc EXCEPT ![r] = "run"]
  BY DEF Recover, RecoveredSlots, Active
<1>3. /\ \A q \in Ranks : q # r => committed_epoch'[q] = committed_epoch[q] /\ pc'[q] = pc[q] /\ slot'[q] = slot[q]
      /\ committed_epoch'[r] = NextEpoch(committed_epoch[r]) /\ pc'[r] = "run"
      /\ slot'[r] = [i \in 0 .. 1 |-> slot[r][committed_epoch[r] % 2]]
  BY <1>0, <1>2 DEF TypeOK
<1>4. (\A q \in Ranks : HistOK(hist'[q]) /\ Calls(q)' = Calls(q)) /\ \A p, q \in Ranks : AgreeInv(p, q)'
  BY <1>2, SameHistories
<1>5. Base(r)' = Base(r) /\ Held(r)' = Held(r) /\ Before(r)' = Before(r)
  <2>1. Base(r)' = Base(r)
    BY <1>2, <1>3, <1>4 DEF Base
  <2> QED
    BY <1>2, <2>1 DEF Held, Before
<1>6. NewInv(r)' /\ SlotInv(r)'
  <2>1. slot[r][committed_epoch[r] % 2] = Held(r) /\ Val(hist[r], returned[r]) = Held(r)
    BY <1>0, <1>1, <1>2 DEF SlotInv, EpochInv
  <2>2. committed_epoch'[r] \in Epochs
    BY DEF BaseInv, TypeOK
  <2>3. committed_epoch'[r] % 2 \in 0 .. 1 /\ (committed_epoch'[r] + 1) % 2 \in 0 .. 1
    BY <2>2, NextFacts
  <2>4. slot'[r][committed_epoch'[r] % 2] = Held(r) /\ slot'[r][(committed_epoch'[r] + 1) % 2] = Held(r)
    BY <1>3, <2>1, <2>3
  <2> QED
    BY <1>2, <1>3, <1>5, <2>1, <2>4 DEF NewInv, SlotInv
<1>7. \A q \in Ranks : q # r => /\ NewInv(q)' /\ SlotInv(q)'
                                /\ Base(q)' = Base(q) /\ Held(q)' = Held(q) /\ Before(q)' = Before(q)
  <2>1. ASSUME NEW q \in Ranks, q # r
        PROVE  /\ NewInv(q) => NewInv(q)'
               /\ SlotInv(q) => SlotInv(q)'
               /\ Base(q)' = Base(q) /\ Held(q)' = Held(q) /\ Before(q)' = Before(q)
    <3>1. /\ hist'[q] = hist[q] /\ pc'[q] = pc[q] /\ slot'[q] = slot[q]
          /\ committed_epoch'[q] = committed_epoch[q] /\ returned'[q] = returned[q]
      BY <1>2, <1>3, <2>1
    <3> QED
      BY <1>2, <3>1, Apart
  <2> QED
    BY <1>0, <2>1
<1>8. \A p, q \in Ranks : PairInv(p, q)'
  BY <1>1, <1>2, <1>5, <1>7, SamePairs
<1>9. MinInv'
  BY <1>3 DEF MinInv
<1> QED
  BY <1>1, <1>4, <1>6, <1>7, <1>8, <1>9 DEF DataInv, Live

\* A crash.
LEMMA CrashData ==
  ASSUME BaseInv, OpenInv, DataInv, BaseInv', broken' = {}, broken = {}, Crash
  PROVE  DataInv'
<1>0. /\ TypeOK /\ ControlInv /\ CountInv /\ EpochInv
      /\ \A q \in Ranks : HistOK(hist[q]) /\ NewInv(q) /\ SlotInv(q)
      /\ \A p, q \in Ranks : PairInv(p, q) /\ AgreeInv(p, q)
  BY DEF BaseInv, DataInv
<1>1. /\ engine' = engine /\ committed_epoch' = committed_epoch /\ slot' = slot
      /\ hist' = hist /\ returned' = returned /\ \A q \in Ranks : pc'[q] = "open"
  BY DEF Crash
<1>2. ~Ahead /\ ~Unreset /\ ~Wrapped
  BY DEF Crash
<1>3. Restorable
  BY <1>2, Agreed
<1>4. Restorable'
  BY <1>1, <1>3, SameRestorable
<1>5. (\A q \in Ranks : HistOK(hist'[q])) /\ \A p, q \in Ranks : AgreeInv(p, q)'
  BY <1>1, SameHistories
<1>6. \A q \in Ranks : NewInv(q)' /\ SlotInv(q)' /\ \A p \in Ranks : PairInv(p, q)'
  BY <1>1 DEF NewInv, SlotInv, PairInv, Live
<1>7. MinInv'
  BY <1>1, MpiAssumption DEF MinInv
<1> QED
  BY <1>4, <1>5, <1>6, <1>7 DEF DataInv

\* A call.
LEMMA CallData ==
  ASSUME BaseInv, OpenInv, DataInv, BaseInv', broken' = {}, broken = {}, NEW r \in Ranks, Call(r)
  PROVE  DataInv'
<1>0. /\ TypeOK /\ ControlInv /\ CountInv /\ EpochInv
      /\ \A q \in Ranks : HistOK(hist[q]) /\ NewInv(q) /\ SlotInv(q)
      /\ \A p, q \in Ranks : PairInv(p, q) /\ AgreeInv(p, q)
  BY DEF BaseInv, DataInv
<1>1. \A q \in Ranks : Live(q) /\ Live(q)'
  BY StaysLive
<1>2. /\ pc[r] = "run" /\ engine' = engine /\ committed_epoch' = committed_epoch
      /\ arrived' = arrived /\ min_epoch' = min_epoch
  BY DEF Call
<1>3. PICK k \in 1 .. MaxCalls, c \in 0 .. MaxCalls :
        /\ k = Calls(r) + 1 /\ Calls(r)' = k
        /\ c = k \/ c = At(r, k - 1)
        /\ dirty[r] => c = k
        /\ ~dirty[r] => c = At(r, k - 1)
        /\ hist'[r] = Append(hist[r], c) /\ \A q \in Ranks : q # r => hist'[q] = hist[q]
        /\ ~(engine = "Hybrid" /\ Disagree(r, k, c))
        /\ \/ Skips(r) /\ returned' = [returned EXCEPT ![r] = k] /\ slot' = slot /\ pc' = pc
           \/ /\ ~Skips(r) /\ slot' = [slot EXCEPT ![r][(committed_epoch[r] + 1) % 2] = c]
              /\ pc' = [pc EXCEPT ![r] = "commit"] /\ returned' = returned
  BY CallStep
<1>4. /\ Calls(r) \in Nat /\ Calls(r) = k - 1 /\ Len(hist[r]) = k - 1 /\ hist[r] \in Seq(0 .. MaxCalls)
      /\ Base(r) = k - 1 /\ Held(r) = Val(hist[r], k - 1) /\ returned[r] \in 0 .. (k - 1)
  <2>1. Calls(r) \in Nat /\ Len(hist[r]) = Calls(r) /\ hist[r] \in Seq(0 .. MaxCalls)
    BY <1>0, Numbers DEF Calls, TypeOK
  <2>2. Calls(r) = k - 1
    BY <1>3, <2>1
  <2>3. returned[r] \in 0 .. (k - 1)
    BY <2>2, BaseFacts
  <2> QED
    BY <1>2, <2>1, <2>2, <2>3 DEF Base, Held
<1>5. /\ \A n \in 0 .. (k - 1) : Val(hist'[r], n) = Val(hist[r], n)
      /\ Val(hist'[r], k) = c
  <2>1. Len(hist[r]) + 1 = k
    BY <1>3, <1>4 DEF Calls
  <2> QED
    BY <1>3, <1>4, <2>1, AppendVal
<1>6. /\ c = k \/ c = Val(hist[r], k - 1)
      /\ dirty[r] => c = k
      /\ ~dirty[r] => c = Val(hist[r], k - 1)
  BY <1>3, <1>4, ValAt
<1>7. HistOK(hist'[r])
  <2>1. c = Len(hist[r]) + 1 \/ c = Val(hist[r], Len(hist[r]))
    BY <1>3, <1>4, <1>6
  <2> QED
    BY <1>0, <1>3, <1>4, <2>1, AppendOK
<1>8. ASSUME NEW q \in Ranks, q # r
      PROVE  /\ HistOK(hist'[q]) /\ NewInv(q)' /\ SlotInv(q)' /\ Calls(q)' = Calls(q)
             /\ Base(q)' = Base(q) /\ Held(q)' = Held(q) /\ Before(q)' = Before(q)
  <2>1. /\ hist'[q] = hist[q] /\ pc'[q] = pc[q] /\ slot'[q] = slot[q]
        /\ committed_epoch'[q] = committed_epoch[q] /\ returned'[q] = returned[q]
    BY <1>0, <1>2, <1>3, <1>8 DEF TypeOK
  <2> QED
    BY <1>0, <1>2, <1>8, <2>1, Apart
<1>9. SlotInv(r) /\ slot[r][committed_epoch[r] % 2] = Held(r) /\ slot[r][(committed_epoch[r] + 1) % 2] = Held(r)
      /\ Val(hist[r], returned[r]) = Held(r)
  BY <1>0, <1>1, <1>2 DEF SlotInv
<1>10. k - 1 \in 0 .. (k - 1)
  BY <1>4
<1>11. /\ NewInv(r)' /\ SlotInv(r)' /\ Held(r)' = Held(r)
       /\ engine = "NvmInst" => Base(r)' = Base(r)
  <2>1. CASE Skips(r) /\ returned' = [returned EXCEPT ![r] = k] /\ slot' = slot /\ pc' = pc
    <3>1. engine = "Hybrid" /\ ~dirty[r] /\ returned'[r] = k
      BY <1>0, <2>1 DEF Skips, TypeOK
    <3>2. Base(r)' = k /\ Held(r)' = c /\ c = Held(r)
      <4>1. Base(r)' = k
        BY <1>2, <1>3, <2>1 DEF Base
      <4> QED
        BY <1>4, <1>5, <1>6, <3>1, <4>1 DEF Held
    <3> QED
      BY <1>2, <1>5, <1>9, <2>1, <3>1, <3>2 DEF NewInv, SlotInv
  <2>2. CASE /\ ~Skips(r) /\ slot' = [slot EXCEPT ![r][(committed_epoch[r] + 1) % 2] = c]
             /\ pc' = [pc EXCEPT ![r] = "commit"] /\ returned' = returned
    <3>1. pc'[r] = "commit" /\ returned'[r] = returned[r]
      BY <1>0, <2>2 DEF TypeOK
    <3>2. slot'[r][(committed_epoch[r] + 1) % 2] = c
          /\ slot'[r][committed_epoch[r] % 2] = slot[r][committed_epoch[r] % 2]
      <4> DEFINE i == (committed_epoch[r] + 1) % 2
                 j == committed_epoch[r] % 2
      <4>1. i \in 0 .. 1 /\ j \in 0 .. 1 /\ i # j /\ slot \in [Ranks -> [0 .. 1 -> 0 .. MaxCalls]]
        BY <1>0, NextFacts DEF TypeOK
      <4>2. slot' = [slot EXCEPT ![r][i] = c]
        BY <2>2
      <4> HIDE DEF i, j
      <4>3. slot'[r][i] = c /\ slot'[r][j] = slot[r][j]
        BY <4>1, <4>2
      <4> QED
        BY <4>3 DEF i, j
    <3>3. Base(r)' = k - 1
      BY <1>3, <3>1 DEF Base
    <3>4. Held(r)' = Held(r)
      BY <1>4, <1>5, <1>10, <3>3 DEF Held
    <3>5. Val(hist'[r], returned'[r]) = Held(r)
      BY <1>4, <1>5, <1>9, <3>1
    <3>7. NewInv(r)'
      <4>1. engine = "Hybrid" => c = k
        BY <1>6, <2>2 DEF Skips
      <4> QED
        BY <1>2, <1>3, <1>5, <4>1 DEF NewInv
    <3>8. SlotInv(r)'
      BY <1>2, <1>3, <1>5, <1>9, <3>1, <3>2, <3>4, <3>5 DEF SlotInv
    <3> QED
      BY <1>4, <3>3, <3>4, <3>7, <3>8
  <2> QED
    BY <1>3, <2>1, <2>2
<1>12. ASSUME NEW p \in Ranks, NEW q \in Ranks PROVE PairInv(p, q)'
  <2>1. /\ Held(p)' = Held(p) /\ Held(q)' = Held(q)
        /\ engine = "NvmInst" => Base(p)' = Base(p) /\ Base(q)' = Base(q)
    BY <1>8, <1>11
  <2>2. arrived[q] = arrived[p] + 1 => Before(q)' = Before(q)
    <3>1. pc[q] # "barrier" => arrived[q] <= arrived[p]
      BY <1>0 DEF CountInv
    <3>2. arrived[q] \in Nat /\ arrived[p] \in Nat
      BY <1>0, Numbers
    <3>3. arrived[q] = arrived[p] + 1 => q # r
      BY <1>2, <3>1, <3>2
    <3> QED
      BY <1>8, <3>3
  <2>3. PairInv(p, q)
    BY <1>0
  <2> QED
    BY <1>1, <1>2, <2>1, <2>2, <2>3 DEF PairInv
<1>13. ASSUME NEW q \in Ranks, q # r, engine = "Hybrid", NEW n \in 0 .. MaxCalls, n <= k, n <= Calls(q)
       PROVE  Val(hist'[r], n) = Val(hist[q], n)
  <2>0. \A m \in 0 .. MaxCalls : m <= k - 1 /\ m <= Calls(q) => Val(hist[r], m) = Val(hist[q], m)
    BY <1>0, <1>4, <1>13 DEF AgreeInv
  <2>1. CASE n <= k - 1
    <3>1. n \in 0 .. (k - 1)
      BY <1>4, <2>1
    <3> QED
      BY <1>5, <1>13, <2>0, <2>1, <3>1
  <2>2. CASE n = k
    <3>1. ~Disagree(r, k, c)
      BY <1>3, <1>13
    <3>2. (At(q, k) = At(q, k - 1)) <=> (c = At(r, k - 1))
      BY <1>13, <2>2, <3>1 DEF Disagree
    <3>3. k \in Nat /\ k - 1 \in Nat
      BY <1>4
    <3>4. (Val(hist[q], k) = Val(hist[q], k - 1)) <=> (c = Val(hist[r], k - 1))
      BY <3>2, <3>3, ValAt
    <3>5. Val(hist[q], k - 1) = Val(hist[r], k - 1)
      <4>1. k - 1 \in 0 .. MaxCalls /\ k - 1 <= k - 1 /\ k - 1 <= Calls(q)
        <5>1. Calls(q) \in Nat /\ MaxCalls \in Nat /\ k <= Calls(q)
          BY <1>0, <1>13, <2>2, Numbers, MpiAssumption
        <5> QED
          BY <3>3, <5>1
      <4> QED
        BY <2>0, <4>1
    <3>6. Val(hist[q], k) = k \/ Val(hist[q], k) = Val(hist[q], k - 1)
      <4>1. k \in 0 .. Len(hist[q]) /\ k > 0
        <5>1. Calls(q) \in Nat /\ k <= Calls(q)
          BY <1>0, <1>13, <2>2, Numbers
        <5> QED
          BY <5>1 DEF Calls
      <4>2. HistOK(hist[q])
        BY <1>0
      <4> QED
        BY <4>1, <4>2 DEF HistOK
    <3> QED
      BY <1>5, <1>6, <2>2, <3>4, <3>5, <3>6
  <2> QED
    BY <1>4, <1>13, <2>1, <2>2
<1>14. ASSUME NEW p \in Ranks, NEW q \in Ranks PROVE AgreeInv(p, q)'
  <2>1. AgreeInv(p, q)
    BY <1>0
  <2>2. CASE p # r /\ q # r
    <3>1. hist'[p] = hist[p] /\ hist'[q] = hist[q] /\ Calls(p)' = Calls(p) /\ Calls(q)' = Calls(q)
      BY <1>3, <1>8, <2>2
    <3> QED
      BY <1>2, <2>1, <3>1 DEF AgreeInv
  <2>3. CASE p = r /\ q = r
    BY <2>3 DEF AgreeInv
  <2>4. CASE p = r /\ q # r
    <3>1. hist'[q] = hist[q] /\ Calls(q)' = Calls(q) /\ Calls(p)' = k
      BY <1>3, <1>8, <2>4
    <3> QED
      BY <1>2, <1>13, <2>4, <3>1 DEF AgreeInv
  <2>5. CASE p # r /\ q = r
    <3>1. hist'[p] = hist[p] /\ Calls(p)' = Calls(p) /\ Calls(q)' = k
      BY <1>3, <1>8, <2>5
    <3> QED
      BY <1>2, <1>13, <2>5, <3>1 DEF AgreeInv
  <2> QED
    BY <2>2, <2>3, <2>4, <2>5
<1>15. MinInv'
  <2>1. pc'[r] \in {"run", "commit"}
    BY <1>0, <1>2, <1>3 DEF TypeOK
  <2> QED
    BY <2>1 DEF MinInv
<1> QED
  BY <1>1, <1>7, <1>8, <1>11, <1>12, <1>14, <1>15 DEF DataInv, Live

\* A commit.
LEMMA CommitData ==
  ASSUME BaseInv, OpenInv, DataInv, BaseInv', broken' = {}, broken = {}, NEW r \in Ranks, Commit(r)
  PROVE  DataInv'
<1>0. /\ TypeOK /\ ControlInv /\ CountInv /\ EpochInv
      /\ \A q \in Ranks : HistOK(hist[q]) /\ NewInv(q) /\ SlotInv(q)
      /\ \A p, q \in Ranks : PairInv(p, q) /\ AgreeInv(p, q)
  BY DEF BaseInv, DataInv
<1>1. \A q \in Ranks : Live(q) /\ Live(q)'
  BY StaysLive
<1>2. /\ pc[r] = "commit" /\ engine' = engine /\ slot' = slot /\ returned' = returned
      /\ min_epoch' = min_epoch /\ hist' = hist
      /\ committed_epoch' = [committed_epoch EXCEPT ![r] = NextEpoch(@)]
      /\ arrived' = [arrived EXCEPT ![r] = @ + 1] /\ pc' = [pc EXCEPT ![r] = "barrier"]
  BY DEF Commit
<1>3. /\ \A q \in Ranks : q # r => /\ committed_epoch'[q] = committed_epoch[q] /\ pc'[q] = pc[q]
                                   /\ arrived'[q] = arrived[q]
      /\ committed_epoch'[r] = NextEpoch(committed_epoch[r]) /\ pc'[r] = "barrier"
      /\ arrived'[r] = arrived[r] + 1
  BY <1>0, <1>2 DEF TypeOK
<1>4. (\A q \in Ranks : HistOK(hist'[q]) /\ Calls(q)' = Calls(q)) /\ \A p, q \in Ranks : AgreeInv(p, q)'
  BY <1>2, SameHistories
<1>5. /\ Calls(r) \in Nat /\ Calls(r) >= 1 /\ Base(r) = Calls(r) - 1 /\ Base(r)' = Calls(r)
      /\ Held(r) = Val(hist[r], Calls(r) - 1) /\ Before(r)' = Held(r) /\ Held(r)' = Val(hist[r], Calls(r))
  <2>1. /\ Calls(r) \in Nat /\ returned[r] \in Nat /\ returned[r] < Calls(r)
    BY <1>0, <1>2, Numbers DEF ControlInv
  <2>2. Base(r) = Calls(r) - 1 /\ Base(r)' = Calls(r)
    BY <1>2, <1>3, <1>4 DEF Base
  <2> QED
    BY <1>2, <2>1, <2>2 DEF Held, Before
<1>6. NewInv(r)' /\ SlotInv(r)'
  <2>1. /\ slot[r][committed_epoch[r] % 2] = Held(r)
        /\ slot[r][(committed_epoch[r] + 1) % 2] = Val(hist[r], Calls(r))
        /\ Val(hist[r], returned[r]) = Held(r)
    BY <1>0, <1>1, <1>2 DEF SlotInv
  <2>2. /\ committed_epoch'[r] % 2 = (committed_epoch[r] + 1) % 2
        /\ (committed_epoch'[r] + 1) % 2 = committed_epoch[r] % 2
    BY <1>0, <1>3, NextFacts DEF TypeOK
  <2>3. NewInv(r)'
    BY <1>0, <1>2, <1>4 DEF NewInv
  <2>4. SlotInv(r)'
    BY <1>2, <1>3, <1>5, <2>1, <2>2 DEF SlotInv
  <2> QED
    BY <2>3, <2>4
<1>7. \A q \in Ranks : q # r => /\ NewInv(q)' /\ SlotInv(q)'
                                /\ Base(q)' = Base(q) /\ Held(q)' = Held(q) /\ Before(q)' = Before(q)
  <2>1. ASSUME NEW q \in Ranks, q # r
        PROVE  /\ NewInv(q) => NewInv(q)'
               /\ SlotInv(q) => SlotInv(q)'
               /\ Base(q)' = Base(q) /\ Held(q)' = Held(q) /\ Before(q)' = Before(q)
    <3>1. /\ hist'[q] = hist[q] /\ pc'[q] = pc[q] /\ slot'[q] = slot[q]
          /\ committed_epoch'[q] = committed_epoch[q] /\ returned'[q] = returned[q]
      BY <1>2, <1>3, <2>1
    <3> QED
      BY <1>2, <3>1, Apart
  <2> QED
    BY <1>0, <2>1
<1>8. ASSUME NEW q \in Ranks, q # r, arrived[q] = arrived[r] + 1
      PROVE  /\ engine = "NvmInst" => Base(q) = Calls(r)
             /\ engine = "Hybrid" => Held(q) = Val(hist[r], Calls(r))
  <2>1. PairInv(r, q)
    BY <1>0
  <2>2. engine = "NvmInst" => Base(q) = Calls(r)
    BY <1>1, <1>5, <1>8, <2>1 DEF PairInv
  <2>3. ASSUME engine = "Hybrid" PROVE Held(q) = Val(hist[r], Calls(r))
    <3>1. pc[q] = "barrier"
      <4>1. pc[q] # "barrier" => arrived[q] <= arrived[r]
        BY <1>0 DEF CountInv
      <4>2. arrived[q] \in Nat /\ arrived[r] \in Nat
        BY <1>0, Numbers
      <4> QED
        BY <1>8, <4>1, <4>2
    <3>2. Base(q) = Calls(q) /\ Calls(q) - 1 \in Nat /\ Calls(q) \in Nat /\ Calls(q) <= MaxCalls
      BY <3>1, BaseFacts
    <3>3. Held(q) = Calls(q) /\ Val(hist[q], Calls(q)) = Calls(q) /\ Val(hist[r], Calls(r)) = Calls(r)
      BY <1>0, <1>2, <2>3, <3>1, <3>2 DEF NewInv, Held
    <3>4. Val(hist[q], Calls(q) - 1) = Val(hist[r], Calls(r) - 1)
      BY <1>1, <1>5, <1>8, <2>1, <2>3, <3>2 DEF PairInv, Before
    <3>5. Calls(r) <= MaxCalls /\ MaxCalls \in Nat
      BY <1>0, MpiAssumption DEF ControlInv
    <3>6. \A n \in 0 .. MaxCalls : n <= Calls(q) /\ n <= Calls(r) => Val(hist[q], n) = Val(hist[r], n)
      BY <1>0, <2>3 DEF AgreeInv
    <3>7. ASSUME NEW p \in Ranks, Calls(p) - 1 \in Nat
          PROVE  /\ Val(hist[p], Calls(p) - 1) \in 0 .. (Calls(p) - 1)
                 /\ \A m \in 0 .. (Calls(p) - 1) : Val(hist[p], m) <= Val(hist[p], Calls(p) - 1)
      <4>1. Calls(p) \in Nat /\ Calls(p) = Len(hist[p]) /\ HistOK(hist[p])
        BY <1>0, Numbers DEF Calls
      <4>2. Calls(p) - 1 \in 0 .. Len(hist[p])
        BY <3>7, <4>1
      <4> QED
        BY <4>1, <4>2 DEF HistOK
    <3>8. CASE Calls(q) < Calls(r)
      <4>1. Calls(q) \in 0 .. (Calls(r) - 1) /\ Calls(q) \in 0 .. MaxCalls /\ Calls(r) - 1 \in Nat
        BY <1>5, <3>2, <3>5, <3>8
      <4>2. Val(hist[r], Calls(q)) = Calls(q)
        BY <1>5, <3>2, <3>3, <3>6, <3>8, <4>1
      <4>3. Calls(q) <= Val(hist[r], Calls(r) - 1)
        BY <3>7, <4>1, <4>2
      <4>4. Val(hist[q], Calls(q) - 1) \in 0 .. (Calls(q) - 1)
        BY <3>2, <3>7
      <4> QED
        BY <3>2, <3>4, <4>3, <4>4
    <3>9. CASE Calls(r) < Calls(q)
      <4>1. Calls(r) \in 0 .. (Calls(q) - 1) /\ Calls(r) \in 0 .. MaxCalls /\ Calls(r) - 1 \in Nat
        BY <1>5, <3>2, <3>5, <3>9
      <4>2. Val(hist[q], Calls(r)) = Calls(r)
        BY <1>5, <3>2, <3>3, <3>6, <3>9, <4>1
      <4>3. Calls(r) <= Val(hist[q], Calls(q) - 1)
        BY <3>2, <3>7, <4>1, <4>2
      <4>4. Val(hist[r], Calls(r) - 1) \in 0 .. (Calls(r) - 1)
        BY <3>7, <4>1
      <4> QED
        BY <1>5, <3>4, <4>3, <4>4
    <3> QED
      BY <1>5, <3>2, <3>3, <3>8, <3>9
  <2> QED
    BY <2>2, <2>3
<1>9. ASSUME NEW p \in Ranks, NEW q \in Ranks PROVE PairInv(p, q)'
  <2>n. arrived[p] \in Nat /\ arrived[q] \in Nat /\ arrived[r] \in Nat /\ Base(p) \in Nat /\ Base(q) \in Nat
    BY <1>0, Numbers, BaseFacts
  <2>1. PairInv(p, q) /\ arrived[q] <= arrived[p] + 1
    BY <1>0 DEF CountInv
  <2>2. CASE p # r /\ q # r
    BY <1>1, <1>2, <1>3, <1>7, <2>1, <2>2 DEF PairInv
  <2>3. CASE p = r /\ q = r
    <3>1. arrived'[r] # arrived'[r] + 1
      BY <1>3, <2>n
    <3> QED
      BY <2>3, <3>1 DEF PairInv
  <2>4. CASE p = r /\ q # r
    <3>1. /\ arrived'[q] = arrived'[p] => arrived[q] = arrived[r] + 1
          /\ arrived'[q] # arrived'[p] + 1
      BY <1>3, <2>n, <2>1, <2>4
    <3>2. Base(q)' = Base(q) /\ Held(q)' = Held(q) /\ Base(p)' = Calls(r) /\ Held(p)' = Val(hist[r], Calls(r))
      BY <1>5, <1>7, <2>4
    <3> QED
      BY <1>2, <1>8, <2>4, <3>1, <3>2 DEF PairInv
  <2>5. CASE p # r /\ q = r
    <3>1. /\ arrived'[q] = arrived'[p] => arrived[p] = arrived[r] + 1
          /\ arrived'[q] = arrived'[p] + 1 => arrived[q] = arrived[p]
      BY <1>3, <2>n, <2>5
    <3>2. /\ Base(p)' = Base(p) /\ Held(p)' = Held(p) /\ Base(q)' = Base(q) + 1
          /\ Base(q)' = Calls(r) /\ Held(q)' = Val(hist[r], Calls(r)) /\ Before(q)' = Held(q)
      BY <1>5, <1>7, <2>5
    <3>3. arrived[q] = arrived[p] => /\ engine = "NvmInst" => Base(q) = Base(p)
                                     /\ engine = "Hybrid" => Held(q) = Held(p)
      BY <1>1, <2>1 DEF PairInv
    <3> QED
      BY <1>2, <1>8, <2>5, <3>1, <3>2, <3>3 DEF PairInv
  <2> QED
    BY <2>2, <2>3, <2>4, <2>5
<1>10. MinInv'
  BY <1>3 DEF MinInv
<1> QED
  BY <1>1, <1>4, <1>6, <1>7, <1>9, <1>10 DEF DataInv, Live

\* The processes agree on an epoch, and continue after the call it restores.
LEMMA AgreeData ==
  ASSUME BaseInv, OpenInv, DataInv, BaseInv', broken' = {}, broken = {}, Agree
  PROVE  DataInv'
<1>0. /\ TypeOK /\ ControlInv /\ CountInv /\ EpochInv
      /\ \A q \in Ranks : HistOK(hist[q]) /\ NewInv(q) /\ SlotInv(q)
      /\ \A p, q \in Ranks : PairInv(p, q) /\ AgreeInv(p, q)
  BY DEF BaseInv, DataInv
<1>1. /\ \A q \in Ranks : pc[q] = "open"
      /\ engine' = engine /\ committed_epoch' = committed_epoch /\ slot' = slot
  BY DEF Agree
<1>2. ~Unrecoverable
  <2>1. ~Wrapped /\ \A p, q \in Ranks : Close(committed_epoch[p], committed_epoch[q])
    BY <1>1, MpiAssumption DEF OpenInv
  <2> QED
    BY <1>0, <2>1, CanRecover
<1>3. Common(MinEpoch) # {}
  <2>1. Restorable
    BY <1>1, MpiAssumption DEF DataInv
  <2> QED
    BY <2>1 DEF Restorable
<1>4. PICK n \in Common(MinEpoch) : /\ hist' = [r \in Ranks |-> SubSeq(hist[r], 1, n)]
                                    /\ returned' = [r \in Ranks |-> n]
                                    /\ pc' = [r \in Ranks |-> "reset"] /\ min_epoch' = MinEpoch
  BY <1>2, <1>3, AgreeStep
<1>5. n \in 0 .. MaxCalls /\ \A q \in Ranks : n <= Calls(q) /\ At(q, n) = slot[q][MinEpoch % 2]
  BY DEF Common
<1>6. n \in Nat /\ \A q \in Ranks : n \in 0 .. Calls(q)
  <2>1. n \in Nat
    BY <1>5, MpiAssumption
  <2> QED
    BY <1>0, <1>5, <2>1, Numbers
<1>7. ASSUME NEW q \in Ranks
      PROVE  /\ pc'[q] = "reset" /\ returned'[q] = n /\ HistOK(hist'[q])
             /\ Calls(q)' = n /\ (\A i \in 0 .. n : Val(hist'[q], i) = Val(hist[q], i))
             /\ Val(hist[q], n) = slot[q][MinEpoch % 2]
  <2>1. pc'[q] = "reset" /\ returned'[q] = n /\ hist'[q] = SubSeq(hist[q], 1, n)
    BY <1>4
  <2>2. HistOK(SubSeq(hist[q], 1, n))
    BY <1>0, <1>6, CutOK
  <2>3. /\ Len(SubSeq(hist[q], 1, n)) = n
        /\ \A i \in 0 .. n : Val(SubSeq(hist[q], 1, n), i) = Val(hist[q], i)
    BY <1>0, <1>6, CutVal
  <2>4. Val(hist[q], n) = slot[q][MinEpoch % 2]
    BY <1>5, <1>6, ValAt
  <2> QED
    BY <2>1, <2>2, <2>3, <2>4 DEF Calls
<1>8. ASSUME NEW q \in Ranks PROVE Base(q)' = n /\ Held(q)' = Val(hist[q], n)
  <2>1. Base(q)' = n
    BY <1>7 DEF Base
  <2>2. n \in 0 .. n
    BY <1>6
  <2> QED
    BY <1>7, <2>1, <2>2 DEF Held
<1>9. ASSUME NEW q \in Ranks PROVE NewInv(q)' /\ SlotInv(q)'
  <2>1. n \in 0 .. n
    BY <1>6
  <2>2. /\ slot'[q][min_epoch' % 2] = Held(q)' /\ Val(hist'[q], returned'[q]) = Held(q)'
    BY <1>1, <1>4, <1>7, <1>8, <2>1
  <2> QED
    BY <1>7, <2>2 DEF NewInv, SlotInv
<1>10. ASSUME NEW p \in Ranks, NEW q \in Ranks PROVE PairInv(p, q)' /\ AgreeInv(p, q)'
  <2>1. ASSUME engine = "Hybrid" PROVE \A i \in 0 .. n : Val(hist[p], i) = Val(hist[q], i)
    <3>1. \A i \in 0 .. MaxCalls : i <= Calls(p) /\ i <= Calls(q) => Val(hist[p], i) = Val(hist[q], i)
      BY <1>0, <2>1 DEF AgreeInv
    <3>2. \A i \in 0 .. n : i \in 0 .. MaxCalls /\ i <= Calls(p) /\ i <= Calls(q)
      <4>1. Calls(p) \in Nat /\ Calls(q) \in Nat /\ MaxCalls \in Nat /\ n <= Calls(p) /\ n <= Calls(q) /\ n <= MaxCalls
        BY <1>0, <1>5, Numbers, MpiAssumption
      <4> QED
        BY <1>6, <4>1
    <3> QED
      BY <3>1, <3>2
  <2>2. arrived'[p] = 0 /\ arrived'[q] = 0
    BY <1>7 DEF BaseInv, ControlInv, Running
  <2>3. n \in 0 .. n /\ 0 # 0 + 1
    BY <1>6
  <2>4. PairInv(p, q)'
    BY <1>1, <1>8, <2>1, <2>2, <2>3 DEF PairInv
  <2>5. AgreeInv(p, q)'
    <3>1. \A i \in 0 .. MaxCalls : i <= n => i \in 0 .. n
      BY <1>6
    <3> QED
      BY <1>1, <1>7, <2>1, <3>1 DEF AgreeInv
  <2> QED
    BY <2>4, <2>5
<1>11. MinInv'
  BY <1>0, <1>1, <1>4, MinEpochFacts DEF MinInv
<1> QED
  BY <1>7, <1>9, <1>10, <1>11 DEF DataInv

LEMMA NextData ==
  BaseInv /\ OpenInv /\ (broken = {} => DataInv) /\ BaseInv' /\ [Next]_vars => (broken' = {} => DataInv')
<1> SUFFICES ASSUME BaseInv, OpenInv, broken = {} => DataInv, BaseInv', [Next]_vars, broken' = {}
             PROVE  DataInv'
  OBVIOUS
<1>0. broken = {} /\ DataInv
  <2>1. broken \subseteq broken'
    BY DEF Next, vars, Store, Call, Commit, Pass, Reset, Recover, Agree, Crash
  <2> QED
    BY <2>1
<1>1. CASE UNCHANGED vars
  <2>1. /\ engine' = engine /\ committed_epoch' = committed_epoch /\ slot' = slot /\ pc' = pc
        /\ arrived' = arrived /\ min_epoch' = min_epoch /\ hist' = hist /\ returned' = returned
    BY <1>1 DEF vars
  <2>2. ASSUME NEW q \in Ranks
        PROVE  /\ NewInv(q)' /\ SlotInv(q)' /\ (Live(q)' <=> Live(q))
               /\ Base(q)' = Base(q) /\ Held(q)' = Held(q) /\ Before(q)' = Before(q)
    <3>1. NewInv(q) /\ SlotInv(q)
      BY <1>0 DEF DataInv
    <3>2. /\ hist'[q] = hist[q] /\ pc'[q] = pc[q] /\ slot'[q] = slot[q]
          /\ committed_epoch'[q] = committed_epoch[q] /\ returned'[q] = returned[q]
      BY <2>1
    <3> QED
      BY <2>1, <3>1, <3>2, Apart
  <2>3. ASSUME NEW p \in Ranks, NEW q \in Ranks PROVE PairInv(p, q)'
    <3>1. PairInv(p, q)
      BY <1>0 DEF DataInv
    <3> QED
      BY <2>1, <2>2, <3>1 DEF PairInv
  <2>4. (\A q \in Ranks : HistOK(hist'[q])) /\ \A p, q \in Ranks : AgreeInv(p, q)'
    BY <1>0, <2>1, SameHistories
  <2>5. (\A q \in Ranks : pc[q] = "open" => Restorable) /\ MinInv
    BY <1>0 DEF DataInv
  <2>6. \A q \in Ranks : pc'[q] = "open" => Restorable'
    BY <2>1, <2>5, SameRestorable
  <2>7. MinInv'
    BY <2>1, <2>5 DEF MinInv
  <2> QED
    BY <2>2, <2>3, <2>4, <2>6, <2>7 DEF DataInv
<1>2. CASE \E r \in Ranks : \/ Store(r) \/ Call(r) \/ Commit(r) \/ Pass(r) \/ Reset(r) \/ Recover(r)
  BY <1>0, <1>2, StoreData, CallData, CommitData, PassData, ResetData, RecoverData
<1>3. CASE Agree \/ Crash
  BY <1>0, <1>3, AgreeData, CrashData
<1> QED
  BY <1>1, <1>2, <1>3 DEF Next

\* The invariant is inductive.
LEMMA Inductive == Spec => []IndInv
<1>1. Init => IndInv
  <2>1. Init => OpenInv
    BY DEF Init, OpenInv
  <2> QED
    BY <2>1, InitBase, InitData DEF IndInv
<1>2. IndInv /\ [Next]_vars => IndInv'
  BY NextBase, NextOpen, NextData DEF IndInv
<1> QED
  BY <1>1, <1>2, PTL DEF Spec

\* In every state, for any number of processes and of checkpoints and however
\* often they crash and recover, the slots of the smallest epoch restore one and
\* the same call of checkpoint in all processes, not older than one that has
\* returned, unless a process skipped a checkpoint, they recover out of step, or
\* the epoch wraps (checkpoint_for_mpi, OpenForMPI, reset_committed_epoch).
THEOREM SameCheckpointRestored == Spec => []SameCheckpoint
<1>1. ASSUME IndInv PROVE SameCheckpoint
  <2> SUFFICES ASSUME broken = {}, ~Ahead, ~Unreset, ~Wrapped PROVE Restorable
    BY DEF SameCheckpoint, Restorable
  <2> QED
    BY <1>1, Agreed DEF IndInv
<1>2. IndInv => SameCheckpoint
  BY <1>1
<1> QED
  BY <1>2, Inductive, PTL

=============================================================================
