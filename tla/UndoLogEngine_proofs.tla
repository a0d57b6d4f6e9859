------------------------ MODULE UndoLogEngine_proofs ------------------------
(***************************************************************************)
(* The undo log, for any number of threads, blocks and entries: its        *)
(* entries are complete below every head a crash may leave, nobody waits   *)
(* in vain to move the head, and recover restores the last checkpoint      *)
(* unless a store overtakes a thread that clears bits.  The last two need  *)
(* to know which thread owns which entry, that the dirty bits stand for    *)
(* entries, and that the thread ids of a checkpoint number its threads, so *)
(* that together they clear every bit.                                     *)
(***************************************************************************)
EXTENDS UndoLogEngine, FiniteSetTheorems, WellFoundedInduction, TLAPS

\* Where the threads are in each phase.
ControlInv ==
  /\ phase = "run" =>
       \A t \in Threads : pc[t] \in {"app", "hook", "logged", "appended", "ckpt", "clear"}
  /\ phase = "flush" => \A t \in Threads : pc[t] = "ckpt"
  /\ phase = "clear" => \A t \in Threads : pc[t] \in {"clear", "latch", "reset"}
  /\ phase \in {"recover", "recovered"} =>
       /\ \A t \in Threads : pc[t] = "down"
       /\ log_head = 0 /\ next_thread_id = 0 /\ block_dirty = {}

\* The ids of the threads in a checkpoint number them.
InCkpt == {t \in Threads : pc[t] = "ckpt"}
TidInv ==
  /\ phase = "run" =>
       /\ Cardinality(InCkpt) = next_thread_id
       /\ \A t \in InCkpt : tid[t] < next_thread_id
       /\ \A i \in 0 .. (next_thread_id - 1) : \E t \in InCkpt : tid[t] = i
       /\ \A t, u \in InCkpt : tid[t] = tid[u] => t = u
       /\ \A t \in Threads : pc[t] = "clear" => tid[t] # 0
  /\ phase \in {"flush", "clear"} =>
       /\ \A i \in Threads : \E t \in Threads : tid[t] = i
       /\ \A t, u \in Threads : tid[t] = tid[u] => t = u
  /\ \A t, u \in Threads : pc[t] = "clear" /\ pc[u] = "clear" /\ tid[t] = tid[u] => t = u
  /\ \A t \in Threads : pc[t] = "reset" => tid[t] = 0

\* Each thread in the hook owns the entry it writes.
SlotInv ==
  /\ phase \in {"run", "flush", "clear"} => header_head <= log_head
  /\ header_head \in header_head_pm
  /\ \A h \in header_head_pm : h <= header_head
  /\ \A t \in Threads :
       /\ pc[t] \in {"logged", "appended"} => entry_block[slot[t]] \in Blocks
       /\ pc[t] = "logged" => header_head <= slot[t] /\ slot[t] < log_head
       /\ pc[t] = "appended" => slot[t] < header_head
  /\ \A t, u \in Threads :
       pc[t] = "logged" /\ pc[u] = "logged" /\ slot[t] = slot[u] => t = u

\* What loads see may be what the medium holds.
MediumInv ==
  /\ \A b \in Blocks : data[b] \in data_pm[b]
  /\ \A i \in Entries : entry_block[i] \in entry_block_pm[i] /\ entry_data[i] \in entry_data_pm[i]

\* Some thread has still to clear its bits.
Clearing == \E t \in Threads : pc[t] = "clear"

\* Block b has an entry below the head h.
LoggedBelow(b, h) == \E i \in 0 .. (h - 1) : entry_block[i] = b

\* The property for one block: every entry holds the snapshot, or there is none
\* and the data does.
SafeInv(b) ==
  \A h \in header_head_pm :
    /\ \A i \in 0 .. (h - 1) : entry_block[i] = b => entry_data_pm[i] = {snap[b]}
    /\ ~LoggedBelow(b, h) => data_pm[b] = {snap[b]}

\* How far the checkpoint or the recovery has come with a block.
ProgressInv(b) ==
  /\ phase # "recover" => data[b] = app[b]
  /\ phase \in {"recover", "recovered"} => app[b] = snap[b]
  /\ phase = "clear" => data_pm[b] = {data[b]}

\* What the dirty bit of a block says.
Full == \E t \in Threads : Cardinality(flush_blocks[t]) = kMaxFlushBlocks
BitInv(b) ==
  /\ phase \in {"run", "flush"} /\ (b \notin block_dirty \/ Clearing) => data_pm[b] = {snap[b]}
  /\ phase \in {"run", "flush"} /\ ~Clearing /\ b \in block_dirty =>
       /\ \A h \in header_head_pm : LoggedBelow(b, h)
       /\ b \in Listed \/ Full
  /\ (phase = "clear" \/ Clearing) /\ b \in block_dirty =>
       \E t \in Threads : pc[t] = "clear" /\ b \in Cleared(tid[t])

\* A thread in the hook has copied the snapshot, and has seen the bits of the
\* blocks it has visited.
HookInv(t) ==
  /\ pc[t] \in {"hook", "logged", "appended"} =>
       ~Clearing /\ range[t] \ pending[t] \subseteq block_dirty
  /\ pc[t] = "logged" => entry_data[slot[t]] = snap[entry_block[slot[t]]]

ModeInv == phase = "flush" => flush_mode = "WBINVD" \/ ~Full

\* The invariant of the log, and what holds as long as no store overtakes.
LogInv == TypeOK /\ ControlInv /\ TidInv /\ SlotInv /\ MediumInv /\ LogComplete /\ TurnHeld /\ ModeInv

DataInv == /\ \A b \in Blocks : SafeInv(b) /\ ProgressInv(b) /\ BitInv(b)
           /\ \A t \in Threads : HookInv(t)

IndInv == LogInv /\ (overtaken \/ DataInv)

-----------------------------------------------------------------------------
(* The log.                                                                *)

\* Types of what the primitives of PersistentMemory return.
LEMMA PutType ==
  ASSUME NEW D, NEW S, NEW pm \in [D -> (SUBSET S) \ {{}}], NEW X, NEW val \in [D -> S]
  PROVE  Put(pm, X, val) \in [D -> (SUBSET S) \ {{}}]
BY DEF Put

LEMMA SettleType ==
  ASSUME NEW D, NEW S, NEW pm \in [D -> (SUBSET S) \ {{}}], NEW X, NEW val \in [D -> S]
  PROVE  Settle(pm, X, val) \in [D -> (SUBSET S) \ {{}}]
BY DEF Settle

LEMMA SettledType ==
  ASSUME NEW D, NEW S, NEW mem \in [D -> S]
  PROVE  Settled(mem) \in [D -> (SUBSET S) \ {{}}]
BY DEF Settled

\* A thread that executes a store does so in the run phase, and no leader empties
\* the log meanwhile.
LEMMA StoreRuns ==
  ASSUME TypeOK, ControlInv, NEW t \in Threads, pc[t] \in {"app", "hook", "logged", "appended"}
  PROVE  phase = "run" /\ \A u \in Threads : pc[u] # "reset"
BY DEF TypeOK, ControlInv

\* A block with entries below a head has a newest one.
LEMMA NewestExists ==
  ASSUME NEW h \in Nat, NEW L \in SUBSET (0 .. (h - 1)), L # {}
  PROVE  \E i \in L : \A j \in L : j <= i
<1> DEFINE D == {h - i : i \in L}
<1>1. D \subseteq Nat /\ D # {}
  <2>1. D \subseteq Nat
    <3>1. ASSUME NEW i \in L PROVE h - i \in Nat
      BY <3>1
    <3> QED
      BY <3>1
  <2>2. PICK i \in L : TRUE
    OBVIOUS
  <2>3. h - i \in D
    OBVIOUS
  <2> QED
    BY <2>1, <2>3
<1>2. PICK x \in D : \A y \in D : ~ (<<y, x>> \in OpToRel(<, Nat))
  BY <1>1, WFMin, NatLessThanWellFounded
<1>3. \A y \in D : ~(y < x)
  BY <1>1, <1>2 DEF OpToRel
<1>4. PICK i \in L : x = h - i
  OBVIOUS
<1>5. \A j \in L : h - j \in D
  OBVIOUS
<1>6. ASSUME NEW j \in L PROVE j <= i
  <2>1. ~(h - j < h - i)
    BY <1>3, <1>4, <1>5
  <2>2. i \in Nat /\ j \in Nat
    OBVIOUS
  <2> QED
    BY <2>1, <2>2
<1> QED
  BY <1>6

\* A new image has an empty log.
LEMMA InitLog == Init => LogInv
<1> SUFFICES ASSUME Init PROVE LogInv
  OBVIOUS
<1> USE UndoLogAssumption
<1>1. attributes \in BOOLEAN /\ overtaken \in BOOLEAN
  BY Zenon DEF Init
<1>2. TypeOK
  BY <1>1 DEF TypeOK, Init, Settled, Contents, Entries, Threads
<1>3. ControlInv /\ ModeInv
  BY DEF ControlInv, ModeInv, Init
<1>4. TidInv
  <2>1. InCkpt = {}
    BY DEF InCkpt, Init
  <2> QED
    BY <2>1, FS_EmptySet DEF TidInv, Init
<1>5. SlotInv
  BY DEF SlotInv, Init
<1>6. MediumInv
  BY DEF MediumInv, Init, Settled
<1>7. LogComplete /\ TurnHeld
  BY DEF LogComplete, TurnHeld, Init
<1> QED
  BY <1>2, <1>3, <1>4, <1>5, <1>6, <1>7 DEF LogInv

\* A store begins.
LEMMA BeginStoreLog == ASSUME LogInv, NEW t \in Threads, BeginStore(t) PROVE LogInv'
<1> USE UndoLogAssumption DEF headVars, logVars, dataVars, hookVars, threadVars
<1>0. /\ TypeOK /\ ControlInv /\ TidInv /\ SlotInv /\ MediumInv /\ LogComplete /\ TurnHeld
      /\ ModeInv
  BY DEF LogInv
<1>a. PICK R \in Ranges : /\ range' = [range EXCEPT ![t] = R]
                          /\ pending' = [pending EXCEPT ![t] = R]
  BY DEF BeginStore
<1>b. R \in SUBSET Blocks
  BY DEF Blocks
<1>1. attributes' \in BOOLEAN /\ overtaken' \in BOOLEAN
  BY <1>0, Zenon DEF TypeOK, BeginStore, Goto
<1>2. TypeOK'
  BY <1>0, <1>1, <1>a, <1>b DEF TypeOK, BeginStore, Goto
<1>3. ControlInv'
  BY <1>0 DEF TypeOK, ControlInv, BeginStore, Goto
<1>4. TidInv'
  <2>1. InCkpt' = InCkpt
    BY <1>0 DEF TypeOK, InCkpt, BeginStore, Goto
  <2> QED
    BY <1>0, <2>1 DEF TypeOK, TidInv, BeginStore, Goto
<1>5. SlotInv'
  BY <1>0 DEF TypeOK, ControlInv, SlotInv, BeginStore, Goto
<1>6. MediumInv'
  BY <1>0 DEF TypeOK, MediumInv, BeginStore, Goto
<1>7. LogComplete'
  BY <1>0 DEF LogComplete, BeginStore, Goto
<1>8. TurnHeld'
  BY <1>0 DEF TypeOK, ControlInv, TurnHeld, BeginStore, Goto
<1>9. ModeInv'
  BY <1>0 DEF TypeOK, ControlInv, ModeInv, Full, BeginStore, Goto
<1> QED
  BY <1>2, <1>3, <1>4, <1>5, <1>6, <1>7, <1>8, <1>9 DEF LogInv

\* A block that is logged is passed over.
LEMMA HookDirtyLog == ASSUME LogInv, NEW t \in Threads, HookDirty(t) PROVE LogInv'
<1> USE UndoLogAssumption DEF headVars, logVars, dataVars, hookVars, threadVars
<1>0. /\ TypeOK /\ ControlInv /\ TidInv /\ SlotInv /\ MediumInv /\ LogComplete /\ TurnHeld
      /\ ModeInv
  BY DEF LogInv
<1>1. attributes' \in BOOLEAN /\ overtaken' \in BOOLEAN
  BY <1>0, Zenon DEF TypeOK, HookDirty
<1>2. TypeOK'
  BY <1>0, <1>1 DEF TypeOK, HookDirty
<1>3. ControlInv'
  BY <1>0 DEF TypeOK, ControlInv, HookDirty
<1>4. TidInv'
  <2>1. InCkpt' = InCkpt
    BY <1>0 DEF TypeOK, InCkpt, HookDirty
  <2> QED
    BY <1>0, <2>1 DEF TypeOK, TidInv, HookDirty
<1>5. SlotInv'
  BY <1>0 DEF TypeOK, ControlInv, SlotInv, HookDirty
<1>6. MediumInv'
  BY <1>0 DEF TypeOK, MediumInv, HookDirty
<1>7. LogComplete'
  BY <1>0 DEF LogComplete, HookDirty
<1>8. TurnHeld'
  BY <1>0 DEF TypeOK, ControlInv, TurnHeld, HookDirty
<1>9. ModeInv'
  BY <1>0 DEF TypeOK, ControlInv, ModeInv, Full, HookDirty
<1> QED
  BY <1>2, <1>3, <1>4, <1>5, <1>6, <1>7, <1>8, <1>9 DEF LogInv

\* The entry is beyond the head, wherever the head is found, and has one owner.
LEMMA HookLogLog == ASSUME LogInv, NEW t \in Threads, HookLog(t) PROVE LogInv'
<1> USE UndoLogAssumption DEF headVars, logVars, dataVars, hookVars, threadVars
<1>0. /\ TypeOK /\ ControlInv /\ TidInv /\ SlotInv /\ MediumInv /\ LogComplete /\ TurnHeld
      /\ ModeInv
  BY DEF LogInv
<1>a. PICK b \in pending[t] :
        /\ LockOf(b) \notin segment_locks
        /\ segment_locks' = segment_locks \cup {LockOf(b)}
        /\ entry_block' = [entry_block EXCEPT ![log_head] = b]
        /\ entry_data' = [entry_data EXCEPT ![log_head] = data[b]]
  BY DEF HookLog
<1>b. b \in Blocks /\ LockOf(b) \in 0 .. (kSegmentLocks - 1) /\ data[b] \in Contents
  <2>1. b \in Blocks
    BY <1>0, <1>a DEF TypeOK
  <2> QED
    BY <1>0, <2>1 DEF TypeOK, LockOf, Blocks
<1>c. log_head \in Entries /\ log_head \in Nat /\ log_head + 1 \in 0 .. (log_capacity - 1)
  BY <1>0 DEF TypeOK, HookLog, HasRoom, Entries
<1>d. phase = "run" /\ header_head \in Nat /\ header_head <= log_head
  BY <1>0, StoreRuns DEF HookLog, SlotInv, TypeOK
<1>e. /\ entry_block' \in [Entries -> Blocks \cup {NoBlock}]
      /\ entry_data' \in [Entries -> Contents]
  BY <1>0, <1>a, <1>b DEF TypeOK
<1>f. /\ entry_block_pm' \in [Entries -> (SUBSET (Blocks \cup {NoBlock})) \ {{}}]
      /\ entry_data_pm' \in [Entries -> (SUBSET Contents) \ {{}}]
  BY <1>0, <1>e, PutType DEF TypeOK, HookLog
<1>g. /\ entry_block'[log_head] = b
      /\ \A i \in Entries : i # log_head => /\ entry_block'[i] = entry_block[i]
                                            /\ entry_data'[i] = entry_data[i]
                                            /\ entry_block_pm'[i] = entry_block_pm[i]
                                            /\ entry_data_pm'[i] = entry_data_pm[i]
  BY <1>0, <1>a, <1>c DEF TypeOK, HookLog, Put
<1>h. /\ pc' = [pc EXCEPT ![t] = "logged"] /\ slot' = [slot EXCEPT ![t] = log_head]
      /\ log_head' = log_head + 1 /\ pc[t] = "hook"
      /\ UNCHANGED <<header_head, header_head_pm, phase, tid, next_thread_id>>
  BY DEF HookLog, Goto
<1>i. \A h \in header_head_pm : h \in Nat /\ h <= log_head /\ 0 .. (h - 1) \subseteq Entries
  BY <1>0, <1>d DEF TypeOK, SlotInv, Entries
<1>1. attributes' \in BOOLEAN /\ overtaken' \in BOOLEAN
  BY <1>0, Zenon DEF TypeOK, HookLog, Goto, HasRoom, Put
<1>2. TypeOK'
  BY <1>0, <1>1, <1>a, <1>b, <1>c, <1>e, <1>f DEF TypeOK, HookLog, Goto
<1>3. ControlInv'
  BY <1>0 DEF TypeOK, ControlInv, HookLog, Goto, HasRoom, Put
<1>4. TidInv'
  <2>1. InCkpt' = InCkpt
    BY <1>0 DEF TypeOK, InCkpt, HookLog, Goto, HasRoom, Put
  <2> QED
    BY <1>0, <2>1 DEF TypeOK, TidInv, HookLog, Goto, HasRoom, Put
<1>5. SlotInv'
  <2>1. ASSUME NEW u \in Threads
        PROVE  /\ pc'[u] \in {"logged", "appended"} => entry_block'[slot'[u]] \in Blocks
               /\ pc'[u] = "logged" => header_head <= slot'[u] /\ slot'[u] < log_head + 1
               /\ pc'[u] = "appended" => slot'[u] < header_head
    <3>1. CASE u = t
      BY <1>0, <1>b, <1>c, <1>d, <1>g, <1>h, <3>1 DEF TypeOK
    <3>2. CASE u # t
      <4>1. pc'[u] = pc[u] /\ slot'[u] = slot[u] /\ slot[u] \in Entries /\ slot[u] \in Nat
        BY <1>0, <1>h, <2>1, <3>2 DEF TypeOK, Entries
      <4>2. pc[u] \in {"logged", "appended"} => slot[u] # log_head
        BY <1>0, <1>c, <1>d, <2>1, <4>1 DEF SlotInv
      <4> QED
        BY <1>0, <1>c, <1>d, <1>g, <2>1, <4>1, <4>2 DEF SlotInv
    <3> QED
      BY <3>1, <3>2
  <2>2. \A u, v \in Threads : pc'[u] = "logged" /\ pc'[v] = "logged" /\ slot'[u] = slot'[v] => u = v
    BY <1>0, <1>c, <1>h DEF TypeOK, SlotInv, Entries
  <2> QED
    BY <1>0, <1>c, <1>d, <1>h, <2>1, <2>2 DEF SlotInv
<1>6. MediumInv'
  BY <1>0, <1>c DEF TypeOK, MediumInv, HookLog, Put
<1>7. LogComplete'
  <2> SUFFICES ASSUME NEW h \in header_head_pm, NEW i \in 0 .. (h - 1)
               PROVE  entry_block_pm'[i] = {entry_block'[i]} /\ entry_block'[i] # NoBlock
    BY <1>h DEF LogComplete
  <2>1. i \in Entries /\ i # log_head
    BY <1>c, <1>i
  <2> QED
    BY <1>0, <1>g, <2>1 DEF LogComplete
<1>8. TurnHeld'
  <2> SUFFICES ASSUME NEW i \in header_head .. log_head
               PROVE  \E u \in Threads : pc'[u] = "logged" /\ slot'[u] = i
    BY <1>c, <1>h DEF TurnHeld
  <2>1. CASE i = log_head
    BY <1>0, <1>h, <2>1 DEF TypeOK
  <2>2. CASE i # log_head
    <3>1. i \in header_head .. (log_head - 1)
      BY <1>c, <1>d, <2>2
    <3>2. PICK u \in Threads : pc[u] = "logged" /\ slot[u] = i
      BY <1>0, <1>d, <3>1, StoreRuns DEF TurnHeld, HookLog
    <3> QED
      BY <1>0, <1>h, <3>2 DEF TypeOK
  <2> QED
    BY <2>1, <2>2
<1>9. ModeInv'
  BY <1>0 DEF TypeOK, ControlInv, ModeInv, Full, HookLog, Goto, HasRoom, Put
<1> QED
  BY <1>2, <1>3, <1>4, <1>5, <1>6, <1>7, <1>8, <1>9 DEF LogInv

\* The entry is durable before the head moves past it.
LEMMA HookAppendLog == ASSUME LogInv, NEW t \in Threads, HookAppend(t) PROVE LogInv'
<1> USE UndoLogAssumption DEF headVars, logVars, dataVars, hookVars, threadVars
<1>0. /\ TypeOK /\ ControlInv /\ TidInv /\ SlotInv /\ MediumInv /\ LogComplete /\ TurnHeld
      /\ ModeInv
  BY DEF LogInv
<1>a. /\ pc' = [pc EXCEPT ![t] = "appended"] /\ pc[t] = "logged"
      /\ header_head = slot[t] /\ header_head' = slot[t] + 1
      /\ header_head_pm' = header_head_pm \cup {slot[t] + 1}
      /\ UNCHANGED <<log_head, slot, phase, entry_block, entry_data, tid, next_thread_id>>
  BY DEF HookAppend, Goto, InTurn
<1>b. slot[t] \in Entries /\ slot[t] \in Nat /\ slot[t] < log_head /\ entry_block[slot[t]] \in Blocks
  BY <1>0, <1>a DEF TypeOK, SlotInv, Entries
<1>c. /\ header_head' \in 0 .. (log_capacity - 1)
      /\ header_head_pm' \in (SUBSET (0 .. (log_capacity - 1))) \ {{}}
  <2>1. slot[t] + 1 \in 0 .. (log_capacity - 1)
    BY <1>0, <1>b DEF TypeOK
  <2>2. header_head_pm \in (SUBSET (0 .. (log_capacity - 1))) \ {{}}
    BY <1>0 DEF TypeOK
  <2> QED
    BY <1>a, <2>1, <2>2
<1>d. /\ entry_block_pm' \in [Entries -> (SUBSET (Blocks \cup {NoBlock})) \ {{}}]
      /\ entry_data_pm' \in [Entries -> (SUBSET Contents) \ {{}}]
  BY <1>0, SettleType DEF TypeOK, HookAppend
<1>e. /\ entry_block_pm'[slot[t]] = {entry_block[slot[t]]}
      /\ \A i \in Entries : i # slot[t] => entry_block_pm'[i] = entry_block_pm[i]
  BY <1>0, <1>b DEF TypeOK, HookAppend, Settle
<1>f. NoBlock \notin Blocks
  BY DEF Blocks
<1>1. attributes' \in BOOLEAN /\ overtaken' \in BOOLEAN
  BY <1>0, Zenon DEF TypeOK, HookAppend, Goto, InTurn, Settle
<1>2. TypeOK'
  <2>1. pc' \in [Threads -> {"app", "hook", "logged", "appended", "ckpt", "clear", "latch",
                            "reset", "down"}]
    BY <1>0, <1>a DEF TypeOK
  <2> QED
    BY <1>0, <1>1, <1>c, <1>d, <2>1 DEF TypeOK, HookAppend
<1>3. ControlInv'
  BY <1>0 DEF TypeOK, ControlInv, HookAppend, Goto, InTurn, Settle
<1>4. TidInv'
  <2>1. InCkpt' = InCkpt
    BY <1>0 DEF TypeOK, InCkpt, HookAppend, Goto, InTurn, Settle
  <2> QED
    BY <1>0, <2>1 DEF TypeOK, TidInv, HookAppend, Goto, InTurn, Settle
<1>5. SlotInv'
  <2>1. phase = "run"
    BY <1>0, <1>a, StoreRuns
  <2>2. \A h \in header_head_pm' : h <= header_head'
    BY <1>0, <1>a, <1>b DEF TypeOK, SlotInv
  <2>3. ASSUME NEW u \in Threads
        PROVE  /\ pc'[u] \in {"logged", "appended"} => entry_block[slot[u]] \in Blocks
               /\ pc'[u] = "logged" => header_head' <= slot[u] /\ slot[u] < log_head
               /\ pc'[u] = "appended" => slot[u] < header_head'
    <3>1. CASE u = t
      BY <1>0, <1>a, <1>b, <3>1 DEF TypeOK
    <3>2. CASE u # t
      <4>1. pc'[u] = pc[u] /\ slot[u] \in Nat
        BY <1>0, <1>a, <2>3, <3>2 DEF TypeOK, Entries
      <4>2. pc[u] = "logged" => slot[u] # slot[t]
        BY <1>0, <1>a, <2>3, <3>2 DEF SlotInv
      <4> QED
        BY <1>0, <1>a, <1>b, <2>3, <4>1, <4>2 DEF SlotInv
    <3> QED
      BY <3>1, <3>2
  <2>4. \A u, v \in Threads : pc'[u] = "logged" /\ pc'[v] = "logged" /\ slot[u] = slot[v] => u = v
    BY <1>0, <1>a DEF TypeOK, SlotInv
  <2> QED
    BY <1>0, <1>a, <1>b, <2>1, <2>2, <2>3, <2>4 DEF SlotInv, TypeOK
<1>6. MediumInv'
  BY <1>0, <1>b DEF TypeOK, MediumInv, HookAppend, Settle
<1>7. LogComplete'
  <2> SUFFICES ASSUME NEW h \in header_head_pm', NEW i \in 0 .. (h - 1)
               PROVE  entry_block_pm'[i] = {entry_block[i]} /\ entry_block[i] # NoBlock
    BY <1>a DEF LogComplete
  <2>1. header_head \in header_head_pm /\ \A g \in header_head_pm : g \in Nat /\ g <= header_head
    BY <1>0 DEF TypeOK, SlotInv
  <2>2. CASE i = slot[t]
    BY <1>b, <1>e, <1>f, <2>2
  <2>3. CASE i # slot[t]
    <3>1. i \in 0 .. (header_head - 1)
      BY <1>a, <1>b, <2>1, <2>3
    <3>2. i \in Entries
      BY <1>0, <3>1 DEF TypeOK, Entries
    <3> QED
      BY <1>0, <1>e, <2>1, <2>3, <3>1, <3>2 DEF LogComplete
  <2> QED
    BY <2>2, <2>3
<1>8. TurnHeld'
  <2> SUFFICES ASSUME NEW i \in (slot[t] + 1) .. (log_head - 1)
               PROVE  \E u \in Threads : pc'[u] = "logged" /\ slot[u] = i
    BY <1>a DEF TurnHeld
  <2>1. i \in header_head .. (log_head - 1) /\ i # slot[t]
    BY <1>a, <1>b
  <2>2. PICK u \in Threads : pc[u] = "logged" /\ slot[u] = i
    BY <1>0, <1>a, <2>1, StoreRuns DEF TurnHeld
  <2> QED
    BY <1>0, <1>a, <2>1, <2>2 DEF TypeOK
<1>9. ModeInv'
  BY <1>0 DEF TypeOK, ControlInv, ModeInv, Full, HookAppend, Goto, InTurn, Settle
<1> QED
  BY <1>2, <1>3, <1>4, <1>5, <1>6, <1>7, <1>8, <1>9 DEF LogInv

\* The head is durable.
LEMMA HookDoneLog == ASSUME LogInv, NEW t \in Threads, HookDone(t) PROVE LogInv'
<1> USE UndoLogAssumption DEF headVars, logVars, dataVars, hookVars, threadVars
<1>0. /\ TypeOK /\ ControlInv /\ TidInv /\ SlotInv /\ MediumInv /\ LogComplete /\ TurnHeld
      /\ ModeInv
  BY DEF LogInv
<1>a. /\ pc' = [pc EXCEPT ![t] = "hook"] /\ pc[t] = "appended"
      /\ header_head_pm' = {header_head}
      /\ slot' = [slot EXCEPT ![t] = 0]
      /\ UNCHANGED <<header_head, log_head, phase, entry_block, entry_data, entry_block_pm,
                     entry_data_pm, tid, next_thread_id>>
  BY DEF HookDone, Goto
<1>b. entry_block[slot[t]] \in Blocks
  BY <1>0, <1>a DEF SlotInv
<1>c. 0 \in Entries
  BY DEF Entries
<1>d. flush_blocks' \in [Threads -> SUBSET Blocks]
  BY <1>0, <1>b DEF TypeOK, HookDone
<1>1. attributes' \in BOOLEAN /\ overtaken' \in BOOLEAN
  BY <1>0, Zenon DEF TypeOK, HookDone, Goto
<1>2. TypeOK'
  <2>1. pc' \in [Threads -> {"app", "hook", "logged", "appended", "ckpt", "clear", "latch",
                            "reset", "down"}]
    BY <1>0, <1>a DEF TypeOK
  <2>2. header_head_pm' \in (SUBSET (0 .. (log_capacity - 1))) \ {{}}
    BY <1>0, <1>a DEF TypeOK
  <2>3. slot' \in [Threads -> Entries]
    BY <1>0, <1>a, <1>c DEF TypeOK
  <2>4. pending' \in [Threads -> SUBSET Blocks]
    BY <1>0 DEF TypeOK, HookDone
  <2>5. block_dirty' \subseteq Blocks /\ segment_locks' \subseteq 0 .. (kSegmentLocks - 1)
    BY <1>0, <1>b DEF TypeOK, HookDone
  <2> QED
    BY <1>0, <1>1, <1>d, <2>1, <2>2, <2>3, <2>4, <2>5 DEF TypeOK, HookDone
<1>3. ControlInv'
  BY <1>0 DEF TypeOK, ControlInv, HookDone, Goto
<1>4. TidInv'
  <2>1. InCkpt' = InCkpt
    BY <1>0 DEF TypeOK, InCkpt, HookDone, Goto
  <2> QED
    BY <1>0, <2>1 DEF TypeOK, TidInv, HookDone, Goto
<1>5. SlotInv'
  <2>1. \A u \in Threads : pc'[u] \in {"logged", "appended"} => pc'[u] = pc[u] /\ slot'[u] = slot[u]
    BY <1>0, <1>a DEF TypeOK
  <2>2. header_head <= header_head
    BY <1>0 DEF TypeOK
  <2> QED
    BY <1>0, <1>a, <2>1, <2>2 DEF SlotInv
<1>6. MediumInv'
  BY <1>0, <1>a DEF MediumInv, HookDone
<1>7. LogComplete'
  BY <1>0, <1>a DEF LogComplete, SlotInv
<1>8. TurnHeld'
  <2>1. \A u \in Threads : pc[u] = "logged" => pc'[u] = "logged" /\ slot'[u] = slot[u]
    BY <1>0, <1>a DEF TypeOK
  <2> QED
    BY <1>0, <1>a, <2>1, StoreRuns DEF TurnHeld
<1>9. ModeInv'
  BY <1>0, <1>a, StoreRuns DEF ModeInv
<1> QED
  BY <1>2, <1>3, <1>4, <1>5, <1>6, <1>7, <1>8, <1>9 DEF LogInv

\* The store.
LEMMA FinishStoreLog == ASSUME LogInv, NEW t \in Threads, FinishStore(t) PROVE LogInv'
<1> USE UndoLogAssumption DEF headVars, logVars, dataVars, hookVars, threadVars
<1>0. /\ TypeOK /\ ControlInv /\ TidInv /\ SlotInv /\ MediumInv /\ LogComplete /\ TurnHeld
      /\ ModeInv
  BY DEF LogInv
<1>a. PICK v \in Values :
        /\ data' = Write(data, range[t], [b \in Blocks |-> v])
        /\ data_pm' = Put(data_pm, range[t], [b \in Blocks |-> v])
        /\ app' = Write(app, range[t], [b \in Blocks |-> v])
  BY DEF FinishStore
<1>b. [b \in Blocks |-> v] \in [Blocks -> Contents]
  BY DEF Contents
<1>c. data' \in [Blocks -> Contents] /\ app' \in [Blocks -> Contents]
  BY <1>0, <1>a, <1>b DEF TypeOK, Write
<1>d. data_pm' \in [Blocks -> (SUBSET Contents) \ {{}}]
  BY <1>0, <1>a, <1>b, PutType DEF TypeOK
<1>1. attributes' \in BOOLEAN /\ overtaken' \in BOOLEAN
  BY <1>0, Zenon DEF TypeOK, FinishStore, Goto
<1>2. TypeOK'
  BY <1>0, <1>1, <1>c, <1>d DEF TypeOK, FinishStore, Goto
<1>3. ControlInv'
  BY <1>0 DEF TypeOK, ControlInv, FinishStore, Goto
<1>4. TidInv'
  <2>1. InCkpt' = InCkpt
    BY <1>0 DEF TypeOK, InCkpt, FinishStore, Goto
  <2> QED
    BY <1>0, <2>1 DEF TypeOK, TidInv, FinishStore, Goto
<1>5. SlotInv'
  BY <1>0 DEF TypeOK, ControlInv, SlotInv, FinishStore, Goto
<1>6. MediumInv'
  BY <1>0, <1>a DEF TypeOK, MediumInv, FinishStore, Write, Put
<1>7. LogComplete'
  BY <1>0 DEF LogComplete, FinishStore, Goto
<1>8. TurnHeld'
  BY <1>0 DEF TypeOK, ControlInv, TurnHeld, FinishStore, Goto
<1>9. ModeInv'
  BY <1>0 DEF TypeOK, ControlInv, ModeInv, Full, FinishStore, Goto
<1> QED
  BY <1>2, <1>3, <1>4, <1>5, <1>6, <1>7, <1>8, <1>9 DEF LogInv

\* A thread comes to the checkpoint: the next id is free.
LEMMA CheckpointEnterLog == ASSUME LogInv, NEW t \in Threads, CheckpointEnter(t) PROVE LogInv'
<1> USE UndoLogAssumption DEF headVars, logVars, dataVars, hookVars, threadVars
<1>0. /\ TypeOK /\ ControlInv /\ TidInv /\ SlotInv /\ MediumInv /\ LogComplete /\ TurnHeld
      /\ ModeInv
  BY DEF LogInv
<1>a. t \notin InCkpt /\ InCkpt' = InCkpt \cup {t}
  BY <1>0 DEF TypeOK, InCkpt, CheckpointEnter, Goto
<1>b. IsFiniteSet(Threads) /\ Cardinality(Threads) = nr_threads
  BY FS_Interval DEF Threads
<1>c. IsFiniteSet(InCkpt) /\ Cardinality(InCkpt') = Cardinality(InCkpt) + 1
  BY <1>a, <1>b, FS_Subset, FS_AddElement DEF InCkpt
<1>d. Cardinality(InCkpt') <= nr_threads
  BY <1>a, <1>b, FS_Subset DEF InCkpt
<1>e. /\ next_thread_id = Cardinality(InCkpt) /\ next_thread_id \in Nat
      /\ next_thread_id' = next_thread_id + 1 /\ next_thread_id' <= nr_threads
      /\ phase = "run" /\ phase' = "run"
      /\ pc' = [pc EXCEPT ![t] = "ckpt"] /\ tid' = [tid EXCEPT ![t] = next_thread_id]
  BY <1>0, <1>c, <1>d DEF TypeOK, TidInv, CheckpointEnter, Goto
<1>f. next_thread_id \in Threads
  BY <1>e DEF Threads
<1>1. attributes' \in BOOLEAN /\ overtaken' \in BOOLEAN
  BY <1>0, Zenon DEF TypeOK, CheckpointEnter, Goto
<1>2. TypeOK'
  BY <1>0, <1>1, <1>e, <1>f DEF TypeOK, CheckpointEnter, Goto
<1>3. ControlInv'
  BY <1>0 DEF TypeOK, ControlInv, CheckpointEnter, Goto
<1>4. TidInv'
  <2>1. \A u \in InCkpt : tid'[u] = tid[u] /\ tid[u] < next_thread_id
    BY <1>0, <1>a, <1>e DEF TypeOK, TidInv, InCkpt
  <2>2. tid'[t] = next_thread_id
    BY <1>0, <1>e DEF TypeOK
  <2>3. \A u \in InCkpt : tid[u] \in Nat
    BY <1>0 DEF TypeOK, InCkpt, Threads
  <2>4. \A u \in InCkpt' : tid'[u] < next_thread_id'
    BY <1>a, <1>e, <2>1, <2>2, <2>3
  <2>5. \A i \in 0 .. (next_thread_id' - 1) : \E u \in InCkpt' : tid'[u] = i
    <3> SUFFICES ASSUME NEW i \in 0 .. next_thread_id PROVE \E u \in InCkpt' : tid'[u] = i
      BY <1>e
    <3>1. CASE i = next_thread_id
      BY <1>a, <2>2, <3>1
    <3>2. CASE i # next_thread_id
      <4>1. i \in 0 .. (next_thread_id - 1)
        BY <1>e, <3>2
      <4>2. PICK u \in InCkpt : tid[u] = i
        BY <1>0, <1>e, <4>1 DEF TidInv
      <4> QED
        BY <1>a, <2>1, <4>2
    <3> QED
      BY <3>1, <3>2
  <2>6. \A u, v \in InCkpt' : tid'[u] = tid'[v] => u = v
    <3> SUFFICES ASSUME NEW u \in InCkpt', NEW v \in InCkpt', tid'[u] = tid'[v] PROVE u = v
      OBVIOUS
    <3>1. CASE u \in InCkpt /\ v \in InCkpt
      BY <1>0, <1>e, <2>1, <3>1 DEF TidInv
    <3>2. CASE u = t \/ v = t
      BY <1>a, <1>e, <2>1, <2>2, <2>3, <3>2
    <3> QED
      BY <1>a, <3>1, <3>2
  <2>7. \A u \in Threads : pc'[u] \in {"clear", "reset"} => pc'[u] = pc[u] /\ tid'[u] = tid[u]
    BY <1>0, <1>e DEF TypeOK
  <2> QED
    BY <1>0, <1>c, <1>e, <2>4, <2>5, <2>6, <2>7 DEF TidInv
<1>5. SlotInv'
  BY <1>0 DEF TypeOK, ControlInv, SlotInv, CheckpointEnter, Goto
<1>6. MediumInv'
  BY <1>0 DEF TypeOK, MediumInv, CheckpointEnter, Goto
<1>7. LogComplete'
  BY <1>0 DEF LogComplete, CheckpointEnter, Goto
<1>8. TurnHeld'
  BY <1>0 DEF TypeOK, ControlInv, TurnHeld, CheckpointEnter, Goto
<1>9. ModeInv'
  BY <1>0 DEF TypeOK, ControlInv, ModeInv, Full, CheckpointEnter, Goto
<1> QED
  BY <1>2, <1>3, <1>4, <1>5, <1>6, <1>7, <1>8, <1>9 DEF LogInv

\* All threads have come: every id is given out.
LEMMA CheckpointBeginLog == ASSUME LogInv, CheckpointBegin PROVE LogInv'
<1> USE UndoLogAssumption DEF headVars, logVars, dataVars, hookVars, threadVars
<1>0. /\ TypeOK /\ ControlInv /\ TidInv /\ SlotInv /\ MediumInv /\ LogComplete /\ TurnHeld
      /\ ModeInv
  BY DEF LogInv
<1>a. /\ phase = "run" /\ \A t \in Threads : pc[t] = "ckpt"
      /\ \/ next_thread_id' = 0 /\ pc' = [t \in Threads |-> "app"] /\ phase' = phase
         \/ phase' = "flush" /\ pc' = pc /\ next_thread_id' = next_thread_id
  BY DEF CheckpointBegin
<1>b. InCkpt = Threads
  BY <1>a DEF InCkpt
<1>c. next_thread_id = nr_threads
  BY <1>0, <1>a, <1>b, FS_Interval DEF TidInv, Threads
<1>d. /\ \A i \in Threads : \E t \in Threads : tid[t] = i
      /\ \A t, u \in Threads : tid[t] = tid[u] => t = u
  BY <1>0, <1>a, <1>b, <1>c DEF TidInv, Threads
<1>e. Mode \in {"NO_ACTION", "WBINVD", "USE_FLUSH_BLOCKS"}
  BY DEF Mode
<1>1. attributes' \in BOOLEAN /\ overtaken' \in BOOLEAN
  BY <1>0, Zenon DEF TypeOK, CheckpointBegin, Mode
<1>2. TypeOK'
  BY <1>0, <1>1, <1>a, <1>e DEF TypeOK, CheckpointBegin
<1>3. ControlInv'
  BY <1>0 DEF TypeOK, ControlInv, CheckpointBegin, Mode
<1>4. TidInv'
  <2>1. CASE next_thread_id' = 0 /\ pc' = [t \in Threads |-> "app"] /\ phase' = phase
    <3>1. InCkpt' = {}
      BY <2>1 DEF InCkpt
    <3>2. \A t \in Threads : pc'[t] # "clear" /\ pc'[t] # "reset"
      BY <2>1
    <3> QED
      BY <1>a, <2>1, <3>1, <3>2, FS_EmptySet DEF TidInv
  <2>2. CASE phase' = "flush" /\ pc' = pc /\ next_thread_id' = next_thread_id
    BY <1>a, <1>d, <2>2 DEF TidInv, CheckpointBegin
  <2> QED
    BY <1>a, <2>1, <2>2
<1>5. SlotInv'
  <2>1. \A t \in Threads : pc'[t] \notin {"logged", "appended"}
    BY <1>0, <1>a DEF TypeOK
  <2> QED
    BY <1>0, <1>a, <2>1 DEF SlotInv, CheckpointBegin
<1>6. MediumInv'
  BY <1>0 DEF TypeOK, MediumInv, CheckpointBegin, Mode
<1>7. LogComplete'
  BY <1>0 DEF LogComplete, CheckpointBegin, Mode
<1>8. TurnHeld'
  <2>1. \A t \in Threads : pc[t] # "reset" /\ pc[t] # "logged"
    BY <1>a
  <2>2. \A i \in header_head .. (log_head - 1) : FALSE
    BY <1>0, <2>1 DEF TurnHeld
  <2> QED
    BY <2>2 DEF TurnHeld, CheckpointBegin
<1>9. ModeInv'
  <2>1. CASE phase' = "flush"
    <3>1. Mode = "WBINVD" \/ ~Full
      BY <1>a, <2>1 DEF Mode, Full, CheckpointBegin
    <3> QED
      BY <3>1 DEF ModeInv, Full, CheckpointBegin
  <2>2. CASE phase' # "flush"
    BY <2>2 DEF ModeInv
  <2> QED
    BY <2>1, <2>2
<1> QED
  BY <1>2, <1>3, <1>4, <1>5, <1>6, <1>7, <1>8, <1>9 DEF LogInv

\* The flush.
LEMMA FlushParallelLog == ASSUME LogInv, FlushParallel PROVE LogInv'
<1> USE UndoLogAssumption DEF headVars, logVars, dataVars, hookVars, threadVars
<1>0. /\ TypeOK /\ ControlInv /\ TidInv /\ SlotInv /\ MediumInv /\ LogComplete /\ TurnHeld
      /\ ModeInv
  BY DEF LogInv
<1>a. data_pm' \in [Blocks -> (SUBSET Contents) \ {{}}]
  BY <1>0, SettleType DEF TypeOK, FlushParallel
<1>b. \A t \in Threads : pc[t] = "ckpt" /\ pc'[t] = "clear"
  BY <1>0 DEF ControlInv, FlushParallel
<1>1. attributes' \in BOOLEAN /\ overtaken' \in BOOLEAN
  BY <1>0, Zenon DEF TypeOK, FlushParallel, Flushed
<1>2. TypeOK'
  BY <1>0, <1>1, <1>a DEF TypeOK, FlushParallel
<1>3. ControlInv'
  BY <1>0 DEF TypeOK, ControlInv, FlushParallel, Flushed
<1>4. TidInv'
  BY <1>0, <1>b DEF TidInv, FlushParallel
<1>5. SlotInv'
  BY <1>0, <1>b DEF SlotInv, FlushParallel
<1>6. MediumInv'
  BY <1>0 DEF TypeOK, MediumInv, FlushParallel, Settle
<1>7. LogComplete'
  BY <1>0 DEF LogComplete, FlushParallel, Flushed
<1>8. TurnHeld'
  <2>1. \A i \in header_head .. (log_head - 1) : FALSE
    BY <1>0, <1>b DEF TurnHeld
  <2> QED
    BY <2>1 DEF TurnHeld, FlushParallel
<1>9. ModeInv'
  BY <1>0 DEF TypeOK, ControlInv, ModeInv, Full, FlushParallel, Flushed
<1> QED
  BY <1>2, <1>3, <1>4, <1>5, <1>6, <1>7, <1>8, <1>9 DEF LogInv

\* The bits are cleared, in the checkpoint or after it.
LEMMA ClearDirtyBitsLog == ASSUME LogInv, NEW t \in Threads, ClearDirtyBits(t) PROVE LogInv'
<1> USE UndoLogAssumption DEF headVars, logVars, dataVars, hookVars, threadVars
<1>0. /\ TypeOK /\ ControlInv /\ TidInv /\ SlotInv /\ MediumInv /\ LogComplete /\ TurnHeld
      /\ ModeInv
  BY DEF LogInv
<1>a. /\ pc[t] = "clear" /\ phase' = phase /\ tid' = tid /\ next_thread_id' = next_thread_id
      /\ pc' = [pc EXCEPT ![t] = IF tid[t] = 0 THEN "reset"
                                 ELSE IF phase = "clear" THEN "latch" ELSE "app"]
  BY DEF ClearDirtyBits, Goto
<1>b. phase \in {"run", "clear"} /\ (phase = "run" => tid[t] # 0)
  BY <1>0, <1>a DEF TypeOK, ControlInv, TidInv
<1>c. \A u \in Threads : u # t => pc'[u] = pc[u]
  BY <1>0, <1>a DEF TypeOK
<1>d. pc'[t] \in {"reset", "latch", "app"} /\ (pc'[t] = "reset" => tid[t] = 0)
  BY <1>0, <1>a DEF TypeOK
<1>1. attributes' \in BOOLEAN /\ overtaken' \in BOOLEAN
  BY <1>0, Zenon DEF TypeOK, ClearDirtyBits, Goto
<1>2. TypeOK'
  BY <1>0, <1>1 DEF TypeOK, ClearDirtyBits, Goto
<1>3. ControlInv'
  <2>1. phase = "run" => pc'[t] = "app"
    BY <1>0, <1>a, <1>b DEF TypeOK
  <2>2. phase = "clear" => pc'[t] \in {"latch", "reset"}
    BY <1>0, <1>a, <1>b DEF TypeOK
  <2> QED
    BY <1>0, <1>a, <1>b, <1>c, <2>1, <2>2 DEF ControlInv
<1>4. TidInv'
  <2>1. InCkpt' = InCkpt
    BY <1>0, <1>a, <1>c, <1>d DEF TypeOK, InCkpt
  <2> QED
    BY <1>0, <1>a, <1>c, <1>d, <2>1 DEF TidInv
<1>5. SlotInv'
  BY <1>0, <1>a, <1>c, <1>d DEF SlotInv, ClearDirtyBits
<1>6. MediumInv'
  BY <1>0 DEF TypeOK, MediumInv, ClearDirtyBits, Goto
<1>7. LogComplete'
  BY <1>0 DEF LogComplete, ClearDirtyBits, Goto
<1>8. TurnHeld'
  <2>1. CASE phase = "run"
    <3>1. \A u \in Threads : pc[u] # "reset"
      BY <1>0, <2>1 DEF ControlInv
    <3> QED
      BY <1>0, <1>a, <1>c, <3>1 DEF TurnHeld, ClearDirtyBits
  <2>2. CASE phase = "clear" /\ \E u \in Threads : u # t /\ pc[u] = "reset"
    BY <1>c, <2>2 DEF TurnHeld
  <2>3. CASE phase = "clear" /\ \A u \in Threads : pc[u] # "reset"
    BY <1>0, <1>a, <1>c, <2>3 DEF TurnHeld, ClearDirtyBits
  <2> QED
    BY <1>a, <1>b, <2>1, <2>2, <2>3
<1>9. ModeInv'
  BY <1>0, <1>a, <1>b DEF ModeInv
<1> QED
  BY <1>2, <1>3, <1>4, <1>5, <1>6, <1>7, <1>8, <1>9 DEF LogInv

\* The attribute.
LEMMA SetAttributesLog == ASSUME LogInv, NEW t \in Threads, SetAttributes(t) PROVE LogInv'
<1> USE UndoLogAssumption DEF headVars, logVars, dataVars, hookVars, threadVars
<1>0. /\ TypeOK /\ ControlInv /\ TidInv /\ SlotInv /\ MediumInv /\ LogComplete /\ TurnHeld
      /\ ModeInv
  BY DEF LogInv
<1>1. attributes' \in BOOLEAN /\ overtaken' \in BOOLEAN
  BY <1>0, Zenon DEF TypeOK, SetAttributes
<1>2. TypeOK'
  BY <1>0, <1>1 DEF TypeOK, SetAttributes
<1>3. ControlInv'
  BY <1>0 DEF TypeOK, ControlInv, SetAttributes
<1>4. TidInv'
  <2>1. InCkpt' = InCkpt
    BY <1>0 DEF TypeOK, InCkpt, SetAttributes
  <2> QED
    BY <1>0, <2>1 DEF TypeOK, TidInv, SetAttributes
<1>5. SlotInv'
  BY <1>0 DEF TypeOK, ControlInv, SlotInv, SetAttributes
<1>6. MediumInv'
  BY <1>0 DEF TypeOK, MediumInv, SetAttributes
<1>7. LogComplete'
  BY <1>0 DEF LogComplete, SetAttributes
<1>8. TurnHeld'
  BY <1>0 DEF TypeOK, ControlInv, TurnHeld, SetAttributes
<1>9. ModeInv'
  BY <1>0 DEF TypeOK, ControlInv, ModeInv, Full, SetAttributes
<1> QED
  BY <1>2, <1>3, <1>4, <1>5, <1>6, <1>7, <1>8, <1>9 DEF LogInv

\* The log is empty on the medium; the entries are not looked at any more.
LEMMA ResetLogHeadLog == ASSUME LogInv, NEW t \in Threads, ResetLogHead(t) PROVE LogInv'
<1> USE UndoLogAssumption DEF headVars, logVars, dataVars, hookVars, threadVars
<1>0. /\ TypeOK /\ ControlInv /\ TidInv /\ SlotInv /\ MediumInv /\ LogComplete /\ TurnHeld
      /\ ModeInv
  BY DEF LogInv
<1>a. pc[t] = "reset" /\ phase = "clear" /\ phase' = phase /\ pc' = pc
  BY <1>0 DEF TypeOK, ControlInv, ResetLogHead
<1>1. attributes' \in BOOLEAN /\ overtaken' \in BOOLEAN
  BY <1>0, Zenon DEF TypeOK, ResetLogHead
<1>2. TypeOK'
  BY <1>0, <1>1 DEF TypeOK, ResetLogHead
<1>3. ControlInv'
  BY <1>0 DEF TypeOK, ControlInv, ResetLogHead
<1>4. TidInv'
  <2>1. InCkpt' = InCkpt
    BY <1>0 DEF TypeOK, InCkpt, ResetLogHead
  <2> QED
    BY <1>0, <2>1 DEF TypeOK, TidInv, ResetLogHead
<1>5. SlotInv'
  <2>1. \A u \in Threads : pc[u] \notin {"logged", "appended"}
    BY <1>0, <1>a DEF ControlInv
  <2> QED
    BY <1>0, <1>a, <2>1 DEF TypeOK, SlotInv, ResetLogHead
<1>6. MediumInv'
  BY <1>0 DEF TypeOK, MediumInv, ResetLogHead
<1>7. LogComplete'
  BY <1>0 DEF LogComplete, ResetLogHead
<1>8. TurnHeld'
  BY <1>a DEF TurnHeld
<1>9. ModeInv'
  BY <1>0 DEF TypeOK, ControlInv, ModeInv, Full, ResetLogHead
<1> QED
  BY <1>2, <1>3, <1>4, <1>5, <1>6, <1>7, <1>8, <1>9 DEF LogInv

\* The log is empty in DRAM; the threads that have cleared their bits return.
LEMMA LatchAddLog == ASSUME LogInv, NEW t \in Threads, LatchAdd(t) PROVE LogInv'
<1> USE UndoLogAssumption DEF headVars, logVars, dataVars, hookVars, threadVars
<1>0. /\ TypeOK /\ ControlInv /\ TidInv /\ SlotInv /\ MediumInv /\ LogComplete /\ TurnHeld
      /\ ModeInv
  BY DEF LogInv
<1>a. /\ pc[t] = "reset" /\ phase = "clear" /\ phase' = "run" /\ tid' = tid
      /\ next_thread_id' = 0 /\ header_head = 0 /\ header_head' = 0 /\ log_head' = 0
      /\ pc' = [u \in Threads |-> IF u = t \/ pc[u] = "latch" THEN "app" ELSE pc[u]]
  BY <1>0 DEF TypeOK, ControlInv, LatchAdd
<1>b. tid[t] = 0 /\ \A u \in Threads : u # t => tid[u] # 0
  BY <1>0, <1>a DEF TidInv
<1>c. \A u \in Threads : pc'[u] \in {"app", "clear"} /\ (pc'[u] = "clear" => pc[u] = "clear" /\ u # t)
  BY <1>0, <1>a, <1>b DEF ControlInv, TidInv
<1>1. attributes' \in BOOLEAN /\ overtaken' \in BOOLEAN
  BY <1>0, Zenon DEF TypeOK, LatchAdd
<1>2. TypeOK'
  BY <1>0, <1>1 DEF TypeOK, LatchAdd
<1>3. ControlInv'
  BY <1>a, <1>c DEF ControlInv
<1>4. TidInv'
  <2>1. InCkpt' = {}
    BY <1>c DEF InCkpt
  <2>2. \A u \in Threads : pc'[u] # "reset"
    BY <1>c
  <2> QED
    BY <1>0, <1>a, <1>b, <1>c, <2>1, <2>2, FS_EmptySet DEF TidInv
<1>5. SlotInv'
  BY <1>0, <1>a, <1>c DEF SlotInv, LatchAdd
<1>6. MediumInv'
  BY <1>0 DEF TypeOK, MediumInv, LatchAdd
<1>7. LogComplete'
  BY <1>0 DEF LogComplete, LatchAdd
<1>8. TurnHeld'
  BY <1>a DEF TurnHeld
<1>9. ModeInv'
  BY <1>a DEF ModeInv
<1> QED
  BY <1>2, <1>3, <1>4, <1>5, <1>6, <1>7, <1>8, <1>9 DEF LogInv

\* What the medium may hold has complete entries below the head.
LEMMA DieLog == ASSUME LogInv, Die PROVE LogInv'
<1> USE UndoLogAssumption DEF headVars, logVars, dataVars, hookVars, threadVars
<1>0. /\ TypeOK /\ ControlInv /\ TidInv /\ SlotInv /\ MediumInv /\ LogComplete /\ TurnHeld
      /\ ModeInv
  BY DEF LogInv
<1>a. PICK d \in Resolve(data_pm, Contents), e \in Resolve(entry_data_pm, Contents),
            k \in Resolve(entry_block_pm, Blocks \cup {NoBlock}), h \in header_head_pm :
        /\ data' = d /\ data_pm' = Settled(d)
        /\ entry_data' = e /\ entry_data_pm' = Settled(e)
        /\ entry_block' = k /\ entry_block_pm' = Settled(k)
        /\ header_head' = h /\ header_head_pm' = {h}
  BY DEF Die
<1>b. /\ d \in [Blocks -> Contents] /\ e \in [Entries -> Contents]
      /\ k \in [Entries -> Blocks \cup {NoBlock}] /\ h \in 0 .. (log_capacity - 1)
      /\ \A i \in Entries : k[i] \in entry_block_pm[i]
  BY <1>0 DEF TypeOK, Resolve
<1>c. /\ data_pm' \in [Blocks -> (SUBSET Contents) \ {{}}]
      /\ entry_data_pm' \in [Entries -> (SUBSET Contents) \ {{}}]
      /\ entry_block_pm' \in [Entries -> (SUBSET (Blocks \cup {NoBlock})) \ {{}}]
  BY <1>a, <1>b, SettledType
<1>d. runs' \in 1 .. (MaxRuns + 1)
  BY <1>0 DEF TypeOK, Die
<1>e. 0 \in Entries /\ 0 \in Threads
  BY DEF Entries, Threads
<1>f. /\ phase' = "recover" /\ log_head' = 0 /\ block_dirty' = {} /\ next_thread_id' = 0
      /\ pc' = [t \in Threads |-> "down"] /\ flush_mode' = "NO_ACTION"
  BY DEF Die
<1>g. \A t \in Threads : pc'[t] = "down"
  BY <1>f
<1>1. attributes' \in BOOLEAN /\ overtaken' \in BOOLEAN
  BY <1>0, Zenon DEF TypeOK, Die
<1>2. TypeOK'
  <2>1. /\ data' \in [Blocks -> Contents] /\ entry_data' \in [Entries -> Contents]
        /\ entry_block' \in [Entries -> Blocks \cup {NoBlock}]
        /\ header_head' \in 0 .. (log_capacity - 1)
        /\ header_head_pm' \in (SUBSET (0 .. (log_capacity - 1))) \ {{}}
    BY <1>a, <1>b
  <2>2. /\ slot' \in [Threads -> Entries] /\ tid' \in [Threads -> Threads]
        /\ next_thread_id' \in 0 .. nr_threads /\ log_head' \in 0 .. (log_capacity - 1)
    BY <1>e DEF Die
  <2>3. /\ pc' \in [Threads -> {"app", "hook", "logged", "appended", "ckpt", "clear", "latch",
                                "reset", "down"}]
        /\ range' \in [Threads -> SUBSET Blocks] /\ pending' \in [Threads -> SUBSET Blocks]
        /\ flush_blocks' \in [Threads -> SUBSET Blocks]
    BY DEF Die
  <2>4. /\ block_dirty' \subseteq Blocks /\ segment_locks' \subseteq 0 .. (kSegmentLocks - 1)
        /\ flush_mode' \in {"NO_ACTION", "WBINVD", "USE_FLUSH_BLOCKS"}
        /\ phase' \in {"run", "flush", "clear", "recover", "recovered"}
        /\ app' \in [Blocks -> Contents] /\ snap' \in [Blocks -> Contents]
    BY <1>0 DEF TypeOK, Die
  <2> QED
    BY <1>1, <1>c, <1>d, <2>1, <2>2, <2>3, <2>4 DEF TypeOK
<1>3. ControlInv'
  BY <1>f, <1>g DEF ControlInv
<1>4. TidInv'
  BY <1>f, <1>g DEF TidInv
<1>5. SlotInv'
  BY <1>a, <1>b, <1>f, <1>g DEF SlotInv
<1>6. MediumInv'
  BY <1>a, <1>b DEF MediumInv, Settled
<1>7. LogComplete'
  <2> SUFFICES ASSUME NEW i \in 0 .. (h - 1)
               PROVE  entry_block_pm'[i] = {k[i]} /\ k[i] # NoBlock
    BY <1>a DEF LogComplete
  <2>1. i \in Entries
    BY <1>b DEF Entries
  <2>2. entry_block_pm[i] = {entry_block[i]} /\ entry_block[i] # NoBlock
    BY <1>0 DEF LogComplete
  <2> QED
    BY <1>a, <1>b, <2>1, <2>2 DEF Settled
<1>8. TurnHeld'
  BY <1>a, <1>b, <1>f DEF TurnHeld
<1>9. ModeInv'
  BY <1>f DEF ModeInv
<1> QED
  BY <1>2, <1>3, <1>4, <1>5, <1>6, <1>7, <1>8, <1>9 DEF LogInv

\* The logged blocks are copied back.
LEMMA RecoverCopyLog == ASSUME LogInv, RecoverCopy PROVE LogInv'
<1> USE UndoLogAssumption DEF headVars, logVars, dataVars, hookVars, threadVars
<1>0. /\ TypeOK /\ ControlInv /\ TidInv /\ SlotInv /\ MediumInv /\ LogComplete /\ TurnHeld
      /\ ModeInv
  BY DEF LogInv
<1>a. ASSUME NEW b \in Blocks
      PROVE  RolledBack(data, entry_block, entry_data, header_head)[b] \in Contents
  <2> DEFINE logged == {i \in 0 .. (header_head - 1) : entry_block[i] = b}
  <2> DEFINE newest == CHOOSE i \in logged : \A j \in logged : j <= i
  <2>1. RolledBack(data, entry_block, entry_data, header_head)[b]
          = IF logged = {} THEN data[b] ELSE entry_data[newest]
    BY <1>a DEF RolledBack
  <2>2. header_head \in Nat /\ 0 .. (header_head - 1) \subseteq Entries
    BY <1>0 DEF TypeOK, Entries
  <2>3. logged # {} => newest \in logged
    <3>1. logged \in SUBSET (0 .. (header_head - 1))
      OBVIOUS
    <3> HIDE DEF logged
    <3> QED
      BY <2>2, <3>1, NewestExists
  <2>4. logged # {} => newest \in Entries
    BY <2>2, <2>3
  <2> HIDE DEF logged, newest
  <2> QED
    BY <1>0, <1>a, <2>1, <2>4 DEF TypeOK
<1>b. data' \in [Blocks -> Contents]
  BY <1>a DEF RecoverCopy, RolledBack
<1>c. data_pm' \in [Blocks -> (SUBSET Contents) \ {{}}]
  BY <1>0, <1>b, PutType DEF TypeOK, RecoverCopy
<1>1. attributes' \in BOOLEAN /\ overtaken' \in BOOLEAN
  BY <1>0, Zenon DEF TypeOK, RecoverCopy
<1>2. TypeOK'
  BY <1>0, <1>1, <1>b, <1>c DEF TypeOK, RecoverCopy
<1>3. ControlInv'
  BY <1>0 DEF TypeOK, ControlInv, RecoverCopy
<1>4. TidInv'
  <2>1. InCkpt' = InCkpt
    BY <1>0 DEF TypeOK, InCkpt, RecoverCopy
  <2> QED
    BY <1>0, <2>1 DEF TypeOK, TidInv, RecoverCopy
<1>5. SlotInv'
  BY <1>0 DEF TypeOK, ControlInv, SlotInv, RecoverCopy
<1>6. MediumInv'
  BY <1>0, <1>b DEF TypeOK, MediumInv, RecoverCopy, Put
<1>7. LogComplete'
  BY <1>0 DEF LogComplete, RecoverCopy
<1>8. TurnHeld'
  BY <1>0 DEF TypeOK, ControlInv, TurnHeld, RecoverCopy
<1>9. ModeInv'
  BY <1>0 DEF TypeOK, ControlInv, ModeInv, Full, RecoverCopy
<1> QED
  BY <1>2, <1>3, <1>4, <1>5, <1>6, <1>7, <1>8, <1>9 DEF LogInv

\* The log is empty, and Open returns.
LEMMA RecoverDoneLog == ASSUME LogInv, RecoverDone PROVE LogInv'
<1> USE UndoLogAssumption DEF headVars, logVars, dataVars, hookVars, threadVars
<1>0. /\ TypeOK /\ ControlInv /\ TidInv /\ SlotInv /\ MediumInv /\ LogComplete /\ TurnHeld
      /\ ModeInv
  BY DEF LogInv
<1>a. data_pm' \in [Blocks -> (SUBSET Contents) \ {{}}]
  BY <1>0, SettledType DEF TypeOK, RecoverDone
<1>b. /\ phase = "recovered" /\ phase' = "run" /\ log_head' = 0 /\ header_head' = 0
      /\ header_head_pm' = {0} /\ pc' = [t \in Threads |-> "app"]
  BY <1>0 DEF ControlInv, RecoverDone
<1>1. attributes' \in BOOLEAN /\ overtaken' \in BOOLEAN
  BY <1>0, Zenon DEF TypeOK, RecoverDone
<1>2. TypeOK'
  BY <1>0, <1>1, <1>a DEF TypeOK, RecoverDone
<1>3. ControlInv'
  BY <1>0 DEF TypeOK, ControlInv, RecoverDone
<1>4. TidInv'
  <2>1. InCkpt' = {}
    BY <1>b DEF InCkpt
  <2>2. \A t \in Threads : pc'[t] # "clear" /\ pc'[t] # "reset"
    BY <1>b
  <2>3. next_thread_id = 0
    BY <1>0, <1>b DEF ControlInv
  <2> QED
    BY <1>b, <2>1, <2>2, <2>3, FS_EmptySet DEF TidInv, RecoverDone
<1>5. SlotInv'
  BY <1>b DEF SlotInv
<1>6. MediumInv'
  BY <1>0 DEF TypeOK, MediumInv, RecoverDone, Settled
<1>7. LogComplete'
  BY <1>b DEF LogComplete
<1>8. TurnHeld'
  BY <1>b DEF TurnHeld
<1>9. ModeInv'
  BY <1>b DEF ModeInv
<1> QED
  BY <1>2, <1>3, <1>4, <1>5, <1>6, <1>7, <1>8, <1>9 DEF LogInv

\* Every step keeps the invariant of the log.
LEMMA NextLog == LogInv /\ [Next]_vars => LogInv'
<1> SUFFICES ASSUME LogInv, [Next]_vars PROVE LogInv'
  OBVIOUS
<1>1. CASE UNCHANGED vars
  <2> USE <1>1 DEF vars, headVars, logVars, dataVars, hookVars, threadVars
  <2>1. TypeOK'
    BY DEF LogInv, TypeOK
  <2>2. ControlInv' /\ MediumInv' /\ LogComplete'
    BY DEF LogInv, ControlInv, MediumInv, LogComplete
  <2>3. TidInv' /\ SlotInv'
    BY DEF LogInv, TidInv, InCkpt, SlotInv
  <2>4. TurnHeld' /\ ModeInv'
    BY DEF LogInv, TurnHeld, ModeInv, Full
  <2> QED
    BY <2>1, <2>2, <2>3, <2>4 DEF LogInv
<1>2. CASE Next
  <2>1. ASSUME NEW t \in Threads, BeginStore(t) \/ Hook(t) \/ FinishStore(t) PROVE LogInv'
    BY <2>1, BeginStoreLog, HookDirtyLog, HookLogLog, HookAppendLog, HookDoneLog,
       FinishStoreLog DEF Hook
  <2>2. ASSUME NEW t \in Threads, OutOfLog(t) PROVE LogInv'
    BY <2>2, DieLog DEF OutOfLog
  <2>3. ASSUME NEW t \in Threads, CheckpointEnter(t) \/ ClearDirtyBits(t) \/ Leader(t)
        PROVE  LogInv'
    BY <2>3, CheckpointEnterLog, ClearDirtyBitsLog, SetAttributesLog, ResetLogHeadLog,
       LatchAddLog DEF Leader
  <2> QED
    BY <1>2, <2>1, <2>2, <2>3, CheckpointBeginLog, FlushParallelLog, DieLog,
       RecoverCopyLog, RecoverDoneLog DEF Next, Crash
<1> QED
  BY <1>1, <1>2

\* The invariant of the log holds in every state.
LEMMA LogInductive == Spec => []LogInv
BY InitLog, NextLog, PTL DEF Spec

-----------------------------------------------------------------------------
(* The data.                                                               *)

\* A new image is its own snapshot.
LEMMA InitData == Init => DataInv
<1> SUFFICES ASSUME Init PROVE DataInv
  OBVIOUS
<1>1. ASSUME NEW b \in Blocks PROVE SafeInv(b) /\ ProgressInv(b) /\ BitInv(b)
  <2>1. data_pm[b] = {snap[b]} /\ data[b] = snap[b]
    BY <1>1 DEF Init, Settled
  <2>2. SafeInv(b)
    BY <2>1 DEF SafeInv, Init
  <2>3. ProgressInv(b) /\ BitInv(b)
    BY <2>1 DEF ProgressInv, BitInv, Clearing, Init
  <2> QED
    BY <2>2, <2>3
<1>2. ASSUME NEW t \in Threads PROVE HookInv(t)
  BY <1>2 DEF HookInv, Clearing, Init
<1> QED
  BY <1>1, <1>2 DEF DataInv

\* A store begins: no thread is clearing bits.
LEMMA BeginStoreData ==
  ASSUME LogInv, LogInv', overtaken \/ DataInv, NEW t \in Threads, BeginStore(t)
  PROVE  overtaken' \/ DataInv'
<1> USE UndoLogAssumption DEF headVars, logVars, dataVars, hookVars, threadVars
<1> SUFFICES ASSUME ~overtaken' PROVE DataInv'
  OBVIOUS
<1>0. /\ TypeOK /\ ControlInv /\ TidInv /\ SlotInv /\ MediumInv /\ LogComplete /\ ModeInv
      /\ \A b \in Blocks : SafeInv(b) /\ ProgressInv(b) /\ BitInv(b)
      /\ \A u \in Threads : HookInv(u)
  BY DEF LogInv, DataInv, BeginStore
<1>a. ~Clearing /\ ~Clearing'
  BY <1>0 DEF TypeOK, Clearing, BeginStore, Goto
<1>b. /\ pc' = [pc EXCEPT ![t] = "hook"] /\ range'[t] = pending'[t]
      /\ \A u \in Threads : u # t => range'[u] = range[u] /\ pending'[u] = pending[u]
  BY <1>0 DEF TypeOK, BeginStore, Goto
<1>1. ASSUME NEW b \in Blocks PROVE SafeInv(b)' /\ ProgressInv(b)' /\ BitInv(b)'
  <2>1. SafeInv(b)'
    BY <1>0, <1>1 DEF SafeInv, LoggedBelow, BeginStore, Goto
  <2>2. ProgressInv(b)'
    BY <1>0, <1>1 DEF TypeOK, ControlInv, ProgressInv, BeginStore, Goto
  <2>3. BitInv(b)'
    BY <1>0, <1>1 DEF TypeOK, ControlInv, BitInv, LoggedBelow, Clearing, Listed, Full, Cleared, BeginStore, Goto
  <2> QED
    BY <2>1, <2>2, <2>3
<1>2. ASSUME NEW u \in Threads PROVE HookInv(u)'
  <2>1. CASE u = t
    BY <1>0, <1>a, <1>b, <2>1 DEF TypeOK, HookInv
  <2>2. CASE u # t
    <3>1. pc'[u] = pc[u]
      BY <1>0, <1>2, <1>b, <2>2 DEF TypeOK
    <3> QED
      BY <1>0, <1>2, <1>a, <1>b, <2>2, <3>1 DEF HookInv, BeginStore
  <2> QED
    BY <2>1, <2>2
<1> QED
  BY <1>1, <1>2 DEF DataInv

\* A block with its bit set has been visited.
LEMMA HookDirtyData ==
  ASSUME LogInv, LogInv', overtaken \/ DataInv, NEW t \in Threads, HookDirty(t)
  PROVE  overtaken' \/ DataInv'
<1> USE UndoLogAssumption DEF headVars, logVars, dataVars, hookVars, threadVars
<1> SUFFICES ASSUME ~overtaken' PROVE DataInv'
  OBVIOUS
<1>0. /\ TypeOK /\ ControlInv /\ TidInv /\ SlotInv /\ MediumInv /\ LogComplete /\ ModeInv
      /\ \A b \in Blocks : SafeInv(b) /\ ProgressInv(b) /\ BitInv(b)
      /\ \A u \in Threads : HookInv(u)
  BY DEF LogInv, DataInv, HookDirty
<1>1. ASSUME NEW b \in Blocks PROVE SafeInv(b)' /\ ProgressInv(b)' /\ BitInv(b)'
  <2>1. SafeInv(b)'
    BY <1>0, <1>1 DEF SafeInv, LoggedBelow, HookDirty
  <2>2. ProgressInv(b)'
    BY <1>0, <1>1 DEF TypeOK, ControlInv, ProgressInv, HookDirty
  <2>3. BitInv(b)'
    BY <1>0, <1>1 DEF TypeOK, ControlInv, BitInv, LoggedBelow, Clearing, Listed, Full, Cleared, HookDirty
  <2> QED
    BY <2>1, <2>2, <2>3
<1>2. ASSUME NEW u \in Threads PROVE HookInv(u)'
  BY <1>0, <1>2 DEF TypeOK, ControlInv, SlotInv, HookInv, Clearing, HookDirty
<1> QED
  BY <1>1, <1>2 DEF DataInv

\* A block without its bit holds the snapshot, and that is what is logged.
LEMMA HookLogData ==
  ASSUME LogInv, LogInv', overtaken \/ DataInv, NEW t \in Threads, HookLog(t)
  PROVE  overtaken' \/ DataInv'
<1> USE UndoLogAssumption DEF headVars, logVars, dataVars, hookVars, threadVars
<1> SUFFICES ASSUME ~overtaken' PROVE DataInv'
  OBVIOUS
<1>0. /\ TypeOK /\ ControlInv /\ TidInv /\ SlotInv /\ MediumInv /\ LogComplete /\ ModeInv
      /\ \A b \in Blocks : SafeInv(b) /\ ProgressInv(b) /\ BitInv(b)
      /\ \A u \in Threads : HookInv(u)
  BY DEF LogInv, DataInv, HookLog
<1>a. PICK c \in pending[t] : /\ c \notin block_dirty
                              /\ entry_block' = [entry_block EXCEPT ![log_head] = c]
                              /\ entry_data' = [entry_data EXCEPT ![log_head] = data[c]]
  BY DEF HookLog
<1>b. phase = "run" /\ c \in Blocks
  BY <1>0, StoreRuns DEF TypeOK, HookLog
<1>c. data[c] = snap[c]
  BY <1>0, <1>a, <1>b DEF MediumInv, BitInv
<1>d. log_head \in Entries /\ log_head \in Nat
  BY <1>0 DEF TypeOK, Entries
<1>e. \A i \in Entries : i # log_head => /\ entry_block'[i] = entry_block[i]
                                         /\ entry_data'[i] = entry_data[i]
                                         /\ entry_data_pm'[i] = entry_data_pm[i]
  BY <1>0, <1>a DEF TypeOK, HookLog, Put
<1>f. \A h \in header_head_pm : \A i \in 0 .. (h - 1) : i \in Entries /\ i # log_head
  BY <1>0, <1>b, <1>d DEF TypeOK, SlotInv, Entries
<1>g. \A b \in Blocks : \A h \in header_head_pm : LoggedBelow(b, h)' <=> LoggedBelow(b, h)
  BY <1>e, <1>f DEF LoggedBelow
<1>h. /\ pc' = [pc EXCEPT ![t] = "logged"] /\ pc[t] = "hook"
      /\ slot' = [slot EXCEPT ![t] = log_head]
      /\ UNCHANGED <<header_head_pm, data_pm, snap, phase, block_dirty, flush_blocks, flush_mode,
                     tid, range, pending>>
  BY DEF HookLog, Goto
<1>i. \A u \in Threads : pc'[u] = "clear" <=> pc[u] = "clear"
  BY <1>0, <1>h DEF TypeOK
<1>1. ASSUME NEW b \in Blocks PROVE SafeInv(b)' /\ ProgressInv(b)' /\ BitInv(b)'
  <2>1. SafeInv(b)'
    BY <1>0, <1>1, <1>e, <1>f, <1>g, <1>h DEF SafeInv
  <2>2. ProgressInv(b)'
    BY <1>0, <1>1 DEF TypeOK, ControlInv, ProgressInv, HookLog, Goto
  <2>3. BitInv(b)'
    BY <1>0, <1>1, <1>g, <1>h, <1>i DEF BitInv, Clearing, Listed, Full, Cleared
  <2> QED
    BY <2>1, <2>2, <2>3
<1>2. ASSUME NEW u \in Threads PROVE HookInv(u)'
  <2>1. Clearing' <=> Clearing
    BY <1>i DEF Clearing
  <2>2. CASE u = t
    <3>1. pc'[t] = "logged" /\ slot'[t] = log_head
      BY <1>0, <1>h DEF TypeOK
    <3>2. entry_block'[log_head] = c /\ entry_data'[log_head] = snap[c]
      BY <1>0, <1>a, <1>c, <1>d DEF TypeOK
    <3> QED
      BY <1>0, <1>h, <2>1, <2>2, <3>1, <3>2 DEF HookInv
  <2>3. CASE u # t
    <3>1. pc'[u] = pc[u] /\ slot'[u] = slot[u] /\ slot[u] \in Entries
      BY <1>0, <1>2, <1>h, <2>3 DEF TypeOK
    <3>2. pc[u] = "logged" => slot[u] # log_head
      BY <1>0, <1>2, <1>d, <3>1 DEF SlotInv, Entries
    <3> QED
      BY <1>0, <1>2, <1>e, <1>h, <2>1, <3>1, <3>2 DEF HookInv
  <2> QED
    BY <2>2, <2>3
<1> QED
  BY <1>1, <1>2 DEF DataInv

\* The entry below the new head holds the snapshot.
LEMMA HookAppendData ==
  ASSUME LogInv, LogInv', overtaken \/ DataInv, NEW t \in Threads, HookAppend(t)
  PROVE  overtaken' \/ DataInv'
<1> USE UndoLogAssumption DEF headVars, logVars, dataVars, hookVars, threadVars
<1> SUFFICES ASSUME ~overtaken' PROVE DataInv'
  OBVIOUS
<1>0. /\ TypeOK /\ ControlInv /\ TidInv /\ SlotInv /\ MediumInv /\ LogComplete /\ ModeInv
      /\ \A b \in Blocks : SafeInv(b) /\ ProgressInv(b) /\ BitInv(b)
      /\ \A u \in Threads : HookInv(u)
  BY DEF LogInv, DataInv, HookAppend
<1>a. /\ pc' = [pc EXCEPT ![t] = "appended"] /\ pc[t] = "logged"
      /\ header_head = slot[t] /\ header_head_pm' = header_head_pm \cup {header_head + 1}
      /\ UNCHANGED <<slot, phase, entry_block, entry_data, tid, data_pm, snap, block_dirty,
                     flush_blocks, flush_mode, range, pending>>
  BY DEF HookAppend, Goto, InTurn
<1>b. header_head \in Entries /\ header_head \in Nat /\ header_head \in header_head_pm
  BY <1>0, <1>a DEF TypeOK, SlotInv, Entries
<1>c. entry_data_pm'[header_head] = {snap[entry_block[header_head]]}
  BY <1>0, <1>a, <1>b DEF TypeOK, HookInv, HookAppend, Settle
<1>d. \A i \in 0 .. (header_head - 1) : entry_data_pm'[i] = entry_data_pm[i]
  <2>1. \A i \in 0 .. (header_head - 1) : i \in Entries /\ i # header_head
    BY <1>0, <1>b DEF TypeOK, Entries
  <2> QED
    BY <1>0, <1>a, <2>1 DEF TypeOK, HookAppend, Settle
<1>e. \A h \in header_head_pm : h \in Nat /\ h <= header_head
  BY <1>0 DEF TypeOK, SlotInv
<1>f. \A b \in Blocks, h \in Nat : LoggedBelow(b, h)' <=> LoggedBelow(b, h)
  BY <1>a DEF LoggedBelow
<1>g. \A b \in Blocks, k \in Nat : LoggedBelow(b, k) => LoggedBelow(b, k + 1)
  <2> SUFFICES ASSUME NEW b \in Blocks, NEW k \in Nat, LoggedBelow(b, k)
               PROVE  LoggedBelow(b, k + 1)
    OBVIOUS
  <2>1. PICK i \in 0 .. (k - 1) : entry_block[i] = b
    BY DEF LoggedBelow
  <2>2. i \in 0 .. ((k + 1) - 1)
    OBVIOUS
  <2> QED
    BY <2>1, <2>2 DEF LoggedBelow
<1>h. PICK k \in Nat : k = header_head
  BY <1>b
<1>i. \A u \in Threads : pc'[u] = "clear" <=> pc[u] = "clear"
  BY <1>0, <1>a DEF TypeOK
<1>1. ASSUME NEW b \in Blocks PROVE SafeInv(b)' /\ ProgressInv(b)' /\ BitInv(b)'
  <2>1. SafeInv(b)'
    <3> SUFFICES ASSUME NEW h \in header_head_pm'
                 PROVE  /\ \A i \in 0 .. (h - 1) : entry_block[i] = b => entry_data_pm'[i] = {snap[b]}
                        /\ ~LoggedBelow(b, h)' => data_pm[b] = {snap[b]}
      BY <1>a DEF SafeInv
    <3>1. CASE h \in header_head_pm
      <4>1. \A i \in 0 .. (h - 1) : i \in 0 .. (header_head - 1)
        BY <1>b, <1>e, <3>1
      <4> QED
        BY <1>0, <1>1, <1>d, <1>e, <1>f, <3>1, <4>1 DEF SafeInv
    <3>2. CASE h = header_head + 1
      <4>1. \A i \in 0 .. header_head : i = header_head \/ i \in 0 .. (header_head - 1)
        BY <1>b
      <4>2. \A i \in 0 .. (h - 1) : i \in 0 .. header_head
        BY <1>b, <3>2
      <4>3. \A i \in 0 .. (h - 1) : entry_block[i] = b => entry_data_pm'[i] = {snap[b]}
        <5> SUFFICES ASSUME NEW i \in 0 .. (h - 1), entry_block[i] = b
                     PROVE  entry_data_pm'[i] = {snap[b]}
          OBVIOUS
        <5>1. CASE i = header_head
          BY <1>c, <5>1
        <5>2. CASE i \in 0 .. (header_head - 1)
          BY <1>0, <1>1, <1>b, <1>d, <5>2 DEF SafeInv
        <5> QED
          BY <4>1, <4>2, <5>1, <5>2
      <4>4. ~LoggedBelow(b, h)' => data_pm[b] = {snap[b]}
        <5>1. LoggedBelow(b, k) => LoggedBelow(b, h)'
          BY <1>1, <1>f, <1>g, <1>h, <3>2
        <5>2. ~LoggedBelow(b, k) => data_pm[b] = {snap[b]}
          BY <1>0, <1>1, <1>b, <1>h DEF SafeInv
        <5> QED
          BY <5>1, <5>2
      <4> QED
        BY <4>3, <4>4
    <3> QED
      BY <1>a, <3>1, <3>2
  <2>2. ProgressInv(b)'
    BY <1>0, <1>1 DEF TypeOK, ControlInv, ProgressInv, HookAppend, Goto, InTurn
  <2>3. BitInv(b)'
    <3>1. (\A h \in header_head_pm : LoggedBelow(b, h)) => \A h \in header_head_pm' : LoggedBelow(b, h)'
      <4> SUFFICES ASSUME \A h \in header_head_pm : LoggedBelow(b, h), NEW h \in header_head_pm'
                   PROVE  LoggedBelow(b, h)'
        OBVIOUS
      <4>1. CASE h \in header_head_pm
        BY <1>1, <1>e, <1>f, <4>1
      <4>2. CASE h = k + 1
        BY <1>1, <1>b, <1>f, <1>g, <1>h, <4>2
      <4> QED
        BY <1>a, <1>h, <4>1, <4>2
    <3> QED
      BY <1>0, <1>1, <1>a, <1>i, <3>1 DEF BitInv, Clearing, Listed, Full, Cleared
  <2> QED
    BY <2>1, <2>2, <2>3
<1>2. ASSUME NEW u \in Threads PROVE HookInv(u)'
  BY <1>0, <1>2 DEF TypeOK, ControlInv, SlotInv, HookInv, Clearing, HookAppend, Goto, InTurn
<1> QED
  BY <1>1, <1>2 DEF DataInv

\* The block has an entry when its bit is set.
LEMMA HookDoneData ==
  ASSUME LogInv, LogInv', overtaken \/ DataInv, NEW t \in Threads, HookDone(t)
  PROVE  overtaken' \/ DataInv'
<1> USE UndoLogAssumption DEF headVars, logVars, dataVars, hookVars, threadVars
<1> SUFFICES ASSUME ~overtaken' PROVE DataInv'
  OBVIOUS
<1>0. /\ TypeOK /\ ControlInv /\ TidInv /\ SlotInv /\ MediumInv /\ LogComplete /\ ModeInv
      /\ \A b \in Blocks : SafeInv(b) /\ ProgressInv(b) /\ BitInv(b)
      /\ \A u \in Threads : HookInv(u)
  BY DEF LogInv, DataInv, HookDone
<1> DEFINE c == entry_block[slot[t]]
<1>a. /\ pc' = [pc EXCEPT ![t] = "hook"] /\ pc[t] = "appended"
      /\ header_head_pm' = {header_head} /\ block_dirty' = block_dirty \cup {c}
      /\ flush_blocks' = [flush_blocks EXCEPT ![t] = IF Cardinality(@) # kMaxFlushBlocks
                                                    THEN @ \cup {c} ELSE @]
      /\ pending' = [pending EXCEPT ![t] = @ \ {c}]
      /\ UNCHANGED <<header_head, phase, entry_block, entry_data_pm, tid, data_pm, snap,
                     flush_mode, range>>
  BY DEF HookDone, Goto
<1>b. c \in Blocks /\ header_head \in header_head_pm /\ slot[t] < header_head /\ phase = "run"
  BY <1>0, <1>a, StoreRuns DEF SlotInv
<1>c. LoggedBelow(c, header_head)
  BY <1>0, <1>b DEF TypeOK, Entries, LoggedBelow
<1>d. /\ Full => Full'
      /\ c \in Listed' \/ Full
      /\ \A b \in Blocks : b \in Listed => b \in Listed'
  <2> HIDE DEF c
  <2>1. Full => Full'
    BY <1>0, <1>a DEF TypeOK, Full
  <2>2. c \in Listed' \/ Full
    BY <1>0, <1>a DEF TypeOK, Full, Listed
  <2>3. \A b \in Blocks : b \in Listed => b \in Listed'
    BY <1>0, <1>a DEF TypeOK, Listed
  <2> QED
    BY <2>1, <2>2, <2>3
<1>e. ~Clearing /\ ~Clearing'
  BY <1>0, <1>a DEF TypeOK, HookInv, Clearing
<1>f. \A b \in Blocks : \A h \in header_head_pm : LoggedBelow(b, h)' <=> LoggedBelow(b, h)
  BY <1>a DEF LoggedBelow
<1> HIDE DEF c
<1>1. ASSUME NEW b \in Blocks PROVE SafeInv(b)' /\ ProgressInv(b)' /\ BitInv(b)'
  <2>1. SafeInv(b)'
    BY <1>0, <1>1, <1>a, <1>b, <1>f DEF SafeInv
  <2>2. ProgressInv(b)'
    BY <1>0, <1>1 DEF TypeOK, ControlInv, ProgressInv, HookDone, Goto
  <2>3. BitInv(b)'
    <3>1. CASE b = c
      BY <1>a, <1>b, <1>c, <1>d, <1>e, <1>f, <3>1 DEF BitInv
    <3>2. CASE b # c
      BY <1>0, <1>1, <1>a, <1>b, <1>d, <1>e, <1>f, <3>2 DEF BitInv
    <3> QED
      BY <3>1, <3>2
  <2> QED
    BY <2>1, <2>2, <2>3
<1>2. ASSUME NEW u \in Threads PROVE HookInv(u)'
  <2>1. CASE u = t
    BY <1>0, <1>a, <1>e, <2>1 DEF TypeOK, HookInv
  <2>2. CASE u # t
    <3>1. pc'[u] = pc[u] /\ pending'[u] = pending[u] /\ slot'[u] = slot[u]
      BY <1>0, <1>2, <1>a, <2>2 DEF TypeOK, HookDone
    <3> QED
      BY <1>0, <1>2, <1>a, <1>e, <3>1 DEF HookInv, HookDone
  <2> QED
    BY <2>1, <2>2
<1> QED
  BY <1>1, <1>2 DEF DataInv

\* Only blocks with an entry are overwritten.
LEMMA FinishStoreData ==
  ASSUME LogInv, LogInv', overtaken \/ DataInv, NEW t \in Threads, FinishStore(t)
  PROVE  overtaken' \/ DataInv'
<1> USE UndoLogAssumption DEF headVars, logVars, dataVars, hookVars, threadVars
<1> SUFFICES ASSUME ~overtaken' PROVE DataInv'
  OBVIOUS
<1>0. /\ TypeOK /\ ControlInv /\ TidInv /\ SlotInv /\ MediumInv /\ LogComplete /\ ModeInv
      /\ \A b \in Blocks : SafeInv(b) /\ ProgressInv(b) /\ BitInv(b)
      /\ \A u \in Threads : HookInv(u)
  BY DEF LogInv, DataInv, FinishStore
<1>a. PICK v \in Values :
        /\ data' = Write(data, range[t], [b \in Blocks |-> v])
        /\ data_pm' = Put(data_pm, range[t], [b \in Blocks |-> v])
        /\ app' = Write(app, range[t], [b \in Blocks |-> v])
  BY DEF FinishStore
<1>b. /\ phase = "run" /\ ~Clearing /\ range[t] \subseteq block_dirty
      /\ pc' = [pc EXCEPT ![t] = "app"]
      /\ UNCHANGED <<header_head_pm, entry_block, entry_data_pm, snap, phase, block_dirty,
                     flush_blocks, flush_mode, tid>>
  BY <1>0, StoreRuns DEF HookInv, FinishStore, Goto
<1>c. \A b \in Blocks : b \notin range[t] => data_pm'[b] = data_pm[b]
  BY <1>0, <1>a DEF TypeOK, Put
<1>d. \A b \in Blocks : data[b] = app[b] => data'[b] = app'[b]
  BY <1>0, <1>a DEF TypeOK, Write
<1>e. \A b \in Blocks : \A h \in header_head_pm : /\ LoggedBelow(b, h)' <=> LoggedBelow(b, h)
                                                  /\ b \in range[t] => LoggedBelow(b, h)
  BY <1>0, <1>b DEF LoggedBelow, BitInv
<1>f. ~Clearing'
  BY <1>0, <1>b DEF TypeOK, Clearing
<1>1. ASSUME NEW b \in Blocks PROVE SafeInv(b)' /\ ProgressInv(b)' /\ BitInv(b)'
  <2>1. SafeInv(b)'
    BY <1>0, <1>1, <1>b, <1>c, <1>e DEF SafeInv
  <2>2. ProgressInv(b)'
    BY <1>0, <1>1, <1>b, <1>d DEF ProgressInv
  <2>3. BitInv(b)'
    BY <1>0, <1>1, <1>b, <1>c, <1>e, <1>f DEF BitInv, Listed, Full
  <2> QED
    BY <2>1, <2>2, <2>3
<1>2. ASSUME NEW u \in Threads PROVE HookInv(u)'
  BY <1>0, <1>2 DEF TypeOK, ControlInv, SlotInv, HookInv, Clearing, FinishStore, Goto
<1> QED
  BY <1>1, <1>2 DEF DataInv

\* A thread comes to the checkpoint.
LEMMA CheckpointEnterData ==
  ASSUME LogInv, LogInv', overtaken \/ DataInv, NEW t \in Threads, CheckpointEnter(t)
  PROVE  overtaken' \/ DataInv'
<1> USE UndoLogAssumption DEF headVars, logVars, dataVars, hookVars, threadVars
<1> SUFFICES ASSUME ~overtaken' PROVE DataInv'
  OBVIOUS
<1>0. /\ TypeOK /\ ControlInv /\ TidInv /\ SlotInv /\ MediumInv /\ LogComplete /\ ModeInv
      /\ \A b \in Blocks : SafeInv(b) /\ ProgressInv(b) /\ BitInv(b)
      /\ \A u \in Threads : HookInv(u)
  BY DEF LogInv, DataInv, CheckpointEnter
<1>a. pc[t] = "app" /\ pc' = [pc EXCEPT ![t] = "ckpt"] /\ phase = "run" /\ phase' = phase
  BY DEF CheckpointEnter, Goto
<1>b. \A u \in Threads : (pc'[u] = "clear" <=> pc[u] = "clear")
                         /\ (pc[u] = "clear" => tid'[u] = tid[u])
  BY <1>0, <1>a DEF TypeOK, CheckpointEnter
<1>c. Clearing' <=> Clearing
  BY <1>b DEF Clearing
<1>1. ASSUME NEW b \in Blocks PROVE SafeInv(b)' /\ ProgressInv(b)' /\ BitInv(b)'
  <2>1. SafeInv(b)'
    BY <1>0, <1>1 DEF SafeInv, LoggedBelow, CheckpointEnter, Goto
  <2>2. ProgressInv(b)'
    BY <1>0, <1>1 DEF TypeOK, ControlInv, ProgressInv, CheckpointEnter, Goto
  <2>3. BitInv(b)'
    <3>1. \A u \in Threads : pc[u] = "clear" /\ b \in Cleared(tid[u]) => b \in Cleared(tid[u])'
      BY <1>b DEF Cleared, CheckpointEnter
    <3> QED
      BY <1>0, <1>1, <1>a, <1>b, <1>c, <3>1 DEF BitInv, LoggedBelow, Listed, Full, CheckpointEnter
  <2> QED
    BY <2>1, <2>2, <2>3
<1>2. ASSUME NEW u \in Threads PROVE HookInv(u)'
  BY <1>0, <1>2, <1>a, <1>c DEF TypeOK, HookInv, CheckpointEnter
<1> QED
  BY <1>1, <1>2 DEF DataInv

\* The leader chooses.
LEMMA CheckpointBeginData ==
  ASSUME LogInv, LogInv', overtaken \/ DataInv, CheckpointBegin
  PROVE  overtaken' \/ DataInv'
<1> USE UndoLogAssumption DEF headVars, logVars, dataVars, hookVars, threadVars
<1> SUFFICES ASSUME ~overtaken' PROVE DataInv'
  OBVIOUS
<1>0. /\ TypeOK /\ ControlInv /\ TidInv /\ SlotInv /\ MediumInv /\ LogComplete /\ ModeInv
      /\ \A b \in Blocks : SafeInv(b) /\ ProgressInv(b) /\ BitInv(b)
      /\ \A u \in Threads : HookInv(u)
  BY DEF LogInv, DataInv, CheckpointBegin
<1>a. ~Clearing /\ ~Clearing' /\ phase = "run" /\ phase' \in {"run", "flush"}
  BY DEF CheckpointBegin, Clearing
<1>1. ASSUME NEW b \in Blocks PROVE SafeInv(b)' /\ ProgressInv(b)' /\ BitInv(b)'
  <2>1. SafeInv(b)'
    BY <1>0, <1>1 DEF SafeInv, LoggedBelow, CheckpointBegin, Mode
  <2>2. ProgressInv(b)'
    BY <1>0, <1>1 DEF TypeOK, ControlInv, ProgressInv, CheckpointBegin, Mode
  <2>3. BitInv(b)'
    BY <1>0, <1>1, <1>a DEF BitInv, LoggedBelow, Listed, Full, CheckpointBegin
  <2> QED
    BY <2>1, <2>2, <2>3
<1>2. ASSUME NEW u \in Threads PROVE HookInv(u)'
  BY <1>2 DEF CheckpointBegin, HookInv
<1> QED
  BY <1>1, <1>2 DEF DataInv

\* All that was stored is durable, and the ids cover all bits.
LEMMA FlushParallelData ==
  ASSUME LogInv, LogInv', overtaken \/ DataInv, FlushParallel
  PROVE  overtaken' \/ DataInv'
<1> USE UndoLogAssumption DEF headVars, logVars, dataVars, hookVars, threadVars
<1> SUFFICES ASSUME ~overtaken' PROVE DataInv'
  OBVIOUS
<1>0. /\ TypeOK /\ ControlInv /\ TidInv /\ SlotInv /\ MediumInv /\ LogComplete /\ ModeInv
      /\ \A b \in Blocks : SafeInv(b) /\ ProgressInv(b) /\ BitInv(b)
      /\ \A u \in Threads : HookInv(u)
  BY DEF LogInv, DataInv, FlushParallel
<1>a. ~Clearing /\ phase = "flush" /\ phase' = "clear" /\ \A t \in Threads : pc'[t] = "clear"
  BY <1>0 DEF ControlInv, Clearing, FlushParallel
<1>b. \A b \in Blocks : b \notin block_dirty => data_pm[b] = {snap[b]} /\ data[b] = snap[b]
  BY <1>0, <1>a DEF BitInv, MediumInv
<1>c. \A b \in Blocks : b \in block_dirty => b \in Flushed
  BY <1>0, <1>a DEF BitInv, ModeInv, Flushed
<1>d. \A b \in Blocks : data_pm'[b] = {data[b]}
  BY <1>0, <1>b, <1>c DEF TypeOK, FlushParallel, Settle
<1>e. \A b \in Blocks : \A h \in header_head_pm : /\ LoggedBelow(b, h)' <=> LoggedBelow(b, h)
                                                  /\ ~LoggedBelow(b, h) => b \notin block_dirty
  BY <1>0, <1>a DEF BitInv, LoggedBelow, FlushParallel
<1>1. ASSUME NEW b \in Blocks PROVE SafeInv(b)' /\ ProgressInv(b)' /\ BitInv(b)'
  <2>1. SafeInv(b)'
    BY <1>0, <1>1, <1>b, <1>d, <1>e DEF SafeInv, FlushParallel
  <2>2. ProgressInv(b)'
    BY <1>0, <1>1, <1>a, <1>d DEF ProgressInv, FlushParallel
  <2>3. BitInv(b)'
    <3> SUFFICES ASSUME b \in block_dirty PROVE \E t \in Threads : b \in Cleared(tid[t])
      BY <1>a DEF BitInv, Cleared, FlushParallel
    <3>0. \A i \in Threads : \E t \in Threads : tid[t] = i
      BY <1>0, <1>a DEF TidInv
    <3>1. CASE flush_mode = "WBINVD"
      <4>1. b \in Nat /\ b \div kBitWidth \in Nat
        BY <1>1 DEF Blocks
      <4>2. (b \div kBitWidth) % nr_threads \in Threads
        BY <4>1 DEF Threads
      <4>3. PICK t \in Threads : tid[t] = (b \div kBitWidth) % nr_threads
        BY <3>0, <4>2
      <4> QED
        BY <1>1, <3>1, <4>3 DEF Cleared
    <3>2. CASE flush_mode # "WBINVD"
      <4>1. PICK i \in Threads : b \in flush_blocks[i]
        BY <1>1, <1>c, <3>2 DEF Flushed, Listed
      <4>2. PICK t \in Threads : tid[t] = i
        BY <3>0
      <4> QED
        BY <1>1, <3>2, <4>1, <4>2 DEF Cleared
    <3> QED
      BY <3>1, <3>2
  <2> QED
    BY <2>1, <2>2, <2>3
<1>2. ASSUME NEW u \in Threads PROVE HookInv(u)'
  BY <1>0, <1>2 DEF TypeOK, ControlInv, SlotInv, HookInv, Clearing, FlushParallel
<1> QED
  BY <1>1, <1>2 DEF DataInv

\* A thread clears the bits of its id.
LEMMA ClearDirtyBitsData ==
  ASSUME LogInv, LogInv', overtaken \/ DataInv, NEW t \in Threads, ClearDirtyBits(t)
  PROVE  overtaken' \/ DataInv'
<1> USE UndoLogAssumption DEF headVars, logVars, dataVars, hookVars, threadVars
<1> SUFFICES ASSUME ~overtaken' PROVE DataInv'
  OBVIOUS
<1>0. /\ TypeOK /\ ControlInv /\ TidInv /\ SlotInv /\ MediumInv /\ LogComplete /\ ModeInv
      /\ \A b \in Blocks : SafeInv(b) /\ ProgressInv(b) /\ BitInv(b)
      /\ \A u \in Threads : HookInv(u)
  BY DEF LogInv, DataInv, ClearDirtyBits
<1>a. /\ pc[t] = "clear" /\ phase' = phase /\ block_dirty' = block_dirty \ Cleared(tid[t])
      /\ flush_blocks' = [flush_blocks EXCEPT ![tid[t]] = {}]
      /\ UNCHANGED <<data_pm, snap, flush_mode, tid>>
  BY DEF ClearDirtyBits
<1>b. Clearing
  BY <1>a DEF Clearing
<1>c. \A u \in Threads : u # t => pc'[u] = pc[u]
  BY <1>0 DEF TypeOK, ClearDirtyBits, Goto
<1>d. \A u \in Threads : pc[u] = "clear" /\ u # t
                         => \A b \in Blocks : b \in Cleared(tid[u]) => b \in Cleared(tid[u])'
  BY <1>0, <1>a DEF TypeOK, TidInv, Cleared
<1>e. \A b \in Blocks : b \in block_dirty' =>
        \E u \in Threads : pc'[u] = "clear" /\ b \in Cleared(tid[u])'
  <2> SUFFICES ASSUME NEW b \in Blocks, b \in block_dirty'
               PROVE  \E u \in Threads : pc'[u] = "clear" /\ b \in Cleared(tid[u])'
    OBVIOUS
  <2>1. b \in block_dirty /\ b \notin Cleared(tid[t])
    BY <1>a
  <2>2. PICK u \in Threads : pc[u] = "clear" /\ b \in Cleared(tid[u])
    BY <1>0, <1>b, <2>1 DEF BitInv
  <2> QED
    BY <1>c, <1>d, <2>1, <2>2
<1>1. ASSUME NEW b \in Blocks PROVE SafeInv(b)' /\ ProgressInv(b)' /\ BitInv(b)'
  <2>1. SafeInv(b)'
    BY <1>0, <1>1 DEF SafeInv, LoggedBelow, ClearDirtyBits, Goto
  <2>2. ProgressInv(b)'
    BY <1>0, <1>1 DEF TypeOK, ControlInv, ProgressInv, ClearDirtyBits, Goto
  <2>3. BitInv(b)'
    <3>1. b \in block_dirty' => Clearing'
      BY <1>1, <1>e DEF Clearing
    <3> QED
      BY <1>0, <1>1, <1>a, <1>b, <1>e, <3>1 DEF BitInv
  <2> QED
    BY <2>1, <2>2, <2>3
<1>2. ASSUME NEW u \in Threads PROVE HookInv(u)'
  BY <1>0, <1>2 DEF TypeOK, ControlInv, SlotInv, HookInv, Clearing, ClearDirtyBits, Goto
<1> QED
  BY <1>1, <1>2 DEF DataInv

\* The attribute.
LEMMA SetAttributesData ==
  ASSUME LogInv, LogInv', overtaken \/ DataInv, NEW t \in Threads, SetAttributes(t)
  PROVE  overtaken' \/ DataInv'
<1> USE UndoLogAssumption DEF headVars, logVars, dataVars, hookVars, threadVars
<1> SUFFICES ASSUME ~overtaken' PROVE DataInv'
  OBVIOUS
<1>0. /\ TypeOK /\ ControlInv /\ TidInv /\ SlotInv /\ MediumInv /\ LogComplete /\ ModeInv
      /\ \A b \in Blocks : SafeInv(b) /\ ProgressInv(b) /\ BitInv(b)
      /\ \A u \in Threads : HookInv(u)
  BY DEF LogInv, DataInv, SetAttributes
<1>1. ASSUME NEW b \in Blocks PROVE SafeInv(b)' /\ ProgressInv(b)' /\ BitInv(b)'
  <2>1. SafeInv(b)'
    BY <1>0, <1>1 DEF SafeInv, LoggedBelow, SetAttributes
  <2>2. ProgressInv(b)'
    BY <1>0, <1>1 DEF TypeOK, ControlInv, ProgressInv, SetAttributes
  <2>3. BitInv(b)'
    BY <1>0, <1>1 DEF TypeOK, ControlInv, BitInv, LoggedBelow, Clearing, Listed, Full, Cleared, SetAttributes
  <2> QED
    BY <2>1, <2>2, <2>3
<1>2. ASSUME NEW u \in Threads PROVE HookInv(u)'
  BY <1>0, <1>2 DEF TypeOK, ControlInv, SlotInv, HookInv, Clearing, SetAttributes
<1> QED
  BY <1>1, <1>2 DEF DataInv

\* The checkpoint takes effect.
LEMMA ResetLogHeadData ==
  ASSUME LogInv, LogInv', overtaken \/ DataInv, NEW t \in Threads, ResetLogHead(t)
  PROVE  overtaken' \/ DataInv'
<1> USE UndoLogAssumption DEF headVars, logVars, dataVars, hookVars, threadVars
<1> SUFFICES ASSUME ~overtaken' PROVE DataInv'
  OBVIOUS
<1>0. /\ TypeOK /\ ControlInv /\ TidInv /\ SlotInv /\ MediumInv /\ LogComplete /\ ModeInv
      /\ \A b \in Blocks : SafeInv(b) /\ ProgressInv(b) /\ BitInv(b)
      /\ \A u \in Threads : HookInv(u)
  BY DEF LogInv, DataInv, ResetLogHead
<1>a. phase = "clear" /\ phase' = phase /\ snap' = app /\ header_head_pm' = {0}
  BY <1>0 DEF TypeOK, ControlInv, ResetLogHead
<1>b. \A b \in Blocks : data_pm'[b] = {snap'[b]}
  BY <1>0, <1>a DEF ProgressInv, ResetLogHead
<1>1. ASSUME NEW b \in Blocks PROVE SafeInv(b)' /\ ProgressInv(b)' /\ BitInv(b)'
  <2>1. SafeInv(b)'
    BY <1>1, <1>a, <1>b DEF SafeInv
  <2>2. ProgressInv(b)'
    BY <1>0, <1>1 DEF TypeOK, ControlInv, ProgressInv, ResetLogHead
  <2>3. BitInv(b)'
    BY <1>0, <1>1, <1>a DEF BitInv, Clearing, Cleared, ResetLogHead
  <2> QED
    BY <2>1, <2>2, <2>3
<1>2. ASSUME NEW u \in Threads PROVE HookInv(u)'
  BY <1>0, <1>2 DEF TypeOK, ControlInv, SlotInv, HookInv, Clearing, ResetLogHead
<1> QED
  BY <1>1, <1>2 DEF DataInv

\* The next epoch begins.
LEMMA LatchAddData ==
  ASSUME LogInv, LogInv', overtaken \/ DataInv, NEW t \in Threads, LatchAdd(t)
  PROVE  overtaken' \/ DataInv'
<1> USE UndoLogAssumption DEF headVars, logVars, dataVars, hookVars, threadVars
<1> SUFFICES ASSUME ~overtaken' PROVE DataInv'
  OBVIOUS
<1>0. /\ TypeOK /\ ControlInv /\ TidInv /\ SlotInv /\ MediumInv /\ LogComplete /\ ModeInv
      /\ \A b \in Blocks : SafeInv(b) /\ ProgressInv(b) /\ BitInv(b)
      /\ \A u \in Threads : HookInv(u)
  BY DEF LogInv, DataInv, LatchAdd
<1>a. /\ pc[t] = "reset" /\ phase = "clear" /\ phase' = "run" /\ header_head = 0
      /\ pc' = [u \in Threads |-> IF u = t \/ pc[u] = "latch" THEN "app" ELSE pc[u]]
      /\ UNCHANGED <<header_head, header_head_pm, entry_block, entry_data_pm, data_pm, snap,
                     block_dirty, flush_blocks, flush_mode, tid>>
  BY <1>0 DEF TypeOK, ControlInv, LatchAdd
<1>b. \A b \in Blocks : data_pm[b] = {snap[b]}
  BY <1>0, <1>a DEF SlotInv, SafeInv, LoggedBelow
<1>c. \A u \in Threads : pc[u] = "clear" => pc'[u] = "clear"
  BY <1>a
<1>1. ASSUME NEW b \in Blocks PROVE SafeInv(b)' /\ ProgressInv(b)' /\ BitInv(b)'
  <2>1. SafeInv(b)'
    BY <1>0, <1>1 DEF SafeInv, LoggedBelow, LatchAdd
  <2>2. ProgressInv(b)'
    BY <1>0, <1>1 DEF TypeOK, ControlInv, ProgressInv, LatchAdd
  <2>3. BitInv(b)'
    <3>1. b \in block_dirty => \E u \in Threads : pc'[u] = "clear" /\ b \in Cleared(tid[u])'
      BY <1>0, <1>1, <1>a, <1>c DEF BitInv, Cleared
    <3> QED
      BY <1>1, <1>a, <1>b, <3>1 DEF BitInv, Clearing
  <2> QED
    BY <2>1, <2>2, <2>3
<1>2. ASSUME NEW u \in Threads PROVE HookInv(u)'
  BY <1>0, <1>2 DEF TypeOK, ControlInv, SlotInv, HookInv, Clearing, LatchAdd
<1> QED
  BY <1>1, <1>2 DEF DataInv

\* The snapshot can be restored from what the medium may hold.
LEMMA DieData ==
  ASSUME LogInv, LogInv', overtaken \/ DataInv, Die
  PROVE  overtaken' \/ DataInv'
<1> USE UndoLogAssumption DEF headVars, logVars, dataVars, hookVars, threadVars
<1> SUFFICES ASSUME ~overtaken' PROVE DataInv'
  OBVIOUS
<1>0. /\ TypeOK /\ ControlInv /\ TidInv /\ SlotInv /\ MediumInv /\ LogComplete /\ ModeInv
      /\ \A b \in Blocks : SafeInv(b) /\ ProgressInv(b) /\ BitInv(b)
      /\ \A u \in Threads : HookInv(u)
  BY DEF LogInv, DataInv, Die
<1>a. PICK d \in Resolve(data_pm, Contents), e \in Resolve(entry_data_pm, Contents),
            k \in Resolve(entry_block_pm, Blocks \cup {NoBlock}), h \in header_head_pm :
        /\ data' = d /\ data_pm' = Settled(d)
        /\ entry_data' = e /\ entry_data_pm' = Settled(e)
        /\ entry_block' = k /\ entry_block_pm' = Settled(k)
        /\ header_head' = h /\ header_head_pm' = {h}
  BY DEF Die
<1>b. /\ \A b \in Blocks : d[b] \in data_pm[b] /\ data_pm'[b] = {d[b]}
      /\ \A i \in Entries : /\ e[i] \in entry_data_pm[i] /\ entry_data_pm'[i] = {e[i]}
                            /\ k[i] \in entry_block_pm[i]
  BY <1>0, <1>a DEF TypeOK, Resolve, Settled
<1>c. \A i \in 0 .. (h - 1) : i \in Entries /\ k[i] = entry_block[i]
  <2>1. \A i \in 0 .. (h - 1) : i \in Entries
    BY <1>0 DEF TypeOK, Entries
  <2> QED
    BY <1>0, <1>b, <2>1 DEF LogComplete
<1>d. /\ phase' = "recover" /\ block_dirty' = {} /\ snap' = snap /\ app' = snap
      /\ \A t \in Threads : pc'[t] = "down"
  BY DEF Die
<1>1. ASSUME NEW b \in Blocks PROVE SafeInv(b)' /\ ProgressInv(b)' /\ BitInv(b)'
  <2>1. SafeInv(b)'
    <3>1. LoggedBelow(b, h)' <=> LoggedBelow(b, h)
      BY <1>a, <1>c DEF LoggedBelow
    <3>2. \A i \in 0 .. (h - 1) : k[i] = b => entry_data_pm'[i] = {snap[b]}
      BY <1>0, <1>1, <1>b, <1>c DEF SafeInv
    <3>3. ~LoggedBelow(b, h) => data_pm'[b] = {snap[b]}
      BY <1>0, <1>1, <1>b DEF SafeInv
    <3> QED
      BY <1>a, <1>d, <3>1, <3>2, <3>3 DEF SafeInv
  <2>2. ProgressInv(b)'
    BY <1>1, <1>d DEF ProgressInv
  <2>3. BitInv(b)'
    BY <1>1, <1>d DEF BitInv, Clearing
  <2> QED
    BY <2>1, <2>2, <2>3
<1>2. ASSUME NEW u \in Threads PROVE HookInv(u)'
  BY <1>2, <1>d DEF HookInv
<1> QED
  BY <1>1, <1>2 DEF DataInv

\* The snapshot is restored.
LEMMA RecoverCopyData ==
  ASSUME LogInv, LogInv', overtaken \/ DataInv, RecoverCopy
  PROVE  overtaken' \/ DataInv'
<1> USE UndoLogAssumption DEF headVars, logVars, dataVars, hookVars, threadVars
<1> SUFFICES ASSUME ~overtaken' PROVE DataInv'
  OBVIOUS
<1>0. /\ TypeOK /\ ControlInv /\ TidInv /\ SlotInv /\ MediumInv /\ LogComplete /\ ModeInv
      /\ \A b \in Blocks : SafeInv(b) /\ ProgressInv(b) /\ BitInv(b)
      /\ \A u \in Threads : HookInv(u)
  BY DEF LogInv, DataInv, RecoverCopy
<1>a. ASSUME NEW b \in Blocks PROVE data'[b] = snap[b]
  <2> DEFINE logged == {i \in 0 .. (header_head - 1) : entry_block[i] = b}
  <2> DEFINE newest == CHOOSE i \in logged : \A j \in logged : j <= i
  <2>1. data'[b] = IF logged = {} THEN data[b] ELSE entry_data[newest]
    BY <1>a DEF RecoverCopy, RolledBack
  <2>2. header_head \in Nat /\ header_head \in header_head_pm /\ 0 .. (header_head - 1) \subseteq Entries
    BY <1>0 DEF TypeOK, SlotInv, Entries
  <2>3. logged # {} => newest \in logged
    <3>1. logged \in SUBSET (0 .. (header_head - 1))
      OBVIOUS
    <3> HIDE DEF logged
    <3> QED
      BY <2>2, <3>1, NewestExists
  <2>4. CASE logged = {}
    <3>1. ~LoggedBelow(b, header_head)
      BY <2>4 DEF LoggedBelow
    <3> QED
      BY <1>0, <1>a, <2>1, <2>2, <2>4, <3>1 DEF SafeInv, MediumInv
  <2>5. CASE logged # {}
    <3>1. newest \in 0 .. (header_head - 1) /\ entry_block[newest] = b
      BY <2>3, <2>5
    <3> HIDE DEF logged, newest
    <3>2. entry_data_pm[newest] = {snap[b]} /\ entry_data[newest] \in entry_data_pm[newest]
      BY <1>0, <1>a, <2>2, <3>1 DEF SafeInv, MediumInv
    <3> QED
      BY <2>1, <2>5, <3>2
  <2> QED
    BY <2>4, <2>5
<1>b. \A b \in Blocks : data_pm'[b] = data_pm[b] \cup {snap[b]}
  BY <1>0, <1>a DEF TypeOK, RecoverCopy, Put
<1>c. \A b \in Blocks : \A h \in header_head_pm : LoggedBelow(b, h)' <=> LoggedBelow(b, h)
  BY DEF LoggedBelow, RecoverCopy
<1>1. ASSUME NEW b \in Blocks PROVE SafeInv(b)' /\ ProgressInv(b)' /\ BitInv(b)'
  <2>1. SafeInv(b)'
    BY <1>0, <1>1, <1>b, <1>c DEF SafeInv, RecoverCopy
  <2>2. ProgressInv(b)'
    BY <1>0, <1>1, <1>a DEF ProgressInv, RecoverCopy
  <2>3. BitInv(b)'
    BY <1>0, <1>1 DEF TypeOK, ControlInv, BitInv, LoggedBelow, Clearing, Listed, Full, Cleared, RecoverCopy
  <2> QED
    BY <2>1, <2>2, <2>3
<1>2. ASSUME NEW u \in Threads PROVE HookInv(u)'
  BY <1>0, <1>2 DEF TypeOK, ControlInv, SlotInv, HookInv, Clearing, RecoverCopy
<1> QED
  BY <1>1, <1>2 DEF DataInv

\* Open returns.
LEMMA RecoverDoneData ==
  ASSUME LogInv, LogInv', overtaken \/ DataInv, RecoverDone
  PROVE  overtaken' \/ DataInv'
<1> USE UndoLogAssumption DEF headVars, logVars, dataVars, hookVars, threadVars
<1> SUFFICES ASSUME ~overtaken' PROVE DataInv'
  OBVIOUS
<1>0. /\ TypeOK /\ ControlInv /\ TidInv /\ SlotInv /\ MediumInv /\ LogComplete /\ ModeInv
      /\ \A b \in Blocks : SafeInv(b) /\ ProgressInv(b) /\ BitInv(b)
      /\ \A u \in Threads : HookInv(u)
  BY DEF LogInv, DataInv, RecoverDone
<1>a. \A b \in Blocks : data'[b] = snap[b] /\ data_pm'[b] = {snap[b]}
  BY <1>0 DEF TypeOK, ProgressInv, RecoverDone, Settled
<1>b. /\ header_head_pm' = {0} /\ phase' = "run" /\ snap' = snap /\ block_dirty' = {}
      /\ ~Clearing' /\ \A t \in Threads : pc'[t] = "app"
  BY <1>0 DEF ControlInv, Clearing, RecoverDone
<1>1. ASSUME NEW b \in Blocks PROVE SafeInv(b)' /\ ProgressInv(b)' /\ BitInv(b)'
  <2>1. SafeInv(b)'
    BY <1>1, <1>a, <1>b DEF SafeInv
  <2>2. ProgressInv(b)'
    BY <1>0, <1>1 DEF TypeOK, ControlInv, ProgressInv, RecoverDone
  <2>3. BitInv(b)'
    BY <1>1, <1>a, <1>b DEF BitInv
  <2> QED
    BY <2>1, <2>2, <2>3
<1>2. ASSUME NEW u \in Threads PROVE HookInv(u)'
  BY <1>2, <1>b DEF HookInv
<1> QED
  BY <1>1, <1>2 DEF DataInv

\* Every step keeps the invariant of the data.
LEMMA NextData ==
  LogInv /\ LogInv' /\ (overtaken \/ DataInv) /\ [Next]_vars => (overtaken \/ DataInv)'
<1> SUFFICES ASSUME LogInv, LogInv', overtaken \/ DataInv, [Next]_vars
             PROVE  overtaken' \/ DataInv'
  OBVIOUS
<1>1. CASE UNCHANGED vars
  <2> USE <1>1 DEF vars, headVars, logVars, dataVars, hookVars, threadVars
  <2> SUFFICES ASSUME DataInv PROVE DataInv'
    OBVIOUS
  <2>1. ASSUME NEW b \in Blocks PROVE SafeInv(b)' /\ ProgressInv(b)'
    BY <2>1 DEF DataInv, SafeInv, LoggedBelow, ProgressInv
  <2>2. ASSUME NEW b \in Blocks PROVE BitInv(b)'
    BY <2>2 DEF DataInv, BitInv, LoggedBelow, Clearing, Listed, Full, Cleared
  <2>3. ASSUME NEW t \in Threads PROVE HookInv(t)'
    BY <2>3 DEF DataInv, HookInv, Clearing
  <2> QED
    BY <2>1, <2>2, <2>3 DEF DataInv
<1>2. CASE Next
  <2>1. ASSUME NEW t \in Threads, BeginStore(t) \/ Hook(t) \/ FinishStore(t)
        PROVE  overtaken' \/ DataInv'
    BY <2>1, BeginStoreData, HookDirtyData, HookLogData, HookAppendData, HookDoneData,
       FinishStoreData DEF Hook
  <2>2. ASSUME NEW t \in Threads, OutOfLog(t) PROVE overtaken' \/ DataInv'
    BY <2>2, DieData DEF OutOfLog
  <2>3. ASSUME NEW t \in Threads, CheckpointEnter(t) \/ ClearDirtyBits(t) \/ Leader(t)
        PROVE  overtaken' \/ DataInv'
    BY <2>3, CheckpointEnterData, ClearDirtyBitsData, SetAttributesData, ResetLogHeadData,
       LatchAddData DEF Leader
  <2> QED
    BY <1>2, <2>1, <2>2, <2>3, CheckpointBeginData, FlushParallelData, DieData,
       RecoverCopyData, RecoverDoneData DEF Next, Crash
<1> QED
  BY <1>1, <1>2

\* What the invariant says of a block is what recover makes of it.
LEMMA SafeSuffices == LogInv /\ DataInv => RecoverySafe
<1> SUFFICES ASSUME LogInv, DataInv, NEW b \in Blocks, NEW h \in header_head_pm
             PROVE  Recoverable(b, h) = {snap[b]}
  BY DEF RecoverySafe
<1> DEFINE logged == {i \in 0 .. (h - 1) : entry_block[i] = b}
<1> DEFINE newest == CHOOSE i \in logged : \A j \in logged : j <= i
<1>1. Recoverable(b, h) = IF logged = {} THEN data_pm[b] ELSE entry_data_pm[newest]
  BY DEF Recoverable
<1>2. h \in Nat
  BY DEF LogInv, TypeOK
<1>3. SafeInv(b)
  BY DEF DataInv
<1>4. CASE logged = {}
  <2>1. ~LoggedBelow(b, h)
    BY <1>4 DEF LoggedBelow
  <2> QED
    BY <1>1, <1>3, <1>4, <2>1 DEF SafeInv
<1>5. CASE logged # {}
  <2>1. newest \in logged
    <3>1. logged \in SUBSET (0 .. (h - 1))
      OBVIOUS
    <3> HIDE DEF logged
    <3> QED
      BY <1>2, <1>5, <3>1, NewestExists
  <2>2. newest \in 0 .. (h - 1) /\ entry_block[newest] = b
    BY <2>1
  <2> HIDE DEF logged, newest
  <2>3. entry_data_pm[newest] = {snap[b]}
    BY <1>3, <2>2 DEF SafeInv
  <2> QED
    BY <1>1, <1>5, <2>3
<1> QED
  BY <1>4, <1>5

-----------------------------------------------------------------------------
\* Type correctness: among others, the log never grows beyond its capacity, and
\* the ids of a checkpoint stay below the number of threads.
THEOREM TypeCorrect == Spec => []TypeOK
<1>1. LogInv => TypeOK
  BY DEF LogInv
<1> QED
  BY <1>1, LogInductive, PTL

\* recover never meets an entry that was not written completely, although the
\* threads write theirs in any order and the head is one word for all of them.
THEOREM EntriesComplete == Spec => []LogComplete
<1>1. LogInv => LogComplete
  BY DEF LogInv
<1> QED
  BY <1>1, LogInductive, PTL

\* The compare-and-swap loop of append waits for entries that have an owner who
\* will move the head.
THEOREM TurnsHeld == Spec => []TurnHeld
<1>1. LogInv => TurnHeld
  BY DEF LogInv
<1> QED
  BY <1>1, LogInductive, PTL

\* Crash consistency: a crash at any step of any thread, or an exit on a full log,
\* leaves a pool that recover takes back to the last checkpoint, as long as no
\* store of the next epoch began while a thread was clearing its bits.
THEOREM CrashConsistent == Spec => []SafeUnlessOvertaken
<1>1. Init => overtaken \/ DataInv
  BY InitData
<1>2. LogInv /\ (overtaken \/ DataInv) => SafeUnlessOvertaken
  BY SafeSuffices DEF SafeUnlessOvertaken
<1> QED
  BY <1>1, <1>2, LogInductive, NextData, PTL DEF Spec
=============================================================================
