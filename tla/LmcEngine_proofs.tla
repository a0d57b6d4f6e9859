-------------------------- MODULE LmcEngine_proofs --------------------------
(***************************************************************************)
(* Crash consistency of the engine with epoch tags, for any number of      *)
(* threads, blocks, locks and epochs.  RecoverySafe is not inductive: that *)
(* a store may overwrite a block rests on what the hook has made durable   *)
(* for it, which rests on who holds the block's lock; and that a           *)
(* checkpoint may forget the shadow copies rests on every tagged block     *)
(* being on a list, or some list being full.                               *)
(***************************************************************************)
EXTENDS LmcEngine, FiniteSetTheorems, TLAPS

\* All threads are in checkpoint while the leader works, and none runs while
\* the heap is being opened.
ControlInv ==
  /\ opening => /\ phase \in {"recover", "advance", "wrap", "finish"}
                /\ \A t \in Threads : pc[t] = "app"
  /\ phase = "recover" => opening
  /\ ~opening /\ phase # "run" => \A t \in Threads : pc[t] = "ckpt"

\* What loads see may be what the medium holds; no tag is ahead of the epoch,
\* and the current one is there only if loads see it.
MediumInv(b) ==
  /\ tagmap[b] \in tagmap_pm[b]
  /\ working[b] \in working_pm[b]
  /\ shadow[b] \in shadow_pm[b]
  /\ \A tag \in tagmap_pm[b] : tag <= current_epoch
  /\ phase # "wrap" /\ current_epoch \in tagmap_pm[b] => tagmap[b] = current_epoch

\* The property, for one block.
SafeInv(b) ==
  (phase = "wrap" /\ ~opening)
    \/ \A tag \in tagmap_pm[b] : Recoverable(b, tag) = {snap[b]}

\* How far the checkpoint or the recovery has come with a block.
ProgressInv(b) ==
  /\ phase # "recover" => working[b] = app[b]
  /\ opening \/ phase = "finish" => app[b] = snap[b]
  /\ (phase \in {"attributes", "wrap", "finish"} \/ (phase = "advance" /\ ~opening))
       => working_pm[b] = {working[b]}
  /\ phase = "finish" => current_epoch \notin tagmap_pm[b]
  /\ phase = "wrap" => tagmap[b] = 0

\* Thread t is in the hook for block b, with the lock.
Holds(t, b) == pc[t] \in {"copied", "tagged"} /\ Visits(t, b)

\* A lock has one holder.
LockInv ==
  /\ \A t \in Threads : \A b \in Blocks : Holds(t, b) => LockOf(b) \in segment_locks
  /\ \A t, u \in Threads : \A b, d \in Blocks :
       Holds(t, b) /\ Holds(u, d) /\ LockOf(b) = LockOf(d) => t = u

\* What a thread's position in the hook says of the block it visits, and of the
\* blocks it has visited: their tags are durable.
HookInv(t) ==
  \A b \in Blocks :
    /\ pc[t] = "copied" /\ Visits(t, b) => shadow[b] = snap[b] /\ tagmap[b] # current_epoch
    /\ pc[t] = "tagged" /\ Visits(t, b) => tagmap[b] = current_epoch
    /\ pc[t] \in {"hook", "copied", "tagged"} /\ b \in range[t] \ pending[t]
         => tagmap_pm[b] = {current_epoch}

\* A tag that loads see is durable, unless a thread is in between.
TagInv(b) ==
  ~opening /\ phase # "wrap" /\ tagmap[b] = current_epoch =>
    \/ tagmap_pm[b] = {current_epoch}
    \/ \E t \in Threads : pc[t] = "tagged" /\ Visits(t, b)

\* A tagged block is listed, unless the lists are of no use.
Full == \E t \in Threads : Cardinality(flush_blocks[t]) = kMaxFlushBlocks
ListInv(b) ==
  ~opening /\ phase # "wrap" /\ tagmap_pm[b] = {current_epoch} => b \in Listed \/ Full

ModeInv == phase = "flush" => flush_mode = "WBINVD" \/ ~Full

IndInv ==
  /\ TypeOK /\ ControlInv /\ LockInv /\ ModeInv
  /\ \A b \in Blocks : /\ MediumInv(b) /\ SafeInv(b) /\ ProgressInv(b)
                       /\ TagInv(b) /\ ListInv(b)
  /\ \A t \in Threads : HookInv(t)

-----------------------------------------------------------------------------
\* Types of what the primitives of PersistentMemory return.
LEMMA WriteType ==
  ASSUME NEW D, NEW S, NEW mem \in [D -> S], NEW X, NEW val \in [D -> S]
  PROVE  Write(mem, X, val) \in [D -> S]
BY DEF Write

LEMMA PutType ==
  ASSUME NEW D, NEW S, NEW pm \in [D -> (SUBSET S) \ {{}}], NEW X, NEW val \in [D -> S]
  PROVE  Put(pm, X, val) \in [D -> (SUBSET S) \ {{}}]
BY DEF Put

LEMMA SettleType ==
  ASSUME NEW D, NEW S, NEW pm \in [D -> (SUBSET S) \ {{}}], NEW X, NEW val \in [D -> S]
  PROVE  Settle(pm, X, val) \in [D -> (SUBSET S) \ {{}}]
BY DEF Settle

LEMMA SettledType ==
  ASSUME NEW D, NEW S, NEW mem \in [D -> S]
  PROVE  Settled(mem) \in [D -> (SUBSET S) \ {{}}]
BY DEF Settled

\* A thread's hook visits one block at a time.
LEMMA OneVisited ==
  ASSUME TypeOK, NEW t \in Threads, NEW b, NEW c, Visits(t, b), Visits(t, c)
  PROVE  b = c
BY LmcAssumption DEF TypeOK, Visits, Blocks

\* A thread that executes a store does so in the run phase.
LEMMA StoreRuns ==
  ASSUME TypeOK, ControlInv, NEW t \in Threads, pc[t] \in {"hook", "copied", "tagged"}
  PROVE  phase = "run" /\ ~opening
BY DEF TypeOK, ControlInv

\* Initially nothing is tagged and the two states are equal.
LEMMA InitInv == Init => IndInv
<1> SUFFICES ASSUME Init PROVE IndInv
  OBVIOUS
<1>1. attributes \in BOOLEAN /\ opening \in BOOLEAN
  BY Zenon DEF Init
<1>2. TypeOK
  BY <1>1, LmcAssumption DEF TypeOK, Init, Settled, Epochs, Tags, Contents
<1>3. ControlInv /\ LockInv /\ ModeInv
  BY DEF ControlInv, LockInv, ModeInv, Holds, Init
<1>4. ASSUME NEW b \in Blocks
      PROVE  MediumInv(b) /\ SafeInv(b) /\ ProgressInv(b) /\ TagInv(b) /\ ListInv(b)
  <2>1. /\ tagmap[b] = 0 /\ tagmap_pm[b] = {0}
        /\ current_epoch = 1 /\ phase = "run" /\ ~opening
    BY <1>4 DEF Init, Settled
  <2>2. working[b] = Junk /\ working_pm[b] = {Junk} /\ app[b] = Junk /\ snap[b] = Junk
    BY <1>4 DEF Init, Settled
  <2>3. shadow[b] = Junk /\ shadow_pm[b] = {Junk}
    BY <1>4 DEF Init, Settled
  <2>4. MediumInv(b) /\ SafeInv(b)
    BY <2>1, <2>2, <2>3 DEF MediumInv, SafeInv, Recoverable
  <2>5. tagmap[b] # current_epoch /\ tagmap_pm[b] # {current_epoch}
    BY <2>1
  <2>6. ProgressInv(b) /\ TagInv(b) /\ ListInv(b)
    BY <2>1, <2>2, <2>5 DEF ProgressInv, TagInv, ListInv
  <2> QED
    BY <2>4, <2>6
<1>5. ASSUME NEW t \in Threads PROVE HookInv(t)
  BY <1>5 DEF HookInv, Init
<1> QED
  BY <1>2, <1>3, <1>4, <1>5 DEF IndInv

\* A store begins: it has visited nothing.
LEMMA BeginStoreInv == ASSUME IndInv, NEW t \in Threads, BeginStore(t) PROVE IndInv'
<1> USE LmcAssumption DEF heapVars, threadVars, ckptVars
<1>0. /\ TypeOK /\ ControlInv /\ LockInv /\ ModeInv
      /\ \A b \in Blocks : /\ MediumInv(b) /\ SafeInv(b) /\ ProgressInv(b)
                           /\ TagInv(b) /\ ListInv(b)
      /\ \A u \in Threads : HookInv(u)
  BY DEF IndInv
<1>a. PICK R \in Ranges : /\ range' = [range EXCEPT ![t] = R]
                          /\ pending' = [pending EXCEPT ![t] = R]
  BY DEF BeginStore
<1>b. R \in SUBSET Blocks
  BY DEF Blocks
<1>1. attributes' \in BOOLEAN /\ opening' \in BOOLEAN
  BY <1>0, Zenon DEF TypeOK, BeginStore, Goto
<1>2. TypeOK'
  BY <1>0, <1>1, <1>a, <1>b DEF TypeOK, BeginStore, Goto
<1>3. ControlInv'
  BY <1>0 DEF TypeOK, ControlInv, BeginStore, Goto
<1>4. LockInv'
  <2>1. \A u \in Threads : \A d \in Blocks : Holds(u, d)' => Holds(u, d)
    BY <1>0, <1>a DEF TypeOK, Holds, Visits, BeginStore, Goto
  <2> QED
    BY <1>0, <2>1 DEF LockInv, BeginStore
<1>5. ModeInv'
  BY <1>0 DEF TypeOK, ControlInv, ModeInv, Full, BeginStore, Goto
<1>6. ASSUME NEW b \in Blocks
      PROVE  MediumInv(b)' /\ SafeInv(b)' /\ ProgressInv(b)' /\ TagInv(b)' /\ ListInv(b)'
  <2>1. MediumInv(b)'
    BY <1>0, <1>6 DEF TypeOK, ControlInv, MediumInv, BeginStore, Goto
  <2>2. SafeInv(b)'
    BY <1>0, <1>6 DEF TypeOK, ControlInv, MediumInv, SafeInv, ProgressInv, Recoverable, BeginStore, Goto
  <2>3. ProgressInv(b)'
    BY <1>0, <1>6 DEF TypeOK, ControlInv, MediumInv, SafeInv, ProgressInv, Recoverable, BeginStore, Goto
  <2>4. TagInv(b)'
    BY <1>0, <1>6 DEF TypeOK, ControlInv, MediumInv, TagInv, Visits, BeginStore, Goto
  <2>5. ListInv(b)'
    BY <1>0, <1>6 DEF TypeOK, ControlInv, ListInv, Listed, Full, BeginStore, Goto
  <2> QED
    BY <2>1, <2>2, <2>3, <2>4, <2>5
<1>7. ASSUME NEW u \in Threads PROVE HookInv(u)'
  BY <1>0, <1>7 DEF TypeOK, ControlInv, HookInv, Visits, BeginStore, Goto
<1> QED
  BY <1>2, <1>3, <1>4, <1>5, <1>6, <1>7 DEF IndInv

\* A block whose tag loads see, and whose lock is free, has a durable tag.
LEMMA HookTaggedInv == ASSUME IndInv, NEW t \in Threads, HookTagged(t) PROVE IndInv'
<1> USE LmcAssumption DEF heapVars, threadVars, ckptVars
<1>0. /\ TypeOK /\ ControlInv /\ LockInv /\ ModeInv
      /\ \A b \in Blocks : /\ MediumInv(b) /\ SafeInv(b) /\ ProgressInv(b)
                           /\ TagInv(b) /\ ListInv(b)
      /\ \A u \in Threads : HookInv(u)
  BY DEF IndInv
<1>a. PICK c \in pending[t] : /\ Visits(t, c) /\ LockOf(c) \notin segment_locks
                              /\ tagmap[c] = current_epoch
                              /\ pending' = [pending EXCEPT ![t] = @ \ {c}]
  BY DEF HookTagged
<1>b. phase = "run" /\ ~opening /\ c \in Blocks
  BY <1>0, StoreRuns DEF HookTagged, TypeOK
<1>c. tagmap_pm[c] = {current_epoch}
  BY <1>0, <1>a, <1>b DEF TagInv, LockInv, Holds
<1>1. attributes' \in BOOLEAN /\ opening' \in BOOLEAN
  BY <1>0, Zenon DEF TypeOK, HookTagged
<1>2. TypeOK'
  BY <1>0, <1>1, <1>a DEF TypeOK, HookTagged
<1>3. ControlInv'
  BY <1>0 DEF TypeOK, ControlInv, HookTagged
<1>4. LockInv'
  BY <1>0 DEF TypeOK, ControlInv, LockInv, Holds, Visits, HookTagged
<1>5. ModeInv'
  BY <1>0 DEF TypeOK, ControlInv, ModeInv, Full, HookTagged
<1>6. ASSUME NEW b \in Blocks
      PROVE  MediumInv(b)' /\ SafeInv(b)' /\ ProgressInv(b)' /\ TagInv(b)' /\ ListInv(b)'
  <2>1. MediumInv(b)'
    BY <1>0, <1>6 DEF TypeOK, ControlInv, MediumInv, HookTagged
  <2>2. SafeInv(b)'
    BY <1>0, <1>6 DEF TypeOK, ControlInv, MediumInv, SafeInv, ProgressInv, Recoverable, HookTagged
  <2>3. ProgressInv(b)'
    BY <1>0, <1>6 DEF TypeOK, ControlInv, MediumInv, SafeInv, ProgressInv, Recoverable, HookTagged
  <2>4. TagInv(b)'
    BY <1>0, <1>6 DEF TypeOK, ControlInv, MediumInv, TagInv, Visits, HookTagged
  <2>5. ListInv(b)'
    BY <1>0, <1>6 DEF TypeOK, ControlInv, ListInv, Listed, Full, HookTagged
  <2> QED
    BY <2>1, <2>2, <2>3, <2>4, <2>5
<1>7. ASSUME NEW u \in Threads PROVE HookInv(u)'
  BY <1>0, <1>7, <1>a, <1>b, <1>c DEF TypeOK, HookInv, Visits, HookTagged
<1> QED
  BY <1>2, <1>3, <1>4, <1>5, <1>6, <1>7 DEF IndInv

\* A block without the tag has not been stored to: its copy is of the snapshot.
LEMMA HookCopyInv == ASSUME IndInv, NEW t \in Threads, HookCopy(t) PROVE IndInv'
<1> USE LmcAssumption DEF heapVars, threadVars, ckptVars
<1>0. /\ TypeOK /\ ControlInv /\ LockInv /\ ModeInv
      /\ \A b \in Blocks : /\ MediumInv(b) /\ SafeInv(b) /\ ProgressInv(b)
                           /\ TagInv(b) /\ ListInv(b)
      /\ \A u \in Threads : HookInv(u)
  BY DEF IndInv
<1>a. PICK c \in pending[t] : /\ Visits(t, c) /\ LockOf(c) \notin segment_locks
                              /\ tagmap[c] # current_epoch
                              /\ segment_locks' = segment_locks \cup {LockOf(c)}
                              /\ shadow' = Write(shadow, {c}, working)
                              /\ shadow_pm' = Put(shadow_pm, {c}, working)
  BY DEF HookCopy
<1>b. phase = "run" /\ ~opening /\ c \in Blocks
  BY <1>0, StoreRuns DEF HookCopy, TypeOK
<1>c. working[c] = snap[c] /\ current_epoch \notin tagmap_pm[c]
  BY <1>0, <1>a, <1>b DEF MediumInv, SafeInv, Recoverable
<1>d. \A d \in Blocks : d # c => shadow'[d] = shadow[d] /\ shadow_pm'[d] = shadow_pm[d]
  BY <1>0, <1>a DEF TypeOK, Write, Put
<1>e. shadow'[c] = snap[c]
  BY <1>0, <1>a, <1>b, <1>c DEF TypeOK, Write
<1>f. LockOf(c) \in 0 .. (kSegmentLocks - 1)
  BY <1>b DEF LockOf, Blocks
<1>g. /\ pc' = [pc EXCEPT ![t] = "copied"]
      /\ \A u \in Threads : \A b : Visits(u, b)' <=> Visits(u, b)
  BY DEF HookCopy, Goto, Visits
<1>h. shadow' \in [Blocks -> Contents] /\ shadow_pm' \in [Blocks -> (SUBSET Contents) \ {{}}]
  BY <1>0, <1>a, WriteType, PutType DEF TypeOK
<1>1. attributes' \in BOOLEAN /\ opening' \in BOOLEAN
  BY <1>0, Zenon DEF TypeOK, HookCopy, Goto, Write, Put
<1>2. TypeOK'
  BY <1>0, <1>1, <1>a, <1>f, <1>h DEF TypeOK, HookCopy, Goto
<1>3. ControlInv'
  BY <1>0 DEF TypeOK, ControlInv, HookCopy, Goto, Write, Put
<1>4. LockInv'
  <2>1. \A u \in Threads : \A d \in Blocks : Holds(u, d)' => Holds(u, d) \/ (u = t /\ d = c)
    BY <1>0, <1>a, <1>g, OneVisited DEF TypeOK, Holds
  <2> QED
    BY <1>0, <1>a, <2>1 DEF LockInv
<1>5. ModeInv'
  BY <1>0 DEF TypeOK, ControlInv, ModeInv, Full, HookCopy, Goto, Write, Put
<1>6. ASSUME NEW b \in Blocks
      PROVE  MediumInv(b)' /\ SafeInv(b)' /\ ProgressInv(b)' /\ TagInv(b)' /\ ListInv(b)'
  <2>1. MediumInv(b)'
    BY <1>0, <1>6, <1>a DEF TypeOK, MediumInv, HookCopy, Write, Put
  <2>2. SafeInv(b)'
    BY <1>0, <1>6, <1>c, <1>d DEF SafeInv, Recoverable, HookCopy
  <2>3. ProgressInv(b)'
    BY <1>0, <1>6 DEF TypeOK, ControlInv, MediumInv, SafeInv, ProgressInv, Recoverable, HookCopy, Goto, Write, Put
  <2>4. TagInv(b)'
    BY <1>0, <1>6 DEF TypeOK, ControlInv, MediumInv, TagInv, Visits, HookCopy, Goto, Write, Put
  <2>5. ListInv(b)'
    BY <1>0, <1>6 DEF TypeOK, ControlInv, ListInv, Listed, Full, HookCopy, Goto, Write, Put
  <2> QED
    BY <2>1, <2>2, <2>3, <2>4, <2>5
<1>7. ASSUME NEW u \in Threads PROVE HookInv(u)'
  <2> SUFFICES ASSUME NEW b \in Blocks
               PROVE  /\ pc'[u] = "copied" /\ Visits(u, b)'
                           => shadow'[b] = snap'[b] /\ tagmap'[b] # current_epoch'
                      /\ pc'[u] = "tagged" /\ Visits(u, b)' => tagmap'[b] = current_epoch'
                      /\ pc'[u] \in {"hook", "copied", "tagged"} /\ b \in range'[u] \ pending'[u]
                           => tagmap_pm'[b] = {current_epoch'}
    BY DEF HookInv
  <2>1. CASE b = c
    <3>1. pc'[u] = "copied" /\ Visits(u, b)' => u = t
      BY <1>0, <1>7, <1>a, <1>b, <1>g, <2>1 DEF TypeOK, LockInv, Holds
    <3>2. pc'[u] # "copied" => pc'[u] = pc[u]
      BY <1>0, <1>7, <1>g DEF TypeOK
    <3> QED
      BY <1>0, <1>7, <1>a, <1>e, <1>g, <2>1, <3>1, <3>2 DEF TypeOK, HookInv, HookCopy
  <2>2. CASE b # c
    <3>1. pc'[u] = "copied" /\ Visits(u, b)' => pc[u] = "copied"
      <4>1. CASE u = t
        BY <1>0, <1>a, <1>g, <2>2, <4>1, OneVisited
      <4>2. CASE u # t
        BY <1>0, <1>7, <1>g, <4>2 DEF TypeOK
      <4> QED
        BY <4>1, <4>2
    <3> QED
      BY <1>0, <1>7, <1>d, <1>g, <2>2, <3>1 DEF TypeOK, HookInv, HookCopy
  <2> QED
    BY <2>1, <2>2
<1> QED
  BY <1>2, <1>3, <1>4, <1>5, <1>6, <1>7 DEF IndInv

\* The tag is stored after the copy is durable.
LEMMA HookTagInv == ASSUME IndInv, NEW t \in Threads, HookTag(t) PROVE IndInv'
<1> USE LmcAssumption DEF heapVars, threadVars, ckptVars
<1>0. /\ TypeOK /\ ControlInv /\ LockInv /\ ModeInv
      /\ \A b \in Blocks : /\ MediumInv(b) /\ SafeInv(b) /\ ProgressInv(b)
                           /\ TagInv(b) /\ ListInv(b)
      /\ \A u \in Threads : HookInv(u)
  BY DEF IndInv
<1>a. PICK c \in pending[t] : /\ Visits(t, c)
                              /\ shadow_pm' = Settle(shadow_pm, {c}, shadow)
                              /\ tagmap' = [tagmap EXCEPT ![c] = current_epoch]
                              /\ tagmap_pm' = Put(tagmap_pm, {c}, tagmap')
  BY DEF HookTag
<1>b. phase = "run" /\ ~opening /\ c \in Blocks
  BY <1>0, StoreRuns DEF HookTag, TypeOK
<1>c. shadow[c] = snap[c] /\ tagmap[c] # current_epoch
  BY <1>0, <1>a, <1>b DEF HookInv, HookTag
<1>d. \A d \in Blocks : d # c => /\ shadow_pm'[d] = shadow_pm[d]
                                 /\ tagmap'[d] = tagmap[d] /\ tagmap_pm'[d] = tagmap_pm[d]
  BY <1>0, <1>a DEF TypeOK, Settle, Put
<1>e. /\ tagmap'[c] = current_epoch /\ tagmap_pm'[c] = tagmap_pm[c] \cup {current_epoch}
      /\ shadow_pm'[c] = {snap[c]}
  BY <1>0, <1>a, <1>b, <1>c DEF TypeOK, Settle, Put
<1>f. tagmap' \in [Blocks -> Tags]
  BY <1>0, <1>a DEF TypeOK, Epochs, Tags
<1>g. /\ pc' = [pc EXCEPT ![t] = "tagged"]
      /\ \A u \in Threads : \A b : Visits(u, b)' <=> Visits(u, b)
  BY DEF HookTag, Goto, Visits
<1>h. /\ shadow_pm' \in [Blocks -> (SUBSET Contents) \ {{}}]
      /\ tagmap_pm' \in [Blocks -> (SUBSET Tags) \ {{}}]
  <2>1. shadow_pm' \in [Blocks -> (SUBSET Contents) \ {{}}]
    BY <1>0, <1>a, SettleType DEF TypeOK
  <2>2. tagmap_pm' \in [Blocks -> (SUBSET Tags) \ {{}}]
    BY <1>0, <1>a, <1>f, PutType DEF TypeOK
  <2> QED
    BY <2>1, <2>2
<1>j. UNCHANGED <<current_epoch, working, working_pm, shadow, range, pending, flush_blocks,
                  opening, phase, app, snap>>
  BY DEF HookTag
<1>i. \A u \in Threads : \A d \in Blocks : Holds(u, d)' <=> Holds(u, d)
  BY <1>0, <1>g DEF TypeOK, Holds, HookTag
<1>1. attributes' \in BOOLEAN /\ opening' \in BOOLEAN
  BY <1>0, Zenon DEF TypeOK, HookTag, Goto, Settle, Put
<1>2. TypeOK'
  BY <1>0, <1>1, <1>f, <1>h DEF TypeOK, HookTag, Goto
<1>3. ControlInv'
  BY <1>0 DEF TypeOK, ControlInv, HookTag, Goto, Settle, Put
<1>4. LockInv'
  BY <1>0, <1>i DEF LockInv, HookTag
<1>5. ModeInv'
  BY <1>0 DEF TypeOK, ControlInv, ModeInv, Full, HookTag, Goto, Settle, Put
<1>6. ASSUME NEW b \in Blocks
      PROVE  MediumInv(b)' /\ SafeInv(b)' /\ ProgressInv(b)' /\ TagInv(b)' /\ ListInv(b)'
  <2>1. MediumInv(b)'
    <3>1. CASE b = c
      <4>1. current_epoch \in Nat
        BY <1>0 DEF TypeOK, Epochs
      <4> QED
        BY <1>0, <1>b, <1>c, <1>e, <1>j, <3>1, <4>1 DEF MediumInv
    <3>2. CASE b # c
      BY <1>0, <1>6, <1>b, <1>d, <3>2 DEF MediumInv, HookTag
    <3> QED
      BY <3>1, <3>2
  <2>2. SafeInv(b)'
    BY <1>0, <1>6, <1>d, <1>e DEF SafeInv, Recoverable, HookTag
  <2>3. ProgressInv(b)'
    BY <1>0, <1>6, <1>b DEF ProgressInv, HookTag
  <2>4. TagInv(b)'
    <3>1. CASE b = c
      BY <1>0, <1>a, <1>g, <3>1 DEF TypeOK, TagInv
    <3>2. CASE b # c
      BY <1>0, <1>6, <1>d, <1>g, <3>2 DEF TypeOK, TagInv, HookTag
    <3> QED
      BY <3>1, <3>2
  <2>5. ListInv(b)'
    <3>1. tagmap_pm'[b] = {current_epoch} => tagmap_pm[b] = {current_epoch}
      <4>1. CASE b = c
        <5>1. tagmap[c] \in tagmap_pm'[c]
          BY <1>0, <1>b, <1>e DEF MediumInv
        <5> QED
          BY <1>c, <4>1, <5>1
      <4>2. CASE b # c
        BY <1>d, <1>6, <4>2
      <4> QED
        BY <4>1, <4>2
    <3> QED
      BY <1>0, <1>6, <1>j, <3>1 DEF ListInv, Listed, Full
  <2> QED
    BY <2>1, <2>2, <2>3, <2>4, <2>5
<1>7. ASSUME NEW u \in Threads PROVE HookInv(u)'
  <2> SUFFICES ASSUME NEW b \in Blocks
               PROVE  /\ pc'[u] = "copied" /\ Visits(u, b)' => shadow'[b] = snap'[b] /\ tagmap'[b] # current_epoch'
                      /\ pc'[u] = "tagged" /\ Visits(u, b)' => tagmap'[b] = current_epoch'
                      /\ pc'[u] \in {"hook", "copied", "tagged"} /\ b \in range'[u] \ pending'[u]
                           => tagmap_pm'[b] = {current_epoch'}
    BY DEF HookInv
  <2>1. pc'[u] = "copied" /\ Visits(u, b)' => b # c
    BY <1>0, <1>7, <1>a, <1>b, <1>g DEF TypeOK, LockInv, Holds, HookTag
  <2>2. pc'[u] = "copied" /\ Visits(u, b)' => shadow'[b] = snap'[b] /\ tagmap'[b] # current_epoch'
    BY <1>0, <1>7, <1>d, <1>g, <2>1 DEF TypeOK, HookInv, HookTag
  <2>3. pc'[u] = "tagged" /\ Visits(u, b)' => tagmap'[b] = current_epoch'
    BY <1>0, <1>7, <1>a, <1>d, <1>e, <1>g, OneVisited DEF TypeOK, HookInv, HookTag
  <2>4. pc'[u] \in {"hook", "copied", "tagged"} /\ b \in range'[u] \ pending'[u]
          => tagmap_pm'[b] = {current_epoch'}
    <3>1. pc'[u] \in {"hook", "copied", "tagged"} => pc[u] \in {"hook", "copied", "tagged"}
      BY <1>0, <1>7, <1>g DEF TypeOK, HookTag
    <3>2. tagmap_pm[b] = {current_epoch} => tagmap_pm'[b] = {current_epoch}
      BY <1>d, <1>e
    <3> QED
      BY <1>0, <1>7, <3>1, <3>2 DEF HookInv, HookTag
  <2> QED
    BY <2>2, <2>3, <2>4
<1> QED
  BY <1>2, <1>3, <1>4, <1>5, <1>6, <1>7 DEF IndInv

\* The tag is durable; the block is listed.
LEMMA HookDoneInv == ASSUME IndInv, NEW t \in Threads, HookDone(t) PROVE IndInv'
<1> USE LmcAssumption DEF heapVars, threadVars, ckptVars
<1>0. /\ TypeOK /\ ControlInv /\ LockInv /\ ModeInv
      /\ \A b \in Blocks : /\ MediumInv(b) /\ SafeInv(b) /\ ProgressInv(b)
                           /\ TagInv(b) /\ ListInv(b)
      /\ \A u \in Threads : HookInv(u)
  BY DEF IndInv
<1>a. PICK c \in pending[t] : /\ Visits(t, c)
                              /\ tagmap_pm' = Settle(tagmap_pm, {c}, tagmap)
                              /\ segment_locks' = segment_locks \ {LockOf(c)}
                              /\ List(t, c)
                              /\ pending' = [pending EXCEPT ![t] = @ \ {c}]
  BY DEF HookDone
<1>b. phase = "run" /\ ~opening /\ c \in Blocks
  BY <1>0, StoreRuns DEF HookDone, TypeOK
<1>c. tagmap[c] = current_epoch
  BY <1>0, <1>a, <1>b DEF HookInv, HookDone
<1>d. /\ \A d \in Blocks : d # c => tagmap_pm'[d] = tagmap_pm[d]
      /\ tagmap_pm'[c] = {current_epoch}
  BY <1>0, <1>a, <1>b, <1>c DEF TypeOK, Settle
<1>e. tagmap_pm' \in [Blocks -> (SUBSET Tags) \ {{}}]
  BY <1>0, <1>a, SettleType DEF TypeOK
<1>f. flush_blocks' \in [Threads -> SUBSET Blocks]
  BY <1>0, <1>a, <1>b DEF TypeOK, List
<1>g. /\ pc' = [pc EXCEPT ![t] = "hook"]
      /\ \A u \in Threads : u # t => \A b : Visits(u, b)' <=> Visits(u, b)
  BY <1>0, <1>a DEF TypeOK, HookDone, Goto, Visits
<1>h. \A u \in Threads : \A d \in Blocks : Holds(u, d)' => u # t /\ Holds(u, d)
  BY <1>0, <1>g DEF TypeOK, Holds, HookDone
<1>1. attributes' \in BOOLEAN /\ opening' \in BOOLEAN
  BY <1>0, Zenon DEF TypeOK, HookDone, Goto, Settle, List
<1>2. TypeOK'
  BY <1>0, <1>1, <1>a, <1>e, <1>f DEF TypeOK, HookDone, Goto
<1>3. ControlInv'
  BY <1>0 DEF TypeOK, ControlInv, HookDone, Goto, Settle, List
<1>4. LockInv'
  <2>1. Holds(t, c)
    BY <1>a DEF Holds, HookDone
  <2> QED
    BY <1>0, <1>a, <1>b, <1>h, <2>1 DEF LockInv
<1>5. ModeInv'
  BY <1>0 DEF TypeOK, ControlInv, ModeInv, Full, HookDone, Goto, Settle, List
<1>6. ASSUME NEW b \in Blocks
      PROVE  MediumInv(b)' /\ SafeInv(b)' /\ ProgressInv(b)' /\ TagInv(b)' /\ ListInv(b)'
  <2>1. MediumInv(b)'
    <3>1. CASE b = c
      <4>1. current_epoch \in Nat
        BY <1>0 DEF TypeOK, Epochs
      <4> QED
        BY <1>0, <1>b, <1>c, <1>d, <3>1, <4>1 DEF MediumInv, HookDone
    <3>2. CASE b # c
      BY <1>0, <1>6, <1>b, <1>d, <3>2 DEF MediumInv, HookDone
    <3> QED
      BY <3>1, <3>2
  <2>2. SafeInv(b)'
    <3>1. \A tag \in tagmap_pm'[b] : tag \in tagmap_pm[b]
      BY <1>0, <1>6, <1>c, <1>d DEF MediumInv
    <3> QED
      BY <1>0, <1>6, <3>1, <1>b DEF SafeInv, Recoverable, HookDone
  <2>3. ProgressInv(b)'
    BY <1>0, <1>6 DEF TypeOK, ControlInv, MediumInv, SafeInv, ProgressInv, Recoverable, HookDone, Goto, Settle, List
  <2>4. TagInv(b)'
    <3>1. CASE b = c
      BY <1>d, <3>1 DEF TagInv, HookDone
    <3>2. CASE b # c
      <4>1. \A u \in Threads : pc[u] = "tagged" /\ Visits(u, b)
                              => pc'[u] = "tagged" /\ Visits(u, b)'
        BY <1>0, <1>6, <1>a, <1>g, <3>2, OneVisited DEF TypeOK
      <4> QED
        BY <1>0, <1>6, <1>d, <3>2, <4>1 DEF TagInv, HookDone
    <3> QED
      BY <3>1, <3>2
  <2>5. ListInv(b)'
    <3>1. Full => Full'
      BY <1>0, <1>a DEF TypeOK, Full, List
    <3>2. c \in Listed' \/ Full
      BY <1>0, <1>a DEF TypeOK, Full, Listed, List
    <3>3. b \in Listed => b \in Listed'
      BY <1>0, <1>a DEF TypeOK, Listed, List
    <3> QED
      BY <1>0, <1>6, <1>b, <1>d, <3>1, <3>2, <3>3 DEF ListInv, HookDone
  <2> QED
    BY <2>1, <2>2, <2>3, <2>4, <2>5
<1>7. ASSUME NEW u \in Threads PROVE HookInv(u)'
  <2>1. CASE u = t
    BY <1>0, <1>7, <1>a, <1>d, <1>g, <2>1 DEF TypeOK, HookInv, HookDone
  <2>2. CASE u # t
    <3>1. pc'[u] = pc[u] /\ range'[u] = range[u] /\ pending'[u] = pending[u]
      BY <1>0, <1>7, <1>a, <1>g, <2>2 DEF TypeOK, HookDone
    <3>2. \A d \in Blocks : tagmap_pm[d] = {current_epoch} => tagmap_pm'[d] = {current_epoch}
      BY <1>d
    <3> QED
      BY <1>0, <1>7, <1>g, <2>2, <3>1, <3>2 DEF HookInv, HookDone
  <2> QED
    BY <2>1, <2>2
<1> QED
  BY <1>2, <1>3, <1>4, <1>5, <1>6, <1>7 DEF IndInv

\* Only blocks with a durable tag are overwritten.
LEMMA FinishStoreInv == ASSUME IndInv, NEW t \in Threads, FinishStore(t) PROVE IndInv'
<1> USE LmcAssumption DEF heapVars, threadVars, ckptVars
<1>0. /\ TypeOK /\ ControlInv /\ LockInv /\ ModeInv
      /\ \A b \in Blocks : /\ MediumInv(b) /\ SafeInv(b) /\ ProgressInv(b)
                           /\ TagInv(b) /\ ListInv(b)
      /\ \A u \in Threads : HookInv(u)
  BY DEF IndInv
<1>a. PICK v \in Values :
        /\ working' = Write(working, range[t], [b \in Blocks |-> v])
        /\ working_pm' = Put(working_pm, range[t], [b \in Blocks |-> v])
        /\ app' = Write(app, range[t], [b \in Blocks |-> v])
  BY DEF FinishStore
<1>b. phase = "run" /\ ~opening
  BY <1>0, StoreRuns DEF FinishStore, TypeOK
<1>c. \A b \in range[t] : tagmap_pm[b] = {current_epoch}
  BY <1>0 DEF FinishStore, TypeOK, HookInv
<1>d. [b \in Blocks |-> v] \in [Blocks -> Contents]
  BY DEF Contents
<1>e. /\ working' \in [Blocks -> Contents] /\ app' \in [Blocks -> Contents]
      /\ working_pm' \in [Blocks -> (SUBSET Contents) \ {{}}]
  <2>1. working' \in [Blocks -> Contents] /\ app' \in [Blocks -> Contents]
    BY <1>0, <1>a, <1>d, WriteType DEF TypeOK
  <2>2. working_pm' \in [Blocks -> (SUBSET Contents) \ {{}}]
    BY <1>0, <1>a, <1>d, PutType DEF TypeOK
  <2> QED
    BY <2>1, <2>2
<1>f. \A b \in Blocks : /\ working'[b] = IF b \in range[t] THEN v ELSE working[b]
                        /\ app'[b] = IF b \in range[t] THEN v ELSE app[b]
                        /\ working_pm'[b] = IF b \in range[t] THEN working_pm[b] \cup {v}
                                                             ELSE working_pm[b]
  BY <1>0, <1>a DEF TypeOK, Write, Put
<1>g. /\ pc' = [pc EXCEPT ![t] = "app"]
      /\ \A u \in Threads : \A b : Visits(u, b)' <=> Visits(u, b)
  BY DEF FinishStore, Goto, Visits
<1>h. \A u \in Threads : \A d \in Blocks : Holds(u, d)' => Holds(u, d)
  BY <1>0, <1>g DEF TypeOK, Holds, FinishStore
<1>1. attributes' \in BOOLEAN /\ opening' \in BOOLEAN
  BY <1>0, Zenon DEF TypeOK, FinishStore, Goto, Write, Put
<1>2. TypeOK'
  BY <1>0, <1>1, <1>e DEF TypeOK, FinishStore, Goto
<1>3. ControlInv'
  BY <1>0 DEF TypeOK, ControlInv, FinishStore, Goto, Write, Put
<1>4. LockInv'
  BY <1>0, <1>h DEF LockInv, FinishStore
<1>5. ModeInv'
  BY <1>0 DEF TypeOK, ControlInv, ModeInv, Full, FinishStore, Goto, Write, Put
<1>6. ASSUME NEW b \in Blocks
      PROVE  MediumInv(b)' /\ SafeInv(b)' /\ ProgressInv(b)' /\ TagInv(b)' /\ ListInv(b)'
  <2>1. MediumInv(b)'
    BY <1>0, <1>6, <1>b, <1>f DEF MediumInv, FinishStore
  <2>2. SafeInv(b)'
    <3>1. CASE b \in range[t]
      BY <1>0, <1>6, <1>b, <1>c, <3>1 DEF SafeInv, Recoverable, FinishStore
    <3>2. CASE b \notin range[t]
      BY <1>0, <1>6, <1>b, <1>f, <3>2 DEF SafeInv, Recoverable, FinishStore
    <3> QED
      BY <3>1, <3>2
  <2>3. ProgressInv(b)'
    BY <1>0, <1>6, <1>b, <1>f DEF ProgressInv, FinishStore
  <2>4. TagInv(b)'
    BY <1>0, <1>6, <1>g DEF TypeOK, TagInv, FinishStore
  <2>5. ListInv(b)'
    BY <1>0, <1>6 DEF TypeOK, ControlInv, ListInv, Listed, Full, FinishStore, Goto, Write, Put
  <2> QED
    BY <2>1, <2>2, <2>3, <2>4, <2>5
<1>7. ASSUME NEW u \in Threads PROVE HookInv(u)'
  BY <1>0, <1>7, <1>g DEF TypeOK, HookInv, FinishStore
<1> QED
  BY <1>2, <1>3, <1>4, <1>5, <1>6, <1>7 DEF IndInv

\* A thread comes to the checkpoint.
LEMMA CheckpointEnterInv == ASSUME IndInv, NEW t \in Threads, CheckpointEnter(t) PROVE IndInv'
<1> USE LmcAssumption DEF heapVars, threadVars, ckptVars
<1>0. /\ TypeOK /\ ControlInv /\ LockInv /\ ModeInv
      /\ \A b \in Blocks : /\ MediumInv(b) /\ SafeInv(b) /\ ProgressInv(b)
                           /\ TagInv(b) /\ ListInv(b)
      /\ \A u \in Threads : HookInv(u)
  BY DEF IndInv
<1>g. /\ pc' = [pc EXCEPT ![t] = "ckpt"] /\ pc[t] = "app"
      /\ \A u \in Threads : \A b : Visits(u, b)' <=> Visits(u, b)
  BY DEF CheckpointEnter, Goto, Visits
<1>h. \A u \in Threads : \A d \in Blocks : Holds(u, d)' => Holds(u, d)
  BY <1>0, <1>g DEF TypeOK, Holds, CheckpointEnter
<1>1. attributes' \in BOOLEAN /\ opening' \in BOOLEAN
  BY <1>0, Zenon DEF TypeOK, CheckpointEnter, Goto
<1>2. TypeOK'
  BY <1>0, <1>1 DEF TypeOK, CheckpointEnter, Goto, Blocks, Epochs, Tags, Contents
<1>3. ControlInv'
  BY <1>0 DEF TypeOK, ControlInv, CheckpointEnter, Goto
<1>4. LockInv'
  BY <1>0, <1>h DEF LockInv, CheckpointEnter
<1>5. ModeInv'
  BY <1>0 DEF TypeOK, ControlInv, ModeInv, Full, CheckpointEnter, Goto
<1>6. ASSUME NEW b \in Blocks
      PROVE  MediumInv(b)' /\ SafeInv(b)' /\ ProgressInv(b)' /\ TagInv(b)' /\ ListInv(b)'
  <2>1. MediumInv(b)'
    BY <1>0, <1>6 DEF TypeOK, ControlInv, MediumInv, CheckpointEnter, Goto
  <2>2. SafeInv(b)'
    BY <1>0, <1>6 DEF TypeOK, ControlInv, MediumInv, SafeInv, ProgressInv, Recoverable, CheckpointEnter, Goto
  <2>3. ProgressInv(b)'
    BY <1>0, <1>6 DEF TypeOK, ControlInv, MediumInv, SafeInv, ProgressInv, Recoverable, CheckpointEnter, Goto
  <2>4. TagInv(b)'
    BY <1>0, <1>6, <1>g DEF TypeOK, TagInv, CheckpointEnter
  <2>5. ListInv(b)'
    BY <1>0, <1>6 DEF TypeOK, ControlInv, ListInv, Listed, Full, CheckpointEnter, Goto
  <2> QED
    BY <2>1, <2>2, <2>3, <2>4, <2>5
<1>7. ASSUME NEW u \in Threads PROVE HookInv(u)'
  BY <1>0, <1>7 DEF TypeOK, ControlInv, HookInv, Visits, CheckpointEnter, Goto
<1> QED
  BY <1>2, <1>3, <1>4, <1>5, <1>6, <1>7 DEF IndInv

\* The leader chooses.
LEMMA CheckpointBeginInv == ASSUME IndInv, CheckpointBegin PROVE IndInv'
<1> USE LmcAssumption DEF heapVars, threadVars, ckptVars
<1>0. /\ TypeOK /\ ControlInv /\ LockInv /\ ModeInv
      /\ \A b \in Blocks : /\ MediumInv(b) /\ SafeInv(b) /\ ProgressInv(b)
                           /\ TagInv(b) /\ ListInv(b)
      /\ \A u \in Threads : HookInv(u)
  BY DEF IndInv
<1>1. attributes' \in BOOLEAN /\ opening' \in BOOLEAN
  BY <1>0, Zenon DEF TypeOK, CheckpointBegin, Mode, AllReturn
<1>2. TypeOK'
  BY <1>0, <1>1 DEF TypeOK, CheckpointBegin, Mode, AllReturn, Blocks, Epochs, Tags, Contents
<1>3. ControlInv'
  BY <1>0 DEF TypeOK, ControlInv, CheckpointBegin, Mode, AllReturn
<1>4. LockInv'
  BY <1>0 DEF TypeOK, ControlInv, LockInv, Holds, Visits, CheckpointBegin, Mode, AllReturn
<1>5. ModeInv'
  BY <1>0 DEF TypeOK, ControlInv, ModeInv, Full, CheckpointBegin, Mode, AllReturn
<1>6. ASSUME NEW b \in Blocks
      PROVE  MediumInv(b)' /\ SafeInv(b)' /\ ProgressInv(b)' /\ TagInv(b)' /\ ListInv(b)'
  <2>1. MediumInv(b)'
    BY <1>0, <1>6 DEF TypeOK, ControlInv, MediumInv, CheckpointBegin, Mode, AllReturn
  <2>2. SafeInv(b)'
    BY <1>0, <1>6 DEF TypeOK, ControlInv, MediumInv, SafeInv, ProgressInv, Recoverable, CheckpointBegin, Mode, AllReturn
  <2>3. ProgressInv(b)'
    BY <1>0, <1>6 DEF TypeOK, ControlInv, MediumInv, SafeInv, ProgressInv, Recoverable, CheckpointBegin, Mode, AllReturn
  <2>4. TagInv(b)'
    BY <1>0, <1>6 DEF TypeOK, ControlInv, MediumInv, TagInv, Visits, CheckpointBegin, Mode, AllReturn
  <2>5. ListInv(b)'
    BY <1>0, <1>6 DEF TypeOK, ControlInv, ListInv, Listed, Full, CheckpointBegin, Mode, AllReturn
  <2> QED
    BY <2>1, <2>2, <2>3, <2>4, <2>5
<1>7. ASSUME NEW u \in Threads PROVE HookInv(u)'
  BY <1>0, <1>7 DEF TypeOK, ControlInv, HookInv, Visits, CheckpointBegin, Mode, AllReturn
<1> QED
  BY <1>2, <1>3, <1>4, <1>5, <1>6, <1>7 DEF IndInv

\* All that was stored is durable after the flush.
LEMMA FlushParallelInv == ASSUME IndInv, FlushParallel PROVE IndInv'
<1> USE LmcAssumption DEF heapVars, threadVars, ckptVars
<1>0. /\ TypeOK /\ ControlInv /\ LockInv /\ ModeInv
      /\ \A b \in Blocks : /\ MediumInv(b) /\ SafeInv(b) /\ ProgressInv(b)
                           /\ TagInv(b) /\ ListInv(b)
      /\ \A u \in Threads : HookInv(u)
  BY DEF IndInv
<1>1. attributes' \in BOOLEAN /\ opening' \in BOOLEAN
  BY <1>0, Zenon DEF TypeOK, FlushParallel, Settle
<1>2. TypeOK'
  BY <1>0, <1>1 DEF TypeOK, FlushParallel, Settle, Blocks, Epochs, Tags, Contents
<1>3. ControlInv'
  BY <1>0 DEF TypeOK, ControlInv, FlushParallel, Settle
<1>4. LockInv'
  BY <1>0 DEF TypeOK, ControlInv, LockInv, Holds, Visits, FlushParallel, Settle
<1>5. ModeInv'
  BY <1>0 DEF TypeOK, ControlInv, ModeInv, Full, FlushParallel, Settle
<1>6. ASSUME NEW b \in Blocks
      PROVE  MediumInv(b)' /\ SafeInv(b)' /\ ProgressInv(b)' /\ TagInv(b)' /\ ListInv(b)'
  <2>1. MediumInv(b)'
    BY <1>0, <1>6 DEF TypeOK, ControlInv, MediumInv, FlushParallel, Settle
  <2>2. SafeInv(b)'
    BY <1>0, <1>6 DEF TypeOK, ControlInv, MediumInv, SafeInv, ProgressInv, Recoverable, FlushParallel, Settle
  <2>3. ProgressInv(b)'
    <3>1. b \in Listed \/ flush_mode = "WBINVD" \/ working_pm[b] = {working[b]}
      <4>1. CASE tagmap_pm[b] = {current_epoch}
        BY <1>0, <1>6, <4>1 DEF ListInv, ModeInv, ControlInv, FlushParallel
      <4>2. CASE tagmap_pm[b] # {current_epoch}
        <5>1. PICK tag \in tagmap_pm[b] : tag # current_epoch
          BY <1>0, <1>6, <4>2 DEF TypeOK
        <5> QED
          BY <1>0, <1>6, <5>1 DEF SafeInv, MediumInv, Recoverable, FlushParallel
      <4> QED
        BY <4>1, <4>2
    <3>2. working_pm'[b] = {working[b]}
      BY <1>0, <1>6, <3>1 DEF TypeOK, FlushParallel, Settle
    <3> QED
      BY <1>0, <1>6, <3>2 DEF ProgressInv, ControlInv, FlushParallel
  <2>4. TagInv(b)'
    BY <1>0, <1>6 DEF TypeOK, ControlInv, MediumInv, TagInv, Visits, FlushParallel, Settle
  <2>5. ListInv(b)'
    BY <1>0, <1>6 DEF TypeOK, ControlInv, ListInv, Listed, Full, FlushParallel, Settle
  <2> QED
    BY <2>1, <2>2, <2>3, <2>4, <2>5
<1>7. ASSUME NEW u \in Threads PROVE HookInv(u)'
  BY <1>0, <1>7 DEF TypeOK, ControlInv, HookInv, Visits, FlushParallel, Settle
<1> QED
  BY <1>2, <1>3, <1>4, <1>5, <1>6, <1>7 DEF IndInv

\* The attribute.
LEMMA SetAttributesInv == ASSUME IndInv, SetAttributes PROVE IndInv'
<1> USE LmcAssumption DEF heapVars, threadVars, ckptVars
<1>0. /\ TypeOK /\ ControlInv /\ LockInv /\ ModeInv
      /\ \A b \in Blocks : /\ MediumInv(b) /\ SafeInv(b) /\ ProgressInv(b)
                           /\ TagInv(b) /\ ListInv(b)
      /\ \A u \in Threads : HookInv(u)
  BY DEF IndInv
<1>1. attributes' \in BOOLEAN /\ opening' \in BOOLEAN
  BY <1>0, Zenon DEF TypeOK, SetAttributes
<1>2. TypeOK'
  BY <1>0, <1>1 DEF TypeOK, SetAttributes, Blocks, Epochs, Tags, Contents
<1>3. ControlInv'
  BY <1>0 DEF TypeOK, ControlInv, SetAttributes
<1>4. LockInv'
  BY <1>0 DEF TypeOK, ControlInv, LockInv, Holds, Visits, SetAttributes
<1>5. ModeInv'
  BY <1>0 DEF TypeOK, ControlInv, ModeInv, Full, SetAttributes
<1>6. ASSUME NEW b \in Blocks
      PROVE  MediumInv(b)' /\ SafeInv(b)' /\ ProgressInv(b)' /\ TagInv(b)' /\ ListInv(b)'
  <2>1. MediumInv(b)'
    BY <1>0, <1>6 DEF TypeOK, ControlInv, MediumInv, SetAttributes
  <2>2. SafeInv(b)'
    BY <1>0, <1>6 DEF TypeOK, ControlInv, MediumInv, SafeInv, ProgressInv, Recoverable, SetAttributes
  <2>3. ProgressInv(b)'
    BY <1>0, <1>6 DEF TypeOK, ControlInv, MediumInv, SafeInv, ProgressInv, Recoverable, SetAttributes
  <2>4. TagInv(b)'
    BY <1>0, <1>6 DEF TypeOK, ControlInv, MediumInv, TagInv, Visits, SetAttributes
  <2>5. ListInv(b)'
    BY <1>0, <1>6 DEF TypeOK, ControlInv, ListInv, Listed, Full, SetAttributes
  <2> QED
    BY <2>1, <2>2, <2>3, <2>4, <2>5
<1>7. ASSUME NEW u \in Threads PROVE HookInv(u)'
  BY <1>0, <1>7 DEF TypeOK, ControlInv, HookInv, Visits, SetAttributes
<1> QED
  BY <1>2, <1>3, <1>4, <1>5, <1>6, <1>7 DEF IndInv

\* The new epoch makes all tags stale.
LEMMA AdvanceEpochInv == ASSUME IndInv, AdvanceEpoch PROVE IndInv'
<1> USE LmcAssumption DEF heapVars, threadVars, ckptVars
<1>0. /\ TypeOK /\ ControlInv /\ LockInv /\ ModeInv
      /\ \A b \in Blocks : /\ MediumInv(b) /\ SafeInv(b) /\ ProgressInv(b)
                           /\ TagInv(b) /\ ListInv(b)
      /\ \A u \in Threads : HookInv(u)
  BY DEF IndInv
<1>a. \A b \in Blocks : working_pm'[b] = {working[b]}
  BY <1>0 DEF TypeOK, ControlInv, ProgressInv, AdvanceEpoch, Committed, Settled
<1>b. /\ phase' = "finish" /\ working' = working /\ shadow' = shadow /\ shadow_pm' = shadow_pm
      /\ snap' = app /\ app' = app /\ opening' = opening /\ pc' = pc
      /\ range' = range /\ pending' = pending
  BY DEF AdvanceEpoch, Committed
<1>c. working_pm' \in [Blocks -> (SUBSET Contents) \ {{}}]
  BY <1>0, SettledType DEF TypeOK, AdvanceEpoch, Committed
<1>d. current_epoch' = current_epoch + 1 /\ current_epoch' \in Epochs
  BY <1>0 DEF TypeOK, Epochs, AdvanceEpoch
<1>e. \A b \in Blocks : current_epoch' \notin tagmap_pm'[b] /\ tagmap'[b] # current_epoch'
  BY <1>0, <1>d, SMT DEF TypeOK, MediumInv, Epochs, Tags, AdvanceEpoch, Settled
<1>f. \A b \in Blocks : working[b] = app[b]
  BY <1>0 DEF ProgressInv, AdvanceEpoch
<1>1. attributes' \in BOOLEAN /\ opening' \in BOOLEAN
  BY <1>0, Zenon DEF TypeOK, AdvanceEpoch, Committed, Settled
<1>2. TypeOK'
  BY <1>0, <1>1, <1>c, <1>d DEF TypeOK, AdvanceEpoch, Committed
<1>3. ControlInv'
  BY <1>0 DEF TypeOK, ControlInv, AdvanceEpoch, Committed, Settled
<1>4. LockInv'
  BY <1>0 DEF TypeOK, ControlInv, LockInv, Holds, Visits, AdvanceEpoch, Committed, Settled
<1>5. ModeInv'
  BY <1>0 DEF TypeOK, ControlInv, ModeInv, Full, AdvanceEpoch, Committed, Settled
<1>6. ASSUME NEW b \in Blocks
      PROVE  MediumInv(b)' /\ SafeInv(b)' /\ ProgressInv(b)' /\ TagInv(b)' /\ ListInv(b)'
  <2>1. MediumInv(b)'
    <3>1. \A tag \in tagmap_pm[b] : tag <= current_epoch'
      <4>1. current_epoch \in Nat /\ tagmap_pm[b] \subseteq Nat
        BY <1>0, <1>6 DEF TypeOK, Epochs, Tags
      <4> QED
        BY <1>0, <1>6, <1>d, <4>1 DEF MediumInv
    <3> QED
      BY <1>0, <1>6, <1>a, <1>b, <1>e, <3>1 DEF MediumInv, AdvanceEpoch
  <2>2. SafeInv(b)'
    BY <1>0, <1>6, <1>a, <1>b, <1>e, <1>f DEF SafeInv, Recoverable
  <2>3. ProgressInv(b)'
    BY <1>6, <1>a, <1>b, <1>e, <1>f DEF ProgressInv
  <2>4. TagInv(b)'
    BY <1>6, <1>e DEF TagInv
  <2>5. ListInv(b)'
    BY <1>6, <1>e DEF ListInv
  <2> QED
    BY <2>1, <2>2, <2>3, <2>4, <2>5
<1>7. ASSUME NEW u \in Threads PROVE HookInv(u)'
  BY <1>0, <1>7, <1>b DEF TypeOK, ControlInv, HookInv, AdvanceEpoch
<1> QED
  BY <1>2, <1>3, <1>4, <1>5, <1>6, <1>7 DEF IndInv

\* The tags are cleared.
LEMMA ClearTagsInv == ASSUME IndInv, ClearTags PROVE IndInv'
<1> USE LmcAssumption DEF heapVars, threadVars, ckptVars
<1>0. /\ TypeOK /\ ControlInv /\ LockInv /\ ModeInv
      /\ \A b \in Blocks : /\ MediumInv(b) /\ SafeInv(b) /\ ProgressInv(b)
                           /\ TagInv(b) /\ ListInv(b)
      /\ \A u \in Threads : HookInv(u)
  BY DEF IndInv
<1>a. tagmap' \in [Blocks -> Tags]
  BY DEF ClearTags, Tags
<1>b. /\ tagmap_pm' \in [Blocks -> (SUBSET Tags) \ {{}}]
      /\ working_pm' \in [Blocks -> (SUBSET Contents) \ {{}}]
  BY <1>0, <1>a, PutType, SettledType DEF TypeOK, ClearTags
<1>1. attributes' \in BOOLEAN /\ opening' \in BOOLEAN
  BY <1>0, Zenon DEF TypeOK, ClearTags, Put, Settled
<1>2. TypeOK'
  BY <1>0, <1>1, <1>a, <1>b DEF TypeOK, ClearTags
<1>3. ControlInv'
  BY <1>0 DEF TypeOK, ControlInv, ClearTags, Put, Settled
<1>4. LockInv'
  BY <1>0 DEF TypeOK, ControlInv, LockInv, Holds, Visits, ClearTags, Put, Settled
<1>5. ModeInv'
  BY <1>0 DEF TypeOK, ControlInv, ModeInv, Full, ClearTags, Put, Settled
<1>6. ASSUME NEW b \in Blocks
      PROVE  MediumInv(b)' /\ SafeInv(b)' /\ ProgressInv(b)' /\ TagInv(b)' /\ ListInv(b)'
  <2>1. MediumInv(b)'
    BY <1>0, <1>6 DEF TypeOK, ControlInv, MediumInv, ClearTags, Put, Settled
  <2>2. SafeInv(b)'
    BY <1>0, <1>6 DEF TypeOK, ControlInv, MediumInv, SafeInv, ProgressInv, Recoverable, ClearTags, Put, Settled
  <2>3. ProgressInv(b)'
    BY <1>0, <1>6 DEF TypeOK, ControlInv, MediumInv, SafeInv, ProgressInv, Recoverable, ClearTags, Put, Settled
  <2>4. TagInv(b)'
    BY <1>0, <1>6 DEF TypeOK, ControlInv, MediumInv, TagInv, Visits, ClearTags, Put, Settled
  <2>5. ListInv(b)'
    BY <1>0, <1>6 DEF TypeOK, ControlInv, ListInv, Listed, Full, ClearTags, Put, Settled
  <2> QED
    BY <2>1, <2>2, <2>3, <2>4, <2>5
<1>7. ASSUME NEW u \in Threads PROVE HookInv(u)'
  BY <1>0, <1>7 DEF TypeOK, ControlInv, HookInv, Visits, ClearTags, Put, Settled
<1> QED
  BY <1>2, <1>3, <1>4, <1>5, <1>6, <1>7 DEF IndInv

\* The first epoch again.
LEMMA WrapEpochInv == ASSUME IndInv, WrapEpoch PROVE IndInv'
<1> USE LmcAssumption DEF heapVars, threadVars, ckptVars
<1>0. /\ TypeOK /\ ControlInv /\ LockInv /\ ModeInv
      /\ \A b \in Blocks : /\ MediumInv(b) /\ SafeInv(b) /\ ProgressInv(b)
                           /\ TagInv(b) /\ ListInv(b)
      /\ \A u \in Threads : HookInv(u)
  BY DEF IndInv
<1>a. \A b \in Blocks : working_pm'[b] = {working[b]}
  BY <1>0 DEF TypeOK, ControlInv, ProgressInv, WrapEpoch, Committed, Settled
<1>b. /\ phase' = "finish" /\ working' = working /\ shadow' = shadow /\ shadow_pm' = shadow_pm
      /\ snap' = app /\ app' = app /\ opening' = opening /\ pc' = pc
      /\ range' = range /\ pending' = pending
  BY DEF WrapEpoch, Committed
<1>c. working_pm' \in [Blocks -> (SUBSET Contents) \ {{}}]
  BY <1>0, SettledType DEF TypeOK, WrapEpoch, Committed
<1>g. tagmap_pm' \in [Blocks -> (SUBSET Tags) \ {{}}]
  BY <1>0, SettledType DEF TypeOK, WrapEpoch
<1>d. /\ current_epoch' = 1 /\ current_epoch' \in Epochs
      /\ \A b \in Blocks : tagmap'[b] = 0 /\ tagmap_pm'[b] = {0}
  BY <1>0 DEF TypeOK, Epochs, ProgressInv, WrapEpoch, Settled
<1>e. \A b \in Blocks : current_epoch' \notin tagmap_pm'[b] /\ tagmap'[b] # current_epoch'
  BY <1>0, <1>d, SMT DEF TypeOK, MediumInv, Epochs, Tags, WrapEpoch, Settled
<1>f. \A b \in Blocks : working[b] = app[b]
  BY <1>0 DEF ProgressInv, WrapEpoch
<1>1. attributes' \in BOOLEAN /\ opening' \in BOOLEAN
  BY <1>0, Zenon DEF TypeOK, WrapEpoch, Committed, Settled
<1>2. TypeOK'
  BY <1>0, <1>1, <1>c, <1>d, <1>g DEF TypeOK, WrapEpoch, Committed
<1>3. ControlInv'
  BY <1>0 DEF TypeOK, ControlInv, WrapEpoch, Committed, Settled
<1>4. LockInv'
  BY <1>0 DEF TypeOK, ControlInv, LockInv, Holds, Visits, WrapEpoch, Committed, Settled
<1>5. ModeInv'
  BY <1>0 DEF TypeOK, ControlInv, ModeInv, Full, WrapEpoch, Committed, Settled
<1>6. ASSUME NEW b \in Blocks
      PROVE  MediumInv(b)' /\ SafeInv(b)' /\ ProgressInv(b)' /\ TagInv(b)' /\ ListInv(b)'
  <2>1. MediumInv(b)'
    BY <1>0, <1>6, <1>a, <1>b, <1>d, <1>e DEF TypeOK, MediumInv, Tags, WrapEpoch
  <2>2. SafeInv(b)'
    BY <1>0, <1>6, <1>a, <1>b, <1>e, <1>f DEF SafeInv, Recoverable
  <2>3. ProgressInv(b)'
    BY <1>6, <1>a, <1>b, <1>e, <1>f DEF ProgressInv
  <2>4. TagInv(b)'
    BY <1>6, <1>e DEF TagInv
  <2>5. ListInv(b)'
    BY <1>6, <1>e DEF ListInv
  <2> QED
    BY <2>1, <2>2, <2>3, <2>4, <2>5
<1>7. ASSUME NEW u \in Threads PROVE HookInv(u)'
  BY <1>0, <1>7, <1>b DEF TypeOK, ControlInv, HookInv, WrapEpoch
<1> QED
  BY <1>2, <1>3, <1>4, <1>5, <1>6, <1>7 DEF IndInv

\* The threads return.
LEMMA CheckpointFinishInv == ASSUME IndInv, CheckpointFinish PROVE IndInv'
<1> USE LmcAssumption DEF heapVars, threadVars, ckptVars
<1>0. /\ TypeOK /\ ControlInv /\ LockInv /\ ModeInv
      /\ \A b \in Blocks : /\ MediumInv(b) /\ SafeInv(b) /\ ProgressInv(b)
                           /\ TagInv(b) /\ ListInv(b)
      /\ \A u \in Threads : HookInv(u)
  BY DEF IndInv
<1>a. \A b \in Blocks : tagmap_pm[b] # {current_epoch} /\ tagmap[b] # current_epoch
  BY <1>0 DEF MediumInv, ProgressInv, CheckpointFinish
<1>1. attributes' \in BOOLEAN /\ opening' \in BOOLEAN
  BY <1>0, Zenon DEF TypeOK, CheckpointFinish, AllReturn
<1>2. TypeOK'
  BY <1>0, <1>1 DEF TypeOK, CheckpointFinish, AllReturn, Blocks, Epochs, Tags, Contents
<1>3. ControlInv'
  BY <1>0 DEF TypeOK, ControlInv, CheckpointFinish, AllReturn
<1>4. LockInv'
  BY <1>0 DEF TypeOK, ControlInv, LockInv, Holds, Visits, CheckpointFinish, AllReturn
<1>5. ModeInv'
  BY <1>0 DEF TypeOK, ControlInv, ModeInv, Full, CheckpointFinish, AllReturn
<1>6. ASSUME NEW b \in Blocks
      PROVE  MediumInv(b)' /\ SafeInv(b)' /\ ProgressInv(b)' /\ TagInv(b)' /\ ListInv(b)'
  <2>1. MediumInv(b)'
    BY <1>0, <1>6 DEF TypeOK, ControlInv, MediumInv, CheckpointFinish, AllReturn
  <2>2. SafeInv(b)'
    BY <1>0, <1>6 DEF TypeOK, ControlInv, MediumInv, SafeInv, ProgressInv, Recoverable, CheckpointFinish, AllReturn
  <2>3. ProgressInv(b)'
    BY <1>0, <1>6 DEF TypeOK, ControlInv, MediumInv, SafeInv, ProgressInv, Recoverable, CheckpointFinish, AllReturn
  <2>4. TagInv(b)'
    BY <1>6, <1>a DEF TagInv, CheckpointFinish
  <2>5. ListInv(b)'
    BY <1>6, <1>a DEF ListInv, CheckpointFinish
  <2> QED
    BY <2>1, <2>2, <2>3, <2>4, <2>5
<1>7. ASSUME NEW u \in Threads PROVE HookInv(u)'
  BY <1>0, <1>7 DEF TypeOK, ControlInv, HookInv, Visits, CheckpointFinish, AllReturn
<1> QED
  BY <1>2, <1>3, <1>4, <1>5, <1>6, <1>7 DEF IndInv

\* What the medium may hold is a state the recovery can start from.
LEMMA CrashInv == ASSUME IndInv, Crash PROVE IndInv'
<1> USE LmcAssumption DEF heapVars, threadVars, ckptVars
<1>0. /\ TypeOK /\ ControlInv /\ LockInv /\ ModeInv
      /\ \A b \in Blocks : /\ MediumInv(b) /\ SafeInv(b) /\ ProgressInv(b)
                           /\ TagInv(b) /\ ListInv(b)
      /\ \A u \in Threads : HookInv(u)
  BY DEF IndInv
<1>1. attributes' \in BOOLEAN /\ opening' \in BOOLEAN
  BY <1>0, Zenon DEF TypeOK, Crash, Resolve, Settled, RolledBack
<1>2. TypeOK'
  BY <1>0, <1>1 DEF TypeOK, Crash, Resolve, Settled, RolledBack, Blocks, Epochs, Tags, Contents
<1>3. ControlInv'
  BY <1>0 DEF TypeOK, ControlInv, Crash, Resolve, Settled, RolledBack
<1>4. LockInv'
  BY <1>0 DEF TypeOK, ControlInv, LockInv, Holds, Visits, Crash, Resolve, Settled, RolledBack
<1>5. ModeInv'
  BY <1>0 DEF TypeOK, ControlInv, ModeInv, Full, Crash, Resolve, Settled, RolledBack
<1>6. ASSUME NEW b \in Blocks
      PROVE  MediumInv(b)' /\ SafeInv(b)' /\ ProgressInv(b)' /\ TagInv(b)' /\ ListInv(b)'
  <2>1. MediumInv(b)'
    BY <1>0, <1>6 DEF TypeOK, ControlInv, MediumInv, Crash, Resolve, Settled, RolledBack
  <2>2. SafeInv(b)'
    BY <1>0, <1>6 DEF TypeOK, ControlInv, MediumInv, SafeInv, ProgressInv, Recoverable, Crash, Resolve, Settled, RolledBack
  <2>3. ProgressInv(b)'
    BY <1>0, <1>6 DEF TypeOK, ControlInv, MediumInv, SafeInv, ProgressInv, Recoverable, Crash, Resolve, Settled, RolledBack
  <2>4. TagInv(b)'
    BY <1>0, <1>6 DEF TypeOK, ControlInv, MediumInv, TagInv, Visits, Crash, Resolve, Settled, RolledBack
  <2>5. ListInv(b)'
    BY <1>0, <1>6 DEF TypeOK, ControlInv, ListInv, Listed, Full, Crash, Resolve, Settled, RolledBack
  <2> QED
    BY <2>1, <2>2, <2>3, <2>4, <2>5
<1>7. ASSUME NEW u \in Threads PROVE HookInv(u)'
  BY <1>0, <1>7 DEF TypeOK, ControlInv, HookInv, Visits, Crash, Resolve, Settled, RolledBack
<1> QED
  BY <1>2, <1>3, <1>4, <1>5, <1>6, <1>7 DEF IndInv

\* The tagged blocks are rolled back to the snapshot.
LEMMA RecoverCopyInv == ASSUME IndInv, RecoverCopy PROVE IndInv'
<1> USE LmcAssumption DEF heapVars, threadVars, ckptVars
<1>0. /\ TypeOK /\ ControlInv /\ LockInv /\ ModeInv
      /\ \A b \in Blocks : /\ MediumInv(b) /\ SafeInv(b) /\ ProgressInv(b)
                           /\ TagInv(b) /\ ListInv(b)
      /\ \A u \in Threads : HookInv(u)
  BY DEF IndInv
<1>a. working' \in [Blocks -> Contents]
  BY <1>0 DEF TypeOK, RecoverCopy, RolledBack
<1>b. working_pm' \in [Blocks -> (SUBSET Contents) \ {{}}]
  BY <1>0, <1>a DEF TypeOK, RecoverCopy, Put
<1>1. attributes' \in BOOLEAN /\ opening' \in BOOLEAN
  BY <1>0, Zenon DEF TypeOK, RecoverCopy, RolledBack, Put
<1>2. TypeOK'
  BY <1>0, <1>1, <1>a, <1>b DEF TypeOK, RecoverCopy
<1>3. ControlInv'
  BY <1>0 DEF TypeOK, ControlInv, RecoverCopy, RolledBack, Put
<1>4. LockInv'
  BY <1>0 DEF TypeOK, ControlInv, LockInv, Holds, Visits, RecoverCopy, RolledBack, Put
<1>5. ModeInv'
  BY <1>0 DEF TypeOK, ControlInv, ModeInv, Full, RecoverCopy, RolledBack, Put
<1>6. ASSUME NEW b \in Blocks
      PROVE  MediumInv(b)' /\ SafeInv(b)' /\ ProgressInv(b)' /\ TagInv(b)' /\ ListInv(b)'
  <2>1. MediumInv(b)'
    BY <1>0, <1>6 DEF TypeOK, ControlInv, MediumInv, RecoverCopy, RolledBack, Put
  <2>2. SafeInv(b)'
    BY <1>0, <1>6 DEF TypeOK, ControlInv, MediumInv, SafeInv, ProgressInv, Recoverable, RecoverCopy, RolledBack, Put
  <2>3. ProgressInv(b)'
    BY <1>0, <1>6 DEF TypeOK, ControlInv, MediumInv, SafeInv, ProgressInv, Recoverable, RecoverCopy, RolledBack, Put
  <2>4. TagInv(b)'
    BY <1>0, <1>6 DEF TypeOK, ControlInv, MediumInv, TagInv, Visits, RecoverCopy, RolledBack, Put
  <2>5. ListInv(b)'
    BY <1>0, <1>6 DEF TypeOK, ControlInv, ListInv, Listed, Full, RecoverCopy, RolledBack, Put
  <2> QED
    BY <2>1, <2>2, <2>3, <2>4, <2>5
<1>7. ASSUME NEW u \in Threads PROVE HookInv(u)'
  BY <1>0, <1>7 DEF TypeOK, ControlInv, HookInv, Visits, RecoverCopy, RolledBack, Put
<1> QED
  BY <1>2, <1>3, <1>4, <1>5, <1>6, <1>7 DEF IndInv

\* Open returns.
LEMMA OpenDoneInv == ASSUME IndInv, OpenDone PROVE IndInv'
<1> USE LmcAssumption DEF heapVars, threadVars, ckptVars
<1>0. /\ TypeOK /\ ControlInv /\ LockInv /\ ModeInv
      /\ \A b \in Blocks : /\ MediumInv(b) /\ SafeInv(b) /\ ProgressInv(b)
                           /\ TagInv(b) /\ ListInv(b)
      /\ \A u \in Threads : HookInv(u)
  BY DEF IndInv
<1>a. \A b \in Blocks : tagmap_pm[b] # {current_epoch} /\ tagmap[b] # current_epoch
  BY <1>0 DEF MediumInv, ProgressInv, OpenDone
<1>1. attributes' \in BOOLEAN /\ opening' \in BOOLEAN
  BY <1>0, Zenon DEF TypeOK, OpenDone
<1>2. TypeOK'
  BY <1>0, <1>1 DEF TypeOK, OpenDone, Blocks, Epochs, Tags, Contents
<1>3. ControlInv'
  BY <1>0 DEF TypeOK, ControlInv, OpenDone
<1>4. LockInv'
  BY <1>0 DEF TypeOK, ControlInv, LockInv, Holds, Visits, OpenDone
<1>5. ModeInv'
  BY <1>0 DEF TypeOK, ControlInv, ModeInv, Full, OpenDone
<1>6. ASSUME NEW b \in Blocks
      PROVE  MediumInv(b)' /\ SafeInv(b)' /\ ProgressInv(b)' /\ TagInv(b)' /\ ListInv(b)'
  <2>1. MediumInv(b)'
    BY <1>0, <1>6 DEF TypeOK, ControlInv, MediumInv, OpenDone
  <2>2. SafeInv(b)'
    BY <1>0, <1>6 DEF TypeOK, ControlInv, MediumInv, SafeInv, ProgressInv, Recoverable, OpenDone
  <2>3. ProgressInv(b)'
    BY <1>0, <1>6 DEF TypeOK, ControlInv, MediumInv, SafeInv, ProgressInv, Recoverable, OpenDone
  <2>4. TagInv(b)'
    BY <1>6, <1>a DEF TagInv, OpenDone
  <2>5. ListInv(b)'
    BY <1>6, <1>a DEF ListInv, OpenDone
  <2> QED
    BY <2>1, <2>2, <2>3, <2>4, <2>5
<1>7. ASSUME NEW u \in Threads PROVE HookInv(u)'
  BY <1>0, <1>7 DEF TypeOK, ControlInv, HookInv, Visits, OpenDone
<1> QED
  BY <1>2, <1>3, <1>4, <1>5, <1>6, <1>7 DEF IndInv

-----------------------------------------------------------------------------
\* Every step keeps the invariant.
LEMMA NextInv == IndInv /\ [Next]_vars => IndInv'
<1> SUFFICES ASSUME IndInv, [Next]_vars PROVE IndInv'
  OBVIOUS
<1>1. CASE UNCHANGED vars
  <2> USE <1>1 DEF vars, heapVars, threadVars, ckptVars
  <2>1. TypeOK'
    BY DEF IndInv, TypeOK
  <2>2. ControlInv' /\ LockInv' /\ ModeInv'
    BY DEF IndInv, ControlInv, LockInv, ModeInv, Holds, Visits, Full
  <2>3. ASSUME NEW b \in Blocks
        PROVE  MediumInv(b)' /\ SafeInv(b)' /\ ProgressInv(b)' /\ TagInv(b)' /\ ListInv(b)'
    BY <2>3 DEF IndInv, MediumInv, SafeInv, ProgressInv, TagInv, ListInv, Recoverable,
                Visits, Full, Listed
  <2>4. ASSUME NEW t \in Threads PROVE HookInv(t)'
    BY <2>4 DEF IndInv, HookInv, Visits
  <2> QED
    BY <2>1, <2>2, <2>3, <2>4 DEF IndInv
<1>2. CASE Next
  BY <1>2, BeginStoreInv, HookTaggedInv, HookCopyInv, HookTagInv, HookDoneInv,
     FinishStoreInv, CheckpointEnterInv, CheckpointBeginInv, FlushParallelInv,
     SetAttributesInv, AdvanceEpochInv, ClearTagsInv, WrapEpochInv, CheckpointFinishInv,
     CrashInv, RecoverCopyInv, OpenDoneInv
  DEF Next, Hook, Advance
<1> QED
  BY <1>1, <1>2

\* The inductive invariant holds in every state.
LEMMA Inductive == Spec => []IndInv
BY InitInv, NextInv, PTL DEF Spec

\* Type correctness: no epoch, tag or lock leaves its range, and what loads see
\* and what the medium may hold are contents of blocks.
THEOREM TypeCorrect == Spec => []TypeOK
<1>1. IndInv => TypeOK
  BY DEF IndInv
<1> QED
  BY <1>1, Inductive, PTL

\* Crash consistency: whenever the process dies, other than while a checkpoint in
\* the last epoch clears the tags, recover restores the last checkpoint.
THEOREM CrashConsistent == Spec => []SafeOutsideWrap
<1>1. IndInv => SafeOutsideWrap
  BY DEF IndInv, SafeInv, SafeOutsideWrap, RecoverySafe
<1> QED
  BY <1>1, Inductive, PTL

\* No tag is ahead of the epoch, and a tag of the epoch stands for a copy made in
\* it: across overflows of the epoch, and crashes at any step of one.
THEOREM TagsNeverStale == Spec => []NoStaleTag
<1>1. IndInv => NoStaleTag
  BY DEF IndInv, MediumInv, SafeInv, Recoverable, NoStaleTag
<1> QED
  BY <1>1, Inductive, PTL

\* What a checkpoint that returns has left durable: by the step it returns with,
\* also the one that finds nothing listed and skips the epoch.
THEOREM CheckpointReturnsDurable == Spec => CheckpointDurable
<1> DEFINE Durable ==
      (\E t \in Threads : pc[t] = "ckpt" /\ pc'[t] = "app" /\ phase' = "run") => snap' = app
<1>1. ASSUME IndInv, [Next]_vars PROVE [Durable]_vars
  <2> SUFFICES ASSUME Next, NEW t \in Threads, pc[t] = "ckpt", pc'[t] = "app", phase' = "run"
               PROVE  snap' = app
    BY <1>1
  <2>0. /\ TypeOK /\ ControlInv
        /\ \A b \in Blocks : MediumInv(b) /\ SafeInv(b) /\ ProgressInv(b) /\ ListInv(b)
    BY <1>1 DEF IndInv
  <2>1. CASE CheckpointFinish
    <3>1. \A b \in Blocks : snap[b] = app[b]
      BY <2>0, <2>1 DEF ProgressInv, CheckpointFinish
    <3> QED
      BY <2>0, <2>1, <3>1 DEF TypeOK, CheckpointFinish
  <2>2. CASE CheckpointBegin
    <3>1. Mode = "NO_ACTION" /\ phase = "run" /\ snap' = snap
      BY <2>2, SMT DEF CheckpointBegin
    <3>2. \A u \in Threads : flush_blocks[u] = {}
      BY <3>1 DEF Mode
    <3>3. Listed = {} /\ ~Full
      BY <3>2, LmcAssumption, FS_EmptySet DEF Listed, Full
    <3>4. ASSUME NEW b \in Blocks PROVE snap[b] = app[b]
      <4>1. PICK tag \in tagmap_pm[b] : tag # current_epoch
        BY <2>0, <3>1, <3>3, <3>4 DEF TypeOK, ControlInv, ListInv
      <4> QED
        BY <2>0, <3>1, <3>4, <4>1 DEF MediumInv, SafeInv, Recoverable, ProgressInv
    <3> QED
      BY <2>0, <3>1, <3>4 DEF TypeOK
  <2>3. ~Crash /\ ~RecoverCopy /\ ~FlushParallel /\ ~SetAttributes /\ ~Advance
    BY DEF Crash, RecoverCopy, FlushParallel, SetAttributes, Advance, AdvanceEpoch,
           ClearTags, WrapEpoch, Committed
  <2>4. ~OpenDone
    BY DEF OpenDone, threadVars
  <2>5. ASSUME NEW u \in Threads, BeginStore(u) \/ Hook(u) \/ FinishStore(u) \/ CheckpointEnter(u)
        PROVE  FALSE
    BY <2>0, <2>5 DEF TypeOK, BeginStore, Hook, HookTagged, HookCopy, HookTag, HookDone,
                      FinishStore, CheckpointEnter, Goto
  <2> QED
    BY <2>1, <2>2, <2>3, <2>4, <2>5 DEF Next
<1>2. Spec => [][Durable]_vars
  BY <1>1, Inductive, PTL DEF Spec
<1> QED
  BY <1>2 DEF CheckpointDurable
=============================================================================
