----------------------------- MODULE PageEngine -----------------------------
(***************************************************************************)
(* The two engines that find dirty memory by pages: MProtectEngine (write  *)
(* protection and a fault handler) and DirtyBitEngine (the soft-dirty bits *)
(* of the kernel), with the image of metadata.cpp both use: a main and a   *)
(* back copy of the pool and one word, consistent_data, that says which of *)
(* them recovery may trust.  The threads are the threads of one process    *)
(* (checkpoint) or are spread over the processes of an MPI program, each   *)
(* with its own pool (checkpoint_for_mpi).  In the MPI build the memory of *)
(* DirtyBitEngine is in DRAM.                                              *)
(***************************************************************************)
EXTENDS Naturals, FiniteSets, PersistentMemory

CONSTANTS nr_regions,        \* regions (pages) of a pool
          kMaxFlushRegions,  \* what the list of a thread may hold
          kBitWidth,         \* bits in a word of region_dirty
          Engines,           \* subset of {"mprotect", "dirtybit"}
          nr_threads,
          Teams,             \* functions from threads to processes
          Touched(_, _),     \* bound: the regions a thread of a team stores to
          Values,            \* what the application stores in a region
          Junk,              \* content of a region nobody stored to
          Null               \* no region

Regions  == 0 .. (nr_regions - 1)
Threads  == 0 .. (nr_threads - 1)
Ranks    == Threads             \* at most one process per thread
Contents == Values \cup {Junk}

ASSUME PageAssumption ==
  /\ nr_regions \in Nat \ {0}
  /\ kMaxFlushRegions \in Nat \ {0}
  /\ kBitWidth \in Nat \ {0}
  /\ nr_threads \in Nat \ {0}
  /\ Engines \subseteq {"mprotect", "dirtybit"}
  /\ Teams \subseteq [Threads -> Ranks]
  /\ \A T \in Teams : \E t \in Threads : T[t] = 0
  /\ \A T \in Teams, t \in Threads : Touched(T, t) \subseteq Regions
  /\ Junk \notin Values
  /\ Null \notin Nat

VARIABLES
  engine, team,            \* chosen once
  main, main_pm,           \* main copy of each process (PersistentMemory)
  back, back_pm,           \* back copy
  consistent_data,         \* "Main" or "Back"
  consistent_data_pm,      \* ... what the medium may hold of it
  attributes,              \* kAttributeHasSnapshot is set
  work,                    \* DRAM of DirtyBitEngine in the MPI build
  dirty,                   \* region_dirty, or the soft-dirty bits
  writable,                \* regions without write protection
  flush_regions,           \* list of each thread
  faulting,                \* the region a thread's handler works on
  flush_mode, pte_buffer,  \* of a checkpoint
  phase, pc,               \* where the processes and the threads are
  clearing,                \* words of region_dirty a thread goes on to clear
  snap,                    \* history: the memories at the last commit,
  broken                   \* and what made the engine lose them

imageVars == <<main, main_pm, back, back_pm, consistent_data, consistent_data_pm>>
trackVars == <<dirty, writable, flush_regions, faulting>>
ckptVars  == <<flush_mode, pte_buffer, phase, pc, clearing>>
histVars  == <<snap, broken>>
vars == <<engine, team, imageVars, attributes, work, trackVars, ckptVars, histVars>>

Members(r) == {t \in Threads : team[t] = r}
Procs      == {team[t] : t \in Threads}
mpi        == Procs # {0}
Tid(t)     == Cardinality({u \in Members(team[t]) : u < t})
Leader(r)  == CHOOSE t \in Members(r) : Tid(t) = 0
Hybrid     == engine = "dirtybit" /\ mpi
Memory(r)  == IF Hybrid THEN work[r] ELSE main[r]

Set(f, r, v) == [f EXCEPT ![r] = v]

\* Bound: an engine that has lost the checkpoint is not followed further.
Followed == broken = {}

-----------------------------------------------------------------------------
\* Every process has created its pool: MetadataV1::Open with create.
Init ==
  /\ engine \in Engines
  /\ team \in Teams
  /\ main = [r \in Ranks |-> [g \in Regions |-> Junk]]
  /\ main_pm = [r \in Ranks |-> [g \in Regions |-> {Junk}]]
  /\ back = main
  /\ back_pm = main_pm
  /\ consistent_data = [r \in Ranks |-> "Back"]
  /\ consistent_data_pm = [r \in Ranks |-> {"Back"}]
  /\ attributes = [r \in Ranks |-> FALSE]
  /\ work = main
  /\ dirty = [r \in Ranks |-> {}]
  /\ writable = [r \in Ranks |-> {}]
  /\ flush_regions = [t \in Threads |-> {}]
  /\ faulting = [t \in Threads |-> Null]
  /\ flush_mode = [r \in Ranks |-> "NO_ACTION"]
  /\ pte_buffer = [r \in Ranks |-> {}]
  /\ phase = [r \in Ranks |-> "run"]
  /\ pc = [t \in Threads |-> "app"]
  /\ clearing = [t \in Threads |-> {}]
  /\ snap = main
  /\ broken = {}

-----------------------------------------------------------------------------
(* The application.                                                        *)

\* A store that is not trapped; the kernel sets the soft-dirty bit.
Store(t) ==
  LET r == team[t]
  IN /\ phase[r] = "run" /\ pc[t] = "app" /\ Followed
     /\ \E g \in Touched(team, t), v \in Values :
          /\ engine = "mprotect" => g \in writable[r]
          /\ \/ /\ Hybrid
                /\ work' = [work EXCEPT ![r][g] = v]
                /\ UNCHANGED <<main, main_pm>>
             \/ /\ ~Hybrid
                /\ main' = [main EXCEPT ![r][g] = v]
                /\ main_pm' = [main_pm EXCEPT ![r][g] = @ \cup {v}]
                /\ UNCHANGED work
          /\ dirty' = IF engine = "dirtybit" THEN [dirty EXCEPT ![r] = @ \cup {g}] ELSE dirty
     /\ UNCHANGED <<engine, team, back, back_pm, consistent_data, consistent_data_pm,
                    attributes, writable, flush_regions, faulting, ckptVars, histVars>>

\* A store to a protected region traps; several threads may trap on one.
Fault(t) ==
  LET r == team[t]
  IN /\ engine = "mprotect" /\ phase[r] = "run" /\ pc[t] = "app" /\ Followed
     /\ \E g \in Touched(team, t) \ writable[r] : faulting' = Set(faulting, t, g)
     /\ pc' = Set(pc, t, "trap")
     /\ UNCHANGED <<engine, team, imageVars, attributes, work, dirty, writable,
                    flush_regions, flush_mode, pte_buffer, phase, clearing, histVars>>

\* sigfault_handler: the bit, the protection,
Handle(t) ==
  LET r == team[t]
  IN /\ pc[t] = "trap"
     /\ dirty' = [dirty EXCEPT ![r] = @ \cup {faulting[t]}]
     /\ writable' = [writable EXCEPT ![r] = @ \cup {faulting[t]}]
     /\ pc' = Set(pc, t, "list")
     /\ UNCHANGED <<engine, team, imageVars, attributes, work, flush_regions, faulting,
                    flush_mode, pte_buffer, phase, clearing, histVars>>

HasRoom(t) == Cardinality(flush_regions[t]) # kMaxFlushRegions

\* ... and the list, while it has room.
List(t) ==
  /\ pc[t] = "list"
  /\ flush_regions' = IF HasRoom(t)
                      THEN [flush_regions EXCEPT ![t] = @ \cup {faulting[t]}]
                      ELSE flush_regions
  /\ faulting' = Set(faulting, t, Null)
  /\ pc' = Set(pc, t, "app")
  /\ UNCHANGED <<engine, team, imageVars, attributes, work, dirty, writable,
                 flush_mode, pte_buffer, phase, clearing, histVars>>

\* Another pool of the process resets the soft-dirty bits, which are those of
\* the whole process.
OtherPoolReset(r) ==
  /\ engine = "dirtybit" /\ r \in Procs /\ phase[r] = "run" /\ Followed
  /\ dirty' = Set(dirty, r, {})
  /\ broken' = IF dirty[r] # {} THEN {"reset"} ELSE broken
  /\ UNCHANGED <<engine, team, imageVars, attributes, work, writable, flush_regions,
                 faulting, ckptVars, snap>>

-----------------------------------------------------------------------------
(* checkpoint and checkpoint_for_mpi.                                      *)

Listed(r) == UNION {flush_regions[t] : t \in Members(r)}

\* The mode the leader chooses; only checkpoint returns when there is nothing
\* to do.
Mode(r) ==
  CASE engine = "mprotect" /\ ~mpi /\ Listed(r) = {} -> "NO_ACTION"
    [] engine = "dirtybit" \/ \E t \in Members(r) :
         Cardinality(flush_regions[t]) = kMaxFlushRegions -> "WBINVD"
    [] OTHER -> "USE_FLUSH_BLOCKS"

\* What flush_parallel writes back from the caches by lists.
Flushed(r) == Listed(r)

\* read_page_map
PageMap(r) == IF engine = "dirtybit" THEN dirty[r] ELSE {}

\* apply_dram_to_nvm
Applied(r) == IF Hybrid THEN Write(main[r], PageMap(r), work[r]) ELSE main[r]

\* The threads of a process have called checkpoint (one that waits stores
\* nothing): the memory is flushed, or copied from DRAM, and fenced.  Copies
\* of the recovery are fenced here too.
CheckpointBegin(r) ==
  /\ r \in Procs /\ phase[r] = "run" /\ \A t \in Members(r) : pc[t] = "app"
  /\ flush_mode' = Set(flush_mode, r, Mode(r))
  /\ \/ /\ Mode(r) = "NO_ACTION"
        /\ UNCHANGED <<phase, pte_buffer, main, main_pm>>
     \/ /\ Mode(r) # "NO_ACTION"
        /\ phase' = Set(phase, r, "flushed")
        /\ pte_buffer' = Set(pte_buffer, r, PageMap(r))
        /\ main' = Set(main, r, Applied(r))
        /\ main_pm' = Set(main_pm, r, Settle(main_pm[r],
              IF Mode(r) = "WBINVD" THEN Regions ELSE Flushed(r) \cup (Regions \ writable[r]),
              main'[r]))
  /\ UNCHANGED <<engine, team, back, back_pm, consistent_data, consistent_data_pm,
                 attributes, work, trackVars, pc, clearing, histVars>>

\* MPI_Barrier: every process has come to it.
MPI_Barrier(S) == \A q \in Procs : phase[q] \in S

\* set_consistent_data(kMainData) in the leader.  The flag of process 0 is the
\* one that counts after a crash.
SetMain(r) ==
  /\ r \in Procs /\ phase[r] = "flushed"
  /\ MPI_Barrier({"flushed", "main"})
  /\ consistent_data' = Set(consistent_data, r, "Main")
  /\ consistent_data_pm' = Set(consistent_data_pm, r, {"Main"})
  /\ snap' = IF r = 0 THEN [q \in Ranks |-> Memory(q)] ELSE snap
  /\ phase' = Set(phase, r, "main")
  /\ UNCHANGED <<engine, team, main, main_pm, back, back_pm, attributes, work, trackVars,
                 flush_mode, pte_buffer, pc, clearing, broken>>

\* Regions write_back_parallel copies.
ToCopy(r) == CASE engine = "dirtybit" -> pte_buffer[r]
               [] engine = "mprotect" /\ flush_mode[r] = "WBINVD" -> dirty[r]
               [] OTHER -> Listed(r)

\* Mutant: the regions stay writable.
StillWritable(r) == writable[r]

\* Regions that are writable after protect_regions.
Unprotected(r) == {}

\* The leader protects the regions; then all threads copy to the back.
WriteBack(r) ==
  /\ r \in Procs /\ phase[r] = "main"
  /\ MPI_Barrier({"main", "copy", "clear"})
  /\ writable' = Set(writable, r, Unprotected(r))
  /\ back' = Set(back, r, Write(back[r], ToCopy(r), main[r]))
  /\ back_pm' = Set(back_pm, r, Put(back_pm[r], ToCopy(r), main[r]))
  /\ phase' = Set(phase, r, "copy")
  /\ UNCHANGED <<engine, team, main, main_pm, consistent_data, consistent_data_pm,
                 attributes, work, dirty, flush_regions, faulting, flush_mode,
                 pte_buffer, pc, clearing, histVars>>

\* Words of region_dirty thread t clears.
Words(t) ==
  LET words == {g \div kBitWidth : g \in Regions}
  IN CASE engine = "dirtybit" -> {}
       [] engine = "mprotect" /\ flush_mode[team[t]] = "WBINVD" ->
            {w \in words : w % Cardinality(Members(team[t])) = Tid(t)}
       [] OTHER -> {g \div kBitWidth : g \in flush_regions[t]}

\* Mutant: the copies are not fenced.
Unfenced(r) == back_pm

\* What the fence at the end of write_back_parallel makes certain.
Fenced(r) == Set(back_pm, r, Settled(back[r]))

\* Fence and barrier of the threads.
EndCopy(r) ==
  /\ r \in Procs /\ phase[r] = "copy"
  /\ back_pm' = Fenced(r)
  /\ phase' = Set(phase, r, "clear")
  /\ pc' = [t \in Threads |-> IF t \in Members(r) THEN "clear" ELSE pc[t]]
  /\ clearing' = [t \in Threads |-> IF t \in Members(r) THEN Words(t) ELSE clearing[t]]
  /\ UNCHANGED <<engine, team, main, main_pm, back, consistent_data, consistent_data_pm,
                 attributes, work, trackVars, flush_mode, pte_buffer, histVars>>

\* clear_dirty_bits_parallel.  No barrier follows: a slow thread may do this
\* after the leader has ended the checkpoint and the others have returned.  Then
\* it may have read the lengths of its lists before, or find them empty or filled
\* again; a list belongs to a number that threads get anew in each checkpoint.
Clear(t) ==
  LET r    == team[t]
      late == phase[r] # "clear" /\ phase[r] # "back"
      now  == {g \div kBitWidth : g \in Listed(r)}
  IN /\ pc[t] = "clear"
     /\ \E C \in IF late /\ engine = "mprotect" THEN SUBSET (clearing[t] \cup now) ELSE {clearing[t]} :
          LET lost == {g \in dirty[r] : g \div kBitWidth \in C}
          IN /\ dirty' = [dirty EXCEPT ![r] = @ \ lost]
             /\ broken' = IF late /\ lost \cap writable[r] # {} THEN {"overtaken"} ELSE broken
     /\ clearing' = Set(clearing, t, {})
     /\ pc' = Set(pc, t, IF late THEN "app" ELSE "wait")
     /\ UNCHANGED <<engine, team, imageVars, attributes, work, writable, flush_regions,
                    faulting, flush_mode, pte_buffer, phase, snap>>

\* The leader has cleared its words and waits for the other processes.
Ready(q) == phase[q] \in {"clear", "back"} /\ pc[Leader(q)] = "wait"

\* set_consistent_data(kBackData)
SetBack(r) ==
  /\ r \in Procs /\ phase[r] = "clear" /\ \A q \in Procs : Ready(q)
  /\ consistent_data' = Set(consistent_data, r, "Back")
  /\ consistent_data_pm' = Set(consistent_data_pm, r, {"Back"})
  /\ phase' = Set(phase, r, "back")
  /\ UNCHANGED <<engine, team, main, main_pm, back, back_pm, attributes, work, trackVars,
                 flush_mode, pte_buffer, pc, clearing, histVars>>

\* Mutant: only the first process remembers that there is a snapshot.
FirstOnly(r) == r = 0

HasSnapshot(r) == TRUE

\* The leader empties the lists (or resets the soft-dirty bits), sets the
\* attribute and lets the threads go.
CheckpointEnd(r) ==
  /\ r \in Procs /\ phase[r] = "back"
  /\ MPI_Barrier({"back", "run", "flushed"})
  /\ flush_regions' = [t \in Threads |-> IF t \in Members(r) THEN {} ELSE flush_regions[t]]
  /\ dirty' = IF engine = "dirtybit" THEN Set(dirty, r, {}) ELSE dirty
  /\ attributes' = Set(attributes, r, HasSnapshot(r))
  /\ pc' = [t \in Threads |-> IF t \in Members(r) /\ pc[t] = "wait" THEN "app" ELSE pc[t]]
  /\ phase' = Set(phase, r, "run")
  /\ pte_buffer' = Set(pte_buffer, r, {})
  /\ UNCHANGED <<engine, team, imageVars, work, writable, faulting, flush_mode, clearing,
                 histVars>>

-----------------------------------------------------------------------------
(* Crash and recovery.                                                     *)

\* The process copies main to back, or is going to.
RecoversFromMain(r) == phase[r] \in {"recover", "copying"} /\ consistent_data[r] = "Main"

\* It does so although process 0 may already be told to trust the back copies,
\* or another process is ahead and may have changed its main copy.
Exposed == \E r \in Procs : RecoversFromMain(r) /\
             \/ "Back" \in consistent_data_pm[0]
             \/ \E q \in Procs : phase[q] \notin {"recover", "copying"}

\* What the media of all processes may be found to hold.
ResolveAll(pm, S) == {f \in [Procs -> UNION {Resolve(pm[r], S) : r \in Procs}] :
                        \A r \in Procs : f[r] \in Resolve(pm[r], S)}

\* The machine fails, with all processes.
Crash ==
  /\ Followed
  /\ \E m \in ResolveAll(main_pm, Contents), k \in ResolveAll(back_pm, Contents),
        c \in Resolve(consistent_data_pm, {"Main", "Back"}) :
       /\ main' = [r \in Ranks |-> IF r \in Procs THEN m[r] ELSE main[r]]
       /\ back' = [r \in Ranks |-> IF r \in Procs THEN k[r] ELSE back[r]]
       /\ consistent_data' = c
  /\ main_pm' = [r \in Ranks |-> Settled(main'[r])]
  /\ back_pm' = [r \in Ranks |-> Settled(back'[r])]
  /\ consistent_data_pm' = [r \in Ranks |-> {consistent_data'[r]}]
  /\ work' = [r \in Ranks |-> [g \in Regions |-> Junk]]
  /\ dirty' = [r \in Ranks |-> {}]
  /\ writable' = [r \in Ranks |-> {}]
  /\ flush_regions' = [t \in Threads |-> {}]
  /\ faulting' = [t \in Threads |-> Null]
  /\ flush_mode' = [r \in Ranks |-> "NO_ACTION"]
  /\ pte_buffer' = [r \in Ranks |-> {}]
  /\ phase' = [r \in Ranks |-> "open"]
  /\ pc' = [t \in Threads |-> "app"]
  /\ clearing' = [t \in Threads |-> {}]
  /\ broken' = broken
       \cup (IF Exposed /\ \E r \in Procs, g \in Regions : snap[r][g] # Junk /\
                   (IF consistent_data'[0] = "Main" THEN main' ELSE back')[r][g] # snap[r][g]
             THEN {"recovery"} ELSE {})
       \cup (IF \E q, r \in Procs : phase[q] = "back" /\ attributes[q] # attributes[r] THEN {"attribute"} ELSE {})
  /\ UNCHANGED <<engine, team, attributes, snap>>

\* The flag MPI_Bcast brings from process 0.
Agreed(r) == consistent_data[0]

\* All processes have opened their pools and store the flag of process 0.
OpenPools ==
  /\ \A r \in Procs : phase[r] = "open"
  /\ consistent_data' = [r \in Ranks |-> IF r \in Procs THEN Agreed(r) ELSE "Back"]
  /\ consistent_data_pm' = [r \in Ranks |-> {consistent_data'[r]}]
  /\ phase' = [r \in Ranks |-> "recover"]
  /\ UNCHANGED <<engine, team, main, main_pm, back, back_pm, attributes, work, trackVars,
                 flush_mode, pte_buffer, pc, clearing, histVars>>

FromMain(r) == consistent_data[r] = "Main"

\* Mutant: the main copy is taken as it is.
NotRestored(r) == main[r]

\* What the main copy becomes otherwise.
Restored(r) == back[r]

\* recover_data: one copy over the other, and for the back copy the flag, with
\* no fence in between.
RecoverCopy(r) ==
  /\ r \in Procs /\ phase[r] = "recover"
  /\ \/ /\ FromMain(r)
        /\ back' = Set(back, r, main[r])
        /\ back_pm' = Set(back_pm, r, Put(back_pm[r], Regions, main[r]))
        /\ consistent_data_pm' = [consistent_data_pm EXCEPT ![r] = @ \cup {"Back"}]
        /\ UNCHANGED <<main, main_pm>>
     \/ /\ ~FromMain(r)
        /\ main' = Set(main, r, Restored(r))
        /\ main_pm' = Set(main_pm, r, Put(main_pm[r], Regions, Restored(r)))
        /\ UNCHANGED <<back, back_pm, consistent_data_pm>>
  /\ phase' = Set(phase, r, "copying")
  /\ UNCHANGED <<engine, team, consistent_data, attributes, work, trackVars, flush_mode,
                 pte_buffer, pc, clearing, histVars>>

\* prepare_working_memory
Prepared(r) == IF Hybrid THEN main[r] ELSE work[r]

\* The fence of set_consistent_data, if it was called; the working memory is
\* prepared, and Open returns.
OpenDone(r) ==
  /\ r \in Procs /\ phase[r] = "copying"
  /\ consistent_data' = Set(consistent_data, r, "Back")
  /\ consistent_data_pm' = Set(consistent_data_pm, r, {"Back"})
  /\ back_pm' = Set(back_pm, r, Settled(back[r]))
  /\ work' = Set(work, r, Prepared(r))
  /\ phase' = Set(phase, r, "run")
  /\ UNCHANGED <<engine, team, main, main_pm, back, attributes, trackVars, flush_mode,
                 pte_buffer, pc, clearing, histVars>>

-----------------------------------------------------------------------------
Thread == \E t \in Threads : \/ Store(t) \/ Fault(t) \/ Handle(t) \/ List(t) \/ Clear(t)

Checkpoint == \E r \in Ranks : \/ CheckpointBegin(r) \/ SetMain(r) \/ WriteBack(r)
                               \/ EndCopy(r) \/ SetBack(r) \/ CheckpointEnd(r)

Recovery == OpenPools \/ \E r \in Ranks : RecoverCopy(r) \/ OpenDone(r)

Next == Thread \/ Checkpoint \/ Recovery \/ Crash \/ \E r \in Ranks : OtherPoolReset(r)

Spec == Init /\ [][Next]_vars

-----------------------------------------------------------------------------
(* Properties.                                                             *)

\* The variables have the types of the fields and locals they model.
TypeOK ==
  /\ engine \in Engines /\ team \in Teams
  /\ main \in [Ranks -> [Regions -> Contents]]
  /\ back \in [Ranks -> [Regions -> Contents]]
  /\ main_pm \in [Ranks -> [Regions -> (SUBSET Contents) \ {{}}]]
  /\ back_pm \in [Ranks -> [Regions -> (SUBSET Contents) \ {{}}]]
  /\ consistent_data \in [Ranks -> {"Main", "Back"}]
  /\ consistent_data_pm \in [Ranks -> (SUBSET {"Main", "Back"}) \ {{}}]
  /\ attributes \in [Ranks -> BOOLEAN]
  /\ work \in [Ranks -> [Regions -> Contents]]
  /\ dirty \in [Ranks -> SUBSET Regions]
  /\ writable \in [Ranks -> SUBSET Regions]
  /\ flush_regions \in [Threads -> SUBSET Regions]
  /\ \A t \in Threads : Cardinality(flush_regions[t]) <= kMaxFlushRegions
  /\ faulting \in [Threads -> Regions \cup {Null}]
  /\ flush_mode \in [Ranks -> {"NO_ACTION", "USE_FLUSH_BLOCKS", "WBINVD"}]
  /\ pte_buffer \in [Ranks -> SUBSET Regions]
  /\ phase \in [Ranks -> {"run", "flushed", "main", "copy", "clear", "back", "open",
                          "recover", "copying"}]
  /\ pc \in [Threads -> {"app", "trap", "list", "clear", "wait"}]
  /\ clearing \in [Threads -> SUBSET Regions]
  /\ snap \in [Ranks -> [Regions -> Contents]]
  /\ broken \subseteq {"reset", "overtaken", "recovery", "attribute"}

\* Crash consistency, for all processes together: the flag process 0 would
\* broadcast selects copies that are complete on the medium in every process
\* and of the same checkpoint.  The code does not promise it while a process
\* recovers from its main copy: the flag of process 0 may say Back before the
\* copies are complete, and a process that is ahead stores to its main copy
\* before the flag of process 0 says Back.  Nor after the soft-dirty bits were
\* reset by another pool, or a dirty bit was cleared by a slow thread of the
\* last checkpoint.
SafeUnlessBroken ==
  (broken = {} /\ ~Exposed) =>
     \A r \in Procs, g \in Regions : snap[r][g] # Junk =>
       \A c \in consistent_data_pm[0] :
         (IF c = "Main" THEN main_pm[r][g] ELSE back_pm[r][g]) = {snap[r][g]}

\* Incremental copies are enough: in a process that runs, a region whose bit is
\* clear is the same in memory and in the back copy.
CleanIsSaved ==
  broken = {} => \A r \in Procs : phase[r] = "run" =>
    \A g \in Regions \ dirty[r] : Memory(r)[g] = back[r][g]

\* The state is well typed, and no store escapes the lists: a region that may be written without a fault is
\* listed, about to be listed by the handler that opened it, or left out of a
\* list that is full, which makes the checkpoint take the whole cache.
WritableIsListed ==
  /\ TypeOK
  /\ \A r \in Procs : phase[r] = "run" => \A g \in writable[r] :
       \/ g \in Listed(r)
       \/ \E t \in Members(r) : pc[t] = "list" /\ faulting[t] = g
       \/ \E t \in Members(r) : Cardinality(flush_regions[t]) = kMaxFlushRegions

\* All processes restart with the same checkpoint, and agree that there is one.
RestartTogether ==
  [][\A r \in Ranks : (phase[r] = "copying" /\ phase'[r] = "run" /\ broken = {}) =>
       /\ \A g \in Regions : snap[r][g] # Junk => Memory(r)'[g] = snap[r][g]
       /\ \A q \in Procs : phase[q] \in {"recover", "copying"} => attributes[q] = attributes[r]
    ]_vars
=============================================================================
