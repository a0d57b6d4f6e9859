------------------------- MODULE PageEngine_proofs -------------------------
(***************************************************************************)
(* The engines that work by pages, for any number of regions, threads and  *)
(* processes.  What the flag of process 0 selects is safe because the      *)
(* barriers keep the processes within one stage of the checkpoint of each  *)
(* other, and because what a checkpoint copies or flushes is all that has  *)
(* changed; neither is part of the properties, so the inductive invariant  *)
(* states both.  BaseInv holds always, DataInv as long as the engine is    *)
(* not broken.                                                             *)
(***************************************************************************)
EXTENDS PageEngine, FiniteSetTheorems, TLAPS

\* A handler runs only in the run phase, and a slow thread keeps the process
\* from the next checkpoint.
ControlInv ==
  \A t \in Threads :
    /\ pc[t] \in {"trap", "list"} => /\ phase[team[t]] = "run" /\ engine = "mprotect"
                                     /\ faulting[t] \in Regions
    /\ pc[t] = "clear" => phase[team[t]] \in {"run", "clear", "back"}
    /\ engine = "dirtybit" => clearing[t] = {}

\* The stages in which the processes can be at one time.
Stages == {{"run", "flushed", "back"}, {"flushed", "main"}, {"main", "copy", "clear"},
           {"clear", "back"}, {"open"}, {"run", "flushed", "recover", "copying"}}

StageInv == \A q, r \in Procs : \E S \in Stages : phase[q] \in S /\ phase[r] \in S

Full(r) == \E t \in Members(r) : Cardinality(flush_regions[t]) = kMaxFlushRegions

\* A region that may be written is listed, will be, or did not fit.
ListInv(r) ==
  /\ phase[r] \in {"run", "flushed", "main"} => \A g \in writable[r] :
       \/ g \in Listed(r)
       \/ \E t \in Members(r) : pc[t] = "list" /\ faulting[t] = g
       \/ Full(r)
  /\ phase[r] \notin {"run", "flushed", "main"} => writable[r] = {}
  /\ engine = "dirtybit" => writable[r] = {}

\* What the mode of a checkpoint says of the lists.
ModeInv(r) ==
  phase[r] \in {"flushed", "main"} =>
    /\ flush_mode[r] \in {"USE_FLUSH_BLOCKS", "WBINVD"}
    /\ engine = "mprotect" /\ flush_mode[r] = "USE_FLUSH_BLOCKS" => ~Full(r)
    /\ engine = "dirtybit" => pte_buffer[r] = dirty[r]

\* The flag: what loads see and what the medium may hold.
FlagInv ==
  /\ \A r \in Procs : phase[r] \in {"run", "flushed", "back"} => consistent_data_pm[r] = {"Back"}
  /\ \A r \in Procs : phase[r] \in {"main", "copy", "clear"} => consistent_data_pm[r] = {"Main"}
  /\ \A r \in Procs : /\ phase[r] \in {"open", "recover"} => consistent_data_pm[r] = {consistent_data[r]}
                      /\ phase[r] = "copying" /\ consistent_data[r] = "Back" => consistent_data_pm[r] = {"Back"}
                      /\ phase[r] = "copying" /\ consistent_data[r] = "Main" => "Back" \in consistent_data_pm[r]
  /\ \A q, r \in Procs : {phase[q], phase[r]} \subseteq {"recover", "copying"} =>
       consistent_data[q] = consistent_data[r]

BaseInv == /\ TypeOK /\ ControlInv /\ StageInv /\ FlagInv
           /\ \A r \in Procs : ListInv(r) /\ ModeInv(r)

-----------------------------------------------------------------------------
\* Region g of process r.  When the copies agree, and when the bits say where
\* they do not.
CopyInv(r, g) ==
  /\ phase[r] \in {"run", "flushed", "main"} /\ engine = "mprotect" =>
       /\ g \in writable[r] => g \in dirty[r]
       /\ g \notin writable[r] => main[r][g] = back[r][g]
  /\ phase[r] \in {"run", "flushed", "main"} /\ engine = "dirtybit" /\ g \notin dirty[r] =>
       Memory(r)[g] = back[r][g]
  /\ phase[r] = "run" /\ Hybrid => main[r][g] = back[r][g]
  /\ phase[r] \in {"flushed", "main", "copy", "clear", "back"} => Memory(r)[g] = main[r][g]
  /\ phase[r] \in {"copy", "clear", "back", "copying"} => main[r][g] = back[r][g]

\* What is certain to be on the medium.
MediumInv(r, g) ==
  /\ phase[r] \in {"flushed", "main", "copy", "clear", "back", "open"} => main_pm[r][g] = {main[r][g]}
  /\ phase[r] \in {"recover", "copying"} /\ consistent_data[r] = "Main" => main_pm[r][g] = {main[r][g]}
  /\ phase[r] \notin {"copy", "copying"} => back_pm[r][g] = {back[r][g]}
  /\ phase[r] = "copying" /\ consistent_data[r] = "Back" => back_pm[r][g] = {back[r][g]}

\* Which copy is the last checkpoint.
SnapInv(r, g) ==
  snap[r][g] # Junk =>
    /\ phase[r] = "run" => back[r][g] = snap[r][g]
    /\ phase[r] \in {"flushed", "main"} =>
         (IF phase[0] \in {"main", "copy", "clear"} THEN main[r][g] ELSE back[r][g]) = snap[r][g]
    /\ phase[r] \in {"copy", "clear", "back"} => main[r][g] = snap[r][g]
    /\ phase[r] = "open" => (IF consistent_data[0] = "Main" THEN main[r][g] ELSE back[r][g]) = snap[r][g]
    /\ phase[r] \in {"recover", "copying"} =>
         (IF consistent_data[r] = "Main" THEN main[r][g] ELSE back[r][g]) = snap[r][g]

\* The processes agree that there is a snapshot, except while they leave the
\* checkpoint.
AttributeInv ==
  \A q, r \in Procs :
    /\ phase[q] = "back" /\ phase[r] \in {"run", "flushed"} => attributes[r] = TRUE
    /\ attributes[q] # attributes[r] => phase[q] = "back" \/ phase[r] = "back"

DataInv == /\ AttributeInv
           /\ \A r \in Procs, g \in Regions : CopyInv(r, g) /\ MediumInv(r, g) /\ SnapInv(r, g)

IndInv == BaseInv /\ (broken = {} => DataInv)

-----------------------------------------------------------------------------
(* Operators.                                                              *)

\* Types of what the primitives of PersistentMemory return.
LEMMA WriteType ==
  ASSUME NEW D, NEW S, NEW mem \in [D -> S], NEW X, NEW val \in [D -> S]
  PROVE  Write(mem, X, val) \in [D -> S]
BY DEF Write

LEMMA PutType ==
  ASSUME NEW D, NEW S, NEW pm \in [D -> (SUBSET S) \ {{}}], NEW X, NEW val \in [D -> S]
  PROVE  Put(pm, X, val) \in [D -> (SUBSET S) \ {{}}]
BY DEF Put

LEMMA SettleType ==
  ASSUME NEW D, NEW S, NEW pm \in [D -> (SUBSET S) \ {{}}], NEW X, NEW val \in [D -> S]
  PROVE  Settle(pm, X, val) \in [D -> (SUBSET S) \ {{}}]
BY DEF Settle

LEMMA SettledType ==
  ASSUME NEW D, NEW S, NEW mem \in [D -> S]
  PROVE  Settled(mem) \in [D -> (SUBSET S) \ {{}}]
BY DEF Settled

\* Every thread has a process, and process 0 has a thread.
LEMMA TeamFacts ==
  ASSUME TypeOK
  PROVE  /\ team \in [Threads -> Ranks]
         /\ Procs \subseteq Ranks
         /\ 0 \in Procs
         /\ \A t \in Threads : team[t] \in Procs /\ team[t] \in Ranks /\ t \in Members(team[t])
         /\ \A t \in Threads : Touched(team, t) \subseteq Regions
<1>1. team \in [Threads -> Ranks] /\ \E t \in Threads : team[t] = 0
  BY PageAssumption DEF TypeOK
<1>2. \A t \in Threads : Touched(team, t) \subseteq Regions
  BY PageAssumption DEF TypeOK
<1> QED
  BY <1>1, <1>2 DEF Procs, Members

\* The word of a region has a number below that of the region.
LEMMA WordBound ==
  ASSUME NEW g \in Regions
  PROVE  g \div kBitWidth \in Regions
<1>1. g \in Nat /\ kBitWidth \in Nat /\ kBitWidth >= 1 /\ g < nr_regions /\ nr_regions \in Nat
  BY PageAssumption DEF Regions
<1>2. g \div kBitWidth \in Nat /\ g \div kBitWidth <= g
  BY <1>1
<1> QED
  BY <1>1, <1>2 DEF Regions

LEMMA WordsType ==
  ASSUME NEW t \in Threads, TypeOK
  PROVE  Words(t) \subseteq Regions
<1>1. flush_regions[t] \subseteq Regions
  BY DEF TypeOK
<1>2. {g \div kBitWidth : g \in Regions} \subseteq Regions
  BY WordBound
<1>3. {g \div kBitWidth : g \in flush_regions[t]} \subseteq Regions
  BY WordBound, <1>1
<1> QED
  BY <1>2, <1>3 DEF Words

\* A list is finite, and the next region may be added to one with room.
LEMMA ListBound ==
  ASSUME TypeOK, NEW t \in Threads, NEW g \in Regions, HasRoom(t)
  PROVE  Cardinality(flush_regions[t] \cup {g}) <= kMaxFlushRegions
<1>1. IsFiniteSet(Regions)
  BY PageAssumption, FS_Interval DEF Regions
<1>2. IsFiniteSet(flush_regions[t])
  BY <1>1, FS_Subset DEF TypeOK
<1>3. Cardinality(flush_regions[t]) \in Nat /\ Cardinality(flush_regions[t]) <= kMaxFlushRegions
  BY <1>2, FS_CardinalityType DEF TypeOK
<1>4. CASE g \in flush_regions[t]
  <2>1. flush_regions[t] \cup {g} = flush_regions[t]
    BY <1>4
  <2> QED
    BY <1>3, <2>1
<1>5. CASE g \notin flush_regions[t]
  <2>1. Cardinality(flush_regions[t] \cup {g}) = Cardinality(flush_regions[t]) + 1
    BY <1>2, <1>5, FS_AddElement
  <2> QED
    BY <1>3, <2>1, PageAssumption DEF HasRoom
<1> QED
  BY <1>4, <1>5

\* The empty lists.
LEMMA EmptyBound == Cardinality({}) <= kMaxFlushRegions /\ Cardinality({}) # kMaxFlushRegions
BY FS_EmptySet, PageAssumption

\* A process takes one step, to a stage that fits those of the others.
LEMMA StageStep ==
  ASSUME StageInv, Procs' = Procs, NEW p \in Procs,
         \A q \in Procs : q # p => phase'[q] = phase[q],
         \A q \in Procs : q # p => \E S \in Stages : phase'[p] \in S /\ phase[q] \in S,
         \E S \in Stages : phase'[p] \in S
  PROVE  StageInv'
<1> SUFFICES ASSUME NEW q \in Procs, NEW r \in Procs
             PROVE  \E S \in Stages : phase'[q] \in S /\ phase'[r] \in S
  BY DEF StageInv, Stages
<1>1. CASE q # p /\ r # p
  BY <1>1 DEF StageInv
<1>2. CASE q = p \/ r = p
  BY <1>2
<1> QED
  BY <1>1, <1>2

LEMMA ModeType ==
  ASSUME NEW r
  PROVE  /\ Mode(r) \in {"NO_ACTION", "USE_FLUSH_BLOCKS", "WBINVD"}
         /\ Mode(r) # "WBINVD" => engine # "dirtybit" /\ (Full(r) => Mode(r) = "NO_ACTION")
         /\ engine = "dirtybit" => Mode(r) = "WBINVD"
BY DEF Mode, Full

-----------------------------------------------------------------------------
(* The control.                                                            *)

\* Initially every process runs, with nothing dirty.
LEMMA InitBase == Init => BaseInv
<1> USE PageAssumption
<1> SUFFICES ASSUME Init PROVE BaseInv
  OBVIOUS
<1>1. TypeOK
  <2>1. attributes \in [Ranks -> BOOLEAN]
    BY Zenon DEF Init
  <2>2. /\ main \in [Ranks -> [Regions -> Contents]] /\ back \in [Ranks -> [Regions -> Contents]]
        /\ work \in [Ranks -> [Regions -> Contents]] /\ snap \in [Ranks -> [Regions -> Contents]]
        /\ main_pm \in [Ranks -> [Regions -> (SUBSET Contents) \ {{}}]]
        /\ back_pm \in [Ranks -> [Regions -> (SUBSET Contents) \ {{}}]]
    BY DEF Init, Contents
  <2>3. \A t \in Threads : Cardinality(flush_regions[t]) <= kMaxFlushRegions
    BY EmptyBound DEF Init
  <2>4. /\ engine \in Engines /\ team \in Teams /\ broken \subseteq {"reset", "overtaken", "recovery", "attribute"}
        /\ consistent_data \in [Ranks -> {"Main", "Back"}]
        /\ consistent_data_pm \in [Ranks -> (SUBSET {"Main", "Back"}) \ {{}}]
        /\ dirty \in [Ranks -> SUBSET Regions] /\ writable \in [Ranks -> SUBSET Regions]
    BY DEF Init
  <2>5. /\ flush_regions \in [Threads -> SUBSET Regions] /\ faulting \in [Threads -> Regions \cup {Null}]
        /\ flush_mode \in [Ranks -> {"NO_ACTION", "USE_FLUSH_BLOCKS", "WBINVD"}]
        /\ pte_buffer \in [Ranks -> SUBSET Regions]
        /\ phase \in [Ranks -> {"run", "flushed", "main", "copy", "clear", "back", "open",
                                "recover", "copying"}]
        /\ pc \in [Threads -> {"app", "trap", "list", "clear", "wait"}]
        /\ clearing \in [Threads -> SUBSET Regions]
    BY DEF Init
  <2> QED
    BY <2>1, <2>2, <2>3, <2>4, <2>5 DEF TypeOK
<1>t. Procs \subseteq Ranks /\ \A t \in Threads : team[t] \in Ranks
  BY <1>1, TeamFacts
<1>2. ControlInv
  BY <1>t DEF Init, ControlInv
<1>3. StageInv
  BY <1>t DEF Init, StageInv, Stages
<1>4. FlagInv
  BY <1>t DEF Init, FlagInv
<1>5. \A r \in Procs : ListInv(r) /\ ModeInv(r)
  BY <1>t DEF Init, ListInv, ModeInv
<1> QED
  BY <1>1, <1>2, <1>3, <1>4, <1>5 DEF BaseInv

\* A store.
LEMMA StoreBase == ASSUME BaseInv, NEW t \in Threads, Store(t) PROVE BaseInv'
<1> USE DEF imageVars, trackVars, ckptVars, histVars
<1>0. /\ TypeOK /\ ControlInv /\ StageInv /\ FlagInv
      /\ \A r \in Procs : ListInv(r) /\ ModeInv(r)
  BY DEF BaseInv
<1>t. /\ team \in [Threads -> Ranks] /\ Procs \subseteq Ranks /\ 0 \in Procs
      /\ \A u \in Threads : team[u] \in Procs /\ team[u] \in Ranks /\ u \in Members(team[u])
      /\ \A u \in Threads : Touched(team, u) \subseteq Regions
  BY <1>0, TeamFacts
<1>f. /\ engine' = engine /\ team' = team /\ Procs' = Procs
      /\ \A r : Members(r)' = Members(r)
  BY DEF Store, Procs, Members
<1>1. TypeOK'
  <2>1. PICK g \in Touched(team, t), v \in Values :
          /\ \/ work' = [work EXCEPT ![team[t]][g] = v] /\ UNCHANGED <<main, main_pm>>
             \/ /\ main' = [main EXCEPT ![team[t]][g] = v]
                /\ main_pm' = [main_pm EXCEPT ![team[t]][g] = @ \cup {v}]
                /\ UNCHANGED work
          /\ dirty' = IF engine = "dirtybit" THEN [dirty EXCEPT ![team[t]] = @ \cup {g}] ELSE dirty
    BY DEF Store
  <2>2. g \in Regions /\ v \in Contents
    BY <1>t DEF Contents
  <2>3. /\ main' \in [Ranks -> [Regions -> Contents]] /\ work' \in [Ranks -> [Regions -> Contents]]
    <3>1. /\ [main EXCEPT ![team[t]][g] = v] \in [Ranks -> [Regions -> Contents]]
          /\ [work EXCEPT ![team[t]][g] = v] \in [Ranks -> [Regions -> Contents]]
      <4>1. /\ main \in [Ranks -> [Regions -> Contents]] /\ work \in [Ranks -> [Regions -> Contents]]
            /\ team[t] \in Ranks
        BY <1>0, <1>t DEF TypeOK
      <4> QED
        BY <2>2, <4>1
    <3> QED
      BY <1>0, <2>1, <3>1 DEF TypeOK
  <2>4. main_pm' \in [Ranks -> [Regions -> (SUBSET Contents) \ {{}}]]
    <3>1. main_pm[team[t]][g] \cup {v} \in (SUBSET Contents) \ {{}}
      BY <1>0, <1>t, <2>2 DEF TypeOK
    <3>2. [main_pm EXCEPT ![team[t]][g] = main_pm[team[t]][g] \cup {v}]
            \in [Ranks -> [Regions -> (SUBSET Contents) \ {{}}]]
      <4>1. main_pm \in [Ranks -> [Regions -> (SUBSET Contents) \ {{}}]] /\ team[t] \in Ranks
        BY <1>0, <1>t DEF TypeOK
      <4> QED
        BY <2>2, <3>1, <4>1
    <3> QED
      BY <1>0, <2>1, <3>2 DEF TypeOK
  <2>5. dirty' \in [Ranks -> SUBSET Regions]
    BY <1>0, <1>t, <2>1, <2>2 DEF TypeOK
  <2> QED
    BY <1>0, <2>3, <2>4, <2>5 DEF TypeOK, Store
<1>2. ControlInv'
  <2>1. UNCHANGED <<phase, pc, faulting, clearing>>
    BY DEF Store
  <2> QED
    BY <1>0, <1>f, <2>1 DEF ControlInv
<1>3. StageInv'
  BY <1>0, <1>t, <1>f DEF StageInv, Store
<1>4. FlagInv'
  BY <1>0, <1>t, <1>f DEF FlagInv, Store
<1>5. ASSUME NEW r \in Procs PROVE ListInv(r)' /\ ModeInv(r)'
  <2>1. UNCHANGED <<phase, writable, flush_regions, pc, faulting, flush_mode, pte_buffer>>
    BY DEF Store
  <2>2. ListInv(r)'
    BY <1>0, <1>f, <1>5, <2>1 DEF ListInv, Listed, Full
  <2>3. team[t] # r \/ phase[r] = "run"
    BY DEF Store
  <2>4. dirty'[r] = dirty[r] \/ phase[r] = "run"
    BY <1>0, <1>t, <1>5, <2>3 DEF TypeOK, Store
  <2>5. ModeInv(r)'
    BY <1>0, <1>f, <1>5, <2>1, <2>4 DEF ModeInv, Full
  <2> QED
    BY <2>2, <2>5
<1> QED
  BY <1>1, <1>2, <1>3, <1>4, <1>5, <1>f DEF BaseInv

\* A fault.
LEMMA FaultBase == ASSUME BaseInv, NEW t \in Threads, Fault(t) PROVE BaseInv'
<1> USE DEF imageVars, trackVars, ckptVars, histVars
<1>0. /\ TypeOK /\ ControlInv /\ StageInv /\ FlagInv
      /\ \A r \in Procs : ListInv(r) /\ ModeInv(r)
  BY DEF BaseInv
<1>t. /\ team \in [Threads -> Ranks] /\ Procs \subseteq Ranks /\ 0 \in Procs
      /\ \A u \in Threads : team[u] \in Procs /\ team[u] \in Ranks /\ u \in Members(team[u])
      /\ \A u \in Threads : Touched(team, u) \subseteq Regions
  BY <1>0, TeamFacts
<1>f. /\ engine' = engine /\ team' = team /\ Procs' = Procs
      /\ \A r : Members(r)' = Members(r)
  BY DEF Fault, Procs, Members
<1>a. /\ \E g \in Regions : faulting' = Set(faulting, t, g)
      /\ pc' = Set(pc, t, "trap") /\ pc[t] = "app" /\ engine = "mprotect" /\ phase[team[t]] = "run"
      /\ UNCHANGED <<phase, clearing, writable, flush_regions, flush_mode, pte_buffer, dirty>>
  BY <1>t DEF Fault
<1>1. TypeOK'
  <2>1. PICK g \in Regions : faulting' = Set(faulting, t, g)
    BY <1>t DEF Fault
  <2>2. faulting' \in [Threads -> Regions \cup {Null}]
    BY <1>0, <2>1 DEF TypeOK, Set
  <2>3. pc' \in [Threads -> {"app", "trap", "list", "clear", "wait"}]
    BY <1>0 DEF TypeOK, Fault, Set
  <2> QED
    BY <1>0, <2>2, <2>3 DEF TypeOK, Fault
<1>2. ControlInv'
  BY <1>0, <1>t, <1>f, <1>a DEF TypeOK, ControlInv, Set
<1>3. StageInv'
  BY <1>0, <1>t, <1>f DEF StageInv, Fault
<1>4. FlagInv'
  BY <1>0, <1>t, <1>f DEF FlagInv, Fault
<1>5. ASSUME NEW r \in Procs PROVE ListInv(r)' /\ ModeInv(r)'
  <2>1. \A u \in Threads : pc[u] = "list" => pc'[u] = "list" /\ faulting'[u] = faulting[u]
    BY <1>0, <1>a DEF TypeOK, Set
  <2>2. ListInv(r)'
    BY <1>0, <1>f, <1>5, <1>a, <2>1 DEF ListInv, Listed, Full, Members
  <2>3. ModeInv(r)'
    BY <1>0, <1>f, <1>5, <1>a DEF ModeInv, Full
  <2> QED
    BY <2>2, <2>3
<1> QED
  BY <1>1, <1>2, <1>3, <1>4, <1>5, <1>f DEF BaseInv

\* The handler opens the region.
LEMMA HandleBase == ASSUME BaseInv, NEW t \in Threads, Handle(t) PROVE BaseInv'
<1> USE DEF imageVars, trackVars, ckptVars, histVars
<1>0. /\ TypeOK /\ ControlInv /\ StageInv /\ FlagInv
      /\ \A r \in Procs : ListInv(r) /\ ModeInv(r)
  BY DEF BaseInv
<1>t. /\ team \in [Threads -> Ranks] /\ Procs \subseteq Ranks /\ 0 \in Procs
      /\ \A u \in Threads : team[u] \in Procs /\ team[u] \in Ranks /\ u \in Members(team[u])
      /\ \A u \in Threads : Touched(team, u) \subseteq Regions
  BY <1>0, TeamFacts
<1>f. /\ engine' = engine /\ team' = team /\ Procs' = Procs
      /\ \A r : Members(r)' = Members(r)
  BY DEF Handle, Procs, Members
<1>a. /\ faulting[t] \in Regions /\ engine = "mprotect" /\ phase[team[t]] = "run"
      /\ pc[t] = "trap" /\ pc' = Set(pc, t, "list")
      /\ UNCHANGED <<phase, clearing, flush_regions, flush_mode, pte_buffer, faulting>>
  BY <1>0 DEF ControlInv, Handle
<1>b. \A r \in Ranks : writable'[r] = IF r = team[t] THEN writable[r] \cup {faulting[t]} ELSE writable[r]
  BY <1>0, <1>t DEF TypeOK, Handle
<1>1. TypeOK'
  <2>1. dirty' \in [Ranks -> SUBSET Regions] /\ writable' \in [Ranks -> SUBSET Regions]
    BY <1>0, <1>t, <1>a DEF TypeOK, Handle
  <2>2. pc' \in [Threads -> {"app", "trap", "list", "clear", "wait"}]
    BY <1>0, <1>a DEF TypeOK, Set
  <2> QED
    BY <1>0, <2>1, <2>2 DEF TypeOK, Handle
<1>2. ControlInv'
  BY <1>0, <1>t, <1>f, <1>a DEF TypeOK, ControlInv, Set
<1>3. StageInv'
  BY <1>0, <1>t, <1>f DEF StageInv, Handle
<1>4. FlagInv'
  BY <1>0, <1>t, <1>f DEF FlagInv, Handle
<1>5. ASSUME NEW r \in Procs PROVE ListInv(r)' /\ ModeInv(r)'
  <2>1. \A u \in Threads : pc[u] = "list" => pc'[u] = "list"
    BY <1>0, <1>a DEF TypeOK, Set
  <2>2. pc'[t] = "list" /\ t \in Threads
    BY <1>0, <1>a DEF TypeOK, Set
  <2>3. ListInv(r)'
    <3>1. \A g : g \in Listed(r)' <=> g \in Listed(r)
      BY <1>a, <1>f DEF Listed
    <3>2. Full(r)' <=> Full(r)
      BY <1>a, <1>f DEF Full
    <3>3. r \in Ranks /\ (team[t] = r => t \in Members(r))
      BY <1>t, <1>5
    <3>4. \A u \in Members(r) : u \in Threads
      BY DEF Members
    <3>5. \A g \in writable[r]' : g \in writable[r] \/ (g = faulting[t] /\ team[t] = r)
      BY <1>b, <3>3
    <3>6. phase[r] # "run" => writable[r]' = writable[r]
      BY <1>a, <1>b, <3>3
    <3> QED
      BY <1>0, <1>f, <1>5, <1>a, <2>1, <2>2, <3>1, <3>2, <3>3, <3>4, <3>5, <3>6 DEF ListInv
  <2>4. ModeInv(r)'
    BY <1>0, <1>f, <1>5, <1>a DEF ModeInv, Full
  <2> QED
    BY <2>3, <2>4
<1> QED
  BY <1>1, <1>2, <1>3, <1>4, <1>5, <1>f DEF BaseInv

\* The handler lists the region.
LEMMA ListBase == ASSUME BaseInv, NEW t \in Threads, List(t) PROVE BaseInv'
<1> USE DEF imageVars, trackVars, ckptVars, histVars
<1>0. /\ TypeOK /\ ControlInv /\ StageInv /\ FlagInv
      /\ \A r \in Procs : ListInv(r) /\ ModeInv(r)
  BY DEF BaseInv
<1>t. /\ team \in [Threads -> Ranks] /\ Procs \subseteq Ranks /\ 0 \in Procs
      /\ \A u \in Threads : team[u] \in Procs /\ team[u] \in Ranks /\ u \in Members(team[u])
      /\ \A u \in Threads : Touched(team, u) \subseteq Regions
  BY <1>0, TeamFacts
<1>f. /\ engine' = engine /\ team' = team /\ Procs' = Procs
      /\ \A r : Members(r)' = Members(r)
  BY DEF List, Procs, Members
<1>a. /\ faulting[t] \in Regions /\ engine = "mprotect" /\ phase[team[t]] = "run"
      /\ pc[t] = "list" /\ pc' = Set(pc, t, "app") /\ faulting' = Set(faulting, t, Null)
      /\ UNCHANGED <<phase, clearing, writable, flush_mode, pte_buffer, dirty>>
  BY <1>0 DEF ControlInv, List
<1>b. \A u \in Threads : /\ flush_regions[u] \subseteq flush_regions'[u]
                         /\ ~HasRoom(u) => flush_regions'[u] = flush_regions[u]
                         /\ u = t /\ HasRoom(t) => faulting[t] \in flush_regions'[u]
                         /\ u # t => flush_regions'[u] = flush_regions[u]
  BY <1>0, <1>a DEF TypeOK, List
<1>1. TypeOK'
  <2>1. flush_regions' \in [Threads -> SUBSET Regions]
    BY <1>0, <1>a DEF TypeOK, List
  <2>2. ASSUME NEW u \in Threads PROVE Cardinality(flush_regions'[u]) <= kMaxFlushRegions
    <3>1. CASE u = t /\ HasRoom(t)
      BY <1>0, <1>a, <3>1, ListBound DEF TypeOK, List
    <3>2. CASE u # t \/ ~HasRoom(t)
      BY <1>0, <1>a, <3>2 DEF TypeOK, List
    <3> QED
      BY <3>1, <3>2
  <2>3. faulting' \in [Threads -> Regions \cup {Null}]
    BY <1>0, <1>a DEF TypeOK, Set
  <2>4. pc' \in [Threads -> {"app", "trap", "list", "clear", "wait"}]
    BY <1>0, <1>a DEF TypeOK, Set
  <2> QED
    BY <1>0, <2>1, <2>2, <2>3, <2>4 DEF TypeOK, List
<1>2. ControlInv'
  BY <1>0, <1>t, <1>f, <1>a DEF TypeOK, ControlInv, Set
<1>3. StageInv'
  BY <1>0, <1>t, <1>f DEF StageInv, List
<1>4. FlagInv'
  BY <1>0, <1>t, <1>f DEF FlagInv, List
<1>5. ASSUME NEW r \in Procs PROVE ListInv(r)' /\ ModeInv(r)'
  <2>1. \A u \in Threads : u # t /\ pc[u] = "list" => pc'[u] = "list" /\ faulting'[u] = faulting[u]
    BY <1>0, <1>a DEF TypeOK, Set
  <2>2. \A g : g \in Listed(r) => g \in Listed(r)'
    BY <1>b, <1>f DEF Listed, Members
  <2>3. Full(r) => Full(r)'
    BY <1>b, <1>f DEF Full, HasRoom, Members
  <2>4. t \in Members(r) => faulting[t] \in Listed(r)' \/ Full(r)'
    BY <1>b, <1>f DEF Full, HasRoom, Listed
  <2>5. ListInv(r)'
    BY <1>0, <1>f, <1>5, <1>a, <2>1, <2>2, <2>3, <2>4 DEF ListInv, Members
  <2>6. ModeInv(r)'
    <3>1. phase[r] # "run" => \A u \in Members(r) : flush_regions'[u] = flush_regions[u]
      BY <1>a, <1>b DEF Members
    <3> QED
      BY <1>0, <1>f, <1>5, <1>a, <3>1 DEF ModeInv, Full
  <2> QED
    BY <2>5, <2>6
<1> QED
  BY <1>1, <1>2, <1>3, <1>4, <1>5, <1>f DEF BaseInv

\* Another pool resets the bits.
LEMMA OtherPoolResetBase == ASSUME BaseInv, NEW p \in Ranks, OtherPoolReset(p) PROVE BaseInv'
<1> USE DEF imageVars, trackVars, ckptVars, histVars
<1>0. /\ TypeOK /\ ControlInv /\ StageInv /\ FlagInv
      /\ \A r \in Procs : ListInv(r) /\ ModeInv(r)
  BY DEF BaseInv
<1>t. /\ team \in [Threads -> Ranks] /\ Procs \subseteq Ranks /\ 0 \in Procs
      /\ \A u \in Threads : team[u] \in Procs /\ team[u] \in Ranks /\ u \in Members(team[u])
      /\ \A u \in Threads : Touched(team, u) \subseteq Regions
  BY <1>0, TeamFacts
<1>f. /\ engine' = engine /\ team' = team /\ Procs' = Procs
      /\ \A r : Members(r)' = Members(r)
  BY DEF OtherPoolReset, Procs, Members
<1>1. TypeOK'
  <2>1. dirty' \in [Ranks -> SUBSET Regions]
    BY <1>0 DEF TypeOK, OtherPoolReset, Set
  <2>2. broken' \subseteq {"reset", "overtaken", "recovery", "attribute"}
    BY <1>0 DEF TypeOK, OtherPoolReset
  <2> QED
    BY <1>0, <2>1, <2>2 DEF TypeOK, OtherPoolReset
<1>2. ControlInv'
  BY <1>0, <1>f DEF ControlInv, OtherPoolReset
<1>3. StageInv'
  BY <1>0, <1>t, <1>f DEF StageInv, OtherPoolReset
<1>4. FlagInv'
  BY <1>0, <1>t, <1>f DEF FlagInv, OtherPoolReset
<1>5. ASSUME NEW r \in Procs PROVE ListInv(r)' /\ ModeInv(r)'
  <2>1. dirty'[r] = dirty[r] \/ phase[r] = "run"
    BY <1>0, <1>t, <1>5 DEF TypeOK, OtherPoolReset, Set
  <2>2. UNCHANGED <<phase, writable, flush_regions, pc, faulting, flush_mode, pte_buffer>>
    BY DEF OtherPoolReset
  <2>3. ListInv(r)'
    BY <1>0, <1>f, <1>5, <2>2 DEF ListInv, Listed, Full
  <2>4. ModeInv(r)'
    BY <1>0, <1>f, <1>5, <2>1, <2>2 DEF ModeInv, Full
  <2> QED
    BY <2>3, <2>4
<1> QED
  BY <1>1, <1>2, <1>3, <1>4, <1>5, <1>f DEF BaseInv

\* The flush.
LEMMA CheckpointBeginBase == ASSUME BaseInv, NEW p \in Ranks, CheckpointBegin(p) PROVE BaseInv'
<1> USE DEF imageVars, trackVars, ckptVars, histVars
<1>0. /\ TypeOK /\ ControlInv /\ StageInv /\ FlagInv
      /\ \A r \in Procs : ListInv(r) /\ ModeInv(r)
  BY DEF BaseInv
<1>t. /\ team \in [Threads -> Ranks] /\ Procs \subseteq Ranks /\ 0 \in Procs
      /\ \A u \in Threads : team[u] \in Procs /\ team[u] \in Ranks /\ u \in Members(team[u])
      /\ \A u \in Threads : Touched(team, u) \subseteq Regions
  BY <1>0, TeamFacts
<1>f. /\ engine' = engine /\ team' = team /\ Procs' = Procs
      /\ \A r : Members(r)' = Members(r)
  BY DEF CheckpointBegin, Procs, Members
<1>a. /\ p \in Procs /\ phase[p] = "run" /\ \A t \in Members(p) : pc[t] = "app"
      /\ flush_mode' = Set(flush_mode, p, Mode(p))
      /\ UNCHANGED <<pc, clearing, dirty, writable, flush_regions, faulting,
                     consistent_data, consistent_data_pm>>
  BY DEF CheckpointBegin
<1> DEFINE Covered == IF Mode(p) = "WBINVD" THEN Regions ELSE Flushed(p) \cup (Regions \ writable[p])
<1>c. Mode(p) = "NO_ACTION" =>
        phase' = phase /\ pte_buffer' = pte_buffer /\ main' = main /\ main_pm' = main_pm
  BY DEF CheckpointBegin
<1>d. Mode(p) # "NO_ACTION" =>
        /\ phase' = Set(phase, p, "flushed") /\ pte_buffer' = Set(pte_buffer, p, PageMap(p))
        /\ main' = Set(main, p, Applied(p))
        /\ main_pm' = Set(main_pm, p, Settle(main_pm[p], Covered, main'[p]))
  BY DEF CheckpointBegin
<1> HIDE DEF Covered
<1>b. /\ phase' \in [Ranks -> {"run", "flushed", "main", "copy", "clear", "back", "open", "recover", "copying"}]
      /\ phase' = phase \/ (phase'[p] = "flushed" /\ Mode(p) # "NO_ACTION")
      /\ \A q \in Ranks : q # p => phase'[q] = phase[q]
  <2>1. phase \in [Ranks -> {"run", "flushed", "main", "copy", "clear", "back", "open", "recover", "copying"}]
    BY <1>0 DEF TypeOK
  <2>2. CASE Mode(p) = "NO_ACTION"
    BY <1>c, <2>1, <2>2
  <2>3. CASE Mode(p) # "NO_ACTION"
    BY <1>d, <2>1, <2>3 DEF Set
  <2> QED
    BY <2>2, <2>3
<1>1. TypeOK'
  <2>1. flush_mode' \in [Ranks -> {"NO_ACTION", "USE_FLUSH_BLOCKS", "WBINVD"}]
    BY <1>0, <1>a, ModeType DEF TypeOK, Set
  <2>2. pte_buffer' \in [Ranks -> SUBSET Regions]
    <3>1. PageMap(p) \subseteq Regions
      BY <1>0 DEF TypeOK, PageMap
    <3>2. pte_buffer' = pte_buffer \/ pte_buffer' = [pte_buffer EXCEPT ![p] = PageMap(p)]
      BY <1>c, <1>d DEF Set
    <3> QED
      BY <1>0, <3>1, <3>2 DEF TypeOK
  <2>3. Applied(p) \in [Regions -> Contents]
    BY <1>0, WriteType DEF TypeOK, Applied
  <2>4. main' \in [Ranks -> [Regions -> Contents]]
    <3>1. main' = main \/ main' = [main EXCEPT ![p] = Applied(p)]
      BY <1>c, <1>d DEF Set
    <3> QED
      BY <1>0, <2>3, <3>1 DEF TypeOK
  <2>5. main_pm' \in [Ranks -> [Regions -> (SUBSET Contents) \ {{}}]]
    <3>1. Settle(main_pm[p], Covered, main'[p]) \in [Regions -> (SUBSET Contents) \ {{}}]
      BY <1>0, <2>4, SettleType DEF TypeOK
    <3>2. \/ main_pm' = main_pm
          \/ main_pm' = [main_pm EXCEPT ![p] = Settle(main_pm[p], Covered, main'[p])]
      BY <1>c, <1>d DEF Set
    <3> QED
      BY <1>0, <3>1, <3>2 DEF TypeOK
  <2> QED
    BY <1>0, <1>b, <2>1, <2>2, <2>4, <2>5 DEF TypeOK, CheckpointBegin
<1>2. ControlInv'
  <2>1. \A t \in Threads : team[t] = p => pc[t] = "app"
    BY <1>a DEF Members
  <2> QED
    BY <1>0, <1>t, <1>f, <1>a, <1>b, <2>1 DEF ControlInv
<1>3. StageInv'
  <2>1. CASE phase' = phase
    BY <1>0, <1>f, <2>1 DEF StageInv
  <2>2. CASE phase'[p] = "flushed"
    <3>1. \A q \in Procs : phase[q] \in {"run", "flushed", "back", "recover", "copying"}
      BY <1>0, <1>a DEF StageInv, Stages
    <3>2. \A q \in Procs : \E S \in Stages : "flushed" \in S /\ phase[q] \in S
      BY <3>1 DEF Stages
    <3> QED
      BY <1>0, <1>t, <1>f, <1>a, <1>b, <2>2, <3>2, StageStep
  <2> QED
    BY <1>b, <2>1, <2>2
<1>4. FlagInv'
  <2>1. \A q \in Procs : phase'[q] = phase[q] \/ (q = p /\ phase'[q] = "flushed")
    BY <1>t, <1>b
  <2> QED
    BY <1>0, <1>t, <1>f, <1>a, <2>1 DEF FlagInv
<1>5. ASSUME NEW r \in Procs PROVE ListInv(r)' /\ ModeInv(r)'
  <2>1. ListInv(r)'
    BY <1>0, <1>t, <1>f, <1>5, <1>a, <1>b DEF ListInv, Listed, Full
  <2>2. CASE r # p
    <3>1. flush_mode'[r] = flush_mode[r] /\ pte_buffer'[r] = pte_buffer[r]
      BY <1>0, <1>t, <1>5, <1>a, <1>c, <1>d, <2>2 DEF TypeOK, Set
    <3> QED
      BY <1>0, <1>t, <1>f, <1>5, <1>a, <1>b, <2>1, <2>2, <3>1 DEF ModeInv, Full
  <2>3. CASE r = p
    <3>1. phase'[p] = "flushed" => flush_mode'[p] = Mode(p) /\ pte_buffer'[p] = PageMap(p)
      <4>1. phase'[p] = "flushed" => Mode(p) # "NO_ACTION"
        BY <1>a, <1>c
      <4> QED
        BY <1>0, <1>t, <1>a, <1>d, <4>1 DEF TypeOK, Set
    <3> QED
      BY <1>0, <1>t, <1>f, <1>5, <1>a, <1>b, <2>1, <2>3, <3>1, ModeType DEF ModeInv, Full, PageMap
  <2> QED
    BY <2>2, <2>3
<1> QED
  BY <1>1, <1>2, <1>3, <1>4, <1>5, <1>f DEF BaseInv

\* The flag says Main.
LEMMA SetMainBase == ASSUME BaseInv, NEW p \in Ranks, SetMain(p) PROVE BaseInv'
<1> USE DEF imageVars, trackVars, ckptVars, histVars
<1>0. /\ TypeOK /\ ControlInv /\ StageInv /\ FlagInv
      /\ \A r \in Procs : ListInv(r) /\ ModeInv(r)
  BY DEF BaseInv
<1>t. /\ team \in [Threads -> Ranks] /\ Procs \subseteq Ranks /\ 0 \in Procs
      /\ \A u \in Threads : team[u] \in Procs /\ team[u] \in Ranks /\ u \in Members(team[u])
      /\ \A u \in Threads : Touched(team, u) \subseteq Regions
  BY <1>0, TeamFacts
<1>f. /\ engine' = engine /\ team' = team /\ Procs' = Procs
      /\ \A r : Members(r)' = Members(r)
  BY DEF SetMain, Procs, Members
<1>a. /\ p \in Procs /\ phase[p] = "flushed" /\ phase' = Set(phase, p, "main") /\ \A q \in Procs : phase[q] \in {"flushed", "main"}
  BY DEF MPI_Barrier, Ready, SetMain
<1>b. /\ phase' \in [Ranks -> {"run", "flushed", "main", "copy", "clear", "back", "open", "recover", "copying"}]
      /\ phase'[p] = "main" /\ \A q \in Ranks : q # p => phase'[q] = phase[q]
  BY <1>0, <1>a DEF TypeOK, Set
<1>1. TypeOK'
  <2>1. consistent_data' \in [Ranks -> {"Main", "Back"}]
    BY <1>0 DEF TypeOK, SetMain, Set
  <2>2. consistent_data_pm' \in [Ranks -> (SUBSET {"Main", "Back"}) \ {{}}]
    BY <1>0 DEF TypeOK, SetMain, Set
  <2>3. snap' \in [Ranks -> [Regions -> Contents]]
    BY <1>0 DEF TypeOK, SetMain, Memory
  <2> QED
    BY <1>0, <1>b, <2>1, <2>2, <2>3 DEF TypeOK, SetMain
<1>2. ControlInv'
  BY <1>0, <1>t, <1>f, <1>a, <1>b DEF ControlInv, SetMain
<1>3. StageInv'
  <2>1. \A q \in Procs : q # p => phase[q] \in {"flushed", "main"}
    BY <1>0, <1>a DEF StageInv, Stages
  <2>2. \A q \in Procs : q # p => \E S \in Stages : "main" \in S /\ phase[q] \in S
    BY <2>1 DEF Stages
  <2>3. \E S \in Stages : "main" \in S
    BY DEF Stages
  <2> QED
    BY <1>0, <1>t, <1>f, <1>a, <1>b, <2>2, <2>3, StageStep
<1>4. FlagInv'
  <2>1. /\ consistent_data'[p] = "Main" /\ consistent_data_pm'[p] = {"Main"}
        /\ \A q \in Ranks : q # p => /\ consistent_data'[q] = consistent_data[q]
                                     /\ consistent_data_pm'[q] = consistent_data_pm[q]
    BY <1>0, <1>t, <1>a DEF TypeOK, Set, SetMain
  <2> QED
    BY <1>0, <1>t, <1>f, <1>a, <1>b, <2>1 DEF FlagInv
<1>5. ASSUME NEW r \in Procs PROVE ListInv(r)' /\ ModeInv(r)'
  <2>1. r # p => ListInv(r)' /\ ModeInv(r)'
    BY <1>0, <1>t, <1>f, <1>5, <1>a, <1>b DEF ListInv, ModeInv, Listed, Full, SetMain
  <2>2. r = p => ListInv(r)' /\ ModeInv(r)'
    BY <1>0, <1>t, <1>f, <1>5, <1>a, <1>b DEF ListInv, ModeInv, Listed, Full, SetMain
  <2> QED
    BY <2>1, <2>2
<1> QED
  BY <1>1, <1>2, <1>3, <1>4, <1>5, <1>f DEF BaseInv

\* The copies.
LEMMA WriteBackBase == ASSUME BaseInv, NEW p \in Ranks, WriteBack(p) PROVE BaseInv'
<1> USE DEF imageVars, trackVars, ckptVars, histVars
<1>0. /\ TypeOK /\ ControlInv /\ StageInv /\ FlagInv
      /\ \A r \in Procs : ListInv(r) /\ ModeInv(r)
  BY DEF BaseInv
<1>t. /\ team \in [Threads -> Ranks] /\ Procs \subseteq Ranks /\ 0 \in Procs
      /\ \A u \in Threads : team[u] \in Procs /\ team[u] \in Ranks /\ u \in Members(team[u])
      /\ \A u \in Threads : Touched(team, u) \subseteq Regions
  BY <1>0, TeamFacts
<1>f. /\ engine' = engine /\ team' = team /\ Procs' = Procs
      /\ \A r : Members(r)' = Members(r)
  BY DEF WriteBack, Procs, Members
<1>a. /\ p \in Procs /\ phase[p] = "main" /\ phase' = Set(phase, p, "copy") /\ \A q \in Procs : phase[q] \in {"main", "copy", "clear"}
  BY DEF MPI_Barrier, Ready, WriteBack
<1>b. /\ phase' \in [Ranks -> {"run", "flushed", "main", "copy", "clear", "back", "open", "recover", "copying"}]
      /\ phase'[p] = "copy" /\ \A q \in Ranks : q # p => phase'[q] = phase[q]
  BY <1>0, <1>a DEF TypeOK, Set
<1>1. TypeOK'
  <2>1. writable' \in [Ranks -> SUBSET Regions]
    BY <1>0 DEF TypeOK, WriteBack, Set, Unprotected
  <2>2. Write(back[p], ToCopy(p), main[p]) \in [Regions -> Contents]
    <3>1. back[p] \in [Regions -> Contents] /\ main[p] \in [Regions -> Contents]
      BY <1>0 DEF TypeOK
    <3> QED
      BY <3>1, WriteType
  <2>3. Put(back_pm[p], ToCopy(p), main[p]) \in [Regions -> (SUBSET Contents) \ {{}}]
    BY <1>0, PutType DEF TypeOK
  <2>4. /\ back' \in [Ranks -> [Regions -> Contents]]
        /\ back_pm' \in [Ranks -> [Regions -> (SUBSET Contents) \ {{}}]]
    BY <1>0, <2>2, <2>3 DEF TypeOK, WriteBack, Set
  <2> QED
    BY <1>0, <1>b, <2>1, <2>4 DEF TypeOK, WriteBack
<1>2. ControlInv'
  BY <1>0, <1>t, <1>f, <1>a, <1>b DEF ControlInv, WriteBack
<1>3. StageInv'
  <2>1. \A q \in Procs : q # p => phase[q] \in {"main", "copy", "clear"}
    BY <1>0, <1>a DEF StageInv, Stages
  <2>2. \A q \in Procs : q # p => \E S \in Stages : "copy" \in S /\ phase[q] \in S
    BY <2>1 DEF Stages
  <2>3. \E S \in Stages : "copy" \in S
    BY DEF Stages
  <2> QED
    BY <1>0, <1>t, <1>f, <1>a, <1>b, <2>2, <2>3, StageStep
<1>4. FlagInv'
  BY <1>0, <1>t, <1>f, <1>a, <1>b DEF FlagInv, WriteBack
<1>5. ASSUME NEW r \in Procs PROVE ListInv(r)' /\ ModeInv(r)'
  <2>1. /\ writable'[p] = {} /\ \A q \in Ranks : q # p => writable'[q] = writable[q]
        /\ UNCHANGED <<dirty, flush_regions, faulting, flush_mode, pte_buffer, pc>>
    BY <1>0, <1>t, <1>a DEF TypeOK, WriteBack, Set, Unprotected
  <2>2. r # p => ListInv(r)' /\ ModeInv(r)'
    BY <1>0, <1>t, <1>f, <1>5, <1>a, <1>b, <2>1 DEF ListInv, ModeInv, Listed, Full
  <2>3. r = p => ListInv(r)' /\ ModeInv(r)'
    BY <1>0, <1>t, <1>f, <1>5, <1>a, <1>b, <2>1 DEF ListInv, ModeInv
  <2> QED
    BY <2>2, <2>3
<1> QED
  BY <1>1, <1>2, <1>3, <1>4, <1>5, <1>f DEF BaseInv

\* The end of the copies.
LEMMA EndCopyBase == ASSUME BaseInv, NEW p \in Ranks, EndCopy(p) PROVE BaseInv'
<1> USE DEF imageVars, trackVars, ckptVars, histVars
<1>0. /\ TypeOK /\ ControlInv /\ StageInv /\ FlagInv
      /\ \A r \in Procs : ListInv(r) /\ ModeInv(r)
  BY DEF BaseInv
<1>t. /\ team \in [Threads -> Ranks] /\ Procs \subseteq Ranks /\ 0 \in Procs
      /\ \A u \in Threads : team[u] \in Procs /\ team[u] \in Ranks /\ u \in Members(team[u])
      /\ \A u \in Threads : Touched(team, u) \subseteq Regions
  BY <1>0, TeamFacts
<1>f. /\ engine' = engine /\ team' = team /\ Procs' = Procs
      /\ \A r : Members(r)' = Members(r)
  BY DEF EndCopy, Procs, Members
<1>a. /\ p \in Procs /\ phase[p] = "copy" /\ phase' = Set(phase, p, "clear")
  BY DEF MPI_Barrier, Ready, EndCopy
<1>b. /\ phase' \in [Ranks -> {"run", "flushed", "main", "copy", "clear", "back", "open", "recover", "copying"}]
      /\ phase'[p] = "clear" /\ \A q \in Ranks : q # p => phase'[q] = phase[q]
  BY <1>0, <1>a DEF TypeOK, Set
<1>1. TypeOK'
  <2>1. back_pm' \in [Ranks -> [Regions -> (SUBSET Contents) \ {{}}]]
    <3>1. Settled(back[p]) \in [Regions -> (SUBSET Contents) \ {{}}]
      <4>1. back[p] \in [Regions -> Contents]
        BY <1>0 DEF TypeOK
      <4> QED
        BY <4>1, SettledType
    <3>2. back_pm' = [back_pm EXCEPT ![p] = Settled(back[p])]
      BY DEF EndCopy, Fenced, Set
    <3>3. back_pm \in [Ranks -> [Regions -> (SUBSET Contents) \ {{}}]]
      BY <1>0 DEF TypeOK
    <3> QED
      BY <3>1, <3>2, <3>3
  <2>2. pc' \in [Threads -> {"app", "trap", "list", "clear", "wait"}]
    BY <1>0 DEF TypeOK, EndCopy
  <2>3. clearing' \in [Threads -> SUBSET Regions]
    BY <1>0, WordsType DEF TypeOK, EndCopy
  <2> QED
    BY <1>0, <1>b, <2>1, <2>2, <2>3 DEF TypeOK, EndCopy
<1>2. ControlInv'
  <2>1. ASSUME NEW u \in Threads, u \in Members(p)
        PROVE  pc'[u] = "clear" /\ team[u] = p /\ clearing'[u] = Words(u)
    BY <2>1 DEF EndCopy, Members
  <2>2. ASSUME NEW u \in Threads, u \notin Members(p)
        PROVE  pc'[u] = pc[u] /\ team[u] # p /\ clearing'[u] = clearing[u]
    BY <2>2 DEF EndCopy, Members
  <2>3. \A u \in Threads : engine = "dirtybit" => Words(u) = {}
    BY DEF Words
  <2>4. faulting' = faulting
    BY DEF EndCopy
  <2> QED
    BY <1>0, <1>t, <1>f, <1>a, <1>b, <2>1, <2>2, <2>3, <2>4 DEF ControlInv
<1>3. StageInv'
  <2>1. \A q \in Procs : q # p => phase[q] \in {"main", "copy", "clear"}
    BY <1>0, <1>a DEF StageInv, Stages
  <2>2. \A q \in Procs : q # p => \E S \in Stages : "clear" \in S /\ phase[q] \in S
    BY <2>1 DEF Stages
  <2>3. \E S \in Stages : "clear" \in S
    BY DEF Stages
  <2> QED
    BY <1>0, <1>t, <1>f, <1>a, <1>b, <2>2, <2>3, StageStep
<1>4. FlagInv'
  BY <1>0, <1>t, <1>f, <1>a, <1>b DEF FlagInv, EndCopy
<1>5. ASSUME NEW r \in Procs PROVE ListInv(r)' /\ ModeInv(r)'
  <2>1. /\ UNCHANGED <<dirty, writable, flush_regions, faulting, flush_mode, pte_buffer>>
        /\ \A u \in Threads : u \notin Members(p) => pc'[u] = pc[u]
    BY DEF EndCopy
  <2>2. r # p => \A u \in Members(r) : u \in Threads /\ u \notin Members(p)
    BY DEF Members
  <2>3. r # p => ListInv(r)' /\ ModeInv(r)'
    BY <1>0, <1>t, <1>f, <1>5, <1>b, <2>1, <2>2 DEF ListInv, ModeInv, Listed, Full
  <2>4. r = p => ListInv(r)' /\ ModeInv(r)'
    BY <1>0, <1>t, <1>f, <1>5, <1>a, <1>b, <2>1 DEF ListInv, ModeInv
  <2> QED
    BY <2>3, <2>4
<1> QED
  BY <1>1, <1>2, <1>3, <1>4, <1>5, <1>f DEF BaseInv

\* A thread clears its bits.
LEMMA ClearBase == ASSUME BaseInv, NEW t \in Threads, Clear(t) PROVE BaseInv'
<1> USE DEF imageVars, trackVars, ckptVars, histVars
<1>0. /\ TypeOK /\ ControlInv /\ StageInv /\ FlagInv
      /\ \A r \in Procs : ListInv(r) /\ ModeInv(r)
  BY DEF BaseInv
<1>t. /\ team \in [Threads -> Ranks] /\ Procs \subseteq Ranks /\ 0 \in Procs
      /\ \A u \in Threads : team[u] \in Procs /\ team[u] \in Ranks /\ u \in Members(team[u])
      /\ \A u \in Threads : Touched(team, u) \subseteq Regions
  BY <1>0, TeamFacts
<1>f. /\ engine' = engine /\ team' = team /\ Procs' = Procs
      /\ \A r : Members(r)' = Members(r)
  BY DEF Clear, Procs, Members
<1>a. /\ pc[t] = "clear" /\ clearing' = Set(clearing, t, {})
      /\ \E X : dirty' = [dirty EXCEPT ![team[t]] = @ \ X]
      /\ broken' \in {broken, {"overtaken"}}
      /\ pc' = Set(pc, t, "app") \/ pc' = Set(pc, t, "wait")
      /\ UNCHANGED <<phase, faulting, writable, flush_regions, flush_mode, pte_buffer>>
  BY DEF Clear
<1>b. phase[team[t]] \in {"run", "clear", "back"}
  BY <1>0, <1>a DEF ControlInv
<1>1. TypeOK'
  <2>1. dirty' \in [Ranks -> SUBSET Regions]
    BY <1>0, <1>t, <1>a DEF TypeOK
  <2>2. clearing' \in [Threads -> SUBSET Regions] /\ pc' \in [Threads -> {"app", "trap", "list", "clear", "wait"}]
    BY <1>0, <1>t, <1>a DEF TypeOK, Set
  <2>3. broken' \subseteq {"reset", "overtaken", "recovery", "attribute"}
    BY <1>0, <1>a DEF TypeOK
  <2> QED
    BY <1>0, <2>1, <2>2, <2>3 DEF TypeOK, Clear
<1>2. ControlInv'
  BY <1>0, <1>t, <1>f, <1>a DEF TypeOK, ControlInv, Set
<1>3. StageInv'
  BY <1>0, <1>t, <1>f DEF StageInv, Clear
<1>4. FlagInv'
  BY <1>0, <1>t, <1>f DEF FlagInv, Clear
<1>5. ASSUME NEW r \in Procs PROVE ListInv(r)' /\ ModeInv(r)'
  <2>1. \A u \in Threads : pc[u] = "list" => pc'[u] = "list"
    BY <1>0, <1>a DEF TypeOK, Set
  <2>2. ListInv(r)'
    <3>1. \A u \in Members(r) : u \in Threads
      BY DEF Members
    <3> QED
      BY <1>0, <1>f, <1>5, <1>a, <2>1, <3>1 DEF ListInv, Listed, Full
  <2>3. r # team[t] => dirty'[r] = dirty[r]
    BY <1>0, <1>t, <1>5, <1>a DEF TypeOK
  <2>4. ModeInv(r)'
    BY <1>0, <1>f, <1>5, <1>a, <1>b, <2>3 DEF ModeInv, Full
  <2> QED
    BY <2>2, <2>4
<1> QED
  BY <1>1, <1>2, <1>3, <1>4, <1>5, <1>f DEF BaseInv

\* The flag says Back.
LEMMA SetBackBase == ASSUME BaseInv, NEW p \in Ranks, SetBack(p) PROVE BaseInv'
<1> USE DEF imageVars, trackVars, ckptVars, histVars
<1>0. /\ TypeOK /\ ControlInv /\ StageInv /\ FlagInv
      /\ \A r \in Procs : ListInv(r) /\ ModeInv(r)
  BY DEF BaseInv
<1>t. /\ team \in [Threads -> Ranks] /\ Procs \subseteq Ranks /\ 0 \in Procs
      /\ \A u \in Threads : team[u] \in Procs /\ team[u] \in Ranks /\ u \in Members(team[u])
      /\ \A u \in Threads : Touched(team, u) \subseteq Regions
  BY <1>0, TeamFacts
<1>f. /\ engine' = engine /\ team' = team /\ Procs' = Procs
      /\ \A r : Members(r)' = Members(r)
  BY DEF SetBack, Procs, Members
<1>a. /\ p \in Procs /\ phase[p] = "clear" /\ phase' = Set(phase, p, "back") /\ \A q \in Procs : phase[q] \in {"clear", "back"}
  BY DEF MPI_Barrier, Ready, SetBack
<1>b. /\ phase' \in [Ranks -> {"run", "flushed", "main", "copy", "clear", "back", "open", "recover", "copying"}]
      /\ phase'[p] = "back" /\ \A q \in Ranks : q # p => phase'[q] = phase[q]
  BY <1>0, <1>a DEF TypeOK, Set
<1>1. TypeOK'
  <2>1. consistent_data' \in [Ranks -> {"Main", "Back"}]
    BY <1>0 DEF TypeOK, SetBack, Set
  <2>2. consistent_data_pm' \in [Ranks -> (SUBSET {"Main", "Back"}) \ {{}}]
    BY <1>0 DEF TypeOK, SetBack, Set
  <2> QED
    BY <1>0, <1>b, <2>1, <2>2 DEF TypeOK, SetBack
<1>2. ControlInv'
  BY <1>0, <1>t, <1>f, <1>a, <1>b DEF ControlInv, SetBack
<1>3. StageInv'
  <2>1. \A q \in Procs : q # p => phase[q] \in {"clear", "back"}
    BY <1>0, <1>a DEF StageInv, Stages
  <2>2. \A q \in Procs : q # p => \E S \in Stages : "back" \in S /\ phase[q] \in S
    BY <2>1 DEF Stages
  <2>3. \E S \in Stages : "back" \in S
    BY DEF Stages
  <2> QED
    BY <1>0, <1>t, <1>f, <1>a, <1>b, <2>2, <2>3, StageStep
<1>4. FlagInv'
  <2>1. /\ consistent_data'[p] = "Back" /\ consistent_data_pm'[p] = {"Back"}
        /\ \A q \in Ranks : q # p => /\ consistent_data'[q] = consistent_data[q]
                                     /\ consistent_data_pm'[q] = consistent_data_pm[q]
    BY <1>0, <1>t, <1>a DEF TypeOK, Set, SetBack
  <2> QED
    BY <1>0, <1>t, <1>f, <1>a, <1>b, <2>1 DEF FlagInv
<1>5. ASSUME NEW r \in Procs PROVE ListInv(r)' /\ ModeInv(r)'
  <2>1. r # p => ListInv(r)' /\ ModeInv(r)'
    BY <1>0, <1>t, <1>f, <1>5, <1>a, <1>b DEF ListInv, ModeInv, Listed, Full, SetBack
  <2>2. r = p => ListInv(r)' /\ ModeInv(r)'
    BY <1>0, <1>t, <1>f, <1>5, <1>a, <1>b DEF ListInv, ModeInv, Listed, Full, SetBack
  <2> QED
    BY <2>1, <2>2
<1> QED
  BY <1>1, <1>2, <1>3, <1>4, <1>5, <1>f DEF BaseInv

\* The threads leave the checkpoint.
LEMMA CheckpointEndBase == ASSUME BaseInv, NEW p \in Ranks, CheckpointEnd(p) PROVE BaseInv'
<1> USE DEF imageVars, trackVars, ckptVars, histVars
<1>0. /\ TypeOK /\ ControlInv /\ StageInv /\ FlagInv
      /\ \A r \in Procs : ListInv(r) /\ ModeInv(r)
  BY DEF BaseInv
<1>t. /\ team \in [Threads -> Ranks] /\ Procs \subseteq Ranks /\ 0 \in Procs
      /\ \A u \in Threads : team[u] \in Procs /\ team[u] \in Ranks /\ u \in Members(team[u])
      /\ \A u \in Threads : Touched(team, u) \subseteq Regions
  BY <1>0, TeamFacts
<1>f. /\ engine' = engine /\ team' = team /\ Procs' = Procs
      /\ \A r : Members(r)' = Members(r)
  BY DEF CheckpointEnd, Procs, Members
<1>a. /\ p \in Procs /\ phase[p] = "back" /\ phase' = Set(phase, p, "run") /\ \A q \in Procs : phase[q] \in {"back", "run", "flushed"}
  BY DEF MPI_Barrier, Ready, CheckpointEnd
<1>b. /\ phase' \in [Ranks -> {"run", "flushed", "main", "copy", "clear", "back", "open", "recover", "copying"}]
      /\ phase'[p] = "run" /\ \A q \in Ranks : q # p => phase'[q] = phase[q]
  BY <1>0, <1>a DEF TypeOK, Set
<1>1. TypeOK'
  <2>1. flush_regions' \in [Threads -> SUBSET Regions]
    BY <1>0 DEF TypeOK, CheckpointEnd
  <2>2. \A u \in Threads : Cardinality(flush_regions'[u]) <= kMaxFlushRegions
    BY <1>0, EmptyBound DEF TypeOK, CheckpointEnd
  <2>3. dirty' \in [Ranks -> SUBSET Regions]
    <3>1. dirty' = dirty \/ dirty' = [dirty EXCEPT ![p] = {}]
      BY DEF CheckpointEnd, Set
    <3> QED
      BY <1>0, <3>1 DEF TypeOK
  <2>4. attributes' \in [Ranks -> BOOLEAN]
    <3>1. attributes \in [Ranks -> BOOLEAN] /\ attributes' = [attributes EXCEPT ![p] = TRUE]
      BY <1>0 DEF TypeOK, CheckpointEnd, Set, HasSnapshot
    <3> QED
      BY <3>1, Zenon
  <2>5. pc' \in [Threads -> {"app", "trap", "list", "clear", "wait"}]
    BY <1>0 DEF TypeOK, CheckpointEnd
  <2>6. pte_buffer' \in [Ranks -> SUBSET Regions]
    BY <1>0 DEF TypeOK, CheckpointEnd, Set
  <2> QED
    BY <1>0, <1>b, <2>1, <2>2, <2>3, <2>4, <2>5, <2>6 DEF TypeOK, CheckpointEnd
<1>2. ControlInv'
  BY <1>0, <1>t, <1>f, <1>a, <1>b DEF ControlInv, CheckpointEnd
<1>3. StageInv'
  <2>1. \A q \in Procs : q # p => phase[q] \in {"back", "run", "flushed"}
    BY <1>0, <1>a DEF StageInv, Stages
  <2>2. \A q \in Procs : q # p => \E S \in Stages : "run" \in S /\ phase[q] \in S
    BY <2>1 DEF Stages
  <2>3. \E S \in Stages : "run" \in S
    BY DEF Stages
  <2> QED
    BY <1>0, <1>t, <1>f, <1>a, <1>b, <2>2, <2>3, StageStep
<1>4. FlagInv'
  BY <1>0, <1>t, <1>f, <1>a, <1>b DEF FlagInv, CheckpointEnd
<1>5. ASSUME NEW r \in Procs PROVE ListInv(r)' /\ ModeInv(r)'
  <2>1. CASE r # p
    <3>1. /\ \A u \in Members(r) : u \in Threads /\ u \notin Members(p)
          /\ UNCHANGED <<writable, faulting, flush_mode>>
      BY <2>1 DEF Members, CheckpointEnd
    <3>2. \A u \in Members(r) : flush_regions'[u] = flush_regions[u] /\ pc'[u] = pc[u]
      BY <3>1 DEF CheckpointEnd
    <3>3. dirty'[r] = dirty[r] /\ pte_buffer'[r] = pte_buffer[r]
      BY <1>0, <1>t, <1>5, <2>1 DEF TypeOK, CheckpointEnd, Set
    <3>4. Listed(r)' = Listed(r) /\ (Full(r)' <=> Full(r))
      BY <1>f, <3>1, <3>2 DEF Listed, Full
    <3> QED
      BY <1>0, <1>t, <1>f, <1>5, <1>b, <2>1, <3>1, <3>2, <3>3, <3>4 DEF ListInv, ModeInv
  <2>2. CASE r = p
    <3>1. writable[r]' = {}
      BY <1>0, <1>5, <1>a, <2>2 DEF ListInv, CheckpointEnd
    <3> QED
      BY <1>b, <2>2, <3>1 DEF ListInv, ModeInv
  <2> QED
    BY <2>1, <2>2
<1> QED
  BY <1>1, <1>2, <1>3, <1>4, <1>5, <1>f DEF BaseInv

\* After a crash the processes open their pools.
LEMMA CrashBase == ASSUME BaseInv, Crash PROVE BaseInv'
<1>0. TypeOK
  BY DEF BaseInv
<1>t. Procs \subseteq Ranks /\ \A u \in Threads : team[u] \in Ranks
  BY <1>0, TeamFacts
<1>f. engine' = engine /\ team' = team /\ Procs' = Procs
  BY DEF Crash, Procs
<1>a. PICK m \in ResolveAll(main_pm, Contents), k \in ResolveAll(back_pm, Contents),
           c \in Resolve(consistent_data_pm, {"Main", "Back"}) :
        /\ main' = [r \in Ranks |-> IF r \in Procs THEN m[r] ELSE main[r]]
        /\ back' = [r \in Ranks |-> IF r \in Procs THEN k[r] ELSE back[r]]
        /\ consistent_data' = c
  BY DEF Crash
<1>1. TypeOK'
  <2>1. \A r \in Procs : m[r] \in [Regions -> Contents] /\ k[r] \in [Regions -> Contents]
    <3>1. \A r \in Procs : m[r] \in Resolve(main_pm[r], Contents) /\ k[r] \in Resolve(back_pm[r], Contents)
      BY DEF ResolveAll
    <3>2. \A r \in Procs : DOMAIN main_pm[r] = Regions /\ DOMAIN back_pm[r] = Regions
      BY <1>0, <1>t DEF TypeOK
    <3> QED
      BY <3>1, <3>2 DEF Resolve
  <2>2. main' \in [Ranks -> [Regions -> Contents]] /\ back' \in [Ranks -> [Regions -> Contents]]
    BY <1>0, <1>a, <2>1 DEF TypeOK
  <2>3. /\ main_pm' \in [Ranks -> [Regions -> (SUBSET Contents) \ {{}}]]
        /\ back_pm' \in [Ranks -> [Regions -> (SUBSET Contents) \ {{}}]]
    <3>1. \A r \in Ranks : /\ Settled(main'[r]) \in [Regions -> (SUBSET Contents) \ {{}}]
                           /\ Settled(back'[r]) \in [Regions -> (SUBSET Contents) \ {{}}]
      BY <2>2, SettledType
    <3> QED
      BY <3>1 DEF Crash
  <2>4. consistent_data' \in [Ranks -> {"Main", "Back"}]
    BY <1>0, <1>a DEF TypeOK, Resolve
  <2>5. consistent_data_pm' \in [Ranks -> (SUBSET {"Main", "Back"}) \ {{}}]
    BY <2>4 DEF Crash
  <2>6. \A u \in Threads : Cardinality(flush_regions'[u]) <= kMaxFlushRegions
    BY EmptyBound DEF Crash
  <2>7. work' \in [Ranks -> [Regions -> Contents]]
    BY DEF Crash, Contents
  <2>8. broken' \subseteq {"reset", "overtaken", "recovery", "attribute"}
    BY <1>0 DEF TypeOK, Crash
  <2>9. /\ engine' \in Engines /\ team' \in Teams /\ attributes' = attributes /\ snap' = snap
        /\ dirty' \in [Ranks -> SUBSET Regions] /\ writable' \in [Ranks -> SUBSET Regions]
        /\ flush_regions' \in [Threads -> SUBSET Regions] /\ faulting' \in [Threads -> Regions \cup {Null}]
        /\ flush_mode' \in [Ranks -> {"NO_ACTION", "USE_FLUSH_BLOCKS", "WBINVD"}]
        /\ pte_buffer' \in [Ranks -> SUBSET Regions]
        /\ phase' \in [Ranks -> {"run", "flushed", "main", "copy", "clear", "back", "open",
                                 "recover", "copying"}]
        /\ pc' \in [Threads -> {"app", "trap", "list", "clear", "wait"}]
        /\ clearing' \in [Threads -> SUBSET Regions]
    BY <1>0, <1>f DEF TypeOK, Crash
  <2> QED
    BY <1>0, <2>2, <2>3, <2>4, <2>5, <2>6, <2>7, <2>8, <2>9 DEF TypeOK
<1>b. /\ \A r \in Ranks : phase'[r] = "open" /\ writable'[r] = {}
      /\ \A t \in Threads : pc'[t] = "app" /\ clearing'[t] = {}
      /\ \A r \in Ranks : consistent_data_pm'[r] = {consistent_data'[r]}
  BY DEF Crash
<1>2. ControlInv'
  BY <1>b DEF ControlInv
<1>3. StageInv'
  BY <1>b, <1>f, <1>t DEF StageInv, Stages
<1>4. FlagInv'
  BY <1>b, <1>f, <1>t DEF FlagInv
<1>5. ASSUME NEW r \in Procs PROVE ListInv(r)' /\ ModeInv(r)'
  BY <1>b, <1>t, <1>5 DEF ListInv, ModeInv
<1> QED
  BY <1>1, <1>2, <1>3, <1>4, <1>5, <1>f DEF BaseInv

\* The flag of process 0 is broadcast.
LEMMA OpenPoolsBase == ASSUME BaseInv, OpenPools PROVE BaseInv'
<1> USE DEF imageVars, trackVars, ckptVars, histVars
<1>0. /\ TypeOK /\ ControlInv /\ StageInv /\ FlagInv
      /\ \A r \in Procs : ListInv(r) /\ ModeInv(r)
  BY DEF BaseInv
<1>t. /\ team \in [Threads -> Ranks] /\ Procs \subseteq Ranks /\ 0 \in Procs
      /\ \A u \in Threads : team[u] \in Procs /\ team[u] \in Ranks /\ u \in Members(team[u])
      /\ \A u \in Threads : Touched(team, u) \subseteq Regions
  BY <1>0, TeamFacts
<1>f. /\ engine' = engine /\ team' = team /\ Procs' = Procs
      /\ \A r : Members(r)' = Members(r)
  BY DEF OpenPools, Procs, Members
<1>a. /\ \A r \in Procs : phase[r] = "open"
      /\ consistent_data' = [r \in Ranks |-> IF r \in Procs THEN Agreed(r) ELSE "Back"]
      /\ consistent_data_pm' = [r \in Ranks |-> {consistent_data'[r]}]
      /\ phase' = [r \in Ranks |-> "recover"]
  BY DEF OpenPools
<1>1. TypeOK'
  <2>1. consistent_data' \in [Ranks -> {"Main", "Back"}]
    BY <1>0, <1>t, <1>a DEF TypeOK, Agreed
  <2>2. consistent_data_pm' \in [Ranks -> (SUBSET {"Main", "Back"}) \ {{}}]
    BY <1>a, <2>1
  <2>3. phase' \in [Ranks -> {"run", "flushed", "main", "copy", "clear", "back", "open",
                              "recover", "copying"}]
    BY <1>a
  <2> QED
    BY <1>0, <2>1, <2>2, <2>3 DEF TypeOK, OpenPools
<1>2. ControlInv'
  BY <1>0, <1>t, <1>f, <1>a DEF ControlInv, OpenPools
<1>3. StageInv'
  BY <1>t, <1>f, <1>a DEF StageInv, Stages
<1>4. FlagInv'
  BY <1>t, <1>f, <1>a DEF FlagInv, Agreed
<1>5. ASSUME NEW r \in Procs PROVE ListInv(r)' /\ ModeInv(r)'
  BY <1>0, <1>t, <1>f, <1>5, <1>a DEF ListInv, ModeInv, OpenPools
<1> QED
  BY <1>1, <1>2, <1>3, <1>4, <1>5, <1>f DEF BaseInv

\* One copy over the other.
LEMMA RecoverCopyBase == ASSUME BaseInv, NEW p \in Ranks, RecoverCopy(p) PROVE BaseInv'
<1> USE DEF imageVars, trackVars, ckptVars, histVars
<1>0. /\ TypeOK /\ ControlInv /\ StageInv /\ FlagInv
      /\ \A r \in Procs : ListInv(r) /\ ModeInv(r)
  BY DEF BaseInv
<1>t. /\ team \in [Threads -> Ranks] /\ Procs \subseteq Ranks /\ 0 \in Procs
      /\ \A u \in Threads : team[u] \in Procs /\ team[u] \in Ranks /\ u \in Members(team[u])
      /\ \A u \in Threads : Touched(team, u) \subseteq Regions
  BY <1>0, TeamFacts
<1>f. /\ engine' = engine /\ team' = team /\ Procs' = Procs
      /\ \A r : Members(r)' = Members(r)
  BY DEF RecoverCopy, Procs, Members
<1>a. /\ p \in Procs /\ phase[p] = "recover" /\ phase' = Set(phase, p, "copying")
  BY DEF MPI_Barrier, Ready, RecoverCopy
<1>b. /\ phase' \in [Ranks -> {"run", "flushed", "main", "copy", "clear", "back", "open", "recover", "copying"}]
      /\ phase'[p] = "copying" /\ \A q \in Ranks : q # p => phase'[q] = phase[q]
  BY <1>0, <1>a DEF TypeOK, Set
<1>1. TypeOK'
  <2>1. /\ back' \in [Ranks -> [Regions -> Contents]]
        /\ main' \in [Ranks -> [Regions -> Contents]]
    <3>1. main' = main \/ main' = [main EXCEPT ![p] = back[p]]
      BY DEF RecoverCopy, Restored, Set
    <3>2. back' = back \/ back' = [back EXCEPT ![p] = main[p]]
      BY DEF RecoverCopy, Set
    <3>3. main \in [Ranks -> [Regions -> Contents]] /\ back \in [Ranks -> [Regions -> Contents]]
      BY <1>0 DEF TypeOK
    <3>4. main[p] \in [Regions -> Contents] /\ back[p] \in [Regions -> Contents]
      BY <3>3
    <3>5. main' \in [Ranks -> [Regions -> Contents]]
      BY <3>1, <3>3, <3>4
    <3>6. back' \in [Ranks -> [Regions -> Contents]]
      BY <3>2, <3>3, <3>4
    <3> QED
      BY <3>5, <3>6
  <2>2. back_pm' \in [Ranks -> [Regions -> (SUBSET Contents) \ {{}}]]
    <3>1. Put(back_pm[p], Regions, main[p]) \in [Regions -> (SUBSET Contents) \ {{}}]
      BY <1>0, PutType DEF TypeOK
    <3>2. \/ back_pm' = back_pm
          \/ back_pm' = [back_pm EXCEPT ![p] = Put(back_pm[p], Regions, main[p])]
      BY DEF RecoverCopy, Set
    <3> QED
      BY <1>0, <3>1, <3>2 DEF TypeOK
  <2>3. main_pm' \in [Ranks -> [Regions -> (SUBSET Contents) \ {{}}]]
    <3>1. Put(main_pm[p], Regions, back[p]) \in [Regions -> (SUBSET Contents) \ {{}}]
      BY <1>0, PutType DEF TypeOK
    <3>2. \/ main_pm' = main_pm
          \/ main_pm' = [main_pm EXCEPT ![p] = Put(main_pm[p], Regions, back[p])]
      BY DEF RecoverCopy, Restored, Set
    <3> QED
      BY <1>0, <3>1, <3>2 DEF TypeOK
  <2>4. consistent_data_pm' \in [Ranks -> (SUBSET {"Main", "Back"}) \ {{}}]
    <3>1. \/ consistent_data_pm' = consistent_data_pm
          \/ consistent_data_pm' = [consistent_data_pm EXCEPT ![p] = @ \cup {"Back"}]
      BY DEF RecoverCopy
    <3>2. consistent_data_pm \in [Ranks -> (SUBSET {"Main", "Back"}) \ {{}}]
      BY <1>0 DEF TypeOK
    <3> QED
      BY <3>1, <3>2
  <2> QED
    BY <1>0, <1>b, <2>1, <2>2, <2>3, <2>4 DEF TypeOK, RecoverCopy
<1>2. ControlInv'
  BY <1>0, <1>t, <1>f, <1>a, <1>b DEF ControlInv, RecoverCopy
<1>3. StageInv'
  <2>1. \A q \in Procs : q # p => phase[q] \in {"run", "flushed", "recover", "copying"}
    BY <1>0, <1>a DEF StageInv, Stages
  <2>2. \A q \in Procs : q # p => \E S \in Stages : "copying" \in S /\ phase[q] \in S
    BY <2>1 DEF Stages
  <2>3. \E S \in Stages : "copying" \in S
    BY DEF Stages
  <2> QED
    BY <1>0, <1>t, <1>f, <1>a, <1>b, <2>2, <2>3, StageStep
<1>4. FlagInv'
  <2>1. /\ \A q \in Ranks : q # p => consistent_data_pm'[q] = consistent_data_pm[q]
        /\ consistent_data[p] = "Main" => "Back" \in consistent_data_pm'[p]
        /\ consistent_data[p] # "Main" => consistent_data_pm'[p] = consistent_data_pm[p]
        /\ consistent_data' = consistent_data
    BY <1>0, <1>t, <1>a DEF TypeOK, RecoverCopy, FromMain
  <2> QED
    BY <1>0, <1>t, <1>f, <1>a, <1>b, <2>1 DEF FlagInv
<1>5. ASSUME NEW r \in Procs PROVE ListInv(r)' /\ ModeInv(r)'
  <2>1. r # p => ListInv(r)' /\ ModeInv(r)'
    BY <1>0, <1>t, <1>f, <1>5, <1>a, <1>b DEF ListInv, ModeInv, Listed, Full, RecoverCopy
  <2>2. r = p => ListInv(r)' /\ ModeInv(r)'
    BY <1>0, <1>t, <1>f, <1>5, <1>a, <1>b DEF ListInv, ModeInv, Listed, Full, RecoverCopy
  <2> QED
    BY <2>1, <2>2
<1> QED
  BY <1>1, <1>2, <1>3, <1>4, <1>5, <1>f DEF BaseInv

\* Open returns.
LEMMA OpenDoneBase == ASSUME BaseInv, NEW p \in Ranks, OpenDone(p) PROVE BaseInv'
<1> USE DEF imageVars, trackVars, ckptVars, histVars
<1>0. /\ TypeOK /\ ControlInv /\ StageInv /\ FlagInv
      /\ \A r \in Procs : ListInv(r) /\ ModeInv(r)
  BY DEF BaseInv
<1>t. /\ team \in [Threads -> Ranks] /\ Procs \subseteq Ranks /\ 0 \in Procs
      /\ \A u \in Threads : team[u] \in Procs /\ team[u] \in Ranks /\ u \in Members(team[u])
      /\ \A u \in Threads : Touched(team, u) \subseteq Regions
  BY <1>0, TeamFacts
<1>f. /\ engine' = engine /\ team' = team /\ Procs' = Procs
      /\ \A r : Members(r)' = Members(r)
  BY DEF OpenDone, Procs, Members
<1>a. /\ p \in Procs /\ phase[p] = "copying" /\ phase' = Set(phase, p, "run")
  BY DEF MPI_Barrier, Ready, OpenDone
<1>b. /\ phase' \in [Ranks -> {"run", "flushed", "main", "copy", "clear", "back", "open", "recover", "copying"}]
      /\ phase'[p] = "run" /\ \A q \in Ranks : q # p => phase'[q] = phase[q]
  BY <1>0, <1>a DEF TypeOK, Set
<1>1. TypeOK'
  <2>1. consistent_data' \in [Ranks -> {"Main", "Back"}]
    BY <1>0 DEF TypeOK, OpenDone, Set
  <2>2. consistent_data_pm' \in [Ranks -> (SUBSET {"Main", "Back"}) \ {{}}]
    BY <1>0 DEF TypeOK, OpenDone, Set
  <2>3. back_pm' \in [Ranks -> [Regions -> (SUBSET Contents) \ {{}}]]
    <3>1. Settled(back[p]) \in [Regions -> (SUBSET Contents) \ {{}}]
      <4>1. back[p] \in [Regions -> Contents]
        BY <1>0 DEF TypeOK
      <4> QED
        BY <4>1, SettledType
    <3>2. back_pm' = [back_pm EXCEPT ![p] = Settled(back[p])]
      BY DEF OpenDone, Set
    <3>3. back_pm \in [Ranks -> [Regions -> (SUBSET Contents) \ {{}}]]
      BY <1>0 DEF TypeOK
    <3> QED
      BY <3>1, <3>2, <3>3
  <2>4. work' \in [Ranks -> [Regions -> Contents]]
    <3>1. Prepared(p) \in [Regions -> Contents]
      BY <1>0 DEF TypeOK, Prepared
    <3>2. work' = [work EXCEPT ![p] = Prepared(p)]
      BY DEF OpenDone, Set
    <3> QED
      BY <1>0, <3>1, <3>2 DEF TypeOK
  <2> QED
    BY <1>0, <1>b, <2>1, <2>2, <2>3, <2>4 DEF TypeOK, OpenDone
<1>2. ControlInv'
  BY <1>0, <1>t, <1>f, <1>a, <1>b DEF ControlInv, OpenDone
<1>3. StageInv'
  <2>1. \A q \in Procs : q # p => phase[q] \in {"run", "flushed", "recover", "copying"}
    BY <1>0, <1>a DEF StageInv, Stages
  <2>2. \A q \in Procs : q # p => \E S \in Stages : "run" \in S /\ phase[q] \in S
    BY <2>1 DEF Stages
  <2>3. \E S \in Stages : "run" \in S
    BY DEF Stages
  <2> QED
    BY <1>0, <1>t, <1>f, <1>a, <1>b, <2>2, <2>3, StageStep
<1>4. FlagInv'
  <2>1. /\ consistent_data'[p] = "Back" /\ consistent_data_pm'[p] = {"Back"}
        /\ \A q \in Ranks : q # p => /\ consistent_data'[q] = consistent_data[q]
                                     /\ consistent_data_pm'[q] = consistent_data_pm[q]
    BY <1>0, <1>t, <1>a DEF TypeOK, Set, OpenDone
  <2> QED
    BY <1>0, <1>t, <1>f, <1>a, <1>b, <2>1 DEF FlagInv
<1>5. ASSUME NEW r \in Procs PROVE ListInv(r)' /\ ModeInv(r)'
  <2>1. r # p => ListInv(r)' /\ ModeInv(r)'
    BY <1>0, <1>t, <1>f, <1>5, <1>a, <1>b DEF ListInv, ModeInv, Listed, Full, OpenDone
  <2>2. r = p => ListInv(r)' /\ ModeInv(r)'
    BY <1>0, <1>t, <1>f, <1>5, <1>a, <1>b DEF ListInv, ModeInv, Listed, Full, OpenDone
  <2> QED
    BY <2>1, <2>2
<1> QED
  BY <1>1, <1>2, <1>3, <1>4, <1>5, <1>f DEF BaseInv

\* Every step preserves the invariant of the control.
LEMMA NextBase == BaseInv /\ [Next]_vars => BaseInv'
<1> SUFFICES ASSUME BaseInv, [Next]_vars PROVE BaseInv'
  OBVIOUS
<1>1. CASE UNCHANGED vars
  <2>1. TypeOK'
    BY <1>1 DEF vars, imageVars, trackVars, ckptVars, histVars, BaseInv, TypeOK
  <2>3. ControlInv' /\ StageInv' /\ FlagInv'
    BY <1>1 DEF vars, imageVars, trackVars, ckptVars, histVars, BaseInv, ControlInv,
                StageInv, FlagInv, Procs
  <2>2. Procs' = Procs /\ \A r \in Procs : ListInv(r)' /\ ModeInv(r)'
    BY <1>1 DEF vars, imageVars, trackVars, ckptVars, histVars, BaseInv, ListInv, ModeInv,
                Listed, Full, Members, Procs
  <2> QED
    BY <2>1, <2>2, <2>3 DEF BaseInv
<1>2. CASE Thread
  BY <1>2, StoreBase, FaultBase, HandleBase, ListBase, ClearBase DEF Thread
<1>3. CASE Checkpoint
  BY <1>3, CheckpointBeginBase, SetMainBase, WriteBackBase, EndCopyBase, SetBackBase,
     CheckpointEndBase DEF Checkpoint
<1>4. CASE Recovery
  BY <1>4, OpenPoolsBase, RecoverCopyBase, OpenDoneBase DEF Recovery
<1>5. CASE Crash \/ \E r \in Ranks : OtherPoolReset(r)
  BY <1>5, CrashBase, OtherPoolResetBase
<1> QED
  BY <1>1, <1>2, <1>3, <1>4, <1>5 DEF Next

LEMMA BaseInductive == Spec => []BaseInv
BY InitBase, NextBase, PTL DEF Spec

\* Type correctness, and no store escapes the lists: a region that may be
\* written without a fault is listed, is about to be, or did not fit, which
\* makes checkpoint take the whole cache.
THEOREM StoresListed == Spec => []WritableIsListed
<1>1. BaseInv => WritableIsListed
  BY DEF BaseInv, ListInv, Full, WritableIsListed
<1> QED
  BY <1>1, BaseInductive, PTL

-----------------------------------------------------------------------------
(* The data.                                                               *)

\* A region of a process that a step leaves alone.
LEMMA Untouched ==
  ASSUME engine' = engine, Hybrid' <=> Hybrid, NEW r, NEW g, CopyInv(r, g), MediumInv(r, g),
         SnapInv(r, g), phase'[r] = phase[r], main'[r] = main[r], main_pm'[r] = main_pm[r],
         back'[r] = back[r], back_pm'[r] = back_pm[r], work'[r] = work[r],
         dirty'[r] = dirty[r], writable'[r] = writable[r],
         consistent_data'[r] = consistent_data[r], snap'[r] = snap[r],
         phase[r] \in {"flushed", "main"} =>
           (phase'[0] \in {"main", "copy", "clear"} <=> phase[0] \in {"main", "copy", "clear"}),
         phase[r] = "open" => consistent_data'[0] = consistent_data[0]
  PROVE  CopyInv(r, g)' /\ MediumInv(r, g)' /\ SnapInv(r, g)'
<1>1. Memory(r)' = Memory(r)
  BY DEF Memory
<1>2. CopyInv(r, g)'
  BY <1>1 DEF CopyInv
<1>3. MediumInv(r, g)'
  BY DEF MediumInv
<1>4. SnapInv(r, g)'
  BY DEF SnapInv
<1> QED
  BY <1>2, <1>3, <1>4

\* Crash consistency follows from the invariant.
LEMMA SafeFromInv == ASSUME BaseInv, DataInv PROVE SafeUnlessBroken
<1> SUFFICES ASSUME ~Exposed, NEW r \in Procs, NEW g \in Regions, snap[r][g] # Junk,
                    NEW c \in consistent_data_pm[0]
             PROVE  (IF c = "Main" THEN main_pm[r][g] ELSE back_pm[r][g]) = {snap[r][g]}
  BY DEF SafeUnlessBroken
<1>0. /\ TypeOK /\ StageInv /\ FlagInv
      /\ CopyInv(r, g) /\ MediumInv(r, g) /\ SnapInv(r, g)
  BY DEF BaseInv, DataInv
<1>t. 0 \in Procs /\ 0 \in Ranks /\ r \in Ranks
  BY <1>0, TeamFacts
<1>s. PICK S \in Stages : phase[0] \in S /\ phase[r] \in S
  BY <1>0, <1>t DEF StageInv
<1>1. CASE phase[0] \in {"main", "copy", "clear"}
  <2>1. c = "Main"
    BY <1>0, <1>1, <1>t DEF FlagInv
  <2>2. phase[r] \in {"flushed", "main", "copy", "clear", "back"}
    BY <1>1, <1>s DEF Stages
  <2> QED
    BY <1>0, <1>1, <2>1, <2>2 DEF MediumInv, SnapInv
<1>2. CASE phase[0] \in {"run", "flushed", "back"}
  <2>1. c = "Back"
    BY <1>0, <1>2, <1>t DEF FlagInv
  <2>2. phase[r] \in {"run", "flushed", "main", "clear", "back", "recover", "copying"}
    BY <1>2, <1>s DEF Stages
  <2>3. phase[r] \in {"recover", "copying"} => consistent_data[r] = "Back"
    BY <1>0, <1>2, <1>t DEF TypeOK, Exposed, RecoversFromMain
  <2> QED
    BY <1>0, <1>2, <2>1, <2>2, <2>3 DEF CopyInv, MediumInv, SnapInv
<1>3. CASE phase[0] = "open"
  <2>1. c = consistent_data[0]
    BY <1>0, <1>3, <1>t DEF FlagInv
  <2>2. phase[r] = "open"
    BY <1>3, <1>s DEF Stages
  <2> QED
    BY <1>0, <2>1, <2>2 DEF MediumInv, SnapInv
<1>4. CASE phase[0] \in {"recover", "copying"}
  <2>1. CASE consistent_data[0] = "Main"
    <3>1. c = "Main" /\ phase[r] \in {"recover", "copying"}
      BY <1>0, <1>4, <1>t, <2>1 DEF TypeOK, Exposed, RecoversFromMain
    <3>2. consistent_data[r] = "Main"
      BY <1>0, <1>4, <1>t, <2>1, <3>1 DEF FlagInv
    <3> QED
      BY <1>0, <3>1, <3>2 DEF MediumInv, SnapInv
  <2>2. CASE consistent_data[0] = "Back"
    <3>1. c = "Back"
      BY <1>0, <1>4, <1>t, <2>2 DEF FlagInv
    <3>2. phase[r] \in {"run", "flushed", "recover", "copying"}
      BY <1>4, <1>s DEF Stages
    <3>3. phase[r] \in {"recover", "copying"} => consistent_data[r] = "Back"
      BY <1>0, <1>4, <1>t, <2>2 DEF FlagInv
    <3> QED
      BY <1>0, <1>4, <3>1, <3>2, <3>3 DEF MediumInv, SnapInv
  <2> QED
    BY <1>0, <1>t, <2>1, <2>2 DEF TypeOK
<1> QED
  BY <1>0, <1>t, <1>1, <1>2, <1>3, <1>4 DEF TypeOK

\* Initially the copies are equal.
LEMMA InitData == Init => DataInv
<1> SUFFICES ASSUME Init PROVE DataInv
  OBVIOUS
<1>t. Procs \subseteq Ranks
  BY InitBase, TeamFacts DEF BaseInv
<1>1. AttributeInv
  BY <1>t DEF Init, AttributeInv
<1>2. ASSUME NEW r \in Procs, NEW g \in Regions
      PROVE  CopyInv(r, g) /\ MediumInv(r, g) /\ SnapInv(r, g)
  <2>1. r \in Ranks
    BY <1>t, <1>2
  <2>2. /\ phase[r] = "run" /\ writable[r] = {}
        /\ main[r][g] = Junk /\ back[r][g] = Junk /\ work[r][g] = Junk
        /\ back_pm[r][g] = {Junk} /\ snap[r][g] = Junk
    BY <1>2, <2>1 DEF Init
  <2>3. Memory(r)[g] = Junk
    BY <2>2 DEF Memory
  <2> QED
    BY <2>2, <2>3 DEF CopyInv, MediumInv, SnapInv
<1> QED
  BY <1>1, <1>2 DEF DataInv

\* A store goes to a region that is dirty.
LEMMA StoreData ==
  ASSUME BaseInv, BaseInv', broken = {} => DataInv, NEW t \in Threads, Store(t), broken' = {}
  PROVE  DataInv'
<1> USE DEF imageVars, trackVars, ckptVars, histVars
<1>0. /\ TypeOK /\ ControlInv /\ StageInv /\ FlagInv
      /\ \A r \in Procs : ListInv(r) /\ ModeInv(r)
  BY DEF BaseInv
<1>t. /\ team \in [Threads -> Ranks] /\ Procs \subseteq Ranks /\ 0 \in Procs
      /\ \A u \in Threads : team[u] \in Procs /\ team[u] \in Ranks /\ u \in Members(team[u])
      /\ \A u \in Threads : Touched(team, u) \subseteq Regions
  BY <1>0, TeamFacts
<1>d. /\ AttributeInv
      /\ \A r \in Procs, g \in Regions : CopyInv(r, g) /\ MediumInv(r, g) /\ SnapInv(r, g)
  BY DEF DataInv, Store
<1>f. /\ engine' = engine /\ team' = team /\ Procs' = Procs
      /\ Hybrid' <=> Hybrid
  BY DEF Store, Procs, Hybrid, mpi
<1>a. PICK g0 \in Touched(team, t), v \in Values :
        /\ engine = "mprotect" => g0 \in writable[team[t]]
        /\ Hybrid => work' = [work EXCEPT ![team[t]][g0] = v] /\ UNCHANGED <<main, main_pm>>
        /\ ~Hybrid => /\ main' = [main EXCEPT ![team[t]][g0] = v]
                      /\ main_pm' = [main_pm EXCEPT ![team[t]][g0] = @ \cup {v}]
                      /\ UNCHANGED work
        /\ dirty' = IF engine = "dirtybit" THEN [dirty EXCEPT ![team[t]] = @ \cup {g0}] ELSE dirty
  BY DEF Store
<1>b. /\ phase[team[t]] = "run" /\ UNCHANGED <<phase, back, back_pm, writable, consistent_data, attributes>>
  BY DEF Store
<1>s. \A q \in Ranks : snap'[q] = snap[q]
  BY DEF Store
<1>c. \A h \in Regions : h # g0 => main'[team[t]][h] = main[team[t]][h] /\ work'[team[t]][h] = work[team[t]][h]
  <2>1. /\ main \in [Ranks -> [Regions -> Contents]] /\ work \in [Ranks -> [Regions -> Contents]]
        /\ team[t] \in Ranks
    BY <1>0, <1>t DEF TypeOK
  <2> QED
    BY <1>a, <2>1
<1>e. \A h : h \notin dirty'[team[t]] => h \notin dirty[team[t]] /\ (engine = "dirtybit" => h # g0)
  BY <1>0, <1>t, <1>a DEF TypeOK
<1>k. ASSUME NEW q \in Ranks, q # team[t]
      PROVE  /\ phase'[q] = phase[q] /\ main'[q] = main[q] /\ main_pm'[q] = main_pm[q]
             /\ back'[q] = back[q] /\ back_pm'[q] = back_pm[q] /\ work'[q] = work[q]
             /\ dirty'[q] = dirty[q] /\ writable'[q] = writable[q]
             /\ consistent_data'[q] = consistent_data[q]
  BY <1>0, <1>t, <1>a, <1>b, <1>k DEF TypeOK
<1>1. AttributeInv'
  BY <1>d, <1>f, <1>b DEF AttributeInv
<1>2. ASSUME NEW r \in Procs, NEW g \in Regions
      PROVE  CopyInv(r, g)' /\ MediumInv(r, g)' /\ SnapInv(r, g)'
  <2>r. r \in Ranks
    BY <1>t, <1>2
  <2>1. CASE r # team[t]
    <3>1. CopyInv(r, g) /\ MediumInv(r, g) /\ SnapInv(r, g)
      BY <1>2, <1>d
    <3>2. phase[r] \in {"flushed", "main"} =>
            (phase'[0] \in {"main", "copy", "clear"} <=> phase[0] \in {"main", "copy", "clear"})
      BY <1>b
    <3>3. phase[r] = "open" => consistent_data'[0] = consistent_data[0]
      BY <1>b
    <3> QED
      BY <1>f, <1>k, <1>s, <2>r, <2>1, <3>1, <3>2, <3>3, Untouched
  <2>2. CASE r = team[t]
    <3>1. CopyInv(r, g) /\ MediumInv(r, g) /\ SnapInv(r, g) /\ phase'[r] = "run" /\ phase[r] = "run"
      BY <1>2, <1>d, <1>b, <2>2
    <3>2. CASE engine = "mprotect"
      <4>1. ~Hybrid
        BY <3>2 DEF Hybrid
      <4>2. dirty' = dirty /\ (g \notin writable[r] => main'[r][g] = main[r][g])
        BY <1>2, <1>a, <1>c, <2>2, <3>2
      <4>3. CopyInv(r, g)'
        BY <1>f, <1>b, <3>1, <3>2, <4>1, <4>2 DEF CopyInv
      <4> QED
        BY <1>b, <1>s, <2>r, <3>1, <4>3 DEF MediumInv, SnapInv
    <3>3. CASE engine = "dirtybit"
      <4>1. g \notin dirty'[r] => Memory(r)'[g] = Memory(r)[g] /\ g \notin dirty[r]
        BY <1>2, <1>f, <1>c, <1>e, <2>2, <3>3 DEF Memory
      <4>2. CopyInv(r, g)'
        BY <1>f, <1>a, <1>b, <3>1, <3>3, <4>1 DEF CopyInv
      <4> QED
        BY <1>b, <1>s, <2>r, <3>1, <4>2 DEF MediumInv, SnapInv
    <3> QED
      BY <1>0, <3>2, <3>3, PageAssumption DEF TypeOK
  <2> QED
    BY <2>1, <2>2
<1> QED
  BY <1>1, <1>2, <1>f DEF DataInv

\* A fault changes no data.
LEMMA FaultData ==
  ASSUME BaseInv, BaseInv', broken = {} => DataInv, NEW t \in Threads, Fault(t), broken' = {}
  PROVE  DataInv'
<1> USE DEF imageVars, trackVars, ckptVars, histVars
<1>0. /\ TypeOK /\ ControlInv /\ StageInv /\ FlagInv
      /\ \A r \in Procs : ListInv(r) /\ ModeInv(r)
  BY DEF BaseInv
<1>t. /\ team \in [Threads -> Ranks] /\ Procs \subseteq Ranks /\ 0 \in Procs
      /\ \A u \in Threads : team[u] \in Procs /\ team[u] \in Ranks /\ u \in Members(team[u])
      /\ \A u \in Threads : Touched(team, u) \subseteq Regions
  BY <1>0, TeamFacts
<1>d. /\ AttributeInv
      /\ \A r \in Procs, g \in Regions : CopyInv(r, g) /\ MediumInv(r, g) /\ SnapInv(r, g)
  BY DEF DataInv, Fault
<1>f. /\ engine' = engine /\ team' = team /\ Procs' = Procs
      /\ Hybrid' <=> Hybrid
  BY DEF Fault, Procs, Hybrid, mpi
<1>b. UNCHANGED <<phase, main, main_pm, back, back_pm, work, dirty, writable, consistent_data, attributes, snap>>
  BY DEF Fault
<1>1. AttributeInv'
  BY <1>d, <1>f, <1>b DEF AttributeInv
<1>2. ASSUME NEW r \in Procs, NEW g \in Regions
      PROVE  CopyInv(r, g)' /\ MediumInv(r, g)' /\ SnapInv(r, g)'
  BY <1>2, <1>d, <1>f, <1>b, Untouched
<1> QED
  BY <1>1, <1>2, <1>f DEF DataInv

\* Nor do the lists.
LEMMA ListData ==
  ASSUME BaseInv, BaseInv', broken = {} => DataInv, NEW t \in Threads, List(t), broken' = {}
  PROVE  DataInv'
<1> USE DEF imageVars, trackVars, ckptVars, histVars
<1>0. /\ TypeOK /\ ControlInv /\ StageInv /\ FlagInv
      /\ \A r \in Procs : ListInv(r) /\ ModeInv(r)
  BY DEF BaseInv
<1>t. /\ team \in [Threads -> Ranks] /\ Procs \subseteq Ranks /\ 0 \in Procs
      /\ \A u \in Threads : team[u] \in Procs /\ team[u] \in Ranks /\ u \in Members(team[u])
      /\ \A u \in Threads : Touched(team, u) \subseteq Regions
  BY <1>0, TeamFacts
<1>d. /\ AttributeInv
      /\ \A r \in Procs, g \in Regions : CopyInv(r, g) /\ MediumInv(r, g) /\ SnapInv(r, g)
  BY DEF DataInv, List
<1>f. /\ engine' = engine /\ team' = team /\ Procs' = Procs
      /\ Hybrid' <=> Hybrid
  BY DEF List, Procs, Hybrid, mpi
<1>b. UNCHANGED <<phase, main, main_pm, back, back_pm, work, dirty, writable, consistent_data, attributes, snap>>
  BY DEF List
<1>1. AttributeInv'
  BY <1>d, <1>f, <1>b DEF AttributeInv
<1>2. ASSUME NEW r \in Procs, NEW g \in Regions
      PROVE  CopyInv(r, g)' /\ MediumInv(r, g)' /\ SnapInv(r, g)'
  BY <1>2, <1>d, <1>f, <1>b, Untouched
<1> QED
  BY <1>1, <1>2, <1>f DEF DataInv

\* The handler sets the bit of the region it opens.
LEMMA HandleData ==
  ASSUME BaseInv, BaseInv', broken = {} => DataInv, NEW t \in Threads, Handle(t), broken' = {}
  PROVE  DataInv'
<1> USE DEF imageVars, trackVars, ckptVars, histVars
<1>0. /\ TypeOK /\ ControlInv /\ StageInv /\ FlagInv
      /\ \A r \in Procs : ListInv(r) /\ ModeInv(r)
  BY DEF BaseInv
<1>t. /\ team \in [Threads -> Ranks] /\ Procs \subseteq Ranks /\ 0 \in Procs
      /\ \A u \in Threads : team[u] \in Procs /\ team[u] \in Ranks /\ u \in Members(team[u])
      /\ \A u \in Threads : Touched(team, u) \subseteq Regions
  BY <1>0, TeamFacts
<1>d. /\ AttributeInv
      /\ \A r \in Procs, g \in Regions : CopyInv(r, g) /\ MediumInv(r, g) /\ SnapInv(r, g)
  BY DEF DataInv, Handle
<1>f. /\ engine' = engine /\ team' = team /\ Procs' = Procs
      /\ Hybrid' <=> Hybrid
  BY DEF Handle, Procs, Hybrid, mpi
<1>a. faulting[t] \in Regions /\ engine = "mprotect" /\ phase[team[t]] = "run"
  BY <1>0 DEF ControlInv, Handle
<1>b. UNCHANGED <<phase, main, main_pm, back, back_pm, work, consistent_data, attributes, snap>>
  BY DEF Handle
<1>c. \A q \in Ranks : /\ q # team[t] => dirty'[q] = dirty[q] /\ writable'[q] = writable[q]
                       /\ q = team[t] => /\ dirty'[q] = dirty[q] \cup {faulting[t]}
                                         /\ writable'[q] = writable[q] \cup {faulting[t]}
  BY <1>0, <1>t DEF TypeOK, Handle
<1>1. AttributeInv'
  BY <1>d, <1>f, <1>b DEF AttributeInv
<1>2. ASSUME NEW r \in Procs, NEW g \in Regions
      PROVE  CopyInv(r, g)' /\ MediumInv(r, g)' /\ SnapInv(r, g)'
  <2>1. CopyInv(r, g) /\ MediumInv(r, g) /\ SnapInv(r, g) /\ r \in Ranks
    BY <1>2, <1>d, <1>t
  <2>2. CopyInv(r, g)'
    <3>1. Memory(r)' = Memory(r)
      BY <1>b, <1>f DEF Memory
    <3>2. g \in writable'[r] => g \in writable[r] \/ g \in dirty'[r]
      BY <1>c, <2>1
    <3>3. (g \in writable[r] => g \in writable'[r]) /\ (g \in dirty[r] => g \in dirty'[r])
      BY <1>c, <2>1
    <3> QED
      BY <1>a, <1>b, <1>f, <2>1, <3>1, <3>2, <3>3 DEF CopyInv
  <2> QED
    BY <1>b, <2>1, <2>2 DEF MediumInv, SnapInv
<1> QED
  BY <1>1, <1>2, <1>f DEF DataInv

\* A late thread that clears the bit of a writable region breaks the engine.
LEMMA ClearData ==
  ASSUME BaseInv, BaseInv', broken = {} => DataInv, NEW t \in Threads, Clear(t), broken' = {}
  PROVE  DataInv'
<1> USE DEF imageVars, trackVars, ckptVars, histVars
<1>0. /\ TypeOK /\ ControlInv /\ StageInv /\ FlagInv
      /\ \A r \in Procs : ListInv(r) /\ ModeInv(r)
  BY DEF BaseInv
<1>t. /\ team \in [Threads -> Ranks] /\ Procs \subseteq Ranks /\ 0 \in Procs
      /\ \A u \in Threads : team[u] \in Procs /\ team[u] \in Ranks /\ u \in Members(team[u])
      /\ \A u \in Threads : Touched(team, u) \subseteq Regions
  BY <1>0, TeamFacts
<1>d. /\ AttributeInv
      /\ \A r \in Procs, g \in Regions : CopyInv(r, g) /\ MediumInv(r, g) /\ SnapInv(r, g)
  BY DEF DataInv, Clear
<1>f. /\ engine' = engine /\ team' = team /\ Procs' = Procs
      /\ Hybrid' <=> Hybrid
  BY DEF Clear, Procs, Hybrid, mpi
<1>b. UNCHANGED <<phase, main, main_pm, back, back_pm, work, writable, consistent_data, attributes, snap>>
  BY DEF Clear
<1>a. phase[team[t]] \in {"run", "clear", "back"} /\ (engine = "dirtybit" => clearing[t] = {})
  BY <1>0 DEF ControlInv, Clear
<1> DEFINE late == phase[team[t]] # "clear" /\ phase[team[t]] # "back"
           now == {h \div kBitWidth : h \in Listed(team[t])}
           Lost(C) == {h \in dirty[team[t]] : h \div kBitWidth \in C}
<1>c. PICK C \in IF late /\ engine = "mprotect" THEN SUBSET (clearing[t] \cup now) ELSE {clearing[t]} :
        /\ dirty' = [dirty EXCEPT ![team[t]] = @ \ Lost(C)]
        /\ broken' = IF late /\ Lost(C) \cap writable[team[t]] # {} THEN {"overtaken"} ELSE broken
  BY DEF Clear
<1>e. late => Lost(C) \cap writable[team[t]] = {}
  BY <1>c
<1>g. engine = "dirtybit" => Lost(C) = {}
  <2>1. engine = "dirtybit" => C = {}
    BY <1>a, <1>c
  <2> QED
    BY <2>1
<1> HIDE DEF Lost
<1>h. \A q \in Ranks : dirty'[q] = IF q = team[t] THEN dirty[q] \ Lost(C) ELSE dirty[q]
  BY <1>0, <1>c DEF TypeOK
<1>1. AttributeInv'
  BY <1>d, <1>f, <1>b DEF AttributeInv
<1>2. ASSUME NEW r \in Procs, NEW g \in Regions
      PROVE  CopyInv(r, g)' /\ MediumInv(r, g)' /\ SnapInv(r, g)'
  <2>1. CopyInv(r, g) /\ MediumInv(r, g) /\ SnapInv(r, g) /\ r \in Ranks
    BY <1>2, <1>d, <1>t
  <2>2. CopyInv(r, g)'
    <3>1. Memory(r)' = Memory(r)
      BY <1>b, <1>f DEF Memory
    <3>2. engine = "dirtybit" => dirty'[r] = dirty[r]
      BY <1>g, <1>h, <2>1
    <3>3. phase[r] \in {"run", "flushed", "main"} /\ g \in writable[r] /\ g \in dirty[r] => g \in dirty'[r]
      BY <1>a, <1>e, <1>h, <2>1
    <3> QED
      BY <1>b, <1>f, <2>1, <3>1, <3>2, <3>3 DEF CopyInv
  <2> QED
    BY <1>b, <2>1, <2>2 DEF MediumInv, SnapInv
<1> QED
  BY <1>1, <1>2, <1>f DEF DataInv

\* Bits that another pool resets break the engine, if there are any.
LEMMA OtherPoolResetData ==
  ASSUME BaseInv, BaseInv', broken = {} => DataInv, NEW p \in Ranks, OtherPoolReset(p), broken' = {}
  PROVE  DataInv'
<1> USE DEF imageVars, trackVars, ckptVars, histVars
<1>0. /\ TypeOK /\ ControlInv /\ StageInv /\ FlagInv
      /\ \A r \in Procs : ListInv(r) /\ ModeInv(r)
  BY DEF BaseInv
<1>t. /\ team \in [Threads -> Ranks] /\ Procs \subseteq Ranks /\ 0 \in Procs
      /\ \A u \in Threads : team[u] \in Procs /\ team[u] \in Ranks /\ u \in Members(team[u])
      /\ \A u \in Threads : Touched(team, u) \subseteq Regions
  BY <1>0, TeamFacts
<1>d. /\ AttributeInv
      /\ \A r \in Procs, g \in Regions : CopyInv(r, g) /\ MediumInv(r, g) /\ SnapInv(r, g)
  BY DEF DataInv, OtherPoolReset, Followed
<1>f. /\ engine' = engine /\ team' = team /\ Procs' = Procs
      /\ Hybrid' <=> Hybrid
  BY DEF OtherPoolReset, Procs, Hybrid, mpi
<1>b. UNCHANGED <<phase, main, main_pm, back, back_pm, work, writable, consistent_data, attributes, snap>>
  BY DEF OtherPoolReset
<1>c. dirty' = dirty
  <2>1. dirty[p] = {}
    BY DEF OtherPoolReset
  <2> QED
    BY <1>0, <2>1 DEF TypeOK, OtherPoolReset, Set
<1>1. AttributeInv'
  BY <1>d, <1>f, <1>b DEF AttributeInv
<1>2. ASSUME NEW r \in Procs, NEW g \in Regions
      PROVE  CopyInv(r, g)' /\ MediumInv(r, g)' /\ SnapInv(r, g)'
  BY <1>2, <1>d, <1>f, <1>b, <1>c, Untouched
<1> QED
  BY <1>1, <1>2, <1>f DEF DataInv

\* A process begins a checkpoint.  What is not flushed by lists was not written.
LEMMA CheckpointBeginData ==
  ASSUME BaseInv, BaseInv', broken = {} => DataInv, NEW p \in Ranks, CheckpointBegin(p), broken' = {}
  PROVE  DataInv'
<1> USE DEF imageVars, trackVars, ckptVars, histVars
<1>0. /\ TypeOK /\ ControlInv /\ StageInv /\ FlagInv
      /\ \A r \in Procs : ListInv(r) /\ ModeInv(r)
  BY DEF BaseInv
<1>t. /\ team \in [Threads -> Ranks] /\ Procs \subseteq Ranks /\ 0 \in Procs
      /\ \A u \in Threads : team[u] \in Procs /\ team[u] \in Ranks /\ u \in Members(team[u])
      /\ \A u \in Threads : Touched(team, u) \subseteq Regions
  BY <1>0, TeamFacts
<1>d. /\ AttributeInv
      /\ \A r \in Procs, g \in Regions : CopyInv(r, g) /\ MediumInv(r, g) /\ SnapInv(r, g)
  BY DEF DataInv, CheckpointBegin
<1>f. /\ engine' = engine /\ team' = team /\ Procs' = Procs
      /\ Hybrid' <=> Hybrid
  BY DEF CheckpointBegin, Procs, Hybrid, mpi
<1>a. /\ p \in Procs /\ phase[p] = "run" /\ \A t \in Members(p) : pc[t] = "app"
      /\ UNCHANGED <<back, back_pm, work, dirty, writable, flush_regions, consistent_data, attributes, snap>>
  BY DEF CheckpointBegin
<1> DEFINE Covered == IF Mode(p) = "WBINVD" THEN Regions ELSE Flushed(p) \cup (Regions \ writable[p])
<1>b. Mode(p) = "NO_ACTION" => phase' = phase /\ main' = main /\ main_pm' = main_pm
  BY DEF CheckpointBegin
<1>c. Mode(p) # "NO_ACTION" =>
        /\ phase' = [phase EXCEPT ![p] = "flushed"] /\ main' = [main EXCEPT ![p] = Applied(p)]
        /\ main_pm' = [main_pm EXCEPT ![p] = Settle(main_pm[p], Covered, main'[p])]
  BY DEF CheckpointBegin, Set
<1>e. Mode(p) # "NO_ACTION" => Regions \subseteq Covered
  <2>1. SUFFICES ASSUME Mode(p) = "USE_FLUSH_BLOCKS" PROVE \A g \in writable[p] : g \in Listed(p)
    BY ModeType DEF Flushed
  <2>2. ~Full(p)
    BY <2>1, ModeType
  <2> QED
    BY <1>0, <1>a, <2>2 DEF ListInv
<1> HIDE DEF Covered
<1>k. ASSUME NEW q \in Ranks, q # p
      PROVE  /\ phase'[q] = phase[q] /\ main'[q] = main[q] /\ main_pm'[q] = main_pm[q]
             /\ back'[q] = back[q] /\ back_pm'[q] = back_pm[q] /\ work'[q] = work[q]
             /\ dirty'[q] = dirty[q] /\ writable'[q] = writable[q]
             /\ consistent_data'[q] = consistent_data[q] /\ attributes'[q] = attributes[q]
  BY <1>0, <1>a, <1>b, <1>c, <1>k DEF TypeOK
<1>s. \A q \in Ranks : snap'[q] = snap[q]
  BY <1>a
<1>g. phase'[p] \in {"run", "flushed"} /\ (phase'[p] = "flushed" => Mode(p) # "NO_ACTION")
  BY <1>0, <1>a, <1>b, <1>c DEF TypeOK
<1>1. AttributeInv'
  <2>1. \A q \in Procs : phase'[q] = phase[q] \/ (q = p /\ phase'[q] \in {"run", "flushed"})
    BY <1>t, <1>k, <1>g
  <2> QED
    BY <1>d, <1>f, <1>a, <2>1 DEF AttributeInv
<1>2. ASSUME NEW r \in Procs, NEW g \in Regions
      PROVE  CopyInv(r, g)' /\ MediumInv(r, g)' /\ SnapInv(r, g)'
  <2>r. r \in Ranks
    BY <1>t, <1>2
  <2>1. CASE r # p
    <3>1. CopyInv(r, g) /\ MediumInv(r, g) /\ SnapInv(r, g)
      BY <1>2, <1>d
    <3>2. phase[r] \in {"flushed", "main"} =>
            (phase'[0] \in {"main", "copy", "clear"} <=> phase[0] \in {"main", "copy", "clear"})
      BY <1>t, <1>a, <1>g, <1>k
    <3>3. phase[r] = "open" => consistent_data'[0] = consistent_data[0]
      BY <1>a
    <3> QED
      BY <1>f, <1>k, <1>s, <2>r, <2>1, <3>1, <3>2, <3>3, Untouched
  <2>2. CASE r = p
    <3>1. CopyInv(r, g) /\ MediumInv(r, g) /\ SnapInv(r, g) /\ phase[r] = "run"
      BY <1>2, <1>d, <1>a, <2>2
    <3>2. CASE Mode(p) = "NO_ACTION"
      BY <1>a, <1>b, <1>f, <3>1, <3>2, <1>s, <2>r, Untouched
    <3>3. CASE Mode(p) # "NO_ACTION"
      <4>1. /\ phase'[r] = "flushed" /\ main'[r] = Applied(r)
            /\ main_pm'[r] = Settle(main_pm[r], Covered, main'[r])
        BY <1>0, <1>c, <2>r, <2>2, <3>3 DEF TypeOK
      <4>2. main_pm'[r][g] = {main'[r][g]}
        BY <1>0, <1>2, <1>e, <2>r, <2>2, <3>3, <4>1 DEF TypeOK, Settle
      <4>3. Applied(r)[g] = IF Hybrid /\ g \in dirty[r] THEN work[r][g] ELSE main[r][g]
        BY <1>0, <1>2, <2>r DEF TypeOK, Applied, Write, PageMap, Hybrid
      <4>4. Hybrid => engine = "dirtybit"
        BY DEF Hybrid
      <4>5. CopyInv(r, g)'
        BY <1>a, <1>f, <3>1, <4>1, <4>3, <4>4 DEF CopyInv, Memory
      <4>6. MediumInv(r, g)'
        BY <1>a, <3>1, <4>1, <4>2 DEF MediumInv
      <4>7. phase'[0] \notin {"main", "copy", "clear"}
        <5>1. phase[0] \notin {"main", "copy", "clear"}
          BY <1>0, <1>t, <1>a DEF StageInv, Stages
        <5> QED
          BY <1>t, <1>g, <1>k, <5>1
      <4>8. SnapInv(r, g)'
        BY <1>a, <3>1, <4>1, <4>7 DEF SnapInv
      <4> QED
        BY <4>5, <4>6, <4>8
    <3> QED
      BY <3>2, <3>3
  <2> QED
    BY <2>1, <2>2
<1> QED
  BY <1>1, <1>2, <1>f DEF DataInv

\* All processes have flushed: with the flag of process 0 the memories become the checkpoint.
LEMMA SetMainData ==
  ASSUME BaseInv, BaseInv', broken = {} => DataInv, NEW p \in Ranks, SetMain(p), broken' = {}
  PROVE  DataInv'
<1> USE DEF imageVars, trackVars, ckptVars, histVars
<1>0. /\ TypeOK /\ ControlInv /\ StageInv /\ FlagInv
      /\ \A r \in Procs : ListInv(r) /\ ModeInv(r)
  BY DEF BaseInv
<1>t. /\ team \in [Threads -> Ranks] /\ Procs \subseteq Ranks /\ 0 \in Procs
      /\ \A u \in Threads : team[u] \in Procs /\ team[u] \in Ranks /\ u \in Members(team[u])
      /\ \A u \in Threads : Touched(team, u) \subseteq Regions
  BY <1>0, TeamFacts
<1>d. /\ AttributeInv
      /\ \A r \in Procs, g \in Regions : CopyInv(r, g) /\ MediumInv(r, g) /\ SnapInv(r, g)
  BY DEF DataInv, SetMain
<1>f. /\ engine' = engine /\ team' = team /\ Procs' = Procs
      /\ Hybrid' <=> Hybrid
  BY DEF SetMain, Procs, Hybrid, mpi
<1>a. /\ p \in Procs /\ phase[p] = "flushed" /\ \A q \in Procs : phase[q] \in {"flushed", "main"}
      /\ UNCHANGED <<main, main_pm, back, back_pm, work, dirty, writable, attributes>>
      /\ phase' = [phase EXCEPT ![p] = "main"]
      /\ consistent_data' = [consistent_data EXCEPT ![p] = "Main"]
  BY DEF SetMain, MPI_Barrier, Set
<1>b. snap' = IF p = 0 THEN [q \in Ranks |-> Memory(q)] ELSE snap
  BY DEF SetMain
<1>c. \A q \in Procs : phase'[q] = IF q = p THEN "main" ELSE phase[q]
  BY <1>0, <1>t, <1>a DEF TypeOK
<1>1. AttributeInv'
  BY <1>d, <1>f, <1>a, <1>c DEF AttributeInv
<1>2. ASSUME NEW r \in Procs, NEW g \in Regions
      PROVE  CopyInv(r, g)' /\ MediumInv(r, g)' /\ SnapInv(r, g)'
  <2>1. CopyInv(r, g) /\ MediumInv(r, g) /\ SnapInv(r, g) /\ r \in Ranks
    BY <1>2, <1>d, <1>t
  <2>2. phase[r] \in {"flushed", "main"} /\ phase'[r] \in {"flushed", "main"}
    BY <1>2, <1>a, <1>c
  <2>3. CopyInv(r, g)'
    <3>1. Memory(r)' = Memory(r)
      BY <1>a, <1>f DEF Memory
    <3> QED
      BY <1>a, <1>f, <2>1, <2>2, <3>1 DEF CopyInv
  <2>4. MediumInv(r, g)'
    BY <1>a, <2>1, <2>2 DEF MediumInv
  <2>5. SnapInv(r, g)'
    <3>1. CASE p = 0
      <4>1. phase'[0] = "main" /\ snap'[r][g] = Memory(r)[g]
        BY <1>b, <1>c, <1>a, <2>1, <3>1
      <4>2. Memory(r)[g] = main[r][g]
        BY <2>1, <2>2 DEF CopyInv
      <4> QED
        BY <1>a, <2>2, <4>1, <4>2 DEF SnapInv
    <3>2. CASE p # 0
      <4>1. phase'[0] = phase[0] /\ snap' = snap
        BY <1>b, <1>c, <1>t, <3>2
      <4> QED
        BY <1>a, <2>1, <2>2, <4>1 DEF SnapInv
    <3> QED
      BY <3>1, <3>2
  <2> QED
    BY <2>3, <2>4, <2>5
<1> QED
  BY <1>1, <1>2, <1>f DEF DataInv

\* What is not copied to the back is there already.
LEMMA WriteBackData ==
  ASSUME BaseInv, BaseInv', broken = {} => DataInv, NEW p \in Ranks, WriteBack(p), broken' = {}
  PROVE  DataInv'
<1> USE DEF imageVars, trackVars, ckptVars, histVars
<1>0. /\ TypeOK /\ ControlInv /\ StageInv /\ FlagInv
      /\ \A r \in Procs : ListInv(r) /\ ModeInv(r)
  BY DEF BaseInv
<1>t. /\ team \in [Threads -> Ranks] /\ Procs \subseteq Ranks /\ 0 \in Procs
      /\ \A u \in Threads : team[u] \in Procs /\ team[u] \in Ranks /\ u \in Members(team[u])
      /\ \A u \in Threads : Touched(team, u) \subseteq Regions
  BY <1>0, TeamFacts
<1>d. /\ AttributeInv
      /\ \A r \in Procs, g \in Regions : CopyInv(r, g) /\ MediumInv(r, g) /\ SnapInv(r, g)
  BY DEF DataInv, WriteBack
<1>f. /\ engine' = engine /\ team' = team /\ Procs' = Procs
      /\ Hybrid' <=> Hybrid
  BY DEF WriteBack, Procs, Hybrid, mpi
<1>a. /\ p \in Procs /\ phase[p] = "main" /\ \A q \in Procs : phase[q] \in {"main", "copy", "clear"}
      /\ UNCHANGED <<main, main_pm, work, dirty, consistent_data, attributes, snap>>
      /\ phase' = [phase EXCEPT ![p] = "copy"] /\ writable' = [writable EXCEPT ![p] = {}]
      /\ back' = [back EXCEPT ![p] = Write(back[p], ToCopy(p), main[p])]
      /\ back_pm' = [back_pm EXCEPT ![p] = Put(back_pm[p], ToCopy(p), main[p])]
  BY DEF WriteBack, MPI_Barrier, Set, Unprotected
<1>c. \A q \in Procs : phase'[q] = IF q = p THEN "copy" ELSE phase[q]
  BY <1>0, <1>t, <1>a DEF TypeOK
<1>k. ASSUME NEW q \in Ranks, q # p
      PROVE  /\ phase'[q] = phase[q] /\ main'[q] = main[q] /\ main_pm'[q] = main_pm[q]
             /\ back'[q] = back[q] /\ back_pm'[q] = back_pm[q] /\ work'[q] = work[q]
             /\ dirty'[q] = dirty[q] /\ writable'[q] = writable[q]
             /\ consistent_data'[q] = consistent_data[q] /\ attributes'[q] = attributes[q]
  BY <1>0, <1>a, <1>k DEF TypeOK
<1>s. \A q \in Ranks : snap'[q] = snap[q]
  BY <1>a
<1>e. ASSUME NEW g \in Regions, g \notin ToCopy(p) PROVE main[p][g] = back[p][g]
  <2>1. CopyInv(p, g) /\ ListInv(p) /\ ModeInv(p)
    BY <1>0, <1>a, <1>d, <1>e
  <2>2. CASE engine = "dirtybit"
    BY <1>a, <1>e, <2>1, <2>2 DEF CopyInv, ModeInv, ToCopy
  <2>3. CASE engine = "mprotect" /\ flush_mode[p] = "WBINVD"
    BY <1>a, <1>e, <2>1, <2>3 DEF CopyInv, ToCopy
  <2>4. CASE engine = "mprotect" /\ flush_mode[p] = "USE_FLUSH_BLOCKS"
    <3>1. \A t \in Members(p) : pc[t] # "list"
      BY <1>0, <1>a DEF ControlInv, Members
    <3>2. ~Full(p)
      BY <1>a, <2>1, <2>4 DEF ModeInv
    <3>3. g \notin Listed(p)
      BY <1>e, <2>4 DEF ToCopy
    <3>4. g \notin writable[p]
      BY <1>a, <2>1, <3>1, <3>2, <3>3 DEF ListInv
    <3> QED
      BY <1>a, <2>1, <2>4, <3>4 DEF CopyInv
  <2>5. engine \in {"mprotect", "dirtybit"} /\ flush_mode[p] \in {"USE_FLUSH_BLOCKS", "WBINVD"}
    BY <1>0, <1>a, <2>1, PageAssumption DEF TypeOK, ModeInv
  <2> QED
    BY <2>2, <2>3, <2>4, <2>5
<1>1. AttributeInv'
  BY <1>d, <1>f, <1>a, <1>c DEF AttributeInv
<1>2. ASSUME NEW r \in Procs, NEW g \in Regions
      PROVE  CopyInv(r, g)' /\ MediumInv(r, g)' /\ SnapInv(r, g)'
  <2>r. r \in Ranks
    BY <1>t, <1>2
  <2>1. CASE r # p
    <3>1. CopyInv(r, g) /\ MediumInv(r, g) /\ SnapInv(r, g)
      BY <1>2, <1>d
    <3>2. phase[r] \in {"flushed", "main"} =>
            (phase'[0] \in {"main", "copy", "clear"} <=> phase[0] \in {"main", "copy", "clear"})
      BY <1>t, <1>a, <1>c
    <3>3. phase[r] = "open" => consistent_data'[0] = consistent_data[0]
      BY <1>a
    <3> QED
      BY <1>f, <1>k, <1>s, <2>r, <2>1, <3>1, <3>2, <3>3, Untouched
  <2>2. CASE r = p
    <3>1. CopyInv(r, g) /\ MediumInv(r, g) /\ SnapInv(r, g) /\ phase[r] = "main" /\ phase'[r] = "copy"
      BY <1>2, <1>d, <1>a, <1>c, <2>2
    <3>2. back'[r][g] = main[r][g]
      <4>1. back'[r] = Write(back[r], ToCopy(r), main[r])
        BY <1>0, <1>a, <2>r, <2>2 DEF TypeOK
      <4> QED
        BY <1>0, <1>2, <1>e, <2>r, <2>2, <4>1 DEF TypeOK, Write
    <3>3. CopyInv(r, g)'
      BY <1>a, <1>f, <3>1, <3>2 DEF CopyInv, Memory
    <3>4. MediumInv(r, g)'
      BY <1>a, <3>1 DEF MediumInv
    <3>5. phase[0] \in {"main", "copy", "clear"}
      BY <1>t, <1>a
    <3>6. SnapInv(r, g)'
      BY <1>a, <3>1, <3>5 DEF SnapInv
    <3> QED
      BY <3>3, <3>4, <3>6
  <2> QED
    BY <2>1, <2>2
<1> QED
  BY <1>1, <1>2, <1>f DEF DataInv

\* The fence makes the back copy certain.
LEMMA EndCopyData ==
  ASSUME BaseInv, BaseInv', broken = {} => DataInv, NEW p \in Ranks, EndCopy(p), broken' = {}
  PROVE  DataInv'
<1> USE DEF imageVars, trackVars, ckptVars, histVars
<1>0. /\ TypeOK /\ ControlInv /\ StageInv /\ FlagInv
      /\ \A r \in Procs : ListInv(r) /\ ModeInv(r)
  BY DEF BaseInv
<1>t. /\ team \in [Threads -> Ranks] /\ Procs \subseteq Ranks /\ 0 \in Procs
      /\ \A u \in Threads : team[u] \in Procs /\ team[u] \in Ranks /\ u \in Members(team[u])
      /\ \A u \in Threads : Touched(team, u) \subseteq Regions
  BY <1>0, TeamFacts
<1>d. /\ AttributeInv
      /\ \A r \in Procs, g \in Regions : CopyInv(r, g) /\ MediumInv(r, g) /\ SnapInv(r, g)
  BY DEF DataInv, EndCopy
<1>f. /\ engine' = engine /\ team' = team /\ Procs' = Procs
      /\ Hybrid' <=> Hybrid
  BY DEF EndCopy, Procs, Hybrid, mpi
<1>a. /\ p \in Procs /\ phase[p] = "copy"
      /\ UNCHANGED <<main, main_pm, back, work, dirty, writable, consistent_data, attributes, snap>>
      /\ phase' = [phase EXCEPT ![p] = "clear"]
      /\ back_pm' = [back_pm EXCEPT ![p] = Settled(back[p])]
  BY DEF EndCopy, Fenced, Set
<1>c. \A q \in Procs : phase'[q] = IF q = p THEN "clear" ELSE phase[q]
  BY <1>0, <1>t, <1>a DEF TypeOK
<1>k. ASSUME NEW q \in Ranks, q # p
      PROVE  /\ phase'[q] = phase[q] /\ main'[q] = main[q] /\ main_pm'[q] = main_pm[q]
             /\ back'[q] = back[q] /\ back_pm'[q] = back_pm[q] /\ work'[q] = work[q]
             /\ dirty'[q] = dirty[q] /\ writable'[q] = writable[q]
             /\ consistent_data'[q] = consistent_data[q] /\ attributes'[q] = attributes[q]
  BY <1>0, <1>a, <1>k DEF TypeOK
<1>s. \A q \in Ranks : snap'[q] = snap[q]
  BY <1>a
<1>1. AttributeInv'
  BY <1>d, <1>f, <1>a, <1>c DEF AttributeInv
<1>2. ASSUME NEW r \in Procs, NEW g \in Regions
      PROVE  CopyInv(r, g)' /\ MediumInv(r, g)' /\ SnapInv(r, g)'
  <2>r. r \in Ranks
    BY <1>t, <1>2
  <2>1. CASE r # p
    <3>1. CopyInv(r, g) /\ MediumInv(r, g) /\ SnapInv(r, g)
      BY <1>2, <1>d
    <3>2. phase[r] \in {"flushed", "main"} =>
            (phase'[0] \in {"main", "copy", "clear"} <=> phase[0] \in {"main", "copy", "clear"})
      BY <1>t, <1>a, <1>c
    <3>3. phase[r] = "open" => consistent_data'[0] = consistent_data[0]
      BY <1>a
    <3> QED
      BY <1>f, <1>k, <1>s, <2>r, <2>1, <3>1, <3>2, <3>3, Untouched
  <2>2. CASE r = p
    <3>1. CopyInv(r, g) /\ MediumInv(r, g) /\ SnapInv(r, g) /\ phase[r] = "copy" /\ phase'[r] = "clear"
      BY <1>2, <1>d, <1>a, <1>c, <2>2
    <3>2. back_pm'[r][g] = {back[r][g]}
      BY <1>0, <1>2, <1>a, <2>r, <2>2 DEF TypeOK, Settled
    <3>3. CopyInv(r, g)'
      BY <1>a, <1>f, <3>1 DEF CopyInv, Memory
    <3>4. MediumInv(r, g)'
      BY <1>a, <3>1, <3>2 DEF MediumInv
    <3>5. SnapInv(r, g)'
      BY <1>a, <3>1 DEF SnapInv
    <3> QED
      BY <3>3, <3>4, <3>5
  <2> QED
    BY <2>1, <2>2
<1> QED
  BY <1>1, <1>2, <1>f DEF DataInv

\* All processes have copied: the flag may say Back.
LEMMA SetBackData ==
  ASSUME BaseInv, BaseInv', broken = {} => DataInv, NEW p \in Ranks, SetBack(p), broken' = {}
  PROVE  DataInv'
<1> USE DEF imageVars, trackVars, ckptVars, histVars
<1>0. /\ TypeOK /\ ControlInv /\ StageInv /\ FlagInv
      /\ \A r \in Procs : ListInv(r) /\ ModeInv(r)
  BY DEF BaseInv
<1>t. /\ team \in [Threads -> Ranks] /\ Procs \subseteq Ranks /\ 0 \in Procs
      /\ \A u \in Threads : team[u] \in Procs /\ team[u] \in Ranks /\ u \in Members(team[u])
      /\ \A u \in Threads : Touched(team, u) \subseteq Regions
  BY <1>0, TeamFacts
<1>d. /\ AttributeInv
      /\ \A r \in Procs, g \in Regions : CopyInv(r, g) /\ MediumInv(r, g) /\ SnapInv(r, g)
  BY DEF DataInv, SetBack
<1>f. /\ engine' = engine /\ team' = team /\ Procs' = Procs
      /\ Hybrid' <=> Hybrid
  BY DEF SetBack, Procs, Hybrid, mpi
<1>a. /\ p \in Procs /\ phase[p] = "clear" /\ \A q \in Procs : phase[q] \in {"clear", "back"}
      /\ UNCHANGED <<main, main_pm, back, back_pm, work, dirty, writable, attributes, snap>>
      /\ phase' = [phase EXCEPT ![p] = "back"]
      /\ consistent_data' = [consistent_data EXCEPT ![p] = "Back"]
  BY DEF SetBack, Ready, Set
<1>c. \A q \in Procs : phase'[q] = IF q = p THEN "back" ELSE phase[q]
  BY <1>0, <1>t, <1>a DEF TypeOK
<1>k. ASSUME NEW q \in Ranks, q # p
      PROVE  /\ phase'[q] = phase[q] /\ main'[q] = main[q] /\ main_pm'[q] = main_pm[q]
             /\ back'[q] = back[q] /\ back_pm'[q] = back_pm[q] /\ work'[q] = work[q]
             /\ dirty'[q] = dirty[q] /\ writable'[q] = writable[q]
             /\ consistent_data'[q] = consistent_data[q] /\ attributes'[q] = attributes[q]
  BY <1>0, <1>a, <1>k DEF TypeOK
<1>s. \A q \in Ranks : snap'[q] = snap[q]
  BY <1>a
<1>1. AttributeInv'
  BY <1>d, <1>f, <1>a, <1>c DEF AttributeInv
<1>2. ASSUME NEW r \in Procs, NEW g \in Regions
      PROVE  CopyInv(r, g)' /\ MediumInv(r, g)' /\ SnapInv(r, g)'
  <2>r. r \in Ranks
    BY <1>t, <1>2
  <2>1. CASE r # p
    <3>1. CopyInv(r, g) /\ MediumInv(r, g) /\ SnapInv(r, g)
      BY <1>2, <1>d
    <3>2. phase[r] \in {"flushed", "main"} =>
            (phase'[0] \in {"main", "copy", "clear"} <=> phase[0] \in {"main", "copy", "clear"})
      BY <1>2, <1>a
    <3>3. phase[r] = "open" => consistent_data'[0] = consistent_data[0]
      BY <1>2, <1>a
    <3> QED
      BY <1>f, <1>k, <1>s, <2>r, <2>1, <3>1, <3>2, <3>3, Untouched
  <2>2. CASE r = p
    <3>1. CopyInv(r, g) /\ MediumInv(r, g) /\ SnapInv(r, g) /\ phase[r] = "clear" /\ phase'[r] = "back"
      BY <1>2, <1>d, <1>a, <1>c, <2>2
    <3>3. CopyInv(r, g)'
      BY <1>a, <1>f, <3>1 DEF CopyInv, Memory
    <3>4. MediumInv(r, g)'
      BY <1>a, <3>1 DEF MediumInv
    <3>5. SnapInv(r, g)'
      BY <1>a, <3>1 DEF SnapInv
    <3> QED
      BY <3>3, <3>4, <3>5
  <2> QED
    BY <2>1, <2>2
<1> QED
  BY <1>1, <1>2, <1>f DEF DataInv

\* The processes leave the checkpoint with equal copies, one by one.
LEMMA CheckpointEndData ==
  ASSUME BaseInv, BaseInv', broken = {} => DataInv, NEW p \in Ranks, CheckpointEnd(p), broken' = {}
  PROVE  DataInv'
<1> USE DEF imageVars, trackVars, ckptVars, histVars
<1>0. /\ TypeOK /\ ControlInv /\ StageInv /\ FlagInv
      /\ \A r \in Procs : ListInv(r) /\ ModeInv(r)
  BY DEF BaseInv
<1>t. /\ team \in [Threads -> Ranks] /\ Procs \subseteq Ranks /\ 0 \in Procs
      /\ \A u \in Threads : team[u] \in Procs /\ team[u] \in Ranks /\ u \in Members(team[u])
      /\ \A u \in Threads : Touched(team, u) \subseteq Regions
  BY <1>0, TeamFacts
<1>d. /\ AttributeInv
      /\ \A r \in Procs, g \in Regions : CopyInv(r, g) /\ MediumInv(r, g) /\ SnapInv(r, g)
  BY DEF DataInv, CheckpointEnd
<1>f. /\ engine' = engine /\ team' = team /\ Procs' = Procs
      /\ Hybrid' <=> Hybrid
  BY DEF CheckpointEnd, Procs, Hybrid, mpi
<1>a. /\ p \in Procs /\ phase[p] = "back" /\ \A q \in Procs : phase[q] \in {"back", "run", "flushed"}
      /\ UNCHANGED <<main, main_pm, back, back_pm, work, writable, consistent_data, snap>>
      /\ phase' = [phase EXCEPT ![p] = "run"]
      /\ attributes' = [attributes EXCEPT ![p] = TRUE]
      /\ dirty' = dirty \/ dirty' = [dirty EXCEPT ![p] = {}]
  BY DEF CheckpointEnd, MPI_Barrier, Set, HasSnapshot
<1>c. \A q \in Procs : phase'[q] = IF q = p THEN "run" ELSE phase[q]
  BY <1>0, <1>t, <1>a DEF TypeOK
<1>k. ASSUME NEW q \in Ranks, q # p
      PROVE  /\ phase'[q] = phase[q] /\ main'[q] = main[q] /\ main_pm'[q] = main_pm[q]
             /\ back'[q] = back[q] /\ back_pm'[q] = back_pm[q] /\ work'[q] = work[q]
             /\ dirty'[q] = dirty[q] /\ writable'[q] = writable[q]
             /\ consistent_data'[q] = consistent_data[q] /\ attributes'[q] = attributes[q]
  BY <1>0, <1>a, <1>k DEF TypeOK
<1>s. \A q \in Ranks : snap'[q] = snap[q]
  BY <1>a
<1>1. AttributeInv'
  <2>1. \A q \in Procs : attributes'[q] = IF q = p THEN TRUE ELSE attributes[q]
    <3>1. attributes \in [Ranks -> BOOLEAN]
      BY <1>0 DEF TypeOK
    <3> QED
      BY <1>a, <1>t, <3>1
  <2>2. ASSUME NEW q \in Procs, NEW r \in Procs, phase'[q] = "back", phase'[r] \in {"run", "flushed"}
        PROVE  attributes'[r] = TRUE
    <3>1. q # p /\ phase[q] = "back"
      BY <1>c, <2>2
    <3>2. r # p => phase[r] \in {"run", "flushed"}
      BY <1>c, <2>2
    <3> QED
      BY <1>d, <2>1, <2>2, <3>1, <3>2 DEF AttributeInv
  <2>3. ASSUME NEW q \in Procs, NEW r \in Procs, phase'[q] # "back", phase'[r] # "back"
        PROVE  attributes'[q] = attributes'[r]
    <3>1. ASSUME NEW o \in Procs, phase'[o] # "back" PROVE attributes'[o] = TRUE
      <4>1. o # p => phase[o] \in {"run", "flushed"}
        BY <1>a, <1>c, <3>1
      <4> QED
        BY <1>a, <1>d, <2>1, <3>1, <4>1 DEF AttributeInv
    <3> QED
      BY <2>3, <3>1
  <2> QED
    BY <1>f, <2>2, <2>3 DEF AttributeInv
<1>2. ASSUME NEW r \in Procs, NEW g \in Regions
      PROVE  CopyInv(r, g)' /\ MediumInv(r, g)' /\ SnapInv(r, g)'
  <2>r. r \in Ranks
    BY <1>t, <1>2
  <2>1. CASE r # p
    <3>1. CopyInv(r, g) /\ MediumInv(r, g) /\ SnapInv(r, g)
      BY <1>2, <1>d
    <3>2. phase[r] \in {"flushed", "main"} =>
            (phase'[0] \in {"main", "copy", "clear"} <=> phase[0] \in {"main", "copy", "clear"})
      BY <1>t, <1>a, <1>c
    <3>3. phase[r] = "open" => consistent_data'[0] = consistent_data[0]
      BY <1>a
    <3> QED
      BY <1>f, <1>k, <1>s, <2>r, <2>1, <3>1, <3>2, <3>3, Untouched
  <2>2. CASE r = p
    <3>1. CopyInv(r, g) /\ MediumInv(r, g) /\ SnapInv(r, g) /\ phase[r] = "back" /\ phase'[r] = "run"
      BY <1>2, <1>d, <1>a, <1>c, <2>2
    <3>2. writable'[r] = {}
      BY <1>0, <1>2, <1>a, <3>1 DEF ListInv
    <3>3. CopyInv(r, g)'
      BY <1>a, <1>f, <3>1, <3>2 DEF CopyInv, Memory
    <3>4. MediumInv(r, g)'
      BY <1>a, <3>1 DEF MediumInv
    <3>5. SnapInv(r, g)'
      BY <1>a, <3>1 DEF SnapInv, CopyInv
    <3> QED
      BY <3>3, <3>4, <3>5
  <2> QED
    BY <2>1, <2>2
<1> QED
  BY <1>1, <1>2, <1>f DEF DataInv

\* A crash finds the copies the flag of process 0 selects.
LEMMA CrashData ==
  ASSUME BaseInv, BaseInv', broken = {} => DataInv, Crash, broken' = {}
  PROVE  DataInv'
<1>0. /\ TypeOK /\ ControlInv /\ StageInv /\ FlagInv
      /\ \A r \in Procs : ListInv(r) /\ ModeInv(r)
  BY DEF BaseInv
<1>t. /\ team \in [Threads -> Ranks] /\ Procs \subseteq Ranks /\ 0 \in Procs
      /\ \A u \in Threads : team[u] \in Procs /\ team[u] \in Ranks /\ u \in Members(team[u])
      /\ \A u \in Threads : Touched(team, u) \subseteq Regions
  BY <1>0, TeamFacts
<1>d. broken = {} /\ DataInv /\ AttributeInv
  BY DEF DataInv, Crash, Followed
<1>f. engine' = engine /\ Procs' = Procs /\ snap' = snap /\ attributes' = attributes
  BY DEF Crash, Procs
<1>a. PICK m \in ResolveAll(main_pm, Contents), k \in ResolveAll(back_pm, Contents),
           c \in Resolve(consistent_data_pm, {"Main", "Back"}) :
        /\ main' = [r \in Ranks |-> IF r \in Procs THEN m[r] ELSE main[r]]
        /\ back' = [r \in Ranks |-> IF r \in Procs THEN k[r] ELSE back[r]]
        /\ consistent_data' = c
  BY DEF Crash
<1>b. \A r \in Ranks : /\ phase'[r] = "open" /\ main_pm'[r] = Settled(main'[r])
                       /\ back_pm'[r] = Settled(back'[r])
  BY DEF Crash
<1>c. ~(Exposed /\ \E r \in Procs, g \in Regions : snap[r][g] # Junk /\
          (IF consistent_data'[0] = "Main" THEN main' ELSE back')[r][g] # snap[r][g])
  BY DEF Crash
<1>e. ~\E q, r \in Procs : phase[q] = "back" /\ attributes[q] # attributes[r]
  BY DEF Crash
<1>g. consistent_data'[0] \in consistent_data_pm[0]
  BY <1>0, <1>t, <1>a DEF TypeOK, Resolve
<1>1. AttributeInv'
  <2>1. \A q, r \in Procs : attributes[q] = attributes[r]
    BY <1>d, <1>e DEF AttributeInv
  <2> QED
    BY <1>b, <1>f, <1>t, <2>1 DEF AttributeInv
<1>2. ASSUME NEW r \in Procs, NEW g \in Regions
      PROVE  CopyInv(r, g)' /\ MediumInv(r, g)' /\ SnapInv(r, g)'
  <2>r. r \in Ranks
    BY <1>t, <1>2
  <2>1. main'[r][g] \in main_pm[r][g] /\ back'[r][g] \in back_pm[r][g]
    <3>1. m[r] \in Resolve(main_pm[r], Contents) /\ k[r] \in Resolve(back_pm[r], Contents)
      BY <1>2 DEF ResolveAll
    <3>2. DOMAIN main_pm[r] = Regions /\ DOMAIN back_pm[r] = Regions
      BY <1>0, <2>r DEF TypeOK
    <3>3. m[r][g] \in main_pm[r][g] /\ k[r][g] \in back_pm[r][g]
      BY <1>2, <3>1, <3>2 DEF Resolve
    <3> QED
      BY <1>2, <1>a, <2>r, <3>3
  <2>2. CopyInv(r, g)'
    BY <1>b, <2>r DEF CopyInv
  <2>3. MediumInv(r, g)'
    <3>1. main'[r] \in [Regions -> Contents] /\ back'[r] \in [Regions -> Contents]
      BY <2>r DEF BaseInv, TypeOK
    <3>2. main_pm'[r][g] = {main'[r][g]} /\ back_pm'[r][g] = {back'[r][g]}
      BY <1>2, <1>b, <2>r, <3>1 DEF Settled
    <3> QED
      BY <1>b, <2>r, <3>2 DEF MediumInv
  <2>4. SnapInv(r, g)'
    <3> SUFFICES ASSUME snap[r][g] # Junk
                 PROVE  (IF consistent_data'[0] = "Main" THEN main'[r][g] ELSE back'[r][g]) = snap[r][g]
      BY <1>b, <1>f, <2>r DEF SnapInv
    <3>1. CASE Exposed
      BY <1>2, <1>c, <3>1
    <3>2. CASE ~Exposed
      <4>1. (IF consistent_data'[0] = "Main" THEN main_pm[r][g] ELSE back_pm[r][g]) = {snap[r][g]}
        BY <1>2, <1>d, <1>g, <3>2, SafeFromInv DEF SafeUnlessBroken
      <4> QED
        BY <2>1, <4>1
    <3> QED
      BY <3>1, <3>2
  <2> QED
    BY <2>2, <2>3, <2>4
<1> QED
  BY <1>1, <1>2, <1>f DEF DataInv

\* Every process is told which copies count.
LEMMA OpenPoolsData ==
  ASSUME BaseInv, BaseInv', broken = {} => DataInv, OpenPools, broken' = {}
  PROVE  DataInv'
<1> USE DEF imageVars, trackVars, ckptVars, histVars
<1>0. /\ TypeOK /\ ControlInv /\ StageInv /\ FlagInv
      /\ \A r \in Procs : ListInv(r) /\ ModeInv(r)
  BY DEF BaseInv
<1>t. /\ team \in [Threads -> Ranks] /\ Procs \subseteq Ranks /\ 0 \in Procs
      /\ \A u \in Threads : team[u] \in Procs /\ team[u] \in Ranks /\ u \in Members(team[u])
      /\ \A u \in Threads : Touched(team, u) \subseteq Regions
  BY <1>0, TeamFacts
<1>d. /\ AttributeInv
      /\ \A r \in Procs, g \in Regions : CopyInv(r, g) /\ MediumInv(r, g) /\ SnapInv(r, g)
  BY DEF DataInv, OpenPools
<1>f. /\ engine' = engine /\ team' = team /\ Procs' = Procs
      /\ Hybrid' <=> Hybrid
  BY DEF OpenPools, Procs, Hybrid, mpi
<1>a. /\ \A r \in Procs : phase[r] = "open"
      /\ \A r \in Procs : phase'[r] = "recover" /\ consistent_data'[r] = consistent_data[0]
      /\ UNCHANGED <<main, main_pm, back, back_pm, work, dirty, writable, attributes, snap>>
  BY <1>t DEF OpenPools, Agreed
<1>1. AttributeInv'
  BY <1>d, <1>f, <1>a DEF AttributeInv
<1>2. ASSUME NEW r \in Procs, NEW g \in Regions
      PROVE  CopyInv(r, g)' /\ MediumInv(r, g)' /\ SnapInv(r, g)'
  <2>1. CopyInv(r, g) /\ MediumInv(r, g) /\ SnapInv(r, g)
    BY <1>2, <1>d
  <2>2. phase[r] = "open" /\ phase'[r] = "recover" /\ consistent_data'[r] = consistent_data[0]
    BY <1>2, <1>a
  <2>3. CopyInv(r, g)'
    BY <2>2 DEF CopyInv
  <2>4. MediumInv(r, g)'
    BY <1>a, <2>1, <2>2 DEF MediumInv
  <2>5. SnapInv(r, g)'
    BY <1>a, <2>1, <2>2 DEF SnapInv
  <2> QED
    BY <2>3, <2>4, <2>5
<1> QED
  BY <1>1, <1>2, <1>f DEF DataInv

\* One copy becomes the other.
LEMMA RecoverCopyData ==
  ASSUME BaseInv, BaseInv', broken = {} => DataInv, NEW p \in Ranks, RecoverCopy(p), broken' = {}
  PROVE  DataInv'
<1> USE DEF imageVars, trackVars, ckptVars, histVars
<1>0. /\ TypeOK /\ ControlInv /\ StageInv /\ FlagInv
      /\ \A r \in Procs : ListInv(r) /\ ModeInv(r)
  BY DEF BaseInv
<1>t. /\ team \in [Threads -> Ranks] /\ Procs \subseteq Ranks /\ 0 \in Procs
      /\ \A u \in Threads : team[u] \in Procs /\ team[u] \in Ranks /\ u \in Members(team[u])
      /\ \A u \in Threads : Touched(team, u) \subseteq Regions
  BY <1>0, TeamFacts
<1>d. /\ AttributeInv
      /\ \A r \in Procs, g \in Regions : CopyInv(r, g) /\ MediumInv(r, g) /\ SnapInv(r, g)
  BY DEF DataInv, RecoverCopy
<1>f. /\ engine' = engine /\ team' = team /\ Procs' = Procs
      /\ Hybrid' <=> Hybrid
  BY DEF RecoverCopy, Procs, Hybrid, mpi
<1>a. /\ p \in Procs /\ phase[p] = "recover"
      /\ UNCHANGED <<work, dirty, writable, consistent_data, attributes, snap>>
      /\ phase' = [phase EXCEPT ![p] = "copying"]
  BY DEF RecoverCopy, Set
<1>b. consistent_data[p] = "Main" => /\ back' = [back EXCEPT ![p] = main[p]]
                                     /\ back_pm' = [back_pm EXCEPT ![p] = Put(back_pm[p], Regions, main[p])]
                                     /\ main' = main /\ main_pm' = main_pm
  BY DEF RecoverCopy, FromMain, Set
<1>e. consistent_data[p] # "Main" => /\ main' = [main EXCEPT ![p] = back[p]]
                                     /\ main_pm' = [main_pm EXCEPT ![p] = Put(main_pm[p], Regions, back[p])]
                                     /\ back' = back /\ back_pm' = back_pm
  BY DEF RecoverCopy, FromMain, Restored, Set
<1>c. \A q \in Procs : phase'[q] = IF q = p THEN "copying" ELSE phase[q]
  BY <1>0, <1>t, <1>a DEF TypeOK
<1>k. ASSUME NEW q \in Ranks, q # p
      PROVE  /\ phase'[q] = phase[q] /\ main'[q] = main[q] /\ main_pm'[q] = main_pm[q]
             /\ back'[q] = back[q] /\ back_pm'[q] = back_pm[q] /\ work'[q] = work[q]
             /\ dirty'[q] = dirty[q] /\ writable'[q] = writable[q]
             /\ consistent_data'[q] = consistent_data[q] /\ attributes'[q] = attributes[q]
  BY <1>0, <1>a, <1>b, <1>e, <1>k DEF TypeOK
<1>s. \A q \in Ranks : snap'[q] = snap[q]
  BY <1>a
<1>1. AttributeInv'
  BY <1>d, <1>f, <1>a, <1>c DEF AttributeInv
<1>2. ASSUME NEW r \in Procs, NEW g \in Regions
      PROVE  CopyInv(r, g)' /\ MediumInv(r, g)' /\ SnapInv(r, g)'
  <2>r. r \in Ranks
    BY <1>t, <1>2
  <2>1. CASE r # p
    <3>1. CopyInv(r, g) /\ MediumInv(r, g) /\ SnapInv(r, g)
      BY <1>2, <1>d
    <3>2. phase[r] \in {"flushed", "main"} =>
            (phase'[0] \in {"main", "copy", "clear"} <=> phase[0] \in {"main", "copy", "clear"})
      BY <1>t, <1>a, <1>c
    <3>3. phase[r] = "open" => consistent_data'[0] = consistent_data[0]
      BY <1>a
    <3> QED
      BY <1>f, <1>k, <1>s, <2>r, <2>1, <3>1, <3>2, <3>3, Untouched
  <2>2. CASE r = p
    <3>1. CopyInv(r, g) /\ MediumInv(r, g) /\ SnapInv(r, g) /\ phase[r] = "recover" /\ phase'[r] = "copying"
      BY <1>2, <1>d, <1>a, <1>c, <2>2
    <3>2. main'[r][g] = back'[r][g]
      BY <1>0, <1>2, <1>b, <1>e, <2>r, <2>2 DEF TypeOK
    <3>3. CopyInv(r, g)'
      BY <1>a, <1>f, <3>1, <3>2 DEF CopyInv
    <3>4. CASE consistent_data[r] = "Main"
      BY <1>a, <1>b, <2>2, <3>1, <3>3, <3>4 DEF MediumInv, SnapInv
    <3>5. CASE consistent_data[r] = "Back"
      BY <1>a, <1>e, <2>2, <3>1, <3>3, <3>5 DEF MediumInv, SnapInv
    <3> QED
      BY <1>0, <2>r, <3>4, <3>5 DEF TypeOK
  <2> QED
    BY <2>1, <2>2
<1> QED
  BY <1>1, <1>2, <1>f DEF DataInv

\* Open ends with equal copies.
LEMMA OpenDoneData ==
  ASSUME BaseInv, BaseInv', broken = {} => DataInv, NEW p \in Ranks, OpenDone(p), broken' = {}
  PROVE  DataInv'
<1> USE DEF imageVars, trackVars, ckptVars, histVars
<1>0. /\ TypeOK /\ ControlInv /\ StageInv /\ FlagInv
      /\ \A r \in Procs : ListInv(r) /\ ModeInv(r)
  BY DEF BaseInv
<1>t. /\ team \in [Threads -> Ranks] /\ Procs \subseteq Ranks /\ 0 \in Procs
      /\ \A u \in Threads : team[u] \in Procs /\ team[u] \in Ranks /\ u \in Members(team[u])
      /\ \A u \in Threads : Touched(team, u) \subseteq Regions
  BY <1>0, TeamFacts
<1>d. /\ AttributeInv
      /\ \A r \in Procs, g \in Regions : CopyInv(r, g) /\ MediumInv(r, g) /\ SnapInv(r, g)
  BY DEF DataInv, OpenDone
<1>f. /\ engine' = engine /\ team' = team /\ Procs' = Procs
      /\ Hybrid' <=> Hybrid
  BY DEF OpenDone, Procs, Hybrid, mpi
<1>a. /\ p \in Procs /\ phase[p] = "copying"
      /\ UNCHANGED <<main, main_pm, back, dirty, writable, attributes, snap>>
      /\ phase' = [phase EXCEPT ![p] = "run"]
      /\ consistent_data' = [consistent_data EXCEPT ![p] = "Back"]
      /\ back_pm' = [back_pm EXCEPT ![p] = Settled(back[p])]
      /\ work' = [work EXCEPT ![p] = Prepared(p)]
  BY DEF OpenDone, Set
<1>b. \A q \in Procs : phase[q] \notin {"back", "open"}
  BY <1>0, <1>a DEF StageInv, Stages
<1>c. \A q \in Procs : phase'[q] = IF q = p THEN "run" ELSE phase[q]
  BY <1>0, <1>t, <1>a DEF TypeOK
<1>k. ASSUME NEW q \in Ranks, q # p
      PROVE  /\ phase'[q] = phase[q] /\ main'[q] = main[q] /\ main_pm'[q] = main_pm[q]
             /\ back'[q] = back[q] /\ back_pm'[q] = back_pm[q] /\ work'[q] = work[q]
             /\ dirty'[q] = dirty[q] /\ writable'[q] = writable[q]
             /\ consistent_data'[q] = consistent_data[q] /\ attributes'[q] = attributes[q]
  BY <1>0, <1>a, <1>k DEF TypeOK
<1>s. \A q \in Ranks : snap'[q] = snap[q]
  BY <1>a
<1>1. AttributeInv'
  BY <1>d, <1>f, <1>a, <1>b, <1>c DEF AttributeInv
<1>2. ASSUME NEW r \in Procs, NEW g \in Regions
      PROVE  CopyInv(r, g)' /\ MediumInv(r, g)' /\ SnapInv(r, g)'
  <2>r. r \in Ranks
    BY <1>t, <1>2
  <2>1. CASE r # p
    <3>1. CopyInv(r, g) /\ MediumInv(r, g) /\ SnapInv(r, g)
      BY <1>2, <1>d
    <3>2. phase[r] \in {"flushed", "main"} =>
            (phase'[0] \in {"main", "copy", "clear"} <=> phase[0] \in {"main", "copy", "clear"})
      BY <1>t, <1>a, <1>c
    <3>3. phase[r] = "open" => consistent_data'[0] = consistent_data[0]
      BY <1>2, <1>b
    <3> QED
      BY <1>f, <1>k, <1>s, <2>r, <2>1, <3>1, <3>2, <3>3, Untouched
  <2>2. CASE r = p
    <3>1. CopyInv(r, g) /\ MediumInv(r, g) /\ SnapInv(r, g) /\ phase[r] = "copying" /\ phase'[r] = "run"
      BY <1>2, <1>d, <1>a, <1>c, <2>2
    <3>2. back_pm'[r][g] = {back[r][g]}
      BY <1>0, <1>2, <1>a, <2>r, <2>2 DEF TypeOK, Settled
    <3>3. Memory(r)'[g] = main[r][g] /\ writable'[r] = {}
      <4>1. Hybrid => work'[r] = main[r]
        BY <1>0, <1>a, <2>r, <2>2 DEF TypeOK, Prepared
      <4>2. writable[r] = {}
        BY <1>0, <1>2, <3>1 DEF ListInv
      <4> QED
        BY <1>a, <1>f, <4>1, <4>2 DEF Memory
    <3>4. CopyInv(r, g)'
      BY <1>a, <1>f, <3>1, <3>3 DEF CopyInv
    <3>5. MediumInv(r, g)'
      BY <1>a, <3>1, <3>2 DEF MediumInv
    <3>6. SnapInv(r, g)'
      BY <1>0, <1>a, <2>r, <3>1 DEF TypeOK, SnapInv, CopyInv
    <3> QED
      BY <3>4, <3>5, <3>6
  <2> QED
    BY <2>1, <2>2
<1> QED
  BY <1>1, <1>2, <1>f DEF DataInv

\* Every step preserves the invariant of the data.
LEMMA NextData ==
  ASSUME BaseInv, BaseInv', broken = {} => DataInv, [Next]_vars, broken' = {}
  PROVE  DataInv'
<1>1. CASE UNCHANGED vars
  <2>1. /\ broken = {} /\ engine' = engine /\ Procs' = Procs /\ (Hybrid' <=> Hybrid)
        /\ UNCHANGED <<phase, main, main_pm, back, back_pm, work, dirty, writable,
                       consistent_data, attributes, snap>>
    BY <1>1 DEF vars, imageVars, trackVars, ckptVars, histVars, Procs, Hybrid, mpi
  <2>2. AttributeInv'
    BY <2>1 DEF DataInv, AttributeInv
  <2>3. ASSUME NEW r \in Procs, NEW g \in Regions
        PROVE  CopyInv(r, g)' /\ MediumInv(r, g)' /\ SnapInv(r, g)'
    BY <2>1, <2>3, Untouched DEF DataInv
  <2> QED
    BY <2>1, <2>2, <2>3 DEF DataInv
<1>2. CASE Thread
  BY <1>2, StoreData, FaultData, HandleData, ListData, ClearData DEF Thread
<1>3. CASE Checkpoint
  BY <1>3, CheckpointBeginData, SetMainData, WriteBackData, EndCopyData, SetBackData,
     CheckpointEndData DEF Checkpoint
<1>4. CASE Recovery
  BY <1>4, OpenPoolsData, RecoverCopyData, OpenDoneData DEF Recovery
<1>5. CASE Crash \/ \E r \in Ranks : OtherPoolReset(r)
  BY <1>5, CrashData, OtherPoolResetData
<1> QED
  BY <1>1, <1>2, <1>3, <1>4, <1>5 DEF Next

LEMMA Inductive == Spec => []IndInv
<1>1. Init => IndInv
  BY InitBase, InitData DEF IndInv
<1>2. IndInv /\ [Next]_vars => IndInv'
  BY NextBase, NextData DEF IndInv
<1> QED
  BY <1>1, <1>2, PTL DEF Spec

\* Crash consistency of all processes together: the flag of process 0 selects
\* copies that are complete on the medium in every process and of the same
\* checkpoint.
THEOREM CrashConsistent == Spec => []SafeUnlessBroken
<1>1. IndInv => SafeUnlessBroken
  BY SafeFromInv DEF IndInv, SafeUnlessBroken
<1> QED
  BY <1>1, Inductive, PTL

\* Incremental copies are enough: in a process that runs, a region whose bit is
\* clear is the same in memory and in the back copy.
THEOREM CleanRegionsSaved == Spec => []CleanIsSaved
<1>1. ASSUME IndInv PROVE CleanIsSaved
  <2> SUFFICES ASSUME broken = {}, NEW r \in Procs, phase[r] = "run", NEW g \in Regions \ dirty[r]
               PROVE  Memory(r)[g] = back[r][g]
    BY DEF CleanIsSaved
  <2>1. CopyInv(r, g) /\ engine \in {"mprotect", "dirtybit"}
    BY <1>1, PageAssumption DEF IndInv, BaseInv, TypeOK, DataInv
  <2>2. CASE engine = "mprotect"
    BY <2>1, <2>2 DEF CopyInv, Memory, Hybrid
  <2>3. CASE engine = "dirtybit"
    BY <2>1, <2>3 DEF CopyInv
  <2> QED
    BY <2>1, <2>2, <2>3
<1> QED
  BY <1>1, Inductive, PTL

\* All processes restart with the same checkpoint, and agree that there is one.
THEOREM RestartsTogether == Spec => RestartTogether
<1> DEFINE Restart ==
      \A r \in Ranks : (phase[r] = "copying" /\ phase'[r] = "run" /\ broken = {}) =>
        /\ \A g \in Regions : snap[r][g] # Junk => Memory(r)'[g] = snap[r][g]
        /\ \A q \in Procs : phase[q] \in {"recover", "copying"} => attributes[q] = attributes[r]
<1>1. ASSUME IndInv, [Next]_vars PROVE [Restart]_vars
  <2> SUFFICES ASSUME NEW r \in Ranks, phase[r] = "copying", phase'[r] = "run", broken = {}
               PROVE  /\ \A g \in Regions : snap[r][g] # Junk => Memory(r)'[g] = snap[r][g]
                      /\ \A q \in Procs : phase[q] \in {"recover", "copying"} =>
                           attributes[q] = attributes[r]
    OBVIOUS
  <2>0. TypeOK /\ StageInv /\ DataInv /\ Procs \subseteq Ranks
    BY <1>1, TeamFacts DEF IndInv, BaseInv
  <2>1. OpenDone(r)
    <3>1. phase \in [Ranks -> {"run", "flushed", "main", "copy", "clear", "back", "open",
                               "recover", "copying"}]
      BY <2>0 DEF TypeOK
    <3>2. ~UNCHANGED vars /\ ~Thread /\ ~Crash /\ ~\E p \in Ranks : OtherPoolReset(p)
      BY DEF vars, ckptVars, Thread, Store, Fault, Handle, List, Clear, Crash, OtherPoolReset
    <3>3. ~Checkpoint
      BY <3>1 DEF Checkpoint, CheckpointBegin, SetMain, WriteBack, EndCopy, SetBack,
                  CheckpointEnd, Set
    <3>4. ~OpenPools /\ \A p \in Ranks : ~RecoverCopy(p)
      BY <3>1 DEF OpenPools, RecoverCopy, Set
    <3>5. PICK p \in Ranks : OpenDone(p)
      BY <1>1, <3>2, <3>3, <3>4 DEF Next, Recovery
    <3> QED
      BY <3>1, <3>5 DEF OpenDone, Set
  <2>2. r \in Procs
    BY <2>1 DEF OpenDone
  <2>3. ASSUME NEW g \in Regions, snap[r][g] # Junk PROVE Memory(r)'[g] = snap[r][g]
    <3>1. CopyInv(r, g) /\ SnapInv(r, g)
      BY <2>0, <2>2, <2>3 DEF DataInv
    <3>2. main[r][g] = snap[r][g]
      BY <2>0, <2>3, <3>1 DEF TypeOK, CopyInv, SnapInv
    <3>3. main' = main /\ work' = [work EXCEPT ![r] = Prepared(r)] /\ (Hybrid' <=> Hybrid)
      BY <2>1 DEF OpenDone, Set, Hybrid, mpi, Procs
    <3>4. Memory(r)' = main[r]
      BY <2>0, <3>3 DEF TypeOK, Memory, Prepared
    <3> QED
      BY <3>2, <3>4
  <2>4. ASSUME NEW q \in Procs PROVE attributes[q] = attributes[r]
    <3>1. phase[q] # "back" /\ phase[r] # "back"
      BY <2>0, <2>2, <2>4 DEF StageInv, Stages
    <3> QED
      BY <2>0, <2>2, <2>4, <3>1 DEF DataInv, AttributeInv
  <2> QED
    BY <2>3, <2>4
<1> QED
  BY <1>1, Inductive, PTL DEF Spec, RestartTogether

=============================================================================
