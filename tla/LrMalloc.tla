------------------------------ MODULE LrMalloc ------------------------------
(***************************************************************************)
(* The allocator of a pool (LRMallocAllocator, and HookLRMallocAllocator,  *)
(* the same code compiled for instrumented programs).  Superblocks come    *)
(* from bulk_tail, which only grows, and return to the stack avail_sb; a   *)
(* superblock of small blocks with some free ones is on the stack          *)
(* partial_list; every thread has a cache of free blocks.  There are no    *)
(* locks: each list has one atomic word, a pointer with a small stamp.     *)
(*                                                                         *)
(* One size class is modelled: the classes share nothing but avail_sb and  *)
(* bulk_tail.  Superblocks and their descriptors are numbers, a block is   *)
(* <<superblock, index>>.                                                  *)
(***************************************************************************)
EXTENDS SizeClass, FiniteSetsExt

CONSTANTS Threads, Null,
          Data,            \* what a program writes to a block
          nr_superblocks,  \* that fit in the pool
          max_count,       \* blocks in a superblock, and in a full cache
          kMinSuperBlocks, \* kMinAllocateSuperBlockSize / kSuperBlockSize
          kStampModulus,   \* a stamp is a uint8_t: 2^8
          LargeSizes,      \* sizes of large objects, in superblocks
          MaxAlone,        \* bounds: calls of pmalloc, pfree and Open during
          MaxCalls         \* which there is no other call, and calls in all

ASSUME LrMallocAssumption ==
  /\ {max_count, kStampModulus, kMinSuperBlocks - 1} \subseteq Nat \ {0}
  /\ nr_superblocks \in Nat /\ kMinSuperBlocks <= nr_superblocks
  /\ LargeSizes \subseteq Nat \ {0}
  /\ MaxAlone \in Nat /\ MaxCalls \in Nat

VARIABLES avail_sb, partial_list, \* [head, stamp]
          desc,                   \* descriptors
          bulk_tail,
          link,                   \* first word of each block
          caches,
          pc, loc,                \* of the threads, in pmalloc and pfree
          calls,                  \* history: calls so far,
          live, large,            \* objects the program has,
          leaked,                 \* blocks that were in a cache at a restart,
          stale,                  \* exchanges since a thread loaded a list,
          broken                  \* and what went wrong

metaVars == <<avail_sb, partial_list, desc, bulk_tail, link>>
progVars == <<calls, live, large, leaked>>
vars == <<metaVars, caches, pc, loc, progVars, stale, broken>>

Descs == 0 .. nr_superblocks - 1
Blocks == Descs \X (0 .. max_count - 1)

\* new Descriptor()
InvalidAnchor == [avail |-> 0, count |-> 0, state |-> "INVALID"]
Renewed(d) == [d EXCEPT !.next_free = Null, !.next_partial = Null, !.heap = "none", !.size = 0,
                        !.anchor = InvalidAnchor]

\* fill_sb_list, first part: descriptors base, ... in a chain.
Chained(base, count) ==
  [d \in Descs |->
     IF d \in base .. base + count - 1
     THEN [Renewed(desc[d]) EXCEPT !.next_free = IF d = base + count - 1 THEN Null ELSE d + 1]
     ELSE desc[d]]

EmptyCache == [block |-> Null, block_num |-> 0]
NoLocals == [desc |-> Null, head |-> Null, stamp |-> 0, next |-> Null, kept |-> 0, size |-> 0,
             old |-> Null, group |-> Null, obj |-> Null, then |-> "idle"]

\* setup_metadata: the first superblock is not used.
Init ==
  /\ avail_sb = [head |-> 1, stamp |-> 1 % kStampModulus]
  /\ partial_list = [head |-> Null, stamp |-> 0]
  /\ desc = [d \in Descs |->
       [next_free |-> IF d \in 1 .. kMinSuperBlocks - 2 THEN d + 1 ELSE Null,
        next_partial |-> Null, heap |-> "none", size |-> 0,
        anchor |-> InvalidAnchor]]
  /\ bulk_tail = kMinSuperBlocks
  /\ link = [b \in Blocks |-> Null]
  /\ caches = [t \in Threads |-> EmptyCache]
  /\ pc = [t \in Threads |-> "idle"]
  /\ loc = [t \in Threads |-> NoLocals]
  /\ calls = 0 /\ live = {} /\ large = {} /\ leaked = {}
  /\ stale = [t \in Threads |-> 0] /\ broken = {}

\* A call begins.  Bound: none does after something has gone wrong.
Call ==
  /\ broken = {} /\ calls < MaxCalls
  /\ calls < MaxAlone => \A t \in Threads : pc[t] = "idle"
  /\ calls' = calls + 1

Goto(t, label) == pc' = [pc EXCEPT ![t] = label]
Return(t) == Goto(t, "idle") /\ loc' = [loc EXCEPT ![t] = NoLocals]

-----------------------------------------------------------------------------
(* The stamped pointers.                                                   *)

\* Mutant: the stamp is not compared.
NoStamp(t, list) == list.head = loc[t].head

\* compare_exchange succeeds.
Matches(t, list) == list.head = loc[t].head /\ list.stamp = loc[t].stamp

Exchanged(t, new) == [head |-> new, stamp |-> (loc[t].stamp + 1) % kStampModulus]

\* Mutant: a failed compare_exchange never updates the stamp.
KeepsStamp(t, list) == [loc[t] EXCEPT !.head = list.head]

\* compare_exchange fails and loads the list; of a null pointer it does not
\* load the stamp.
Refreshed(t, list) ==
  [loc[t] EXCEPT !.head = list.head,
                 !.stamp = IF list.head = Null THEN loc[t].stamp ELSE list.stamp]

Load(t, list) == loc' = [loc EXCEPT ![t].head = list.head, ![t].stamp = list.stamp]

\* History: the threads that hold a copy of a list, which an exchange by t makes
\* old.  An exchange that succeeds although so many others have come between
\* has been deceived by a stamp that has come round.
AvailHeld == {"SmallNext", "SmallCas", "FillCas", "RetireCas", "LargeWalk", "LargeCas"}
PartialHeld == {"PopNext", "PopCas", "PushCas"}
Outdates(t, held) ==
  /\ stale' = [u \in Threads |-> CASE u = t -> 0
                                 [] u # t /\ pc[u] \in held /\ stale[u] < kStampModulus -> stale[u] + 1
                                 [] OTHER -> stale[u]]
  /\ broken' = IF stale[t] = kStampModulus THEN broken \cup {"wrap"} ELSE broken
UpToDate(t) == stale' = [stale EXCEPT ![t] = 0] /\ UNCHANGED broken
KeepHistory == UNCHANGED <<stale, broken>>

-----------------------------------------------------------------------------
(* pmalloc of a small object.                                              *)

\* pop_block; the program may then write to the block.
HandOut(t) ==
  /\ live' = live \cup {caches[t].block}
  /\ link' = [link EXCEPT ![caches[t].block] = Data]
  /\ caches' = [caches EXCEPT ![t] = [block |-> link[@.block], block_num |-> @.block_num - 1]]
  /\ Return(t)
  /\ UNCHANGED <<avail_sb, partial_list, desc, bulk_tail, large, leaked>> /\ KeepHistory

pmalloc(t) ==
  /\ pc[t] = "idle" /\ Call
  /\ \/ caches[t].block_num > 0 /\ HandOut(t)
     \/ /\ caches[t].block_num = 0
        /\ Goto(t, "PopLoad")
        /\ UNCHANGED <<metaVars, caches, loc, live, large, leaked>> /\ KeepHistory

\* ... after fill_cache.
PopBlock(t) == pc[t] = "PopBlock" /\ HandOut(t) /\ UNCHANGED calls

\* heap_pop_partial
PopLoad(t) ==
  /\ pc[t] = "PopLoad"
  /\ Load(t, partial_list)
  /\ Goto(t, IF partial_list.head = Null THEN "SmallLoad" ELSE "PopNext")
  /\ UNCHANGED <<metaVars, caches, progVars>> /\ UpToDate(t)

PopNext(t) ==
  /\ pc[t] = "PopNext"
  /\ loc' = [loc EXCEPT ![t].next = desc[loc[t].head].next_partial]
  /\ Goto(t, "PopCas")
  /\ UNCHANGED <<metaVars, caches, progVars>> /\ KeepHistory

\* On success malloc_from_partial loads the anchor.
PopCas(t) ==
  /\ pc[t] = "PopCas"
  /\ \/ /\ Matches(t, partial_list)
        /\ partial_list' = Exchanged(t, loc[t].next)
        /\ loc' = [loc EXCEPT ![t].desc = loc[t].head, ![t].old = desc[loc[t].head].anchor]
        /\ Goto(t, "AnchorCas")
        /\ Outdates(t, PartialHeld)
     \/ /\ ~Matches(t, partial_list)
        /\ Goto(t, "PopLoad")
        /\ UNCHANGED <<partial_list, loc>> /\ KeepHistory
  /\ UNCHANGED <<avail_sb, desc, bulk_tail, link, caches, progVars>>

\* malloc_from_partial takes all free blocks of the superblock, or returns it
\* when they are all free.
AnchorCas(t) ==
  LET d == loc[t].desc  old == loc[t].old IN
  /\ pc[t] = "AnchorCas"
  /\ \/ /\ old.state = "EMPTY"
        /\ loc' = [loc EXCEPT ![t].then = "PopLoad"]
        /\ Goto(t, "RetireLoad")
        /\ UNCHANGED <<desc, caches>>
     \/ /\ old.state # "EMPTY" /\ desc[d].anchor = old
        /\ desc' = [desc EXCEPT ![d].anchor = [avail |-> max_count, count |-> 0, state |-> "FULL"]]
        /\ caches' = [caches EXCEPT ![t] = [block |-> <<d, old.avail>>, block_num |-> old.count]]
        /\ Goto(t, "PopBlock")
        /\ UNCHANGED loc
     \/ /\ old.state # "EMPTY" /\ desc[d].anchor # old
        /\ loc' = [loc EXCEPT ![t].old = desc[d].anchor]
        /\ UNCHANGED <<desc, caches, pc>>
  /\ UNCHANGED <<avail_sb, partial_list, bulk_tail, link, progVars>> /\ KeepHistory

\* alloc_small_sb
SmallLoad(t) ==
  /\ pc[t] = "SmallLoad"
  /\ Load(t, avail_sb)
  /\ Goto(t, "SmallNext")
  /\ UNCHANGED <<metaVars, caches, progVars>> /\ UpToDate(t)

SmallNext(t) ==
  /\ pc[t] = "SmallNext"
  /\ \/ /\ loc[t].head # Null
        /\ loc' = [loc EXCEPT ![t].next = desc[loc[t].head].next_free]
        /\ Goto(t, "SmallCas")
     \/ /\ loc[t].head = Null
        /\ loc' = [loc EXCEPT ![t].kept = loc[t].stamp, ![t].size = kMinSuperBlocks,
                              ![t].then = "SmallNext"]
        /\ Goto(t, "BulkLoad")
  /\ UNCHANGED <<metaVars, caches, progVars>> /\ KeepHistory

SmallCas(t) ==
  /\ pc[t] = "SmallCas"
  /\ \/ /\ Matches(t, avail_sb)
        /\ avail_sb' = Exchanged(t, loc[t].next)
        /\ loc' = [loc EXCEPT ![t].desc = loc[t].head]
        /\ Goto(t, "NewSb")
        /\ Outdates(t, AvailHeld)
     \/ /\ ~Matches(t, avail_sb)
        /\ loc' = [loc EXCEPT ![t] = Refreshed(t, avail_sb)]
        /\ Goto(t, "SmallNext")
        /\ UNCHANGED avail_sb /\ UpToDate(t)
  /\ UNCHANGED <<partial_list, desc, bulk_tail, link, caches, progVars>>

\* malloc_from_new_sb: the new superblock goes to the cache.
NewSb(t) ==
  LET d == loc[t].desc IN
  /\ pc[t] = "NewSb"
  /\ desc' = [desc EXCEPT ![d] = [Renewed(@) EXCEPT !.heap = "small",
                !.anchor = [avail |-> max_count, count |-> 0, state |-> "FULL"]]]
  /\ link' = [b \in Blocks |->
                IF b[1] = d /\ b[2] < max_count - 1 THEN <<d, b[2] + 1>> ELSE link[b]]
  /\ caches' = [caches EXCEPT ![t] = [block |-> <<d, 0>>, block_num |-> max_count]]
  /\ Goto(t, "PopBlock")
  /\ UNCHANGED <<avail_sb, partial_list, bulk_tail, loc, progVars>> /\ KeepHistory

-----------------------------------------------------------------------------
(* bulk_allocate and fill_sb_list.                                         *)

\* Mutant: the limit of the pool is not checked.
AlwaysFits(t) == TRUE

FitsPool(t) == bulk_tail + loc[t].size <= nr_superblocks

\* -ENOMEM: a large pmalloc returns nullptr; a small one tries again and never
\* looks at avail_sb again (its assertion is compiled out).
BulkLoad(t) ==
  /\ pc[t] = "BulkLoad"
  /\ \/ /\ FitsPool(t)
        /\ loc' = [loc EXCEPT ![t].desc = bulk_tail]
        /\ Goto(t, "BulkCas")
        /\ UNCHANGED broken
     \/ /\ ~FitsPool(t) /\ loc[t].then = "LargeInit"
        /\ Return(t)
        /\ UNCHANGED broken
     \/ /\ ~FitsPool(t) /\ loc[t].then = "SmallNext"
        /\ broken' = broken \cup {"memory"}
        /\ UNCHANGED <<pc, loc>>
  /\ UNCHANGED <<metaVars, caches, progVars, stale>>

\* -EAGAIN: the caller tries again.
BulkCas(t) ==
  /\ pc[t] = "BulkCas"
  /\ \/ /\ bulk_tail = loc[t].desc
        /\ bulk_tail' = bulk_tail + loc[t].size
        /\ Goto(t, IF loc[t].then = "LargeInit" THEN "LargeInit" ELSE "FillLoad")
     \/ /\ bulk_tail # loc[t].desc
        /\ Goto(t, "BulkLoad")
        /\ UNCHANGED bulk_tail
  /\ UNCHANGED <<avail_sb, partial_list, desc, link, caches, loc, progVars>> /\ KeepHistory

FillLoad(t) ==
  /\ pc[t] = "FillLoad"
  /\ desc' = Chained(loc[t].desc, loc[t].size)
  /\ Load(t, avail_sb)
  /\ Goto(t, "FillCas")
  /\ UNCHANGED <<avail_sb, partial_list, bulk_tail, link, caches, progVars>> /\ UpToDate(t)

\* alloc_small_sb goes on with the first new descriptor and its old stamp.
FillCas(t) ==
  LET base == loc[t].desc IN
  /\ pc[t] = "FillCas"
  /\ desc' = [desc EXCEPT ![base + loc[t].size - 1].next_free = loc[t].head]
  /\ \/ /\ Matches(t, avail_sb)
        /\ avail_sb' = Exchanged(t, base)
        /\ \/ /\ loc[t].then = "SmallNext"
              /\ loc' = [loc EXCEPT ![t] = [NoLocals EXCEPT !.head = base, !.stamp = loc[t].kept]]
              /\ Goto(t, "SmallNext")
           \/ /\ loc[t].then # "SmallNext"
              /\ Return(t)
        /\ Outdates(t, AvailHeld)
     \/ /\ ~Matches(t, avail_sb)
        /\ loc' = [loc EXCEPT ![t] = Refreshed(t, avail_sb)]
        /\ UNCHANGED <<avail_sb, pc>> /\ UpToDate(t)
  /\ UNCHANGED <<partial_list, bulk_tail, link, caches, progVars>>

-----------------------------------------------------------------------------
(* Large objects.                                                          *)

pmalloc_large(t) ==
  /\ pc[t] = "idle" /\ Call
  /\ \E n \in LargeSizes : loc' = [loc EXCEPT ![t].size = n, ![t].then = "LargeInit"]
  /\ Goto(t, "LargeLoad")
  /\ UNCHANGED <<metaVars, caches, live, large, leaked>> /\ KeepHistory

\* alloc_large_sb tries the superblocks at the head of avail_sb, once.
LargeLoad(t) ==
  /\ pc[t] = "LargeLoad"
  /\ Load(t, avail_sb)
  /\ Goto(t, IF avail_sb.head = Null THEN "BulkLoad" ELSE "LargeWalk")
  /\ UNCHANGED <<metaVars, caches, progVars>> /\ UpToDate(t)

\* The first n of the list, from d on, lie side by side.
Adjacent(d, n) == \A i \in 0 .. n - 2 : desc[d + i].next_free = d + i + 1

LargeWalk(t) ==
  LET d == loc[t].head  n == loc[t].size IN
  /\ pc[t] = "LargeWalk"
  /\ \/ /\ Adjacent(d, n)
        /\ loc' = [loc EXCEPT ![t].next = desc[d + n - 1].next_free]
        /\ Goto(t, "LargeCas")
     \/ /\ ~Adjacent(d, n)
        /\ Goto(t, "BulkLoad")
        /\ UNCHANGED loc
  /\ UNCHANGED <<metaVars, caches, progVars>> /\ KeepHistory

LargeCas(t) ==
  /\ pc[t] = "LargeCas"
  /\ \/ /\ Matches(t, avail_sb)
        /\ avail_sb' = Exchanged(t, loc[t].next)
        /\ loc' = [loc EXCEPT ![t].desc = loc[t].head]
        /\ Goto(t, "LargeInit")
        /\ Outdates(t, AvailHeld)
     \/ /\ ~Matches(t, avail_sb)
        /\ Goto(t, "BulkLoad")
        /\ UNCHANGED <<avail_sb, loc>> /\ UpToDate(t)
  /\ UNCHANGED <<partial_list, desc, bulk_tail, link, caches, progVars>>

\* pmalloc writes the descriptor of the first superblock.
LargeInit(t) ==
  LET d == loc[t].desc IN
  /\ pc[t] = "LargeInit"
  /\ desc' = [desc EXCEPT ![d].heap = "large", ![d].size = loc[t].size,
                          ![d].anchor = [avail |-> 0, count |-> 0, state |-> "FULL"]]
  /\ large' = large \cup {d}
  /\ Return(t)
  /\ UNCHANGED <<avail_sb, partial_list, bulk_tail, link, caches, calls, live, leaked>> /\ KeepHistory

-----------------------------------------------------------------------------
(* pfree.                                                                  *)

\* push_block of b to the cache of t, which then is the list c.
Push(t, c, b) ==
  /\ link' = [link EXCEPT ![b] = c.block]
  /\ caches' = [caches EXCEPT ![t] = [block |-> b, block_num |-> c.block_num + 1]]
  /\ Return(t)

\* Of a block that any thread has allocated, or of a large object.
pfree(t) ==
  /\ pc[t] = "idle" /\ Call
  /\ \/ \E b \in live :
          /\ live' = live \ {b}
          /\ \/ /\ caches[t].block_num < max_count
                /\ Push(t, caches[t], b)
             \/ /\ caches[t].block_num >= max_count
                /\ loc' = [loc EXCEPT ![t].obj = b]
                /\ Goto(t, "Flush")
                /\ UNCHANGED <<link, caches>>
          /\ UNCHANGED large
     \/ \E d \in large :
          /\ large' = large \ {d}
          /\ loc' = [loc EXCEPT ![t].desc = d, ![t].size = desc[d].size]
          /\ Goto(t, "FillLoad")
          /\ UNCHANGED <<live, link, caches>>
  /\ UNCHANGED <<avail_sb, partial_list, desc, bulk_tail, leaked>> /\ KeepHistory

\* The first n blocks of a list.
Taken(block, n) ==
  LET walk[i \in 1 .. n] == IF i = 1 THEN block ELSE link[walk[i - 1]] IN walk

\* flush_cache takes the blocks at the head of the cache that belong to one
\* superblock, and loads its anchor; when there are none left, pfree goes on.
Flush(t) ==
  LET c == caches[t]
      blocks == Taken(c.block, c.block_num)
      n == Max({k \in 1 .. c.block_num : \A i \in 1 .. k : blocks[i][1] = c.block[1]})
  IN
  /\ pc[t] = "Flush"
  /\ \/ /\ c.block_num = 0
        /\ Push(t, c, loc[t].obj)
     \/ /\ c.block_num > 0
        /\ caches' = [caches EXCEPT ![t] =
                        [block |-> link[blocks[n]], block_num |-> c.block_num - n]]
        /\ loc' = [loc EXCEPT ![t].group = [head |-> c.block, tail |-> blocks[n], count |-> n],
                              ![t].desc = c.block[1], ![t].old = desc[c.block[1]].anchor]
        /\ Goto(t, "FlushCas")
        /\ UNCHANGED link
  /\ UNCHANGED <<avail_sb, partial_list, desc, bulk_tail, progVars>> /\ KeepHistory

\* Mutant: the blocks that were free before are forgotten.
OnlyGroup(old, group) ==
  IF group.count = max_count
  THEN [avail |-> group.head[2], count |-> max_count - 1, state |-> "EMPTY"]
  ELSE [avail |-> group.head[2], count |-> group.count, state |-> "PARTIAL"]

\* The anchor when a group of blocks has become free.
FreedAnchor(old, group) ==
  IF old.count + group.count = max_count
  THEN [avail |-> group.head[2], count |-> max_count - 1, state |-> "EMPTY"]
  ELSE [avail |-> group.head[2], count |-> old.count + group.count,
        state |-> IF old.state = "FULL" THEN "PARTIAL" ELSE old.state]

\* A superblock that had no free block goes back to avail_sb or to partial_list.
AfterFlush(old, new) ==
  IF old.state # "FULL" THEN "Flush" ELSE IF new.state = "EMPTY" THEN "RetireLoad" ELSE "PushLoad"

FlushCas(t) ==
  LET d == loc[t].desc  old == loc[t].old  group == loc[t].group
      new == FreedAnchor(old, group)
  IN
  /\ pc[t] = "FlushCas"
  /\ link' = [link EXCEPT ![group.tail] = <<d, old.avail>>]
  /\ \/ /\ desc[d].anchor = old
        /\ desc' = [desc EXCEPT ![d].anchor = new]
        /\ Goto(t, AfterFlush(old, new))
        /\ loc' = [loc EXCEPT ![t] = [NoLocals EXCEPT !.desc = d, !.obj = loc[t].obj,
                                                      !.then = "Flush"]]
     \/ /\ desc[d].anchor # old
        /\ loc' = [loc EXCEPT ![t].old = desc[d].anchor]
        /\ UNCHANGED <<desc, pc>>
  /\ UNCHANGED <<avail_sb, partial_list, bulk_tail, caches, progVars>> /\ KeepHistory

\* retire_small_sb
RetireLoad(t) ==
  /\ pc[t] = "RetireLoad"
  /\ desc' = [desc EXCEPT ![loc[t].desc] = Renewed(@)]
  /\ Load(t, avail_sb)
  /\ Goto(t, "RetireCas")
  /\ UNCHANGED <<avail_sb, partial_list, bulk_tail, link, caches, progVars>> /\ UpToDate(t)

RetireCas(t) ==
  /\ pc[t] = "RetireCas"
  /\ desc' = [desc EXCEPT ![loc[t].desc].next_free = loc[t].head]
  /\ \/ /\ Matches(t, avail_sb)
        /\ avail_sb' = Exchanged(t, loc[t].desc)
        /\ Goto(t, loc[t].then)
        /\ Outdates(t, AvailHeld)
     \/ /\ ~Matches(t, avail_sb)
        /\ Goto(t, "RetireLoad")
        /\ UNCHANGED avail_sb /\ UpToDate(t)
  /\ loc' = [loc EXCEPT ![t].head = Null, ![t].stamp = 0]
  /\ UNCHANGED <<partial_list, bulk_tail, link, caches, progVars>>

\* heap_push_partial
PushLoad(t) ==
  /\ pc[t] = "PushLoad"
  /\ Load(t, partial_list)
  /\ Goto(t, "PushCas")
  /\ UNCHANGED <<metaVars, caches, progVars>> /\ UpToDate(t)

PushCas(t) ==
  /\ pc[t] = "PushCas"
  /\ desc' = [desc EXCEPT ![loc[t].desc].next_partial = loc[t].head]
  /\ \/ /\ Matches(t, partial_list)
        /\ partial_list' = Exchanged(t, loc[t].desc)
        /\ Goto(t, loc[t].then)
        /\ Outdates(t, PartialHeld)
     \/ /\ ~Matches(t, partial_list)
        /\ Goto(t, "PushLoad")
        /\ UNCHANGED partial_list /\ UpToDate(t)
  /\ loc' = [loc EXCEPT ![t].head = Null, ![t].stamp = 0]
  /\ UNCHANGED <<avail_sb, bulk_tail, link, caches, progVars>>

-----------------------------------------------------------------------------
\* Blocks in the cache of t.
Cached(t) ==
  LET blocks == Taken(caches[t].block, caches[t].block_num) IN {blocks[i] : i \in DOMAIN blocks}

\* The pool is opened again from a checkpoint, taken when no thread was in the
\* allocator: the metadata are those of the checkpoint, the caches are new.
Open ==
  /\ \A t \in Threads : pc[t] = "idle"
  /\ Call
  /\ leaked' = leaked \cup UNION {Cached(t) : t \in Threads}
  /\ caches' = [t \in Threads |-> EmptyCache]
  /\ UNCHANGED <<metaVars, pc, loc, live, large>> /\ KeepHistory

Step(t) ==
  \/ PopBlock(t) \/ PopLoad(t) \/ PopNext(t) \/ PopCas(t) \/ AnchorCas(t)
  \/ SmallLoad(t) \/ SmallNext(t) \/ SmallCas(t) \/ NewSb(t)
  \/ BulkLoad(t) \/ BulkCas(t) \/ FillLoad(t) \/ FillCas(t)
  \/ LargeLoad(t) \/ LargeWalk(t) \/ LargeCas(t) \/ LargeInit(t)
  \/ Flush(t) \/ FlushCas(t) \/ RetireLoad(t) \/ RetireCas(t) \/ PushLoad(t) \/ PushCas(t)

Next ==
  \/ \E t \in Threads : pmalloc(t) \/ pmalloc_large(t) \/ pfree(t) \/ Step(t)
  \/ Open

\* A thread inside the allocator goes on.  Nothing says that the program calls
\* the allocator again.
Spec == Init /\ [][Next]_vars /\ \A t \in Threads : WF_vars(Step(t))

-----------------------------------------------------------------------------
(* Properties.                                                             *)

\* Elements of a list that starts at d, as deep as there are descriptors.
ListFrom(d, Succ(_)) ==
  LET at[k \in 0 .. nr_superblocks] == IF k = 0 THEN d
                                       ELSE IF at[k - 1] = Null THEN Null ELSE Succ(at[k - 1])
  IN {at[k] : k \in 0 .. nr_superblocks} \ {Null}

Available == ListFrom(avail_sb.head, LAMBDA d : desc[d].next_free)
Partial == ListFrom(partial_list.head, LAMBDA d : desc[d].next_partial)
Body(d, n) == d .. d + n - 1

\* The variables have the types of the fields they model; blocks and large
\* objects lie inside the pool, and a block is not smaller than the request.
TypeOK ==
  /\ ClassFits
  /\ \A list \in {avail_sb, partial_list} :
       list.head \in Descs \cup {Null} /\ list.stamp \in 0 .. kStampModulus - 1
  /\ bulk_tail \in 0 .. nr_superblocks
  /\ \A d \in Descs :
       /\ {desc[d].next_free, desc[d].next_partial} \subseteq Descs \cup {Null}
       /\ desc[d].heap \in {"none", "small", "large"}
       /\ desc[d].anchor.avail \in 0 .. max_count /\ desc[d].anchor.count \in 0 .. max_count - 1
       /\ desc[d].anchor.state \in {"INVALID", "EMPTY", "PARTIAL", "FULL"}
  /\ \A t \in Threads : caches[t].block_num \in 0 .. max_count
  /\ live \cup leaked \subseteq Blocks
  /\ UNION {Body(d, desc[d].size) : d \in large} \subseteq Descs
  /\ stale \in [Threads -> 0 .. kStampModulus] /\ broken \subseteq {"wrap", "memory"}

\* Blocks of superblock d on the way from the cache of t to the superblock, or
\* waiting for room in the cache.
InFlight(t, d) ==
  LET l == loc[t]
      blocks == IF pc[t] = "FlushCas" THEN Taken(l.group.head, l.group.count) ELSE [i \in {} |-> Null]
  IN {b \in {blocks[i] : i \in DOMAIN blocks} \cup {l.obj} : b \in Blocks /\ b[1] = d}

\* Free blocks in the list of the anchor of d; the count of a superblock that
\* is all free is one too small, to fit.
FreeBlocks(d) ==
  LET a == desc[d].anchor
      blocks == Taken(<<d, a.avail>>, IF a.state = "EMPTY" THEN a.count + 1 ELSE a.count)
  IN {blocks[i] : i \in DOMAIN blocks}

\* A superblock with free blocks is in partial_list, so that they are found
\* again, unless a thread is about to put it there or has just taken it out.
PartialListed ==
  Partial = {d \in Descs :
               /\ desc[d].heap = "small" /\ desc[d].anchor.state # "FULL"
               /\ \A t \in Threads :
                    ~(loc[t].desc = d /\ pc[t] \in {"PushLoad", "PushCas", "AnchorCas",
                                                    "RetireLoad", "RetireCas"})}

\* Every block of a superblock of small objects is the program's, in one cache,
\* in one flush, or in the list of its superblock, never in two of these (so no
\* block is handed out twice) and never in none (so none is lost, but for those
\* in a cache at a restart), and a superblock's list can be reached; whatever the
\* threads do at the same time, as long as no stamp comes round during one retry.
BlocksAccounted ==
  "wrap" \notin broken => PartialListed /\
  \A d \in {x \in Descs : desc[x].heap = "small"} :
    LET places == {live, leaked, FreeBlocks(d)} \cup {Cached(t) : t \in Threads}
                  \cup {InFlight(t, d) : t \in Threads}
        count == Cardinality({b \in live : b[1] = d}) + Cardinality({b \in leaked : b[1] = d})
                 + Cardinality(FreeBlocks(d))
                 + FoldSet(LAMBDA t, n : n + Cardinality({b \in Cached(t) : b[1] = d})
                                           + Cardinality(InFlight(t, d)), 0, Threads)
    IN /\ count = max_count
       /\ {b \in UNION places : b[1] = d} = {d} \X (0 .. max_count - 1)

\* Superblocks that only thread t knows of.
InHand(t) ==
  LET l == loc[t] IN
  CASE pc[t] = "NewSb" -> {l.desc}
    [] pc[t] \in {"FillLoad", "FillCas", "LargeInit"} -> Body(l.desc, l.size)
    [] pc[t] \in {"RetireLoad", "RetireCas"} /\ desc[l.desc].heap = "none" -> {l.desc}
    [] OTHER -> {}

\* Every superblock that bulk_allocate has given out is in avail_sb, holds small
\* blocks, is part of one large object, or is in the hands of one thread; never
\* two of these, never none, except for the first, which is not used.
SuperblocksAccounted ==
  "wrap" \notin broken =>
  LET small == {d \in Descs : desc[d].heap = "small"}
      count == Cardinality(Available) + Cardinality(small)
               + FoldSet(LAMBDA d, n : n + desc[d].size, 0, large)
               + FoldSet(LAMBDA t, n : n + Cardinality(InHand(t)), 0, Threads)
  IN /\ count = bulk_tail - 1
     /\ Available \cup small \cup UNION {Body(d, desc[d].size) : d \in large}
        \cup UNION {InHand(t) : t \in Threads} = 1 .. bulk_tail - 1

\* A thread that fails to exchange an empty avail_sb keeps its old stamp and
\* fails again, until another thread changes avail_sb.
Spins(t) ==
  pc[t] = "FillCas" /\ loc[t].head = Null /\ avail_sb.head = Null /\ ~Matches(t, avail_sb)

\* A retry fails only because another thread has succeeded, so all calls return
\* once the program makes no more of them (MaxCalls is reached), unless the pool
\* is full or a thread spins in fill_sb_list.
CallsReturn ==
  []<>(broken # {} \/ \A t \in Threads : pc[t] = "idle" \/ Spins(t))
=============================================================================
