----------------------------- MODULE SizeClass -----------------------------
(* The table of size classes of the allocator (lrmalloc_util).  Class 0    *)
(* stands for large objects and has no blocks.                             *)
EXTENDS Naturals, FiniteSets

CONSTANTS kSuperBlockSize, kMaxSizeClasses

ASSUME SizeClassAssumption ==
  kSuperBlockSize \in Nat \ {0} /\ kMaxSizeClasses \in Nat \ {0}

\* SC: the groups after the first have four classes each, a quarter of a power
\* of two apart.
BlockSize(index) ==
  LET lg_grp == IF index < 4 THEN 3 ELSE 5 + ((index - 4) \div 4)
      lg_delta == IF index < 4 THEN 3 ELSE lg_grp - 2
      ndelta == IF index < 4 THEN index ELSE (index % 4) + 1
  IN 2 ^ lg_grp + ndelta * 2 ^ lg_delta

\* Entry 0 comes before the entries of the table.
size_classes ==
  [i \in 1 .. kMaxSizeClasses - 1 |->
     [block_size |-> BlockSize(i - 1), block_num |-> kSuperBlockSize \div BlockSize(i - 1)]]

kMaxSize == 2 ^ 13 + 3 * 2 ^ 11

\* Mutant: a size equal to that of the blocks is given to the next class.
Strict(size) == Cardinality({i \in DOMAIN size_classes : size_classes[i].block_size <= size}) + 1

\* Number of the entry whose turn it is when size_idx reaches size.
EntryAt(size) == Cardinality({i \in DOMAIN size_classes : size_classes[i].block_size < size}) + 1

size_class_lookup == [size \in 0 .. kMaxSize |-> EntryAt(size)]

\* A small request gets the smallest blocks that hold it, from a class that
\* exists, and at least two of them fit in a superblock.
ClassFits ==
  \A size \in 0 .. kMaxSize :
    LET i == size_class_lookup[size] IN
    /\ i \in DOMAIN size_classes
    /\ size <= size_classes[i].block_size
    /\ i = 1 \/ size > size_classes[i - 1].block_size
    /\ size_classes[i].block_num >= 2
    /\ size_classes[i].block_num * size_classes[i].block_size <= kSuperBlockSize
=============================================================================
