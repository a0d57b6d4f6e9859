-------------------------- MODULE MCNvmInstEngine --------------------------
(* Instances of NvmInstEngine for TLC.                                     *)
EXTENDS NvmInstEngine, TLC

\* Every store touches one block.
SingleBlocks == {{b} : b \in (0 .. (nr_main_segments - 1)) \X (0 .. (kBlocksPerSegment - 1))}

\* A store to one block, or a range store across the segments' border.
BorderRanges == {{<<0, 0>>}, {<<0, kBlocksPerSegment - 1>>, <<1, 0>>}}

\* Threads and stored values are interchangeable.
Symmetry == Permutations(Threads) \cup Permutations(Values)
=============================================================================
