-------------------------- MODULE MCUndoLogEngine --------------------------
(* Instances of UndoLogEngine for TLC.                                     *)
EXTENDS UndoLogEngine

\* Every store touches one block.
SingleBlocks == {{b} : b \in 0 .. (nr_blocks - 1)}
=============================================================================
