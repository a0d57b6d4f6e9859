----------------------------- MODULE MCLrMalloc -----------------------------
(* Instances of LrMalloc for TLC.                                          *)
EXTENDS LrMalloc, TLC

CONSTANTS t1, t2
=============================================================================
