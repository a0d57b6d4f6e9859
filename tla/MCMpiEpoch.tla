----------------------------- MODULE MCMpiEpoch -----------------------------
(* Instances of MpiEpoch for TLC.                                          *)
EXTENDS MpiEpoch
=============================================================================
