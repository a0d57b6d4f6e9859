-------------------------- MODULE MCCleanerThread --------------------------
(* Instances of CleanerThread for TLC.                                     *)
EXTENDS CleanerThread
=============================================================================
