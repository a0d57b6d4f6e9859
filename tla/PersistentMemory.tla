------------------------- MODULE PersistentMemory -------------------------
(***************************************************************************)
(* Stores to persistent memory, as the primitives of common.h (Flush,      *)
(* FlushRegion, StoreFence, NTStore, NonTemporalCopy64) order them.        *)
(*                                                                         *)
(* A store reaches the cache; the line may be written to the medium at any *)
(* time, and is there for certain only after a flush and a fence.  A       *)
(* non-temporal store is certain after a fence.  So an array x of          *)
(* locations has the values loads return, and x_pm, for each location the  *)
(* set of the values the medium may hold.                                  *)
(***************************************************************************)

\* Stores of val[x] to the locations x of X, as loads see them
Write(mem, X, val) == [x \in DOMAIN mem |-> IF x \in X THEN val[x] ELSE mem[x]]

\* ... and as the medium may have them until a fence.
Put(pm, X, val) == [x \in DOMAIN pm |-> IF x \in X THEN pm[x] \cup {val[x]}
                                                   ELSE pm[x]]

\* A flush (where the stores were cached) and a fence: the medium is known to
\* hold val[x] for the locations x of X.
Settle(pm, X, val) == [x \in DOMAIN pm |-> IF x \in X THEN {val[x]} ELSE pm[x]]

\* What the medium may be found to hold after a crash.
Resolve(pm, S) == {f \in [DOMAIN pm -> S] : \A x \in DOMAIN pm : f[x] \in pm[x]}

\* The medium is known to hold exactly the values of mem.
Settled(mem) == [x \in DOMAIN mem |-> {mem[x]}]
=============================================================================
