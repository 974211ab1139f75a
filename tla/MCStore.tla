------------------------------- MODULE MCStore -------------------------------
(***************************************************************************)
(* A reader in detail, two other goroutines, and a controller that may die *)
(* and be started again at any point of a write.                           *)
(***************************************************************************)
EXTENDS Store

CONSTANTS r1, c1, c2, a, b

MCCalls ==
  [c \in Callers |-> IF c = c1 THEN {"ReadSnapshot", "writeCommand"} ELSE {"Close"}]

(* Bound: while a caller is inside a method the controller makes one write *)
(* at most; the others meet the reader alone.                              *)
MCWritesAmongCallers == 1
MCQuiet == \A c \in Callers : at[c] = "idle"
MCNext == StoreNext /\ (version' > MCWritesAmongCallers + 1 => MCQuiet')
MCSpec == StoreInit /\ [][MCNext]_svars /\ StoreFairness

(* The page of a system that has never lost a controller within a write.   *)
StableInit == StoreInit /\ truthful
StableSpec == StableInit /\ [][StoreNext]_svars /\ StoreFairness

=============================================================================
