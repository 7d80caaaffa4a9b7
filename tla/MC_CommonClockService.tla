----------------------- MODULE MC_CommonClockService -----------------------
(***************************************************************************)
(* A small instance of CommonClockService for TLC: two listeners and two    *)
(* binder threads.  No symmetry: the run checks liveness.                   *)
(***************************************************************************)
EXTENDS CommonClockService, TLC
=============================================================================
