------------------------ MODULE MC_CommonTimeServer ------------------------
(***************************************************************************)
(* Small instances of CommonTimeServer for TLC.  Device IDs arbitrate, so   *)
(* the devices are not symmetric.                                           *)
(***************************************************************************)
EXTENDS CommonTimeServer, TLC
=============================================================================
