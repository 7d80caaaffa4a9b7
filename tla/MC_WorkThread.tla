--------------------------- MODULE MC_WorkThread ---------------------------
(***************************************************************************)
(* Small instances of WorkThread for TLC: one device and one peer.          *)
(***************************************************************************)
EXTENDS WorkThread, TLC
=============================================================================
