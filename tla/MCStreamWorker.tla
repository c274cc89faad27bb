-------------------------- MODULE MCStreamWorker --------------------------
(***************************************************************************)
(* StreamWorker for TLC. Every instance is finite because the clock stops  *)
(* at Horizon and at most one buffer arrives per tick; the .cfg files      *)
(* choose the timeouts so that the case each run is about happens.         *)
(***************************************************************************)
EXTENDS StreamWorker
=============================================================================
