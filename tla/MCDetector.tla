----------------------------- MODULE MCDetector -----------------------------
(***************************************************************************)
(* Detector for TLC: a handful of frame sizes, one marker per combination  *)
(* of failing gates that the .cfg names, and counters bounded by           *)
(* MaxDecoded and MaxResizes.                                              *)
(***************************************************************************)
EXTENDS Detector
=============================================================================
