---------------------------- MODULE MCNullMessage ----------------------------
(* Instances of NullMessageSimulator for TLC. *)
EXTENDS NullMessageSimulator

(* Two ranks joined by two links of different delay and speed that satisfy *)
(* ParallelLinksFit.  The third rank has no links.                         *)
Parallel == Both(0, 1, 2, {1, 2}) \cup Both(0, 1, 3, {1})
=============================================================================
