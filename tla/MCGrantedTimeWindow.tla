------------------------- MODULE MCGrantedTimeWindow -------------------------
(* An instance of GrantedTimeWindow for TLC. *)
EXTENDS GrantedTimeWindow

(* Three ranks in a line, links of different delay and speed, and a fourth *)
(* rank without links.                                                     *)
Line == Both(0, 1, 1, 1) \cup Both(1, 2, 3, 2)
=============================================================================
