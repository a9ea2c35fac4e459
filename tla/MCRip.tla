--------------------------------- MODULE MCRip ---------------------------------
(* Networks for TLC. *)
EXTENDS Rip

(* A line with the network at one end. *)
Line == [links |-> {{1, 2}, {2, 3}}, owners |-> {1}, strategy |-> "POISON_REVERSE", changes |-> 2]

(* A ring, where a lost network is still announced around it. *)
Ring == [links |-> {{1, 2}, {2, 3}, {1, 3}}, owners |-> {1}, strategy |-> "SPLIT_HORIZON", changes |-> 1]

(* Two routers on the network, and one that is alone. *)
Pair == [links |-> {{1, 2}}, owners |-> {1, 2}, strategy |-> "NO_SPLIT_HORIZON", changes |-> 2]

AllNetworks == {Line, Ring, Pair}
=============================================================================
