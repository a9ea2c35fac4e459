--------------------------- MODULE MCBridgedLinks ---------------------------
(* Instances of BridgedLinks for TLC: a channel with up to three devices,  *)
(* one with up to two and one with up to one, every choice of devices out  *)
(* of routers that are up or down, hosts and ports of two bridges, the     *)
(* first of which may be a router too, with its interface up or down.      *)
EXTENDS BridgedLinks

Names == {-1, -2}

AllDomains ==
    {[chan |-> <<x, y, z>>, routing |-> rd[1], down |-> rd[2]] :
        x \in BoundedSeq(0 .. 2 \cup Names, 3),
        y \in BoundedSeq(0 .. 2 \cup Names, 2),
        z \in BoundedSeq({0, 1} \cup Names, 1),
        rd \in {<<{}, {}>>, <<{-1}, {}>>, <<{}, {-1}>>}}
=============================================================================
