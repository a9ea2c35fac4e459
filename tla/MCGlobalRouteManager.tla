----------------------- MODULE MCGlobalRouteManager -----------------------
(* Instances of GlobalRouteManager for TLC. *)
EXTENDS GlobalRouteManager, Topologies

(* A network of three routers, one of which has a point-to-point link to a *)
(* fourth node that is a router in one instance and a host in the other.   *)
LanAndLink ==
    {Topology(4, routers, << LAN(<<0, 1, 2>>), P2P(2, 3) >>, NoInjected(4),
              LAMBDA c, p : 1, LAMBDA c, p : TRUE, LAMBDA c, p : TRUE) :
        routers \in {0 .. 3, 0 .. 2}}

(* The designated router of the network, and the point-to-point link. *)
DesignatedAndLink == {<<0, 1>>, <<2, 2>>}
=============================================================================
