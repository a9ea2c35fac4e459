------------------------------- MODULE MCSpf -------------------------------
(* Instances of SpfCalculation for TLC. *)
EXTENDS SpfProperties, Topologies

Channels3 == {P2P(0, 1), P2P(1, 2), P2P(0, 2), LAN(<<1, 0>>), LAN(<<2, 0, 1>>)}

(* Three routers and three channels, no two point-to-point links between   *)
(* the same routers.                                                       *)
NoParallel(chans) ==
    \A a, b \in DOMAIN chans :
        a # b /\ chans[a].kind = "p2p" => chans[a] # chans[b]

UniformNetworks ==
    {Uniform(3, chans, m) :
        chans \in {cs \in [1 .. 3 -> Channels3] : NoParallel(cs)},
        m \in [1 .. 3 -> 1 .. 2]}
(* Four nodes, the last of them sometimes a host without GlobalRouter,     *)
(* interfaces that are down, an injected route; equal metrics on a link.   *)
Shapes4 ==
    { << P2P(0, 1), P2P(1, 2), P2P(2, 3), P2P(0, 3) >>,
      << LAN(<<2, 0, 1>>), P2P(1, 3), LAN(<<3, 2>>), P2P(0, 3) >>,
      << P2P(0, 1), LAN(<<1, 2, 3>>), P2P(0, 2), LAN(<<3>>) >>,
      << LAN(<<0, 1>>), LAN(<<1, 2>>), LAN(<<2, 3>>), P2P(0, 3) >> }

Injected == [x \in 0 .. 3 |-> IF x = 2 THEN << 2048 >> ELSE << >>]

Failing(chans, routers, m, down) ==
    Topology(4, routers, chans, Injected,
             LAMBDA c, p : m[c],
             LAMBDA c, p : <<c, p>> \notin down, LAMBDA c, p : <<c, p>> \notin down)

DownSets == {{}, {<<1, 1>>}, {<<1, 2>>}, {<<2, 1>>}, {<<2, 2>>}, {<<4, 1>>},
             {<<1, 1>>, <<4, 2>>}, {<<1, 2>>, <<3, 1>>}}

FailingNetworks ==
    {Failing(chans, routers, m, down) :
        chans \in Shapes4, routers \in {0 .. 3, 0 .. 2},
        m \in {<<1, 1, 1, 1>>, <<1, 2, 1, 1>>, <<2, 1, 1, 2>>, <<1, 1, 2, 3>>},
        down \in DownSets}
(* Metrics that differ at the two ends of a link, parallel links, several  *)
(* interfaces of a router on one network, interfaces that do not forward.  *)
OddShapes ==
    { << P2P(0, 1), P2P(0, 1), P2P(1, 2) >>,
      << LAN(<<2, 1, 0>>), P2P(0, 1), P2P(0, 2) >>,
      << LAN(<<1, 0>>), LAN(<<0, 1>>), LAN(<<1, 2>>) >>,
      << LAN(<<0, 1, 1, 1>>), P2P(1, 2), LAN(<<2>>) >> }

EndMetrics ==
    {m \in [1 .. 3 -> {<<x, y, x, y>> : x, y \in 1 .. 3}] :
        \A c \in 2 .. 3 : m[c][1] < 3 /\ m[c][2] < 3}

Odd(chans, m, noForward) ==
    Topology(3, 0 .. 2, chans, NoInjected(3),
             LAMBDA c, p : m[c][p], LAMBDA c, p : TRUE,
             LAMBDA c, p : <<c, p>> \notin noForward)

OneAll == <<1, 1, 1, 1>>

OddNetworks ==
    {Odd(chans, m, noForward) :
        chans \in OddShapes, m \in EndMetrics,
        noForward \in {{}, {<<1, 1>>}}}

AllNetworks == UniformNetworks \cup FailingNetworks \cup OddNetworks
-----------------------------------------------------------------------------
(* Router 1 has three interfaces on a network with router 0. *)
ThreeInterfaces == {Odd(<< LAN(<<0, 1, 1, 1>>), LAN(<<1, 2>>) >>, <<OneAll, OneAll>>, {})}
=============================================================================
