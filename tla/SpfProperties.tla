--------------------------- MODULE SpfProperties ---------------------------
(***************************************************************************)
(* What the SPF calculation promises, stated against definitions that know *)
(* nothing of the algorithm: shortest distances by relaxation to a fixed   *)
(* point, first hops by those distances, and packets that are handed from  *)
(* router to router.                                                       *)
(***************************************************************************)
EXTENDS SpfCalculation

(* The calculation for a root has built its tree and starts the walks. *)
TreeBuilt == pc = "walk" /\ pass = 0 /\ stack = << <<root, 1>> >>

-----------------------------------------------------------------------------
(***************************************************************************)
(* Reference: the graph of the database and its shortest distances.        *)
(***************************************************************************)
Edges ==
    UNION {{<<u, Neighbour(u, k), Cost(u, k)>> :
                k \in {m \in 1 .. NumRecords(u) :
                        ~IsStubRecord(u, m) /\ Neighbours(u, m) # {}}} : u \in Ids}

(* The ways to w: those known, and those with one edge more. *)
Ways(edges, known, w) ==
    {known[x] : x \in DOMAIN known \cap {w}} \cup
    {known[e[1]] + e[3] : e \in {f \in edges : f[1] \in DOMAIN known /\ f[2] = w}}

Relax(edges, known) ==
    [w \in DOMAIN known \cup {e[2] : e \in {f \in edges : f[1] \in DOMAIN known}} |->
        Min(Ways(edges, known, w))]

(* The distances from r over paths of at most n edges, of the vertices     *)
(* that such a path leads to.                                              *)
DistancesWithin(edges, r) ==
    LET D[n \in Nat] == IF n = 0 THEN [w \in {r} |-> 0] ELSE Relax(edges, D[n - 1])
    IN  D

DistancesFrom(r) == DistancesWithin(Edges, r)[Cardinality(Ids)]

-----------------------------------------------------------------------------
(***************************************************************************)
(* An ordinary network: an interface forwards when it is up, a channel has *)
(* one metric, a router has one interface on it, and no two point-to-point *)
(* links join the same nodes.  On others LSAs may lead nowhere, next hops  *)
(* get lost and the calculation may fail or never end.                     *)
(***************************************************************************)
Ordinary ==
    \A d, e \in Devices(net) :
        LET a == Interface(net, d)
            b == Interface(net, e)
        IN  /\ a.up = a.fwd
            /\ a.ch = b.ch => a.metric = b.metric /\ (d[1] = e[1] => d = e)
            /\ /\ {net.kind[a.ch], net.kind[b.ch]} = {"p2p"} /\ d # e /\ d[1] = e[1]
               => GetAdjacent(net, d)[1] # GetAdjacent(net, e)[1]

(* The routers agree on their links: whenever one router's LSA leads to    *)
(* another vertex, that vertex's LSA leads back, although each was made    *)
(* from its own view of the interfaces of the link.                        *)
LinksAreTwoWay ==
    pc = "idle" /\ Ordinary => \A e \in Edges : \E f \in Edges : f[1] = e[2] /\ f[2] = e[1]

(* The candidate list and the status fields agree: an LSA is marked        *)
(* LSA_SPF_CANDIDATE exactly while its vertex is in the list, once, so     *)
(* Find in SPFNext never returns null; and the list is in order whenever   *)
(* Push or Pop relies on it, in spite of the distances that are changed    *)
(* inside it.                                                              *)
QueueAgreesWithStatus ==
    pc = "spf" =>
        /\ Listed(queue) = {w \in Ids : status[w] = "Candidate"}
        /\ NoDuplicates(queue)
        /\ Sorted(dist, NetworkVertices, queue)

(* The finished tree is the shortest path tree: it holds exactly the       *)
(* vertices that can be reached from the root, at their shortest distance. *)
TreeIsShortest == TreeBuilt => DistancesFrom(root) = [w \in InTree |-> dist[w]]

(* All equal-cost paths are found: the parents of a vertex are all its     *)
(* predecessors on shortest paths.  (candidate-queue.cc: "This ordering is *)
(* necessary for implementing ECMP".)                                      *)
AllEqualCostParents ==
    TreeBuilt =>
        \A w \in InTree \ {root} :
            parents[w] = {e[1] : e \in {f \in Edges :
                            f[2] = w /\ f[1] \in InTree /\ dist[f[1]] + f[3] = dist[w]}}

(* A vertex in the tree is settled: later records and candidates change    *)
(* neither its distance nor its parents and exits, and it stays in.        *)
TreeIsSettled ==
    [][pc = "spf" /\ pc' = "spf" =>
        \A w \in InTree : /\ w \in InTree'
                          /\ dist'[w] = dist[w]
                          /\ parents'[w] = parents[w]
                          /\ exits'[w] = exits[w]]_vars

(* Parents and children are linked both ways and no child is listed twice: *)
(* what the destructor ~SPFVertex asserts of every vertex when the tree is *)
(* deleted ("Unable to find the current vertex from its parents ---        *)
(* impossible!").                                                          *)
TreeIsLinked ==
    pc = "walk" =>
        \A u, w \in InTree :
            /\ u \in parents[w] <=> w \in Listed(children[u])
            /\ NoDuplicates(children[u])

(* The walk that installs stub routes reaches every vertex of the tree     *)
(* although shared children are entered only once: when it ends, every     *)
(* stub network of every reached router has its routes.                    *)
StubsAreInstalled ==
    pc = "walk" /\ pass = 0 /\ Len(stack) = 1 /\ AtEnd =>
        /\ processed = InTree \ {root}
        /\ \A u \in InTree \ NetworkVertices : SPFIntraAddStub(u) \subseteq routes[node].network
-----------------------------------------------------------------------------
(***************************************************************************)
(* Reference: first hops.  The root can send over its interface j to the   *)
(* neighbouring device x; that starts a shortest path to w when what is    *)
(* left from there is as long as it should be.                             *)
(***************************************************************************)
NeighbourDevices(n, j) ==
    {x \in OnChannel(net, net.ifs[n][j].ch) :
        x[1] # n /\ x[1] \in net.routers /\ Advertised(net, x)}

AdvertisedInterfaces(n) == {j \in DOMAIN net.ifs[n] : Advertised(net, <<n, j>>)}

DirectExits(w) ==
    {<<ZeroAddress, j>> : j \in {k \in AdvertisedInterfaces(node) :
        /\ w \in NetworkVertices
        /\ IsMatch(SubnetMask, net.ifs[node][k].addr, w)
        /\ net.ifs[node][k].metric = dist[w]}}

FirstHops(D, w) ==
    UNION {{<<Interface(net, x).addr, j>> :
                x \in {y \in NeighbourDevices(node, j) :
                    LET distances == D[RouterId(net, y[1])] IN
                    /\ w \in DOMAIN distances
                    /\ net.ifs[node][j].metric + distances[w] = dist[w]}} :
            j \in AdvertisedInterfaces(node)}

(* The exits recorded for a vertex are the first hops of its shortest      *)
(* paths, all of them and nothing else, each a neighbour's address on the  *)
(* link of the outgoing interface; networks the root is attached to are    *)
(* reached without a next hop.                                             *)
ExitsAreFirstHops ==
    TreeBuilt /\ Ordinary =>
        LET D == [r \in RouterIds(net) |-> DistancesFrom(r)]
        IN  \A w \in InTree \ {root} : exits[w] = DirectExits(w) \cup FirstHops(D, w)

-----------------------------------------------------------------------------
(***************************************************************************)
(* Reference: forwarding.  A node that owns the address, or has an         *)
(* interface up in its subnet, delivers it (the connected routes of        *)
(* Ipv4StaticRouting come first in Ipv4ListRouting); any other node hands  *)
(* the packet to the gateway of some route that LookupGlobal may return.   *)
(***************************************************************************)
Delivers(n, a) ==
    \E j \in DOMAIN net.ifs[n] :
        net.ifs[n][j].up /\ IsMatch(SubnetMask, net.ifs[n][j].addr, a)

(* The nodes with the gateway's address on the link of the interface. *)
GatewayNodes(x, r) ==
    {d[1] : d \in {e \in OnChannel(net, net.ifs[x][r.interface].ch) :
                        Interface(net, e).addr = r.gateway /\ Interface(net, e).up}}

(* The nodes from which every choice of routes delivers in at most n hops. *)
Reaching(a) ==
    LET R[n \in Nat] ==
            IF n = 0 THEN {x \in net.nodes : Delivers(x, a)}
            ELSE LET near == R[n - 1]
                 IN  near \cup {x \in net.routers :
                        /\ LookupGlobal(routes[x], a) # {}
                        /\ \A r \in LookupGlobal(routes[x], a) :
                              GatewayNodes(x, r) # {} /\ GatewayNodes(x, r) \subseteq near}
    IN  R[Cardinality(net.nodes)]

(* Routers joined by links whose ends both are up and forward. *)
Adjacent(x, y) ==
    \E j \in AdvertisedInterfaces(x) : \E d \in NeighbourDevices(x, j) : d[1] = y

Joined(x) ==
    LET J[n \in Nat] ==
            IF n = 0 THEN {x}
            ELSE LET near == J[n - 1]
                 IN  near \cup {y \in net.routers : \E z \in near : Adjacent(z, y)}
    IN  J[Cardinality(net.nodes)]

(* A point-to-point link to a node without GlobalRouter is not advertised. *)
InGlobalRouting(d) ==
    /\ d[1] \in net.routers /\ Advertised(net, d)
    /\ net.kind[Interface(net, d).ch] = "p2p" => GetAdjacent(net, d)[1] \in net.routers

(* The tables of all routers together deliver: a packet to an address of a *)
(* working interface gets there from every router that is joined to its    *)
(* owner, whichever equal-cost routes are taken on the way, without loops. *)
RoutesDeliver ==
    pc = "done" /\ Ordinary =>
        \A d \in Devices(net) :
            InGlobalRouting(d) => Joined(d[1]) \subseteq Reaching(Interface(net, d).addr)

(* An injected external network is reachable where its advertising router  *)
(* is: every other router that ran the calculation has external routes     *)
(* exactly when the advertising router is in its part of the topology.     *)
ExternalsFollowRouters ==
    pc = "done" =>
        \A x \in net.routers, y \in net.routers :
            \A k \in DOMAIN net.injected[y] :
                /\ x # y /\ ~CheckForStubNode(RouterId(net, x))
                => (y \in Joined(x) <=>
                        Matching(routes[x].external, net.injected[y][k]) # {})

(* On an ordinary network InitializeRoutes returns, with no assertion      *)
(* failing and no search for a next hop going on for ever.                 *)
InitializeRoutesReturns == Ordinary => <>(pc = "done")

(* PopulateRoutingTables: "Build a routing database and initialize the     *)
(* routing tables of the nodes in the simulation", whatever the topology.  *)
TablesGetPopulated == <>(pc = "done")
=============================================================================
