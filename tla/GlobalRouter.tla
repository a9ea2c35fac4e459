---------------------------- MODULE GlobalRouter ----------------------------
(***************************************************************************)
(* Link state discovery: what each router advertises about the topology it *)
(* sees (src/internet/model/global-router-interface.cc) and the link state *)
(* database the advertisements go into (GlobalRouteManagerLSDB in          *)
(* global-route-manager-impl.cc).                                          *)
(*                                                                         *)
(* A topology is a record                                                  *)
(*   nodes    NodeList: 0 .. n - 1                                         *)
(*   routers  the nodes with a GlobalRouter aggregated                     *)
(*   kind     "p2p" or "lan" for every channel                             *)
(*   ifs      per node the sequence of its IPv4 interfaces in index order; *)
(*            position j is interface j (interface 0 is the loopback) and  *)
(*            holds [ch, addr, metric, up, fwd]                            *)
(*   injected per node the sequence of injected external networks          *)
(*            (GlobalRouter::InjectRoute)                                  *)
(*                                                                         *)
(* Addresses are naturals and a mask is the size of the block it selects,  *)
(* so CombineMask drops the host part.  Router ids are the small naturals  *)
(* that GlobalRouteManager::AllocateRouterId hands out.                    *)
(***************************************************************************)
EXTENDS Integers, Sequences, FiniteSets, SequencesExt, Ipv4GlobalRouting

SubnetMask == 16          \* the mask of every subnet
HostMask == 1             \* 255.255.255.255
ZeroMask == 4096          \* 0.0.0.0: the block that holds every address
ZeroAddress == 0
BroadcastAddress == 4095  \* 255.255.255.255

(***************************************************************************)
(* GlobalRouteManager::AllocateRouterId: a counter from 0, drawn once per  *)
(* GlobalRouter in node order.                                             *)
(***************************************************************************)
RouterId(net, n) == Cardinality({m \in net.routers : m < n})

RouterIds(net) == {RouterId(net, n) : n \in net.routers}

(***************************************************************************)
(* The devices of a topology and the walk over the devices of a channel.   *)
(***************************************************************************)
Devices(net) == UNION {{n} \X DOMAIN net.ifs[n] : n \in net.nodes}

Interface(net, d) == net.ifs[d[1]][d[2]]

OnChannel(net, c) == {d \in Devices(net) : Interface(net, d).ch = c}

DeviceOrder(d, e) == d[1] < e[1] \/ (d[1] = e[1] /\ d[2] < e[2])

(* Those in S, in the order of the walk. *)
InOrder(S) ==
    [k \in 1 .. Cardinality(S) |->
        CHOOSE d \in S : Cardinality({e \in S : DeviceOrder(e, d)}) = k - 1]

(***************************************************************************)
(* GlobalRouter::GetAdjacent, AnotherRouterOnLink,                         *)
(* FindDesignatedRouterForLink: links without bridges.  The designated     *)
(* router only has to be up; whether it forwards is not looked at.         *)
(***************************************************************************)
GetAdjacent(net, d) ==
    CHOOSE e \in OnChannel(net, Interface(net, d).ch) : e # d

AnotherRouterOnLink(net, d) ==
    \E e \in OnChannel(net, Interface(net, d).ch) :
        e # d /\ e[1] \in net.routers

RouterDevice(net, e) == e[1] \in net.routers   \* mutant: up or not

UpRouterDevice(net, e) == e[1] \in net.routers /\ Interface(net, e).up

FindDesignatedRouterForLink(net, d) ==
    Min({BroadcastAddress} \cup
        {Interface(net, e).addr :
            e \in {f \in OnChannel(net, Interface(net, d).ch) :
                        UpRouterDevice(net, f)}})

(***************************************************************************)
(* GlobalRoutingLinkRecord and the records a router's interface gives.     *)
(***************************************************************************)
LinkRecord(type, linkId, linkData, metric) ==
    [type |-> type, linkId |-> linkId, linkData |-> linkData, metric |-> metric]

ProcessSingleBroadcastLink(net, d) ==
    LET itf == Interface(net, d) IN
    IF AnotherRouterOnLink(net, d)
    THEN << LinkRecord("TransitNetwork", FindDesignatedRouterForLink(net, d),
                       itf.addr, itf.metric) >>
    ELSE << LinkRecord("StubNetwork", CombineMask(itf.addr, SubnetMask),
                       SubnetMask, itf.metric) >>

(* Mutant: the state of the peer's interface is not looked at. *)
PointToPointLinkToAny(net, d) ==
    LET itf == Interface(net, d)
        e   == GetAdjacent(net, d)
    IN  IF e[1] \notin net.routers THEN << >>
        ELSE << LinkRecord("PointToPoint", RouterId(net, e[1]), itf.addr, itf.metric),
                LinkRecord("StubNetwork", Interface(net, e).addr, SubnetMask, itf.metric) >>

ProcessPointToPointLink(net, d) ==
    LET itf    == Interface(net, d)
        e      == GetAdjacent(net, d)
        remote == Interface(net, e)
        type1  == LinkRecord("PointToPoint", RouterId(net, e[1]), itf.addr, itf.metric)
        type3  == LinkRecord("StubNetwork", remote.addr, SubnetMask, itf.metric)
    IN  IF e[1] \notin net.routers THEN << >>
        ELSE IF remote.up THEN << type1, type3 >> ELSE << type3 >>

(***************************************************************************)
(* GlobalRouter::DiscoverLSAs: one Router-LSA, one Network-LSA for every   *)
(* interface this router is the designated router of, one AS external LSA  *)
(* for every injected route.                                               *)
(***************************************************************************)
Advertised(net, d) == Interface(net, d).up /\ Interface(net, d).fwd

(* ProcessSingleBroadcastLink aborts if the designated router's address is *)
(* of another network than its own.                                        *)
NetworkConfusion(net) ==
    \E d \in Devices(net) :
        /\ d[1] \in net.routers /\ Advertised(net, d)
        /\ net.kind[Interface(net, d).ch] = "lan" /\ AnotherRouterOnLink(net, d)
        /\ LET there == FindDesignatedRouterForLink(net, d) IN
            /\ there # BroadcastAddress
            /\ CombineMask(Interface(net, d).addr, SubnetMask) # CombineMask(there, SubnetMask)

LinkRecords(net, d) ==
    IF ~Advertised(net, d) THEN << >>
    ELSE IF net.kind[Interface(net, d).ch] = "lan"
         THEN ProcessSingleBroadcastLink(net, d)
         ELSE ProcessPointToPointLink(net, d)

RouterLSA(net, n) ==
    [type |-> "RouterLSA", id |-> RouterId(net, n), node |-> n, attached |-> << >>,
     links |-> FlattenSeq([j \in DOMAIN net.ifs[n] |-> LinkRecords(net, <<n, j>>)])]

DesignatedDevices(net, n) ==
    {d \in {n} \X DOMAIN net.ifs[n] :
        /\ Advertised(net, d)
        /\ net.kind[Interface(net, d).ch] = "lan"
        /\ AnotherRouterOnLink(net, d)
        /\ FindDesignatedRouterForLink(net, d) = Interface(net, d).addr}

NetworkLSA(net, d) ==
    [type |-> "NetworkLSA", id |-> Interface(net, d).addr, node |-> d[1], links |-> << >>,
     attached |->
        LET listed == InOrder({e \in OnChannel(net, Interface(net, d).ch) :
                                    e = d \/ UpRouterDevice(net, e)})
        IN  [k \in DOMAIN listed |-> Interface(net, listed[k]).addr]]

ASExternalLSAs(net, n) ==
    [k \in DOMAIN net.injected[n] |->
        [id |-> net.injected[n][k], mask |-> SubnetMask,
         advertisingRouter |-> RouterId(net, n)]]

DiscoverLSAs(net, n) ==
    {RouterLSA(net, n)} \cup {NetworkLSA(net, d) : d \in DesignatedDevices(net, n)}

(***************************************************************************)
(* GlobalRouteManagerImpl::BuildGlobalRoutingDatabase with                 *)
(* GlobalRouteManagerLSDB::Insert: m_database is a std::map, so an LSA     *)
(* whose id is already there is dropped; m_extdatabase only grows.         *)
(***************************************************************************)
DiscoveredLSAs(net) == UNION {DiscoverLSAs(net, n) : n \in net.routers}

InsertLSAs(db, lsas) ==
    [id \in DOMAIN db \cup {l.id : l \in lsas} |->
        IF id \in DOMAIN db THEN db[id] ELSE CHOOSE l \in lsas : l.id = id]

BuildDatabase(net, db) == InsertLSAs(db, DiscoveredLSAs(net))

(* The external LSAs of node n: NodeList is walked in order. *)
DiscoverExternalLSAs(net, n) == IF n \in net.routers THEN ASExternalLSAs(net, n) ELSE << >>

BuildExtDatabase(net, ext) ==
    ext \o FlattenSeq([k \in 1 .. Cardinality(net.nodes) |-> DiscoverExternalLSAs(net, k - 1)])

(***************************************************************************)
(* GlobalRouteManagerLSDB::GetLSAByLinkData: the ids of the LSAs with a    *)
(* transit record for address a.  The code returns the first in map order. *)
(***************************************************************************)
HasTransitRecord(lsa, a) ==
    \E k \in DOMAIN lsa.links :
        lsa.links[k].type = "TransitNetwork" /\ lsa.links[k].linkData = a

LSAsByLinkData(db, a) == {id \in DOMAIN db : HasTransitRecord(db[id], a)}
-----------------------------------------------------------------------------
(***************************************************************************)
(* What the calculation takes for granted of a topology: addresses that    *)
(* are distinct and no router ids, two devices on a point-to-point channel *)
(* (GetAdjacent asserts it) and one network number on a network, without   *)
(* which the discovery aborts.  Of the database built from it: the types   *)
(* of the fields, a Router-LSA for every router, type 1 records that name  *)
(* routers, and transit records only in Router-LSAs.                       *)
(***************************************************************************)
InterfaceType(net) ==
    [ch : DOMAIN net.kind, addr : Cardinality(net.routers) .. BroadcastAddress - 1,
     metric : Nat, up : BOOLEAN, fwd : BOOLEAN]

LinkRecordType ==
    [type : {"PointToPoint", "TransitNetwork", "StubNetwork"},
     linkId : Nat, linkData : Nat, metric : Nat]

LSAType ==
    [type : {"RouterLSA", "NetworkLSA"}, id : Nat, node : Nat,
     attached : Seq(Nat), links : Seq(LinkRecordType)]

ASExternalLSAType == [id : Nat, mask : Nat \ {0}, advertisingRouter : Nat]

WellFormedTopology(net) ==
    /\ DOMAIN net = {"nodes", "routers", "kind", "ifs", "injected"}
    /\ net.nodes \subseteq Nat /\ IsFiniteSet(net.nodes)
    /\ net.nodes = 0 .. Cardinality(net.nodes) - 1
    /\ net.routers \subseteq net.nodes
    /\ net.injected \in [net.nodes -> Seq(Nat)]
    /\ \A n \in net.nodes : net.ifs[n] \in Seq(InterfaceType(net))
    /\ \A c \in DOMAIN net.kind : net.kind[c] \in {"p2p", "lan"}
    /\ \A d, e \in Devices(net) : Interface(net, d).addr = Interface(net, e).addr => d = e
    /\ \A d \in Devices(net) :
          net.kind[Interface(net, d).ch] = "p2p" =>
             \E e \in Devices(net) : e # d /\ OnChannel(net, Interface(net, d).ch) = {d, e}
    /\ ~NetworkConfusion(net)

WellFormedDatabase(net, db) ==
    /\ DOMAIN db \subseteq Nat /\ IsFiniteSet(DOMAIN db)
    /\ \A id \in DOMAIN db : db[id] \in LSAType
    /\ \A n \in net.routers :
          RouterId(net, n) \in DOMAIN db /\ db[RouterId(net, n)].type = "RouterLSA"
    /\ \A id \in DOMAIN db : \A k \in DOMAIN db[id].links :
          LET l == db[id].links[k] IN
          /\ l.type = "PointToPoint" =>
                l.linkId \in DOMAIN db /\ db[l.linkId].type = "RouterLSA"
          /\ l.type = "StubNetwork" => l.linkData # 0
    /\ \A id \in DOMAIN db : db[id].type = "NetworkLSA" => db[id].links = << >>

WellFormed(net, db, ext) ==
    /\ WellFormedTopology(net)
    /\ WellFormedDatabase(net, db)
    /\ ext \in Seq(ASExternalLSAType)
=============================================================================
