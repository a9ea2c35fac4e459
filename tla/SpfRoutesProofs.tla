-------------------------- MODULE SpfRoutesProofs --------------------------
(***************************************************************************)
(* Theorems about what the calculations of SpfCalculation leave: the links *)
(* in the database, the first hops of the shortest paths, and the tables   *)
(* of all routers together, for every set of well-formed topologies.       *)
(***************************************************************************)
EXTENDS SpfProofs

-----------------------------------------------------------------------------
(***************************************************************************)
(* LinksAreTwoWay.  The edges of the graph, by the devices they come from. *)
(***************************************************************************)
Built == WellFormedTopology(net) /\ lsdb = Database(net)

(* GetLSAByLinkData finds the Router-LSA of the owner of the address, if   *)
(* the owner's interface has a transit record.                             *)
LEMMA LinkDataFacts ==
    ASSUME Built, NEW d \in Devices(net)
    PROVE  LSAsByLinkData(lsdb, Interface(net, d).addr)
             = IF d[1] \in net.routers /\ OnTransit(net, d) THEN {RouterId(net, d[1])} ELSE {}
<1> DEFINE a == Interface(net, d).addr
<1>0. WellFormedTopology(net) /\ lsdb = Database(net)
  BY DEF Built
<1>1. ASSUME NEW id \in DOMAIN lsdb, HasTransitRecord(lsdb[id], a)
      PROVE  d[1] \in net.routers /\ OnTransit(net, d) /\ id = RouterId(net, d[1])
  <2>1. PICK k \in DOMAIN lsdb[id].links :
            lsdb[id].links[k].type = "TransitNetwork" /\ lsdb[id].links[k].linkData = a
    BY <1>1 DEF HasTransitRecord
  <2>2. \A e \in Devices(net) : lsdb[id] # NetworkLSA(net, e)
    <3> SUFFICES ASSUME NEW e \in Devices(net), lsdb[id] = NetworkLSA(net, e) PROVE FALSE
      OBVIOUS
    <3>1. lsdb[id].links = << >>
      BY <1>0, NetworkLSAFacts
    <3> QED BY <2>1, <3>1
  <2>3. PICK n \in net.routers : id = RouterId(net, n) /\ lsdb[id] = RouterLSA(net, n)
    BY <1>0, <2>2, DatabaseHolds
  <2>4. PICK l \in Listed(RouterLSA(net, n).links) : l.type = "TransitNetwork" /\ l.linkData = a
    <3>1. RouterLSA(net, n).links \in Seq(LinkRecordType)
      BY <1>0, RouterLSAFacts DEF LSAType
    <3>2. k \in 1 .. Len(RouterLSA(net, n).links)
      BY <2>3, <3>1
    <3> QED BY <2>1, <2>3, <3>2 DEF Listed
  <2>5. PICK e \in Devices(net) : /\ e[1] = n
                                  /\ \/ OnTransit(net, e) /\ l = TransitRecord(net, e)
                                     \/ l = RouterRecord(net, e)
    BY <1>0, <2>4, RouterRecords
  <2>6. l # RouterRecord(net, e)
    BY <2>4 DEF RouterRecord, LinkRecord
  <2>7. Interface(net, e).addr = a
    BY <2>4, <2>5, <2>6 DEF TransitRecord, LinkRecord
  <2>8. e = d
    BY <1>0, <2>7 DEF WellFormedTopology
  <2> QED BY <2>3, <2>5, <2>6, <2>8
<1>2. ASSUME d[1] \in net.routers, OnTransit(net, d)
      PROVE  /\ RouterId(net, d[1]) \in DOMAIN lsdb
             /\ HasTransitRecord(lsdb[RouterId(net, d[1])], a)
  <2> DEFINE lsa == RouterLSA(net, d[1])
  <2>1. RouterId(net, d[1]) \in DOMAIN lsdb /\ lsdb[RouterId(net, d[1])] = lsa
    BY <1>0, <1>2, DatabaseHolds
  <2>2. TransitRecord(net, d) \in Listed(lsa.links)
    BY <1>0, <1>2, RouterRecords
  <2>3. lsa.links \in Seq(LinkRecordType)
    BY <1>0, <1>2, RouterLSAFacts DEF LSAType
  <2> HIDE DEF lsa
  <2>4. PICK k \in 1 .. Len(lsa.links) : lsa.links[k] = TransitRecord(net, d)
    BY <2>2 DEF Listed
  <2>5. k \in DOMAIN lsa.links
    BY <2>3
  <2>6. lsa.links[k].type = "TransitNetwork" /\ lsa.links[k].linkData = a
    BY <2>4 DEF TransitRecord, LinkRecord
  <2> QED BY <2>1, <2>5, <2>6 DEF HasTransitRecord
<1> QED BY <1>1, <1>2 DEF LSAsByLinkData

(* A router's LSA leads to the routers across its point-to-point links and *)
(* to the networks of its interfaces; a network's LSA leads to the routers *)
(* with a transit record for it.                                           *)
RouterEdge(d, e) ==
    /\ d[1] \in net.routers /\ LinksRouters(net, d)
    /\ e[1] = RouterId(net, d[1]) /\ e[2] = RouterId(net, GetAdjacent(net, d)[1])
    /\ e[3] = Interface(net, d).metric

TransitEdge(d, e) ==
    /\ d[1] \in net.routers /\ OnTransit(net, d)
    /\ FindDesignatedRouterForLink(net, d) \in Ids
    /\ e[1] = RouterId(net, d[1]) /\ e[2] = FindDesignatedRouterForLink(net, d)
    /\ e[3] = Interface(net, d).metric

NetworkEdge(x, d, e) ==
    /\ IsDesignated(net, x) /\ Interface(net, d).ch = Interface(net, x).ch
    /\ d = x \/ UpRouterDevice(net, d)
    /\ d[1] \in net.routers /\ OnTransit(net, d)
    /\ e[1] = Interface(net, x).addr /\ e[2] = RouterId(net, d[1]) /\ e[3] = 0

(* The vertices of the two kinds and their records.                        *)
LEMMA VertexFacts ==
    ASSUME Built
    PROVE  /\ \A n \in net.routers :
                 /\ RouterId(net, n) \in Ids \ NetworkVertices
                 /\ lsdb[RouterId(net, n)] = RouterLSA(net, n)
                 /\ NumRecords(RouterId(net, n)) = Len(RouterLSA(net, n).links)
           /\ \A x \in Devices(net) : IsDesignated(net, x) =>
                 /\ Interface(net, x).addr \in NetworkVertices
                 /\ lsdb[Interface(net, x).addr] = NetworkLSA(net, x)
                 /\ NumRecords(Interface(net, x).addr) = Len(NetworkLSA(net, x).attached)
           /\ \A u \in Ids :
                 \/ \E n \in net.routers : u = RouterId(net, n)
                 \/ \E x \in Devices(net) : IsDesignated(net, x) /\ u = Interface(net, x).addr
<1>0. WellFormedTopology(net) /\ lsdb = Database(net)
  BY DEF Built
<1>1. ASSUME NEW n \in net.routers
      PROVE  /\ RouterId(net, n) \in Ids \ NetworkVertices
             /\ lsdb[RouterId(net, n)] = RouterLSA(net, n)
  <2>1. RouterId(net, n) \in Ids /\ lsdb[RouterId(net, n)] = RouterLSA(net, n)
    BY <1>0, DatabaseHolds DEF Ids
  <2>2. RouterLSA(net, n).type = "RouterLSA"
    BY <1>0, RouterLSAFacts
  <2> QED BY <2>1, <2>2 DEF NetworkVertices
<1>2. ASSUME NEW x \in Devices(net), IsDesignated(net, x)
      PROVE  /\ Interface(net, x).addr \in NetworkVertices
             /\ lsdb[Interface(net, x).addr] = NetworkLSA(net, x)
  <2>1. Interface(net, x).addr \in Ids /\ lsdb[Interface(net, x).addr] = NetworkLSA(net, x)
    BY <1>0, <1>2, DatabaseHolds DEF Ids
  <2>2. NetworkLSA(net, x).type = "NetworkLSA"
    BY <1>0, NetworkLSAFacts
  <2> QED BY <2>1, <2>2 DEF NetworkVertices
<1>3. \A u \in Ids : \/ \E n \in net.routers : u = RouterId(net, n)
                     \/ \E x \in Devices(net) : IsDesignated(net, x) /\ u = Interface(net, x).addr
  BY <1>0, DatabaseHolds DEF Ids
<1> QED BY <1>1, <1>2, <1>3 DEF NumRecords

(* Every record that leads to a vertex is of one of the three kinds.       *)
LEMMA RecordComesFrom ==
    ASSUME Built, NEW u \in Ids, NEW k, NEW w, Edge(u, k, w)
    PROVE  LET e == <<u, w, Cost(u, k)>> IN
           \/ \E d \in Devices(net) :
                RouterEdge(d, e) /\ u \notin NetworkVertices /\ lsdb[u].links[k] = RouterRecord(net, d)
           \/ \E d \in Devices(net) :
                TransitEdge(d, e) /\ u \notin NetworkVertices /\ lsdb[u].links[k] = TransitRecord(net, d)
           \/ \E x, d \in Devices(net) : NetworkEdge(x, d, e) /\ u \in NetworkVertices
<1>0. WellFormedTopology(net) /\ lsdb = Database(net)
  BY DEF Built
<1>1. PICK e : e = <<u, w, Cost(u, k)>>
  OBVIOUS
<1>2. /\ k \in 1 .. NumRecords(u) /\ ~IsStubRecord(u, k) /\ Neighbours(u, k) # {}
      /\ w = Neighbour(u, k)
  BY DEF Edge
<1>3. e[1] = u /\ e[2] = Neighbour(u, k) /\ e[3] = Cost(u, k)
  BY <1>1, <1>2
<1>4. CASE \E n \in net.routers : u = RouterId(net, n)
  <2>1. PICK n \in net.routers : u = RouterId(net, n)
    BY <1>4
  <2>2. /\ u \notin NetworkVertices /\ lsdb[u] = RouterLSA(net, n)
        /\ k \in 1 .. Len(RouterLSA(net, n).links)
    BY <1>2, <2>1, VertexFacts
  <2>3. PICK l \in Listed(RouterLSA(net, n).links) : l = lsdb[u].links[k]
    BY <2>2 DEF Listed
  <2>4. l.type # "StubNetwork" /\ {l.linkId} \cap Ids # {} /\ Neighbours(u, k) = {l.linkId} \cap Ids
    BY <1>2, <2>2, <2>3 DEF IsStubRecord, Neighbours
  <2>5. l.linkId \in Ids /\ Neighbours(u, k) = {l.linkId}
    BY <2>4
  <2>6. Neighbour(u, k) = l.linkId
    <3>1. l.linkId \in Nat
      <4>1. RouterLSA(net, n).links \in Seq(LinkRecordType)
        BY <1>0, RouterLSAFacts DEF LSAType
      <4>2. l \in LinkRecordType
        BY <2>2, <2>3, <4>1
      <4> QED BY <4>2 DEF LinkRecordType
    <3> QED BY <2>5, <3>1 DEF Neighbour
  <2>7. PICK d \in Devices(net) : /\ d[1] = n
                                  /\ \/ OnTransit(net, d) /\ l = TransitRecord(net, d)
                                     \/ LinksRouters(net, d) /\ l = RouterRecord(net, d)
    BY <1>0, <2>4, RouterRecords
  <2>8. Cost(u, k) = l.metric
    BY <2>2, <2>3 DEF Cost
  <2>9. CASE OnTransit(net, d) /\ l = TransitRecord(net, d)
    <3>1. l.linkId = FindDesignatedRouterForLink(net, d) /\ l.metric = Interface(net, d).metric
      BY <2>9 DEF TransitRecord, LinkRecord
    <3>2. TransitEdge(d, e)
      BY <1>3, <2>1, <2>5, <2>6, <2>7, <2>8, <2>9, <3>1 DEF TransitEdge
    <3> QED BY <1>1, <2>2, <2>3, <2>9, <3>2
  <2>10. CASE LinksRouters(net, d) /\ l = RouterRecord(net, d)
    <3>1. /\ l.linkId = RouterId(net, GetAdjacent(net, d)[1])
          /\ l.metric = Interface(net, d).metric
      BY <2>10 DEF RouterRecord, LinkRecord
    <3>2. RouterEdge(d, e)
      BY <1>3, <2>1, <2>6, <2>7, <2>8, <2>10, <3>1 DEF RouterEdge
    <3> QED BY <1>1, <2>2, <2>3, <2>10, <3>2
  <2> QED BY <2>7, <2>9, <2>10
<1>5. CASE \E x \in Devices(net) : IsDesignated(net, x) /\ u = Interface(net, x).addr
  <2>1. PICK x \in Devices(net) : IsDesignated(net, x) /\ u = Interface(net, x).addr
    BY <1>5
  <2>2. /\ u \in NetworkVertices /\ lsdb[u] = NetworkLSA(net, x)
        /\ k \in 1 .. Len(NetworkLSA(net, x).attached)
    BY <1>2, <2>1, VertexFacts
  <2>3. lsdb[u].attached[k] \in Listed(NetworkLSA(net, x).attached)
    BY <2>2 DEF Listed
  <2>4. PICK d \in OnChannel(net, Interface(net, x).ch) :
            (d = x \/ UpRouterDevice(net, d)) /\ lsdb[u].attached[k] = Interface(net, d).addr
    BY <1>0, <2>3, NetworkLSAFacts
  <2>5. d \in Devices(net) /\ Interface(net, d).ch = Interface(net, x).ch
    BY DEF OnChannel
  <2>6. Neighbours(u, k) = LSAsByLinkData(lsdb, Interface(net, d).addr)
    BY <2>2, <2>4 DEF Neighbours
  <2>7. d[1] \in net.routers /\ OnTransit(net, d) /\ Neighbours(u, k) = {RouterId(net, d[1])}
    BY <1>2, <2>5, <2>6, LinkDataFacts
  <2>8. RouterId(net, d[1]) \in Nat
    BY <1>0, <2>7, RouterIdFacts
  <2>9. Neighbour(u, k) = RouterId(net, d[1]) /\ Cost(u, k) = 0
    BY <2>2, <2>7, <2>8 DEF Neighbour, Cost
  <2>10. NetworkEdge(x, d, e)
    BY <1>3, <2>1, <2>4, <2>5, <2>7, <2>9 DEF NetworkEdge
  <2> QED BY <1>1, <2>2, <2>5, <2>10
<1> QED BY <1>4, <1>5, VertexFacts

(* Every edge is of one of the three kinds.                                *)
LEMMA EdgeComesFrom ==
    ASSUME Built, NEW e \in Edges
    PROVE  \/ \E d \in Devices(net) : RouterEdge(d, e)
           \/ \E d \in Devices(net) : TransitEdge(d, e)
           \/ \E x, d \in Devices(net) : NetworkEdge(x, d, e)
<1>1. PICK u \in Ids : \E k, w : Edge(u, k, w) /\ e = <<u, w, Cost(u, k)>>
  BY EdgesAreRecords
<1>2. PICK k, w : Edge(u, k, w) /\ e = <<u, w, Cost(u, k)>>
  BY <1>1
<1> QED BY <1>2, RecordComesFrom

(* Every device that could give an edge gives one.                         *)
LEMMA EdgeFromRouter ==
    ASSUME Built, NEW n \in net.routers, NEW l \in Listed(RouterLSA(net, n).links),
           l.type # "StubNetwork", l.linkId \in Ids
    PROVE  \E f \in Edges : f[1] = RouterId(net, n) /\ f[2] = l.linkId /\ f[3] = l.metric
<1>0. WellFormedTopology(net) /\ lsdb = Database(net)
  BY DEF Built
<1> DEFINE u == RouterId(net, n)
<1>1. /\ u \in Ids /\ u \notin NetworkVertices /\ lsdb[u] = RouterLSA(net, n)
      /\ NumRecords(u) = Len(RouterLSA(net, n).links)
  BY VertexFacts
<1> HIDE DEF u
<1>2. PICK k \in 1 .. NumRecords(u) : lsdb[u].links[k] = l
  BY <1>1 DEF Listed
<1>3. ~IsStubRecord(u, k) /\ Neighbours(u, k) = {l.linkId}
  BY <1>1, <1>2 DEF IsStubRecord, Neighbours
<1>4. l.linkId \in Nat
  <2>1. RouterLSA(net, n).links \in Seq(LinkRecordType)
    BY <1>0, RouterLSAFacts DEF LSAType
  <2>2. l \in LinkRecordType
    BY <1>1, <1>2, <2>1
  <2> QED BY <2>2 DEF LinkRecordType
<1>5. Neighbour(u, k) = l.linkId
  BY <1>3, <1>4 DEF Neighbour
<1>6. <<u, Neighbour(u, k), Cost(u, k)>> \in Edges
  <2>1. k \in {m \in 1 .. NumRecords(u) : ~IsStubRecord(u, m) /\ Neighbours(u, m) # {}}
    BY <1>3
  <2> QED BY <1>1, <2>1 DEF Edges
<1>7. PICK f \in Edges : f = <<u, Neighbour(u, k), Cost(u, k)>>
  BY <1>6
<1>8. Cost(u, k) = l.metric
  BY <1>1, <1>2 DEF Cost
<1>9. f[1] = u /\ f[2] = l.linkId /\ f[3] = l.metric
  BY <1>5, <1>7, <1>8
<1> QED BY <1>9 DEF u

(* The same for the routers on the link of a designated device.            *)
LEMMA EdgeFromNetwork ==
    ASSUME Built, NEW x \in Devices(net), NEW d \in Devices(net),
           IsDesignated(net, x), Interface(net, d).ch = Interface(net, x).ch,
           UpRouterDevice(net, d), OnTransit(net, d)
    PROVE  \E f \in Edges :
              f[1] = Interface(net, x).addr /\ f[2] = RouterId(net, d[1]) /\ f[3] = 0
<1>0. WellFormedTopology(net) /\ lsdb = Database(net)
  BY DEF Built
<1> DEFINE u == Interface(net, x).addr
<1>1. /\ u \in NetworkVertices /\ u \in Ids /\ lsdb[u] = NetworkLSA(net, x)
      /\ NumRecords(u) = Len(NetworkLSA(net, x).attached)
  BY VertexFacts DEF NetworkVertices
<1> HIDE DEF u
<1>2. d[1] \in net.routers
  BY DEF UpRouterDevice
<1>3. Interface(net, d).addr \in Listed(NetworkLSA(net, x).attached)
  <2>1. d \in {f \in OnChannel(net, Interface(net, x).ch) : f = x \/ UpRouterDevice(net, f)}
    BY DEF OnChannel
  <2>2. Listed(NetworkLSA(net, x).attached)
          = {Interface(net, e).addr : e \in {f \in OnChannel(net, Interface(net, x).ch) :
                                                 f = x \/ UpRouterDevice(net, f)}}
    BY <1>0, NetworkLSAFacts
  <2> QED BY <2>1, <2>2, Zenon
<1>4. PICK k \in 1 .. NumRecords(u) : lsdb[u].attached[k] = Interface(net, d).addr
  BY <1>1, <1>3 DEF Listed
<1>5. ~IsStubRecord(u, k) /\ Neighbours(u, k) = {RouterId(net, d[1])}
  BY <1>1, <1>2, <1>4, LinkDataFacts DEF IsStubRecord, Neighbours
<1>6. RouterId(net, d[1]) \in Nat
  BY <1>0, <1>2, RouterIdFacts
<1>7. Neighbour(u, k) = RouterId(net, d[1])
  BY <1>5, <1>6 DEF Neighbour
<1>8. <<u, Neighbour(u, k), Cost(u, k)>> \in Edges
  <2>1. k \in {m \in 1 .. NumRecords(u) : ~IsStubRecord(u, m) /\ Neighbours(u, m) # {}}
    BY <1>5
  <2> QED BY <1>1, <2>1 DEF Edges
<1>9. PICK f \in Edges : f = <<u, Neighbour(u, k), Cost(u, k)>>
  BY <1>8
<1>10. Cost(u, k) = 0
  BY <1>1 DEF Cost
<1>11. f[1] = u /\ f[2] = RouterId(net, d[1]) /\ f[3] = 0
  BY <1>7, <1>9, <1>10
<1> QED BY <1>11 DEF u

(* An edge leads back along the devices it came from.                      *)
LEMMA EdgesAreTwoWay ==
    ASSUME Built, Ordinary, NEW e \in Edges
    PROVE  \E f \in Edges : f[1] = e[2] /\ f[2] = e[1]
<1>0. WellFormedTopology(net) /\ lsdb = Database(net)
  BY DEF Built
<1>1. \A d \in Devices(net) : Interface(net, d).up = Interface(net, d).fwd
  BY DEF Ordinary
<1>2. ASSUME NEW d \in Devices(net), RouterEdge(d, e)
      PROVE  \E f \in Edges : f[1] = e[2] /\ f[2] = e[1]
  <2>1. /\ d[1] \in net.routers /\ Advertised(net, d) /\ net.kind[Interface(net, d).ch] = "p2p"
        /\ GetAdjacent(net, d)[1] \in net.routers /\ Interface(net, GetAdjacent(net, d)).up
        /\ e[1] = RouterId(net, d[1]) /\ e[2] = RouterId(net, GetAdjacent(net, d)[1])
    BY <1>2 DEF RouterEdge, LinksRouters
  <2>2. PICK c \in Devices(net) : /\ c = GetAdjacent(net, d) /\ GetAdjacent(net, c) = d
                                  /\ Interface(net, c).ch = Interface(net, d).ch
    BY <1>0, <2>1, AdjacentFacts
  <2>3. LinksRouters(net, c)
    BY <1>1, <2>1, <2>2 DEF LinksRouters, Advertised
  <2>4. RouterRecord(net, c) \in Listed(RouterLSA(net, c[1]).links)
    BY <1>0, <2>1, <2>2, <2>3, RouterRecords
  <2>5. RouterRecord(net, c).type # "StubNetwork" /\ RouterRecord(net, c).linkId = RouterId(net, d[1])
    BY <2>2 DEF RouterRecord, LinkRecord
  <2>6. RouterId(net, d[1]) \in Ids
    BY <2>1, VertexFacts
  <2>7. \E f \in Edges : f[1] = RouterId(net, c[1]) /\ f[2] = RouterId(net, d[1])
    BY <2>1, <2>2, <2>4, <2>5, <2>6, EdgeFromRouter
  <2> QED BY <2>1, <2>2, <2>7
<1>3. ASSUME NEW d \in Devices(net), TransitEdge(d, e)
      PROVE  \E f \in Edges : f[1] = e[2] /\ f[2] = e[1]
  <2> DEFINE U == {c \in OnChannel(net, Interface(net, d).ch) : UpRouterDevice(net, c)}
  <2>1. /\ d[1] \in net.routers /\ OnTransit(net, d) /\ Interface(net, d).up
        /\ e[1] = RouterId(net, d[1]) /\ e[2] = FindDesignatedRouterForLink(net, d)
    BY <1>3 DEF TransitEdge, OnTransit, Advertised
  <2>2. UpRouterDevice(net, d) /\ d \in U
    BY <2>1 DEF UpRouterDevice, OnChannel
  <2>3. PICK x \in U : FindDesignatedRouterForLink(net, d) = Interface(net, x).addr
    BY <1>0, <2>2, DesignatedFacts
  <2>4. /\ x \in Devices(net) /\ Interface(net, x).ch = Interface(net, d).ch
        /\ x[1] \in net.routers /\ Interface(net, x).up
    BY DEF OnChannel, UpRouterDevice
  <2>5. Advertised(net, x) /\ net.kind[Interface(net, x).ch] = "lan"
    BY <1>1, <2>1, <2>4 DEF Advertised, OnTransit
  <2>6. AnotherRouterOnLink(net, x)
    <3>1. CASE x = d
      BY <2>1, <3>1 DEF OnTransit
    <3>2. CASE x # d
      BY <2>1, <2>2, <2>4, <3>2 DEF AnotherRouterOnLink
    <3> QED BY <3>1, <3>2
  <2>7. FindDesignatedRouterForLink(net, x) = Interface(net, x).addr
    BY <2>3, <2>4 DEF FindDesignatedRouterForLink
  <2>8. IsDesignated(net, x)
    BY <2>4, <2>5, <2>6, <2>7 DEF IsDesignated, OnTransit
  <2>9. \E f \in Edges : f[1] = Interface(net, x).addr /\ f[2] = RouterId(net, d[1])
    BY <2>1, <2>2, <2>4, <2>8, EdgeFromNetwork
  <2> QED BY <2>1, <2>3, <2>9
<1>4. ASSUME NEW x \in Devices(net), NEW d \in Devices(net), NetworkEdge(x, d, e)
      PROVE  \E f \in Edges : f[1] = e[2] /\ f[2] = e[1]
  <2>1. /\ IsDesignated(net, x) /\ Interface(net, d).ch = Interface(net, x).ch
        /\ d[1] \in net.routers /\ OnTransit(net, d)
        /\ e[1] = Interface(net, x).addr /\ e[2] = RouterId(net, d[1])
    BY <1>4 DEF NetworkEdge
  <2>2. FindDesignatedRouterForLink(net, d) = Interface(net, x).addr
    BY <2>1 DEF FindDesignatedRouterForLink, IsDesignated
  <2>3. Interface(net, x).addr \in Ids
    BY <2>1, VertexFacts DEF NetworkVertices
  <2>4. TransitRecord(net, d) \in Listed(RouterLSA(net, d[1]).links)
    BY <1>0, <2>1, RouterRecords
  <2>5. /\ TransitRecord(net, d).type # "StubNetwork"
        /\ TransitRecord(net, d).linkId = Interface(net, x).addr
    BY <2>2 DEF TransitRecord, LinkRecord
  <2>6. \E f \in Edges : f[1] = RouterId(net, d[1]) /\ f[2] = Interface(net, x).addr
    BY <2>1, <2>3, <2>4, <2>5, EdgeFromRouter
  <2> QED BY <2>1, <2>6
<1> QED BY <1>2, <1>3, <1>4, EdgeComesFrom

(* A step leaves the topology and the databases as they are.               *)
LEMMA TopologyUnchanged == [Next]_vars => UNCHANGED topology
<1> SUFFICES ASSUME [Next]_vars PROVE UNCHANGED topology
  OBVIOUS
<1>1. CASE Step
  <2>1. SkipNode => UNCHANGED topology
    BY DEF SkipNode
  <2>2. TruncateForStubNode => UNCHANGED topology
    BY DEF TruncateForStubNode
  <2>3. StartCalculation => UNCHANGED topology
    BY DEF StartCalculation
  <2>4. FinishRoutes => UNCHANGED topology
    BY DEF FinishRoutes
  <2>5. MissingLSA => UNCHANGED topology
    BY DEF MissingLSA
  <2>6. SkipRecord => UNCHANGED topology
    BY DEF SkipRecord, NextRecord
  <2>7. AddToTree => UNCHANGED topology
    BY DEF AddToTree
  <2>8. StartStubs => UNCHANGED topology
    BY DEF StartStubs
  <2>9. EnterChild => UNCHANGED topology
    BY DEF EnterChild
  <2>10. SkipChild => UNCHANGED topology
    BY DEF SkipChild
  <2>11. LeaveChild => UNCHANGED topology
    BY DEF LeaveChild
  <2>12. NextExternal => UNCHANGED topology
    BY DEF NextExternal
  <2>13. FinishCalculation => UNCHANGED topology
    BY DEF FinishCalculation
  <2>14. ASSUME NEW w \in Ids
        PROVE  /\ SkipInTree(w) => UNCHANGED topology
               /\ SkipLongerPath(w) => UNCHANGED topology
               /\ NewCandidate(w) => UNCHANGED topology
               /\ EqualCostPath(w) => UNCHANGED topology
               /\ ShorterPath(w) => UNCHANGED topology
               /\ NexthopFails(w) => UNCHANGED topology
    BY DEF SkipInTree, SkipLongerPath, NewCandidate, EqualCostPath, ShorterPath, NexthopFails, NextRecord
  <2> QED BY <1>1, <2>1, <2>2, <2>3, <2>4, <2>5, <2>6, <2>7, <2>8, <2>9, <2>10, <2>11, <2>12, <2>13, <2>14 DEF Step
<1>2. CASE Stopped \/ UNCHANGED vars
  BY <1>2 DEF Stopped, vars
<1> QED BY <1>1, <1>2 DEF Next

(* The database is the one built from the topology.                        *)
LEMMA DatabaseBuilt == Spec => []Built
<1>1. Init => Built
  BY NetworksAssumption DEF Init, Built, Database
<1>2. Built /\ [Next]_vars => Built'
  BY TopologyUnchanged DEF topology, Built
<1> QED BY <1>1, <1>2, PTL DEF Spec

(* The routers agree on their links, on every ordinary topology: an edge   *)
(* to a vertex has an edge back.  The LSAs on the two sides of a link come *)
(* from different routers' DiscoverLSAs, each of which looks at the flags  *)
(* of its own interface and at whether the others' are up.                 *)
THEOREM LinksTwoWay == Spec => []LinksAreTwoWay
<1>1. Built => LinksAreTwoWay
  BY EdgesAreTwoWay DEF LinksAreTwoWay
<1> QED BY <1>1, DatabaseBuilt, PTL

-----------------------------------------------------------------------------
(***************************************************************************)
(* Shortest distances from any vertex.  As many rounds as there are        *)
(* vertices settle every distance: a vertex that is settled in round n + 1 *)
(* has a predecessor that is settled in round n and not before, so each    *)
(* round up to the last settles a vertex of its own.                       *)
(***************************************************************************)
LEMMA DistancesSettle ==
    ASSUME NEW S, IsFiniteSet(S), NEW edges \in Graphs(S), NEW r \in S
    PROVE  LET D == DistancesWithin(edges, r)[Cardinality(S)] IN
           /\ D \in DistancesOf(S) /\ r \in DOMAIN D /\ D[r] = 0
           /\ \A e \in edges : e[1] \in DOMAIN D =>
                 e[2] \in DOMAIN D /\ D[e[2]] <= D[e[1]] + e[3]
           /\ \A w \in DOMAIN D \ {r} : \E e \in edges :
                 e[1] \in DOMAIN D /\ e[2] = w /\ D[w] = D[e[1]] + e[3]
<1> DEFINE N == Cardinality(S)
           D == DistancesWithin(edges, r)
           Final(n, w) == /\ w \in DOMAIN D[n]
                          /\ \A m \in Nat : w \in DOMAIN D[m] => D[n][w] <= D[m][w]
           First(n, w) == Final(n, w) /\ \A m \in Nat : Final(m, w) => n <= m
<1>0. N \in Nat
  BY FS_CardinalityType
<1>1. D[0] = [w \in {r} |-> 0]
  BY DistancesRecursion
<1>2. \A n \in Nat : D[n] \in DistancesOf(S) /\ Round(edges, D[n], D[n + 1])
  BY DistancesRound
<1>3. ASSUME NEW m \in Nat, NEW n \in Nat, m <= n, NEW x \in DOMAIN D[m]
      PROVE  x \in DOMAIN D[n] /\ D[n][x] <= D[m][x]
  BY <1>3, DistancesShrink
<1>4. ASSUME NEW e \in edges PROVE e[1] \in S /\ e[2] \in S /\ e[3] \in Nat
  BY DEF Graphs
<1> HIDE DEF N, D
<1>5. ASSUME NEW n \in Nat, NEW w \in DOMAIN D[n] PROVE D[n][w] \in Nat /\ w \in S
  BY <1>2, DistancesOfIs
<1>6. ASSUME NEW n \in Nat, NEW w \in DOMAIN D[n] PROVE \E m \in Nat : First(m, w)
  <2> DEFINE A == {D[m][w] : m \in {k \in Nat : w \in DOMAIN D[k]}}
             B == {m \in Nat : Final(m, w)}
  <2>1. A \in SUBSET Nat /\ A # {}
    BY <1>5
  <2>2. \E a \in A : \A x \in A : a <= x
    <3> HIDE DEF A
    <3> QED BY <2>1, SmallestOf
  <2>3. PICK m \in Nat : w \in DOMAIN D[m] /\ \A x \in A : D[m][w] <= x
    BY <2>2
  <2>4. Final(m, w)
    BY <2>3
  <2>5. B \in SUBSET Nat /\ B # {}
    BY <2>4
  <2>6. \E b \in B : \A x \in B : b <= x
    <3> HIDE DEF B
    <3> QED BY <2>5, SmallestOf
  <2> QED BY <2>6
<1>7. ASSUME NEW n \in Nat, NEW w \in S, First(n + 1, w)
      PROVE  \E e \in edges : First(n, e[1]) /\ e[2] = w /\ D[n + 1][w] = D[n][e[1]] + e[3]
  <2>0. n + 1 \in Nat /\ Final(n + 1, w) /\ w \in DOMAIN D[n + 1]
    BY <1>7
  <2>1. ~(w \in DOMAIN D[n] /\ D[n + 1][w] = D[n][w])
    <3> SUFFICES ASSUME w \in DOMAIN D[n], D[n + 1][w] = D[n][w] PROVE FALSE
      OBVIOUS
    <3>1. Final(n, w)
      BY <2>0
    <3>2. n + 1 <= n
      BY <1>7, <3>1
    <3> QED BY <3>2
  <2>2. PICK e \in edges : e[1] \in DOMAIN D[n] /\ e[2] = w /\ D[n + 1][w] = D[n][e[1]] + e[3]
    BY <1>2, <2>0, <2>1 DEF Round
  <2>3. ASSUME NEW m \in Nat, e[1] \in DOMAIN D[m]
        PROVE  /\ m + 1 \in Nat /\ w \in DOMAIN D[m + 1] /\ D[m + 1][w] <= D[m][e[1]] + e[3]
               /\ D[n + 1][w] <= D[m + 1][w] /\ D[n][e[1]] <= D[m][e[1]]
    <3>1. w \in DOMAIN D[m + 1] /\ D[m + 1][w] <= D[m][e[1]] + e[3]
      BY <1>2, <2>2, <2>3 DEF Round
    <3>2. D[n + 1][w] <= D[m + 1][w]
      BY <2>0, <3>1
    <3>3. /\ D[m][e[1]] \in Nat /\ D[n][e[1]] \in Nat /\ e[3] \in Nat
          /\ D[m + 1][w] \in Nat /\ D[n + 1][w] \in Nat
      BY <1>4, <1>5, <2>0, <2>2, <2>3, <3>1
    <3> QED BY <2>2, <3>1, <3>2, <3>3
  <2>4. Final(n, e[1])
    BY <2>2, <2>3
  <2>5. ASSUME NEW m \in Nat, Final(m, e[1]) PROVE n <= m
    <3>1. e[1] \in DOMAIN D[m] /\ D[m][e[1]] <= D[n][e[1]]
      BY <2>2, <2>5
    <3>2. /\ D[m][e[1]] \in Nat /\ D[n][e[1]] \in Nat /\ e[3] \in Nat
          /\ w \in DOMAIN D[m + 1] /\ m + 1 \in Nat
          /\ D[m + 1][w] \in Nat /\ D[n + 1][w] \in Nat
      BY <1>4, <1>5, <2>0, <2>2, <2>3, <3>1
    <3>3. D[m + 1][w] <= D[n + 1][w]
      BY <2>2, <2>3, <3>1, <3>2
    <3>4. Final(m + 1, w)
      <4> SUFFICES ASSUME NEW q \in Nat, w \in DOMAIN D[q] PROVE D[m + 1][w] <= D[q][w]
        BY <3>2
      <4>1. D[n + 1][w] <= D[q][w] /\ D[q][w] \in Nat
        BY <1>5, <2>0
      <4> QED BY <3>2, <3>3, <4>1
    <3>5. n + 1 <= m + 1
      BY <1>7, <3>2, <3>4
    <3> QED BY <3>5
  <2> QED BY <2>2, <2>4, <2>5
<1>8. ASSUME NEW n \in Nat, NEW w, First(n, w) PROVE w \in S
  BY <1>5, <1>8
<1>9. ASSUME NEW n \in Nat, NEW w \in S, First(n, w) PROVE n < N
  <2> DEFINE A == {k \in Nat : k <= n /\ ~\E x \in S : First(n - k, x)}
  <2>1. A = {}
    <3>1. SUFFICES ASSUME A # {} PROVE FALSE
      OBVIOUS
    <3>2. PICK k \in A : \A x \in A : k <= x
      <4>1. A \in SUBSET Nat
        OBVIOUS
      <4> HIDE DEF A
      <4> QED BY <3>1, <4>1, SmallestOf
    <3> HIDE DEF First
    <3>3. k # 0
      <4>1. n - 0 = n
        OBVIOUS
      <4> QED BY <1>9, <4>1
    <3>4. k \in Nat /\ k <= n /\ k - 1 \in Nat /\ k - 1 <= n /\ k - 1 \notin A
      BY <3>2, <3>3
    <3>5. PICK x \in S : First(n - (k - 1), x)
      BY <3>4
    <3>6. n - (k - 1) = (n - k) + 1 /\ n - k \in Nat
      BY <3>4
    <3>7. \E e \in edges : First(n - k, e[1])
      BY <1>7, <3>5, <3>6
    <3> QED BY <1>4, <3>2, <3>7
  <2>2. ASSUME NEW k \in 0 .. n PROVE \E x \in S : First(k, x)
    <3>1. n - k \in Nat /\ n - k <= n /\ n - (n - k) = k
      OBVIOUS
    <3> HIDE DEF First
    <3> QED BY <2>1, <3>1
  <2> DEFINE f == [k \in 0 .. n |-> CHOOSE x \in S : First(k, x)]
  <2>3. \A k \in 0 .. n : f[k] \in S /\ First(k, f[k])
    <3> HIDE DEF First
    <3> QED BY <2>2
  <2>4. \A k, m \in 0 .. n : f[k] = f[m] => k = m
    <3> SUFFICES ASSUME NEW k \in 0 .. n, NEW m \in 0 .. n, f[k] = f[m] PROVE k = m
      OBVIOUS
    <3>1. PICK x : First(k, x) /\ First(m, x)
      BY <2>3
    <3>2. k \in Nat /\ m \in Nat /\ k <= m /\ m <= k
      BY <3>1
    <3> QED BY <3>2
  <2>5. f \in Injection(0 .. n, S)
    BY <2>3, <2>4 DEF Injection, IsInjective
  <2> HIDE DEF f
  <2>6. Cardinality(0 .. n) <= N
    BY <2>5, FS_Injection DEF N
  <2>7. Cardinality(0 .. n) = IF 0 > n THEN 0 ELSE n - 0 + 1
    BY FS_Interval
  <2> QED BY <1>0, <2>6, <2>7
<1>10. ASSUME NEW n \in Nat, NEW w \in DOMAIN D[n] PROVE Final(N, w)
  <2>1. PICK m \in Nat : First(m, w)
    BY <1>6
  <2>2. w \in S /\ m <= N
    BY <1>0, <1>5, <1>9, <2>1
  <2>3. w \in DOMAIN D[N] /\ D[N][w] <= D[m][w]
    BY <1>0, <1>3, <2>1, <2>2
  <2>4. D[N][w] \in Nat /\ D[m][w] \in Nat
    BY <1>0, <1>5, <2>1, <2>3
  <2> SUFFICES ASSUME NEW q \in Nat, w \in DOMAIN D[q] PROVE D[N][w] <= D[q][w]
    BY <2>3
  <2>5. D[m][w] <= D[q][w] /\ D[q][w] \in Nat
    BY <1>5, <2>1
  <2> QED BY <2>3, <2>4, <2>5
<1>11. r \in DOMAIN D[N] /\ D[N][r] = 0
  <2>1. r \in DOMAIN D[0] /\ D[0][r] = 0 /\ 0 \in Nat /\ 0 <= N
    BY <1>0, <1>1
  <2>2. r \in DOMAIN D[N] /\ D[N][r] <= 0
    BY <1>0, <1>3, <2>1
  <2>3. D[N][r] \in Nat
    BY <1>0, <1>5, <2>2
  <2> QED BY <2>2, <2>3
<1>12. ASSUME NEW e \in edges, e[1] \in DOMAIN D[N]
       PROVE  e[2] \in DOMAIN D[N] /\ D[N][e[2]] <= D[N][e[1]] + e[3]
  <2>1. e[2] \in DOMAIN D[N + 1] /\ D[N + 1][e[2]] <= D[N][e[1]] + e[3] /\ N + 1 \in Nat
    BY <1>0, <1>2, <1>12 DEF Round
  <2>2. e[2] \in DOMAIN D[N] /\ D[N][e[2]] <= D[N + 1][e[2]]
    BY <1>10, <2>1
  <2>3. /\ D[N][e[2]] \in Nat /\ D[N + 1][e[2]] \in Nat
        /\ D[N][e[1]] \in Nat /\ e[3] \in Nat
    BY <1>0, <1>4, <1>5, <1>12, <2>1, <2>2
  <2> QED BY <2>1, <2>2, <2>3
<1>13. ASSUME NEW w \in DOMAIN D[N] \ {r}
       PROVE  \E e \in edges : e[1] \in DOMAIN D[N] /\ e[2] = w /\ D[N][w] = D[N][e[1]] + e[3]
  <2>1. PICK n \in Nat : First(n, w)
    BY <1>0, <1>6
  <2>2. n # 0
    BY <1>1, <2>1
  <2>3. PICK m \in Nat : n = m + 1
    <3>1. n - 1 \in Nat /\ n = (n - 1) + 1
      BY <2>2
    <3> QED BY <3>1
  <2>4. w \in S
    BY <1>0, <1>5
  <2>5. PICK e \in edges : First(m, e[1]) /\ e[2] = w /\ D[m + 1][w] = D[m][e[1]] + e[3]
    BY <1>7, <2>1, <2>3, <2>4
  <2>6. Final(m, e[1]) /\ Final(n, w) /\ Final(N, e[1]) /\ Final(N, w)
    BY <1>0, <1>10, <2>1, <2>5
  <2>7. e[1] \in DOMAIN D[N] /\ D[N][e[1]] <= D[m][e[1]] /\ D[m][e[1]] <= D[N][e[1]]
    BY <1>0, <2>6
  <2>8. D[N][w] <= D[n][w] /\ D[n][w] <= D[N][w]
    BY <1>0, <2>6
  <2>9. D[N][e[1]] \in Nat /\ D[m][e[1]] \in Nat /\ D[N][w] \in Nat /\ D[n][w] \in Nat
    BY <1>0, <1>5, <2>6
  <2>10. D[N][e[1]] = D[m][e[1]] /\ D[N][w] = D[n][w]
    BY <2>7, <2>8, <2>9
  <2> QED BY <2>3, <2>5, <2>7, <2>10
<1> QED BY <1>0, <1>2, <1>11, <1>12, <1>13 DEF D, N

(* Going on from y is no shorter than the shortest way.                    *)
LEMMA DistancesTriangle ==
    ASSUME NEW S, IsFiniteSet(S), NEW edges \in Graphs(S), NEW r \in S, NEW y \in S,
           y \in DOMAIN DistancesWithin(edges, r)[Cardinality(S)],
           NEW w \in DOMAIN DistancesWithin(edges, y)[Cardinality(S)]
    PROVE  LET D == DistancesWithin(edges, r)[Cardinality(S)]
               E == DistancesWithin(edges, y)[Cardinality(S)]
           IN  w \in DOMAIN D /\ D[w] <= D[y] + E[w]
<1> DEFINE N == Cardinality(S)
           D == DistancesWithin(edges, r)[N]
           F == DistancesWithin(edges, y)
           Bounded(n) == \A x \in DOMAIN F[n] : x \in DOMAIN D /\ D[x] <= D[y] + F[n][x]
           A == {n \in Nat : ~Bounded(n)}
<1>0. N \in Nat /\ y \in DOMAIN D
  BY FS_CardinalityType
<1>1. F[0] = [x \in {y} |-> 0]
  BY DistancesRecursion
<1>2. \A n \in Nat : F[n] \in DistancesOf(S) /\ Round(edges, F[n], F[n + 1])
  BY DistancesRound
<1>3. /\ D \in DistancesOf(S)
      /\ \A e \in edges : e[1] \in DOMAIN D => e[2] \in DOMAIN D /\ D[e[2]] <= D[e[1]] + e[3]
  BY DistancesSettle
<1>4. ASSUME NEW e \in edges PROVE e[1] \in S /\ e[2] \in S /\ e[3] \in Nat
  BY DEF Graphs
<1>5. w \in DOMAIN F[N]
  OBVIOUS
<1> HIDE DEF N, D, F
<1>6. D \in [DOMAIN D -> Nat] /\ \A n \in Nat : F[n] \in [DOMAIN F[n] -> Nat]
  BY <1>2, <1>3, DistancesOfIs
<1>7. A = {}
  <2>1. SUFFICES ASSUME A # {} PROVE FALSE
    OBVIOUS
  <2>2. PICK k \in A : \A x \in A : k <= x
    <3> HIDE DEF A
    <3>1. A \in SUBSET Nat
      BY DEF A
    <3> QED BY <2>1, <3>1, SmallestOf
  <2>3. Bounded(0)
    BY <1>0, <1>1, <1>6
  <2>4. k - 1 \in Nat /\ k - 1 \notin A /\ (k - 1) + 1 = k
    BY <2>2, <2>3
  <2>5. PICK m \in Nat : k = m + 1 /\ Bounded(m)
    BY <2>4
  <2>6. ASSUME NEW x \in DOMAIN F[k] PROVE x \in DOMAIN D /\ D[x] <= D[y] + F[k][x]
    <3>1. Round(edges, F[m], F[k])
      BY <1>2, <2>5
    <3>2. CASE x \in DOMAIN F[m] /\ F[k][x] = F[m][x]
      BY <2>5, <3>2
    <3>3. ASSUME NEW e \in edges, e[1] \in DOMAIN F[m], e[2] = x, F[k][x] = F[m][e[1]] + e[3]
          PROVE  x \in DOMAIN D /\ D[x] <= D[y] + F[k][x]
      <4>1. e[1] \in DOMAIN D /\ D[e[1]] <= D[y] + F[m][e[1]]
        BY <2>5, <3>3
      <4>2. x \in DOMAIN D /\ D[x] <= D[e[1]] + e[3]
        BY <1>3, <3>3, <4>1
      <4>3. D[x] \in Nat /\ D[y] \in Nat /\ D[e[1]] \in Nat /\ F[m][e[1]] \in Nat /\ e[3] \in Nat
        BY <1>0, <1>4, <1>6, <3>3, <4>1, <4>2
      <4> QED BY <3>3, <4>1, <4>2, <4>3
    <3> QED BY <3>1, <3>2, <3>3 DEF Round
  <2> QED BY <2>2, <2>6
<1>8. Bounded(N)
  BY <1>0, <1>7
<1> QED BY <1>5, <1>8 DEF D, F, N

-----------------------------------------------------------------------------
(***************************************************************************)
(* ExitsAreFirstHops.  Subnets are what they are meant to be: the          *)
(* addresses of one channel match each other and no others, and a network  *)
(* number is no router id.  Without it GetInterfaceForPrefix finds another *)
(* interface and SPFGetNextLink another record than the one meant.         *)
(***************************************************************************)
Subnetted ==
    \A d, e \in Devices(net) :
        /\ IsMatch(SubnetMask, Interface(net, d).addr, Interface(net, e).addr)
             <=> Interface(net, d).ch = Interface(net, e).ch
        /\ Cardinality(net.routers) <= CombineMask(Interface(net, d).addr, SubnetMask)

(* The mask of a host keeps an address; a network number is its own.       *)
LEMMA CombineMaskFacts ==
    ASSUME NEW a \in Nat
    PROVE  /\ CombineMask(a, HostMask) = a
           /\ CombineMask(CombineMask(a, SubnetMask), SubnetMask) = CombineMask(a, SubnetMask)
<1>1. a % 1 = 0
  BY SMT
<1>2. (a - (a % 16)) % 16 = 0
  BY SMT
<1> QED BY <1>1, <1>2 DEF CombineMask, HostMask, SubnetMask

(* A stub record is for the far end of a point-to-point link or for a LAN  *)
(* without another router.                                                 *)
LEMMA StubRecords ==
    ASSUME NEW t, WellFormedTopology(t), NEW n \in t.routers,
           NEW l \in Listed(RouterLSA(t, n).links), l.type = "StubNetwork"
    PROVE  \E d \in Devices(t) :
              /\ d[1] = n
              /\ \/ /\ t.kind[Interface(t, d).ch] = "p2p"
                    /\ l.linkId = Interface(t, GetAdjacent(t, d)).addr
                 \/ /\ ~AnotherRouterOnLink(t, d)
                    /\ l.linkId = CombineMask(Interface(t, d).addr, SubnetMask)
<1>1. PICK j \in DOMAIN t.ifs[n] : l \in Listed(LinkRecords(t, <<n, j>>)) /\ <<n, j>> \in Devices(t)
  <2>1. l \in UNION {Listed(LinkRecords(t, <<n, j>>)) : j \in DOMAIN t.ifs[n]}
    BY RouterLSAFacts
  <2>2. \A j \in DOMAIN t.ifs[n] : <<n, j>> \in Devices(t)
    BY RouterLSAFacts
  <2> QED BY <2>1, <2>2
<1>2. PICK d \in Devices(t) : d = <<n, j>>
  BY <1>1
<1>3. d[1] = n /\ l \in Listed(LinkRecords(t, d))
  BY <1>1, <1>2
<1>4. Listed(<< >>) = {}
  BY DEF Listed
<1>5. Advertised(t, d)
  BY <1>3, <1>4 DEF LinkRecords
<1>6. CASE t.kind[Interface(t, d).ch] = "lan"
  <2>1. l \in Listed(ProcessSingleBroadcastLink(t, d))
    BY <1>3, <1>5, <1>6 DEF LinkRecords
  <2>2. CASE AnotherRouterOnLink(t, d)
    <3>1. l = TransitRecord(t, d)
      BY <2>1, <2>2 DEF ProcessSingleBroadcastLink, TransitRecord, Listed
    <3> QED BY <3>1 DEF TransitRecord, LinkRecord
  <2>3. CASE ~AnotherRouterOnLink(t, d)
    <3>1. l = LinkRecord("StubNetwork", CombineMask(Interface(t, d).addr, SubnetMask),
                         SubnetMask, Interface(t, d).metric)
      BY <2>1, <2>3 DEF ProcessSingleBroadcastLink, Listed
    <3>2. l.linkId = CombineMask(Interface(t, d).addr, SubnetMask)
      BY <3>1 DEF LinkRecord
    <3> QED BY <1>3, <2>3, <3>2
  <2> QED BY <2>2, <2>3
<1>7. CASE t.kind[Interface(t, d).ch] # "lan"
  <2>1. l \in Listed(ProcessPointToPointLink(t, d)) /\ t.kind[Interface(t, d).ch] = "p2p"
    BY <1>3, <1>5, <1>7, DeviceFacts DEF LinkRecords
  <2>2. \/ l = RouterRecord(t, d)
        \/ l = LinkRecord("StubNetwork", Interface(t, GetAdjacent(t, d)).addr, SubnetMask,
                          Interface(t, d).metric)
    <3> DEFINE one == RouterRecord(t, d)
               two == LinkRecord("StubNetwork", Interface(t, GetAdjacent(t, d)).addr, SubnetMask,
                          Interface(t, d).metric)
    <3>1. ProcessPointToPointLink(t, d) \in {<< >>, <<one, two>>, <<two>>}
      BY DEF ProcessPointToPointLink, RouterRecord
    <3> HIDE DEF one, two
    <3>2. Listed(<<one, two>>) = {one, two} /\ Listed(<<two>>) = {two}
      BY DEF Listed
    <3>3. l \in {one, two}
      BY <1>4, <2>1, <3>1, <3>2
    <3> QED BY <3>3 DEF one, two
  <2>3. l # RouterRecord(t, d)
    BY DEF RouterRecord, LinkRecord
  <2>4. l.linkId = Interface(t, GetAdjacent(t, d)).addr
    BY <2>2, <2>3 DEF LinkRecord
  <2> QED BY <1>3, <2>1, <2>4
<1> QED BY <1>6, <1>7

(* The network of a router's interface has a designated device.            *)
LEMMA TransitFacts ==
    ASSUME Built, Ordinary, NEW d \in Devices(net), d[1] \in net.routers, OnTransit(net, d)
    PROVE  \E x \in Devices(net) :
              /\ IsDesignated(net, x) /\ Interface(net, x).ch = Interface(net, d).ch
              /\ FindDesignatedRouterForLink(net, d) = Interface(net, x).addr
              /\ Interface(net, x).addr \in NetworkVertices
<1>0. WellFormedTopology(net)
  BY DEF Built
<1>1. \A c \in Devices(net) : Interface(net, c).up = Interface(net, c).fwd
  BY DEF Ordinary
<1> DEFINE U == {c \in OnChannel(net, Interface(net, d).ch) : UpRouterDevice(net, c)}
<1>2. UpRouterDevice(net, d) /\ d \in U
  BY DEF UpRouterDevice, OnChannel, OnTransit, Advertised
<1>3. PICK x \in U : FindDesignatedRouterForLink(net, d) = Interface(net, x).addr
  BY <1>0, <1>2, DesignatedFacts
<1>4. /\ x \in Devices(net) /\ Interface(net, x).ch = Interface(net, d).ch
      /\ x[1] \in net.routers /\ Interface(net, x).up
  BY DEF OnChannel, UpRouterDevice
<1>5. Advertised(net, x) /\ net.kind[Interface(net, x).ch] = "lan"
  BY <1>1, <1>4 DEF Advertised, OnTransit
<1>6. AnotherRouterOnLink(net, x)
  <2>1. CASE x = d
    BY <2>1 DEF OnTransit
  <2>2. CASE x # d
    <3>1. d \in OnChannel(net, Interface(net, x).ch)
      BY <1>4 DEF OnChannel
    <3> QED BY <2>2, <3>1 DEF AnotherRouterOnLink
  <2> QED BY <2>1, <2>2
<1>7. FindDesignatedRouterForLink(net, x) = Interface(net, x).addr
  BY <1>3, <1>4 DEF FindDesignatedRouterForLink
<1>8. IsDesignated(net, x)
  BY <1>4, <1>5, <1>6, <1>7 DEF IsDesignated, OnTransit
<1>9. Interface(net, x).addr \in NetworkVertices
  BY <1>4, <1>8, VertexFacts
<1> QED BY <1>3, <1>4, <1>8, <1>9

(* What the link id of a router's record says of the record.               *)
LEMMA LinkIdsTell ==
    ASSUME Built, Ordinary, Subnetted, NEW n \in net.routers,
           NEW l \in Listed(RouterLSA(net, n).links)
    PROVE  /\ \A m \in net.routers : l.linkId = RouterId(net, m) =>
                 \E d \in Devices(net) : /\ d[1] = n /\ LinksRouters(net, d)
                                         /\ GetAdjacent(net, d)[1] = m /\ l = RouterRecord(net, d)
           /\ \A x \in Devices(net) : IsDesignated(net, x) /\ l.linkId = Interface(net, x).addr =>
                 \E d \in Devices(net) : /\ d[1] = n /\ OnTransit(net, d)
                                         /\ Interface(net, d).ch = Interface(net, x).ch
                                         /\ l = TransitRecord(net, d)
<1>0. WellFormedTopology(net)
  BY DEF Built
<1>1. /\ \A m, q \in net.routers : RouterId(net, m) = RouterId(net, q) => m = q
      /\ \A m \in net.routers : \A d \in Devices(net) : RouterId(net, m) < Interface(net, d).addr
      /\ Cardinality(net.routers) \in Nat
      /\ \A m \in net.routers : RouterId(net, m) \in Nat /\ RouterId(net, m) < Cardinality(net.routers)
  BY <1>0, RouterIdFacts
<1>2. \A d, e \in Devices(net) : Interface(net, d).addr = Interface(net, e).addr => d = e
  BY <1>0 DEF WellFormedTopology
<1>3. \A d \in Devices(net) : Interface(net, d).addr \in Nat
  BY <1>0, DeviceFacts
<1>4. CASE l.type = "StubNetwork"
  <2>1. PICK d \in Devices(net) :
              /\ d[1] = n
              /\ \/ /\ net.kind[Interface(net, d).ch] = "p2p"
                    /\ l.linkId = Interface(net, GetAdjacent(net, d)).addr
                 \/ /\ ~AnotherRouterOnLink(net, d)
                    /\ l.linkId = CombineMask(Interface(net, d).addr, SubnetMask)
    BY <1>0, <1>4, StubRecords
  <2>2. CASE /\ net.kind[Interface(net, d).ch] = "p2p"
             /\ l.linkId = Interface(net, GetAdjacent(net, d)).addr
    <3>1. PICK c \in Devices(net) : c = GetAdjacent(net, d) /\ Interface(net, c).ch = Interface(net, d).ch
      BY <1>0, <2>2, AdjacentFacts
    <3>2. \A m \in net.routers : l.linkId # RouterId(net, m)
      <4>1. \A m \in net.routers : RouterId(net, m) < Interface(net, c).addr
        BY <1>1
      <4> QED BY <1>1, <1>3, <2>2, <3>1, <4>1
    <3>3. \A x \in Devices(net) : IsDesignated(net, x) => l.linkId # Interface(net, x).addr
      BY <1>2, <2>2, <3>1 DEF IsDesignated, OnTransit
    <3> QED BY <3>2, <3>3
  <2>3. CASE /\ ~AnotherRouterOnLink(net, d)
             /\ l.linkId = CombineMask(Interface(net, d).addr, SubnetMask)
    <3>1. \A m \in net.routers : l.linkId # RouterId(net, m)
      <4>1. PICK a \in Nat : a = Interface(net, d).addr
        BY <1>3
      <4>2. Cardinality(net.routers) <= CombineMask(a, SubnetMask)
        BY <4>1 DEF Subnetted
      <4>3. CombineMask(a, SubnetMask) \in Nat
        BY CombineMaskType DEF SubnetMask
      <4> QED BY <1>1, <2>3, <4>1, <4>2, <4>3
    <3>2. \A x \in Devices(net) : IsDesignated(net, x) => l.linkId # Interface(net, x).addr
      <4> SUFFICES ASSUME NEW x \in Devices(net), IsDesignated(net, x), l.linkId = Interface(net, x).addr
                   PROVE  FALSE
        OBVIOUS
      <4>1. IsMatch(SubnetMask, Interface(net, x).addr, Interface(net, d).addr)
        BY <1>3, <2>3, CombineMaskFacts DEF IsMatch
      <4>2. Interface(net, x).ch = Interface(net, d).ch
        BY <4>1 DEF Subnetted
      <4>3. x # d /\ x[1] \in net.routers
        BY <2>3 DEF IsDesignated, OnTransit
      <4>4. x \in OnChannel(net, Interface(net, d).ch)
        BY <4>2 DEF OnChannel
      <4> QED BY <2>3, <4>3, <4>4 DEF AnotherRouterOnLink
    <3> QED BY <3>1, <3>2
  <2> QED BY <2>1, <2>2, <2>3
<1>5. ASSUME NEW d \in Devices(net), d[1] = n, OnTransit(net, d), l = TransitRecord(net, d)
      PROVE  /\ \A m \in net.routers : l.linkId # RouterId(net, m)
             /\ \A x \in Devices(net) : IsDesignated(net, x) /\ l.linkId = Interface(net, x).addr =>
                   Interface(net, d).ch = Interface(net, x).ch
  <2>1. PICK y \in Devices(net) : /\ FindDesignatedRouterForLink(net, d) = Interface(net, y).addr
                                  /\ Interface(net, y).ch = Interface(net, d).ch
    BY <1>5, TransitFacts
  <2>2. l.linkId = Interface(net, y).addr
    BY <1>5, <2>1 DEF TransitRecord, LinkRecord
  <2>3. \A m \in net.routers : RouterId(net, m) < Interface(net, y).addr
    BY <1>1
  <2>4. \A m \in net.routers : l.linkId # RouterId(net, m)
    BY <1>1, <1>3, <2>2, <2>3
  <2> QED BY <1>2, <2>1, <2>2, <2>4
<1>6. ASSUME NEW d \in Devices(net), d[1] = n, LinksRouters(net, d), l = RouterRecord(net, d)
      PROVE  /\ \A m \in net.routers : l.linkId = RouterId(net, m) => GetAdjacent(net, d)[1] = m
             /\ \A x \in Devices(net) : l.linkId # Interface(net, x).addr
  <2>1. GetAdjacent(net, d)[1] \in net.routers
    BY <1>6 DEF LinksRouters
  <2>2. l.linkId = RouterId(net, GetAdjacent(net, d)[1])
    BY <1>6 DEF RouterRecord, LinkRecord
  <2>3. \A x \in Devices(net) : RouterId(net, GetAdjacent(net, d)[1]) < Interface(net, x).addr
    BY <1>1, <2>1
  <2>4. \A x \in Devices(net) : l.linkId # Interface(net, x).addr
    BY <1>1, <1>3, <2>1, <2>2, <2>3
  <2> QED BY <1>1, <2>1, <2>2, <2>4
<1>7. CASE l.type # "StubNetwork"
  <2>1. PICK d \in Devices(net) : /\ d[1] = n
                                  /\ \/ OnTransit(net, d) /\ l = TransitRecord(net, d)
                                     \/ LinksRouters(net, d) /\ l = RouterRecord(net, d)
    BY <1>0, <1>7, RouterRecords
  <2>2. CASE OnTransit(net, d) /\ l = TransitRecord(net, d)
    BY <1>5, <2>1, <2>2
  <2>3. CASE LinksRouters(net, d) /\ l = RouterRecord(net, d)
    BY <1>6, <2>1, <2>3
  <2> QED BY <2>1, <2>2, <2>3
<1> QED BY <1>4, <1>7

(* The first record with a link id is found, if there is one.              *)
LEMMA FirstLink ==
    ASSUME TypeOK, NEW u \in Ids, NEW w
    PROVE  /\ SPFGetNextLink(u, w, FALSE) # 0 =>
                 /\ SPFGetNextLink(u, w, FALSE) \in DOMAIN lsdb[u].links
                 /\ PointsTo(u, w, SPFGetNextLink(u, w, FALSE))
           /\ \A k \in DOMAIN lsdb[u].links :
                 PointsTo(u, w, k) => SPFGetNextLink(u, w, FALSE) # 0
<1> DEFINE A == {k \in DOMAIN lsdb[u].links : PointsTo(u, w, k)}
<1>1. SPFGetNextLink(u, w, FALSE) = NthLink(u, w, 1)
  BY DEF SPFGetNextLink
<1>2. DOMAIN lsdb[u].links \subseteq Nat \ {0}
  <2>1. lsdb[u].links \in Seq(LinkRecordType)
    BY DEF TypeOK, WellFormed, WellFormedDatabase, LSAType, Ids
  <2> QED BY <2>1
<1>3. NthLinks(u, w, 1) \subseteq A
  BY DEF NthLinks
<1>4. A # {} => NthLinks(u, w, 1) # {}
  <2> SUFFICES ASSUME A # {} PROVE NthLinks(u, w, 1) # {}
    OBVIOUS
  <2>1. PICK k \in A : \A m \in A : k <= m
    <3>1. A \in SUBSET Nat
      BY <1>2
    <3> QED BY <3>1, SmallestOf
  <2>2. k \in Nat \ {0} /\ k \in DOMAIN lsdb[u].links
    BY <1>2
  <2>3. \A m \in 1 .. k - 1 : m \in DOMAIN lsdb[u].links
    <3>1. lsdb[u].links \in Seq(LinkRecordType)
      BY DEF TypeOK, WellFormed, WellFormedDatabase, LSAType, Ids
    <3>2. k \in 1 .. Len(lsdb[u].links) /\ Len(lsdb[u].links) \in Nat
      BY <2>2, <3>1
    <3> QED BY <3>1, <3>2
  <2>4. \A m \in 1 .. k - 1 : ~PointsTo(u, w, m)
    <3> SUFFICES ASSUME NEW m \in 1 .. k - 1, PointsTo(u, w, m) PROVE FALSE
      OBVIOUS
    <3>1. m \in A /\ m < k
      BY <2>2, <2>3
    <3> QED BY <2>1, <2>2, <3>1
  <2>5. {m \in 1 .. k - 1 : PointsTo(u, w, m)} = {}
    BY <2>4
  <2>6. Cardinality({m \in 1 .. k - 1 : PointsTo(u, w, m)}) = 1 - 1
    BY <2>5, FS_EmptySet
  <2>7. k \in NthLinks(u, w, 1)
    BY <2>1, <2>2, <2>6 DEF NthLinks
  <2> QED BY <2>7
<1>5. NthLinks(u, w, 1) # {} => NthLink(u, w, 1) \in NthLinks(u, w, 1)
  BY DEF NthLink
<1>6. NthLinks(u, w, 1) = {} => NthLink(u, w, 1) = 0
  BY DEF NthLink
<1> HIDE DEF A
<1>7. ASSUME SPFGetNextLink(u, w, FALSE) # 0
      PROVE  SPFGetNextLink(u, w, FALSE) \in A
  BY <1>1, <1>3, <1>5, <1>6, <1>7
<1>8. ASSUME NEW k \in A PROVE SPFGetNextLink(u, w, FALSE) # 0
  <2>1. SPFGetNextLink(u, w, FALSE) \in NthLinks(u, w, 1)
    BY <1>1, <1>4, <1>5
  <2>2. SPFGetNextLink(u, w, FALSE) \in A
    BY <1>3, <2>1
  <2> QED BY <1>2, <2>2 DEF A
<1> QED BY <1>7, <1>8 DEF A

(* The outgoing interface of a link is the root's interface on it.         *)
LEMMA OutgoingInterface ==
    ASSUME Built, Ordinary, Subnetted, NEW d \in Devices(net), d[1] = node
    PROVE  /\ FindOutgoingInterfaceId(Interface(net, d).addr, HostMask) = d[2]
           /\ \A x \in Devices(net) : Interface(net, x).ch = Interface(net, d).ch =>
                 FindOutgoingInterfaceId(Interface(net, x).addr, SubnetMask) = d[2]
<1>0. WellFormedTopology(net)
  BY DEF Built
<1>1. /\ node \in net.nodes /\ d = <<node, d[2]>> /\ d[2] \in DOMAIN net.ifs[node]
      /\ d[2] \in Nat /\ Interface(net, d) = net.ifs[node][d[2]]
  BY <1>0, DeviceFacts DEF Interface
<1>2. ASSUME NEW j \in DOMAIN net.ifs[node]
      PROVE  /\ <<node, j>> \in Devices(net) /\ Interface(net, <<node, j>>) = net.ifs[node][j]
             /\ net.ifs[node][j].addr \in Nat
  <2>1. <<node, j>> \in Devices(net)
    BY <1>1, DeviceOf
  <2>2. Interface(net, <<node, j>>) = net.ifs[node][j]
    BY DEF Interface
  <2> QED BY <1>0, <2>1, <2>2, DeviceFacts
<1>3. ASSUME NEW a, NEW mask,
             \A j \in DOMAIN net.ifs[node] :
                CombineMask(net.ifs[node][j].addr, mask) = CombineMask(a, mask) <=> j = d[2]
      PROVE  FindOutgoingInterfaceId(a, mask) = d[2]
  <2> DEFINE M == {j \in DOMAIN net.ifs[node] :
                      CombineMask(net.ifs[node][j].addr, mask) = CombineMask(a, mask)}
  <2>1. M = {d[2]}
    BY <1>1, <1>3
  <2>2. FindOutgoingInterfaceId(a, mask)
          = IF M = {} THEN -1 ELSE CHOOSE j \in M : \A k \in M : j <= k
    BY DEF FindOutgoingInterfaceId
  <2> HIDE DEF M
  <2>3. d[2] <= d[2]
    BY <1>1
  <2> QED BY <2>1, <2>2, <2>3
<1>4. FindOutgoingInterfaceId(Interface(net, d).addr, HostMask) = d[2]
  <2>1. \A j \in DOMAIN net.ifs[node] : net.ifs[node][j].addr = Interface(net, d).addr <=> j = d[2]
    <3> SUFFICES ASSUME NEW j \in DOMAIN net.ifs[node], net.ifs[node][j].addr = Interface(net, d).addr
                 PROVE  j = d[2]
      BY <1>1
    <3>1. <<node, j>> = d
      BY <1>0, <1>2 DEF WellFormedTopology
    <3> QED BY <3>1
  <2>2. Interface(net, d).addr \in Nat
    BY <1>1, <1>2
  <2>3. \A j \in DOMAIN net.ifs[node] :
            CombineMask(net.ifs[node][j].addr, HostMask) = net.ifs[node][j].addr
    BY <1>2, CombineMaskFacts
  <2>4. CombineMask(Interface(net, d).addr, HostMask) = Interface(net, d).addr
    BY <2>2, CombineMaskFacts
  <2> QED BY <1>3, <2>1, <2>3, <2>4
<1>5. ASSUME NEW x \in Devices(net), Interface(net, x).ch = Interface(net, d).ch
      PROVE  FindOutgoingInterfaceId(Interface(net, x).addr, SubnetMask) = d[2]
  <2>1. ASSUME NEW j \in DOMAIN net.ifs[node]
        PROVE  CombineMask(net.ifs[node][j].addr, SubnetMask) = CombineMask(Interface(net, x).addr, SubnetMask)
                 <=> j = d[2]
    <3>1. PICK c \in Devices(net) : c = <<node, j>> /\ Interface(net, c) = net.ifs[node][j]
      BY <1>2
    <3>2. IsMatch(SubnetMask, Interface(net, c).addr, Interface(net, x).addr)
             <=> Interface(net, c).ch = Interface(net, x).ch
      BY DEF Subnetted
    <3>3. Interface(net, c).ch = Interface(net, d).ch => c = d
      BY <1>1, <3>1 DEF Ordinary
    <3>4. c[2] = j
      BY <3>1
    <3>5. j = d[2] => c = d
      BY <1>1, <3>1
    <3> QED BY <1>5, <3>1, <3>2, <3>3, <3>4, <3>5 DEF IsMatch
  <2> QED BY <1>3, <2>1
<1> QED BY <1>4, <1>5

(* The root of a calculation is the vertex of its node.                    *)
RootIsNode == Building => root = RouterId(net, node)

(* It is a router, and no other node's.                                    *)
LEMMA RootIsRouter ==
    ASSUME TypeOK, Built, RootIsNode, Building
    PROVE  /\ node \in net.routers /\ root = RouterId(net, node)
           /\ root \in Ids /\ root \notin NetworkVertices
           /\ \A n \in net.routers : RouterId(net, n) = root => n = node
<1>1. node \in net.routers /\ root = RouterId(net, node)
  BY DEF TypeOK, RootIsNode
<1>2. WellFormedTopology(net)
  BY DEF Built
<1> QED BY <1>1, <1>2, VertexFacts, RouterIdFacts

(* Nothing but the root is at distance 0.                                  *)
LEMMA PositiveDistances ==
    ASSUME TypeOK, Built, RootIsNode, Dijkstra, Building, PositiveMetrics,
           NEW w \in Ids \ {root}, Known(w)
    PROVE  dist[w] > 0
<1>0. ParentsAreTight /\ dist \in [Ids -> Nat] /\ parents \in [Ids -> SUBSET Ids]
      /\ parents[root] = {} /\ root \in Ids
  BY DEF Dijkstra, TypeOK, Building, Progress
<1>1. ASSUME NEW x \in Ids \ {root}, Known(x), dist[x] = 0
      PROVE  \E u \in NetworkVertices : u \in Ids \ {root} /\ Known(u) /\ dist[u] = 0 /\ x \notin NetworkVertices
  <2>1. PICK u \in parents[x] : \E k \in 1 .. NumRecords(u) :
            Edge(u, k, x) /\ Explored(u, k) /\ dist[x] = dist[u] + Cost(u, k)
    BY <1>0, <1>1 DEF ParentsAreTight
  <2>2. PICK k \in 1 .. NumRecords(u) :
            Edge(u, k, x) /\ Explored(u, k) /\ dist[x] = dist[u] + Cost(u, k)
    BY <2>1
  <2>3. u \in Ids /\ Cost(u, k) \in Nat /\ dist[u] \in Nat
    BY <1>0, EdgeType
  <2>4. dist[u] = 0 /\ Cost(u, k) = 0
    BY <1>1, <2>2, <2>3
  <2>5. u \in NetworkVertices /\ x \notin NetworkVertices
    BY <2>2, <2>3, <2>4, NetworkRecords
  <2>6. u # root
    BY <2>5, RootIsRouter
  <2>7. Known(u)
    BY <2>2 DEF Explored, Known
  <2> QED BY <2>3, <2>4, <2>5, <2>6, <2>7
<1>2. dist[w] # 0
  <2> SUFFICES ASSUME dist[w] = 0 PROVE FALSE
    OBVIOUS
  <2>1. PICK u \in NetworkVertices : u \in Ids \ {root} /\ Known(u) /\ dist[u] = 0
    BY <1>1
  <2> QED BY <1>1, <2>1
<1> QED BY <1>0, <1>2

(* Interfaces with the same designated router are on the same channel.     *)
LEMMA SameNetwork ==
    ASSUME Built, Ordinary, NEW d \in Devices(net), NEW e \in Devices(net),
           d[1] \in net.routers, OnTransit(net, d), e[1] \in net.routers, OnTransit(net, e),
           FindDesignatedRouterForLink(net, d) = FindDesignatedRouterForLink(net, e)
    PROVE  /\ Interface(net, d).ch = Interface(net, e).ch
           /\ Interface(net, d).metric = Interface(net, e).metric
           /\ d[1] = e[1] => d = e
<1>1. PICK x \in Devices(net) : /\ FindDesignatedRouterForLink(net, d) = Interface(net, x).addr
                                /\ Interface(net, x).ch = Interface(net, d).ch
  BY TransitFacts
<1>2. PICK y \in Devices(net) : /\ FindDesignatedRouterForLink(net, e) = Interface(net, y).addr
                                /\ Interface(net, y).ch = Interface(net, e).ch
  BY TransitFacts
<1>3. x = y
  BY <1>1, <1>2 DEF Built, WellFormedTopology
<1> QED BY <1>1, <1>2, <1>3 DEF Ordinary

(* Only the routers on a network lead to it.                               *)
LEMMA IntoNetwork ==
    ASSUME Built, Ordinary, NEW e \in Edges, e[2] \in NetworkVertices
    PROVE  \E d \in Devices(net) :
              /\ d[1] \in net.routers /\ OnTransit(net, d) /\ e[1] = RouterId(net, d[1])
              /\ e[2] = FindDesignatedRouterForLink(net, d) /\ e[3] = Interface(net, d).metric
<1>1. ASSUME NEW d \in Devices(net), RouterEdge(d, e) PROVE FALSE
  <2>1. e[2] = RouterId(net, GetAdjacent(net, d)[1]) /\ GetAdjacent(net, d)[1] \in net.routers
    BY <1>1 DEF RouterEdge, LinksRouters
  <2> QED BY <2>1, VertexFacts
<1>2. ASSUME NEW x \in Devices(net), NEW d \in Devices(net), NetworkEdge(x, d, e) PROVE FALSE
  <2>1. e[2] = RouterId(net, d[1]) /\ d[1] \in net.routers
    BY <1>2 DEF NetworkEdge
  <2> QED BY <2>1, VertexFacts
<1>3. PICK d \in Devices(net) : TransitEdge(d, e)
  BY <1>1, <1>2, EdgeComesFrom
<1> QED BY <1>3 DEF TransitEdge

(* A network next to the root has no other parent: from every router on it *)
(* the way into it costs the same.                                         *)
LEMMA OneParent ==
    ASSUME TypeOK, Built, RootIsNode, Dijkstra, Building, PositiveMetrics, Ordinary,
           NEW w \in NetworkVertices, Known(w), root \in parents[w]
    PROVE  parents[w] = {root}
<1>0. /\ ParentsAreTight /\ dist \in [Ids -> Nat] /\ parents \in [Ids -> SUBSET Ids]
      /\ dist[root] = 0 /\ w \in Ids \ {root}
  BY RootIsRouter DEF Dijkstra, TypeOK, Progress, NetworkVertices
<1>1. ASSUME NEW p \in parents[w]
      PROVE  \E d \in Devices(net) :
                /\ d[1] \in net.routers /\ OnTransit(net, d) /\ p = RouterId(net, d[1])
                /\ w = FindDesignatedRouterForLink(net, d)
                /\ dist[w] = dist[p] + Interface(net, d).metric /\ Known(p) /\ p \in Ids
  <2>1. p \in Ids
    BY <1>0
  <2>2. PICK k \in 1 .. NumRecords(p) :
            Edge(p, k, w) /\ Explored(p, k) /\ dist[w] = dist[p] + Cost(p, k)
    BY <1>0, <1>1 DEF ParentsAreTight
  <2>3. PICK e \in Edges : e = <<p, w, Cost(p, k)>>
    BY <2>1, <2>2, EdgesAreRecords
  <2>4. e[1] = p /\ e[2] = w /\ e[3] = Cost(p, k)
    BY <2>3
  <2>5. PICK d \in Devices(net) :
              /\ d[1] \in net.routers /\ OnTransit(net, d) /\ e[1] = RouterId(net, d[1])
              /\ e[2] = FindDesignatedRouterForLink(net, d) /\ e[3] = Interface(net, d).metric
    BY <2>4, IntoNetwork
  <2>6. Known(p)
    BY <2>2 DEF Explored, Known
  <2> QED BY <2>1, <2>2, <2>4, <2>5, <2>6
<1>2. PICK d \in Devices(net) :
          /\ d[1] \in net.routers /\ OnTransit(net, d) /\ w = FindDesignatedRouterForLink(net, d)
          /\ dist[w] = dist[root] + Interface(net, d).metric
  BY <1>1
<1>3. ASSUME NEW p \in parents[w] PROVE p = root
  <2>1. PICK c \in Devices(net) :
          /\ c[1] \in net.routers /\ OnTransit(net, c) /\ w = FindDesignatedRouterForLink(net, c)
          /\ dist[w] = dist[p] + Interface(net, c).metric /\ Known(p) /\ p \in Ids
    BY <1>1
  <2>2. Interface(net, c).metric = Interface(net, d).metric
    BY <1>2, <2>1, SameNetwork
  <2>3. Interface(net, c).metric \in Nat
    BY DeviceFacts DEF Built
  <2>4. dist[p] \in Nat
    BY <1>0, <2>1
  <2>5. dist[p] = 0
    BY <1>0, <1>2, <2>1, <2>2, <2>3, <2>4
  <2> QED BY <2>1, <2>5, PositiveDistances
<1> QED BY <1>3

(***************************************************************************)
(* What SPFNexthopCalculation means.  From the root an exit leads to the   *)
(* network of an interface or to the router at the other end of its link;  *)
(* behind a network next to the root it leads to a router on this network; *)
(* farther away it is inherited from the parent.                           *)
(***************************************************************************)
FromRoot(w, exit) ==
    \E d \in Devices(net) :
        /\ d[1] = node
        /\ \/ /\ OnTransit(net, d) /\ w = FindDesignatedRouterForLink(net, d)
              /\ exit = <<ZeroAddress, d[2]>>
           \/ /\ LinksRouters(net, d) /\ w = RouterId(net, GetAdjacent(net, d)[1])
              /\ exit = <<Interface(net, GetAdjacent(net, d)).addr, d[2]>>

Across(p, w, exit) ==
    \E d, x \in Devices(net) :
        /\ d[1] = node /\ OnTransit(net, d) /\ p = FindDesignatedRouterForLink(net, d)
        /\ x[1] \in net.routers /\ OnTransit(net, x) /\ p = FindDesignatedRouterForLink(net, x)
        /\ w = RouterId(net, x[1]) /\ exit = <<Interface(net, x).addr, d[2]>>

Via(p, w, exit) ==
    IF p = root THEN FromRoot(w, exit)
    ELSE IF p \in NetworkVertices /\ root \in parents[p] THEN Across(p, w, exit)
    ELSE exit \in exits[p]

(* The exits of a vertex are those through its parents.                    *)
ExitsFollow ==
    \A w \in Ids \ {root} :
        Known(w) => /\ first[w] \in parents[w]
                    /\ \A exit : exit \in exits[w] <=> \E p \in parents[w] : Via(p, w, exit)

Exits == Building /\ Ordinary /\ Subnetted /\ PositiveMetrics => ExitsFollow

(* The facts about a state in which SPFNext computes next hops.            *)
Exploring ==
    /\ TypeOK /\ Built /\ RootIsNode /\ Dijkstra /\ Building
    /\ Ordinary /\ Subnetted /\ PositiveMetrics

(* The root has one interface towards a neighbouring vertex.               *)
LEMMA FromRootToOne ==
    ASSUME Exploring, NEW d \in Devices(net), d[1] = node, NEW w, NEW exit
    PROVE  /\ OnTransit(net, d) /\ w = FindDesignatedRouterForLink(net, d) =>
                 (FromRoot(w, exit) <=> exit = <<ZeroAddress, d[2]>>)
           /\ LinksRouters(net, d) /\ w = RouterId(net, GetAdjacent(net, d)[1]) =>
                 (FromRoot(w, exit) <=> exit = <<Interface(net, GetAdjacent(net, d)).addr, d[2]>>)
<1>0. Built /\ Ordinary /\ d[1] \in net.routers /\ WellFormedTopology(net)
  BY RootIsRouter DEF Exploring, Built
<1>1. ASSUME NEW c \in Devices(net), c[1] = node, OnTransit(net, c)
      PROVE  FindDesignatedRouterForLink(net, c) \in NetworkVertices
  BY <1>0, <1>1, TransitFacts
<1>2. ASSUME NEW c \in Devices(net), LinksRouters(net, c)
      PROVE  RouterId(net, GetAdjacent(net, c)[1]) \notin NetworkVertices
  <2>1. GetAdjacent(net, c)[1] \in net.routers
    BY <1>2 DEF LinksRouters
  <2> QED BY <1>0, <2>1, VertexFacts
<1>3. ASSUME OnTransit(net, d), w = FindDesignatedRouterForLink(net, d), FromRoot(w, exit)
      PROVE  exit = <<ZeroAddress, d[2]>>
  <2>1. PICK c \in Devices(net) :
        /\ c[1] = node
        /\ \/ /\ OnTransit(net, c) /\ w = FindDesignatedRouterForLink(net, c)
              /\ exit = <<ZeroAddress, c[2]>>
           \/ LinksRouters(net, c) /\ w = RouterId(net, GetAdjacent(net, c)[1])
    BY <1>3 DEF FromRoot
  <2>2. /\ OnTransit(net, c) /\ w = FindDesignatedRouterForLink(net, c)
        /\ exit = <<ZeroAddress, c[2]>>
    BY <1>1, <1>2, <1>3, <2>1
  <2>3. c = d
    BY <1>0, <1>3, <2>1, <2>2, SameNetwork
  <2> QED BY <2>2, <2>3
<1>4. ASSUME LinksRouters(net, d), w = RouterId(net, GetAdjacent(net, d)[1]), FromRoot(w, exit)
      PROVE  exit = <<Interface(net, GetAdjacent(net, d)).addr, d[2]>>
  <2>1. PICK c \in Devices(net) :
        /\ c[1] = node
        /\ \/ OnTransit(net, c) /\ w = FindDesignatedRouterForLink(net, c)
           \/ /\ LinksRouters(net, c) /\ w = RouterId(net, GetAdjacent(net, c)[1])
              /\ exit = <<Interface(net, GetAdjacent(net, c)).addr, c[2]>>
    BY <1>4 DEF FromRoot
  <2>2. /\ LinksRouters(net, c) /\ w = RouterId(net, GetAdjacent(net, c)[1])
        /\ exit = <<Interface(net, GetAdjacent(net, c)).addr, c[2]>>
    BY <1>1, <1>2, <1>4, <2>1
  <2>3. GetAdjacent(net, c)[1] = GetAdjacent(net, d)[1]
    BY <1>0, <1>4, <2>2, RouterIdFacts DEF LinksRouters
  <2>4. c = d
    BY <1>0, <1>4, <2>1, <2>2, <2>3 DEF Ordinary, LinksRouters
  <2> QED BY <2>2, <2>4
<1> QED BY <1>3, <1>4 DEF FromRoot

(* From the root over a point-to-point link.                               *)
LEMMA NexthopOfNeighbour ==
    ASSUME Exploring, v = root, NEW w \in Ids, ~NexthopFault(w), NEW old,
           NEW d \in Devices(net), d[1] = node, LinksRouters(net, d),
           w = RouterId(net, GetAdjacent(net, d)[1]), lsdb[v].links[i] = RouterRecord(net, d)
    PROVE  NexthopExits(w, old) = {<<Interface(net, GetAdjacent(net, d)).addr, d[2]>>}
<1>0. /\ Built /\ Ordinary /\ Subnetted /\ TypeOK /\ WellFormedTopology(net)
      /\ node \in net.routers /\ root = RouterId(net, node)
  BY RootIsRouter DEF Exploring, Built
<1>1. PICK c \in Devices(net) : /\ c = GetAdjacent(net, d) /\ GetAdjacent(net, c) = d
                                /\ Interface(net, c).ch = Interface(net, d).ch
                                /\ c[1] \in net.routers
  BY <1>0, AdjacentFacts DEF LinksRouters
<1>2. w \notin NetworkVertices /\ lsdb[w] = RouterLSA(net, c[1])
  BY <1>0, <1>1, VertexFacts
<1> DEFINE back == SPFGetNextLink(w, v, FALSE)
<1>3. FromRootToRouter(w) /\ back # 0
  BY <1>2 DEF FromRootToRouter, NexthopFault, MissingBackLink
<1>4. PICK l \in Listed(RouterLSA(net, c[1]).links) :
          l = lsdb[w].links[back] /\ l.linkId = RouterId(net, node)
  <2>1. back \in DOMAIN lsdb[w].links /\ PointsTo(w, v, back)
    BY <1>0, <1>3, FirstLink
  <2>2. RouterLSA(net, c[1]).links \in Seq(LinkRecordType)
    BY <1>0, <1>1, RouterLSAFacts DEF LSAType
  <2>3. back \in 1 .. Len(RouterLSA(net, c[1]).links)
    <3>1. DOMAIN RouterLSA(net, c[1]).links = 1 .. Len(RouterLSA(net, c[1]).links)
      BY <2>2
    <3>2. back \in DOMAIN RouterLSA(net, c[1]).links
      BY <1>2, <2>1, Zenon
    <3> QED BY <3>1, <3>2, Zenon
  <2>4. lsdb[w].links[back] \in Listed(RouterLSA(net, c[1]).links)
    BY <1>2, <2>3 DEF Listed
  <2> QED BY <1>0, <2>1, <2>4 DEF PointsTo
<1>5. PICK f \in Devices(net) : /\ f[1] = c[1] /\ LinksRouters(net, f)
                                /\ GetAdjacent(net, f)[1] = node /\ l = RouterRecord(net, f)
  <2>1. \A m \in net.routers : l.linkId = RouterId(net, m) =>
           \E f \in Devices(net) : /\ f[1] = c[1] /\ LinksRouters(net, f)
                                   /\ GetAdjacent(net, f)[1] = m /\ l = RouterRecord(net, f)
    BY <1>0, <1>1, LinkIdsTell
  <2> QED BY <1>0, <1>4, <2>1
<1>6. f = c
  BY <1>0, <1>1, <1>5 DEF Ordinary, LinksRouters
<1>7. lsdb[w].links[back].linkData = Interface(net, c).addr
  BY <1>4, <1>5, <1>6 DEF RouterRecord, LinkRecord
<1>8. lsdb[v].links[i].linkData = Interface(net, d).addr
  BY DEF RouterRecord, LinkRecord
<1>9. FindOutgoingInterfaceId(Interface(net, d).addr, HostMask) = d[2]
  BY <1>0, OutgoingInterface
<1>10. NexthopExits(w, old) = {<< lsdb[w].links[back].linkData,
                                  FindOutgoingInterfaceId(lsdb[v].links[i].linkData, HostMask) >>}
  BY <1>3 DEF NexthopExits
<1> QED BY <1>1, <1>7, <1>8, <1>9, <1>10, Zenon

(* From the root onto a network.                                           *)
LEMMA NexthopOfNetwork ==
    ASSUME Exploring, v = root, NEW w \in Ids, NEW old,
           NEW d \in Devices(net), d[1] = node, OnTransit(net, d),
           w = FindDesignatedRouterForLink(net, d)
    PROVE  NexthopExits(w, old) = {<<ZeroAddress, d[2]>>}
<1>0. Built /\ Ordinary /\ Subnetted /\ node \in net.routers
  BY RootIsRouter DEF Exploring
<1>1. PICK x \in Devices(net) : /\ w = Interface(net, x).addr /\ w \in NetworkVertices
                                /\ Interface(net, x).ch = Interface(net, d).ch
  BY <1>0, TransitFacts
<1>2. FindOutgoingInterfaceId(w, SubnetMask) = d[2]
  BY <1>0, <1>1, OutgoingInterface
<1> QED BY <1>1, <1>2 DEF NexthopExits, FromRootToRouter, FromRootToNetwork

(* Across a network next to the root.                                      *)
LEMMA NexthopAcross ==
    ASSUME Exploring, ExitsFollow, v # root, v \in NetworkVertices, Known(v), root \in parents[v],
           NEW w \in Ids, NEW old,
           NEW x \in Devices(net), IsDesignated(net, x), v = Interface(net, x).addr,
           NEW c \in Devices(net), c[1] \in net.routers, OnTransit(net, c),
           Interface(net, c).ch = Interface(net, x).ch, w = RouterId(net, c[1])
    PROVE  \A exit : exit \in NexthopExits(w, old) <=> Across(v, w, exit)
<1>0. /\ Built /\ Ordinary /\ Subnetted /\ TypeOK /\ WellFormedTopology(net) /\ v \in Ids
      /\ node \in net.routers /\ root = RouterId(net, node)
      /\ \A n \in net.routers : RouterId(net, n) = root => n = node
  BY RootIsRouter DEF Exploring, Built, TypeOK
<1>1. FindDesignatedRouterForLink(net, c) = v
  BY DEF FindDesignatedRouterForLink, IsDesignated
<1>2. parents[v] = {root} /\ first[v] \in parents[v]
  BY <1>0, OneParent DEF Exploring, ExitsFollow
<1>3. AcrossFirstNetwork /\ ~FromRootToRouter(w) /\ ~FromRootToNetwork(w)
  BY <1>2 DEF AcrossFirstNetwork, FromRootToRouter, FromRootToNetwork
<1>4. PICK d \in Devices(net) : /\ d[1] = node /\ OnTransit(net, d)
                                /\ v = FindDesignatedRouterForLink(net, d)
  <2>1. PICK k \in 1 .. NumRecords(root) : Edge(root, k, v)
    BY <1>0 DEF Exploring, Dijkstra, ParentsAreTight
  <2>2. PICK e \in Edges : e = <<root, v, Cost(root, k)>>
    BY <1>0, <2>1, RootIsRouter, EdgesAreRecords DEF Exploring
  <2>3. e[1] = root /\ e[2] = v
    BY <2>2
  <2>4. PICK d \in Devices(net) :
              /\ d[1] \in net.routers /\ OnTransit(net, d) /\ e[1] = RouterId(net, d[1])
              /\ e[2] = FindDesignatedRouterForLink(net, d)
    BY <1>0, <2>3, IntoNetwork
  <2> QED BY <1>0, <2>3, <2>4
<1>5. \A exit : exit \in exits[v] <=> exit = <<ZeroAddress, d[2]>>
  <2>1. \A exit : exit \in exits[v] <=> Via(root, v, exit)
    BY <1>0, <1>2 DEF ExitsFollow
  <2>2. \A exit : Via(root, v, exit) <=> FromRoot(v, exit)
    BY DEF Via
  <2>3. \A exit : FromRoot(v, exit) <=> exit = <<ZeroAddress, d[2]>>
    BY <1>4, FromRootToOne
  <2> QED BY <2>1, <2>2, <2>3
<1>6. OutIf(v) = d[2]
  <2>1. PICK p : p = CHOOSE e \in exits[v] : TRUE
    OBVIOUS
  <2>2. p \in exits[v]
    BY <1>5, <2>1
  <2>3. p = <<ZeroAddress, d[2]>>
    BY <1>5, <2>2
  <2>4. p[2] = d[2]
    BY <2>3
  <2> QED BY <2>1, <2>4 DEF OutIf
<1> DEFINE back == SPFGetNextLink(w, v, FALSE)
<1>7. lsdb[w] = RouterLSA(net, c[1]) /\ RouterLSA(net, c[1]).links \in Seq(LinkRecordType)
  BY <1>0, VertexFacts, RouterLSAFacts DEF LSAType
<1>8. back # 0
  <2>1. TransitRecord(net, c) \in Listed(RouterLSA(net, c[1]).links)
    BY <1>0, RouterRecords
  <2>2. PICK k \in 1 .. Len(RouterLSA(net, c[1]).links) :
            RouterLSA(net, c[1]).links[k] = TransitRecord(net, c)
    BY <2>1 DEF Listed
  <2>3. k \in DOMAIN lsdb[w].links /\ lsdb[w].links[k] = TransitRecord(net, c)
    BY <1>7, <2>2
  <2>4. PointsTo(w, v, k)
    BY <1>1, <2>3 DEF PointsTo, TransitRecord, LinkRecord
  <2> QED BY <1>0, <2>3, <2>4, FirstLink
<1>9. PICK l \in Listed(RouterLSA(net, c[1]).links) :
          l = lsdb[w].links[back] /\ l.linkId = v
  <2>1. back \in DOMAIN lsdb[w].links /\ PointsTo(w, v, back)
    BY <1>0, <1>8, FirstLink
  <2>2. back \in 1 .. Len(RouterLSA(net, c[1]).links)
    <3>1. DOMAIN RouterLSA(net, c[1]).links = 1 .. Len(RouterLSA(net, c[1]).links)
      BY <1>7
    <3>2. back \in DOMAIN RouterLSA(net, c[1]).links
      BY <1>7, <2>1, Zenon
    <3> QED BY <3>1, <3>2, Zenon
  <2>3. lsdb[w].links[back] \in Listed(RouterLSA(net, c[1]).links)
    BY <1>7, <2>2 DEF Listed
  <2> QED BY <2>1, <2>3 DEF PointsTo
<1>10. PICK f \in Devices(net) : /\ f[1] = c[1] /\ OnTransit(net, f)
                                 /\ Interface(net, f).ch = Interface(net, x).ch
                                 /\ l = TransitRecord(net, f)
  <2>1. Built /\ Ordinary /\ Subnetted /\ c[1] \in net.routers
    BY <1>0 DEF Exploring
  <2>2. l \in Listed(RouterLSA(net, c[1]).links) /\ l.linkId = Interface(net, x).addr
    BY <1>9
  <2> QED BY <2>1, <2>2, LinkIdsTell
<1>11. f = c
  BY <1>0, <1>10 DEF Ordinary
<1>12. lsdb[w].links[back].linkData = Interface(net, c).addr
  BY <1>9, <1>10, <1>11 DEF TransitRecord, LinkRecord
<1>13. NexthopExits(w, old) = {<< lsdb[w].links[back].linkData, OutIf(v) >>}
  BY <1>3, <1>8 DEF NexthopExits
<1>14. NexthopExits(w, old) = {<< Interface(net, c).addr, d[2] >>}
  BY <1>6, <1>12, <1>13, Zenon
<1>15. ASSUME NEW exit, Across(v, w, exit)
       PROVE  exit = << Interface(net, c).addr, d[2] >>
  <2>1. PICK b, y \in Devices(net) :
        /\ b[1] = node /\ OnTransit(net, b) /\ v = FindDesignatedRouterForLink(net, b)
        /\ y[1] \in net.routers /\ OnTransit(net, y) /\ v = FindDesignatedRouterForLink(net, y)
        /\ w = RouterId(net, y[1]) /\ exit = <<Interface(net, y).addr, b[2]>>
    BY <1>15 DEF Across
  <2>2. b = d
    <3>1. b[1] \in net.routers /\ d[1] \in net.routers /\ b[1] = d[1]
      BY <1>0, <1>4, <2>1
    <3>2. OnTransit(net, b) /\ FindDesignatedRouterForLink(net, b) = FindDesignatedRouterForLink(net, d)
      BY <1>4, <2>1
    <3> QED BY <1>0, <1>4, <3>1, <3>2, SameNetwork
  <2>3. y[1] = c[1]
    BY <1>0, <2>1, RouterIdFacts
  <2>4. y = c
    BY <1>0, <1>1, <2>1, <2>3, SameNetwork
  <2> QED BY <2>1, <2>2, <2>4
<1>16. Across(v, w, << Interface(net, c).addr, d[2] >>)
  BY <1>1, <1>4 DEF Across
<1> QED BY <1>14, <1>15, <1>16

(* The next hop calculation gives the exits through the current vertex.    *)
LEMMA NexthopIs ==
    ASSUME Exploring, ExitsFollow, NEW w \in Ids, LeadsTo(w), ~NexthopFault(w), NEW old
    PROVE  \A exit : exit \in NexthopExits(w, old) <=> Via(v, w, exit)
<1>0. /\ Built /\ Ordinary /\ TypeOK /\ v \in Ids /\ Known(v) /\ root \notin NetworkVertices
      /\ node \in net.routers /\ \A n \in net.routers : RouterId(net, n) = root => n = node
  BY RootIsRouter DEF Exploring, TypeOK, Dijkstra, Progress, Known
<1>1. Edge(v, i, w)
  <2>1. i \in Nat \ {0} /\ i <= NumRecords(v) /\ NumRecords(v) \in Nat
    BY <1>0, EdgeType DEF LeadsTo, Examining, TypeOK
  <2>2. i \in 1 .. NumRecords(v)
    BY <2>1
  <2> QED BY <2>2 DEF LeadsTo, Edge
<1>2. PICK e : e = <<v, w, Cost(v, i)>>
  OBVIOUS
<1>3. e[1] = v /\ e[2] = w
  BY <1>2
<1>4. \/ \E d \in Devices(net) :
            RouterEdge(d, e) /\ v \notin NetworkVertices /\ lsdb[v].links[i] = RouterRecord(net, d)
      \/ \E d \in Devices(net) :
            TransitEdge(d, e) /\ v \notin NetworkVertices /\ lsdb[v].links[i] = TransitRecord(net, d)
      \/ \E x, d \in Devices(net) : NetworkEdge(x, d, e) /\ v \in NetworkVertices
  BY <1>0, <1>1, <1>2, RecordComesFrom
<1>5. CASE v = root
  <2>1. \A exit : Via(v, w, exit) <=> FromRoot(w, exit)
    BY <1>5 DEF Via
  <2>2. ASSUME NEW d \in Devices(net), RouterEdge(d, e), lsdb[v].links[i] = RouterRecord(net, d)
        PROVE  \A exit : exit \in NexthopExits(w, old) <=> FromRoot(w, exit)
    <3>1. d[1] = node /\ LinksRouters(net, d) /\ w = RouterId(net, GetAdjacent(net, d)[1])
      BY <1>0, <1>3, <1>5, <2>2 DEF RouterEdge
    <3>2. NexthopExits(w, old) = {<<Interface(net, GetAdjacent(net, d)).addr, d[2]>>}
      BY <1>5, <2>2, <3>1, NexthopOfNeighbour
    <3>3. \A exit : FromRoot(w, exit) <=> exit = <<Interface(net, GetAdjacent(net, d)).addr, d[2]>>
      BY <3>1, FromRootToOne
    <3> QED BY <3>2, <3>3
  <2>3. ASSUME NEW d \in Devices(net), TransitEdge(d, e)
        PROVE  \A exit : exit \in NexthopExits(w, old) <=> FromRoot(w, exit)
    <3>1. d[1] = node /\ OnTransit(net, d) /\ w = FindDesignatedRouterForLink(net, d)
      BY <1>0, <1>3, <1>5, <2>3 DEF TransitEdge
    <3>2. NexthopExits(w, old) = {<<ZeroAddress, d[2]>>}
      BY <1>5, <3>1, NexthopOfNetwork
    <3>3. \A exit : FromRoot(w, exit) <=> exit = <<ZeroAddress, d[2]>>
      BY <3>1, FromRootToOne
    <3> QED BY <3>2, <3>3
  <2> QED BY <1>0, <1>4, <1>5, <2>1, <2>2, <2>3
<1>6. CASE v # root /\ v \in NetworkVertices /\ root \in parents[v]
  <2>1. PICK x, d \in Devices(net) : NetworkEdge(x, d, e)
    BY <1>4, <1>6
  <2>2. /\ IsDesignated(net, x) /\ v = Interface(net, x).addr /\ d[1] \in net.routers
        /\ OnTransit(net, d) /\ Interface(net, d).ch = Interface(net, x).ch
        /\ w = RouterId(net, d[1])
    BY <1>3, <2>1 DEF NetworkEdge
  <2>3. \A exit : exit \in NexthopExits(w, old) <=> Across(v, w, exit)
    BY <1>0, <1>6, <2>2, NexthopAcross
  <2> QED BY <1>6, <2>3 DEF Via
<1>7. CASE v # root /\ ~(v \in NetworkVertices /\ root \in parents[v])
  <2>1. first[v] \in parents[v]
    BY <1>0, <1>7 DEF ExitsFollow
  <2>2. NexthopExits(w, old) = exits[v]
    BY <1>7, <2>1 DEF NexthopExits, FromRootToRouter, FromRootToNetwork, AcrossFirstNetwork
  <2> QED BY <1>7, <2>2 DEF Via
<1> QED BY <1>5, <1>6, <1>7

(* What a vertex takes over from a parent stays, as long as the parent.    *)
LEMMA ViaUnchanged ==
    ASSUME UNCHANGED <<net, lsdb, node, root>>, NEW p, exits'[p] = exits[p], parents'[p] = parents[p]
    PROVE  \A w, exit : Via(p, w, exit)' <=> Via(p, w, exit)
<1>1. NetworkVertices' = NetworkVertices
  BY GraphUnchanged
<1>2. \A w, exit : FromRoot(w, exit)' <=> FromRoot(w, exit)
  BY DEF FromRoot
<1>3. \A w, exit : Across(p, w, exit)' <=> Across(p, w, exit)
  BY DEF Across
<1> QED BY <1>1, <1>2, <1>3 DEF Via

(* The conditions on the topology last.                                    *)
LEMMA ConditionsUnchanged ==
    ASSUME UNCHANGED <<net, lsdb>>
    PROVE  /\ Ordinary' <=> Ordinary
           /\ Subnetted' <=> Subnetted
           /\ PositiveMetrics' <=> PositiveMetrics
<1>1. Ordinary' <=> Ordinary
  BY DEF Ordinary
<1>2. Subnetted' <=> Subnetted
  BY DEF Subnetted
<1> QED BY <1>1, <1>2, GraphUnchanged

(* Parents are in the tree.                                                *)
LEMMA ParentsInTree ==
    ASSUME TypeOK, Dijkstra, Building, NEW w \in Ids \ {root}, Known(w), NEW p \in parents[w]
    PROVE  p \in Ids /\ status[p] = "InSpfTree"
  BY DEF TypeOK, Dijkstra, ParentsAreTight, Explored

(* A record that changes a candidate gives it the exits of its parents.    *)
LEMMA ExitsCandidate ==
    ASSUME TypeOK, Built, RootIsNode, Dijkstra, Exits, NEW w \in Ids,
           NewCandidate(w) \/ EqualCostPath(w) \/ ShorterPath(w)
    PROVE  Exits'
<1>0. /\ pc = "spf" /\ Building /\ LeadsTo(w) /\ ~NexthopFault(w) /\ status[w] # "InSpfTree"
      /\ UNCHANGED <<net, lsdb, node, root, v, pc>>
      /\ \A x \in Ids \ {w} : /\ exits'[x] = exits[x] /\ parents'[x] = parents[x]
                              /\ first'[x] = first[x] /\ status'[x] = status[x]
  <2>1. /\ LeadsTo(w) /\ ~NexthopFault(w) /\ status[w] # "InSpfTree"
        /\ UNCHANGED <<net, lsdb, node, root, v, pc>>
    BY DEF NewCandidate, EqualCostPath, ShorterPath, NextRecord, topology
  <2>2. pc = "spf" /\ Building
    BY <2>1 DEF LeadsTo, Examining, Building
  <2>3. /\ exits \in [Ids -> SUBSET (Nat \X Int)] /\ parents \in [Ids -> SUBSET Ids]
        /\ first \in [Ids -> Ids] /\ status \in [Ids -> {"NotExplored", "Candidate", "InSpfTree"}]
    BY DEF TypeOK
  <2>4. \A x \in Ids \ {w} : exits'[x] = exits[x] /\ parents'[x] = parents[x]
    BY <2>3 DEF NewCandidate, EqualCostPath, ShorterPath
  <2>5. \A x \in Ids \ {w} : first'[x] = first[x] /\ status'[x] = status[x]
    BY <2>3 DEF NewCandidate, EqualCostPath, ShorterPath
  <2> QED BY <2>1, <2>2, <2>4, <2>5
<1> SUFFICES ASSUME Ordinary, Subnetted, PositiveMetrics PROVE ExitsFollow'
  BY <1>0, ConditionsUnchanged DEF Exits
<1>1. Exploring /\ ExitsFollow /\ Ids' = Ids /\ v \in Ids /\ status[v] = "InSpfTree"
      /\ status[root] = "InSpfTree" /\ v # w /\ w # root
  <2>1. Ids' = Ids
    BY <1>0, GraphUnchanged
  <2> QED BY <1>0, <2>1 DEF Exploring, Exits, Dijkstra, Progress, TypeOK
<1>2. ASSUME NEW p \in Ids \ {w} PROVE \A x, exit : Via(p, x, exit)' <=> Via(p, x, exit)
  BY <1>0, <1>2, ViaUnchanged
<1>3. ASSUME NEW x \in Ids \ {root}, x # w, Known(x)'
      PROVE  /\ first'[x] \in parents'[x]
             /\ \A exit : exit \in exits'[x] <=> \E p \in parents'[x] : Via(p, x, exit)'
  <2>1. /\ Known(x) /\ exits'[x] = exits[x] /\ parents'[x] = parents[x] /\ first'[x] = first[x]
    BY <1>0, <1>3 DEF Known
  <2>2. \A p \in parents[x] : p \in Ids \ {w}
    BY <1>0, <2>1, ParentsInTree
  <2>3. \A p \in parents[x] : \A exit : Via(p, x, exit)' <=> Via(p, x, exit)
    BY <1>2, <2>2
  <2>4. /\ first[x] \in parents[x]
        /\ \A exit : exit \in exits[x] <=> \E p \in parents[x] : Via(p, x, exit)
    BY <1>1, <2>1 DEF ExitsFollow
  <2> QED BY <2>1, <2>3, <2>4
<1>4. PICK u \in Ids : u = v /\ \A exit : Via(u, w, exit)' <=> Via(v, w, exit)
  <2>1. PICK u \in Ids : u = v /\ u # w
    BY <1>1
  <2>2. \A exit : Via(u, w, exit)' <=> Via(u, w, exit)
    BY <1>2, <2>1
  <2> QED BY <2>1, <2>2
<1>5. CASE NewCandidate(w) \/ ShorterPath(w)
  <2>1. PICK old : exits'[w] = NexthopExits(w, old)
    <3>1. exits \in [Ids -> SUBSET (Nat \X Int)]
      BY DEF TypeOK
    <3> QED BY <1>5, <3>1 DEF NewCandidate, ShorterPath
  <2>2. parents'[w] = {v} /\ first'[w] = v
    <3>1. parents \in [Ids -> SUBSET Ids] /\ first \in [Ids -> Ids]
      BY DEF TypeOK
    <3> QED BY <1>5, <3>1 DEF NewCandidate, ShorterPath
  <2>3. \A exit : exit \in NexthopExits(w, old) <=> Via(v, w, exit)
    BY <1>0, <1>1, NexthopIs
  <2>4. /\ first'[w] \in parents'[w]
        /\ \A exit : exit \in exits'[w] <=> \E p \in parents'[w] : Via(p, w, exit)'
    BY <1>4, <2>1, <2>2, <2>3
  <2> QED BY <1>0, <1>1, <1>3, <2>4 DEF ExitsFollow
<1>6. CASE EqualCostPath(w)
  <2>1. Known(w)
    BY <1>6 DEF EqualCostPath, Known
  <2>2. exits'[w] = exits[w] \cup NexthopExits(w, {}) /\ parents'[w] = parents[w] \cup {v}
    <3>1. parents \in [Ids -> SUBSET Ids] /\ exits \in [Ids -> SUBSET (Nat \X Int)]
      BY DEF TypeOK
    <3> QED BY <1>6, <3>1 DEF EqualCostPath
  <2>3. first'[w] \in {first[w], v}
    <3>1. first \in [Ids -> Ids]
      BY DEF TypeOK
    <3> QED BY <1>6, <3>1 DEF EqualCostPath
  <2>4. \A exit : exit \in NexthopExits(w, {}) <=> Via(v, w, exit)
    BY <1>0, <1>1, NexthopIs
  <2>5. /\ first[w] \in parents[w]
        /\ \A exit : exit \in exits[w] <=> \E p \in parents[w] : Via(p, w, exit)
    BY <1>1, <2>1 DEF ExitsFollow
  <2>6. \A p \in parents[w] : \A exit : Via(p, w, exit)' <=> Via(p, w, exit)
    <3>1. \A p \in parents[w] : p \in Ids \ {w}
      BY <1>0, <1>1, <2>1, ParentsInTree
    <3> QED BY <1>2, <3>1
  <2>7. /\ first'[w] \in parents'[w]
        /\ \A exit : exit \in exits'[w] <=> \E p \in parents'[w] : Via(p, w, exit)'
    BY <1>4, <2>2, <2>3, <2>4, <2>5, <2>6
  <2> QED BY <1>0, <1>1, <1>3, <2>7 DEF ExitsFollow
<1> QED BY <1>5, <1>6

(* Steps that change no vertex keep the exits.                             *)
LEMMA ExitsKept ==
    ASSUME Building, Exits, UNCHANGED <<net, lsdb, node, root, exits, parents, first>>,
           \A x \in Ids : Known(x)' => Known(x)
    PROVE  Exits'
<1> SUFFICES ASSUME Ordinary, Subnetted, PositiveMetrics PROVE ExitsFollow'
  BY ConditionsUnchanged DEF Exits
<1>1. ExitsFollow /\ Ids' = Ids
  BY GraphUnchanged DEF Exits
<1>2. \A p, x, exit : Via(p, x, exit)' <=> Via(p, x, exit)
  BY ViaUnchanged
<1> QED BY <1>1, <1>2 DEF ExitsFollow

(* Both invariants are inductive, given the others.                        *)
LEMMA RootInductive ==
    TypeOK /\ RootIsNode /\ [Next]_vars => RootIsNode'
<1> SUFFICES ASSUME TypeOK, RootIsNode, [Next]_vars PROVE RootIsNode'
  OBVIOUS
<1>0. UNCHANGED topology
  BY TopologyUnchanged
<1> USE DEF topology, vertices, walk
<1>1. CASE ~Building'
  BY <1>1 DEF RootIsNode
<1>2. CASE StartCalculation
  BY <1>2 DEF StartCalculation, RootIsNode
<1>3. CASE Building /\ UNCHANGED <<root, node>>
  BY <1>0, <1>3 DEF RootIsNode
<1>4. ASSUME NEW w \in Ids,
             NewCandidate(w) \/ EqualCostPath(w) \/ ShorterPath(w) \/ SkipInTree(w) \/ SkipLongerPath(w)
      PROVE  RootIsNode'
  <2>1. LeadsTo(w) /\ UNCHANGED <<root, node>>
    BY <1>4 DEF NewCandidate, EqualCostPath, ShorterPath, SkipInTree, SkipLongerPath, NextRecord
  <2> QED BY <1>3, <2>1 DEF LeadsTo, Examining, Building
<1>5. CASE AddToTree \/ SkipRecord \/ StartStubs \/ EnterChild \/ SkipChild \/ LeaveChild \/ NextExternal
  <2>1. Building /\ UNCHANGED <<root, node>>
    BY <1>5 DEF AddToTree, SkipRecord, StartStubs, EnterChild, SkipChild, LeaveChild, NextExternal,
                AtChild, AtEnd, Building, Examining, NextRecord
  <2> QED BY <1>3, <2>1
<1>6. CASE SkipNode \/ TruncateForStubNode \/ FinishRoutes \/ FinishCalculation \/ MissingLSA
           \/ \E w \in Ids : NexthopFails(w)
  BY <1>1, <1>6
     DEF SkipNode, TruncateForStubNode, FinishRoutes, FinishCalculation, MissingLSA,
         NexthopFails, Building
<1>7. CASE UNCHANGED vars
  <2>1. UNCHANGED <<root, node, pc>>
    BY <1>7 DEF vars
  <2> QED BY <1>1, <1>3, <2>1 DEF Building
<1> QED
  BY <1>2, <1>4, <1>5, <1>6, <1>7 DEF Next, Step, Stopped

(* The exits are those through the parents at every step.                  *)
LEMMA ExitsInductive ==
    TypeOK /\ Built /\ RootIsNode /\ QueueAgreesWithStatus /\ Dijkstra /\ Exits /\ [Next]_vars
        => Exits'
<1> SUFFICES ASSUME TypeOK, Built, RootIsNode, QueueAgreesWithStatus, Dijkstra, Exits, [Next]_vars
             PROVE  Exits'
  OBVIOUS
<1>0. UNCHANGED <<net, lsdb>> /\ Ids' = Ids
  BY TopologyUnchanged, GraphUnchanged DEF topology
<1> USE DEF topology, vertices, walk
<1>1. CASE ~Building'
  BY <1>1 DEF Exits
<1>2. CASE StartCalculation
  <2>1. \A x \in Ids \ {root'} : status'[x] = "NotExplored"
    BY <1>2 DEF StartCalculation, InitialStatus
  <2> QED BY <1>0, <2>1 DEF Exits, ExitsFollow, Known
<1>3. ASSUME NEW w \in Ids, NewCandidate(w) \/ EqualCostPath(w) \/ ShorterPath(w)
      PROVE  Exits'
  BY <1>3, ExitsCandidate
<1>4. CASE AddToTree
  <2>1. PICK w : w = Top(queue)
    OBVIOUS
  <2>2. /\ Building /\ w \in Ids /\ status[w] = "Candidate" /\ UNCHANGED root
        /\ \A x \in Ids \ {w} : status'[x] = status[x]
    BY <1>4, <2>1, AddToTreeFacts
  <2>3. UNCHANGED <<node, exits, parents, first>>
    BY <1>4 DEF AddToTree
  <2>4. \A x \in Ids : Known(x)' => Known(x)
    BY <2>2 DEF Known
  <2> QED BY <1>0, <2>2, <2>3, <2>4, ExitsKept
<1>5. CASE Building /\ UNCHANGED <<node, root, exits, parents, first, status>>
  BY <1>0, <1>5, ExitsKept DEF Known
<1>6. ASSUME NEW w \in Ids, SkipInTree(w) \/ SkipLongerPath(w) PROVE Exits'
  <2>1. LeadsTo(w) /\ UNCHANGED <<node, root, exits, parents, first, status>>
    BY <1>6 DEF SkipInTree, SkipLongerPath, NextRecord
  <2> QED BY <1>5, <2>1 DEF LeadsTo, Examining, Building
<1>7. CASE SkipRecord \/ StartStubs \/ EnterChild \/ SkipChild \/ LeaveChild \/ NextExternal
  <2>1. Building /\ UNCHANGED <<node, root, exits, parents, first, status>>
    BY <1>7 DEF SkipRecord, StartStubs, EnterChild, SkipChild, LeaveChild, NextExternal,
                AtChild, AtEnd, Building, Examining, NextRecord
  <2> QED BY <1>5, <2>1
<1>8. CASE SkipNode \/ TruncateForStubNode \/ FinishRoutes \/ FinishCalculation \/ MissingLSA
           \/ \E w \in Ids : NexthopFails(w)
  BY <1>1, <1>8
     DEF SkipNode, TruncateForStubNode, FinishRoutes, FinishCalculation, MissingLSA,
         NexthopFails, Building
<1>9. CASE UNCHANGED vars
  <2>1. UNCHANGED <<node, root, exits, parents, first, status, pc>>
    BY <1>9 DEF vars
  <2> QED BY <1>1, <1>5, <2>1 DEF Building
<1> QED
  BY <1>2, <1>3, <1>4, <1>6, <1>7, <1>8, <1>9 DEF Next, Step, Stopped

(* They hold throughout.                                                   *)
LEMMA ExitsHold == Spec => [](RootIsNode /\ Exits)
<1>1. Init => RootIsNode /\ Exits
  BY DEF Init, RootIsNode, Exits, Building
<1> QED
  BY <1>1, TypeCorrect, QueueAgrees, DijkstraHolds, DatabaseBuilt, RootInductive, ExitsInductive, PTL
     DEF Spec

-----------------------------------------------------------------------------
(***************************************************************************)
(* The finished tree.                                                      *)
(***************************************************************************)
Finished ==
    /\ TypeOK /\ Built /\ RootIsNode /\ Dijkstra /\ EqualCost /\ ExitsFollow
    /\ Ordinary /\ Subnetted /\ PositiveMetrics
    /\ pc = "walk"

(* The links of a router as edges.                                         *)
LEMMA LinkEdges ==
    ASSUME Built, Ordinary, NEW d \in Devices(net), d[1] \in net.routers
    PROVE  /\ LinksRouters(net, d) =>
                 \E f \in Edges : /\ f[1] = RouterId(net, d[1])
                                  /\ f[2] = RouterId(net, GetAdjacent(net, d)[1])
                                  /\ f[3] = Interface(net, d).metric
           /\ OnTransit(net, d) =>
                 \E f \in Edges : /\ f[1] = RouterId(net, d[1])
                                  /\ f[2] = FindDesignatedRouterForLink(net, d)
                                  /\ f[3] = Interface(net, d).metric
           /\ OnTransit(net, d) =>
                 \E f \in Edges : /\ f[1] = FindDesignatedRouterForLink(net, d)
                                  /\ f[2] = RouterId(net, d[1])
                                  /\ f[3] = 0
<1>0. WellFormedTopology(net)
  BY DEF Built
<1>1. ASSUME LinksRouters(net, d)
      PROVE  \E f \in Edges : /\ f[1] = RouterId(net, d[1])
                              /\ f[2] = RouterId(net, GetAdjacent(net, d)[1])
                              /\ f[3] = Interface(net, d).metric
  <2>1. PICK l \in Listed(RouterLSA(net, d[1]).links) : l = RouterRecord(net, d)
    BY <1>0, <1>1, RouterRecords
  <2>2. /\ l.type # "StubNetwork" /\ l.linkId = RouterId(net, GetAdjacent(net, d)[1])
        /\ l.metric = Interface(net, d).metric
    BY <2>1 DEF RouterRecord, LinkRecord
  <2>3. l.linkId \in Ids
    BY <1>1, <2>2, VertexFacts DEF LinksRouters
  <2>4. \E f \in Edges : f[1] = RouterId(net, d[1]) /\ f[2] = l.linkId /\ f[3] = l.metric
    BY <2>2, <2>3, EdgeFromRouter
  <2> QED BY <2>2, <2>4
<1>2. ASSUME OnTransit(net, d)
      PROVE  /\ \E f \in Edges : /\ f[1] = RouterId(net, d[1])
                                 /\ f[2] = FindDesignatedRouterForLink(net, d)
                                 /\ f[3] = Interface(net, d).metric
             /\ \E f \in Edges : /\ f[1] = FindDesignatedRouterForLink(net, d)
                                 /\ f[2] = RouterId(net, d[1])
                                 /\ f[3] = 0
  <2>1. PICK l \in Listed(RouterLSA(net, d[1]).links) : l = TransitRecord(net, d)
    BY <1>0, <1>2, RouterRecords
  <2>2. /\ l.type # "StubNetwork" /\ l.linkId = FindDesignatedRouterForLink(net, d)
        /\ l.metric = Interface(net, d).metric
    BY <2>1 DEF TransitRecord, LinkRecord
  <2>3. PICK x \in Devices(net) :
              /\ IsDesignated(net, x) /\ Interface(net, x).ch = Interface(net, d).ch
              /\ FindDesignatedRouterForLink(net, d) = Interface(net, x).addr
              /\ Interface(net, x).addr \in NetworkVertices
    BY <1>2, TransitFacts
  <2>4. l.linkId \in Ids
    BY <2>2, <2>3 DEF NetworkVertices
  <2>5. \E f \in Edges : f[1] = RouterId(net, d[1]) /\ f[2] = l.linkId /\ f[3] = l.metric
    BY <2>2, <2>4, EdgeFromRouter
  <2>6. UpRouterDevice(net, d)
    BY <1>2 DEF UpRouterDevice, OnTransit, Advertised
  <2>7. \E f \in Edges : f[1] = Interface(net, x).addr /\ f[2] = RouterId(net, d[1]) /\ f[3] = 0
    BY <1>2, <2>3, <2>6, EdgeFromNetwork
  <2> QED BY <2>2, <2>3, <2>5, <2>7
<1> QED BY <1>1, <1>2

(* What a hop from the root is: over the root's interface j to x.          *)
LEMMA HopFacts ==
    ASSUME Built, Ordinary, node \in net.routers,
           NEW j \in AdvertisedInterfaces(node), NEW x \in NeighbourDevices(node, j)
    PROVE  LET d == <<node, j>> IN
           /\ d \in Devices(net) /\ Interface(net, d) = net.ifs[node][j]
           /\ x \in Devices(net) /\ x[1] # node /\ x[1] \in net.routers
           /\ \/ /\ OnTransit(net, d) /\ OnTransit(net, x)
                 /\ FindDesignatedRouterForLink(net, d) = FindDesignatedRouterForLink(net, x)
              \/ LinksRouters(net, d) /\ x = GetAdjacent(net, d)
<1>0. WellFormedTopology(net)
  BY DEF Built
<1>1. j \in DOMAIN net.ifs[node] /\ node \in net.nodes
  BY <1>0 DEF AdvertisedInterfaces, WellFormedTopology
<1>2. PICK d \in Devices(net) : d = <<node, j>>
  BY <1>1, DeviceOf
<1>3. /\ Interface(net, d) = net.ifs[node][j] /\ Advertised(net, d) /\ d[1] = node
  BY <1>2 DEF Interface, AdvertisedInterfaces
<1>4. /\ x \in Devices(net) /\ x[1] # node /\ x[1] \in net.routers
      /\ Interface(net, x).ch = Interface(net, d).ch /\ Advertised(net, x) /\ x # d
  BY <1>3 DEF NeighbourDevices, OnChannel
<1>5. x \in OnChannel(net, Interface(net, d).ch) /\ d \in OnChannel(net, Interface(net, x).ch)
  BY <1>4 DEF OnChannel
<1>6. CASE net.kind[Interface(net, d).ch] = "lan"
  <2>1. OnTransit(net, d) /\ OnTransit(net, x)
    BY <1>3, <1>4, <1>5, <1>6 DEF OnTransit, AnotherRouterOnLink
  <2>2. FindDesignatedRouterForLink(net, d) = FindDesignatedRouterForLink(net, x)
    BY <1>4 DEF FindDesignatedRouterForLink
  <2> QED BY <1>2, <1>3, <1>4, <2>1, <2>2
<1>7. CASE net.kind[Interface(net, d).ch] = "p2p"
  <2>1. PICK e \in Devices(net) : e # d /\ OnChannel(net, Interface(net, d).ch) = {d, e}
    BY <1>0, <1>7 DEF WellFormedTopology
  <2>2. x = e
    BY <1>4, <1>5, <2>1
  <2>3. GetAdjacent(net, d) = x
    BY <2>1, <2>2 DEF GetAdjacent
  <2>4. LinksRouters(net, d)
    BY <1>3, <1>4, <1>7, <2>3 DEF LinksRouters, Advertised
  <2> QED BY <1>2, <1>3, <1>4, <2>3, <2>4
<1> QED BY <1>0, <1>6, <1>7, DeviceFacts

(* Every link in use between routers is a hop.                             *)
LEMMA HopOf ==
    ASSUME Built, Ordinary, NEW d \in Devices(net), d[1] = node, NEW x \in Devices(net),
           x[1] # node, x[1] \in net.routers, Interface(net, x).ch = Interface(net, d).ch,
           Advertised(net, d), Interface(net, x).up
    PROVE  /\ d[2] \in AdvertisedInterfaces(node) /\ x \in NeighbourDevices(node, d[2])
           /\ Interface(net, d) = net.ifs[node][d[2]]
<1>1. d = <<node, d[2]>> /\ d[2] \in DOMAIN net.ifs[node]
  BY DeviceFacts DEF Built
<1>2. Interface(net, d) = net.ifs[node][d[2]]
  BY DEF Interface
<1>3. Advertised(net, x)
  BY DEF Ordinary, Advertised
<1> QED BY <1>1, <1>2, <1>3 DEF AdvertisedInterfaces, NeighbourDevices, OnChannel

(* Distances in the finished tree: no edge leads out of it or makes it     *)
(* shorter, and an edge on a shortest way comes from a parent.             *)
LEMMA TreeClosed ==
    ASSUME Finished, NEW e \in Edges, e[1] \in InTree
    PROVE  /\ e[2] \in InTree /\ dist[e[2]] <= dist[e[1]] + e[3]
           /\ dist[e[1]] \in Nat /\ dist[e[2]] \in Nat /\ e[3] \in Nat
           /\ e[1] \notin NetworkVertices => e[3] > 0
           /\ e[2] # root /\ dist[e[2]] = dist[e[1]] + e[3] => e[1] \in parents[e[2]]
<1>0. Building /\ root \in Ids /\ IsFiniteSet(Ids) /\ dist \in [Ids -> Nat]
  BY RootIsRouter DEF Finished, Building, TypeOK, WellFormed, WellFormedDatabase, Ids
<1>1. Edges \in Graphs(Ids)
  BY EdgesAreGraph DEF Finished
<1>2. DistancesWithin(Edges, root)[Cardinality(Ids)] = [w \in InTree |-> dist[w]]
  BY WalkShortest DEF Finished, DistancesFrom
<1>3. e[2] \in InTree /\ dist[e[2]] <= dist[e[1]] + e[3]
  <2> DEFINE D == DistancesWithin(Edges, root)[Cardinality(Ids)]
  <2>1. e[1] \in DOMAIN D => e[2] \in DOMAIN D /\ D[e[2]] <= D[e[1]] + e[3]
    BY <1>0, <1>1, DistancesSettle
  <2> HIDE DEF D
  <2>2. D = [w \in InTree |-> dist[w]]
    BY <1>2 DEF D
  <2> QED BY <2>1, <2>2
<1>4. dist[e[1]] \in Nat /\ dist[e[2]] \in Nat /\ e[3] \in Nat
  BY <1>0, <1>1, <1>3 DEF Graphs, InTree
<1>5. ASSUME e[1] \notin NetworkVertices PROVE e[3] > 0
  <2>1. PICK u \in Ids : \E k, w : Edge(u, k, w) /\ e = <<u, w, Cost(u, k)>>
    BY EdgesAreRecords
  <2>2. PICK k, w : Edge(u, k, w) /\ e = <<u, w, Cost(u, k)>>
    BY <2>1
  <2>3. e[1] = u /\ e[3] = Cost(u, k)
    BY <2>2
  <2> QED BY <1>5, <2>2, <2>3 DEF Edge, Finished, PositiveMetrics
<1>6. ASSUME e[2] # root, dist[e[2]] = dist[e[1]] + e[3] PROVE e[1] \in parents[e[2]]
  <2>1. parents[e[2]] = {f[1] : f \in {g \in Edges :
            g[2] = e[2] /\ g[1] \in InTree /\ dist[g[1]] + g[3] = dist[e[2]]}}
    BY <1>3, <1>6, WalkParents DEF Finished
  <2> QED BY <1>6, <2>1
<1> QED BY <1>3, <1>4, <1>5, <1>6

(* A parent has an edge on a shortest way.                                 *)
LEMMA ParentEdge ==
    ASSUME Finished, NEW w \in InTree \ {root}, NEW p \in parents[w]
    PROVE  \E e \in Edges : /\ e[1] = p /\ e[2] = w /\ p \in InTree
                            /\ dist[p] + e[3] = dist[w]
<1>1. parents[w] = {f[1] : f \in {g \in Edges :
            g[2] = w /\ g[1] \in InTree /\ dist[g[1]] + g[3] = dist[w]}}
  BY WalkParents DEF Finished
<1> QED BY <1>1

(* Distances from the neighbour that a hop leads to.                       *)
LEMMA DistancesFromFacts ==
    ASSUME Finished, NEW y \in InTree
    PROVE  LET E == DistancesFrom(y) IN
           /\ y \in DOMAIN E /\ E[y] = 0
           /\ \A w \in DOMAIN E : /\ w \in InTree /\ E[w] \in Nat /\ dist[w] \in Nat
                                  /\ dist[w] <= dist[y] + E[w]
           /\ \A e \in Edges : e[1] \in DOMAIN E => e[2] \in DOMAIN E /\ E[e[2]] <= E[e[1]] + e[3]
           /\ \A w \in DOMAIN E \ {y} : \E e \in Edges :
                 e[1] \in DOMAIN E /\ e[2] = w /\ E[w] = E[e[1]] + e[3]
<1>0. root \in Ids /\ IsFiniteSet(Ids) /\ dist \in [Ids -> Nat] /\ y \in Ids /\ InTree \subseteq Ids
  BY RootIsRouter DEF Finished, Building, TypeOK, WellFormed, WellFormedDatabase, Ids, InTree
<1>1. Edges \in Graphs(Ids)
  BY EdgesAreGraph DEF Finished
<1>2. DistancesWithin(Edges, root)[Cardinality(Ids)] = [w \in InTree |-> dist[w]]
  BY WalkShortest DEF Finished, DistancesFrom
<1> DEFINE E == DistancesWithin(Edges, y)[Cardinality(Ids)]
           D == DistancesWithin(Edges, root)[Cardinality(Ids)]
<1>3. /\ E \in DistancesOf(Ids) /\ y \in DOMAIN E /\ E[y] = 0
      /\ \A e \in Edges : e[1] \in DOMAIN E => e[2] \in DOMAIN E /\ E[e[2]] <= E[e[1]] + e[3]
      /\ \A w \in DOMAIN E \ {y} : \E e \in Edges :
            e[1] \in DOMAIN E /\ e[2] = w /\ E[w] = E[e[1]] + e[3]
  BY <1>0, <1>1, DistancesSettle
<1>4. ASSUME NEW w \in DOMAIN E
      PROVE  w \in InTree /\ E[w] \in Nat /\ dist[w] \in Nat /\ dist[w] <= dist[y] + E[w]
  <2>1. y \in DOMAIN D
    BY <1>2
  <2>2. w \in DOMAIN D /\ D[w] <= D[y] + E[w]
    BY <1>0, <1>1, <2>1, DistancesTriangle
  <2>3. E[w] \in Nat
    BY <1>3, DistancesOfIs
  <2> HIDE DEF D, E
  <2>4. D = [x \in InTree |-> dist[x]]
    BY <1>2 DEF D
  <2> QED BY <1>0, <2>2, <2>3, <2>4
<1>5. E = DistancesFrom(y)
  BY DEF DistancesFrom
<1> HIDE DEF E
<1> QED BY <1>3, <1>4, <1>5

(***************************************************************************)
(* A first hop: over the root's device d to the neighbouring device x.  It *)
(* starts a shortest path to w when what is left from there is as long as  *)
(* it should be.                                                           *)
(***************************************************************************)
Hop(d, x) ==
    /\ d \in Devices(net) /\ d[1] = node
    /\ x \in Devices(net) /\ x[1] # node /\ x[1] \in net.routers
    /\ \/ /\ OnTransit(net, d) /\ OnTransit(net, x)
          /\ FindDesignatedRouterForLink(net, d) = FindDesignatedRouterForLink(net, x)
       \/ LinksRouters(net, d) /\ x = GetAdjacent(net, d)

Starts(d, x, w) ==
    LET D == DistancesFrom(RouterId(net, x[1]))
    IN  w \in DOMAIN D /\ Interface(net, d).metric + D[w] = dist[w]

HopTo(w, exit) ==
    \E d, x \in Devices(net) :
        Hop(d, x) /\ Starts(d, x, w) /\ exit = <<Interface(net, x).addr, d[2]>>

(* Over no router: w is the network of one of the root's interfaces.       *)
Direct(w, exit) == w \in NetworkVertices /\ root \in parents[w] /\ FromRoot(w, exit)

(* The root of a finished tree.                                            *)
LEMMA FinishedRoot ==
    ASSUME Finished
    PROVE  /\ Building /\ Exploring /\ node \in net.routers /\ root = RouterId(net, node)
           /\ root \in InTree /\ dist[root] = 0 /\ root \notin NetworkVertices
           /\ InTree \subseteq Ids /\ dist \in [Ids -> Nat]
           /\ \A n \in net.routers : RouterId(net, n) = root => n = node
<1>1. Building
  BY DEF Finished, Building
<1>2. Exploring
  BY <1>1 DEF Finished, Exploring
<1>3. Progress /\ dist \in [Ids -> Nat]
  BY <1>1 DEF Finished, Dijkstra, TypeOK
<1> QED BY <1>1, <1>2, <1>3, RootIsRouter DEF Finished, Progress, InTree

(* FirstHops are those of hops that start a shortest path.                 *)
LEMMA FirstHopsAre ==
    ASSUME Finished, NEW w, NEW exit
    PROVE  exit \in FirstHops([r \in RouterIds(net) |-> DistancesFrom(r)], w) <=> HopTo(w, exit)
<1> DEFINE D == [r \in RouterIds(net) |-> DistancesFrom(r)]
           H(j) == {<<Interface(net, x).addr, j>> :
                x \in {y \in NeighbourDevices(node, j) :
                    LET distances == D[RouterId(net, y[1])] IN
                    /\ w \in DOMAIN distances
                    /\ net.ifs[node][j].metric + distances[w] = dist[w]}}
<1>0. /\ Built /\ Ordinary /\ WellFormedTopology(net) /\ node \in net.routers
  BY FinishedRoot DEF Finished, Built
<1>1. FirstHops(D, w) = UNION {H(j) : j \in AdvertisedInterfaces(node)}
  BY DEF FirstHops
<1>2. \A n \in net.routers : D[RouterId(net, n)] = DistancesFrom(RouterId(net, n))
  BY DEF RouterIds
<1>3. ASSUME NEW j \in AdvertisedInterfaces(node), exit \in H(j) PROVE HopTo(w, exit)
  <2>1. PICK x \in NeighbourDevices(node, j) :
            /\ exit = <<Interface(net, x).addr, j>>
            /\ w \in DOMAIN D[RouterId(net, x[1])]
            /\ net.ifs[node][j].metric + D[RouterId(net, x[1])][w] = dist[w]
    BY <1>3
  <2> HIDE DEF D, H
  <2>2. PICK d : d = <<node, j>>
    OBVIOUS
  <2>3. /\ d \in Devices(net) /\ Interface(net, d) = net.ifs[node][j]
        /\ x \in Devices(net) /\ x[1] # node /\ x[1] \in net.routers
        /\ \/ /\ OnTransit(net, d) /\ OnTransit(net, x)
              /\ FindDesignatedRouterForLink(net, d) = FindDesignatedRouterForLink(net, x)
           \/ LinksRouters(net, d) /\ x = GetAdjacent(net, d)
    BY <1>0, <2>2, HopFacts
  <2>4. d[1] = node /\ d[2] = j
    BY <2>2
  <2>5. Hop(d, x)
    BY <2>3, <2>4 DEF Hop
  <2>6. Starts(d, x, w)
    BY <1>2, <2>1, <2>3 DEF Starts
  <2> QED BY <2>1, <2>3, <2>4, <2>5, <2>6 DEF HopTo
<1>4. ASSUME HopTo(w, exit) PROVE \E j \in AdvertisedInterfaces(node) : exit \in H(j)
  <2>1. PICK d, x \in Devices(net) :
            Hop(d, x) /\ Starts(d, x, w) /\ exit = <<Interface(net, x).addr, d[2]>>
    BY <1>4 DEF HopTo
  <2>2. Interface(net, x).ch = Interface(net, d).ch /\ Advertised(net, d) /\ Interface(net, x).up
    <3>1. CASE OnTransit(net, d)
      <4>1. /\ OnTransit(net, x) /\ d[1] = node /\ x[1] \in net.routers
            /\ FindDesignatedRouterForLink(net, d) = FindDesignatedRouterForLink(net, x)
        BY <2>1, <3>1 DEF Hop, OnTransit, LinksRouters
      <4> QED BY <1>0, <3>1, <4>1, SameNetwork DEF OnTransit, Advertised
    <3>2. CASE LinksRouters(net, d)
      <4>1. x = GetAdjacent(net, d)
        BY <2>1, <3>2 DEF Hop, OnTransit, LinksRouters
      <4> QED BY <1>0, <3>2, <4>1, AdjacentFacts DEF LinksRouters
    <3> QED BY <2>1, <3>1, <3>2 DEF Hop
  <2>3. /\ d[2] \in AdvertisedInterfaces(node) /\ x \in NeighbourDevices(node, d[2])
        /\ Interface(net, d) = net.ifs[node][d[2]] /\ x[1] \in net.routers
    BY <1>0, <2>1, <2>2, HopOf DEF Hop
  <2>4. /\ w \in DOMAIN D[RouterId(net, x[1])]
        /\ net.ifs[node][d[2]].metric + D[RouterId(net, x[1])][w] = dist[w]
    BY <1>2, <2>1, <2>3 DEF Starts
  <2>5. exit \in H(d[2])
    BY <2>1, <2>3, <2>4
  <2> HIDE DEF H
  <2> QED BY <2>3, <2>5
<1> HIDE DEF H
<1> QED BY <1>1, <1>3, <1>4

(* DirectExits are those of networks next to the root.                     *)
LEMMA DirectExitsAre ==
    ASSUME Finished, NEW w \in InTree \ {root}, NEW exit
    PROVE  exit \in DirectExits(w) <=> Direct(w, exit)
<1>0. /\ Built /\ Ordinary /\ Subnetted /\ WellFormedTopology(net) /\ node \in net.routers
      /\ root = RouterId(net, node) /\ root \in InTree /\ dist[root] = 0 /\ w \in Ids
      /\ node \in net.nodes
  BY FinishedRoot DEF Finished, Built, WellFormedTopology
<1>1. ASSUME exit \in DirectExits(w) PROVE Direct(w, exit)
  <2>1. PICK j \in AdvertisedInterfaces(node) :
            /\ exit = <<ZeroAddress, j>> /\ w \in NetworkVertices
            /\ IsMatch(SubnetMask, net.ifs[node][j].addr, w)
            /\ net.ifs[node][j].metric = dist[w]
    BY <1>1 DEF DirectExits
  <2>2. PICK d \in Devices(net) : d = <<node, j>>
    BY <1>0, <2>1, DeviceOf DEF AdvertisedInterfaces
  <2>3. d[1] = node /\ d[2] = j /\ Interface(net, d) = net.ifs[node][j] /\ Advertised(net, d)
    BY <2>2 DEF Interface, AdvertisedInterfaces
  <2>4. PICK x \in Devices(net) : IsDesignated(net, x) /\ w = Interface(net, x).addr
    <3>1. \A n \in net.routers : w # RouterId(net, n)
      BY <1>0, <2>1, VertexFacts
    <3> QED BY <1>0, <3>1, VertexFacts
  <2>5. Interface(net, d).ch = Interface(net, x).ch
    BY <1>0, <2>1, <2>3, <2>4 DEF Subnetted
  <2>6. /\ x[1] \in net.routers /\ OnTransit(net, x)
        /\ FindDesignatedRouterForLink(net, x) = w
    BY <2>4 DEF IsDesignated
  <2>7. FindDesignatedRouterForLink(net, d) = w
    BY <2>5, <2>6 DEF FindDesignatedRouterForLink
  <2>8. OnTransit(net, d)
    <3>1. CASE x = d
      BY <2>6, <3>1
    <3>2. CASE x # d
      <4>1. x \in OnChannel(net, Interface(net, d).ch)
        BY <2>5 DEF OnChannel
      <4> QED BY <2>3, <2>5, <2>6, <3>2, <4>1 DEF OnTransit, AnotherRouterOnLink
    <3> QED BY <3>1, <3>2
  <2>9. FromRoot(w, exit)
    BY <2>1, <2>3, <2>7, <2>8 DEF FromRoot
  <2>10. PICK f \in Edges : f[1] = root /\ f[2] = w /\ f[3] = dist[w]
    BY <1>0, <2>1, <2>3, <2>7, <2>8, LinkEdges
  <2>11. f[3] \in Nat /\ (dist[w] = dist[root] + f[3] => root \in parents[w])
    BY <1>0, <2>10, TreeClosed
  <2>12. root \in parents[w]
    BY <1>0, <2>10, <2>11
  <2> QED BY <2>1, <2>9, <2>12 DEF Direct
<1>2. ASSUME Direct(w, exit) PROVE exit \in DirectExits(w)
  <2>1. w \in NetworkVertices /\ root \in parents[w]
    BY <1>2 DEF Direct
  <2>2. PICK d \in Devices(net) :
            /\ d[1] = node /\ OnTransit(net, d) /\ w = FindDesignatedRouterForLink(net, d)
            /\ exit = <<ZeroAddress, d[2]>>
    <3>1. \A n \in net.routers : w # RouterId(net, n)
      BY <1>0, <2>1, VertexFacts
    <3> QED BY <1>2, <3>1 DEF Direct, FromRoot, LinksRouters
  <2>3. PICK x \in Devices(net) : /\ Interface(net, x).ch = Interface(net, d).ch
                                  /\ w = Interface(net, x).addr
    BY <1>0, <2>2, TransitFacts
  <2>4. d[2] \in AdvertisedInterfaces(node) /\ Interface(net, d) = net.ifs[node][d[2]]
    <3>1. d = <<node, d[2]>> /\ d[2] \in DOMAIN net.ifs[node]
      BY <1>0, <2>2, DeviceFacts
    <3> QED BY <2>2, <3>1 DEF Interface, AdvertisedInterfaces, OnTransit
  <2>5. IsMatch(SubnetMask, net.ifs[node][d[2]].addr, w)
    BY <1>0, <2>3, <2>4 DEF Subnetted
  <2>6. net.ifs[node][d[2]].metric = dist[w]
    <3>1. PICK e \in Edges : e[1] = root /\ e[2] = w /\ dist[root] + e[3] = dist[w]
      BY <2>1, ParentEdge
    <3>2. PICK c \in Devices(net) :
              /\ c[1] \in net.routers /\ OnTransit(net, c) /\ e[1] = RouterId(net, c[1])
              /\ e[2] = FindDesignatedRouterForLink(net, c) /\ e[3] = Interface(net, c).metric
      BY <1>0, <2>1, <3>1, IntoNetwork
    <3>3. Interface(net, c).metric = Interface(net, d).metric
      <4>1. FindDesignatedRouterForLink(net, c) = FindDesignatedRouterForLink(net, d)
        BY <2>2, <3>1, <3>2
      <4>2. d[1] \in net.routers
        BY <1>0, <2>2
      <4> QED BY <1>0, <2>2, <3>2, <4>1, <4>2, SameNetwork
    <3>4. e[3] \in Nat
      BY <1>0, <3>1, TreeClosed
    <3> QED BY <1>0, <2>4, <3>1, <3>2, <3>3, <3>4
  <2> QED BY <2>1, <2>2, <2>4, <2>5, <2>6 DEF DirectExits
<1> QED BY <1>1, <1>2

(* The edges out of a network cost nothing and lead to routers.            *)
LEMMA OutOfNetwork ==
    ASSUME Built, NEW e \in Edges, e[1] \in NetworkVertices
    PROVE  e[3] = 0 /\ e[2] \notin NetworkVertices
<1>1. ASSUME NEW d \in Devices(net), d[1] \in net.routers, e[1] = RouterId(net, d[1]) PROVE FALSE
  BY <1>1, VertexFacts
<1>2. PICK x, d \in Devices(net) : NetworkEdge(x, d, e)
  BY <1>1, EdgeComesFrom DEF RouterEdge, TransitEdge
<1>3. e[3] = 0 /\ d[1] \in net.routers /\ e[2] = RouterId(net, d[1])
  BY <1>2 DEF NetworkEdge
<1> QED BY <1>3, VertexFacts

(* The edges out of the root cost what the root's interfaces do.           *)
LEMMA OutOfRoot ==
    ASSUME Finished, NEW e \in Edges, e[1] = root, NEW d \in Devices(net), d[1] = node,
           \/ OnTransit(net, d) /\ e[2] = FindDesignatedRouterForLink(net, d)
           \/ LinksRouters(net, d) /\ e[2] = RouterId(net, GetAdjacent(net, d)[1])
    PROVE  e[3] = Interface(net, d).metric
<1>0. /\ Built /\ Ordinary /\ WellFormedTopology(net) /\ node \in net.routers
      /\ root = RouterId(net, node) /\ root \notin NetworkVertices
      /\ \A n \in net.routers : RouterId(net, n) = root => n = node
  BY FinishedRoot DEF Finished, Built
<1>1. CASE OnTransit(net, d) /\ e[2] = FindDesignatedRouterForLink(net, d)
  <2>1. e[2] \in NetworkVertices
    BY <1>0, <1>1, TransitFacts
  <2>2. PICK c \in Devices(net) :
              /\ c[1] \in net.routers /\ OnTransit(net, c) /\ e[1] = RouterId(net, c[1])
              /\ e[2] = FindDesignatedRouterForLink(net, c) /\ e[3] = Interface(net, c).metric
    BY <1>0, <2>1, IntoNetwork
  <2>3. FindDesignatedRouterForLink(net, c) = FindDesignatedRouterForLink(net, d)
    BY <1>1, <2>2
  <2> QED BY <1>0, <1>1, <2>2, <2>3, SameNetwork
<1>2. CASE LinksRouters(net, d) /\ e[2] = RouterId(net, GetAdjacent(net, d)[1])
  <2>1. e[2] \notin NetworkVertices
    BY <1>0, <1>2, VertexFacts DEF LinksRouters
  <2>2. ASSUME NEW c \in Devices(net), TransitEdge(c, e) PROVE FALSE
    <3>1. /\ c[1] \in net.routers /\ OnTransit(net, c)
          /\ e[2] = FindDesignatedRouterForLink(net, c)
      BY <2>2 DEF TransitEdge
    <3> QED BY <1>0, <2>1, <3>1, TransitFacts
  <2>3. ASSUME NEW x \in Devices(net), NEW c \in Devices(net), NetworkEdge(x, c, e) PROVE FALSE
    <3>1. IsDesignated(net, x) /\ e[1] = Interface(net, x).addr
      BY <2>3 DEF NetworkEdge
    <3> QED BY <1>0, <3>1, VertexFacts
  <2>4. PICK c \in Devices(net) : RouterEdge(c, e)
    BY <1>0, <2>2, <2>3, EdgeComesFrom
  <2>5. /\ c[1] \in net.routers /\ LinksRouters(net, c) /\ e[1] = RouterId(net, c[1])
        /\ e[2] = RouterId(net, GetAdjacent(net, c)[1]) /\ e[3] = Interface(net, c).metric
    BY <2>4 DEF RouterEdge
  <2>6. c[1] = node
    BY <1>0, <2>5
  <2>7. GetAdjacent(net, c)[1] = GetAdjacent(net, d)[1]
    BY <1>0, <1>2, <2>5, RouterIdFacts DEF LinksRouters
  <2>8. {net.kind[Interface(net, c).ch], net.kind[Interface(net, d).ch]} = {"p2p"}
    BY <1>2, <2>5 DEF LinksRouters
  <2>9. c = d
    BY <1>0, <2>6, <2>7, <2>8 DEF Ordinary
  <2> QED BY <2>5, <2>9
<1> QED BY <1>1, <1>2

(* The neighbour a hop leads to is in the tree, no farther than the link;  *)
(* at exactly this distance the hop is one of its exits through a parent.  *)
LEMMA HopReaches ==
    ASSUME Finished, NEW d \in Devices(net), NEW x \in Devices(net), Hop(d, x)
    PROVE  LET y == RouterId(net, x[1])
               m == Interface(net, d).metric
           IN  /\ y \in InTree \ {root} /\ m \in Nat /\ 0 < m
               /\ dist[y] \in Nat /\ dist[y] <= m
               /\ dist[y] = m => \E p \in parents[y] :
                                    Via(p, y, <<Interface(net, x).addr, d[2]>>)
<1> DEFINE y == RouterId(net, x[1])
           m == Interface(net, d).metric
           q == FindDesignatedRouterForLink(net, d)
           exit == <<Interface(net, x).addr, d[2]>>
<1>0. /\ Built /\ Ordinary /\ WellFormedTopology(net) /\ node \in net.routers
      /\ root = RouterId(net, node) /\ root \in InTree /\ dist[root] = 0
      /\ root \notin NetworkVertices
      /\ \A n \in net.routers : RouterId(net, n) = root => n = node
  BY FinishedRoot DEF Finished, Built
<1>1. d[1] = node /\ x[1] # node /\ x[1] \in net.routers
  BY DEF Hop
<1>2. y # root
  BY <1>0, <1>1
<1>3. m \in Nat
  BY <1>0, DeviceFacts
<1>4. CASE LinksRouters(net, d) /\ x = GetAdjacent(net, d)
  <2>1. PICK e \in Edges : e[1] = root /\ e[2] = y /\ e[3] = m
    BY <1>0, <1>1, <1>4, LinkEdges
  <2>2. /\ y \in InTree /\ dist[y] <= dist[root] + m /\ dist[y] \in Nat /\ m > 0
        /\ dist[y] = dist[root] + m => root \in parents[y]
    <3> HIDE DEF y, m
    <3> QED BY <1>0, <1>2, <2>1, TreeClosed
  <2>3. FromRoot(y, exit)
    BY <1>1, <1>4 DEF FromRoot
  <2>4. Via(root, y, exit)
    BY <2>3 DEF Via
  <2> HIDE DEF y, m, exit
  <2>5. dist[y] <= m /\ 0 < m /\ (dist[y] = m => root \in parents[y])
    BY <1>0, <1>3, <2>2
  <2>6. dist[y] = m => \E p \in parents[y] : Via(p, y, exit)
    BY <2>4, <2>5
  <2> QED BY <1>2, <1>3, <2>2, <2>5, <2>6 DEF y, m, exit
<1>5. CASE OnTransit(net, d) /\ OnTransit(net, x) /\ q = FindDesignatedRouterForLink(net, x)
  <2>0. q \in NetworkVertices /\ q # root
    BY <1>0, <1>1, <1>5, TransitFacts
  <2>1. PICK e \in Edges : e[1] = root /\ e[2] = q /\ e[3] = m
    BY <1>0, <1>1, <1>5, LinkEdges
  <2>2. PICK f \in Edges : f[1] = q /\ f[2] = y /\ f[3] = 0
    BY <1>0, <1>1, <1>5, LinkEdges
  <2>3. Across(q, y, exit)
    BY <1>1, <1>5 DEF Across
  <2> HIDE DEF y, m, q, exit
  <2>4. /\ q \in InTree /\ dist[q] <= dist[root] + m /\ dist[q] \in Nat /\ m > 0
        /\ dist[q] = dist[root] + m => root \in parents[q]
    BY <1>0, <2>0, <2>1, TreeClosed
  <2>5. /\ y \in InTree /\ dist[y] <= dist[q] + 0 /\ dist[y] \in Nat
        /\ dist[y] = dist[q] + 0 => q \in parents[y]
    BY <1>2, <2>2, <2>4, TreeClosed
  <2>6. /\ dist[y] <= m /\ 0 < m
        /\ dist[y] = m => dist[q] = dist[root] + m /\ dist[y] = dist[q] + 0
    BY <1>0, <1>3, <2>4, <2>5
  <2>7. dist[y] = m => \E p \in parents[y] : Via(p, y, exit)
    BY <2>0, <2>3, <2>4, <2>5, <2>6 DEF Via
  <2> QED BY <1>2, <1>3, <2>5, <2>6, <2>7 DEF y, m, exit
<1> QED BY <1>4, <1>5 DEF Hop

(* A hop that starts a shortest path to a parent starts one to the child.  *)
LEMMA StartsInherit ==
    ASSUME Finished, NEW d \in Devices(net), NEW x \in Devices(net), Hop(d, x),
           NEW w \in InTree \ {root}, NEW p \in parents[w], Starts(d, x, p)
    PROVE  Starts(d, x, w)
<1> DEFINE y == RouterId(net, x[1])
           m == Interface(net, d).metric
           D == DistancesFrom(y)
<1>1. y \in InTree /\ m \in Nat /\ dist[y] \in Nat /\ dist[y] <= m
  BY HopReaches
<1>2. p \in DOMAIN D /\ m + D[p] = dist[p]
  BY DEF Starts
<1>3. PICK e \in Edges : e[1] = p /\ e[2] = w /\ p \in InTree /\ dist[p] + e[3] = dist[w]
  BY ParentEdge
<1>4. e[3] \in Nat
  BY <1>3, TreeClosed
<1>5. /\ w \in DOMAIN D /\ D[w] <= D[p] + e[3]
      /\ \A u \in DOMAIN D : D[u] \in Nat /\ dist[u] \in Nat /\ dist[u] <= dist[y] + D[u]
  BY <1>1, <1>2, <1>3, DistancesFromFacts
<1>6. /\ D[w] \in Nat /\ dist[w] \in Nat /\ dist[w] <= dist[y] + D[w]
      /\ D[p] \in Nat /\ dist[p] \in Nat
  BY <1>2, <1>5
<1> HIDE DEF y, m, D
<1>7. m + D[w] = dist[w]
  BY <1>1, <1>2, <1>3, <1>4, <1>5, <1>6
<1> QED BY <1>5, <1>7 DEF y, m, D, Starts

(* A hop that starts a shortest path to a vertex that it does not lead to  *)
(* starts one to a parent, and this is not the root.                       *)
LEMMA StartsBefore ==
    ASSUME Finished, NEW d \in Devices(net), NEW x \in Devices(net), Hop(d, x),
           NEW w \in InTree \ {root}, Starts(d, x, w), w # RouterId(net, x[1])
    PROVE  \E p \in parents[w] : p # root /\ p \in InTree /\ Starts(d, x, p)
<1> DEFINE y == RouterId(net, x[1])
           m == Interface(net, d).metric
           D == DistancesFrom(y)
<1>0. dist[root] = 0
  BY FinishedRoot
<1>1. y \in InTree /\ m \in Nat /\ 0 < m /\ dist[y] \in Nat /\ dist[y] <= m
  BY HopReaches
<1>2. w \in DOMAIN D /\ m + D[w] = dist[w]
  BY DEF Starts
<1>3. /\ \A u \in DOMAIN D : /\ u \in InTree /\ D[u] \in Nat /\ dist[u] \in Nat
                             /\ dist[u] <= dist[y] + D[u]
      /\ \A u \in DOMAIN D \ {y} : \E e \in Edges :
                 e[1] \in DOMAIN D /\ e[2] = u /\ D[u] = D[e[1]] + e[3]
  BY <1>1, DistancesFromFacts
<1> HIDE DEF D, m
<1>4. PICK e \in Edges : e[1] \in DOMAIN D /\ e[2] = w /\ D[w] = D[e[1]] + e[3]
  BY <1>2, <1>3
<1> HIDE DEF y
<1>5. PICK p : p = e[1]
  OBVIOUS
<1>6. p \in InTree /\ D[p] \in Nat /\ dist[p] \in Nat /\ dist[p] <= dist[y] + D[p]
  BY <1>3, <1>4, <1>5
<1>7. /\ dist[w] <= dist[p] + e[3] /\ e[3] \in Nat /\ dist[w] \in Nat
      /\ dist[w] = dist[p] + e[3] => p \in parents[w]
  BY <1>4, <1>5, <1>6, TreeClosed
<1>8. dist[p] = m + D[p] /\ dist[w] = dist[p] + e[3]
  BY <1>1, <1>2, <1>4, <1>5, <1>6, <1>7
<1>9. p # root
  BY <1>0, <1>1, <1>6, <1>8
<1>10. Starts(d, x, p)
  BY <1>4, <1>5, <1>8 DEF Starts, D, m, y
<1> QED BY <1>6, <1>7, <1>8, <1>9, <1>10

(* No hop starts a shortest path to a network next to the root.            *)
LEMMA NextToRoot ==
    ASSUME Finished, NEW d \in Devices(net), NEW x \in Devices(net), Hop(d, x),
           NEW w \in InTree \ {root}, w \in NetworkVertices, root \in parents[w]
    PROVE  ~Starts(d, x, w)
<1> SUFFICES ASSUME Starts(d, x, w) PROVE FALSE
  OBVIOUS
<1>1. Exploring /\ Building /\ w \in Ids /\ Known(w)
  BY FinishedRoot DEF InTree, Known
<1>2. parents[w] = {root}
  BY <1>1, OneParent DEF Exploring
<1>3. x[1] \in net.routers /\ Built
  BY DEF Hop, Finished
<1>4. w # RouterId(net, x[1])
  BY <1>3, VertexFacts
<1> QED BY <1>2, <1>4, StartsBefore

(* Before: nearer to the root, or the network that leads to a router.      *)
Depth(w) == 2 * dist[w] + IF w \in NetworkVertices THEN 0 ELSE 1

(* The parents of a vertex rank before it.                                 *)
LEMMA ParentsRankBefore ==
    ASSUME Finished, NEW w \in InTree \ {root}, NEW p \in parents[w]
    PROVE  p \in InTree /\ Depth(p) \in Nat /\ Depth(w) \in Nat /\ Depth(p) < Depth(w)
<1>0. Built
  BY DEF Finished
<1>1. PICK e \in Edges : e[1] = p /\ e[2] = w /\ p \in InTree /\ dist[p] + e[3] = dist[w]
  BY ParentEdge
<1>2. dist[p] \in Nat /\ dist[w] \in Nat /\ e[3] \in Nat /\ (p \notin NetworkVertices => e[3] > 0)
  BY <1>1, TreeClosed
<1>3. p \in NetworkVertices => e[3] = 0 /\ w \notin NetworkVertices
  BY <1>0, <1>1, OutOfNetwork
<1> QED BY <1>1, <1>2, <1>3 DEF Depth

(* An exit through a parent is a first hop or direct.                      *)
LEMMA ViaParentIs ==
    ASSUME Finished, NEW w \in InTree \ {root}, NEW p \in parents[w], NEW exit,
           Via(p, w, exit),
           p # root => (exit \in exits[p] => Direct(p, exit) \/ HopTo(p, exit))
    PROVE  Direct(w, exit) \/ HopTo(w, exit)
<1>0. /\ Built /\ Ordinary /\ WellFormedTopology(net) /\ node \in net.routers
      /\ root = RouterId(net, node) /\ root \in InTree /\ dist[root] = 0
      /\ root \notin NetworkVertices
  BY FinishedRoot DEF Finished, Built
<1>1. PICK e \in Edges : e[1] = p /\ e[2] = w /\ p \in InTree /\ dist[p] + e[3] = dist[w]
  BY ParentEdge
<1>2. dist[p] \in Nat /\ dist[w] \in Nat /\ e[3] \in Nat
  BY <1>1, TreeClosed
<1>3. ASSUME NEW d \in Devices(net), NEW x \in Devices(net), Hop(d, x),
             w = RouterId(net, x[1]), dist[w] = Interface(net, d).metric,
             exit = <<Interface(net, x).addr, d[2]>>
      PROVE  HopTo(w, exit)
  <2>1. w \in DOMAIN DistancesFrom(w) /\ DistancesFrom(w)[w] = 0
    BY DistancesFromFacts
  <2>2. Starts(d, x, w)
    BY <1>2, <1>3, <2>1 DEF Starts
  <2> QED BY <1>3, <2>2 DEF HopTo
<1>4. CASE p = root
  <2>1. FromRoot(w, exit)
    BY <1>4 DEF Via
  <2>2. CASE w \in NetworkVertices
    BY <1>4, <2>1, <2>2 DEF Direct
  <2>3. CASE w \notin NetworkVertices
    <3>1. ASSUME NEW d \in Devices(net), d[1] = node, OnTransit(net, d) 
          PROVE  w # FindDesignatedRouterForLink(net, d)
      BY <1>0, <2>3, <3>1, TransitFacts
    <3>2. PICK d \in Devices(net) :
              /\ d[1] = node /\ LinksRouters(net, d) /\ w = RouterId(net, GetAdjacent(net, d)[1])
              /\ exit = <<Interface(net, GetAdjacent(net, d)).addr, d[2]>>
      BY <2>1, <3>1 DEF FromRoot
    <3>3. PICK x \in Devices(net) : x = GetAdjacent(net, d)
      BY <1>0, <3>2, AdjacentFacts DEF LinksRouters
    <3>4. x[1] \in net.routers /\ x[1] # node
      BY <1>0, <3>2, <3>3 DEF LinksRouters
    <3>5. Hop(d, x)
      BY <3>2, <3>3, <3>4 DEF Hop
    <3>6. e[3] = Interface(net, d).metric
      BY <1>1, <1>4, <3>2, OutOfRoot
    <3>7. dist[w] = Interface(net, d).metric
      BY <1>0, <1>1, <1>2, <1>4, <3>6
    <3> QED BY <1>3, <3>2, <3>3, <3>5, <3>7
  <2> QED BY <2>2, <2>3
<1>5. CASE p # root /\ p \in NetworkVertices /\ root \in parents[p]
  <2>1. Across(p, w, exit)
    BY <1>5 DEF Via
  <2>2. PICK d, x \in Devices(net) :
            /\ d[1] = node /\ OnTransit(net, d) /\ p = FindDesignatedRouterForLink(net, d)
            /\ x[1] \in net.routers /\ OnTransit(net, x) /\ p = FindDesignatedRouterForLink(net, x)
            /\ w = RouterId(net, x[1]) /\ exit = <<Interface(net, x).addr, d[2]>>
    BY <2>1 DEF Across
  <2>3. Hop(d, x)
    BY <1>0, <2>2 DEF Hop
  <2>4. e[3] = 0
    BY <1>0, <1>1, <1>5, OutOfNetwork
  <2>5. PICK f \in Edges : f[1] = root /\ f[2] = p /\ dist[root] + f[3] = dist[p]
    <3>1. p \in InTree \ {root} /\ root \in parents[p]
      BY <1>1, <1>5
    <3> QED BY <3>1, ParentEdge
  <2>6. f[3] = Interface(net, d).metric
    BY <2>2, <2>5, OutOfRoot
  <2>7. f[3] \in Nat
    BY <1>0, <2>5, TreeClosed
  <2>8. dist[w] = Interface(net, d).metric
    BY <1>0, <1>1, <1>2, <2>4, <2>5, <2>6, <2>7
  <2> QED BY <1>3, <2>2, <2>3, <2>8
<1>6. CASE p # root /\ ~(p \in NetworkVertices /\ root \in parents[p])
  <2>1. exit \in exits[p]
    BY <1>6 DEF Via
  <2>2. HopTo(p, exit)
    BY <1>6, <2>1 DEF Direct
  <2>3. PICK d, x \in Devices(net) :
            Hop(d, x) /\ Starts(d, x, p) /\ exit = <<Interface(net, x).addr, d[2]>>
    BY <2>2 DEF HopTo
  <2>4. Starts(d, x, w)
    BY <2>3, StartsInherit
  <2> QED BY <2>3, <2>4 DEF HopTo
<1> QED BY <1>4, <1>5, <1>6

(* A first hop is an exit through some parent.                             *)
LEMMA FirstHopIsVia ==
    ASSUME Finished, NEW w \in InTree \ {root}, NEW exit, Direct(w, exit) \/ HopTo(w, exit),
           \A p \in parents[w] \ {root} : HopTo(p, exit) => exit \in exits[p]
    PROVE  \E p \in parents[w] : Via(p, w, exit)
<1>1. CASE Direct(w, exit)
  BY <1>1 DEF Direct, Via
<1>2. CASE HopTo(w, exit)
  <2>1. PICK d, x \in Devices(net) :
            Hop(d, x) /\ Starts(d, x, w) /\ exit = <<Interface(net, x).addr, d[2]>>
    BY <1>2 DEF HopTo
  <2>2. CASE w = RouterId(net, x[1])
    <3>1. w \in DOMAIN DistancesFrom(w) /\ DistancesFrom(w)[w] = 0
      BY DistancesFromFacts
    <3>2. Interface(net, d).metric \in Nat
      BY <2>1, HopReaches
    <3>3. dist[w] = Interface(net, d).metric
      BY <2>1, <2>2, <3>1, <3>2 DEF Starts
    <3> QED BY <2>1, <2>2, <3>3, HopReaches
  <2>3. CASE w # RouterId(net, x[1])
    <3>1. PICK p \in parents[w] : p # root /\ p \in InTree /\ Starts(d, x, p)
      BY <2>1, <2>3, StartsBefore
    <3>2. ~(p \in NetworkVertices /\ root \in parents[p])
      BY <2>1, <3>1, NextToRoot
    <3>3. HopTo(p, exit)
      BY <2>1, <3>1 DEF HopTo
    <3>4. exit \in exits[p]
      BY <3>1, <3>3
    <3> QED BY <3>1, <3>2, <3>4 DEF Via
  <2> QED BY <2>2, <2>3
<1> QED BY <1>1, <1>2

(* The exits of every vertex are its first hops: the first vertex in rank  *)
(* for which they are not has parents for which they are.                  *)
LEMMA FinishedExits ==
    ASSUME Finished, NEW w \in InTree \ {root}, NEW exit
    PROVE  exit \in exits[w] <=> Direct(w, exit) \/ HopTo(w, exit)
<1> DEFINE Good(u) == exit \in exits[u] <=> Direct(u, exit) \/ HopTo(u, exit)
           T == {Depth(u) : u \in {z \in InTree \ {root} : ~Good(z)}}
<1> SUFFICES ASSUME ~Good(w) PROVE FALSE
  OBVIOUS
<1> HIDE DEF Good
<1>0. dist \in [Ids -> Nat] /\ InTree \subseteq Ids
  BY FinishedRoot
<1>1. \A u \in InTree : Depth(u) \in Nat
  BY <1>0 DEF Depth
<1>2. T \in SUBSET Nat /\ T # {}
  BY <1>1
<1>3. PICK m \in T : \A k \in T : m <= k
  BY <1>2, SmallestOf
<1>4. PICK u \in InTree \ {root} : ~Good(u) /\ m = Depth(u)
  BY <1>3
<1>5. ASSUME NEW p \in parents[u], p # root PROVE Good(p)
  <2>1. p \in InTree /\ Depth(p) \in Nat /\ Depth(u) \in Nat /\ Depth(p) < Depth(u)
    BY <1>4, ParentsRankBefore
  <2>2. ~(Depth(u) <= Depth(p))
    BY <2>1
  <2> QED BY <1>3, <1>4, <1>5, <2>1, <2>2
<1>6. exit \in exits[u] <=> \E p \in parents[u] : Via(p, u, exit)
  <2>1. u \in Ids \ {root} /\ Known(u)
    BY <1>0, <1>4 DEF InTree, Known
  <2> QED BY <2>1 DEF Finished, ExitsFollow
<1>7. ASSUME NEW p \in parents[u], Via(p, u, exit) PROVE Direct(u, exit) \/ HopTo(u, exit)
  <2>1. p # root => (exit \in exits[p] => Direct(p, exit) \/ HopTo(p, exit))
    BY <1>5 DEF Good
  <2> QED BY <1>4, <1>7, <2>1, ViaParentIs
<1>8. ASSUME Direct(u, exit) \/ HopTo(u, exit) PROVE \E p \in parents[u] : Via(p, u, exit)
  <2>1. \A p \in parents[u] \ {root} : HopTo(p, exit) => exit \in exits[p]
    BY <1>5 DEF Good
  <2> QED BY <1>4, <1>8, <2>1, FirstHopIsVia
<1>9. Good(u)
  BY <1>6, <1>7, <1>8 DEF Good
<1> QED BY <1>4, <1>9

(* What SPFNexthopCalculation and the merging of equal-cost paths leave    *)
(* behind is right on every ordinary network with positive metrics and one *)
(* subnet per channel: the exits of a vertex are all the first hops of its *)
(* shortest paths and nothing else (ExitsAreFirstHops).                    *)
THEOREM ExitsFirstHops == Spec => [](PositiveMetrics /\ Subnetted => ExitsAreFirstHops)
<1>1. /\ TypeOK /\ Built /\ RootIsNode /\ Exits /\ Dijkstra /\ EqualCost
      => (PositiveMetrics /\ Subnetted => ExitsAreFirstHops)
  <2> SUFFICES ASSUME TypeOK, Built, RootIsNode, Exits, Dijkstra, EqualCost,
                      PositiveMetrics, Subnetted, TreeBuilt, Ordinary,
                      NEW w \in InTree \ {root}
               PROVE  exits[w] = DirectExits(w)
                        \cup FirstHops([r \in RouterIds(net) |-> DistancesFrom(r)], w)
    BY DEF ExitsAreFirstHops
  <2>1. ExitsFollow
    BY DEF Exits, TreeBuilt, Building
  <2>2. Finished
    BY <2>1 DEF Finished, TreeBuilt
  <2> DEFINE F == FirstHops([r \in RouterIds(net) |-> DistancesFrom(r)], w)
  <2>3. \A exit : exit \in exits[w] <=> Direct(w, exit) \/ HopTo(w, exit)
    BY <2>2, FinishedExits
  <2>4. \A exit : exit \in DirectExits(w) <=> Direct(w, exit)
    BY <2>2, DirectExitsAre
  <2>5. \A exit : exit \in F <=> HopTo(w, exit)
    BY <2>2, FirstHopsAre
  <2> HIDE DEF F
  <2>6. exits[w] = DirectExits(w) \cup F
    BY <2>3, <2>4, <2>5, Zenon
  <2> QED BY <2>6 DEF F
<1> QED BY <1>1, TypeCorrect, DatabaseBuilt, ExitsHold, DijkstraHolds, EqualCostHolds, PTL

-----------------------------------------------------------------------------
(***************************************************************************)
(* The tables.  Those of the node under the iterator hold what the tree    *)
(* and the walks have given so far, those of later nodes are empty.        *)
(***************************************************************************)
(* What pass q of the walk has visited. *)
Visited(q) == IF q < pass THEN InTree ELSE Entered(stack, processed)

HostRoute(r) == \E u \in InTree \ (NetworkVertices \cup {root}) : r \in SPFIntraAddRouter(u)

TransitRoute(r) == \E w \in InTree \cap NetworkVertices : r \in SPFIntraAddTransit(w)

StubRoute(r) == pc = "walk" /\ \E u \in Visited(0) : r \in VisitRoutes(u, 0)

ExternalRoute(r) == pc = "walk" /\ \E q \in 1 .. pass : \E u \in Visited(q) : r \in VisitRoutes(u, q)

CurrentTables ==
    Building => \A r : /\ r \in routes[node].host <=> HostRoute(r)
                       /\ r \in routes[node].network <=> TransitRoute(r) \/ StubRoute(r)
                       /\ r \in routes[node].external <=> ExternalRoute(r)

LaterTables ==
    \A n \in net.nodes : n > node \/ (n = node /\ pc = "idle") => routes[n] = EmptyTables

(* Routes go into one table of the node under the iterator.                *)
LEMMA AddRoutesIs ==
    ASSUME TypeOK, node \in net.routers, NEW table \in {"host", "network", "external"},
           NEW new, AddRoutes(table, new)
    PROVE  /\ \A n \in net.nodes : n # node => routes'[n] = routes[n]
           /\ routes'[node].host = IF table = "host" THEN routes[node].host \cup new
                                   ELSE routes[node].host
           /\ routes'[node].network = IF table = "network" THEN routes[node].network \cup new
                                      ELSE routes[node].network
           /\ routes'[node].external = IF table = "external" THEN routes[node].external \cup new
                                       ELSE routes[node].external
<1>1. node \in net.nodes /\ routes \in [net.nodes -> Tables]
  BY DEF TypeOK, WellFormed, WellFormedTopology
<1>2. routes' = [routes EXCEPT ![node] = [routes[node] EXCEPT ![table] = @ \cup new]]
  BY <1>1 DEF AddRoutes
<1>3. routes'[node] = [routes[node] EXCEPT ![table] = @ \cup new]
  BY <1>1, <1>2
<1>4. routes[node] \in Tables
  BY <1>1
<1>5. \A n \in net.nodes : n # node => routes'[n] = routes[n]
  BY <1>1, <1>2
<1>6. CASE table = "host"
  BY <1>3, <1>4, <1>5, <1>6 DEF Tables
<1>7. CASE table = "network"
  BY <1>3, <1>4, <1>5, <1>7 DEF Tables
<1>8. CASE table = "external"
  BY <1>3, <1>4, <1>5, <1>8 DEF Tables
<1> QED BY <1>6, <1>7, <1>8

(* The routes for a vertex depend on its exits.                            *)
LEMMA RoutesRead ==
    ASSUME UNCHANGED <<net, lsdb, extdb, root>>, NEW u, exits'[u] = exits[u]
    PROVE  /\ SPFIntraAddRouter(u)' = SPFIntraAddRouter(u)
           /\ SPFIntraAddTransit(u)' = SPFIntraAddTransit(u)
           /\ \A q : VisitRoutes(u, q)' = VisitRoutes(u, q)
<1>1. \A a, m : RoutesVia(u, a, m)' = RoutesVia(u, a, m)
  BY DEF RoutesVia
<1>2. \A type : Records(u, type)' = Records(u, type)
  BY DEF Records
<1>3. NetworkVertices' = NetworkVertices
  BY DEF NetworkVertices, Ids
<1>4. SPFIntraAddRouter(u)' = SPFIntraAddRouter(u)
  BY <1>1, <1>2 DEF SPFIntraAddRouter
<1>5. SPFIntraAddTransit(u)' = SPFIntraAddTransit(u)
  BY <1>1 DEF SPFIntraAddTransit
<1>6. SPFIntraAddStub(u)' = SPFIntraAddStub(u)
  <2>1. Records(u, "StubNetwork")' = Records(u, "StubNetwork") /\ root' = root
    BY <1>2
  <2>2. CASE u = root
    BY <2>1, <2>2 DEF SPFIntraAddStub
  <2>3. CASE u # root
    BY <1>1, <2>1, <2>3 DEF SPFIntraAddStub
  <2> QED BY <2>2, <2>3
<1>7. ASSUME NEW e PROVE SPFAddASExternal(u, e)' = SPFAddASExternal(u, e)
  BY <1>1 DEF SPFAddASExternal
<1>8. ASSUME NEW q PROVE VisitRoutes(u, q)' = VisitRoutes(u, q)
  BY <1>3, <1>6, <1>7 DEF VisitRoutes
<1> QED BY <1>4, <1>5, <1>8

(* A step that changes neither the tables nor the vertices in the tree nor *)
(* what was visited.                                                       *)
LEMMA TablesKept ==
    ASSUME CurrentTables, Building, UNCHANGED <<net, lsdb, extdb, root, node, routes, pc, pass>>,
           InTree' = InTree, \A u \in InTree : exits'[u] = exits[u],
           pc = "walk" => /\ Entered(stack, processed)' = Entered(stack, processed)
                          /\ Entered(stack, processed) \subseteq InTree
    PROVE  CurrentTables'
<1>1. NetworkVertices' = NetworkVertices
  BY DEF NetworkVertices, Ids
<1>2. \A u \in InTree : /\ SPFIntraAddRouter(u)' = SPFIntraAddRouter(u)
                        /\ SPFIntraAddTransit(u)' = SPFIntraAddTransit(u)
                        /\ \A q : VisitRoutes(u, q)' = VisitRoutes(u, q)
  BY RoutesRead
<1>3. pc = "walk" => \A q : Visited(q)' = Visited(q) /\ Visited(q) \subseteq InTree
  BY DEF Visited
<1>4. ASSUME NEW r PROVE (HostRoute(r)' <=> HostRoute(r)) /\ (TransitRoute(r)' <=> TransitRoute(r))
  BY <1>1, <1>2 DEF HostRoute, TransitRoute
<1>5. ASSUME NEW r PROVE StubRoute(r)' <=> StubRoute(r)
  BY <1>2, <1>3 DEF StubRoute
<1>6. ASSUME NEW r PROVE ExternalRoute(r)' <=> ExternalRoute(r)
  <2>1. CASE pc # "walk"
    BY <2>1 DEF ExternalRoute
  <2>2. CASE pc = "walk"
    <3>1. ASSUME NEW q PROVE (\E u \in Visited(q) : r \in VisitRoutes(u, q))'
                               <=> \E u \in Visited(q) : r \in VisitRoutes(u, q)
      BY <1>2, <1>3, <2>2
    <3> QED BY <2>2, <3>1 DEF ExternalRoute
  <2> QED BY <2>1, <2>2
<1> QED BY <1>4, <1>5, <1>6 DEF CurrentTables, Building

(* SPFCalculate starts with empty tables.                                  *)
LEMMA TablesStart ==
    ASSUME TypeOK, LaterTables, StartCalculation
    PROVE  CurrentTables'
<1> USE DEF topology, vertices, walk
<1>1. /\ pc = "idle" /\ node \in net.routers /\ node' = node /\ routes' = routes /\ pc' = "spf"
      /\ root' = RouterId(net, node) /\ status' = InitialStatus(root') /\ lsdb' = lsdb
      /\ net' = net
  BY DEF StartCalculation
<1>2. node \in net.nodes /\ root' \in Ids /\ root' \notin NetworkVertices
  BY <1>1 DEF TypeOK, WellFormed, WellFormedTopology, WellFormedDatabase, Ids, NetworkVertices
<1>3. routes'[node'] = EmptyTables
  BY <1>1, <1>2 DEF LaterTables
<1>4. /\ NetworkVertices' = NetworkVertices /\ Ids' = Ids
      /\ InTree' \subseteq {root'}
  BY <1>1 DEF NetworkVertices, Ids, InTree, InitialStatus
<1>5. ASSUME NEW r PROVE ~HostRoute(r)' /\ ~TransitRoute(r)'
  BY <1>2, <1>4 DEF HostRoute, TransitRoute
<1>6. ASSUME NEW r PROVE ~StubRoute(r)' /\ ~ExternalRoute(r)'
  BY <1>1 DEF StubRoute, ExternalRoute
<1>7. ASSUME NEW r
      PROVE  /\ r \notin routes'[node'].host /\ r \notin routes'[node'].network
             /\ r \notin routes'[node'].external
  BY <1>3 DEF EmptyTables
<1> QED BY <1>5, <1>6, <1>7 DEF CurrentTables

(* A vertex enters the tree with its routes.                               *)
LEMMA TablesGrow ==
    ASSUME TypeOK, QueueAgreesWithStatus, Dijkstra, CurrentTables, AddToTree
    PROVE  CurrentTables'
<1> USE DEF topology, vertices, walk
<1> DEFINE w == Top(queue)
<1>1. /\ pc = "spf" /\ queue # << >> /\ UNCHANGED <<net, lsdb, extdb, pc, node, root, exits>>
      /\ status' = [status EXCEPT ![w] = "InSpfTree"]
      /\ IF w \in NetworkVertices THEN AddRoutes("network", SPFIntraAddTransit(w))
         ELSE AddRoutes("host", SPFIntraAddRouter(w))
  BY DEF AddToTree
<1>2. Building /\ node \in net.routers
  BY <1>1 DEF Building, TypeOK
<1>3. w \in Ids /\ status[w] = "Candidate"
  <2>1. w \in Listed(queue)
    BY <1>1 DEF Top, Listed, TypeOK
  <2> QED BY <1>1, <2>1 DEF QueueAgreesWithStatus
<1>4. w # root
  BY <1>2, <1>3 DEF Dijkstra, Progress
<1>5. NetworkVertices' = NetworkVertices /\ Ids' = Ids /\ root' = root
  BY <1>1 DEF NetworkVertices, Ids
<1> HIDE DEF w
<1>6. InTree' = InTree \cup {w}
  BY <1>1, <1>3, <1>5 DEF InTree, TypeOK
<1>7. \A u : /\ SPFIntraAddRouter(u)' = SPFIntraAddRouter(u)
             /\ SPFIntraAddTransit(u)' = SPFIntraAddTransit(u)
  BY <1>1, RoutesRead
<1>8. ASSUME NEW r PROVE ~StubRoute(r) /\ ~ExternalRoute(r) /\ ~StubRoute(r)' /\ ~ExternalRoute(r)'
  BY <1>1 DEF StubRoute, ExternalRoute
<1>9. CASE w \in NetworkVertices
  <2>1. ASSUME NEW r PROVE /\ HostRoute(r)' <=> HostRoute(r)
                           /\ TransitRoute(r)' <=> TransitRoute(r) \/ r \in SPFIntraAddTransit(w)
    BY <1>5, <1>6, <1>7, <1>9 DEF HostRoute, TransitRoute
  <2>2. /\ routes'[node].host = routes[node].host
        /\ routes'[node].network = routes[node].network \cup SPFIntraAddTransit(w)
        /\ routes'[node].external = routes[node].external
    BY <1>1, <1>2, <1>9, AddRoutesIs
  <2> QED BY <1>1, <1>2, <1>8, <2>1, <2>2 DEF CurrentTables
<1>10. CASE w \notin NetworkVertices
  <2>1. ASSUME NEW r PROVE /\ TransitRoute(r)' <=> TransitRoute(r)
                           /\ HostRoute(r)' <=> HostRoute(r) \/ r \in SPFIntraAddRouter(w)
    BY <1>4, <1>5, <1>6, <1>7, <1>10 DEF HostRoute, TransitRoute
  <2>2. /\ routes'[node].host = routes[node].host \cup SPFIntraAddRouter(w)
        /\ routes'[node].network = routes[node].network
        /\ routes'[node].external = routes[node].external
    BY <1>1, <1>2, <1>10, AddRoutesIs
  <2> QED BY <1>1, <1>2, <1>8, <2>1, <2>2 DEF CurrentTables
<1> QED BY <1>9, <1>10

(* A visit adds the routes of the vertex to those of the pass.             *)
LEMMA TablesVisit ==
    ASSUME TypeOK, CurrentTables, Building, pc' = "walk", pass' \in Nat, NEW x,
           UNCHANGED <<net, lsdb, extdb, root, node, exits, status>>,
           AddRoutes(VisitTable(pass'), VisitRoutes(x, pass')),
           \A r : StubRoute(r)' <=> StubRoute(r) \/ (pass' = 0 /\ r \in VisitRoutes(x, pass')),
           \A r : ExternalRoute(r)' <=> ExternalRoute(r) \/ (pass' # 0 /\ r \in VisitRoutes(x, pass'))
    PROVE  CurrentTables'
<1>1. InTree' = InTree /\ NetworkVertices' = NetworkVertices
  BY DEF InTree, NetworkVertices, Ids
<1>2. \A u : /\ SPFIntraAddRouter(u)' = SPFIntraAddRouter(u)
             /\ SPFIntraAddTransit(u)' = SPFIntraAddTransit(u)
  BY RoutesRead
<1>3. ASSUME NEW r PROVE (HostRoute(r)' <=> HostRoute(r)) /\ (TransitRoute(r)' <=> TransitRoute(r))
  BY <1>1, <1>2 DEF HostRoute, TransitRoute
<1>4. node \in net.routers
  BY DEF TypeOK
<1>5. PICK p : p = pass'
  OBVIOUS
<1>6. PICK V : V = VisitRoutes(x, p)
  OBVIOUS
<1>7. AddRoutes(VisitTable(p), V)
  BY <1>5, <1>6
<1>8. CASE p = 0
  <2>1. VisitTable(p) = "network"
    BY <1>8 DEF VisitTable
  <2>2. /\ routes'[node].host = routes[node].host
        /\ routes'[node].network = routes[node].network \cup V
        /\ routes'[node].external = routes[node].external
    BY <1>4, <1>7, <2>1, AddRoutesIs
  <2>3. \A r : (StubRoute(r)' <=> StubRoute(r) \/ r \in V) /\ (ExternalRoute(r)' <=> ExternalRoute(r))
    BY <1>5, <1>6, <1>8
  <2> QED BY <1>3, <2>2, <2>3 DEF CurrentTables
<1>9. CASE p # 0
  <2>1. VisitTable(p) = "external"
    BY <1>9 DEF VisitTable
  <2>2. /\ routes'[node].host = routes[node].host
        /\ routes'[node].network = routes[node].network
        /\ routes'[node].external = routes[node].external \cup V
    BY <1>4, <1>7, <2>1, AddRoutesIs
  <2>3. \A r : (StubRoute(r)' <=> StubRoute(r)) /\ (ExternalRoute(r)' <=> ExternalRoute(r) \/ r \in V)
    BY <1>5, <1>6, <1>9
  <2> QED BY <1>3, <2>2, <2>3 DEF CurrentTables
<1> QED BY <1>8, <1>9

(* The walk has visited vertices of the tree only.                         *)
LEMMA VisitedInTree ==
    ASSUME WalkInvariant, pc = "walk"
    PROVE  /\ Calls(stack, processed) /\ Done(processed)
           /\ Entered(stack, processed) \subseteq InTree
           /\ \A q : Visited(q) \subseteq InTree
<1>1. Calls(stack, processed) /\ Done(processed)
  BY DEF WalkInvariant
<1>2. Entered(stack, processed) \subseteq InTree
  BY <1>1 DEF Calls, Done, Entered
<1> QED BY <1>1, <1>2 DEF Visited

(* The walk of the tables, step by step.                                   *)
LEMMA TablesWalk ==
    ASSUME TypeOK, Dijkstra, ChildrenFollowParents, WalkInvariant, CurrentTables, Building,
           \/ StartStubs \/ EnterChild \/ SkipChild \/ LeaveChild \/ NextExternal
    PROVE  CurrentTables'
<1> USE DEF topology, vertices, walk
<1>0. pass \in Nat
  BY DEF TypeOK
<1>1. CASE StartStubs
  <2>1. /\ pc = "spf" /\ pc' = "walk" /\ pass' = 0 /\ stack' = << <<root, 1>> >> /\ processed' = {}
        /\ AddRoutes(VisitTable(0), VisitRoutes(root, 0))
        /\ UNCHANGED <<net, lsdb, extdb, node, root, exits, status, children>>
    BY <1>1 DEF StartStubs
  <2>2. PICK s : s = stack'
    OBVIOUS
  <2>3. Entered(s, {}) = {root}
    BY <2>1, <2>2, WalkStarts
  <2>4. Entered(stack, processed)' = {root}
    BY <2>1, <2>2, <2>3 DEF Entered
  <2>5. Visited(0)' = {root}
    BY <2>1, <2>4 DEF Visited
  <2>6. \A q : VisitRoutes(root, q)' = VisitRoutes(root, q)
    BY <2>1, RoutesRead
  <2>7. ASSUME NEW r PROVE StubRoute(r)' <=> r \in VisitRoutes(root, 0)
    BY <2>1, <2>5, <2>6 DEF StubRoute
  <2>8. ASSUME NEW r PROVE ~StubRoute(r) /\ ~ExternalRoute(r)
    BY <2>1 DEF StubRoute, ExternalRoute
  <2>9. ASSUME NEW r PROVE ~ExternalRoute(r)'
    <3>1. \A q : ~(q \in 1 .. 0)
      OBVIOUS
    <3> QED BY <2>1, <3>1 DEF ExternalRoute
  <2>10. PICK x : x = root
    OBVIOUS
  <2>11. /\ AddRoutes(VisitTable(pass'), VisitRoutes(x, pass')) /\ pass' \in Nat
         /\ \A r : StubRoute(r)' <=> StubRoute(r) \/ (pass' = 0 /\ r \in VisitRoutes(x, pass'))
         /\ \A r : ExternalRoute(r)' <=> ExternalRoute(r) \/ (pass' # 0 /\ r \in VisitRoutes(x, pass'))
    BY <2>1, <2>7, <2>8, <2>9, <2>10
  <2> QED BY <2>1, <2>11, TablesVisit
<1>2. CASE EnterChild
  <2>1. PICK x : x = children[Here][Child]
    OBVIOUS
  <2>2. /\ pc = "walk" /\ pc' = "walk" /\ pass' = pass /\ stack' = Append(stack, <<x, 1>>)
        /\ processed' = processed /\ Child <= Len(children[Here])
        /\ AddRoutes(VisitTable(pass), VisitRoutes(x, pass))
        /\ UNCHANGED <<net, lsdb, extdb, node, root, exits, status, children>>
    BY <1>2, <2>1 DEF EnterChild, AtChild
  <2>3. PICK s : s = stack'
    OBVIOUS
  <2>4. Calls(stack, processed)
    BY <2>2, VisitedInTree
  <2>5. Entered(s, processed) = Entered(stack, processed) \cup {x}
    BY <2>1, <2>2, <2>3, <2>4, WalkEnters
  <2>6. Entered(stack, processed)' = Entered(stack, processed) \cup {x}
    BY <2>2, <2>3, <2>5 DEF Entered
  <2>7. InTree' = InTree
    BY <2>2 DEF InTree, Ids
  <2>8. \A q : Visited(q)' = IF q < pass THEN Visited(q) ELSE Visited(q) \cup {x}
    BY <2>2, <2>6, <2>7 DEF Visited
  <2>9. \A u, q : VisitRoutes(u, q)' = VisitRoutes(u, q)
    BY <2>2, RoutesRead
  <2>10. ASSUME NEW r
         PROVE  StubRoute(r)' <=> StubRoute(r) \/ (pass' = 0 /\ r \in VisitRoutes(x, pass'))
    <3>1. Visited(0)' = IF pass = 0 THEN Visited(0) \cup {x} ELSE Visited(0)
      BY <1>0, <2>8
    <3>2. CASE pass = 0
      BY <2>2, <2>9, <3>1, <3>2 DEF StubRoute
    <3>3. CASE pass # 0
      BY <2>2, <2>9, <3>1, <3>3 DEF StubRoute
    <3> QED BY <3>2, <3>3
  <2>11. ASSUME NEW r
         PROVE  ExternalRoute(r)' <=> ExternalRoute(r) \/ (pass' # 0 /\ r \in VisitRoutes(x, pass'))
    <3>1. ASSUME NEW q \in 1 .. pass
          PROVE  (\E u \in Visited(q) : r \in VisitRoutes(u, q))'
                    <=> \/ \E u \in Visited(q) : r \in VisitRoutes(u, q)
                        \/ q = pass /\ r \in VisitRoutes(x, q)
      <4>1. Visited(q)' = IF q = pass THEN Visited(q) \cup {x} ELSE Visited(q)
        BY <1>0, <2>8
      <4>2. CASE q = pass
        BY <2>9, <4>1, <4>2
      <4>3. CASE q # pass
        BY <2>9, <4>1, <4>3
      <4> QED BY <4>2, <4>3
    <3>2. pass # 0 => pass \in 1 .. pass
      BY <1>0
    <3>3. pass = 0 => 1 .. pass = {}
      BY <1>0
    <3> QED BY <2>2, <3>1, <3>2, <3>3 DEF ExternalRoute
  <2>12. AddRoutes(VisitTable(pass'), VisitRoutes(x, pass')) /\ pass' \in Nat
    BY <1>0, <2>2
  <2> QED BY <2>2, <2>10, <2>11, <2>12, TablesVisit
<1>3. CASE SkipChild
  <2>1. /\ pc = "walk" /\ UNCHANGED <<net, lsdb, extdb, root, exits, status, node, routes, pc, pass>>
        /\ Child <= Len(children[Here]) /\ children[Here][Child] \in processed
        /\ stack' = [stack EXCEPT ![Len(stack)] = <<Here, Child + 1>>]
        /\ processed' = processed
    BY <1>3 DEF SkipChild, AtChild
  <2>2. PICK s : s = stack'
    OBVIOUS
  <2>3. Calls(stack, processed) /\ Entered(stack, processed) \subseteq InTree
    BY <2>1, VisitedInTree
  <2>4. Entered(s, processed) = Entered(stack, processed)
    BY <2>1, <2>2, <2>3, WalkPasses
  <2>5. Entered(stack, processed)' = Entered(stack, processed)
    BY <2>1, <2>2, <2>4 DEF Entered
  <2>6. InTree' = InTree
    BY <2>1 DEF InTree, Ids
  <2> QED BY <2>1, <2>3, <2>5, <2>6, TablesKept
<1>4. CASE LeaveChild
  <2>0. PICK below : below = stack[Len(stack) - 1]
    OBVIOUS
  <2>1. /\ pc = "walk" /\ UNCHANGED <<net, lsdb, extdb, root, exits, status, node, routes, pc, pass>>
        /\ Child > Len(children[Here]) /\ Len(stack) > 1
        /\ stack' = Append(SubSeq(stack, 1, Len(stack) - 2), <<below[1], below[2] + 1>>)
        /\ processed' = processed \cup {Here}
    BY <1>4, <2>0 DEF LeaveChild, AtEnd
  <2>2. PICK s : s = stack'
    OBVIOUS
  <2>3. PICK p : p = processed'
    OBVIOUS
  <2>4. /\ Calls(stack, processed) /\ Done(processed)
        /\ Entered(stack, processed) \subseteq InTree
    BY <2>1, VisitedInTree
  <2>5. Entered(s, p) = Entered(stack, processed)
    BY <2>0, <2>1, <2>2, <2>3, <2>4, WalkReturns
  <2>6. Entered(stack, processed)' = Entered(stack, processed)
    BY <2>2, <2>3, <2>5 DEF Entered
  <2>7. InTree' = InTree
    BY <2>1 DEF InTree, Ids
  <2> QED BY <2>1, <2>4, <2>6, <2>7, TablesKept
<1>5. CASE NextExternal
  <2>1. /\ pc = "walk" /\ pc' = "walk" /\ pass' = pass + 1 /\ stack' = << <<root, 1>> >>
        /\ processed' = {} /\ Len(stack) = 1 /\ AtEnd
        /\ AddRoutes(VisitTable(pass + 1), VisitRoutes(root, pass + 1))
        /\ UNCHANGED <<net, lsdb, extdb, node, root, exits, status, children>>
    BY <1>5 DEF NextExternal, AtEnd
  <2>2. PICK s : s = stack'
    OBVIOUS
  <2>3. Entered(s, {}) = {root}
    BY <2>1, <2>2, WalkStarts
  <2>4. Entered(stack, processed)' = {root}
    BY <2>1, <2>2, <2>3 DEF Entered
  <2>5. Entered(stack, processed) = InTree
    BY <2>1, WalkEnds
  <2>6. \A q : Visited(q) = InTree
    BY <2>5 DEF Visited
  <2>7. InTree' = InTree
    BY <2>1 DEF InTree, Ids
  <2>8. \A q : Visited(q)' = IF q < pass + 1 THEN InTree ELSE {root}
    BY <2>1, <2>4, <2>7 DEF Visited
  <2>9. \A u, q : VisitRoutes(u, q)' = VisitRoutes(u, q)
    BY <2>1, RoutesRead
  <2>10. PICK x : x = root
    OBVIOUS
  <2>11. ASSUME NEW r
         PROVE  StubRoute(r)' <=> StubRoute(r) \/ (pass' = 0 /\ r \in VisitRoutes(x, pass'))
    <3>1. Visited(0)' = InTree /\ Visited(0) = InTree /\ pass' # 0
      BY <1>0, <2>1, <2>6, <2>8
    <3> QED BY <2>1, <2>9, <3>1 DEF StubRoute
  <2>12. ASSUME NEW r
         PROVE  ExternalRoute(r)' <=> ExternalRoute(r) \/ (pass' # 0 /\ r \in VisitRoutes(x, pass'))
    <3>1. ASSUME NEW q \in 1 .. pass
          PROVE  (\E u \in Visited(q) : r \in VisitRoutes(u, q))'
                    <=> \E u \in Visited(q) : r \in VisitRoutes(u, q)
      <4>1. Visited(q)' = InTree /\ Visited(q) = InTree
        BY <1>0, <2>6, <2>8
      <4> QED BY <2>9, <4>1
    <3>0. PICK p : p = pass + 1
      OBVIOUS
    <3>2. Visited(p)' = {x}
      BY <1>0, <2>8, <2>10, <3>0
    <3>3. (\E u \in Visited(p) : r \in VisitRoutes(u, p))' <=> r \in VisitRoutes(x, p)
      BY <2>9, <3>2
    <3>4. pass' # 0 /\ 1 .. p = 1 .. pass \cup {p} /\ pass' = p
      BY <1>0, <2>1, <3>0
    <3>5. ExternalRoute(r)' <=> \E q \in 1 .. p : (\E u \in Visited(q) : r \in VisitRoutes(u, q))'
      BY <2>1, <3>4 DEF ExternalRoute
    <3> QED BY <2>1, <3>1, <3>3, <3>4, <3>5 DEF ExternalRoute
  <2>13. AddRoutes(VisitTable(pass'), VisitRoutes(x, pass')) /\ pass' \in Nat
    BY <1>0, <2>1, <2>10
  <2> QED BY <2>1, <2>11, <2>12, <2>13, TablesVisit
<1> QED BY <1>1, <1>2, <1>3, <1>4, <1>5

(* Examining a record changes exits of vertices outside the tree only.     *)
LEMMA TablesRecord ==
    ASSUME TypeOK, CurrentTables, NEW w \in Ids,
           \/ SkipRecord \/ SkipInTree(w) \/ SkipLongerPath(w) \/ NewCandidate(w)
           \/ EqualCostPath(w) \/ ShorterPath(w)
    PROVE  CurrentTables'
<1> USE DEF topology, vertices, walk
<1>0. status \in [Ids -> {"NotExplored", "Candidate", "InSpfTree"}] /\ exits \in [Ids -> SUBSET (Nat \X Int)]
  BY DEF TypeOK
<1>1. pc = "spf" /\ UNCHANGED <<net, lsdb, extdb, root, node, routes, pc, pass>>
  BY DEF SkipRecord, SkipInTree, SkipLongerPath, NewCandidate, EqualCostPath, ShorterPath,
         LeadsTo, Examining, NextRecord
<1>2. \/ status' = status /\ exits' = exits
      \/ /\ w \notin InTree /\ (status' = status \/ status' = [status EXCEPT ![w] = "Candidate"])
         /\ \A u \in Ids \ {w} : exits'[u] = exits[u]
  BY <1>0 DEF SkipRecord, SkipInTree, SkipLongerPath, NewCandidate, EqualCostPath, ShorterPath, InTree
<1>3. InTree' = InTree
  BY <1>0, <1>1, <1>2 DEF InTree, Ids
<1>4. \A u \in InTree : exits'[u] = exits[u]
  BY <1>2 DEF InTree
<1> QED BY <1>1, <1>3, <1>4, TablesKept DEF Building

(* The tables are what the tree and the walks have given so far.           *)
LEMMA TablesInductive ==
    /\ TypeOK /\ QueueAgreesWithStatus /\ Dijkstra /\ ChildrenFollowParents /\ WalkInvariant
    /\ CurrentTables /\ LaterTables /\ [Next]_vars
    => CurrentTables' /\ LaterTables'
<1> SUFFICES ASSUME TypeOK, QueueAgreesWithStatus, Dijkstra, ChildrenFollowParents, WalkInvariant,
                    CurrentTables, LaterTables, [Next]_vars
             PROVE  CurrentTables' /\ LaterTables'
  OBVIOUS
<1> USE DEF topology, vertices, walk
<1>0. node \in Nat /\ net.nodes \subseteq Nat /\ routes \in [net.nodes -> Tables]
  BY DEF TypeOK, WellFormed, WellFormedTopology
<1>1. CASE UNCHANGED vars
  <2>1. UNCHANGED <<net, lsdb, extdb, root, node, routes, pc, pass, stack, processed, status, exits>>
    BY <1>1 DEF vars
  <2>2. LaterTables'
    BY <2>1 DEF LaterTables
  <2>3. InTree' = InTree /\ Entered(stack, processed)' = Entered(stack, processed)
    BY <2>1 DEF InTree, Ids, Entered
  <2>4. CASE Building
    <3>1. pc = "walk" => Entered(stack, processed) \subseteq InTree
      BY VisitedInTree
    <3> QED BY <2>1, <2>2, <2>3, <2>4, <3>1, TablesKept
  <2>5. CASE ~Building
    BY <2>1, <2>2, <2>5 DEF CurrentTables, Building
  <2> QED BY <2>4, <2>5
<1>2. CASE SkipNode \/ FinishRoutes \/ MissingLSA \/ FinishCalculation
  <2>1. /\ pc' \notin {"spf", "walk"} /\ routes' = routes /\ net' = net
        /\ \/ node' = node /\ pc' # "idle"
           \/ node' = node + 1
           \/ node' = node /\ pc = "idle"
    BY <1>2 DEF SkipNode, FinishRoutes, MissingLSA, FinishCalculation
  <2>2. LaterTables'
    BY <1>0, <2>1 DEF LaterTables
  <2> QED BY <2>1, <2>2 DEF CurrentTables, Building
<1>3. CASE TruncateForStubNode
  <2>1. /\ pc' = "idle" /\ node' = node + 1 /\ net' = net /\ node \in net.nodes
        /\ \A n \in net.nodes : n # node => routes'[n] = routes[n]
    BY <1>0, <1>3 DEF TruncateForStubNode, AddRoutes, TypeOK, WellFormed, WellFormedTopology
  <2>2. LaterTables'
    BY <1>0, <2>1 DEF LaterTables
  <2> QED BY <2>1, <2>2 DEF CurrentTables, Building
<1>4. CASE StartCalculation
  <2>1. net' = net /\ node' = node /\ routes' = routes /\ pc' = "spf"
    BY <1>4 DEF StartCalculation
  <2>2. LaterTables'
    BY <2>1 DEF LaterTables
  <2> QED BY <1>4, <2>2, TablesStart
<1>5. ASSUME NEW w \in Ids,
             \/ SkipInTree(w) \/ SkipLongerPath(w) \/ NewCandidate(w) \/ EqualCostPath(w)
             \/ ShorterPath(w) \/ NexthopFails(w)
      PROVE  CurrentTables' /\ LaterTables'
  <2>1. net' = net /\ node' = node /\ routes' = routes /\ pc' # "idle"
    BY <1>5 DEF SkipInTree, SkipLongerPath, NewCandidate, EqualCostPath, ShorterPath, NexthopFails,
                LeadsTo, Examining, NextRecord
  <2>2. LaterTables'
    BY <2>1 DEF LaterTables
  <2>3. NexthopFails(w) => CurrentTables'
    BY DEF NexthopFails, CurrentTables, Building
  <2> QED BY <1>5, <2>2, <2>3, TablesRecord
<1>6. CASE SkipRecord
  <2>1. net' = net /\ node' = node /\ routes' = routes /\ pc' # "idle" /\ pc = "spf"
    BY <1>6 DEF SkipRecord, Examining, NextRecord
  <2>2. LaterTables'
    BY <2>1 DEF LaterTables
  <2>3. v \in Ids
    BY <2>1 DEF TypeOK, Building
  <2> QED BY <1>6, <2>2, <2>3, TablesRecord
<1>7. CASE AddToTree
  <2>1. Building /\ net' = net /\ node' = node /\ pc' # "idle"
        /\ \A n \in net.nodes : n # node => routes'[n] = routes[n]
    BY <1>0, <1>7 DEF AddToTree, AddRoutes, Building, TypeOK, WellFormed, WellFormedTopology
  <2>2. LaterTables'
    BY <1>0, <2>1 DEF LaterTables
  <2> QED BY <1>7, <2>2, TablesGrow
<1>8. CASE StartStubs \/ EnterChild \/ SkipChild \/ LeaveChild \/ NextExternal
  <2>1. Building /\ net' = net /\ node' = node /\ pc' # "idle"
        /\ \A n \in net.nodes : n # node => routes'[n] = routes[n]
    BY <1>0, <1>8 DEF StartStubs, EnterChild, SkipChild, LeaveChild, NextExternal, AtChild, AtEnd,
           AddRoutes, Building, TypeOK, WellFormed, WellFormedTopology
  <2>2. LaterTables'
    BY <1>0, <2>1 DEF LaterTables
  <2> QED BY <1>8, <2>1, <2>2, TablesWalk
<1> QED
  BY <1>1, <1>2, <1>3, <1>4, <1>5, <1>6, <1>7, <1>8 DEF Next, Step, Stopped

(* WalkInvariant and the tables hold.                                      *)
LEMMA TablesHold ==
    Spec => [](ChildrenFollowParents /\ WalkInvariant /\ CurrentTables /\ LaterTables)
<1>1. Init => ChildrenFollowParents /\ WalkInvariant /\ CurrentTables /\ LaterTables
  BY DEF Init, WalkInvariant, ChildrenFollowParents, CurrentTables, LaterTables, Building
<1> QED
  BY <1>1, TypeCorrect, QueueAgrees, DijkstraHolds, ChildrenInductive, WalkInductive,
     TablesInductive, PTL DEF Spec

-----------------------------------------------------------------------------
(***************************************************************************)
(* RoutesDeliver.  Paths begin with an edge, and what is left after it is  *)
(* shorter by its length.                                                  *)
(***************************************************************************)
LEMMA FirstEdge ==
    ASSUME NEW S, IsFiniteSet(S), NEW edges \in Graphs(S), NEW r \in S,
           NEW t \in DOMAIN DistancesWithin(edges, r)[Cardinality(S)] \ {r}
    PROVE  \E e \in edges :
              LET D == DistancesWithin(edges, r)[Cardinality(S)]
                  E == DistancesWithin(edges, e[2])[Cardinality(S)]
              IN  e[1] = r /\ t \in DOMAIN E /\ e[3] + E[t] <= D[t]
<1> DEFINE N == Cardinality(S)
           F == DistancesWithin(edges, r)
           E(x) == DistancesWithin(edges, x)[N]
           Begun(x, m) == \E e \in edges : e[1] = r /\ x \in DOMAIN E(e[2]) /\ e[3] + E(e[2])[x] <= m
           Bounded(n) == \A x \in DOMAIN F[n] \ {r} : Begun(x, F[n][x])
           A == {n \in Nat : ~Bounded(n)}
<1>0. N \in Nat
  BY FS_CardinalityType
<1>1. F[0] = [x \in {r} |-> 0]
  BY DistancesRecursion
<1>2. \A n \in Nat : F[n] \in DistancesOf(S) /\ Round(edges, F[n], F[n + 1])
  BY DistancesRound
<1>3. ASSUME NEW e \in edges PROVE e[1] \in S /\ e[2] \in S /\ e[3] \in Nat
  BY DEF Graphs
<1>4. ASSUME NEW y \in S
      PROVE  /\ E(y) \in DistancesOf(S) /\ y \in DOMAIN E(y) /\ E(y)[y] = 0
             /\ \A e \in edges : e[1] \in DOMAIN E(y) =>
                   e[2] \in DOMAIN E(y) /\ E(y)[e[2]] <= E(y)[e[1]] + e[3]
  BY DistancesSettle
<1>5. t \in DOMAIN F[N] \ {r}
  OBVIOUS
<1> HIDE DEF N, F, E
<1>6. \A n \in Nat : F[n] \in [DOMAIN F[n] -> Nat]
  BY <1>2, DistancesOfIs
<1>7. ASSUME NEW y \in S PROVE E(y) \in [DOMAIN E(y) -> Nat]
  BY <1>4, DistancesOfIs
<1>8. ASSUME NEW x, NEW m \in Nat, Begun(x, m), NEW e \in edges, e[1] = x
      PROVE  Begun(e[2], m + e[3])
  <2>1. PICK f \in edges : f[1] = r /\ x \in DOMAIN E(f[2]) /\ f[3] + E(f[2])[x] <= m
    BY <1>8
  <2>2. f[2] \in S /\ f[3] \in Nat /\ e[3] \in Nat
    BY <1>3
  <2>3. e[2] \in DOMAIN E(f[2]) /\ E(f[2])[e[2]] <= E(f[2])[x] + e[3]
    BY <1>4, <1>8, <2>1, <2>2
  <2>4. E(f[2])[e[2]] \in Nat /\ E(f[2])[x] \in Nat
    BY <1>7, <2>1, <2>2, <2>3
  <2>5. f[3] + E(f[2])[e[2]] <= m + e[3]
    BY <2>1, <2>2, <2>3, <2>4
  <2> QED BY <2>1, <2>3, <2>5
<1>9. ASSUME NEW e \in edges, e[1] = r, NEW m \in Nat PROVE Begun(e[2], m + e[3])
  <2>1. e[2] \in DOMAIN E(e[2]) /\ E(e[2])[e[2]] = 0 /\ e[3] \in Nat
    BY <1>3, <1>4
  <2>2. e[3] + E(e[2])[e[2]] <= m + e[3]
    BY <2>1
  <2> QED BY <1>9, <2>1, <2>2
<1> HIDE DEF Begun
<1>10. A = {}
  <2>1. SUFFICES ASSUME A # {} PROVE FALSE
    OBVIOUS
  <2>2. PICK k \in A : \A x \in A : k <= x
    <3> HIDE DEF A
    <3>1. A \in SUBSET Nat
      BY DEF A
    <3> QED BY <2>1, <3>1, SmallestOf
  <2>3. Bounded(0)
    BY <1>1
  <2>4. k - 1 \in Nat /\ k - 1 \notin A /\ (k - 1) + 1 = k
    BY <2>2, <2>3
  <2>5. PICK m \in Nat : k = m + 1 /\ Bounded(m)
    BY <2>4
  <2>6. ASSUME NEW x \in DOMAIN F[k] \ {r} PROVE Begun(x, F[k][x])
    <3>1. Round(edges, F[m], F[k])
      BY <1>2, <2>5
    <3>2. CASE x \in DOMAIN F[m] /\ F[k][x] = F[m][x]
      BY <2>5, <3>2
    <3>3. ASSUME NEW e \in edges, e[1] \in DOMAIN F[m], e[2] = x, F[k][x] = F[m][e[1]] + e[3]
          PROVE  Begun(x, F[k][x])
      <4>1. F[m][e[1]] \in Nat
        BY <1>6, <3>3
      <4>2. CASE e[1] = r
        BY <1>9, <3>3, <4>1, <4>2
      <4>3. CASE e[1] # r
        BY <1>8, <2>5, <3>3, <4>1, <4>3
      <4> QED BY <4>2, <4>3
    <3> QED BY <3>1, <3>2, <3>3 DEF Round
  <2> QED BY <2>2, <2>6
<1>11. Begun(t, F[N][t])
  BY <1>0, <1>5, <1>10
<1> QED BY <1>11 DEF Begun, E, F, N

(* Sets that grow inside a finite set, each determined by the one before,  *)
(* have stopped growing after as many rounds as the set has elements.      *)
LEMMA GrowingSettles ==
    ASSUME NEW S, IsFiniteSet(S), NEW R,
           \A n \in Nat : R[n] \subseteq R[n + 1] /\ R[n] \subseteq S,
           \A n \in Nat : R[n + 1] = R[n] => R[n + 2] = R[n + 1]
    PROVE  R[Cardinality(S) + 1] = R[Cardinality(S)]
<1> DEFINE N == Cardinality(S)
           Large(n) == R[n + 1] = R[n] \/ Cardinality(R[n + 1]) > n
           A == {n \in Nat : ~Large(n)}
<1>0. N \in Nat
  BY FS_CardinalityType
<1>1. \A n \in Nat : R[n] \in SUBSET S /\ IsFiniteSet(R[n]) /\ Cardinality(R[n]) \in Nat
                     /\ Cardinality(R[n]) <= N
  BY FS_Subset, FS_CardinalityType
<1>2. ASSUME NEW n \in Nat, R[n + 1] # R[n] PROVE Cardinality(R[n]) < Cardinality(R[n + 1])
  <2>1. n + 1 \in Nat
    OBVIOUS
  <2>2. R[n] \in SUBSET R[n + 1] /\ IsFiniteSet(R[n + 1])
    BY <1>1, <2>1
  <2>3. Cardinality(R[n]) <= Cardinality(R[n + 1]) /\ Cardinality(R[n]) # Cardinality(R[n + 1])
    BY <1>2, <2>2, FS_Subset
  <2> QED BY <1>1, <2>1, <2>3
<1> HIDE DEF N
<1>3. A = {}
  <2>1. SUFFICES ASSUME A # {} PROVE FALSE
    OBVIOUS
  <2>2. PICK k \in A : \A x \in A : k <= x
    <3> HIDE DEF A
    <3>1. A \in SUBSET Nat
      BY DEF A
    <3> QED BY <2>1, <3>1, SmallestOf
  <2>3. R[k + 1] # R[k] /\ ~(Cardinality(R[k + 1]) > k) /\ k \in Nat
    BY <2>2
  <2>4. Cardinality(R[k]) < Cardinality(R[k + 1]) /\ Cardinality(R[k]) \in Nat
        /\ Cardinality(R[k + 1]) \in Nat
    BY <1>1, <1>2, <2>3
  <2>5. k # 0
    BY <2>3, <2>4
  <2>6. PICK m \in Nat : k = m + 1
    BY <2>3, <2>5
  <2>7. m \notin A
    BY <2>2, <2>6
  <2>8. R[m + 1] # R[m]
    <3>1. (m + 1) + 1 = m + 2
      BY <2>6
    <3> QED BY <2>3, <2>6, <3>1
  <2>9. Cardinality(R[k]) > m
    BY <2>6, <2>7, <2>8
  <2> QED BY <2>3, <2>4, <2>6, <2>9
<1>4. Large(N)
  BY <1>0, <1>3
<1>5. ~(Cardinality(R[N + 1]) > N)
  BY <1>0, <1>1
<1> QED BY <1>4, <1>5 DEF N

(* Sets that start with A, each determined by the one before.              *)
Rounds(S, A, F, R) ==
    R \in [Nat -> SUBSET S] /\ R[0] = A /\ \A n \in Nat : R[n + 1] = F[R[n]]

(* There are such sets, whatever determines the next one.                  *)
LEMMA RoundsExist ==
    ASSUME NEW S, NEW A \in SUBSET S, NEW F \in [SUBSET S -> SUBSET S]
    PROVE  \E R : Rounds(S, A, F, R)
<1> DEFINE Is(f, m) == /\ f \in [0 .. m -> SUBSET S] /\ f[0] = A
                       /\ \A k \in 0 .. m : k # 0 => f[k] = F[f[k - 1]]
           R == [n \in Nat |-> (CHOOSE f : Is(f, n))[n]]
<1>1. ASSUME NEW n \in Nat PROVE \E f : Is(f, n)
  <2> DEFINE B == {m \in Nat : ~\E f : Is(f, m)}
  <2> HIDE DEF Is
  <2>1. SUFFICES ASSUME B # {} PROVE FALSE
    OBVIOUS
  <2>2. PICK m \in B : \A x \in B : m <= x
    BY <2>1, SmallestOf
  <2>3. m # 0
    <3>1. Is([k \in 0 .. 0 |-> A], 0)
      BY DEF Is
    <3> QED BY <2>2, <3>1
  <2>4. m - 1 \in Nat /\ m - 1 \notin B
    BY <2>2, <2>3
  <2>5. PICK f : Is(f, m - 1)
    BY <2>4
  <2> DEFINE g == [k \in 0 .. m |-> IF k = m THEN F[f[m - 1]] ELSE f[k]]
  <2>6. f \in [0 .. m - 1 -> SUBSET S] /\ m - 1 \in 0 .. m - 1
    BY <2>4, <2>5 DEF Is
  <2>7. F[f[m - 1]] \in SUBSET S
    BY <2>6
  <2>8. g \in [0 .. m -> SUBSET S]
    <3>1. \A k \in 0 .. m : k # m => k \in 0 .. m - 1
      BY <2>2
    <3> QED BY <2>6, <2>7, <3>1
  <2>9. g[0] = A
    BY <2>2, <2>3, <2>5 DEF Is
  <2>10. ASSUME NEW k \in 0 .. m, k # 0 PROVE g[k] = F[g[k - 1]]
    <3>1. g[k - 1] = f[k - 1]
      BY <2>2, <2>10
    <3>2. CASE k = m
      BY <3>1, <3>2
    <3>3. CASE k # m
      <4>1. k \in 0 .. m - 1
        BY <2>2, <3>3
      <4> QED BY <2>5, <2>10, <3>1, <3>3, <4>1 DEF Is
    <3> QED BY <3>2, <3>3
  <2> HIDE DEF g
  <2>11. Is(g, m)
    BY <2>8, <2>9, <2>10 DEF Is
  <2> QED BY <2>2, <2>11
<1>2. ASSUME NEW m \in Nat, NEW n \in Nat, NEW f, NEW g, Is(f, m), Is(g, n)
      PROVE  \A k \in Nat : k <= m /\ k <= n => f[k] = g[k]
  <2> DEFINE B == {k \in Nat : k <= m /\ k <= n /\ f[k] # g[k]}
  <2>1. SUFFICES ASSUME B # {} PROVE FALSE
    OBVIOUS
  <2>2. PICK k \in B : \A x \in B : k <= x
    <3> HIDE DEF B
    <3>1. B \in SUBSET Nat
      BY DEF B
    <3> QED BY <2>1, <3>1, SmallestOf
  <2>3. k # 0
    BY <1>2, <2>2
  <2>4. f[k] = F[f[k - 1]] /\ g[k] = F[g[k - 1]]
    BY <1>2, <2>2, <2>3
  <2>5. k - 1 \in Nat /\ k - 1 \notin B /\ k - 1 <= m /\ k - 1 <= n
    BY <2>2, <2>3
  <2>6. f[k - 1] = g[k - 1]
    BY <2>5
  <2> QED BY <2>2, <2>4, <2>6
<1>3. ASSUME NEW n \in Nat
      PROVE  R[n] \in SUBSET S /\ (n = 0 => R[n] = A) /\ R[n + 1] = F[R[n]]
  <2> DEFINE f == CHOOSE x : Is(x, n)
             g == CHOOSE x : Is(x, n + 1)
  <2>0. n + 1 \in Nat
    OBVIOUS
  <2> HIDE DEF Is
  <2>1. Is(f, n) /\ Is(g, n + 1)
    BY <1>1, <2>0
  <2>3. R[n] = f[n] /\ R[n + 1] = g[n + 1]
    BY <2>0
  <2> HIDE DEF f, g, R
  <2>4. f[n] = g[n]
    BY <1>2, <2>0, <2>1
  <2>5. g[n + 1] = F[g[n]]
    <3>1. n + 1 \in 0 .. n + 1 /\ n + 1 # 0 /\ (n + 1) - 1 = n
      OBVIOUS
    <3> QED BY <2>1, <3>1 DEF Is
  <2>6. f[n] \in SUBSET S /\ (n = 0 => f[n] = A)
    BY <2>1 DEF Is
  <2> QED BY <2>3, <2>4, <2>5, <2>6
<1> HIDE DEF R
<1>4. R \in [Nat -> SUBSET S]
  <2>1. R = [n \in Nat |-> R[n]]
    <3> HIDE DEF Is
    <3> QED BY DEF R
  <2> QED BY <1>3, <2>1
<1>5. Rounds(S, A, F, R)
  BY <1>3, <1>4 DEF Rounds
<1> QED BY <1>5

(* The stub record of a router's interface: for a LAN without another      *)
(* router, or for the far end of a point-to-point link to a router.        *)
StubOf(t, d) ==
    /\ Advertised(t, d)
    /\ \/ t.kind[Interface(t, d).ch] = "lan" /\ ~AnotherRouterOnLink(t, d)
       \/ t.kind[Interface(t, d).ch] = "p2p" /\ GetAdjacent(t, d)[1] \in t.routers

StubRecord(t, d) ==
    LinkRecord("StubNetwork",
               IF t.kind[Interface(t, d).ch] = "lan" THEN CombineMask(Interface(t, d).addr, SubnetMask)
               ELSE Interface(t, GetAdjacent(t, d)).addr,
               SubnetMask, Interface(t, d).metric)

(* These are the stub records of a Router-LSA.                             *)
LEMMA StubRecordsAre ==
    ASSUME NEW t, WellFormedTopology(t), NEW n \in t.routers, NEW l
    PROVE  l \in Listed(RouterLSA(t, n).links) /\ l.type = "StubNetwork"
             <=> \E d \in Devices(t) : d[1] = n /\ StubOf(t, d) /\ l = StubRecord(t, d)
<1>0. Listed(<< >>) = {} /\ (\A x : Listed(<< x >>) = {x}) /\ \A x, y : Listed(<< x, y >>) = {x, y}
  BY DEF Listed
<1>1. ASSUME NEW d \in Devices(t)
      PROVE  l \in Listed(LinkRecords(t, d)) /\ l.type = "StubNetwork"
                <=> StubOf(t, d) /\ l = StubRecord(t, d)
  <2>0. StubRecord(t, d).type = "StubNetwork" /\ t.kind[Interface(t, d).ch] \in {"lan", "p2p"}
    BY DeviceFacts DEF StubRecord, LinkRecord
  <2>1. CASE ~Advertised(t, d)
    BY <1>0, <2>1 DEF LinkRecords, StubOf
  <2>2. CASE Advertised(t, d) /\ t.kind[Interface(t, d).ch] = "lan"
    <3>1. CASE AnotherRouterOnLink(t, d)
      <4>1. LinkRecords(t, d) = << TransitRecord(t, d) >> /\ ~StubOf(t, d)
        BY <2>2, <3>1 DEF LinkRecords, ProcessSingleBroadcastLink, TransitRecord, StubOf
      <4>2. TransitRecord(t, d).type # "StubNetwork"
        BY DEF TransitRecord, LinkRecord
      <4> QED BY <1>0, <4>1, <4>2
    <3>2. CASE ~AnotherRouterOnLink(t, d)
      <4>1. LinkRecords(t, d) = << StubRecord(t, d) >> /\ StubOf(t, d)
        BY <2>2, <3>2 DEF LinkRecords, ProcessSingleBroadcastLink, StubRecord, StubOf
      <4> QED BY <1>0, <2>0, <4>1
    <3> QED BY <3>1, <3>2
  <2>3. CASE Advertised(t, d) /\ t.kind[Interface(t, d).ch] = "p2p"
    <3>1. StubRecord(t, d) = LinkRecord("StubNetwork", Interface(t, GetAdjacent(t, d)).addr,
                                        SubnetMask, Interface(t, d).metric)
      BY <2>3 DEF StubRecord
    <3>2. LinkRecords(t, d) = IF GetAdjacent(t, d)[1] \notin t.routers THEN << >>
                              ELSE IF Interface(t, GetAdjacent(t, d)).up
                                   THEN << RouterRecord(t, d), StubRecord(t, d) >>
                                   ELSE << StubRecord(t, d) >>
      BY <2>3, <3>1 DEF LinkRecords, ProcessPointToPointLink, RouterRecord
    <3>3. StubOf(t, d) <=> GetAdjacent(t, d)[1] \in t.routers
      BY <2>3 DEF StubOf
    <3>4. RouterRecord(t, d).type # "StubNetwork"
      BY DEF RouterRecord, LinkRecord
    <3>5. GetAdjacent(t, d)[1] \notin t.routers => LinkRecords(t, d) = << >>
      BY <3>2
    <3>6. GetAdjacent(t, d)[1] \in t.routers =>
              LinkRecords(t, d) \in {<< RouterRecord(t, d), StubRecord(t, d) >>, << StubRecord(t, d) >>}
      BY <3>2
    <3>7. GetAdjacent(t, d)[1] \in t.routers =>
              /\ StubRecord(t, d) \in Listed(LinkRecords(t, d))
              /\ \A x \in Listed(LinkRecords(t, d)) : x = RouterRecord(t, d) \/ x = StubRecord(t, d)
      BY <1>0, <3>6
    <3> QED BY <1>0, <2>0, <3>3, <3>4, <3>5, <3>7
  <2> QED BY <2>0, <2>1, <2>2, <2>3
<1>2. \A j \in DOMAIN t.ifs[n] : <<n, j>> \in Devices(t)
  BY RouterLSAFacts
<1>3. l \in Listed(RouterLSA(t, n).links)
        <=> \E j \in DOMAIN t.ifs[n] : l \in Listed(LinkRecords(t, <<n, j>>))
  <2>1. Listed(RouterLSA(t, n).links)
          = UNION {Listed(LinkRecords(t, <<n, j>>)) : j \in DOMAIN t.ifs[n]}
    BY RouterLSAFacts
  <2> QED BY <2>1
<1>4. \A d \in Devices(t) : d[1] = n => d[2] \in DOMAIN t.ifs[n] /\ d = <<n, d[2]>>
  BY DeviceFacts
<1>5. ASSUME l \in Listed(RouterLSA(t, n).links), l.type = "StubNetwork"
      PROVE  \E d \in Devices(t) : d[1] = n /\ StubOf(t, d) /\ l = StubRecord(t, d)
  <2>1. PICK j \in DOMAIN t.ifs[n] : l \in Listed(LinkRecords(t, <<n, j>>))
    BY <1>3, <1>5
  <2>2. PICK d \in Devices(t) : d = <<n, j>>
    BY <1>2
  <2>3. d[1] = n /\ l \in Listed(LinkRecords(t, d))
    BY <2>1, <2>2
  <2> QED BY <1>1, <1>5, <2>3
<1>6. ASSUME NEW d \in Devices(t), d[1] = n, StubOf(t, d), l = StubRecord(t, d)
      PROVE  l \in Listed(RouterLSA(t, n).links) /\ l.type = "StubNetwork"
  <2>1. l \in Listed(LinkRecords(t, d)) /\ l.type = "StubNetwork"
    BY <1>1, <1>6
  <2>2. d[2] \in DOMAIN t.ifs[n] /\ d = <<n, d[2]>>
    BY <1>4, <1>6
  <2>3. l \in Listed(LinkRecords(t, <<n, d[2]>>))
    BY <2>1, <2>2
  <2> QED BY <1>3, <2>1, <2>2, <2>3
<1> QED BY <1>5, <1>6

(* The records of a router's vertex.                                       *)
LEMMA RecordsAre ==
    ASSUME Built, NEW n \in net.routers, NEW l
    PROVE  /\ l \in Records(RouterId(net, n), "PointToPoint") <=>
                 \E d \in Devices(net) : d[1] = n /\ LinksRouters(net, d) /\ l = RouterRecord(net, d)
           /\ l \in Records(RouterId(net, n), "StubNetwork") <=>
                 \E d \in Devices(net) : d[1] = n /\ StubOf(net, d) /\ l = StubRecord(net, d)
<1> DEFINE u == RouterId(net, n)
           lsa == RouterLSA(net, n)
<1>0. WellFormedTopology(net) /\ lsdb[u] = lsa
  BY VertexFacts DEF Built
<1>1. lsa.links \in Seq(LinkRecordType)
  BY <1>0, RouterLSAFacts DEF LSAType
<1>2. ASSUME NEW type
      PROVE  l \in Records(u, type) <=> l \in Listed(lsa.links) /\ l.type = type
  <2> HIDE DEF u, lsa
  <2>1. DOMAIN lsa.links = 1 .. Len(lsa.links)
    BY <1>1
  <2> QED BY <1>0, <2>1 DEF Records, Listed
<1>3. l \in Listed(lsa.links) /\ l.type = "PointToPoint" <=>
          \E d \in Devices(net) : d[1] = n /\ LinksRouters(net, d) /\ l = RouterRecord(net, d)
  <2>1. \A d : RouterRecord(net, d).type = "PointToPoint" /\ TransitRecord(net, d).type = "TransitNetwork"
    BY DEF RouterRecord, TransitRecord, LinkRecord
  <2>2. /\ l \in Listed(lsa.links) =>
                 \/ l.type = "StubNetwork"
                 \/ \E d \in Devices(net) : /\ d[1] = n
                                            /\ \/ OnTransit(net, d) /\ l = TransitRecord(net, d)
                                               \/ LinksRouters(net, d) /\ l = RouterRecord(net, d)
        /\ \A d \in Devices(net) : d[1] = n /\ LinksRouters(net, d) =>
                 RouterRecord(net, d) \in Listed(lsa.links)
    BY <1>0, RouterRecords
  <2> HIDE DEF lsa
  <2> QED BY <2>1, <2>2
<1>4. l \in Listed(lsa.links) /\ l.type = "StubNetwork"
          <=> \E d \in Devices(net) : d[1] = n /\ StubOf(net, d) /\ l = StubRecord(net, d)
  BY <1>0, StubRecordsAre
<1> QED BY <1>2, <1>3, <1>4

-----------------------------------------------------------------------------
(***************************************************************************)
(* The routes of a finished calculation.                                   *)
(***************************************************************************)
(* A hop is over a link that is up at both ends.                           *)
LEMMA HopLink ==
    ASSUME Built, Ordinary, node \in net.routers, NEW d \in Devices(net), NEW x \in Devices(net),
           Hop(d, x)
    PROVE  /\ Interface(net, x).ch = Interface(net, d).ch
           /\ Advertised(net, d) /\ Interface(net, x).up
<1>0. WellFormedTopology(net)
  BY DEF Built
<1>1. CASE OnTransit(net, d)
  <2>1. /\ OnTransit(net, x) /\ d[1] = node /\ x[1] \in net.routers
        /\ FindDesignatedRouterForLink(net, d) = FindDesignatedRouterForLink(net, x)
    BY <1>1 DEF Hop, OnTransit, LinksRouters
  <2> QED BY <1>1, <2>1, SameNetwork DEF OnTransit, Advertised
<1>2. CASE LinksRouters(net, d)
  <2>1. x = GetAdjacent(net, d)
    BY <1>2 DEF Hop, OnTransit, LinksRouters
  <2> QED BY <1>0, <1>2, <2>1, AdjacentFacts DEF LinksRouters
<1> QED BY <1>1, <1>2 DEF Hop

(* Every vertex of the tree has an exit: it has one through a parent.      *)
LEMMA ExitsExist ==
    ASSUME Finished, NEW w \in InTree \ {root}
    PROVE  exits[w] # {}
<1> DEFINE T == {Depth(u) : u \in {z \in InTree \ {root} : exits[z] = {}}}
<1> SUFFICES ASSUME exits[w] = {} PROVE FALSE
  OBVIOUS
<1>0. /\ dist \in [Ids -> Nat] /\ InTree \subseteq Ids /\ Built /\ Ordinary /\ WellFormedTopology(net)
      /\ Building /\ node \in net.routers /\ root = RouterId(net, node) /\ root \notin NetworkVertices
      /\ \A n \in net.routers : RouterId(net, n) = root => n = node
  BY FinishedRoot DEF Finished, Built
<1>1. \A u \in InTree : Depth(u) \in Nat
  BY <1>0 DEF Depth
<1>2. T \in SUBSET Nat /\ T # {}
  BY <1>1
<1>3. PICK m \in T : \A k \in T : m <= k
  BY <1>2, SmallestOf
<1>4. PICK u \in InTree \ {root} : exits[u] = {} /\ m = Depth(u)
  BY <1>3
<1>5. u \in Ids \ {root} /\ Known(u)
  BY <1>0, <1>4 DEF InTree, Known
<1>6. ASSUME NEW p \in parents[u], NEW exit, Via(p, u, exit) PROVE FALSE
  BY <1>4, <1>5, <1>6 DEF Finished, ExitsFollow
<1>7. PICK p \in parents[u] : TRUE
  BY <1>0, <1>5 DEF Finished, Dijkstra, ParentsAreTight
<1>8. PICK e \in Edges : e[1] = p /\ e[2] = u /\ p \in InTree
  BY <1>4, <1>7, ParentEdge
<1>9. CASE p = root
  <2>1. ASSUME NEW d \in Devices(net), RouterEdge(d, e) PROVE FALSE
    <3>1. FromRoot(u, <<Interface(net, GetAdjacent(net, d)).addr, d[2]>>)
      BY <1>0, <1>8, <1>9, <2>1 DEF FromRoot, RouterEdge
    <3> QED BY <1>6, <1>9, <3>1 DEF Via
  <2>2. ASSUME NEW d \in Devices(net), TransitEdge(d, e) PROVE FALSE
    <3>1. FromRoot(u, <<ZeroAddress, d[2]>>)
      BY <1>0, <1>8, <1>9, <2>2 DEF FromRoot, TransitEdge
    <3> QED BY <1>6, <1>9, <3>1 DEF Via
  <2>3. ASSUME NEW x \in Devices(net), NEW d \in Devices(net), NetworkEdge(x, d, e) PROVE FALSE
    BY <1>0, <1>8, <1>9, <2>3, VertexFacts DEF NetworkEdge
  <2> QED BY <1>0, <2>1, <2>2, <2>3, EdgeComesFrom
<1>10. CASE p # root /\ p \in NetworkVertices /\ root \in parents[p]
  <2>1. PICK f \in Edges : f[1] = root /\ f[2] = p
    <3>1. p \in InTree \ {root}
      BY <1>8, <1>10
    <3> QED BY <1>10, <3>1, ParentEdge
  <2>2. PICK d \in Devices(net) :
            /\ d[1] = node /\ OnTransit(net, d) /\ p = FindDesignatedRouterForLink(net, d)
    BY <1>0, <1>10, <2>1, IntoNetwork
  <2>3. ASSUME NEW c \in Devices(net), c[1] \in net.routers, e[1] = RouterId(net, c[1]) PROVE FALSE
    BY <1>0, <1>8, <1>10, <2>3, VertexFacts
  <2>4. PICK y, x \in Devices(net) : NetworkEdge(y, x, e)
    BY <1>0, <2>3, EdgeComesFrom DEF RouterEdge, TransitEdge
  <2>5. /\ x[1] \in net.routers /\ OnTransit(net, x) /\ u = RouterId(net, x[1])
        /\ p = FindDesignatedRouterForLink(net, x)
    BY <1>8, <2>4 DEF NetworkEdge, IsDesignated, FindDesignatedRouterForLink
  <2>6. Across(p, u, <<Interface(net, x).addr, d[2]>>)
    BY <2>2, <2>5 DEF Across
  <2> QED BY <1>6, <1>10, <2>6 DEF Via
<1>11. CASE p # root /\ ~(p \in NetworkVertices /\ root \in parents[p])
  <2>1. p \in InTree /\ Depth(p) \in Nat /\ Depth(u) \in Nat /\ Depth(p) < Depth(u)
    BY <1>4, <1>7, ParentsRankBefore
  <2>2. ~(Depth(u) <= Depth(p))
    BY <2>1
  <2>3. exits[p] # {}
    BY <1>3, <1>4, <1>11, <2>1, <2>2
  <2> QED BY <1>6, <1>11, <2>3 DEF Via
<1> QED BY <1>9, <1>10, <1>11

(* Over an exit the root delivers into its own network, or hands over to a *)
(* router that is nearer.                                                  *)
LEMMA ExitsLead ==
    ASSUME Finished, NEW w \in InTree \ {root}, NEW exit \in exits[w]
    PROVE  \/ \E d \in Devices(net) : /\ d[1] = node /\ OnTransit(net, d)
                                      /\ w = FindDesignatedRouterForLink(net, d)
                                      /\ exit = <<ZeroAddress, d[2]>>
           \/ HopTo(w, exit)
<1>0. Built
  BY DEF Finished
<1>1. Direct(w, exit) \/ HopTo(w, exit)
  BY FinishedExits
<1>2. ASSUME Direct(w, exit)
      PROVE  \E d \in Devices(net) : /\ d[1] = node /\ OnTransit(net, d)
                                     /\ w = FindDesignatedRouterForLink(net, d)
                                     /\ exit = <<ZeroAddress, d[2]>>
  <2>1. \A n \in net.routers : w # RouterId(net, n)
    BY <1>0, <1>2, VertexFacts DEF Direct
  <2> QED BY <1>2, <2>1 DEF Direct, FromRoot, LinksRouters
<1> QED BY <1>1, <1>2

(* No exit has a negative interface id: each gives a route.                *)
LEMMA RoutesViaAre ==
    ASSUME Finished, NEW w \in InTree \ {root}, NEW a, NEW m, NEW r
    PROVE  r \in RoutesVia(w, a, m) <=> \E exit \in exits[w] : r = Route(CombineMask(a, m), m, exit)
<1>1. ASSUME NEW exit \in exits[w] PROVE exit[2] >= 0
  <2>1. PICK d \in Devices(net) : \E x : exit = <<x, d[2]>>
    BY ExitsLead DEF HopTo
  <2>2. d[2] \in Nat
    BY DeviceFacts DEF Finished, Built
  <2> QED BY <2>1, <2>2
<1> QED BY <1>1 DEF RoutesVia

(* The vertex whose routes lead to a device.                               *)
Target(d) ==
    IF OnTransit(net, d) THEN FindDesignatedRouterForLink(net, d) ELSE RouterId(net, d[1])

(* The host routes lead to the near ends of the routers' links.            *)
LEMMA HostRoutesAre ==
    ASSUME Finished, NEW r
    PROVE  HostRoute(r) <=>
              \E c \in Devices(net) :
                 /\ c[1] \in net.routers /\ LinksRouters(net, c)
                 /\ RouterId(net, c[1]) \in InTree \ {root}
                 /\ \E exit \in exits[RouterId(net, c[1])] :
                       r = Route(Interface(net, c).addr, HostMask, exit)
<1>0. Built /\ WellFormedTopology(net) /\ InTree \subseteq Ids
  BY FinishedRoot DEF Finished, Built
<1>1. ASSUME NEW c \in Devices(net)
      PROVE  /\ CombineMask(RouterRecord(net, c).linkData, HostMask) = Interface(net, c).addr
  <2>1. Interface(net, c).addr \in Nat
    BY <1>0, DeviceFacts
  <2> QED BY <2>1, CombineMaskFacts DEF RouterRecord, LinkRecord
<1>2. ASSUME HostRoute(r)
      PROVE  \E c \in Devices(net) :
                /\ c[1] \in net.routers /\ LinksRouters(net, c)
                /\ RouterId(net, c[1]) \in InTree \ {root}
                /\ \E exit \in exits[RouterId(net, c[1])] :
                      r = Route(Interface(net, c).addr, HostMask, exit)
  <2>1. PICK u \in InTree \ (NetworkVertices \cup {root}) : r \in SPFIntraAddRouter(u)
    BY <1>2 DEF HostRoute
  <2>2. PICK n \in net.routers : u = RouterId(net, n)
    BY <1>0, <2>1, VertexFacts
  <2>3. PICK l \in Records(u, "PointToPoint") : r \in RoutesVia(u, l.linkData, HostMask)
    BY <2>1 DEF SPFIntraAddRouter
  <2>4. PICK c \in Devices(net) : c[1] = n /\ LinksRouters(net, c) /\ l = RouterRecord(net, c)
    BY <1>0, <2>2, <2>3, RecordsAre
  <2>5. u \in InTree \ {root}
    BY <2>1
  <2>6. PICK exit \in exits[u] : r = Route(CombineMask(l.linkData, HostMask), HostMask, exit)
    BY <2>3, <2>5, RoutesViaAre
  <2> QED BY <1>1, <2>2, <2>4, <2>5, <2>6
<1>3. ASSUME NEW c \in Devices(net), c[1] \in net.routers, LinksRouters(net, c),
             RouterId(net, c[1]) \in InTree \ {root}, NEW exit \in exits[RouterId(net, c[1])],
             r = Route(Interface(net, c).addr, HostMask, exit)
      PROVE  HostRoute(r)
  <2>1. RouterRecord(net, c) \in Records(RouterId(net, c[1]), "PointToPoint")
    BY <1>0, <1>3, RecordsAre
  <2>2. RouterId(net, c[1]) \notin NetworkVertices
    BY <1>0, <1>3, VertexFacts
  <2>3. r \in RoutesVia(RouterId(net, c[1]), RouterRecord(net, c).linkData, HostMask)
    BY <1>1, <1>3, RoutesViaAre
  <2>4. r \in SPFIntraAddRouter(RouterId(net, c[1]))
    BY <2>1, <2>3 DEF SPFIntraAddRouter
  <2> QED BY <1>3, <2>2, <2>4 DEF HostRoute
<1> QED BY <1>2, <1>3

(* The vertex that stands for the network of a transit device.             *)
LEMMA TransitTarget ==
    ASSUME Built, Ordinary, Subnetted, NEW c \in Devices(net), c[1] \in net.routers,
           OnTransit(net, c)
    PROVE  /\ Target(c) \in NetworkVertices
           /\ CombineMask(Target(c), SubnetMask) = CombineMask(Interface(net, c).addr, SubnetMask)
<1>1. PICK x \in Devices(net) : /\ Interface(net, x).ch = Interface(net, c).ch
                                /\ FindDesignatedRouterForLink(net, c) = Interface(net, x).addr
                                /\ Interface(net, x).addr \in NetworkVertices
  BY TransitFacts
<1>2. IsMatch(SubnetMask, Interface(net, x).addr, Interface(net, c).addr)
  BY <1>1 DEF Subnetted
<1> QED BY <1>1, <1>2 DEF Target, IsMatch

(* What a stub record is for.                                              *)
LEMMA StubTarget ==
    ASSUME Built, Ordinary, Subnetted, NEW c \in Devices(net), c[1] \in net.routers,
           StubOf(net, c)
    PROVE  /\ Target(c) = RouterId(net, c[1]) /\ StubRecord(net, c).linkData = SubnetMask
           /\ CombineMask(StubRecord(net, c).linkId, SubnetMask)
                = CombineMask(Interface(net, c).addr, SubnetMask)
<1>0. WellFormedTopology(net)
  BY DEF Built
<1>1. Target(c) = RouterId(net, c[1])
  BY DEF Target, StubOf, OnTransit
<1>2. StubRecord(net, c).linkData = SubnetMask
  BY DEF StubRecord, LinkRecord
<1>3. CASE net.kind[Interface(net, c).ch] = "lan"
  <2>1. Interface(net, c).addr \in Nat
    BY <1>0, DeviceFacts
  <2>2. StubRecord(net, c).linkId = CombineMask(Interface(net, c).addr, SubnetMask)
    BY <1>3 DEF StubRecord, LinkRecord
  <2> QED BY <1>1, <1>2, <2>1, <2>2, CombineMaskFacts
<1>4. CASE net.kind[Interface(net, c).ch] = "p2p"
  <2>1. StubRecord(net, c).linkId = Interface(net, GetAdjacent(net, c)).addr
    BY <1>4 DEF StubRecord, LinkRecord
  <2>2. /\ GetAdjacent(net, c) \in Devices(net)
        /\ Interface(net, GetAdjacent(net, c)).ch = Interface(net, c).ch
    BY <1>0, <1>4, AdjacentFacts
  <2>3. IsMatch(SubnetMask, Interface(net, GetAdjacent(net, c)).addr, Interface(net, c).addr)
    BY <2>2 DEF Subnetted
  <2> QED BY <1>1, <1>2, <2>1, <2>3 DEF IsMatch
<1> QED BY <1>3, <1>4 DEF StubOf

(* A device in global routing has a transit or a stub record.              *)
LEMMA InGlobalRoutingIs ==
    ASSUME Built, NEW c \in Devices(net)
    PROVE  InGlobalRouting(c) <=> c[1] \in net.routers /\ (OnTransit(net, c) \/ StubOf(net, c))
<1>1. net.kind[Interface(net, c).ch] \in {"p2p", "lan"}
  BY DeviceFacts DEF Built
<1> QED BY <1>1 DEF InGlobalRouting, OnTransit, StubOf

(* The network routes lead to the networks of the devices in global        *)
(* routing.                                                                *)
LEMMA NetworkRoutesAre ==
    ASSUME Finished, Visited(0) = InTree, NEW r
    PROVE  TransitRoute(r) \/ StubRoute(r) <=>
              \E c \in Devices(net) :
                 /\ InGlobalRouting(c) /\ Target(c) \in InTree \ {root}
                 /\ \E exit \in exits[Target(c)] :
                       r = Route(CombineMask(Interface(net, c).addr, SubnetMask), SubnetMask, exit)
<1> DEFINE Led(c) == /\ InGlobalRouting(c) /\ Target(c) \in InTree \ {root}
                     /\ \E exit \in exits[Target(c)] :
                           r = Route(CombineMask(Interface(net, c).addr, SubnetMask), SubnetMask, exit)
<1>0. /\ Built /\ WellFormedTopology(net) /\ InTree \subseteq Ids /\ Ordinary /\ Subnetted
      /\ root \notin NetworkVertices /\ pc = "walk"
  BY FinishedRoot DEF Finished, Built
<1>1. ASSUME TransitRoute(r) PROVE \E c \in Devices(net) : Led(c)
  <2>1. PICK w \in InTree \cap NetworkVertices : r \in SPFIntraAddTransit(w)
    BY <1>1 DEF TransitRoute
  <2>2. PICK x \in Devices(net) : IsDesignated(net, x) /\ w = Interface(net, x).addr
    BY <1>0, <2>1, VertexFacts
  <2>3. x[1] \in net.routers /\ OnTransit(net, x) /\ Target(x) = w
    BY <2>2 DEF IsDesignated, Target
  <2>4. w \in InTree \ {root}
    BY <1>0, <2>1
  <2>5. PICK exit \in exits[w] : r = Route(CombineMask(w, SubnetMask), SubnetMask, exit)
    BY <2>1, <2>4, RoutesViaAre DEF SPFIntraAddTransit
  <2>6. InGlobalRouting(x)
    BY <1>0, <2>3, InGlobalRoutingIs
  <2> QED BY <2>2, <2>3, <2>4, <2>5, <2>6
<1>2. ASSUME StubRoute(r) PROVE \E c \in Devices(net) : Led(c)
  <2>1. PICK u \in InTree : r \in VisitRoutes(u, 0)
    BY <1>2 DEF StubRoute
  <2>2. u \notin NetworkVertices /\ r \in SPFIntraAddStub(u)
    BY <2>1 DEF VisitRoutes
  <2>3. PICK l \in Records(u, "StubNetwork") : r \in RoutesVia(u, l.linkId, l.linkData)
    BY <2>2 DEF SPFIntraAddStub
  <2>4. u \in InTree \ {root}
    BY <2>1, <2>2 DEF SPFIntraAddStub
  <2>5. PICK n \in net.routers : u = RouterId(net, n)
    BY <1>0, <2>2, <2>4, VertexFacts
  <2>6. PICK c \in Devices(net) : c[1] = n /\ StubOf(net, c) /\ l = StubRecord(net, c)
    BY <1>0, <2>3, <2>5, RecordsAre
  <2>7. PICK exit \in exits[u] : r = Route(CombineMask(l.linkId, l.linkData), l.linkData, exit)
    BY <2>3, <2>4, RoutesViaAre
  <2>8. /\ Target(c) = u /\ l.linkData = SubnetMask
        /\ CombineMask(l.linkId, SubnetMask) = CombineMask(Interface(net, c).addr, SubnetMask)
    BY <1>0, <2>5, <2>6, StubTarget
  <2>9. InGlobalRouting(c)
    BY <1>0, <2>6, InGlobalRoutingIs
  <2> QED BY <2>4, <2>7, <2>8, <2>9
<1>3. ASSUME NEW c \in Devices(net), Led(c) PROVE TransitRoute(r) \/ StubRoute(r)
  <2>1. PICK exit \in exits[Target(c)] :
            r = Route(CombineMask(Interface(net, c).addr, SubnetMask), SubnetMask, exit)
    BY <1>3
  <2>2. c[1] \in net.routers /\ (OnTransit(net, c) \/ StubOf(net, c)) /\ Target(c) \in InTree \ {root}
    BY <1>0, <1>3, InGlobalRoutingIs
  <2>3. CASE OnTransit(net, c)
    <3>1. /\ Target(c) \in NetworkVertices
          /\ CombineMask(Target(c), SubnetMask) = CombineMask(Interface(net, c).addr, SubnetMask)
      BY <1>0, <2>2, <2>3, TransitTarget
    <3>2. r \in RoutesVia(Target(c), Target(c), SubnetMask)
      BY <2>1, <2>2, <3>1, RoutesViaAre
    <3> QED BY <2>2, <3>1, <3>2 DEF TransitRoute, SPFIntraAddTransit
  <2>4. CASE StubOf(net, c)
    <3>1. /\ Target(c) = RouterId(net, c[1]) /\ StubRecord(net, c).linkData = SubnetMask
          /\ CombineMask(StubRecord(net, c).linkId, SubnetMask)
                = CombineMask(Interface(net, c).addr, SubnetMask)
      BY <1>0, <2>2, <2>4, StubTarget
    <3>2. r \in RoutesVia(Target(c), StubRecord(net, c).linkId, StubRecord(net, c).linkData)
      BY <2>1, <2>2, <3>1, RoutesViaAre
    <3>3. StubRecord(net, c) \in Records(Target(c), "StubNetwork") /\ Target(c) \notin NetworkVertices
      BY <1>0, <2>2, <2>4, <3>1, RecordsAre, VertexFacts
    <3>4. r \in SPFIntraAddStub(Target(c))
      BY <2>2, <3>2, <3>3 DEF SPFIntraAddStub
    <3>5. r \in VisitRoutes(Target(c), 0)
      BY <3>3, <3>4 DEF VisitRoutes
    <3> QED BY <1>0, <2>2, <3>5 DEF StubRoute
  <2> QED BY <2>2, <2>3, <2>4
<1> QED BY <1>1, <1>2, <1>3

(* The host routes that match the address of a device are those to it.     *)
LEMMA HostMatches ==
    ASSUME Finished, CurrentTables, NEW d \in Devices(net), NEW r
    PROVE  r \in Matching(routes[node].host, Interface(net, d).addr) <=>
              /\ d[1] \in net.routers /\ LinksRouters(net, d)
              /\ RouterId(net, d[1]) \in InTree \ {root}
              /\ \E exit \in exits[RouterId(net, d[1])] :
                    r = Route(Interface(net, d).addr, HostMask, exit)
<1>0. WellFormedTopology(net) /\ Building
  BY FinishedRoot DEF Finished, Built
<1>1. r \in routes[node].host <=> HostRoute(r)
  BY <1>0 DEF CurrentTables
<1>2. \A c \in Devices(net) : Interface(net, c).addr \in Nat
                              /\ (Interface(net, c).addr = Interface(net, d).addr => c = d)
  BY <1>0, DeviceFacts DEF WellFormedTopology
<1>3. ASSUME NEW c \in Devices(net), NEW exit, r = Route(Interface(net, c).addr, HostMask, exit)
      PROVE  IsMatch(r.mask, Interface(net, d).addr, r.dest) <=> c = d
  <2>1. r.mask = HostMask /\ r.dest = Interface(net, c).addr
    BY <1>3 DEF Route
  <2>2. /\ CombineMask(Interface(net, c).addr, HostMask) = Interface(net, c).addr
        /\ CombineMask(Interface(net, d).addr, HostMask) = Interface(net, d).addr
    BY <1>2, CombineMaskFacts
  <2> QED BY <1>2, <2>1, <2>2 DEF IsMatch
<1>4. r \in Matching(routes[node].host, Interface(net, d).addr)
        <=> HostRoute(r) /\ IsMatch(r.mask, Interface(net, d).addr, r.dest)
  BY <1>1 DEF Matching
<1> QED BY <1>3, <1>4, HostRoutesAre

(* The network routes that match it are those to the link it is on.        *)
LEMMA NetworkMatches ==
    ASSUME Finished, CurrentTables, Visited(0) = InTree, NEW d \in Devices(net), NEW r
    PROVE  r \in Matching(routes[node].network, Interface(net, d).addr) <=>
              \E c \in Devices(net) :
                 /\ InGlobalRouting(c) /\ Target(c) \in InTree \ {root}
                 /\ Interface(net, c).ch = Interface(net, d).ch
                 /\ \E exit \in exits[Target(c)] :
                       r = Route(CombineMask(Interface(net, c).addr, SubnetMask), SubnetMask, exit)
<1>0. WellFormedTopology(net) /\ Building /\ Subnetted
  BY FinishedRoot DEF Finished, Built
<1>1. r \in routes[node].network <=> TransitRoute(r) \/ StubRoute(r)
  BY <1>0 DEF CurrentTables
<1>2. ASSUME NEW c \in Devices(net), NEW exit,
             r = Route(CombineMask(Interface(net, c).addr, SubnetMask), SubnetMask, exit)
      PROVE  IsMatch(r.mask, Interface(net, d).addr, r.dest)
               <=> Interface(net, c).ch = Interface(net, d).ch
  <2>1. r.mask = SubnetMask /\ r.dest = CombineMask(Interface(net, c).addr, SubnetMask)
    BY <1>2 DEF Route
  <2>2. Interface(net, c).addr \in Nat
    BY <1>0, DeviceFacts
  <2>3. CombineMask(r.dest, SubnetMask) = CombineMask(Interface(net, c).addr, SubnetMask)
    BY <2>1, <2>2, CombineMaskFacts
  <2>4. IsMatch(SubnetMask, Interface(net, d).addr, Interface(net, c).addr)
          <=> Interface(net, c).ch = Interface(net, d).ch
    BY <1>0 DEF Subnetted
  <2> QED BY <2>1, <2>3, <2>4 DEF IsMatch
<1>3. r \in Matching(routes[node].network, Interface(net, d).addr)
        <=> (TransitRoute(r) \/ StubRoute(r)) /\ IsMatch(r.mask, Interface(net, d).addr, r.dest)
  BY <1>1 DEF Matching
<1> QED BY <1>2, <1>3, NetworkRoutesAre

(* Devices in global routing on one link are reached over one vertex, but  *)
(* for the two ends of a point-to-point link, which have host routes.      *)
LEMMA OneTarget ==
    ASSUME Built, NEW c \in Devices(net), NEW d \in Devices(net), InGlobalRouting(c),
           InGlobalRouting(d), Interface(net, c).ch = Interface(net, d).ch, ~LinksRouters(net, d)
    PROVE  Target(c) = Target(d)
<1>0. WellFormedTopology(net) /\ net.kind[Interface(net, d).ch] \in {"p2p", "lan"}
  BY DeviceFacts DEF Built
<1> SUFFICES ASSUME c # d PROVE Target(c) = Target(d)
  OBVIOUS
<1>1. /\ c[1] \in net.routers /\ Advertised(net, c) /\ d[1] \in net.routers /\ Advertised(net, d)
      /\ c \in OnChannel(net, Interface(net, d).ch) /\ d \in OnChannel(net, Interface(net, c).ch)
  BY DEF InGlobalRouting, OnChannel
<1>2. CASE net.kind[Interface(net, d).ch] = "lan"
  <2>1. OnTransit(net, c) /\ OnTransit(net, d)
    BY <1>1, <1>2 DEF OnTransit, AnotherRouterOnLink
  <2>2. FindDesignatedRouterForLink(net, c) = FindDesignatedRouterForLink(net, d)
    BY DEF FindDesignatedRouterForLink
  <2> QED BY <2>1, <2>2 DEF Target
<1>3. CASE net.kind[Interface(net, d).ch] = "p2p"
  <2>1. PICK e \in Devices(net) : e # d /\ OnChannel(net, Interface(net, d).ch) = {d, e}
    BY <1>0, <1>3 DEF WellFormedTopology
  <2>2. GetAdjacent(net, d) \in OnChannel(net, Interface(net, d).ch) /\ GetAdjacent(net, d) # d
    BY <1>0, <1>3, AdjacentFacts DEF OnChannel
  <2>3. c = GetAdjacent(net, d)
    BY <1>1, <2>1, <2>2
  <2> QED BY <1>1, <1>3, <2>3 DEF LinksRouters, Advertised
<1> QED BY <1>0, <1>2, <1>3

(* A lookup for a device that is reached over a vertex of the tree finds   *)
(* exits of that vertex.                                                   *)
LEMMA LookupLeads ==
    ASSUME Finished, CurrentTables, Visited(0) = InTree, NEW d \in Devices(net),
           InGlobalRouting(d), Target(d) \in InTree \ {root}
    PROVE  LET found == LookupGlobal(routes[node], Interface(net, d).addr) IN
           /\ found # {}
           /\ \A r \in found : \E exit \in exits[Target(d)] : r.gateway = exit[1] /\ r.interface = exit[2]
<1> DEFINE a == Interface(net, d).addr
           hosts == Matching(routes[node].host, a)
           nets == Matching(routes[node].network, a)
<1>0. Built /\ d[1] \in net.routers
  BY DEF Finished, InGlobalRouting
<1>1. PICK exit \in exits[Target(d)] : TRUE
  BY ExitsExist
<1>2. \A m, n, x : Route(m, n, x).gateway = x[1] /\ Route(m, n, x).interface = x[2]
  BY DEF Route
<1>3. CASE LinksRouters(net, d)
  <2>1. Target(d) = RouterId(net, d[1])
    BY <1>3 DEF Target, OnTransit, LinksRouters
  <2>2. \A r : r \in hosts <=> \E x \in exits[Target(d)] : r = Route(a, HostMask, x)
    BY <1>0, <1>3, <2>1, HostMatches
  <2> HIDE DEF a, hosts
  <2>3. Route(a, HostMask, exit) \in hosts
    BY <1>1, <2>2
  <2>4. LookupGlobal(routes[node], a) = hosts
    BY <2>3 DEF LookupGlobal, hosts
  <2> QED BY <1>2, <2>2, <2>3, <2>4 DEF a
<1>4. CASE ~LinksRouters(net, d)
  <2>1. hosts = {}
    BY <1>4, HostMatches
  <2>2. ASSUME NEW r \in nets PROVE \E x \in exits[Target(d)] : r.gateway = x[1] /\ r.interface = x[2]
    <3>1. PICK c \in Devices(net) :
              /\ InGlobalRouting(c) /\ Target(c) \in InTree \ {root}
              /\ Interface(net, c).ch = Interface(net, d).ch
              /\ \E x \in exits[Target(c)] :
                    r = Route(CombineMask(Interface(net, c).addr, SubnetMask), SubnetMask, x)
      BY <2>2, NetworkMatches
    <3>2. Target(c) = Target(d)
      BY <1>0, <1>4, <3>1, OneTarget
    <3> QED BY <1>2, <3>1, <3>2
  <2>3. Route(CombineMask(a, SubnetMask), SubnetMask, exit) \in nets
    BY <1>1, NetworkMatches
  <2>4. LookupGlobal(routes[node], a) = nets
    BY <2>1, <2>3 DEF LookupGlobal
  <2>5. nets # {}
    BY <2>3
  <2> HIDE DEF nets
  <2> QED BY <2>2, <2>4, <2>5
<1> QED BY <1>3, <1>4

-----------------------------------------------------------------------------
(***************************************************************************)
(* Forwarding.  A route hands over to a router on the link of its          *)
(* interface that is nearer to the vertex t; tables make a router forward  *)
(* when all routes to devices it does not deliver to do.                   *)
(***************************************************************************)
NextHop(n, t, r) ==
    \E d, x \in Devices(net) :
        LET N == DistancesFrom(RouterId(net, n))
            X == DistancesFrom(RouterId(net, x[1]))
        IN  /\ d[1] = n /\ x[1] \in net.routers /\ x[1] # n
            /\ Interface(net, x).ch = Interface(net, d).ch /\ Interface(net, x).up
            /\ t \in DOMAIN X /\ X[t] < N[t]
            /\ r.gateway = Interface(net, x).addr /\ r.interface = d[2]

Forwards(n, tables) ==
    \A d \in Devices(net) :
        /\ InGlobalRouting(d) /\ Target(d) \in DOMAIN DistancesFrom(RouterId(net, n))
        /\ ~Delivers(n, Interface(net, d).addr)
        => LET found == LookupGlobal(tables, Interface(net, d).addr)
           IN  found # {} /\ \A r \in found : NextHop(n, Target(d), r)

(* A node delivers on the links of its interfaces that are up.             *)
LEMMA DeliversOnLink ==
    ASSUME Built, Subnetted, NEW d \in Devices(net), NEW e \in Devices(net), Interface(net, e).up,
           Interface(net, d).ch = Interface(net, e).ch
    PROVE  Delivers(e[1], Interface(net, d).addr)
<1>1. e[2] \in DOMAIN net.ifs[e[1]] /\ Interface(net, e) = net.ifs[e[1]][e[2]]
  BY DeviceFacts DEF Built, Interface
<1>2. IsMatch(SubnetMask, Interface(net, e).addr, Interface(net, d).addr)
  BY DEF Subnetted
<1> QED BY <1>1, <1>2 DEF Delivers

(* A finished calculation has made its router forward.                     *)
LEMMA FinishedForwards ==
    ASSUME Finished, CurrentTables, Visited(0) = InTree
    PROVE  Forwards(node, routes[node])
<1> SUFFICES ASSUME NEW d \in Devices(net), InGlobalRouting(d),
                    Target(d) \in DOMAIN DistancesFrom(RouterId(net, node)),
                    ~Delivers(node, Interface(net, d).addr)
             PROVE  /\ LookupGlobal(routes[node], Interface(net, d).addr) # {}
                    /\ \A r \in LookupGlobal(routes[node], Interface(net, d).addr) :
                          NextHop(node, Target(d), r)
  BY DEF Forwards
<1>0. /\ TypeOK /\ Built /\ Ordinary /\ Subnetted /\ Dijkstra /\ pc = "walk" /\ WellFormedTopology(net)
      /\ root = RouterId(net, node) /\ root \notin NetworkVertices
      /\ \A n \in net.routers : RouterId(net, n) = root => n = node
  BY FinishedRoot DEF Finished, Built
<1>1. DistancesFrom(root) = [w \in InTree |-> dist[w]]
  BY <1>0, WalkShortest
<1>2. d[1] \in net.routers /\ Interface(net, d).up
  BY DEF InGlobalRouting, Advertised
<1>3. Target(d) \in InTree /\ DistancesFrom(RouterId(net, node))[Target(d)] = dist[Target(d)]
  BY <1>0, <1>1
<1>4. Target(d) # root
  <2> SUFFICES ASSUME Target(d) = root PROVE FALSE
    OBVIOUS
  <2>1. ~OnTransit(net, d)
    BY <1>0, <1>2, TransitTarget
  <2>2. d[1] = node
    BY <1>0, <1>2, <2>1 DEF Target
  <2> QED BY <1>0, <1>2, <2>2, DeliversOnLink
<1>5. ASSUME NEW exit \in exits[Target(d)], NEW r, r.gateway = exit[1], r.interface = exit[2]
      PROVE  NextHop(node, Target(d), r)
  <2>1. ASSUME NEW e \in Devices(net), e[1] = node, OnTransit(net, e),
               Target(d) = FindDesignatedRouterForLink(net, e)
        PROVE  FALSE
    <3>0. e[1] \in net.routers
      BY <2>1, FinishedRoot
    <3>1. Target(d) \in NetworkVertices
      <4>1. Target(e) = Target(d)
        BY <2>1 DEF Target
      <4> QED BY <1>0, <2>1, <3>0, <4>1, TransitTarget
    <3>2. OnTransit(net, d)
      BY <1>0, <1>2, <3>1, VertexFacts DEF Target
    <3>3. Target(d) = FindDesignatedRouterForLink(net, d)
      BY <3>2 DEF Target
    <3>4. Interface(net, d).ch = Interface(net, e).ch
      BY <1>0, <1>2, <2>1, <3>0, <3>2, <3>3, SameNetwork
    <3>5. Interface(net, e).up
      BY <2>1 DEF OnTransit, Advertised
    <3> QED BY <1>0, <2>1, <3>4, <3>5, DeliversOnLink
  <2>2. HopTo(Target(d), exit)
    <3>1. Target(d) \in InTree \ {root}
      BY <1>3, <1>4
    <3> QED BY <2>1, <3>1, ExitsLead
  <2>3. PICK e, x \in Devices(net) : /\ Hop(e, x) /\ Starts(e, x, Target(d))
                                     /\ exit = <<Interface(net, x).addr, e[2]>>
    BY <2>2 DEF HopTo
  <2>4. e[1] = node /\ x[1] \in net.routers /\ x[1] # node
    BY <2>3 DEF Hop
  <2>5. Interface(net, x).ch = Interface(net, e).ch /\ Interface(net, x).up
    BY <1>0, <2>3, HopLink, FinishedRoot
  <2>6. PICK X : X = DistancesFrom(RouterId(net, x[1]))
    OBVIOUS
  <2>7. Target(d) \in DOMAIN X /\ Interface(net, e).metric + X[Target(d)] = dist[Target(d)]
    BY <2>3, <2>6 DEF Starts
  <2>8. RouterId(net, x[1]) \in InTree /\ Interface(net, e).metric \in Nat /\ 0 < Interface(net, e).metric
    BY <2>3, HopReaches
  <2>9. X[Target(d)] \in Nat
    BY <2>6, <2>7, <2>8, DistancesFromFacts
  <2>10. X[Target(d)] < dist[Target(d)]
    BY <2>7, <2>8, <2>9
  <2>11. r.gateway = Interface(net, x).addr /\ r.interface = e[2]
    BY <1>5, <2>3
  <2> QED BY <1>3, <2>4, <2>5, <2>6, <2>7, <2>10, <2>11 DEF NextHop
<1>6. Target(d) \in InTree \ {root}
  BY <1>3, <1>4
<1>7. PICK found : found = LookupGlobal(routes[node], Interface(net, d).addr)
  OBVIOUS
<1>8. /\ found # {}
      /\ \A r \in found : \E exit \in exits[Target(d)] : r.gateway = exit[1] /\ r.interface = exit[2]
  BY <1>6, <1>7, LookupLeads
<1> QED BY <1>5, <1>7, <1>8

(* Distances from any vertex.                                              *)
LEMMA ReachFacts ==
    ASSUME TypeOK, NEW y \in Ids
    PROVE  LET D == DistancesFrom(y) IN
           /\ y \in DOMAIN D /\ D[y] = 0 /\ DOMAIN D \subseteq Ids
           /\ \A w \in DOMAIN D : D[w] \in Nat
           /\ \A e \in Edges : e[1] \in DOMAIN D => e[2] \in DOMAIN D
           /\ \A z \in DOMAIN D : DOMAIN DistancesFrom(z) \subseteq DOMAIN D
           /\ \A w \in DOMAIN D \ {y} : \E e \in Edges :
                 /\ e[1] = y /\ e[2] \in Ids /\ e[3] \in Nat /\ w \in DOMAIN DistancesFrom(e[2])
                 /\ DistancesFrom(e[2])[w] \in Nat
                 /\ e[3] + DistancesFrom(e[2])[w] <= D[w]
<1>0. IsFiniteSet(Ids) /\ Edges \in Graphs(Ids)
  BY EdgesAreGraph DEF TypeOK, WellFormed, WellFormedDatabase, Ids
<1>1. ASSUME NEW x \in Ids
      PROVE  LET D == DistancesFrom(x) IN
             /\ x \in DOMAIN D /\ D[x] = 0 /\ DOMAIN D \subseteq Ids
             /\ \A w \in DOMAIN D : D[w] \in Nat
             /\ \A e \in Edges : e[1] \in DOMAIN D => e[2] \in DOMAIN D
  <2> DEFINE D == DistancesWithin(Edges, x)[Cardinality(Ids)]
  <2>1. /\ D \in DistancesOf(Ids) /\ x \in DOMAIN D /\ D[x] = 0
        /\ \A e \in Edges : e[1] \in DOMAIN D => e[2] \in DOMAIN D
    BY <1>0, DistancesSettle
  <2>2. D = DistancesFrom(x)
    BY DEF DistancesFrom
  <2> HIDE DEF D
  <2>3. DOMAIN D \subseteq Ids /\ D \in [DOMAIN D -> Nat]
    BY <2>1, DistancesOfIs
  <2> QED BY <2>1, <2>2, <2>3
<1>2. ASSUME NEW z \in DOMAIN DistancesFrom(y), NEW w \in DOMAIN DistancesFrom(z)
      PROVE  w \in DOMAIN DistancesFrom(y)
  <2>1. z \in Ids
    BY <1>1
  <2> QED BY <1>0, <1>2, <2>1, DistancesTriangle DEF DistancesFrom
<1>3. ASSUME NEW w \in DOMAIN DistancesFrom(y) \ {y}
      PROVE  \E e \in Edges :
                 /\ e[1] = y /\ e[2] \in Ids /\ e[3] \in Nat /\ w \in DOMAIN DistancesFrom(e[2])
                 /\ DistancesFrom(e[2])[w] \in Nat
                 /\ e[3] + DistancesFrom(e[2])[w] <= DistancesFrom(y)[w]
  <2>1. PICK e \in Edges : /\ e[1] = y /\ w \in DOMAIN DistancesFrom(e[2])
                           /\ e[3] + DistancesFrom(e[2])[w] <= DistancesFrom(y)[w]
    BY <1>0, <1>3, FirstEdge DEF DistancesFrom
  <2>2. e[2] \in Ids /\ e[3] \in Nat
    BY <1>0 DEF Graphs
  <2> QED BY <1>1, <2>1, <2>2
<1> QED BY <1>1, <1>2, <1>3

(* An edge out of a router has a positive length.                          *)
LEMMA EdgesArePositive ==
    ASSUME PositiveMetrics, NEW e \in Edges, e[1] \notin NetworkVertices
    PROVE  e[3] > 0
<1>1. PICK u \in Ids : \E k, w : Edge(u, k, w) /\ e = <<u, w, Cost(u, k)>>
  BY EdgesAreRecords
<1>2. PICK k, w : Edge(u, k, w) /\ e = <<u, w, Cost(u, k)>>
  BY <1>1
<1>3. e[1] = u /\ e[3] = Cost(u, k)
  BY <1>2
<1> QED BY <1>2, <1>3 DEF Edge, PositiveMetrics

(* The first link of a stub node is its only one.                          *)
LEMMA StubLink ==
    ASSUME TypeOK, Built, Ordinary, Subnetted, node \in net.routers,
           CheckForStubNode(RouterId(net, node)), NEW e \in Edges, e[1] = RouterId(net, node)
    PROVE  \E c \in Devices(net) :
              /\ c[1] = node /\ RouterEdge(c, e)
              /\ DefaultRoutes(RouterId(net, node))
                   = {Route(ZeroAddress, ZeroMask, <<Interface(net, GetAdjacent(net, c)).addr, c[2]>>)}
<1> DEFINE u == RouterId(net, node)
           links == RouterLSA(net, node).links
<1>0. /\ WellFormedTopology(net) /\ u \in Ids \ NetworkVertices /\ lsdb[u].links = links
      /\ \A n \in net.routers : RouterId(net, n) = u => n = node
  BY VertexFacts, RouterIdFacts DEF Built
<1>1. DOMAIN links = 1 .. Len(links) /\ Len(links) \in Nat
  <2>1. links \in Seq(LinkRecordType)
    BY <1>0, RouterLSAFacts DEF LSAType
  <2> HIDE DEF links
  <2> QED BY <2>1
<1>2. ASSUME NEW l \in Listed(links), l.type # "StubNetwork"
      PROVE  \E k \in TransitLinks(u) : lsdb[u].links[k] = l
  <2> HIDE DEF links
  <2> QED BY <1>0, <1>1, <1>2 DEF TransitLinks, Listed
<1>3. ASSUME NEW l \in Listed(links), l.type # "StubNetwork"
      PROVE  \E k \in TransitLinks(u) :
                /\ TransitLinks(u) = {k} /\ lsdb[u].links[k] = l /\ l.type = "PointToPoint"
                /\ BackLinks(u, l.linkId) # {}
  <2>1. PICK k \in TransitLinks(u) : lsdb[u].links[k] = l
    BY <1>2, <1>3
  <2>2. HasDefaultLink(u)
    BY <2>1 DEF CheckForStubNode
  <2> HIDE DEF u, links
  <2> QED BY <2>1, <2>2 DEF HasDefaultLink
<1>4. PICK c \in Devices(net) : c[1] = node /\ RouterEdge(c, e)
  <2>1. ASSUME NEW x \in Devices(net), NEW d \in Devices(net), NetworkEdge(x, d, e) PROVE FALSE
    BY <1>0, <2>1, VertexFacts DEF NetworkEdge
  <2>2. ASSUME NEW d \in Devices(net), TransitEdge(d, e) PROVE FALSE
    <3>1. d[1] = node /\ OnTransit(net, d)
      BY <1>0, <2>2 DEF TransitEdge
    <3>2. TransitRecord(net, d) \in Listed(links)
      BY <1>0, <3>1, RouterRecords
    <3>3. TransitRecord(net, d).type = "TransitNetwork"
      BY DEF TransitRecord, LinkRecord
    <3> HIDE DEF u, links
    <3> QED BY <1>3, <3>2, <3>3
  <2>3. PICK c \in Devices(net) : RouterEdge(c, e)
    BY <2>1, <2>2, EdgeComesFrom
  <2>4. c[1] = node
    BY <1>0, <2>3 DEF RouterEdge
  <2> QED BY <2>3, <2>4
<1> DEFINE x == GetAdjacent(net, c)
           l == RouterRecord(net, c)
           w == RouterId(net, x[1])
<1>5. LinksRouters(net, c) /\ net.kind[Interface(net, c).ch] = "p2p" /\ x[1] \in net.routers
  BY <1>4 DEF RouterEdge, LinksRouters
<1>6. /\ x \in Devices(net) /\ x # c /\ Interface(net, x).ch = Interface(net, c).ch
      /\ GetAdjacent(net, x) = c
  BY <1>0, <1>5, AdjacentFacts
<1>7. l.linkId = w /\ l.linkData = Interface(net, c).addr /\ l.type = "PointToPoint"
  BY DEF RouterRecord, LinkRecord
<1>8. l \in Listed(links)
  BY <1>0, <1>4, <1>5, RouterRecords
<1>9. PICK k \in TransitLinks(u) :
          TransitLinks(u) = {k} /\ lsdb[u].links[k] = l /\ BackLinks(u, w) # {}
  <2> HIDE DEF l, u, links, w
  <2> QED BY <1>3, <1>7, <1>8
<1>10. lsdb[w].links = RouterLSA(net, x[1]).links /\ RouterLSA(net, x[1]).links \in Seq(LinkRecordType)
  BY <1>0, <1>5, VertexFacts, RouterLSAFacts DEF Built, LSAType
<1>11. BackLinks(u, w) \in SUBSET Nat /\ BackLinks(u, w) # {}
  <2> HIDE DEF u, w
  <2>1. DOMAIN lsdb[w].links \subseteq Nat
    BY <1>10
  <2> QED BY <1>9, <2>1 DEF BackLinks
<1> DEFINE b == CHOOSE m \in BackLinks(u, w) : \A n \in BackLinks(u, w) : m <= n
<1>12. b \in BackLinks(u, w)
  <2>1. \E m \in BackLinks(u, w) : \A n \in BackLinks(u, w) : m <= n
    BY <1>11, SmallestOf
  <2> QED BY <2>1
<1>13. /\ lsdb[w].links[b] \in Listed(RouterLSA(net, x[1]).links)
       /\ lsdb[w].links[b].linkId = u
  <2> HIDE DEF b, w, u
  <2>1. b \in DOMAIN lsdb[w].links /\ lsdb[w].links[b].linkId = u
    BY <1>12 DEF BackLinks
  <2>2. DOMAIN lsdb[w].links = 1 .. Len(lsdb[w].links)
    BY <1>10
  <2> QED BY <1>10, <2>1, <2>2 DEF Listed
<1>14. PICK y \in Devices(net) : /\ y[1] = x[1] /\ LinksRouters(net, y) /\ GetAdjacent(net, y)[1] = node
                                 /\ lsdb[w].links[b] = RouterRecord(net, y)
  <2> HIDE DEF b, w
  <2> QED BY <1>5, <1>13, LinkIdsTell
<1>15. y = x
  <2>1. net.kind[Interface(net, y).ch] = "p2p" /\ net.kind[Interface(net, x).ch] = "p2p"
    BY <1>5, <1>6, <1>14 DEF LinksRouters
  <2>2. GetAdjacent(net, x)[1] = node
    BY <1>4, <1>6
  <2> HIDE DEF x
  <2> QED BY <1>6, <1>14, <2>1, <2>2 DEF Ordinary
<1>16. lsdb[w].links[b].linkData = Interface(net, x).addr
  BY <1>14, <1>15 DEF RouterRecord, LinkRecord
<1>17. FindOutgoingInterfaceId(l.linkData, HostMask) = c[2]
  <2> HIDE DEF l
  <2> QED BY <1>4, <1>7, OutgoingInterface
<1>18. (CHOOSE n \in TransitLinks(u) : TRUE) = k /\ TransitLinks(u) # {}
  <2> HIDE DEF u
  <2> QED BY <1>9
<1>19. DefaultRoutes(u) = {Route(ZeroAddress, ZeroMask, <<lsdb[w].links[b].linkData,
                                FindOutgoingInterfaceId(l.linkData, HostMask)>>)}
  <2> HIDE DEF u, w, l
  <2> QED BY <1>7, <1>9, <1>18 DEF DefaultRoutes, b
<1> QED BY <1>4, <1>16, <1>17, <1>19

(* The default route matches every address.                                *)
LEMMA DefaultMatches ==
    ASSUME NEW a \in Nat, a < BroadcastAddress, NEW exit
    PROVE  LET r == Route(ZeroAddress, ZeroMask, exit) IN
           Matching({r}, a) = {r} /\ r.gateway = exit[1] /\ r.interface = exit[2]
<1>1. a % 4096 = a /\ 0 % 4096 = 0
  BY SMT DEF BroadcastAddress
<1>2. IsMatch(ZeroMask, a, ZeroAddress)
  BY <1>1 DEF IsMatch, CombineMask, ZeroMask, ZeroAddress
<1> QED BY <1>2 DEF Matching, Route

(* The only route of a stub node makes it forward.                         *)
LEMMA StubForwards ==
    ASSUME TypeOK, Built, Ordinary, Subnetted, PositiveMetrics, node \in net.routers,
           CheckForStubNode(RouterId(net, node)), NEW tables,
           tables.host = {}, tables.network = DefaultRoutes(RouterId(net, node))
    PROVE  Forwards(node, tables)
<1> DEFINE u == RouterId(net, node)
<1> SUFFICES ASSUME NEW d \in Devices(net), InGlobalRouting(d), Target(d) \in DOMAIN DistancesFrom(u),
                    ~Delivers(node, Interface(net, d).addr)
             PROVE  /\ LookupGlobal(tables, Interface(net, d).addr) # {}
                    /\ \A r \in LookupGlobal(tables, Interface(net, d).addr) :
                          NextHop(node, Target(d), r)
  BY DEF Forwards
<1>0. /\ WellFormedTopology(net) /\ u \in Ids \ NetworkVertices
      /\ \A n \in net.routers : RouterId(net, n) = u => n = node
  BY VertexFacts, RouterIdFacts DEF Built
<1>1. d[1] \in net.routers /\ Interface(net, d).up
  BY DEF InGlobalRouting, Advertised
<1>2. Target(d) # u
  <2> SUFFICES ASSUME Target(d) = u PROVE FALSE
    OBVIOUS
  <2>1. ~OnTransit(net, d)
    BY <1>0, <1>1, TransitTarget
  <2>2. d[1] = node
    BY <1>0, <1>1, <2>1 DEF Target
  <2> QED BY <1>1, <2>2, DeliversOnLink
<1>3. PICK e \in Edges :
          /\ e[1] = u /\ e[2] \in Ids /\ e[3] \in Nat /\ Target(d) \in DOMAIN DistancesFrom(e[2])
          /\ DistancesFrom(e[2])[Target(d)] \in Nat
          /\ e[3] + DistancesFrom(e[2])[Target(d)] <= DistancesFrom(u)[Target(d)]
  <2>1. Target(d) \in DOMAIN DistancesFrom(u) \ {u}
    BY <1>2
  <2> QED BY <1>0, <2>1, ReachFacts
<1>4. PICK c \in Devices(net) :
          /\ c[1] = node /\ RouterEdge(c, e)
          /\ DefaultRoutes(u)
               = {Route(ZeroAddress, ZeroMask, <<Interface(net, GetAdjacent(net, c)).addr, c[2]>>)}
  BY <1>3, StubLink
<1>5. PICK x : x = GetAdjacent(net, c)
  OBVIOUS
<1>6. /\ e[2] = RouterId(net, x[1]) /\ x[1] \in net.routers /\ Interface(net, x).up
      /\ net.kind[Interface(net, c).ch] = "p2p"
  BY <1>4, <1>5 DEF RouterEdge, LinksRouters
<1>7. x \in Devices(net) /\ x # c /\ Interface(net, x).ch = Interface(net, c).ch
  BY <1>0, <1>5, <1>6, AdjacentFacts
<1>8. x[1] # node
  BY <1>4, <1>7 DEF Ordinary
<1>9. PICK s : s = DistancesFrom(u)[Target(d)]
  OBVIOUS
<1>10. s \in Nat
  BY <1>0, <1>9, ReachFacts
<1>11. e[3] > 0
  BY <1>0, <1>3, EdgesArePositive
<1>12. DistancesFrom(e[2])[Target(d)] < s
  BY <1>3, <1>9, <1>10, <1>11
<1>13. PICK exit : exit = <<Interface(net, x).addr, c[2]>>
  OBVIOUS
<1>14. PICK r : r = Route(ZeroAddress, ZeroMask, exit)
  OBVIOUS
<1>15. tables.network = {r}
  BY <1>4, <1>5, <1>13, <1>14
<1>16. /\ Matching({r}, Interface(net, d).addr) = {r}
       /\ r.gateway = Interface(net, x).addr /\ r.interface = c[2]
  <2>1. Interface(net, d).addr \in Nat /\ Interface(net, d).addr < BroadcastAddress
    BY <1>0, DeviceFacts
  <2>2. exit[1] = Interface(net, x).addr /\ exit[2] = c[2]
    BY <1>13
  <2> QED BY <1>14, <2>1, <2>2, DefaultMatches
<1>17. Matching(tables.host, Interface(net, d).addr) = {}
  BY DEF Matching
<1>18. LookupGlobal(tables, Interface(net, d).addr) = {r}
  BY <1>15, <1>16, <1>17 DEF LookupGlobal
<1>19. NextHop(node, Target(d), r)
  BY <1>3, <1>4, <1>6, <1>7, <1>8, <1>9, <1>12, <1>16 DEF NextHop
<1> QED BY <1>18, <1>19

(* Forwarding depends on the topology and the tables.                      *)
LEMMA ForwardsUnchanged ==
    ASSUME UNCHANGED <<net, lsdb>>, NEW n, NEW tables
    PROVE  Forwards(n, tables)' <=> Forwards(n, tables)
<1>1. Ids' = Ids /\ Edges' = Edges
  BY GraphUnchanged
<1>2. \A y : DistancesFrom(y)' = DistancesFrom(y)
  BY <1>1 DEF DistancesFrom
<1>3. \A t, r : NextHop(n, t, r)' <=> NextHop(n, t, r)
  BY <1>2 DEF NextHop
<1>4. \A d : /\ Target(d)' = Target(d) /\ (InGlobalRouting(d)' <=> InGlobalRouting(d))
             /\ Delivers(n, Interface(net, d).addr)' <=> Delivers(n, Interface(net, d).addr)
  BY DEF Target, InGlobalRouting, Delivers
<1> QED BY <1>2, <1>3, <1>4 DEF Forwards

(***************************************************************************)
(* The routers that have been served forward.                              *)
(***************************************************************************)
Served ==
    /\ Ordinary /\ Subnetted /\ PositiveMetrics =>
          \A n \in net.routers : n < node => Forwards(n, routes[n])
    /\ pc = "done" => node \notin net.nodes

(* The tables of the routers before the node under the iterator stay.      *)
LEMMA ServedKept ==
    ASSUME TypeOK, Served, UNCHANGED <<net, lsdb>>, node' = node \/ node' = node + 1,
           \A n \in net.nodes : n # node => routes'[n] = routes[n],
           \/ node' = node \/ node \notin net.routers
           \/ Ordinary /\ Subnetted /\ PositiveMetrics => Forwards(node, routes'[node]),
           pc' = "done" => node' \notin net.nodes
    PROVE  Served'
<1> SUFFICES ASSUME Ordinary', Subnetted', PositiveMetrics', NEW n \in net.routers, n < node'
             PROVE  Forwards(n, routes[n])'
  BY DEF Served
<1>0. node \in Nat /\ n \in Nat /\ n \in net.nodes
  BY DEF TypeOK, WellFormed, WellFormedTopology
<1>1. Ordinary /\ Subnetted /\ PositiveMetrics
  BY ConditionsUnchanged
<1>2. PICK T : T = routes'[n]
  OBVIOUS
<1>3. CASE n < node
  <2>1. T = routes[n]
    BY <1>0, <1>2, <1>3
  <2>2. Forwards(n, T)
    BY <1>1, <1>3, <2>1 DEF Served
  <2>3. Forwards(n, T)'
    BY <2>2, ForwardsUnchanged
  <2> QED BY <1>2, <2>3 DEF Forwards
<1>4. CASE ~(n < node)
  <2>1. n = node /\ node' # node
    BY <1>0, <1>4
  <2>2. Forwards(n, T)
    BY <1>1, <1>2, <2>1
  <2>3. Forwards(n, T)'
    BY <2>2, ForwardsUnchanged
  <2> QED BY <1>2, <2>3 DEF Forwards
<1> QED BY <1>3, <1>4

(* A router is served when the iterator leaves it.                         *)
LEMMA ServedInductive ==
    /\ TypeOK /\ Built /\ RootIsNode /\ Dijkstra /\ EqualCost /\ Exits
    /\ ChildrenFollowParents /\ WalkInvariant /\ CurrentTables /\ LaterTables
    /\ Served /\ [Next]_vars
    => Served'
<1> SUFFICES ASSUME TypeOK, Built, RootIsNode, Dijkstra, EqualCost, Exits, ChildrenFollowParents,
                    WalkInvariant, CurrentTables, LaterTables, Served, [Next]_vars
             PROVE  Served'
  OBVIOUS
<1> USE DEF topology, vertices, walk
<1>0. /\ UNCHANGED <<net, lsdb>> /\ node \in Nat /\ routes \in [net.nodes -> Tables]
      /\ net.routers \subseteq net.nodes
  BY TopologyUnchanged DEF TypeOK, WellFormed, WellFormedTopology
<1>1. CASE UNCHANGED vars
  <2>1. node' = node /\ routes' = routes /\ pc' = pc /\ net' = net
    BY <1>1 DEF vars
  <2>2. pc' = "done" => node' \notin net.nodes
    BY <2>1 DEF Served
  <2> QED BY <1>0, <2>1, <2>2, ServedKept
<1>2. CASE SkipNode
  <2>1. /\ node' = node + 1 /\ routes' = routes /\ pc' # "done" /\ node \notin net.routers
    BY <1>2 DEF SkipNode
  <2> QED BY <1>0, <2>1, ServedKept
<1>3. CASE FinishRoutes
  <2>1. /\ node' = node /\ routes' = routes /\ node \notin net.nodes
    BY <1>3 DEF FinishRoutes
  <2> QED BY <1>0, <2>1, ServedKept
<1>4. CASE TruncateForStubNode
  <2>1. /\ node' = node + 1 /\ pc' # "done" /\ pc = "idle" /\ node \in net.routers /\ node \in net.nodes
        /\ CheckForStubNode(RouterId(net, node))
        /\ AddRoutes("network", DefaultRoutes(RouterId(net, node)))
    BY <1>0, <1>4 DEF TruncateForStubNode
  <2>2. routes[node] = EmptyTables
    BY <2>1 DEF LaterTables
  <2>3. PICK T : T = routes'[node]
    OBVIOUS
  <2>4. /\ \A n \in net.nodes : n # node => routes'[n] = routes[n]
        /\ T.host = routes[node].host
        /\ T.network = routes[node].network \cup DefaultRoutes(RouterId(net, node))
    BY <2>1, <2>3, AddRoutesIs
  <2>5. T.host = {} /\ T.network = DefaultRoutes(RouterId(net, node))
    BY <2>2, <2>4 DEF EmptyTables
  <2>6. Ordinary /\ Subnetted /\ PositiveMetrics => Forwards(node, T)
    BY <2>1, <2>5, StubForwards
  <2>7. Ordinary /\ Subnetted /\ PositiveMetrics => Forwards(node, routes'[node])
    BY <2>3, <2>6
  <2> QED BY <1>0, <2>1, <2>4, <2>7, ServedKept
<1>5. CASE FinishCalculation
  <2>1. /\ node' = node + 1 /\ routes' = routes /\ pc' # "done"
        /\ pc = "walk" /\ AtEnd /\ Len(stack) = 1
    BY <1>5 DEF FinishCalculation, AtEnd
  <2>2. Visited(0) = InTree
    BY <2>1, WalkEnds DEF Visited
  <2>3. ASSUME Ordinary, Subnetted, PositiveMetrics PROVE Finished
    BY <2>1, <2>3 DEF Finished, Exits, Building
  <2>4. Ordinary /\ Subnetted /\ PositiveMetrics => Forwards(node, routes[node])
    BY <2>2, <2>3, FinishedForwards
  <2>5. Ordinary /\ Subnetted /\ PositiveMetrics => Forwards(node, routes'[node])
    BY <2>1, <2>4
  <2> QED BY <1>0, <2>1, <2>5, ServedKept
<1>6. CASE StartCalculation \/ MissingLSA \/ SkipRecord
  <2>1. node' = node /\ routes' = routes /\ pc' # "done"
    BY <1>6 DEF StartCalculation, MissingLSA, SkipRecord, Examining, NextRecord
  <2> QED BY <1>0, <2>1, ServedKept
<1>7. ASSUME NEW w \in Ids,
             \/ SkipInTree(w) \/ SkipLongerPath(w) \/ NewCandidate(w) \/ EqualCostPath(w)
             \/ ShorterPath(w) \/ NexthopFails(w)
      PROVE  Served'
  <2>1. node' = node /\ routes' = routes /\ pc' # "done"
    BY <1>7 DEF SkipInTree, SkipLongerPath, NewCandidate, EqualCostPath, ShorterPath, NexthopFails,
                LeadsTo, Examining, NextRecord
  <2> QED BY <1>0, <2>1, ServedKept
<1>8. CASE AddToTree \/ StartStubs \/ EnterChild \/ SkipChild \/ LeaveChild \/ NextExternal
  <2>1. /\ node' = node /\ pc' # "done"
        /\ \A n \in net.nodes : n # node => routes'[n] = routes[n]
    BY <1>0, <1>8 DEF AddToTree, StartStubs, EnterChild, SkipChild, LeaveChild, NextExternal,
           AtChild, AtEnd, AddRoutes
  <2> QED BY <1>0, <2>1, ServedKept
<1> QED
  BY <1>1, <1>2, <1>3, <1>4, <1>5, <1>6, <1>7, <1>8 DEF Next, Step, Stopped

(* So every router is served when the iterator is at the end.              *)
LEMMA ServedHolds == Spec => []Served
<1>1. Init /\ TypeOK => Served
  <2> SUFFICES ASSUME Init, TypeOK, NEW n \in net.routers PROVE ~(n < node)
    BY DEF Served, Init
  <2>1. node = 0 /\ n \in Nat
    BY DEF Init, TypeOK, WellFormed, WellFormedTopology
  <2> QED BY <2>1
<1> QED
  BY <1>1, TypeCorrect, DatabaseBuilt, ExitsHold, DijkstraHolds, EqualCostHolds, TablesHold,
     ServedInductive, PTL DEF Spec

-----------------------------------------------------------------------------
(***************************************************************************)
(* Packets and joined routers.  Z is the smallest set that has A and is    *)
(* closed under F.                                                         *)
(***************************************************************************)
Closes(S, A, F, Z) ==
    /\ Z \in SUBSET S /\ A \subseteq Z /\ F[Z] = Z
    /\ \A P \in SUBSET S : A \subseteq P /\ (\A X \in SUBSET P : F[X] \subseteq P) => Z \subseteq P

(* Rounds that only add end in the smallest closed set.                    *)
LEMMA RoundsClose ==
    ASSUME NEW S, IsFiniteSet(S), NEW A \in SUBSET S, NEW F \in [SUBSET S -> SUBSET S],
           \A X \in SUBSET S : X \subseteq F[X],
           NEW R, Rounds(S, A, F, R)
    PROVE  Closes(S, A, F, R[Cardinality(S)])
<1> DEFINE N == Cardinality(S)
<1> USE DEF Rounds
<1>0. N \in Nat
  BY FS_CardinalityType
<1>1. \A n \in Nat : R[n] \subseteq R[n + 1] /\ R[n] \subseteq S
  OBVIOUS
<1>2. ASSUME NEW n \in Nat, R[n + 1] = R[n] PROVE R[n + 2] = R[n + 1]
  <2>1. n + 1 \in Nat /\ (n + 1) + 1 = n + 2
    OBVIOUS
  <2> QED BY <1>2, <2>1
<1>3. R[N + 1] = R[N]
  BY <1>1, <1>2, GrowingSettles
<1>4. F[R[N]] = R[N]
  BY <1>0, <1>3
<1>5. ASSUME NEW P \in SUBSET S, A \subseteq P, \A X \in SUBSET P : F[X] \subseteq P
      PROVE  \A n \in Nat : R[n] \subseteq P
  <2> DEFINE B == {n \in Nat : ~(R[n] \subseteq P)}
  <2>1. SUFFICES ASSUME B # {} PROVE FALSE
    OBVIOUS
  <2>2. PICK k \in B : \A m \in B : k <= m
    <3> HIDE DEF B
    <3>1. B \in SUBSET Nat
      BY DEF B
    <3> QED BY <2>1, <3>1, SmallestOf
  <2>3. k # 0
    BY <1>5, <2>2
  <2>4. PICK m \in Nat : k = m + 1
    BY <2>2, <2>3
  <2>5. m \notin B
    BY <2>2, <2>4
  <2>6. R[m] \in SUBSET P
    BY <2>5
  <2> QED BY <1>5, <2>2, <2>4, <2>6
<1>6. A \subseteq R[N]
  <2> DEFINE B == {n \in Nat : ~(A \subseteq R[n])}
  <2>1. SUFFICES ASSUME B # {} PROVE FALSE
    BY <1>0
  <2>2. PICK k \in B : \A m \in B : k <= m
    <3> HIDE DEF B
    <3>1. B \in SUBSET Nat
      BY DEF B
    <3> QED BY <2>1, <3>1, SmallestOf
  <2>3. k # 0
    BY <2>2
  <2>4. PICK m \in Nat : k = m + 1
    BY <2>2, <2>3
  <2>5. m \notin B
    BY <2>2, <2>4
  <2> QED BY <1>1, <2>2, <2>4, <2>5
<1> QED BY <1>0, <1>1, <1>4, <1>5, <1>6 DEF Closes

(* The routers joined to a node are the smallest set that has it and the   *)
(* neighbours of its members.                                              *)
LEMMA JoinedCloses ==
    ASSUME Built, NEW x \in net.nodes
    PROVE  /\ x \in Joined(x) /\ Joined(x) \subseteq net.nodes
           /\ \A z \in Joined(x) : \A y \in net.routers : Adjacent(z, y) => y \in Joined(x)
           /\ \A P \in SUBSET net.nodes :
                 /\ x \in P
                 /\ \A z \in P : \A y \in net.routers : Adjacent(z, y) => y \in P
                 => Joined(x) \subseteq P
<1> DEFINE S == net.nodes
           N == Cardinality(S)
           More(X) == X \cup {y \in net.routers : \E z \in X : Adjacent(z, y)}
           F == [X \in SUBSET S |-> More(X)]
<1>0. IsFiniteSet(S) /\ net.routers \subseteq S /\ N \in Nat
  BY FS_CardinalityType DEF Built, WellFormedTopology
<1>1. F \in [SUBSET S -> SUBSET S] /\ \A X \in SUBSET S : F[X] = More(X) /\ X \subseteq F[X]
  BY <1>0
<1>2. {x} \in SUBSET S
  OBVIOUS
<1> HIDE DEF F, N, S
<1>3. PICK R : Rounds(S, {x}, F, R)
  <2> HIDE DEF More
  <2>1. F \in [SUBSET S -> SUBSET S]
    BY <1>1
  <2>2. PICK A \in SUBSET S : A = {x}
    BY <1>2
  <2>3. \E R : Rounds(S, A, F, R)
    BY <2>1, RoundsExist
  <2> QED BY <2>2, <2>3
<1> DEFINE J[n \in Nat] == IF n = 0 THEN {x}
                           ELSE LET near == J[n - 1]
                                IN  near \cup {y \in net.routers : \E z \in near : Adjacent(z, y)}
<1> DEFINE K(f) == [n \in Nat |-> IF n = 0 THEN {x} ELSE More(f[n - 1])]
<1>4. R = K(R)
  <2> USE DEF Rounds
  <2>1. ASSUME NEW n \in Nat PROVE R[n] = K(R)[n]
    <3>1. CASE n = 0
      BY <1>3, <3>1
    <3>2. CASE n # 0
      <4>1. n - 1 \in Nat /\ (n - 1) + 1 = n
        BY <3>2
      <4>2. R[n - 1] \in SUBSET S /\ R[n] = F[R[n - 1]]
        BY <1>3, <4>1
      <4>3. R[n] = More(R[n - 1])
        BY <1>1, <4>2
      <4>4. K(R)[n] = More(R[n - 1])
        <5> HIDE DEF More
        <5> QED BY <3>2
      <4> QED BY <4>3, <4>4
    <3> QED BY <3>1, <3>2
  <2>2. R = [n \in Nat |-> R[n]]
    BY <1>3
  <2> HIDE DEF More
  <2> QED BY <2>1, <2>2
<1>5. J = K(J)
  <2>1. \E f : f = K(f)
    BY <1>4
  <2> QED BY <2>1
<1>6. Joined(x) = J[N]
  BY Zenon DEF Joined, N, S
<1> HIDE DEF J
<1>7. Rounds(S, {x}, F, J)
  <2>1. J[0] = {x}
    BY <1>5
  <2>2. ASSUME NEW n \in Nat PROVE J[n + 1] = More(J[n])
    <3>1. n + 1 \in Nat /\ n + 1 # 0 /\ (n + 1) - 1 = n
      OBVIOUS
    <3> HIDE DEF More
    <3> QED BY <1>5, <3>1
  <2>3. \A n \in Nat : J[n] \in SUBSET S
    <3> DEFINE B == {n \in Nat : ~(J[n] \in SUBSET S)}
    <3>1. SUFFICES ASSUME B # {} PROVE FALSE
      OBVIOUS
    <3>2. PICK k \in B : \A m \in B : k <= m
      <4> HIDE DEF B
      <4>1. B \in SUBSET Nat
        BY DEF B
      <4> QED BY <3>1, <4>1, SmallestOf
    <3>3. k # 0
      BY <1>2, <2>1, <3>2
    <3>4. PICK m \in Nat : k = m + 1
      BY <3>2, <3>3
    <3>5. m \notin B
      BY <3>2, <3>4
    <3>6. J[m] \in SUBSET S
      BY <3>5
    <3>7. More(J[m]) \in SUBSET S
      BY <1>0, <3>6
    <3> HIDE DEF More
    <3> QED BY <2>2, <3>2, <3>4, <3>7
  <2>4. DOMAIN J = Nat /\ J = [n \in Nat |-> J[n]]
    <3> HIDE DEF More
    <3> QED BY <1>5
  <2>5. J \in [Nat -> SUBSET S]
    BY <2>3, <2>4
  <2>6. \A n \in Nat : F[J[n]] = More(J[n])
    BY <1>1, <2>3
  <2> HIDE DEF More
  <2> QED BY <2>1, <2>2, <2>5, <2>6 DEF Rounds
<1>8. /\ J[N] \in SUBSET S /\ {x} \subseteq J[N] /\ F[J[N]] = J[N]
      /\ \A P \in SUBSET S : {x} \subseteq P /\ (\A X \in SUBSET P : F[X] \subseteq P) => J[N] \subseteq P
  <2> HIDE DEF More
  <2>1. PICK A \in SUBSET S : A = {x}
    BY <1>2
  <2>2. /\ IsFiniteSet(S) /\ F \in [SUBSET S -> SUBSET S] /\ \A X \in SUBSET S : X \subseteq F[X]
    BY <1>0, <1>1
  <2>3. Rounds(S, A, F, J)
    BY <1>7, <2>1
  <2>4. Closes(S, A, F, J[N])
    BY <2>2, <2>3, RoundsClose DEF N
  <2> QED BY <2>1, <2>4 DEF Closes
<1>9. J[N] = More(J[N])
  BY <1>1, <1>8
<1>10. ASSUME NEW P \in SUBSET S, x \in P,
              \A z \in P : \A y \in net.routers : Adjacent(z, y) => y \in P
       PROVE  J[N] \subseteq P
  <2>1. \A X \in SUBSET P : F[X] \subseteq P
    <3> SUFFICES ASSUME NEW X \in SUBSET P PROVE More(X) \subseteq P
      BY <1>1
    <3> QED BY <1>10
  <2> QED BY <1>8, <1>10, <2>1
<1>11. \A z \in J[N] : \A y \in net.routers : Adjacent(z, y) => y \in J[N]
  BY <1>9
<1> QED BY <1>6, <1>8, <1>10, <1>11 DEF S

(* Packets reach their destination from the nodes that deliver, and from   *)
(* every router all of whose routes hand over to nodes that they reach it  *)
(* from.                                                                   *)
LEMMA ReachingCloses ==
    ASSUME Built, NEW a
    PROVE  /\ \A x \in net.nodes : Delivers(x, a) => x \in Reaching(a)
           /\ \A x \in net.routers :
                 /\ LookupGlobal(routes[x], a) # {}
                 /\ \A r \in LookupGlobal(routes[x], a) :
                       GatewayNodes(x, r) # {} /\ GatewayNodes(x, r) \subseteq Reaching(a)
                 => x \in Reaching(a)
<1> DEFINE S == net.nodes
           N == Cardinality(S)
           A == {x \in net.nodes : Delivers(x, a)}
           More(X) == X \cup {x \in net.routers :
                                /\ LookupGlobal(routes[x], a) # {}
                                /\ \A r \in LookupGlobal(routes[x], a) :
                                      GatewayNodes(x, r) # {} /\ GatewayNodes(x, r) \subseteq X}
           F == [X \in SUBSET S |-> More(X)]
<1>0. IsFiniteSet(S) /\ net.routers \subseteq S /\ N \in Nat
  BY FS_CardinalityType DEF Built, WellFormedTopology
<1>1. F \in [SUBSET S -> SUBSET S] /\ \A X \in SUBSET S : F[X] = More(X) /\ X \subseteq F[X]
  BY <1>0
<1>2. A \in SUBSET S
  OBVIOUS
<1> HIDE DEF F, N, S
<1>3. PICK R : Rounds(S, A, F, R)
  <2> HIDE DEF More
  <2>1. F \in [SUBSET S -> SUBSET S]
    BY <1>1
  <2> HIDE DEF A
  <2> QED BY <1>2, <2>1, RoundsExist
<1> DEFINE J[n \in Nat] ==
              IF n = 0 THEN {x \in net.nodes : Delivers(x, a)}
              ELSE LET near == J[n - 1]
                   IN  near \cup {x \in net.routers :
                          /\ LookupGlobal(routes[x], a) # {}
                          /\ \A r \in LookupGlobal(routes[x], a) :
                                GatewayNodes(x, r) # {} /\ GatewayNodes(x, r) \subseteq near}
<1> DEFINE K(f) == [n \in Nat |-> IF n = 0 THEN A ELSE More(f[n - 1])]
<1>4. R = K(R)
  <2> USE DEF Rounds
  <2>1. ASSUME NEW n \in Nat PROVE R[n] = K(R)[n]
    <3>1. CASE n = 0
      BY <1>3, <3>1
    <3>2. CASE n # 0
      <4>1. n - 1 \in Nat /\ (n - 1) + 1 = n
        BY <3>2
      <4>2. R[n - 1] \in SUBSET S /\ R[n] = F[R[n - 1]]
        BY <1>3, <4>1
      <4>3. R[n] = More(R[n - 1])
        BY <1>1, <4>2
      <4>4. K(R)[n] = More(R[n - 1])
        <5> HIDE DEF More
        <5> QED BY <3>2
      <4> QED BY <4>3, <4>4
    <3> QED BY <3>1, <3>2
  <2>2. R = [n \in Nat |-> R[n]]
    BY <1>3
  <2> HIDE DEF More
  <2> QED BY <2>1, <2>2
<1>5. J = K(J)
  <2>1. \E f : f = K(f)
    BY <1>4
  <2> QED BY <2>1
<1>6. Reaching(a) = J[N]
  BY Zenon DEF Reaching, N, S
<1> HIDE DEF J
<1>7. Rounds(S, A, F, J)
  <2>1. J[0] = A
    BY <1>5
  <2>2. ASSUME NEW n \in Nat PROVE J[n + 1] = More(J[n])
    <3>1. n + 1 \in Nat /\ n + 1 # 0 /\ (n + 1) - 1 = n
      OBVIOUS
    <3> HIDE DEF More
    <3> QED BY <1>5, <3>1
  <2>3. \A n \in Nat : J[n] \in SUBSET S
    <3> DEFINE B == {n \in Nat : ~(J[n] \in SUBSET S)}
    <3>1. SUFFICES ASSUME B # {} PROVE FALSE
      OBVIOUS
    <3>2. PICK k \in B : \A m \in B : k <= m
      <4> HIDE DEF B
      <4>1. B \in SUBSET Nat
        BY DEF B
      <4> QED BY <3>1, <4>1, SmallestOf
    <3>3. k # 0
      BY <1>2, <2>1, <3>2
    <3>4. PICK m \in Nat : k = m + 1
      BY <3>2, <3>3
    <3>5. m \notin B
      BY <3>2, <3>4
    <3>6. J[m] \in SUBSET S
      BY <3>5
    <3>7. More(J[m]) \in SUBSET S
      BY <1>0, <3>6
    <3> HIDE DEF More
    <3> QED BY <2>2, <3>2, <3>4, <3>7
  <2>4. DOMAIN J = Nat /\ J = [n \in Nat |-> J[n]]
    <3> HIDE DEF More
    <3> QED BY <1>5
  <2>5. J \in [Nat -> SUBSET S]
    BY <2>3, <2>4
  <2>6. \A n \in Nat : F[J[n]] = More(J[n])
    BY <1>1, <2>3
  <2> HIDE DEF More
  <2> QED BY <2>1, <2>2, <2>5, <2>6 DEF Rounds
<1>8. J[N] \in SUBSET S /\ A \subseteq J[N] /\ F[J[N]] = J[N]
  <2> HIDE DEF More
  <2> HIDE DEF A
  <2>2. /\ IsFiniteSet(S) /\ F \in [SUBSET S -> SUBSET S] /\ \A X \in SUBSET S : X \subseteq F[X]
    BY <1>0, <1>1
  <2>4. Closes(S, A, F, J[N])
    BY <1>2, <1>7, <2>2, RoundsClose DEF N
  <2> QED BY <2>4 DEF Closes
<1>9. J[N] = More(J[N])
  BY <1>1, <1>8
<1> QED BY <1>6, <1>8, <1>9

(* Adjacent routers reach each other in the graph of the database.         *)
LEMMA AdjacentReach ==
    ASSUME TypeOK, Built, Ordinary, NEW z \in net.routers, NEW y \in net.routers, Adjacent(z, y)
    PROVE  RouterId(net, z) \in DOMAIN DistancesFrom(RouterId(net, y))
<1>0. /\ WellFormedTopology(net) /\ RouterId(net, y) \in Ids /\ RouterId(net, z) \in Ids
      /\ z \in net.nodes
  BY VertexFacts DEF Built, WellFormedTopology
<1>1. PICK j \in AdvertisedInterfaces(z) : \E x \in NeighbourDevices(z, j) : x[1] = y
  BY DEF Adjacent
<1>2. PICK x \in NeighbourDevices(z, j) : x[1] = y
  BY <1>1
<1>3. PICK c : c = <<z, j>>
  OBVIOUS
<1>4. /\ c \in Devices(net) /\ c[1] = z /\ Advertised(net, c) /\ Interface(net, c) = net.ifs[z][j]
  BY <1>0, <1>1, <1>3, DeviceOf DEF AdvertisedInterfaces, Interface
<1>5. /\ x \in Devices(net) /\ x[1] = y /\ y # z /\ x # c /\ Advertised(net, x)
      /\ Interface(net, x).ch = Interface(net, c).ch
  BY <1>2, <1>4 DEF NeighbourDevices, OnChannel
<1>6. c \in OnChannel(net, Interface(net, x).ch) /\ x \in OnChannel(net, Interface(net, c).ch)
  BY <1>4, <1>5 DEF OnChannel
<1>7. /\ RouterId(net, y) \in DOMAIN DistancesFrom(RouterId(net, y))
      /\ \A e \in Edges : e[1] \in DOMAIN DistancesFrom(RouterId(net, y))
            => e[2] \in DOMAIN DistancesFrom(RouterId(net, y))
  BY <1>0, ReachFacts
<1>8. CASE net.kind[Interface(net, c).ch] = "lan"
  <2>1. OnTransit(net, c) /\ OnTransit(net, x)
    BY <1>4, <1>5, <1>6, <1>8 DEF OnTransit, AnotherRouterOnLink
  <2>2. FindDesignatedRouterForLink(net, c) = FindDesignatedRouterForLink(net, x)
    BY <1>5 DEF FindDesignatedRouterForLink
  <2>3. \E f \in Edges : f[1] = RouterId(net, y) /\ f[2] = FindDesignatedRouterForLink(net, x)
    BY <1>5, <2>1, LinkEdges
  <2>4. \E f \in Edges : f[1] = FindDesignatedRouterForLink(net, c) /\ f[2] = RouterId(net, z)
    BY <1>4, <2>1, LinkEdges
  <2> QED BY <1>7, <2>2, <2>3, <2>4
<1>9. CASE net.kind[Interface(net, c).ch] = "p2p"
  <2>1. PICK e \in Devices(net) : e # x /\ OnChannel(net, Interface(net, x).ch) = {x, e}
    BY <1>0, <1>5, <1>9 DEF WellFormedTopology
  <2>2. GetAdjacent(net, x) \in OnChannel(net, Interface(net, x).ch) /\ GetAdjacent(net, x) # x
    BY <1>0, <1>5, <1>9, AdjacentFacts DEF OnChannel
  <2>3. GetAdjacent(net, x) = c
    BY <1>5, <1>6, <2>1, <2>2
  <2>4. LinksRouters(net, x)
    BY <1>4, <1>5, <1>9, <2>3 DEF LinksRouters, Advertised
  <2>5. \E f \in Edges : f[1] = RouterId(net, y) /\ f[2] = RouterId(net, z)
    BY <1>4, <1>5, <2>3, <2>4, LinkEdges
  <2> QED BY <1>7, <2>5
<1>10. net.kind[Interface(net, c).ch] \in {"p2p", "lan"}
  BY <1>0, <1>4, DeviceFacts
<1> QED BY <1>8, <1>9, <1>10

(* The routers joined to the owner of a device reach its target.           *)
LEMMA JoinedReach ==
    ASSUME TypeOK, Built, Ordinary, NEW d \in Devices(net), InGlobalRouting(d), NEW y \in Joined(d[1])
    PROVE  y \in net.routers /\ Target(d) \in DOMAIN DistancesFrom(RouterId(net, y))
<1> DEFINE P == {z \in net.routers : Target(d) \in DOMAIN DistancesFrom(RouterId(net, z))}
<1>0. /\ net.routers \subseteq net.nodes /\ d[1] \in net.routers
      /\ \A z \in net.routers : RouterId(net, z) \in Ids
  BY VertexFacts DEF Built, WellFormedTopology, InGlobalRouting
<1>1. d[1] \in P
  <2>1. /\ RouterId(net, d[1]) \in DOMAIN DistancesFrom(RouterId(net, d[1]))
        /\ \A e \in Edges : e[1] \in DOMAIN DistancesFrom(RouterId(net, d[1]))
              => e[2] \in DOMAIN DistancesFrom(RouterId(net, d[1]))
    BY <1>0, ReachFacts
  <2>2. CASE OnTransit(net, d)
    <3>1. \E f \in Edges : f[1] = RouterId(net, d[1]) /\ f[2] = Target(d)
      BY <1>0, <2>2, LinkEdges DEF Target
    <3> QED BY <1>0, <2>1, <3>1
  <2>3. CASE ~OnTransit(net, d)
    BY <1>0, <2>1, <2>3 DEF Target
  <2> QED BY <2>2, <2>3
<1>2. ASSUME NEW z \in P, NEW x \in net.routers, Adjacent(z, x) PROVE x \in P
  <2>1. RouterId(net, z) \in DOMAIN DistancesFrom(RouterId(net, x))
    BY <1>2, AdjacentReach
  <2>2. DOMAIN DistancesFrom(RouterId(net, z)) \subseteq DOMAIN DistancesFrom(RouterId(net, x))
    BY <1>0, <2>1, ReachFacts
  <2> QED BY <2>2
<1>3. P \in SUBSET net.nodes /\ d[1] \in net.nodes
  BY <1>0
<1> HIDE DEF P
<1>4. Joined(d[1]) \subseteq P
  BY <1>1, <1>2, <1>3, JoinedCloses
<1> QED BY <1>4 DEF P

(* A next hop is the one node with the gateway's address on the link.      *)
LEMMA GatewayIs ==
    ASSUME Built, NEW n \in net.nodes, NEW d \in Devices(net), NEW x \in Devices(net), NEW r,
           d[1] = n, Interface(net, x).ch = Interface(net, d).ch, Interface(net, x).up,
           r.gateway = Interface(net, x).addr, r.interface = d[2]
    PROVE  GatewayNodes(n, r) = {x[1]}
<1>0. WellFormedTopology(net)
  BY DEF Built
<1>1. net.ifs[n][r.interface] = Interface(net, d)
  BY DEF Interface
<1>2. {e \in OnChannel(net, Interface(net, d).ch) :
            Interface(net, e).addr = r.gateway /\ Interface(net, e).up} = {x}
  BY <1>0 DEF OnChannel, WellFormedTopology
<1> QED BY <1>1, <1>2 DEF GatewayNodes

(* Served routers hand packets to routers that are nearer, so they arrive. *)
LEMMA ServedDeliver ==
    ASSUME TypeOK, Built, Served, Ordinary, Subnetted, PositiveMetrics, pc = "done",
           NEW d \in Devices(net), InGlobalRouting(d), NEW y \in net.routers,
           Target(d) \in DOMAIN DistancesFrom(RouterId(net, y))
    PROVE  y \in Reaching(Interface(net, d).addr)
<1> DEFINE a == Interface(net, d).addr
           D(n) == DistancesFrom(RouterId(net, n))
           t == Target(d)
           B == {n \in net.routers : t \in DOMAIN D(n) /\ n \notin Reaching(a)}
           L == {D(n)[t] : n \in B}
<1>0. /\ net.routers \subseteq net.nodes /\ \A n \in net.routers : RouterId(net, n) \in Ids
  BY VertexFacts DEF Built, WellFormedTopology
<1>1. \A n \in net.routers : t \in DOMAIN D(n) => D(n)[t] \in Nat
  BY <1>0, ReachFacts
<1>2. \A n \in net.routers : Forwards(n, routes[n])
  <2>1. /\ node \notin net.nodes /\ node \in Nat /\ Cardinality(net.nodes) \in Nat
        /\ net.nodes = 0 .. Cardinality(net.nodes) - 1
    BY FS_CardinalityType DEF Served, TypeOK, WellFormed, WellFormedTopology
  <2>2. \A n \in net.routers : n < node
    BY <1>0, <2>1
  <2> QED BY <2>2 DEF Served
<1> HIDE DEF D
<1> SUFFICES ASSUME B # {} PROVE FALSE
  BY DEF D
<1>3. L \in SUBSET Nat /\ L # {}
  BY <1>1
<1>4. PICK m \in L : \A k \in L : m <= k
  <2> HIDE DEF L
  <2> QED BY <1>3, SmallestOf
<1>5. PICK n \in B : m = D(n)[t]
  BY <1>4
<1>6. n \in net.routers /\ t \in DOMAIN D(n) /\ n \notin Reaching(a) /\ m \in Nat
  BY <1>3, <1>4, <1>5
<1>7. ~Delivers(n, a)
  BY <1>0, <1>6, ReachingCloses
<1>8. /\ LookupGlobal(routes[n], a) # {}
      /\ \A r \in LookupGlobal(routes[n], a) : NextHop(n, t, r)
  BY <1>2, <1>6, <1>7 DEF Forwards, D
<1>9. ASSUME NEW r, NextHop(n, t, r)
      PROVE  GatewayNodes(n, r) # {} /\ GatewayNodes(n, r) \subseteq Reaching(a)
  <2>1. PICK c, x \in Devices(net) :
            /\ c[1] = n /\ x[1] \in net.routers
            /\ Interface(net, x).ch = Interface(net, c).ch /\ Interface(net, x).up
            /\ t \in DOMAIN D(x[1]) /\ D(x[1])[t] < D(n)[t]
            /\ r.gateway = Interface(net, x).addr /\ r.interface = c[2]
    BY <1>9 DEF NextHop, D
  <2>2. GatewayNodes(n, r) = {x[1]}
    BY <1>0, <1>6, <2>1, GatewayIs
  <2>3. x[1] \in Reaching(a)
    <3> SUFFICES ASSUME x[1] \notin Reaching(a) PROVE FALSE
      OBVIOUS
    <3>1. D(x[1])[t] \in L
      BY <2>1
    <3>2. D(x[1])[t] \in Nat /\ m <= D(x[1])[t]
      BY <1>3, <1>4, <3>1
    <3> QED BY <1>5, <1>6, <2>1, <3>2
  <2> QED BY <2>2, <2>3
<1>10. n \in Reaching(a)
  BY <1>6, <1>8, <1>9, ReachingCloses
<1> QED BY <1>6, <1>10

(***************************************************************************)
(* RoutesDeliver: on an ordinary network whose subnets are numbered apart  *)
(* and whose links have a positive metric, the tables InitializeRoutes     *)
(* leaves deliver a packet to an address of a working interface from every *)
(* router joined to its owner, whichever equal-cost routes are taken.      *)
(***************************************************************************)
THEOREM TablesDeliver == Spec => [](PositiveMetrics /\ Subnetted => RoutesDeliver)
<1>1. TypeOK /\ Built /\ Served => (PositiveMetrics /\ Subnetted => RoutesDeliver)
  <2> SUFFICES ASSUME TypeOK, Built, Served, PositiveMetrics, Subnetted, pc = "done", Ordinary,
                      NEW d \in Devices(net), InGlobalRouting(d), NEW y \in Joined(d[1])
               PROVE  y \in Reaching(Interface(net, d).addr)
    BY DEF RoutesDeliver
  <2>1. y \in net.routers /\ Target(d) \in DOMAIN DistancesFrom(RouterId(net, y))
    BY JoinedReach
  <2> QED BY <2>1, ServedDeliver
<1> QED BY <1>1, TypeCorrect, DatabaseBuilt, ServedHolds, PTL

-----------------------------------------------------------------------------
(***************************************************************************)
(* External networks.  The AS external LSA for the k-th network that       *)
(* router n injects.                                                       *)
(***************************************************************************)
ExternalLSA(t, n, k) ==
    [id |-> t.injected[n][k], mask |-> SubnetMask, advertisingRouter |-> RouterId(t, n)]

(* The external database lists these, of every router, and nothing else.   *)
LEMMA ExternalsListed ==
    ASSUME NEW t, WellFormedTopology(t), NEW l
    PROVE  l \in Listed(BuildExtDatabase(t, << >>)) <=>
              \E n \in t.routers : \E k \in DOMAIN t.injected[n] : l = ExternalLSA(t, n, k)
<1> DEFINE N == Cardinality(t.nodes)
           ss == [q \in 1 .. N |-> DiscoverExternalLSAs(t, q - 1)]
<1>1. /\ N \in Nat /\ t.nodes = 0 .. N - 1 /\ t.routers \subseteq t.nodes
      /\ t.injected \in [t.nodes -> Seq(Nat)]
  BY FS_CardinalityType DEF WellFormedTopology
<1> HIDE DEF N
<1>2. ASSUME NEW n \in t.routers
      PROVE  /\ DiscoverExternalLSAs(t, n) \in Seq(ASExternalLSAType)
             /\ \A x : x \in Listed(DiscoverExternalLSAs(t, n)) <=>
                         \E k \in DOMAIN t.injected[n] : x = ExternalLSA(t, n, k)
  <2>1. t.injected[n] \in Seq(Nat) /\ RouterId(t, n) \in Nat
    BY <1>1, RouterIdFacts
  <2>2. DOMAIN t.injected[n] = 1 .. Len(t.injected[n]) /\ Len(t.injected[n]) \in Nat
    BY <2>1
  <2>3. DiscoverExternalLSAs(t, n) = [k \in 1 .. Len(t.injected[n]) |-> ExternalLSA(t, n, k)]
    BY <2>2 DEF DiscoverExternalLSAs, ASExternalLSAs, ExternalLSA
  <2>4. \A k \in 1 .. Len(t.injected[n]) : ExternalLSA(t, n, k) \in ASExternalLSAType
    BY <2>1 DEF ExternalLSA, ASExternalLSAType, SubnetMask
  <2>5. DiscoverExternalLSAs(t, n) \in Seq(ASExternalLSAType)
    BY <2>2, <2>3, <2>4
  <2>6. Len(DiscoverExternalLSAs(t, n)) = Len(t.injected[n])
    BY <2>2, <2>3
  <2> QED BY <2>2, <2>3, <2>5, <2>6 DEF Listed
<1>3. ASSUME NEW n, n \notin t.routers
      PROVE  DiscoverExternalLSAs(t, n) \in Seq(ASExternalLSAType) /\ Listed(DiscoverExternalLSAs(t, n)) = {}
  BY <1>3 DEF DiscoverExternalLSAs, Listed
<1>4. \A q \in 1 .. N : DiscoverExternalLSAs(t, q - 1) \in Seq(ASExternalLSAType)
  BY <1>2, <1>3
<1>5. ss \in Seq(Seq(ASExternalLSAType)) /\ Len(ss) = N /\ \A q \in 1 .. N : ss[q] = DiscoverExternalLSAs(t, q - 1)
  BY <1>1, <1>4
<1>6. BuildExtDatabase(t, << >>) = << >> \o FlattenSeq(ss)
  BY DEF BuildExtDatabase, N
<1> HIDE DEF ss
<1>7. /\ FlattenSeq(ss) \in Seq(ASExternalLSAType)
      /\ Listed(FlattenSeq(ss)) = UNION {Listed(ss[q]) : q \in 1 .. Len(ss)}
  BY <1>5, FlattenLists
<1>8. << >> \o FlattenSeq(ss) = FlattenSeq(ss)
  BY <1>7, ConcatEmptySeq
<1>9. l \in Listed(BuildExtDatabase(t, << >>)) <=> \E q \in 1 .. N : l \in Listed(DiscoverExternalLSAs(t, q - 1))
  BY <1>5, <1>6, <1>7, <1>8
<1>10. ASSUME NEW q \in 1 .. N, l \in Listed(DiscoverExternalLSAs(t, q - 1))
       PROVE  \E n \in t.routers : \E k \in DOMAIN t.injected[n] : l = ExternalLSA(t, n, k)
  <2>1. PICK n : n = q - 1
    OBVIOUS
  <2>2. n \in t.routers
    BY <1>3, <1>10, <2>1
  <2> QED BY <1>2, <1>10, <2>1, <2>2
<1>11. ASSUME NEW n \in t.routers, NEW k \in DOMAIN t.injected[n], l = ExternalLSA(t, n, k)
       PROVE  \E q \in 1 .. N : l \in Listed(DiscoverExternalLSAs(t, q - 1))
  <2>1. PICK q \in 1 .. N : q - 1 = n
    <3>1. n + 1 \in 1 .. N /\ (n + 1) - 1 = n
      BY <1>1
    <3> QED BY <3>1
  <2>2. l \in Listed(DiscoverExternalLSAs(t, n))
    BY <1>2, <1>11
  <2> QED BY <2>1, <2>2
<1> QED BY <1>9, <1>10, <1>11

(* The external database is the one built from the topology.               *)
ExternalsBuilt == extdb = BuildExtDatabase(net, << >>)

(* DiscoverLSAs builds it and the calculations leave it alone.             *)
LEMMA ExternalsAreBuilt == Spec => []ExternalsBuilt
<1>1. Init => ExternalsBuilt
  BY DEF Init, ExternalsBuilt
<1>2. ExternalsBuilt /\ [Next]_vars => ExternalsBuilt'
  BY TopologyUnchanged DEF topology, ExternalsBuilt
<1> QED BY <1>1, <1>2, PTL DEF Spec

(* Different routers inject different networks.                            *)
InjectedApart ==
    \A x, y \in net.routers : \A j \in DOMAIN net.injected[x], k \in DOMAIN net.injected[y] :
        IsMatch(SubnetMask, net.injected[x][j], net.injected[y][k]) => x = y

(* Tables of router n have routes to the networks of the routers in reach. *)
ReachesExternals(n, tables) ==
    \A y \in net.routers : \A k \in DOMAIN net.injected[y] :
        y # n => (RouterId(net, y) \in DOMAIN DistancesFrom(RouterId(net, n))
                    <=> Matching(tables.external, net.injected[y][k]) # {})

(* A finished calculation has given its router these routes.               *)
LEMMA FinishedExternals ==
    ASSUME Finished, CurrentTables, ExternalsBuilt, InjectedApart, pass = Len(extdb),
           \A q : Visited(q) = InTree
    PROVE  ReachesExternals(node, routes[node])
<1> SUFFICES ASSUME NEW y \in net.routers, NEW k \in DOMAIN net.injected[y], y # node
             PROVE  RouterId(net, y) \in DOMAIN DistancesFrom(RouterId(net, node))
                      <=> Matching(routes[node].external, net.injected[y][k]) # {}
  BY DEF ReachesExternals
<1>0. /\ TypeOK /\ Built /\ Dijkstra /\ pc = "walk" /\ WellFormedTopology(net) /\ Building
      /\ root = RouterId(net, node) /\ root \notin NetworkVertices /\ InTree \subseteq Ids
      /\ node \in net.routers
      /\ \A n \in net.routers : RouterId(net, n) = root => n = node
      /\ \A n \in net.routers : RouterId(net, n) \notin NetworkVertices
      /\ extdb \in Seq(ASExternalLSAType)
  BY FinishedRoot, VertexFacts DEF Finished, Built, TypeOK, WellFormed
<1>1. DistancesFrom(root) = [w \in InTree |-> dist[w]]
  BY <1>0, WalkShortest
<1>2. RouterId(net, y) \in DOMAIN DistancesFrom(RouterId(net, node)) <=> RouterId(net, y) \in InTree \ {root}
  BY <1>0, <1>1
<1>3. \A n \in net.routers : \A j \in DOMAIN net.injected[n] : net.injected[n][j] \in Nat
  <2>1. \A n \in net.routers : net.injected[n] \in Seq(Nat)
    BY <1>0 DEF WellFormedTopology
  <2> QED BY <2>1
<1>4. \A r : r \in routes[node].external <=>
                \E q \in 1 .. Len(extdb) : \E u \in InTree : r \in VisitRoutes(u, q)
  BY <1>0 DEF CurrentTables, ExternalRoute
<1>5. ASSUME NEW r, NEW q \in 1 .. Len(extdb), NEW u
      PROVE  r \in VisitRoutes(u, q) <=> /\ u \notin NetworkVertices \cup {root}
                                         /\ u = extdb[q].advertisingRouter
                                         /\ r \in RoutesVia(u, extdb[q].id, extdb[q].mask)
  <2>1. q # 0
    OBVIOUS
  <2> QED BY <2>1 DEF VisitRoutes, SPFAddASExternal
<1>6. ASSUME NEW n \in net.routers, NEW j \in DOMAIN net.injected[n]
      PROVE  \E q \in 1 .. Len(extdb) : extdb[q] = ExternalLSA(net, n, j)
  <2>1. ExternalLSA(net, n, j) \in Listed(extdb)
    BY <1>0, ExternalsListed DEF ExternalsBuilt
  <2> QED BY <2>1 DEF Listed
<1>7. ASSUME NEW q \in 1 .. Len(extdb)
      PROVE  \E n \in net.routers : \E j \in DOMAIN net.injected[n] : extdb[q] = ExternalLSA(net, n, j)
  <2>1. extdb[q] \in Listed(extdb)
    BY DEF Listed
  <2> QED BY <1>0, <2>1, ExternalsListed DEF ExternalsBuilt
<1>8. ASSUME NEW n \in net.routers, NEW j \in DOMAIN net.injected[n], NEW exit, NEW r,
             r = Route(CombineMask(net.injected[n][j], SubnetMask), SubnetMask, exit)
      PROVE  IsMatch(r.mask, net.injected[y][k], r.dest)
                <=> IsMatch(SubnetMask, net.injected[n][j], net.injected[y][k])
  <2>1. r.mask = SubnetMask /\ r.dest = CombineMask(net.injected[n][j], SubnetMask)
    BY <1>8 DEF Route
  <2>2. CombineMask(r.dest, SubnetMask) = CombineMask(net.injected[n][j], SubnetMask)
    BY <1>3, <2>1, CombineMaskFacts
  <2> QED BY <2>1, <2>2 DEF IsMatch
<1>9. ASSUME RouterId(net, y) \in InTree \ {root}
      PROVE  Matching(routes[node].external, net.injected[y][k]) # {}
  <2>1. PICK exit \in exits[RouterId(net, y)] : TRUE
    BY <1>9, ExitsExist
  <2>2. PICK q \in 1 .. Len(extdb) : extdb[q] = ExternalLSA(net, y, k)
    BY <1>6
  <2>3. /\ extdb[q].advertisingRouter = RouterId(net, y) /\ extdb[q].id = net.injected[y][k]
        /\ extdb[q].mask = SubnetMask
    BY <2>2 DEF ExternalLSA
  <2>4. PICK r : r = Route(CombineMask(net.injected[y][k], SubnetMask), SubnetMask, exit)
    OBVIOUS
  <2>5. r \in RoutesVia(RouterId(net, y), extdb[q].id, extdb[q].mask)
    BY <1>9, <2>1, <2>3, <2>4, RoutesViaAre
  <2>6. r \in VisitRoutes(RouterId(net, y), q)
    BY <1>0, <1>5, <1>9, <2>3, <2>5
  <2>7. r \in routes[node].external
    BY <1>4, <1>9, <2>6
  <2>8. IsMatch(r.mask, net.injected[y][k], r.dest)
    BY <1>8, <2>4 DEF IsMatch
  <2> QED BY <2>7, <2>8 DEF Matching
<1>10. ASSUME NEW r \in Matching(routes[node].external, net.injected[y][k])
       PROVE  RouterId(net, y) \in InTree \ {root}
  <2>1. r \in routes[node].external /\ IsMatch(r.mask, net.injected[y][k], r.dest)
    BY <1>10 DEF Matching
  <2>2. PICK q \in 1 .. Len(extdb) : \E u \in InTree : r \in VisitRoutes(u, q)
    BY <1>4, <2>1
  <2>3. PICK u \in InTree : r \in VisitRoutes(u, q)
    BY <2>2
  <2>4. PICK n \in net.routers : \E j \in DOMAIN net.injected[n] : extdb[q] = ExternalLSA(net, n, j)
    BY <1>7
  <2>5. PICK j \in DOMAIN net.injected[n] : extdb[q] = ExternalLSA(net, n, j)
    BY <2>4
  <2>6. u \in InTree \ {root} /\ u = RouterId(net, n)
        /\ r \in RoutesVia(u, net.injected[n][j], SubnetMask)
    BY <1>5, <2>3, <2>5 DEF ExternalLSA
  <2>7. PICK exit \in exits[u] : r = Route(CombineMask(net.injected[n][j], SubnetMask), SubnetMask, exit)
    BY <2>6, RoutesViaAre
  <2>8. IsMatch(SubnetMask, net.injected[n][j], net.injected[y][k])
    BY <1>8, <2>1, <2>7
  <2>9. n = y
    BY <2>8 DEF InjectedApart
  <2> QED BY <2>6, <2>9
<1> QED BY <1>2, <1>9, <1>10

(* What is asked of the external routes depends on the topology.           *)
LEMMA ExternalsUnchanged ==
    ASSUME UNCHANGED <<net, lsdb>>, NEW n, NEW tables
    PROVE  /\ ReachesExternals(n, tables)' <=> ReachesExternals(n, tables)
           /\ InjectedApart' <=> InjectedApart
<1>1. Ids' = Ids /\ Edges' = Edges
  BY GraphUnchanged
<1>2. \A y : DistancesFrom(y)' = DistancesFrom(y)
  BY <1>1 DEF DistancesFrom
<1>3. ReachesExternals(n, tables)' <=> ReachesExternals(n, tables)
  BY <1>2 DEF ReachesExternals
<1>4. InjectedApart' <=> InjectedApart
  BY DEF InjectedApart
<1> QED BY <1>3, <1>4

(* Whether a router is a stub node depends on the database.                *)
LEMMA StubsUnchanged ==
    ASSUME UNCHANGED <<net, lsdb>>, NEW n
    PROVE  CheckForStubNode(RouterId(net, n))' <=> CheckForStubNode(RouterId(net, n))
<1>1. PICK u : u = RouterId(net, n)
  OBVIOUS
<1>2. RouterId(net, n)' = u
  BY <1>1
<1>3. TransitLinks(RouterId(net, n))' = TransitLinks(u)
  BY <1>2 DEF TransitLinks
<1>4. HasDefaultLink(RouterId(net, n))' <=> HasDefaultLink(u)
  BY <1>2, <1>3 DEF HasDefaultLink, BackLinks
<1> QED BY <1>1, <1>3, <1>4 DEF CheckForStubNode

(* The conditions on the network under which external routes are in place. *)
Numbered == Ordinary /\ Subnetted /\ PositiveMetrics /\ InjectedApart

(* The routers that have been served, stub nodes aside, have these routes. *)
ServedExternals ==
    Numbered => \A n \in net.routers : n < node /\ ~CheckForStubNode(RouterId(net, n))
                                          => ReachesExternals(n, routes[n])

(* The routes of the routers before the node under the iterator stay.      *)
LEMMA ServedExternalsKept ==
    ASSUME TypeOK, ServedExternals, UNCHANGED <<net, lsdb>>, node' = node \/ node' = node + 1,
           \A n \in net.nodes : n # node => routes'[n] = routes[n],
           \/ node' = node \/ node \notin net.routers
           \/ CheckForStubNode(RouterId(net, node))
           \/ Numbered => ReachesExternals(node, routes'[node])
    PROVE  ServedExternals'
<1> SUFFICES ASSUME Numbered', NEW n \in net.routers, n < node', ~CheckForStubNode(RouterId(net, n))'
             PROVE  ReachesExternals(n, routes[n])'
  BY DEF ServedExternals
<1>0. node \in Nat /\ n \in Nat /\ n \in net.nodes
  BY DEF TypeOK, WellFormed, WellFormedTopology
<1>1. Numbered
  BY ConditionsUnchanged, ExternalsUnchanged DEF Numbered
<1>2. PICK T : T = routes'[n]
  OBVIOUS
<1>3. ~CheckForStubNode(RouterId(net, n))
  BY StubsUnchanged
<1>4. ReachesExternals(n, T)
  <2>1. CASE n < node
    <3>1. T = routes[n]
      BY <1>0, <1>2, <2>1
    <3> QED BY <1>1, <1>3, <2>1, <3>1 DEF ServedExternals
  <2>2. CASE ~(n < node)
    <3>1. n = node /\ node' # node
      BY <1>0, <2>2
    <3> QED BY <1>1, <1>2, <1>3, <3>1
  <2> QED BY <2>1, <2>2
<1>5. ReachesExternals(n, T)'
  BY <1>4, ExternalsUnchanged
<1> QED BY <1>2, <1>5 DEF ReachesExternals

(* A router that is not a stub node has them when the iterator leaves it.  *)
LEMMA ServedExternalsInductive ==
    /\ TypeOK /\ Built /\ RootIsNode /\ Dijkstra /\ EqualCost /\ Exits /\ ExternalsBuilt
    /\ ChildrenFollowParents /\ WalkInvariant /\ CurrentTables /\ ServedExternals /\ [Next]_vars
    => ServedExternals'
<1> SUFFICES ASSUME TypeOK, Built, RootIsNode, Dijkstra, EqualCost, Exits, ExternalsBuilt,
                    ChildrenFollowParents, WalkInvariant, CurrentTables, ServedExternals, [Next]_vars
             PROVE  ServedExternals'
  OBVIOUS
<1> USE DEF topology, vertices, walk
<1>0. /\ UNCHANGED <<net, lsdb>> /\ node \in Nat /\ routes \in [net.nodes -> Tables]
      /\ net.routers \subseteq net.nodes
  BY TopologyUnchanged DEF TypeOK, WellFormed, WellFormedTopology
<1>1. CASE UNCHANGED vars \/ FinishRoutes \/ StartCalculation \/ MissingLSA \/ SkipRecord
  <2>1. node' = node /\ routes' = routes
    BY <1>1 DEF vars, FinishRoutes, StartCalculation, MissingLSA, SkipRecord, Examining, NextRecord
  <2> QED BY <1>0, <2>1, ServedExternalsKept
<1>2. CASE SkipNode
  <2>1. node' = node + 1 /\ routes' = routes /\ node \notin net.routers
    BY <1>2 DEF SkipNode
  <2> QED BY <1>0, <2>1, ServedExternalsKept
<1>3. CASE TruncateForStubNode
  <2>1. /\ node' = node + 1 /\ node \in net.routers /\ CheckForStubNode(RouterId(net, node))
        /\ AddRoutes("network", DefaultRoutes(RouterId(net, node)))
    BY <1>0, <1>3 DEF TruncateForStubNode
  <2>2. \A n \in net.nodes : n # node => routes'[n] = routes[n]
    BY <2>1, AddRoutesIs
  <2> QED BY <1>0, <2>1, <2>2, ServedExternalsKept
<1>4. CASE FinishCalculation
  <2>1. /\ node' = node + 1 /\ routes' = routes
        /\ pc = "walk" /\ AtEnd /\ Len(stack) = 1 /\ pass = Len(extdb)
    BY <1>4 DEF FinishCalculation, AtEnd
  <2>2. \A q : Visited(q) = InTree
    BY <2>1, WalkEnds DEF Visited
  <2>3. ASSUME Ordinary, Subnetted, PositiveMetrics PROVE Finished
    BY <2>1, <2>3 DEF Finished, Exits, Building
  <2>4. Numbered => ReachesExternals(node, routes[node])
    BY <2>1, <2>2, <2>3, FinishedExternals DEF Numbered
  <2>5. Numbered => ReachesExternals(node, routes'[node])
    BY <2>1, <2>4
  <2> QED BY <1>0, <2>1, <2>5, ServedExternalsKept
<1>5. ASSUME NEW w \in Ids,
             \/ SkipInTree(w) \/ SkipLongerPath(w) \/ NewCandidate(w) \/ EqualCostPath(w)
             \/ ShorterPath(w) \/ NexthopFails(w)
      PROVE  ServedExternals'
  <2>1. node' = node /\ routes' = routes
    BY <1>5 DEF SkipInTree, SkipLongerPath, NewCandidate, EqualCostPath, ShorterPath, NexthopFails,
                LeadsTo, Examining, NextRecord
  <2> QED BY <1>0, <2>1, ServedExternalsKept
<1>6. CASE AddToTree \/ StartStubs \/ EnterChild \/ SkipChild \/ LeaveChild \/ NextExternal
  <2>1. /\ node' = node
        /\ \A n \in net.nodes : n # node => routes'[n] = routes[n]
    BY <1>0, <1>6 DEF AddToTree, StartStubs, EnterChild, SkipChild, LeaveChild, NextExternal,
           AtChild, AtEnd, AddRoutes
  <2> QED BY <1>0, <2>1, ServedExternalsKept
<1> QED
  BY <1>1, <1>2, <1>3, <1>4, <1>5, <1>6 DEF Next, Step, Stopped

(* So the external routes are in place when the iterator is at the end.    *)
LEMMA ServedExternalsHolds == Spec => []ServedExternals
<1>1. Init /\ TypeOK => ServedExternals
  <2> SUFFICES ASSUME Init, TypeOK, NEW n \in net.routers PROVE ~(n < node)
    BY DEF ServedExternals
  <2>1. node = 0 /\ n \in Nat
    BY DEF Init, TypeOK, WellFormed, WellFormedTopology
  <2> QED BY <2>1
<1> QED
  BY <1>1, TypeCorrect, DatabaseBuilt, ExitsHold, DijkstraHolds, EqualCostHolds, TablesHold,
     ExternalsAreBuilt, ServedExternalsInductive, PTL DEF Spec

(* Vertices in reach stay in every set that has the first and is closed.   *)
LEMMA ReachStays ==
    ASSUME TypeOK, NEW r \in Ids, NEW Q, r \in Q, \A e \in Edges : e[1] \in Q => e[2] \in Q
    PROVE  DOMAIN DistancesFrom(r) \subseteq Q
<1> DEFINE D == DistancesWithin(Edges, r)
           B == {n \in Nat : ~(DOMAIN D[n] \subseteq Q)}
<1>0. IsFiniteSet(Ids) /\ Edges \in Graphs(Ids) /\ Cardinality(Ids) \in Nat
  BY EdgesAreGraph, FS_CardinalityType DEF TypeOK, WellFormed, WellFormedDatabase, Ids
<1>1. DistancesFrom(r) = D[Cardinality(Ids)]
  BY DEF DistancesFrom
<1>2. D[0] = [w \in {r} |-> 0] /\ \A n \in Nat : Round(Edges, D[n], D[n + 1])
  BY <1>0, DistancesRecursion, DistancesRound
<1> HIDE DEF D
<1>3. SUFFICES ASSUME B # {} PROVE FALSE
  BY <1>0, <1>1
<1>4. PICK k \in B : \A m \in B : k <= m
  <2> HIDE DEF B
  <2>1. B \in SUBSET Nat
    BY DEF B
  <2> QED BY <1>3, <2>1, SmallestOf
<1>5. k # 0
  BY <1>2, <1>4
<1>6. PICK m \in Nat : k = m + 1
  BY <1>4, <1>5
<1>7. DOMAIN D[m] \subseteq Q
  BY <1>4, <1>6
<1>8. PICK w \in DOMAIN D[m + 1] : w \notin Q
  BY <1>4, <1>6
<1>9. \/ w \in DOMAIN D[m]
      \/ \E e \in Edges : e[1] \in DOMAIN D[m] /\ e[2] = w
  BY <1>2, <1>8 DEF Round
<1> QED BY <1>7, <1>8, <1>9

(* Routers with working interfaces on the same link are adjacent.          *)
LEMMA AdjacentOf ==
    ASSUME Built, Ordinary, NEW d \in Devices(net), NEW e \in Devices(net), e[1] \in net.routers,
           d[1] # e[1], Interface(net, e).ch = Interface(net, d).ch,
           Interface(net, d).up, Interface(net, e).up
    PROVE  Adjacent(d[1], e[1])
<1>1. d = <<d[1], d[2]>> /\ d[2] \in DOMAIN net.ifs[d[1]]
  BY DeviceFacts DEF Built
<1>2. Advertised(net, d) /\ Advertised(net, e)
  BY DEF Ordinary, Advertised
<1>3. d[2] \in AdvertisedInterfaces(d[1])
  BY <1>1, <1>2 DEF AdvertisedInterfaces
<1>4. net.ifs[d[1]][d[2]] = Interface(net, d)
  BY DEF Interface
<1>5. e \in NeighbourDevices(d[1], d[2])
  BY <1>2, <1>4 DEF NeighbourDevices, OnChannel
<1> QED BY <1>3, <1>5 DEF Adjacent

(* Adjacency is symmetric.                                                 *)
LEMMA AdjacentBack ==
    ASSUME Built, Ordinary, NEW z \in net.routers, NEW y, Adjacent(z, y)
    PROVE  Adjacent(y, z)
<1>0. z \in net.nodes
  BY DEF Built, WellFormedTopology
<1>1. PICK j \in AdvertisedInterfaces(z) : \E x \in NeighbourDevices(z, j) : x[1] = y
  BY DEF Adjacent
<1>2. PICK x \in NeighbourDevices(z, j) : x[1] = y
  BY <1>1
<1>3. PICK c : c = <<z, j>>
  OBVIOUS
<1>4. /\ c \in Devices(net) /\ c[1] = z /\ Advertised(net, c) /\ Interface(net, c) = net.ifs[z][j]
  BY <1>0, <1>1, <1>3, DeviceOf DEF AdvertisedInterfaces, Interface
<1>5. /\ x \in Devices(net) /\ x[1] = y /\ y # z /\ Advertised(net, x)
      /\ Interface(net, x).ch = Interface(net, c).ch
  BY <1>2, <1>4 DEF NeighbourDevices, OnChannel
<1>6. Adjacent(x[1], c[1])
  BY <1>4, <1>5, AdjacentOf DEF Advertised
<1> QED BY <1>4, <1>5, <1>6

(* The routers joined to a router are the ones in its reach.               *)
LEMMA JoinedAreReached ==
    ASSUME TypeOK, Built, Ordinary, NEW x \in net.routers, NEW y \in net.routers
    PROVE  y \in Joined(x) <=> RouterId(net, y) \in DOMAIN DistancesFrom(RouterId(net, x))
<1> DEFINE D(n) == DOMAIN DistancesFrom(RouterId(net, n))
           P == {z \in net.routers : RouterId(net, z) \in D(x)}
           Near == {d \in Devices(net) : d[1] \in net.routers /\ d[1] \in Joined(x)}
           Q == {RouterId(net, z) : z \in Joined(x) \cap net.routers}
                  \cup {FindDesignatedRouterForLink(net, d) : d \in {e \in Near : OnTransit(net, e)}}
<1>0. /\ net.routers \subseteq net.nodes /\ WellFormedTopology(net)
      /\ \A z \in net.routers : RouterId(net, z) \in Ids \ NetworkVertices
      /\ \A m, n \in net.routers : RouterId(net, m) = RouterId(net, n) => m = n
  BY VertexFacts, RouterIdFacts DEF Built, WellFormedTopology
<1>1. ASSUME y \in Joined(x) PROVE RouterId(net, y) \in D(x)
  <2>1. x \in P
    BY <1>0, ReachFacts
  <2>2. ASSUME NEW z \in P, NEW w \in net.routers, Adjacent(z, w) PROVE w \in P
    <3>1. RouterId(net, w) \in D(z)
      BY <2>2, AdjacentBack, AdjacentReach
    <3>2. D(z) \subseteq D(x)
      BY <1>0, ReachFacts
    <3> QED BY <3>1, <3>2
  <2>3. P \in SUBSET net.nodes /\ x \in net.nodes
    BY <1>0
  <2> HIDE DEF P
  <2>4. Joined(x) \subseteq P
    BY <2>1, <2>2, <2>3, JoinedCloses
  <2> QED BY <1>1, <2>4 DEF P
<1>2. ASSUME RouterId(net, y) \in D(x) PROVE y \in Joined(x)
  <2>1. /\ x \in Joined(x)
        /\ \A z \in Joined(x) : \A w \in net.routers : Adjacent(z, w) => w \in Joined(x)
    BY <1>0, JoinedCloses
  <2>2. ASSUME NEW n \in net.routers, RouterId(net, n) \in Q PROVE n \in Joined(x)
    <3>1. \A d \in Near : OnTransit(net, d) => FindDesignatedRouterForLink(net, d) # RouterId(net, n)
      <4> SUFFICES ASSUME NEW d \in Near, OnTransit(net, d)
                   PROVE  FindDesignatedRouterForLink(net, d) # RouterId(net, n)
        OBVIOUS
      <4>1. PICK c \in Devices(net) : FindDesignatedRouterForLink(net, d) = Interface(net, c).addr
        BY TransitFacts
      <4>2. RouterId(net, n) \in Nat /\ Interface(net, c).addr \in Nat
            /\ RouterId(net, n) < Interface(net, c).addr
        BY <1>0, RouterIdFacts, DeviceFacts
      <4> QED BY <4>1, <4>2
    <3> QED BY <1>0, <2>2, <3>1
  <2>3. ASSUME NEW e \in Edges, e[1] \in Q PROVE e[2] \in Q
    <3>1. ASSUME NEW d \in Devices(net), RouterEdge(d, e) PROVE e[2] \in Q
      <4>1. PICK c : c = GetAdjacent(net, d)
        OBVIOUS
      <4>2. /\ d[1] \in net.routers /\ LinksRouters(net, d) /\ e[1] = RouterId(net, d[1])
            /\ e[2] = RouterId(net, c[1])
            /\ c[1] \in net.routers /\ Interface(net, c).up /\ Interface(net, d).up
            /\ net.kind[Interface(net, d).ch] = "p2p"
        BY <3>1, <4>1 DEF RouterEdge, LinksRouters, Advertised
      <4>3. c \in Devices(net) /\ c # d /\ Interface(net, c).ch = Interface(net, d).ch
        BY <1>0, <4>1, <4>2, AdjacentFacts
      <4>4. d[1] # c[1]
        BY <4>3 DEF Ordinary
      <4>5. d[1] \in Joined(x)
        BY <2>2, <2>3, <4>2
      <4>6. Adjacent(d[1], c[1])
        BY <4>2, <4>3, <4>4, AdjacentOf
      <4> QED BY <2>1, <4>2, <4>5, <4>6
    <3>2. ASSUME NEW d \in Devices(net), TransitEdge(d, e) PROVE e[2] \in Q
      <4>1. d[1] \in Joined(x)
        BY <2>2, <2>3, <3>2 DEF TransitEdge
      <4> QED BY <3>2, <4>1 DEF TransitEdge
    <3>3. ASSUME NEW c \in Devices(net), NEW d \in Devices(net), NetworkEdge(c, d, e) PROVE e[2] \in Q
      <4>1. /\ c[1] \in net.routers /\ OnTransit(net, c)
            /\ FindDesignatedRouterForLink(net, c) = Interface(net, c).addr
            /\ d[1] \in net.routers /\ OnTransit(net, d) /\ Interface(net, d).ch = Interface(net, c).ch
            /\ e[1] = Interface(net, c).addr /\ e[2] = RouterId(net, d[1])
        BY <3>3 DEF NetworkEdge, IsDesignated
      <4>2. Interface(net, c).addr \in NetworkVertices
        BY <3>3, VertexFacts DEF NetworkEdge
      <4>3. PICK b \in Near : OnTransit(net, b) /\ e[1] = FindDesignatedRouterForLink(net, b)
        BY <1>0, <2>3, <4>1, <4>2
      <4>4. Interface(net, b).ch = Interface(net, c).ch
        BY <4>1, <4>3, SameNetwork
      <4>5. d[1] \in Joined(x)
        <5>1. CASE d[1] = b[1]
          BY <4>3, <5>1
        <5>2. CASE d[1] # b[1]
          <6>1. Interface(net, b).up /\ Interface(net, d).up
            BY <4>1, <4>3 DEF OnTransit, Advertised
          <6>2. Adjacent(b[1], d[1])
            BY <4>1, <4>3, <4>4, <5>2, <6>1, AdjacentOf
          <6> QED BY <2>1, <4>1, <4>3, <6>2
        <5> QED BY <5>1, <5>2
      <4> QED BY <4>1, <4>5
    <3> HIDE DEF Q
    <3> QED BY <3>1, <3>2, <3>3, EdgeComesFrom
  <2>4. RouterId(net, x) \in Q
    BY <2>1
  <2> HIDE DEF Q
  <2>5. D(x) \subseteq Q
    BY <1>0, <2>3, <2>4, ReachStays
  <2> QED BY <1>2, <2>2, <2>5
<1> QED BY <1>1, <1>2

(***************************************************************************)
(* ExternalsFollowRouters: on an ordinary network whose subnets, and the   *)
(* networks that its routers inject, are numbered apart, a router that ran *)
(* the calculation has external routes to the networks of exactly the      *)
(* routers it is joined to.                                                *)
(***************************************************************************)
THEOREM ExternalsFollow == Spec => [](Numbered => ExternalsFollowRouters)
<1>1. TypeOK /\ Built /\ Served /\ ServedExternals => (Numbered => ExternalsFollowRouters)
  <2> SUFFICES ASSUME TypeOK, Built, Served, ServedExternals, Numbered, pc = "done",
                      NEW x \in net.routers, NEW y \in net.routers, NEW k \in DOMAIN net.injected[y],
                      x # y, ~CheckForStubNode(RouterId(net, x))
               PROVE  y \in Joined(x) <=> Matching(routes[x].external, net.injected[y][k]) # {}
    BY DEF ExternalsFollowRouters
  <2>1. /\ node \notin net.nodes /\ node \in Nat /\ Cardinality(net.nodes) \in Nat
        /\ net.nodes = 0 .. Cardinality(net.nodes) - 1 /\ net.routers \subseteq net.nodes
    BY FS_CardinalityType DEF Served, TypeOK, WellFormed, WellFormedTopology
  <2>2. x < node
    BY <2>1
  <2>3. ReachesExternals(x, routes[x])
    BY <2>2 DEF ServedExternals
  <2>4. y \in Joined(x) <=> RouterId(net, y) \in DOMAIN DistancesFrom(RouterId(net, x))
    BY JoinedAreReached DEF Numbered
  <2> QED BY <2>3, <2>4 DEF ReachesExternals
<1> QED BY <1>1, TypeCorrect, DatabaseBuilt, ServedHolds, ServedExternalsHolds, PTL
=============================================================================
