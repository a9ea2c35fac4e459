--------------------------- MODULE SpfCalculation ---------------------------
(***************************************************************************)
(* GlobalRouteManagerImpl::InitializeRoutes: for every router in NodeList  *)
(* order, one run of SPFCalculate, the Dijkstra calculation of RFC 2328    *)
(* 16.1 that builds a shortest path tree over the link state database and  *)
(* writes the routes of the router at its root                             *)
(* (src/internet/model/global-route-manager-impl.cc).                      *)
(*                                                                         *)
(* One step examines one record of the vertex being expanded, moves one    *)
(* candidate into the tree, or takes one step of the depth-first walks     *)
(* over the finished tree.  A failing assertion and the use of a null      *)
(* pointer end in pc = "abort", a loop that never ends in pc = "spin".     *)
(*                                                                         *)
(* An SPFVertex is represented by the id of its LSA: the code holds at     *)
(* most one vertex per LSA beyond the step that created it.  Its fields    *)
(* are the functions dist, exits, parents, first and children.             *)
(***************************************************************************)
EXTENDS GlobalRouter, CandidateQueue, Ipv4GlobalRouting

CONSTANT Networks   \* the topologies the calculation is run on

ASSUME NetworksAssumption ==
    \A t \in Networks : WellFormedTopology(t)

VARIABLES
    net,        \* the topology
    lsdb,       \* m_lsdb->m_database: id -> Router-LSA or Network-LSA
    extdb,      \* m_lsdb->m_extdatabase: the AS external LSAs
    routes,     \* node -> its Ipv4GlobalRouting tables
    pc,         \* where the calculation is
    node,       \* InitializeRoutes' position in NodeList
    root,       \* m_spfroot
    v,          \* SPFCalculate's current vertex
    i,          \* SPFNext's position in v's records
    status,     \* GlobalRoutingLSA::m_status
    dist,       \* SPFVertex::m_distanceFromRoot
    exits,      \* SPFVertex::m_ecmpRootExits: <<next hop, interface>> pairs
    parents,    \* SPFVertex::m_parents
    first,      \* SPFVertex::GetParent(0): the first of m_parents
    children,   \* SPFVertex::m_children
    queue,      \* SPFCalculate's CandidateQueue
    pass,       \* 0: SPFProcessStubs; k: ProcessASExternals of extdb[k]
    stack,      \* the recursion of the walk: <<vertex, next child>> frames
    processed   \* the vertices with m_vertexProcessed set

topology == <<net, lsdb, extdb>>
vertices == <<dist, exits, parents, first>>
walk     == <<pass, stack, processed>>
vars     == <<topology, routes, pc, node, root, v, i, status, vertices,
              children, queue, walk>>

Ids == DOMAIN lsdb

NetworkVertices == {id \in Ids : lsdb[id].type = "NetworkLSA"}

InTree == {id \in Ids : status[id] = "InSpfTree"}

-----------------------------------------------------------------------------
(***************************************************************************)
(* Records of a vertex, as SPFNext walks them.                             *)
(***************************************************************************)
NumRecords(u) ==
    IF u \in NetworkVertices THEN Len(lsdb[u].attached) ELSE Len(lsdb[u].links)

IsStubRecord(u, k) ==
    u \notin NetworkVertices /\ lsdb[u].links[k].type = "StubNetwork"

(* The ids GetLSA / GetLSAByLinkData can find for record k of u. *)
Neighbours(u, k) ==
    IF u \in NetworkVertices THEN LSAsByLinkData(lsdb, lsdb[u].attached[k])
    ELSE {lsdb[u].links[k].linkId} \cap Ids

(* w_lsa: the LSA with the smallest key, as the std::map is walked in order. *)
Neighbour(u, k) ==
    CHOOSE w \in Neighbours(u, k) : \A x \in Neighbours(u, k) : w <= x

Cost(u, k) == IF u \in NetworkVertices THEN 0 ELSE lsdb[u].links[k].metric

-----------------------------------------------------------------------------
(***************************************************************************)
(* GlobalRouteManagerImpl::SPFGetNextLink.  NthLink(u, w, n) is the        *)
(* position of the n-th of u's records with link id w, 0 (the null         *)
(* pointer) if there are fewer.  Without a previous link the first is      *)
(* returned.  With one, whichever it is, the first two are skipped: one    *)
(* sets found_prev_link, the other clears skip.                            *)
(***************************************************************************)
PointsTo(u, w, k) == lsdb[u].links[k].linkId = w

NthLinks(u, w, n) ==
    {k \in DOMAIN lsdb[u].links :
        /\ PointsTo(u, w, k)
        /\ Cardinality({m \in 1 .. k - 1 : PointsTo(u, w, m)}) = n - 1}

NthLink(u, w, n) ==
    IF NthLinks(u, w, n) = {} THEN 0 ELSE CHOOSE k \in NthLinks(u, w, n) : TRUE

SPFGetNextLink(u, w, hasPrev) == NthLink(u, w, IF hasPrev THEN 3 ELSE 1)

(***************************************************************************)
(* GlobalRouteManagerImpl::FindOutgoingInterfaceId with                    *)
(* Ipv4L3Protocol::GetInterfaceForPrefix: the first interface of the root  *)
(* node with an address in the block, up or not; -1 if there is none.      *)
(***************************************************************************)
FindOutgoingInterfaceId(a, mask) ==
    LET own     == net.ifs[node]
        matches == {j \in DOMAIN own :
                        CombineMask(own[j].addr, mask) = CombineMask(a, mask)}
    IN  IF matches = {} THEN -1
        ELSE CHOOSE j \in matches : \A k \in matches : j <= k

-----------------------------------------------------------------------------
(***************************************************************************)
(* GlobalRouteManagerImpl::SPFNexthopCalculation(v, w, l, distance), its   *)
(* part about root exits.  The three branches of the code:                 *)
(***************************************************************************)
FromRootToRouter(w)  == v = root /\ w \notin NetworkVertices
FromRootToNetwork(w) == v = root /\ w \in NetworkVertices
NeverAcross == FALSE   \* mutant: next hops are always inherited
AcrossFirstNetwork   == v # root /\ v \in NetworkVertices /\ first[v] = root

(* What the code dereferences or asserts without having checked it. *)
MissingBackLink(w) == FromRootToRouter(w) /\ SPFGetNextLink(w, v, FALSE) = 0

SeveralExits(w) ==
    /\ AcrossFirstNetwork
    /\ SPFGetNextLink(w, v, FALSE) # 0
    /\ Cardinality(exits[v]) # 1

(* while ((linkRemote = SPFGetNextLink(w, v, linkRemote))) never gets null. *)
EndlessSearch(w) ==
    /\ AcrossFirstNetwork
    /\ ~SeveralExits(w)
    /\ SPFGetNextLink(w, v, TRUE) # 0

NexthopFault(w) == MissingBackLink(w) \/ SeveralExits(w) \/ EndlessSearch(w)

OutIf(u) == (CHOOSE e \in exits[u] : TRUE)[2]

(* The exits given to w, which had the exits old. *)
NexthopExits(w, old) ==
    LET back == SPFGetNextLink(w, v, FALSE)
    IN  IF FromRootToRouter(w)
        THEN {<< lsdb[w].links[back].linkData,
                 FindOutgoingInterfaceId(lsdb[v].links[i].linkData, HostMask) >>}
        ELSE IF FromRootToNetwork(w)
        THEN {<< ZeroAddress, FindOutgoingInterfaceId(w, SubnetMask) >>}
        ELSE IF AcrossFirstNetwork
        THEN IF back = 0 THEN old
             ELSE {<< lsdb[w].links[back].linkData, OutIf(v) >>}
        ELSE exits[v]

-----------------------------------------------------------------------------
(***************************************************************************)
(* The routes the root gets for a vertex u: one for each exit towards u    *)
(* whose interface id is not negative.                                     *)
(***************************************************************************)
RoutesVia(u, dest, mask) ==
    {Route(CombineMask(dest, mask), mask, e) : e \in {x \in exits[u] : x[2] >= 0}}

Records(u, type) ==
    {lsdb[u].links[k] : k \in {m \in DOMAIN lsdb[u].links : lsdb[u].links[m].type = type}}

(* Host routes to the near ends of u's type 1 links. *)
SPFIntraAddRouter(u) ==
    UNION {RoutesVia(u, l.linkData, HostMask) : l \in Records(u, "PointToPoint")}

(* Routes to the network u stands for. *)
SPFIntraAddTransit(u) == RoutesVia(u, u, SubnetMask)

(* Routes to the stub networks of router u, unless they are the root's own. *)
SPFIntraAddStub(u) ==
    IF u = root THEN {}
    ELSE UNION {RoutesVia(u, l.linkId, l.linkData) : l \in Records(u, "StubNetwork")}

(* Routes to an external network that router u advertises. *)
SPFAddASExternal(u, extlsa) ==
    IF u = root \/ u # extlsa.advertisingRouter THEN {}
    ELSE RoutesVia(u, extlsa.id, extlsa.mask)

AddRoutes(table, new) ==
    routes' = [routes EXCEPT ![node][table] = @ \cup new]

-----------------------------------------------------------------------------
(***************************************************************************)
(* GlobalRouteManagerImpl::CheckForStubNode: a router with no type 1 or 2  *)
(* link gets no routes; one with exactly one, of type 1, whose peer points *)
(* back gets a default route.  Both skip the calculation.                  *)
(***************************************************************************)
TransitLinks(u) ==
    {k \in DOMAIN lsdb[u].links : lsdb[u].links[k].type # "StubNetwork"}

BackLinks(u, w) ==
    {k \in DOMAIN lsdb[w].links :
        lsdb[w].links[k].type = "PointToPoint" /\ lsdb[w].links[k].linkId = u}

HasDefaultLink(u) ==
    \E k \in TransitLinks(u) :
        /\ TransitLinks(u) = {k}
        /\ lsdb[u].links[k].type = "PointToPoint"
        /\ BackLinks(u, lsdb[u].links[k].linkId) # {}

CheckForStubNode(u) == TransitLinks(u) = {} \/ HasDefaultLink(u)

(* Mutant: the next hop is taken from the router's own record. *)
DefaultViaSelf(u) ==
    LET l == lsdb[u].links[CHOOSE k \in TransitLinks(u) : TRUE]
    IN  IF TransitLinks(u) = {} THEN {}
        ELSE {Route(ZeroAddress, ZeroMask,
                    <<l.linkData, FindOutgoingInterfaceId(l.linkData, HostMask)>>)}

(* The next hop is the near end of the peer's first link back. *)
DefaultRoutes(u) ==
    LET l    == lsdb[u].links[CHOOSE k \in TransitLinks(u) : TRUE]
        back == BackLinks(u, l.linkId)
        lr   == lsdb[l.linkId].links[CHOOSE k \in back : \A m \in back : k <= m]
    IN  IF TransitLinks(u) = {} THEN {}
        ELSE {Route(ZeroAddress, ZeroMask,
                    <<lr.linkData, FindOutgoingInterfaceId(l.linkData, HostMask)>>)}

-----------------------------------------------------------------------------
(***************************************************************************)
(* InitializeRoutes and the prologue of SPFCalculate.                      *)
(***************************************************************************)
Init ==
    /\ net \in Networks
    /\ lsdb = BuildDatabase(net, << >>)
    /\ extdb = BuildExtDatabase(net, << >>)
    /\ routes = [n \in net.nodes |-> EmptyTables]
    /\ pc = "idle" /\ node = 0 /\ root = 0 /\ v = 0 /\ i = 1
    /\ status = [id \in Ids |-> "NotExplored"]
    /\ dist = [id \in Ids |-> 0]
    /\ exits = [id \in Ids |-> {}]
    /\ parents = [id \in Ids |-> {}]
    /\ first = [id \in Ids |-> id]
    /\ children = [id \in Ids |-> << >>]
    /\ queue = << >>
    /\ pass = 0 /\ stack = << >> /\ processed = {}

(* The node under the iterator does not take part in global routing. *)
SkipNode ==
    /\ pc = "idle" /\ node \in net.nodes \ net.routers
    /\ node' = node + 1
    /\ UNCHANGED <<topology, routes, pc, root, v, i, status, vertices,
                   children, queue, walk>>

(* m_lsdb->Initialize(), then the root goes into the tree. *)
InitialStatus(r) ==
    [id \in Ids |-> IF id = r THEN "InSpfTree" ELSE "NotExplored"]

TruncateForStubNode ==
    /\ pc = "idle" /\ node \in net.routers
    /\ CheckForStubNode(RouterId(net, node))
    /\ root' = RouterId(net, node)
    /\ status' = InitialStatus(root')
    /\ AddRoutes("network", DefaultRoutes(RouterId(net, node)))
    /\ node' = node + 1
    /\ UNCHANGED <<topology, pc, v, i, vertices, children, queue, walk>>

StartCalculation ==
    /\ pc = "idle" /\ node \in net.routers
    /\ ~CheckForStubNode(RouterId(net, node))
    /\ pc' = "spf"
    /\ root' = RouterId(net, node)
    /\ v' = root' /\ i' = 1
    /\ status' = InitialStatus(root')
    /\ dist' = [id \in Ids |-> 0]
    /\ exits' = [id \in Ids |-> {}]
    /\ parents' = [id \in Ids |-> {}]
    /\ first' = [id \in Ids |-> id]
    /\ children' = [id \in Ids |-> << >>]
    /\ queue' = << >>
    /\ UNCHANGED <<topology, routes, node, walk>>

-----------------------------------------------------------------------------
(***************************************************************************)
(* SPFNext: one record of v.                                               *)
(***************************************************************************)
Examining == pc = "spf" /\ i <= NumRecords(v)

NextRecord ==
    i' = i + 1 /\ UNCHANGED <<topology, routes, pc, node, root, v, children, walk>>

(* The record leads to vertex w. *)
LeadsTo(w) ==
    /\ Examining /\ ~IsStubRecord(v, i)
    /\ Neighbours(v, i) # {} /\ w = Neighbour(v, i)

DistanceOfParent == dist[v]   \* mutant: the cost of the link is left out

(* The distance from the root of the path to w through v. *)
Distance == dist[v] + Cost(v, i)

(* NS_ASSERT(w_lsa): a type 1 or 2 record names an LSA nobody originated. *)
MissingLSA ==
    /\ Examining /\ ~IsStubRecord(v, i) /\ v \notin NetworkVertices
    /\ Neighbours(v, i) = {}
    /\ pc' = "abort"
    /\ UNCHANGED <<topology, routes, node, root, v, i, status, vertices,
                   children, queue, walk>>

SkipRecord ==
    /\ Examining
    /\ \/ IsStubRecord(v, i)
       \/ v \in NetworkVertices /\ Neighbours(v, i) = {}
    /\ NextRecord
    /\ UNCHANGED <<status, vertices, queue>>

(* Mutant: the exits of v are merged into a vertex already in the tree. *)
MergeInTree(w) ==
    /\ LeadsTo(w) /\ status[w] = "InSpfTree"
    /\ exits' = [exits EXCEPT ![w] = @ \cup exits[v]]
    /\ NextRecord
    /\ UNCHANGED <<status, dist, parents, first, queue>>

SkipInTree(w) ==
    /\ LeadsTo(w) /\ status[w] = "InSpfTree"
    /\ NextRecord
    /\ UNCHANGED <<status, vertices, queue>>

(* candidate.Find gives the vertex of an LSA marked Candidate: that it is  *)
(* in the list is part of QueueAgreesWithStatus.                           *)
SkipLongerPath(w) ==
    /\ LeadsTo(w) /\ status[w] = "Candidate" /\ dist[w] < Distance
    /\ NextRecord
    /\ UNCHANGED <<status, vertices, queue>>

(* w is put on the candidate list. *)
NewCandidate(w) ==
    /\ LeadsTo(w) /\ status[w] = "NotExplored" /\ ~NexthopFault(w)
    /\ exits' = [exits EXCEPT ![w] = NexthopExits(w, {})]
    /\ dist' = [dist EXCEPT ![w] = Distance]
    /\ parents' = [parents EXCEPT ![w] = {v}]
    /\ first' = [first EXCEPT ![w] = v]
    /\ status' = [status EXCEPT ![w] = "Candidate"]
    /\ queue' = Push([dist EXCEPT ![w] = Distance], NetworkVertices, queue, w)
    /\ NextRecord

(* The path is as short as the known one: exits and parents are merged.    *)
(* m_parents is sorted by the addresses of the vertices, so a new parent   *)
(* may or may not become the first.                                        *)
EqualCostPath(w) ==
    /\ LeadsTo(w) /\ status[w] = "Candidate" /\ dist[w] = Distance /\ ~NexthopFault(w)
    /\ exits' = [exits EXCEPT ![w] = @ \cup NexthopExits(w, {})]
    /\ parents' = [parents EXCEPT ![w] = @ \cup {v}]
    /\ \E p \in {first[w]} \cup ({v} \ parents[w]) : first' = [first EXCEPT ![w] = p]
    /\ UNCHANGED <<status, dist, queue>>
    /\ NextRecord

(* The path is shorter: w is changed inside the list, which is re-sorted. *)
ShorterPath(w) ==
    /\ LeadsTo(w) /\ status[w] = "Candidate" /\ dist[w] > Distance /\ ~NexthopFault(w)
    /\ exits' = [exits EXCEPT ![w] = NexthopExits(w, @)]
    /\ dist' = [dist EXCEPT ![w] = Distance]
    /\ parents' = [parents EXCEPT ![w] = {v}]
    /\ first' = [first EXCEPT ![w] = v]
    /\ queue' = Reorder([dist EXCEPT ![w] = Distance], NetworkVertices, queue)
    /\ UNCHANGED status
    /\ NextRecord

(* The next hop calculation for w does not come back. *)
NexthopFails(w) ==
    /\ LeadsTo(w) /\ NexthopFault(w)
    /\ \/ status[w] = "NotExplored"
       \/ status[w] = "Candidate" /\ dist[w] >= Distance
    /\ pc' = IF EndlessSearch(w) THEN "spin" ELSE "abort"
    /\ UNCHANGED <<topology, routes, node, root, v, i, status, vertices,
                   children, queue, walk>>

-----------------------------------------------------------------------------
(* Mutant: only the first parent learns of its child. *)
AddFirstParentOnly(w) ==
    [children EXCEPT ![first[w]] = Append(@, w)]

(* SPFVertexAddParent: w is added to the children of each of its parents. *)
SPFVertexAddParent(w) ==
    [u \in Ids |-> IF u \in parents[w] THEN Append(children[u], w) ELSE children[u]]

(***************************************************************************)
(* The rest of SPFCalculate's loop: the closest candidate goes into the    *)
(* tree with SPFVertexAddParent, and its routes are added.                 *)
(***************************************************************************)
AddToTree ==
    /\ pc = "spf" /\ i > NumRecords(v) /\ queue # << >>
    /\ LET w == Top(queue) IN
        /\ v' = w
        /\ status' = [status EXCEPT ![w] = "InSpfTree"]
        /\ children' = SPFVertexAddParent(w)
        /\ IF w \in NetworkVertices
           THEN AddRoutes("network", SPFIntraAddTransit(w))
           ELSE AddRoutes("host", SPFIntraAddRouter(w))
    /\ queue' = Pop(queue)
    /\ i' = 1
    /\ UNCHANGED <<topology, pc, node, root, vertices, walk>>

-----------------------------------------------------------------------------
(***************************************************************************)
(* The second stage.  SPFProcessStubs and ProcessASExternals are the same  *)
(* recursive walk: a vertex is visited when it is entered and marked       *)
(* processed by its parent when the call for it returns.  The walk for     *)
(* each AS external LSA starts with ClearVertexProcessed.                  *)
(***************************************************************************)
VisitRoutes(u, p) ==
    IF u \in NetworkVertices THEN {}
    ELSE IF p = 0 THEN SPFIntraAddStub(u) ELSE SPFAddASExternal(u, extdb[p])

VisitTable(p) == IF p = 0 THEN "network" ELSE "external"

(* Mutants: the walk does not start at the root; the processed flags of    *)
(* the previous tree are still set.                                        *)
StartStubsNowhere ==
    /\ pc = "spf" /\ i > NumRecords(v) /\ queue = << >>
    /\ pc' = "walk" /\ pass' = 0 /\ stack' = << >> /\ processed' = {}
    /\ UNCHANGED <<topology, routes, node, root, v, i, status, vertices, children, queue>>

StartStubsProcessed ==
    /\ pc = "spf" /\ i > NumRecords(v) /\ queue = << >>
    /\ pc' = "walk" /\ pass' = 0 /\ stack' = << <<root, 1>> >>
    /\ UNCHANGED <<topology, routes, node, root, v, i, status, vertices, children,
                   queue, processed>>

StartStubs ==
    /\ pc = "spf" /\ i > NumRecords(v) /\ queue = << >>
    /\ pc' = "walk"
    /\ pass' = 0 /\ stack' = << <<root, 1>> >> /\ processed' = {}
    /\ AddRoutes(VisitTable(0), VisitRoutes(root, 0))
    /\ UNCHANGED <<topology, node, root, v, i, status, vertices, children, queue>>

(* The innermost call: its vertex and the child it looks at next. *)
Here == stack[Len(stack)][1]
Child == stack[Len(stack)][2]

AtChild == pc = "walk" /\ Child <= Len(children[Here])
AtEnd   == pc = "walk" /\ Child > Len(children[Here])

(* The child has not been processed: the walk recurses. *)
EnterChild ==
    /\ AtChild /\ children[Here][Child] \notin processed
    /\ stack' = Append(stack, <<children[Here][Child], 1>>)
    /\ AddRoutes(VisitTable(pass), VisitRoutes(children[Here][Child], pass))
    /\ UNCHANGED <<topology, pc, node, root, v, i, status, vertices, children,
                   queue, pass, processed>>

SkipChild ==
    /\ AtChild /\ children[Here][Child] \in processed
    /\ stack' = [stack EXCEPT ![Len(stack)] = <<Here, Child + 1>>]
    /\ UNCHANGED <<topology, routes, pc, node, root, v, i, status, vertices,
                   children, queue, pass, processed>>

(* The call for a child returns to its parent, which marks it. *)
LeaveChild ==
    /\ AtEnd /\ Len(stack) > 1
    /\ processed' = processed \cup {Here}
    /\ LET below == stack[Len(stack) - 1] IN
        stack' = Append(SubSeq(stack, 1, Len(stack) - 2), <<below[1], below[2] + 1>>)
    /\ UNCHANGED <<topology, routes, pc, node, root, v, i, status, vertices,
                   children, queue, pass>>

(* Mutant: no ClearVertexProcessed before the walk. *)
NextExternalProcessed ==
    /\ AtEnd /\ Len(stack) = 1 /\ pass < Len(extdb)
    /\ pass' = pass + 1 /\ stack' = << <<root, 1>> >>
    /\ UNCHANGED <<topology, routes, pc, node, root, v, i, status, vertices, children,
                   queue, processed>>

NextExternal ==
    /\ AtEnd /\ Len(stack) = 1 /\ pass < Len(extdb)
    /\ pass' = pass + 1 /\ stack' = << <<root, 1>> >> /\ processed' = {}
    /\ AddRoutes(VisitTable(pass + 1), VisitRoutes(root, pass + 1))
    /\ UNCHANGED <<topology, pc, node, root, v, i, status, vertices, children, queue>>

(* The tree is deleted; its vertices are not looked at again. *)
FinishCalculation ==
    /\ AtEnd /\ Len(stack) = 1 /\ pass = Len(extdb)
    /\ pc' = "idle" /\ node' = node + 1 /\ stack' = << >>
    /\ UNCHANGED <<topology, routes, root, v, i, status, vertices, children,
                   queue, pass, processed>>

FinishRoutes ==
    /\ pc = "idle" /\ node \notin net.nodes
    /\ pc' = "done"
    /\ UNCHANGED <<topology, routes, node, root, v, i, status, vertices,
                   children, queue, walk>>

(* InitializeRoutes has returned, died or will never return. *)
Stopped == pc \in {"done", "abort", "spin"} /\ UNCHANGED vars

Step ==
    \/ SkipNode \/ TruncateForStubNode \/ StartCalculation \/ FinishRoutes
    \/ MissingLSA \/ SkipRecord
    \/ \E w \in Ids :
        \/ SkipInTree(w) \/ SkipLongerPath(w)
        \/ NewCandidate(w) \/ EqualCostPath(w) \/ ShorterPath(w) \/ NexthopFails(w)
    \/ AddToTree \/ StartStubs
    \/ EnterChild \/ SkipChild \/ LeaveChild \/ NextExternal \/ FinishCalculation

Next == Step \/ Stopped

(* InitializeRoutes is one sequential call: it keeps going. *)
Spec == Init /\ [][Next]_vars /\ WF_vars(Step)
-----------------------------------------------------------------------------
(***************************************************************************)
(* Verification formulas.                                                  *)
(***************************************************************************)
Building == pc \in {"spf", "walk"}

(* A call of the walk: the vertex it is for and the child it looks at. *)
Frame == Ids \X (Nat \ {0})

(* The variables have the types of the fields and locals they stand for;   *)
(* while a calculation runs, its positions point at existing vertices.     *)
TypeOK ==
    /\ WellFormed(net, lsdb, extdb)
    /\ pc \in {"idle", "spf", "walk", "done", "abort", "spin"}
    /\ node \in Nat /\ i \in Nat \ {0} /\ pass \in 0 .. Len(extdb)
    /\ status \in [Ids -> {"NotExplored", "Candidate", "InSpfTree"}]
    /\ dist \in [Ids -> Nat]
    /\ exits \in [Ids -> SUBSET (Nat \X Int)]
    /\ parents \in [Ids -> SUBSET Ids]
    /\ first \in [Ids -> Ids]
    /\ children \in [Ids -> Seq(Ids)]
    /\ queue \in Seq(Ids)
    /\ stack \in Seq(Frame) /\ processed \subseteq Ids
    /\ pc = "walk" => stack # << >>
    /\ routes \in [net.nodes -> Tables]
    /\ Building => root \in Ids /\ v \in Ids /\ node \in net.routers
=============================================================================
