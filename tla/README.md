# Parts of ns-3, in TLA+

The repository is the ns-3 network simulator. This development is about the parts
of it whose difficulty is in control rather than in numbers:

- **global routing** (`src/internet/model/`), the subject of the repository: every
  router describes its links in link state advertisements (LSAs), the
  advertisements of all routers go into one database, and for each router a
  shortest path calculation in the manner of OSPF (RFC 2328, section 16.1) writes
  its routing tables. There is no protocol on the wire: the calculation is one
  long sequential call over shared data structures, and its difficulty is in the
  many partial states of those structures and in when it is called again;
- **the simulator core** everything runs on: event lists, the event loop with
  other threads, and the two ways in which several MPI ranks keep their event
  loops in step;
- **the protocols of the internet module** that keep state by timers and lossy
  messages: ARP, IPv6 neighbour discovery, duplicate address detection, RIP.

## Inventory

| Part | Source | State | Operations |
|---|---|---|---|
| Link state discovery | `global-router-interface.cc` | router id, own LSAs, injected routes, bridges visited | `DiscoverLSAs` (`ProcessBroadcastLink`, `ProcessPointToPointLink`, `BuildNetworkLSAs`, `FindDesignatedRouterForLink`, `AnotherRouterOnLink`), `InjectRoute`, `WithdrawRoute` |
| Link state database | `global-route-manager-impl.cc`, `GlobalRouteManagerLSDB` | map from id to LSA, list of external LSAs | `Insert`, `GetLSA`, `GetLSAByLinkData`, `Initialize` |
| Candidate queue | `candidate-queue.cc` | list of vertices ordered by distance | `Push`, `Pop`, `Find`, `Reorder` |
| SPF calculation | `global-route-manager-impl.cc` | root, current vertex, SPF tree, status of the LSAs | `InitializeRoutes`, `SPFCalculate`, `SPFNext`, `SPFNexthopCalculation`, `SPFGetNextLink`, `CheckForStubNode`, `SPFIntraAdd*`, `SPFProcessStubs`, `ProcessASExternals` |
| Routing tables | `ipv4-global-routing.cc` | host, network and external routes of a node | `Add*RouteTo`, `LookupGlobal`, `RouteInput`, `RouteOutput`, `RemoveRoute`, `Notify*` |
| Manager and helper | `global-route-manager.cc`, `ipv4-global-routing-helper.cc` | next router id | `PopulateRoutingTables`, `RecomputeRoutingTables`, `DeleteGlobalRoutes` |
| Event lists | `core/model/*-scheduler.cc` | the events, as a map, a heap, a calendar | `Insert`, `PeekNext`, `RemoveNext`, `Remove` |
| Simulator core | `default-simulator-impl.cc` | event list, clock, uids, events of other threads | `Schedule*`, `Cancel`, `Remove`, `IsExpired`, `ProcessOneEvent`, `ProcessEventsWithContext`, `Run`, `Stop`, `Destroy` |
| Parallel simulation | `mpi/model/` | per rank: event list, safe or granted time, message counts | null messages, the window computation, sending and receiving of packets |
| ARP | `arp-cache.cc`, `arp-l3-protocol.cc`, `neighbor-cache-helper.cc` | entries with pending packets, one timer | `Lookup`, `Receive`, the timer, the callbacks of the helper |
| Neighbour discovery | `ndisc-cache.cc`, `icmpv6-l4-protocol.cc` | entries with waiting packets and a timer each | `Lookup`, `HandleNS/NA/RS/RA`, redirections, the timers, confirmations of upper layers |
| Duplicate addresses | `icmpv6-l4-protocol.cc`, `ipv6-interface.cc` | state of an address | `DoDAD`, `FunctionDadTimeout`, `HandleNS/NA`, adding and removing |
| RIP | `rip.cc` | routes with a timer each, next triggered update | updates, requests, responses, timers, interface events |

How they interact. `PopulateRoutingTables` calls `BuildGlobalRoutingDatabase`,
which asks every `GlobalRouter` for its LSAs and inserts them, and then
`InitializeRoutes`, which calls `SPFCalculate` for each router in `NodeList`
order. `SPFCalculate` expands one vertex after the other with `SPFNext`, moves
the closest candidate into the tree and adds routes to the tables of the node at
the root; two recursive walks over the finished tree add the stub and the
external routes. Interface events reach `Ipv4GlobalRouting::Notify*`, which
deletes all routes and starts over, if it is configured to. All of this, and every
handler of the protocols, runs inside one event of the simulator; with MPI, each
rank has such a loop, and packets between ranks become events of the other rank.
ARP and neighbour discovery sit between the IP layers and the devices, RIP above
UDP; they meet the rest only by messages and timers.

What is hard.

- In the calculation: an LSA carries the status of its vertex while the vertex is
  in the candidate list; distances change inside the sorted list; equal-cost paths
  are merged into vertices other vertices will inherit from; the "tree" is a graph
  with shared children, walked with a flag on the vertices; the order of the
  parents of a vertex depends on heap addresses; the two ends of a link are
  advertised by two routers that test different things; interfaces fail or do not
  forward; stub routers skip the calculation; bridges are walked recursively with
  a list of those visited; events, configuration changes and explicit calls decide
  which topology the tables belong to.
- In the core: removal from the middle of a heap; a calendar that is re-cut while
  events wait; a flag read without its mutex; uids that wrap; a rank that must not
  run ahead of messages it has not seen, nor wait for one that never comes.
- In the protocols: replies that cross requests, timers shared or reused, packets
  held in entries that change state in many ways, the same address configured
  twice, counting to infinity.

`PROJECT.json` lists these hazards at their lines.

What makes the parts correct: LSAs that agree on every link; a candidate list
that agrees with the statuses and is sorted when it is used; a tree that is the
shortest path tree with all equal-cost parents, settled once a vertex is in it
and linked both ways; exits that are the first hops of the shortest paths; walks
that reach the whole tree; tables that together deliver packets without loops and
belong to the topology as it is; a computation that returns. Event lists that
always give the earliest event; events that run once, in order and never in the
past, whichever thread or rank they come from; simulations that end. Packets that
leave in order, once and to the right neighbour, or are dropped, and are never
forgotten; resolutions that end; addresses nobody else uses; routes that converge.

## Modules

Global routing:

- `CandidateQueue`: the list as a sequence of vertex ids. The distance and the
  type of a vertex are not in the list but in the vertex, so they are parameters
  (`D`, `N`). `Push` inserts at `UpperBound`; `Reorder` is the stable sort, each
  position going to its rank.
- `Ipv4GlobalRouting`: tables and `LookupGlobal`. A table is the set of its
  entries, and the lookup returns all entries the code may pick: the order of the
  list, or the random choice, only selects one of them.
- `GlobalRouter`: from a topology (nodes, routers, channels, interfaces with
  address, metric, up and forwarding) to LSAs and the database, one operator per
  function of the code. `NetworkConfusion` is the abort of
  `ProcessSingleBroadcastLink` when a network has two numbers; topologies with one are
  left out of the calculation (`WellFormedTopology`), and in `GlobalRouteManager` it ends
  the program.
- `SpfCalculation`: the state machine of `InitializeRoutes`. One step examines
  one record of the current vertex (`SkipRecord`, `SkipInTree`, `SkipLongerPath`,
  `NewCandidate`, `EqualCostPath`, `ShorterPath`), takes the closest candidate
  (`AddToTree`), or moves one frame in the recursive walks (`StartStubs`,
  `EnterChild`, `SkipChild`, `LeaveChild`, `NextExternal`, `FinishCalculation`).
  `SkipNode`, `TruncateForStubNode`, `StartCalculation` and `FinishRoutes` are the
  loop over the nodes. `MissingLSA` and `NexthopFails` are the failing assertions
  and null dereferences (`pc = "abort"`) and the loop that never ends
  (`pc = "spin"`).
- `SpfProperties`: the properties, against reference definitions that know
  nothing of the algorithm (`DistancesFrom` by relaxation, `FirstHops`, `Reaching`
  for packets handed from router to router).
- `GlobalRouteManager`: when routes are computed. It composes `GlobalRouter` with
  `PopulateRoutingTables`, `RecomputeRoutingTables`, interface and address events
  and the changes nobody is told about; a computation is one step, and the tables
  are represented by what the computations since the last deletion have read.
- `BridgedLinks`: the three recursive walks over channels joined by bridges, one
  step per device or port, with the calls on a stack and `m_bridgesVisited`. A bridge
  may be under a router, whose interface on it is up or down: the election of the
  designated router passes over a bridge whose router has it down (`SkipDownBridge`).
- `Topologies`, `MCSpf`, `MCGlobalRouteManager`, `MCBridgedLinks`: builders and
  instances for TLC.
- `SpfProofs` (the candidate list, the database and the tree), `SpfRoutesProofs` (links,
  exits and tables), `GlobalRouteManagerProofs`: theorems.

Simulator core:

- `Scheduler`: the abstract event list, a set of events of which the earliest is
  removed (and what `MapScheduler` is). `HeapScheduler` (the array and the loops of
  `BottomUp` and `TopDown`, one exchange a step) and `CalendarScheduler` (buckets,
  `Resize`, `NewWidth`) are the two lists of the code that are more than a sorted
  container. `EventList` composes them as a program may: one of the two, exchanged
  for the other by `SetScheduler`. It implements the abstract list:
  `List == INSTANCE Scheduler WITH events <- Events`, the events in the array or in
  the buckets.
- `DefaultSimulator`: the event loop as a main thread whose callbacks may call
  every operation, and other threads that post events; the read of
  `m_eventsWithContextEmpty` outside the mutex is a step of its own.
- `RankEvents`: the event list of a rank. `NullMessageSimulator`: safe times,
  guarantees on packets and null messages, per-rank loops, MPI messages in order
  and after any time; a callback schedules events of its own rank and sends packets of
  different sizes, in any order. `GrantedTimeWindow`: granted times, `MPI_Allgather` as a
  joint step, message counts. `MCNullMessage`, `MCGrantedTimeWindow`: ranks and
  links for TLC.
- `DefaultSimulatorProofs`, `NullMessageSimulatorProofs`, `GrantedTimeWindowProofs`:
  theorems.

Protocols:

- `ArpCache`: one interface's cache with its shared timer, the other hosts,
  messages that are lost or delayed, and `NeighborCacheHelper`.
- `NdiscCache`: the entry of one neighbour with its timers, every handler that
  touches it, and the packets it holds.
- `DuplicateAddress`: hosts on a link that add and remove one address, with time in
  ticks, because detection is a race between an answer and a timeout. A host gets a
  cache entry for the address by resolving it, while it has not got it, or from a
  solicitation of another host, at any moment (`Learn`).
- `MCIcmpv6`: these two side by side for TLC; they share no state, so a behaviour is of
  one of them.
- `Rip`, `MCRip`: the routes of all routers to one network, with messages under
  way, timers in rounds of unsolicited updates, and interfaces that go down and up.
- `ArpCacheProofs`, `InternetProofs` (about `NdiscCache`, `DuplicateAddress` and
  `Rip`): theorems.

Variables and fields: in `SpfCalculation`, `lsdb`/`extdb` are
`m_database`/`m_extdatabase`, `status` is `m_status` of the LSAs, `dist`, `exits`,
`parents`, `children` and `processed` are `m_distanceFromRoot`,
`m_ecmpRootExits`, `m_parents`, `m_children` and `m_vertexProcessed` of the vertex
of an LSA, `queue` is the local `CandidateQueue`, `stack` the recursion of the
walks. In the other modules the comment at each variable names its field.

Abstractions.

- Addresses are naturals and a mask is the size of its block; all subnets have
  the same mask, all nodes one system id. In the calculation every interface has
  one address and links have no bridges; `GlobalRouteManager` has address lists,
  `BridgedLinks` has bridges.
- `exits` and `parents` are sets: the code keeps both lists sorted and without
  repetitions. `m_parents` is sorted by pointer, so `first`, the parent the next
  hop calculation looks at, is chosen nondeterministically when a parent is added.
- The temporary vertex of an equal-cost path is created, linked to its parent,
  merged, unlinked and deleted within one step, and so does not show.
- Vertices of a deleted tree keep their values until the next calculation resets
  them; nothing reads them.
- Timeouts that are attributes may have any length, so in `ArpCache` and
  `NdiscCache` time is left out and a pending timer fires at some moment. Where the
  outcome depends on durations (`DuplicateAddress`, `Rip`, the parallel simulators)
  time is explicit and small.
- Packets are numbers, hardware addresses and hosts model values or numbers,
  headers are left out.

## Runs

| Run | Instance | Checked |
|---|---|---|
| `spf` | 1944 topologies of three and four nodes: every choice of 3 channels out of 5 with metrics 1..2; 4 shapes with parallel links, repeated interfaces, metrics 1..3 that differ at the ends and an interface that may not forward; 4 shapes of 4 nodes with 8 sets of interfaces down, one node with or without `GlobalRouter` and an injected route | `TypeOK`, `QueueAgreesWithStatus`, `TreeIsShortest`, `AllEqualCostParents`, `TreeIsLinked`, `TreeIsSettled` on all; `StubsAreInstalled`, `ExternalsFollowRouters` where the walks are done; `LinksAreTwoWay`, `ExitsAreFirstHops`, `RoutesDeliver`, `InitializeRoutesReturns` on ordinary networks (below) |
| `manager` | a LAN and a link, 4 nodes, two changeable devices, new addresses of the same and of another network, up to 4 changes and calls | `TablesAreCurrent`: as long as every change was one the nodes are told of, the tables are those of the topology |
| `bridged` | all domains of three channels, two bridges and up to six devices; the first bridge is a router as well or not, its interface up or down | `LoopsAreDetected`, `DesignatedIsLowest`, `EdgeDevicesFound`, `TransitHasRouters` |
| `event_list` | up to 6 events at a time, 7 in all, delays 0 and 7, in a heap or a calendar that are exchanged; removals from the heap that fill the gap in order (`FillsInOrder`) | `ImplementsScheduler` (refinement) |
| `heap` | the heap alone, up to 6 events at a time, 7 in all, any removals | `RootIsEarliest` is violated: `Remove` leaves the heap out of order |
| `simulator` | 2 events of the main thread, 2 of other threads, every operation in callbacks and between runs | `ExpiredMeansRunOrCancelled`, `NoEventInThePast`, `NoEventLost`, `PostsAreRun` |
| `null_message` | 2 ranks joined by two links of different delay, on one of which packets take 1 or 2, and a rank without links; 2 packets and an event that a callback schedules | `GuaranteeHonoured`, `NeverBehind`, `AllRanksStop` |
| `granted` | 3 ranks in a line and one without links, 2 packets, applications at one end and on the rank without links | `NothingInThePast`, `HaltsWhenDone`, `AllRanksFinish` |
| `arp` | 2 addresses that share the timer, one that moves between 2 hosts and one that nobody has; 3 packets, a queue of 2, 1 retry | `InOrder`, `AutoGeneratedIsCurrent`, `RetriedBeforeDead`, `ResolutionEnds` |
| `icmpv6` | a router's or a host's entry, 2 hardware addresses, 4 packets, a queue of 2, 2 solicitations, advertisements with all flags | `FrontExists`, `WaitingHaveNotLeft` (routers), `SolicitedBeforeGivenUp`, `ResolutionEnds` |
| | 2 hosts with or without detection that add and remove the address twice, at once or later, and get cache entries for it at any moment | `Unique` (for detections without an entry and without an old timeout), `DadEnds` |
| `rip` | 3 routers in a line with poisoned reverse and 2 interface events, in a ring with split horizon and 1, and 2 routers on the network without split horizon and 2 | `NoMutualRoutes` (the line; below), `Converges` |
| `three_ifs` | a router with three interfaces on a network next to the root | `TablesGetPopulated` is violated: the search for next hops does not end |

Ordinary networks (`Ordinary` in `SpfProperties`) are those where an interface
forwards when it is up, the ends of a channel have the same metric, a router has
one interface on a channel, and no two point-to-point links join the same nodes. On
others the code may fail or lose next hops, as listed below; the properties of the
tree hold there too.

Bounds. Three routers with networks between them are enough for equal-cost paths
over two and three hops, shared children, candidates whose distance drops while
they are in the list, and networks tied with routers; a fourth node gives rings,
routers two hops behind a failed link and partitions. With metrics 1 and 2 paths
tie, and with different metrics at the ends of a link distances are not
symmetric. Four changes are enough for a silent change between two told ones and for
a second `PopulateRoutingTables`. A heap of six has a branch whose last event may fill
a gap in the other, which is where `Remove` goes wrong (below); with six events in all,
rather than at a time, it does not show. Delays of 0 and 7 give equal times and jumps
over a year of the calendar, and six events make it grow and shrink. Two parallel links
with packets of two sizes and a local event are what can take a guarantee back; a rank
without links never waits. Three ranks in a line (`granted`) have ranks that are not
neighbours and one in the middle that waits for both. Three packets fill a queue of two and
keep one back; a retry lets a counter that is not reset show in the next
resolution. In `DuplicateAddress` a probe and its answer take up to two ticks and the
timeout three, the shortest that is long enough, and a second addition meets the
timeout of the first. In `Rip`, infinity is 5, above the longest path, so that
counting to infinity takes several rounds in the ring and between two routers
without split horizon. `NoMutualRoutes` is about trees of routers with one of them on
the network: two that both lose it after they have announced it end with a route
through each other, as without split horizon. `SolicitedBeforeGivenUp` counts one probe
where `MaxUnicastSolicit` is 0, because the first is sent before the counter is read.
Every action fires in some passing run; each property has a mutant of the code that
violates it.

Fairness. `SpfCalculation` has weak fairness of `Step`: `InitializeRoutes` is a
sequential call and goes on as long as it can. `DefaultSimulator` has weak
fairness of the loop, not of the program that calls `Run`, nor of other threads.
The parallel simulators have it for the loop of each rank, for the arrival of MPI
messages (MPI delivers them) and for `MPI_Allgather`, which completes when all are
there. `ArpCache` and `NdiscCache` have it for the pending timer alone (the
simulator runs every event), so messages may be lost for ever. `DuplicateAddress`
has it for the clock, the timeouts and the messages, which arrive within a bound;
`Rip` for the clock and the events of each router. Where the program may stop
(nothing left to schedule, all ranks finished, bounds reached) the configuration
turns deadlock checking off; elsewhere it stays on. `Stopped` makes the end states
of `SpfCalculation` stutter, so that a state of the calculation from which nothing
is possible would be reported.

### Where comments, docs and code disagree

Two are kept as runs; `PROJECT.json` quotes the comments they disagree with.
`three_ifs`: `SPFGetNextLink` skips one record too many, and with three interfaces of a
router on a network next to the root the loop around it does not end. `heap`:
`HeapScheduler::Remove` only moves the event that fills the gap down; with six events at
a time and seven in all it can be earlier than its new parent, and after another removal
`RemoveNext` gives out a later event. The following were
met in the same way, with TLC on instances of these modules, and are the reason for
the preconditions and bounds of the passing runs. Changing the instance or dropping
the precondition shows each of them again.

Global routing (`Ordinary` excludes the first four):

- the designated router is up but does not forward, so nobody originates the
  Network-LSA and `NS_ASSERT(w_lsa)` fails in `SPFNext`;
- a point-to-point peer is up but does not forward; `linkRemote` is null and is
  dereferenced;
- the root and another router share two parallel point-to-point links: the next hop
  of the second exit is on the first link. A network at equal cost directly and
  through a neighbour has two exits, which fails the assertion of
  `GetRootExitDirection`;
- with two interfaces of a router on the network next to the root a next hop is lost;
- the default routes of two stub routers on the same link point at each other, for
  addresses that no node has (`RoutesDeliver` speaks of assigned addresses);
- an interface event at time 0 does not recompute the routes
  (the `Notify` functions respond only when `Simulator::Now()` is positive);
- removing the last address of an interface that is up makes the recomputation it
  triggers read address 0, a fatal error (`fatal` in `GlobalRouteManager`);
- `AnotherRouterOnLink` gives up at the first bridge that leads nowhere and advertises
  a network with routers as a stub; `FindAllNonBridgedDevicesOnLink` also returns the
  bridge ports of bridges seen before. `TransitHasRouters` and `EdgeDevicesFound` are
  the directions that hold;
- the election of the designated router goes on with the next device at a bridge whose
  own router has its interface on it down: the bridge is not followed, so the routers on
  its two sides may elect different designated routers, and a forwarding loop through it
  is not detected. `LoopsAreDetected` and `DesignatedIsLowest` speak of the part of the
  domain that the election follows; the other walks do cross such a bridge.

Simulator core:

- after 2^32 events uids start again and `IsExpired` is true of an event that has not
  run (`UidModulus` is larger than every run of `simulator`);
- with null messages a guarantee is taken back. `CalculateGuaranteeTime` takes the next
  event that is listed when a packet is sent; if the callback then schedules an earlier
  one, or uses a faster link whose `TransmitComplete` comes earlier, the guarantee with
  the next packet is smaller, and the receiver, which has taken the first, gets a
  guarantee, and with it a safe time, that is behind one it has had and may be behind its
  clock. `SetGuaranteeTime` and `CalculateSafeTime` assert that this does not happen, so
  a debug build ends there; the model is of a build without assertions. That nothing
  arrives in the past then (`NeverBehind`) is what the runs and the theorems show, where
  links between the same two ranks satisfy `ParallelLinksFit`;
- where they do not, a packet does arrive before the time that the packet before it has
  guaranteed: on two links of different speed, or a large packet followed by a small one
  on two links of the same speed, sent by one callback;

Protocols:

- an ARP entry that `NeighborCacheHelper` writes while packets wait for a reply keeps
  them, and a full queue drops the new packet where the comment says the old one;
- in neighbour discovery, packets that waited while a router was probed are sent and
  kept when a router advertisement confirms it (so `WaitingHaveNotLeft` is about
  routers); a solicitation that crosses the answer leaves the waiting packets in the
  entry; an advertisement without S stops the timer of an entry being probed;
  messages make permanent entries stale; a confirmation of an upper layer sends the
  waiting packets to their own source;
- a host that has a cache entry for an address of its own takes no advertisement for a
  sign of a duplicate. It may have resolved the address before it was given it, or get
  the entry while it detects, because `HandleNS` adds one for the source of any
  solicitation: a host that uses the address and asks for another address of the
  detecting one is enough, and both use it then. The timeout of an earlier detection
  also ends a later one (`sound` in `DuplicateAddress` says for whom neither is so).
  Nodes answer probes, which the documentation denies;
- in RIP a poisoned entry of another neighbour can turn a route that waits for deletion
  into a valid one of infinite metric, and one of the gateway cancels the deletion of
  an expired route.

## Proofs

The theorems hold for every value of the constants that satisfies the named
assumption of the module; TLC evaluates the same assumptions in the runs. Each
invariant is proved from an inductive one, stated in the proof module before its
lemmas, with one step per action. Facts about recursive functions and folds that are
needed (`DistancesWithin`, `FlattenSeq`, the entries of a RIP response) are proved by
taking the smallest counterexample (`SmallestOf`, from the library's theorem on
well-founded sets).

### Global routing

`SpfProofs` begins with the candidate list, for lists of any length over any set of
vertices: `CompareSPFVertex` is a strict weak order, `UpperBound` exists, and `Push`,
`Pop` and `Reorder` keep a list free of repetitions and sorted and lose nothing. Its
theorems hold for every set `Networks` of topologies that are well formed
(`WellFormedTopology` in `GlobalRouter`: finite, the types of the fields, different
addresses that are no router ids, two devices on a point-to-point channel). What the
calculation relies on in the database (a Router-LSA for each router, type 1 records that
name routers, no zero mask) is proved of the discovery operators: `RouterLSAFacts` and
`NetworkLSAFacts` say which records and LSAs the devices of a router give rise to,
`DatabaseFacts` that each router id and each address of a designated router leads to
its own LSA, so that nothing is overwritten by `Insert`.

- `TypeCorrect`, `Spec => []TypeOK`. `TypeOK` is inductive as it stands because
  it includes what the actions rely on: that type 1 records name routers, that the
  masks of stub records are not zero, that the frames of the walk have positive
  child indices, that a running calculation has a root and a current vertex.
- `QueueAgrees`, `Spec => []QueueAgreesWithStatus`. Inductive together with
  `TypeOK`: an unexplored LSA is not in the list, so `Push` does not list it twice,
  and a distance changes only together with `Reorder`.
- `TreeSettled`, `Spec => TreeIsSettled`, from the same invariants: steps change
  only vertices that are not explored or candidates.
- `TreeLinked`, `Spec => []TreeIsLinked`. `TreeIsLinked` speaks of the finished
  tree only; the inductive invariant is `ChildrenFollowParents`: while the tree is
  built, a vertex is listed by exactly its parents from the moment it is in the
  tree. It needs `QueueAgrees`, because the vertex that `AddToTree` takes must not
  be in the tree yet.
- `TreeShortest`, `Spec => []TreeIsShortest`: the finished tree has exactly the
  vertices the root reaches, at the distances of the reference definition. The
  inductive invariant is `Dijkstra`: the current vertex is the farthest of the tree
  and no farther than any candidate (`Frontier`, from the sorted list); an examined
  record leads to a known vertex that is no farther than through it (`Relaxed`);
  every known vertex has its distance from a parent (`ParentsAreTight`), along a path
  with fewer edges than the tree has vertices (`PathsAreShort`, which ties the
  distances to the rounds of the reference relaxation); the tree hangs together at its
  root (`TreeIsConnected`). Metrics may be zero.
- `AllParents`, `Spec => [](PositiveMetrics => AllEqualCostParents)`. `EqualCost` adds
  that the current vertex is last in the order of the list, not only by distance
  (`RankedFrontier`), and that no examined record on a shortest way was left out
  (`ParentsAreAll`). Records of networks cost 0, so a parent could be found after its
  child is settled; that it is not is due to `CompareSPFVertex`, which puts networks
  before routers of the same distance. With metric 0 between routers the statement is
  false, hence the hypothesis.
- `StubsInstalled`, `Spec => []StubsAreInstalled`. `WalkInvariant`: each call on the
  stack is for a child of the one below, whose earlier children are done (`Calls`), and
  the set of processed vertices is closed under children (`Done`); when the walk
  is back at the root it is the whole tree, by `TreeIsConnected`.

`SpfRoutesProofs` goes on from there:

- `LinksTwoWay`, `Spec => []LinksAreTwoWay`. The invariant is that the database is the
  one built from the topology (`DatabaseBuilt`); the rest is about a state:
  `EdgeComesFrom` says of every edge of the database graph which devices it comes from
  (two ends of a point-to-point channel, or a router and the designated router of its
  network), and the statement follows because those conditions are symmetric when
  interfaces forward as soon as they are up.
- `ExitsFirstHops`, `Spec => [](PositiveMetrics /\ Subnetted => ExitsAreFirstHops)`. The
  statement itself is about ordinary networks; the two hypotheses are that links between
  routers cost something and that addresses match by prefix exactly when they are on the
  same channel, without which `GetInterfaceForPrefix` finds an interface of another link
  (every topology of the `spf` run satisfies `Subnetted`). The inductive invariant is
  `ExitsFollow`: the exits of a known vertex are those that come through its parents,
  each parent giving the link from the root, the hop across the network next to the root,
  or its own exits (`Via`); it needs what the records the code finds are (`LinkIdsTell`,
  `OutgoingInterface`), that a network next to the root has no other parent
  (`OneParent`), and that parents are settled. For the finished tree, distances from a
  neighbour settle after as many rounds as there are vertices and obey the triangle
  inequality (`DistancesSettle`, `DistancesTriangle`), so a hop that starts a shortest
  path to a parent starts one to the child and conversely (`StartsInherit`,
  `StartsBefore`); the theorem follows along the order in which vertices enter the tree
  (`Depth`).
- `TablesDeliver`, `Spec => [](PositiveMetrics /\ Subnetted => RoutesDeliver)`, about the
  tables of all routers together. The inductive invariants say what the tables hold at
  every moment: those of the node under the iterator the routes of the vertices in the
  tree and of the vertices that the walks have visited so far (`CurrentTables`), those of
  later nodes nothing (`LaterTables`), those of earlier routers what makes them forward
  (`Served`): a packet to a device that the router does not deliver to itself finds a
  route, and every route found hands it to a router on the link that is nearer to the
  vertex the device belongs to (`Forwards`). `Forwards` is shown when a calculation ends
  (`FinishedForwards`: the exits are first hops, and of the prefixes in the tables only
  those of the right vertex match) and for stub nodes with their default route
  (`StubForwards`). Distances to the destination then decrease from hop to hop, the
  routers joined to its owner are in its reach (`JoinedReach`), and what the reference
  function `Reaching` computes in as many rounds as there are nodes is closed under hops
  (`RoundsClose`), so no router is left out (`ServedDeliver`). With metric 0 two routers
  at the same distance could send a packet to each other, hence the hypothesis.
- `ExternalsFollow`, `Spec => [](Numbered => ExternalsFollowRouters)`. `Numbered` adds to
  the hypotheses above and to `Ordinary` that different routers inject different networks
  (`InjectedApart`), since a route does not say whose network it leads to; the topologies
  with an injected route in the `spf` run satisfy it. `ServedExternals` says of the
  routers already served, stub nodes aside, that they have routes to exactly the networks
  of the routers in their reach, from `CurrentTables` after the last pass; the routers in
  reach are the joined ones (`JoinedAreReached`), by the symmetry of links.

`GlobalRouteManagerProofs`: `ManagerTablesAreCurrent`, `Spec => []TablesAreCurrent`, for
all topologies, metrics and routes to inject. Invariant: if no change was silent and
nothing has failed, the databases are those of the topology as it is, up to the order
and the repetition of external LSAs, and the tables come from them alone; empty tables
go with empty databases. Its core is that `BuildGlobalRoutingDatabase` on a database
that is already there gives the same LSAs and repeats the external ones
(`BuildTwice`, `ExternalTwice`).

### Simulator core

- `DefaultSimulatorProofs`: `SimulatorNoEventInThePast`, `SimulatorNoEventLost`,
  `SimulatorExpiredMeansRunOrCancelled`, each under `UidsDoNotWrap` (fewer events than
  uids; without it the last is false). Invariant: uids handed out are below `m_uid` and
  pairwise different, foreign events included (`UidsAreFresh`); an `EventImpl` is in
  one place (`ImplsAreApart`); what has left the list has run or was cancelled, and its
  time and uid show it (`Accounted`).
- `NullMessageSimulatorProofs`: `RanksInStep`, `GuaranteesAreHonoured` and
  `AssertionsHold`, for any number of ranks and links, packets of any sizes and any events
  that callbacks schedule, under `ParallelLinksFit`: a packet on one of two parallel
  links does not arrive before the latest guarantee that a packet sent on the other at the
  same time can carry. Networks with one link between two ranks satisfy it. Guarantees and safe times may go
  back, so an invariant on their present values does not hold; `IInv` says that there are
  a greatest guarantee given for each pair of ranks and a greatest safe time of each rank
  (`promised`, `reached`) such that the clocks are within the latter (`Clocks`), what is
  under way arrives neither before a guarantee in front of it nor before the greatest safe
  time of its receiver, and no guarantee exceeds its sender's greatest safe time by more
  than the delay (`Channels`), and every link that may still be given a packet, at the end
  of its transmission or in any callback listed, delivers it after the greatest guarantee
  (`Keeps`). The lists are sorted and in the future (`Lists`).
- `GrantedTimeWindowProofs`: `GrantedNothingInThePast` and `GrantedHaltsWhenDone`, for
  any number of ranks, links and packets. Invariant: the ranks that are in a window are
  all in the same one (`Window(t)`: no event and no message under way is before `t`, and
  messages sent inside it are received after its end, by the look-ahead); the counters
  of sent and received messages add up to the messages under way (`Counted`); and what
  a rank has given to `MPI_Allgather` still holds when the last one enters (`Reported`),
  although ranks enter one after the other. Sums over the ranks are folds; what is
  needed of them is proved from the fold.

### Protocols

- `ArpCacheProofs`: `ArpInOrder`, `ArpAutoGeneratedIsCurrent`, and the action property
  `ArpRetriedBeforeDead`. Invariant: the packets of a waiting entry increase and come
  after the last one sent, its retries are the retransmissions since it began to wait,
  and an entry that does not wait has neither (`Consistent`, `Queue`); a generated entry
  names a present owner.
- `InternetProofs`, of `NdiscCache`: `NdiscFrontExists`, `NdiscWaitingHaveNotLeft`, and
  the action property `NdiscSolicitedBeforeGivenUp`. Invariant: while the retransmission timer is
  set a packet waits, and the counter is the number of solicitations (`Soliciting`); at
  a router none of the waiting packets has left (`Unsent`).
  Of `DuplicateAddress`: `DadUnique`, `AnswerFits => (DadSpec => []Unique)` for any
  number of hosts, where `AnswerFits` is `2 * MaxDelay < DadTimeout`. It speaks of hosts
  that have no entry for the address from when they add it until detection ends (`sound`),
  and of no others: with an entry the statement is false. Invariant
  (`OneStops`, with `Looks`): of any two hosts with the address at least one has found the other, or
  its probe or an answer is under way and arrives before each of its timeouts.
  Of `Rip`: `RipNoMutualRoutes`, `RipSpec => []NoMutualRoutes`, for every tree with one
  router on the network. Invariant (`Follow`): routes that are not at infinity lead toward
  the network, and no message that is under way announces it in that direction.

### Only model-checked

- `LoopsAreDetected`, `DesignatedIsLowest`, `EdgeDevicesFound`, `TransitHasRouters`:
  depth-first walks against reachability.
- `ImplementsScheduler`: for removals from the heap that fill the gap in order, since
  others make it false (`heap`).
- Liveness, which is out of the prover's reach: `InitializeRoutesReturns`, `PostsAreRun`,
  `AllRanksStop`, `AllRanksFinish`, `ResolutionEnds`, `DadEnds`, `Converges`.

## Not modelled

`RouteInput` and `RouteOutput`; several addresses on an interface within one
calculation; the real-time simulator; the list and priority queue schedulers; of
IPv6, router discovery and address autoconfiguration; RIPng, interface metrics,
exclusions and shared links in RIP; and the parts listed in `PROJECT.json` as not
modelled: TCP, the wireless and cellular stacks, queue disciplines, applications,
physical layers over real numbers, tracing, wrappers of external programs.

## Plan

Done: global routing with its manager and bridges, the event lists and loops, the
parallel simulators, ARP, neighbour discovery, duplicate address detection, RIP.
Proved: discovery, the tree, its parents, exits and stub routes of the calculation, the
forwarding by the tables it leaves, the tables of the manager, the event loop, null
messages and granted windows, ARP, neighbour discovery, duplicate addresses and split
horizon. Next, in this order:

1. Theorems about walks: `DesignatedIsLowest` and the others of `BridgedLinks`; the heap
   without `Remove` implements `Scheduler` (the array is a heap except at `index`).
2. Further parts: `Ipv4ListRouting` and `Ipv4StaticRouting`, nix-vector routing,
   router discovery timers of IPv6.
