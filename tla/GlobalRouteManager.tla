------------------------- MODULE GlobalRouteManager -------------------------
(***************************************************************************)
(* When routes are computed: PopulateRoutingTables and                     *)
(* RecomputeRoutingTables (ipv4-global-routing-helper.cc), the interface   *)
(* events of Ipv4L3Protocol that reach Ipv4GlobalRouting::Notify*, and the *)
(* changes of the topology nobody is told about.                           *)
(*                                                                         *)
(* InitializeRoutes (SpfCalculation) reads the topology and the database,  *)
(* so the routes in the tables are represented by computed, the set of     *)
(* what it read in the calls since the last DeleteGlobalRoutes.            *)
(*                                                                         *)
(* An interface has a list of addresses, of which only the first is used;  *)
(* net.ifs holds that one, NoAddress if the list is empty.  Reading the    *)
(* first address of an empty list is a fatal error, and so is a network    *)
(* with two network numbers.                                               *)
(***************************************************************************)
EXTENDS GlobalRouter

CONSTANTS
    Networks,       \* the topologies to begin with
    Respond,        \* the nodes with RespondToInterfaceEvents set
    Changeable,     \* the devices whose configuration changes
    Metrics,        \* the metrics of SetMetric
    Injectable,     \* the external networks of InjectRoute
    NewAddresses,   \* the addresses of AddAddress
    MaxCalls        \* bound: changes of the topology and calls of PopulateRoutingTables

ASSUME GlobalRouteManagerAssumption ==
    /\ MaxCalls \in Nat /\ Metrics \subseteq Nat /\ Injectable \subseteq Nat
    /\ \A t \in Networks : WellFormedTopology(t) /\ Changeable \subseteq Devices(t)

VARIABLES
    net,        \* the topology
    addrs,      \* device -> Ipv4Interface::m_ifaddrs
    lsdb,       \* m_database
    extdb,      \* m_extdatabase
    computed,   \* what the calls of InitializeRoutes read whose routes are installed
    started,    \* Simulator::Now() > 0
    fatal,      \* the program has ended with a fatal error
    unaware,    \* the topology changed under a database and nobody was told
    calls       \* changes and calls so far

vars == <<net, addrs, lsdb, extdb, computed, started, fatal, unaware, calls>>

NoAddress == 0

Init ==
    /\ net \in Networks
    /\ addrs = [d \in Devices(net) |-> << Interface(net, d).addr >>]
    /\ lsdb = << >> /\ extdb = << >> /\ computed = {}
    /\ started = FALSE /\ fatal = FALSE /\ unaware = FALSE /\ calls = 0

-----------------------------------------------------------------------------
(***************************************************************************)
(* The devices whose first address DiscoverLSAs reads: its own if it       *)
(* advertises it, the peer's on a point-to-point link whether it is up or  *)
(* not, those of the routers that are up on a network with other routers.  *)
(***************************************************************************)
ReadOnLan(t, d) ==
    IF AnotherRouterOnLink(t, d)
    THEN {e \in OnChannel(t, Interface(t, d).ch) : UpRouterDevice(t, e)}
    ELSE {}

ReadOnPointToPoint(t, d) == {e \in {GetAdjacent(t, d)} : e[1] \in t.routers}

AddressesRead(t) ==
    LET own == {d \in Devices(t) : d[1] \in t.routers /\ Advertised(t, d)}
    IN  own \cup UNION {IF t.kind[Interface(t, d).ch] = "lan"
                        THEN ReadOnLan(t, d) ELSE ReadOnPointToPoint(t, d) : d \in own}

AddressMissing(t) == \E d \in AddressesRead(t) : Interface(t, d).addr = NoAddress

Snapshot(t, db, ext) == [net |-> t, lsdb |-> db, external |-> Range(ext)]

(* BuildGlobalRoutingDatabase and InitializeRoutes, over the databases db  *)
(* and ext, with the routes of old still in the tables.                    *)
BuildAndInitialize(t, db, ext, old) ==
    IF AddressMissing(t) \/ NetworkConfusion(t)
    THEN /\ fatal' = TRUE
         /\ UNCHANGED <<lsdb, extdb, computed>>
    ELSE /\ lsdb' = BuildDatabase(t, db)
         /\ extdb' = BuildExtDatabase(t, ext)
         /\ computed' = old \cup {Snapshot(t, lsdb', extdb')}
         /\ UNCHANGED fatal

(* Mutant: the database is kept, only the routes are deleted. *)
RecomputeOver(t) == BuildAndInitialize(t, lsdb, extdb, {})

(* DeleteGlobalRoutes, BuildGlobalRoutingDatabase, InitializeRoutes. *)
Recompute(t) == BuildAndInitialize(t, << >>, << >>, {})

PopulateRoutingTables ==
    /\ ~fatal /\ calls < MaxCalls
    /\ calls' = calls + 1
    /\ BuildAndInitialize(net, lsdb, extdb, computed)
    /\ UNCHANGED <<net, addrs, started, unaware>>

RecomputeRoutingTables ==
    /\ ~fatal
    /\ Recompute(net)
    /\ unaware' = FALSE
    /\ UNCHANGED <<net, addrs, started, calls>>

-----------------------------------------------------------------------------
Changed ==
    /\ ~fatal /\ calls < MaxCalls
    /\ calls' = calls + 1
    /\ UNCHANGED started

(* A change of node n that is notified to the routing protocol of n. *)
Notify(n) ==
    IF n \in net.routers /\ n \in Respond /\ started
    THEN Recompute(net') /\ unaware' = FALSE
    ELSE /\ unaware' = (unaware \/ computed # {})
         /\ UNCHANGED <<lsdb, extdb, computed, fatal>>

(* A change that no routing protocol is told about. *)
Silently ==
    /\ unaware' = (unaware \/ computed # {})
    /\ UNCHANGED <<lsdb, extdb, computed, fatal>>

SetUp(d) ==
    /\ Changed
    /\ net' = [net EXCEPT !.ifs[d[1]][d[2]].up = TRUE]
    /\ Notify(d[1])
    /\ UNCHANGED addrs

SetDown(d) ==
    /\ Changed
    /\ net' = [net EXCEPT !.ifs[d[1]][d[2]].up = FALSE]
    /\ Notify(d[1])
    /\ UNCHANGED addrs

WithAddresses(d, as) ==
    /\ addrs' = [addrs EXCEPT ![d] = as]
    /\ net' = [net EXCEPT !.ifs[d[1]][d[2]].addr =
                    IF as = << >> THEN NoAddress ELSE Head(as)]

AddAddress(d, a) ==
    /\ Changed
    /\ WithAddresses(d, Append(addrs[d], a))
    /\ Notify(d[1])

RemoveAddress(d, k) ==
    /\ Changed
    /\ WithAddresses(d, RemoveAt(addrs[d], k))
    /\ Notify(d[1])

SetMetric(d, m) ==
    /\ Changed
    /\ net' = [net EXCEPT !.ifs[d[1]][d[2]].metric = m]
    /\ Silently
    /\ UNCHANGED addrs

SetForwarding(d, val) ==
    /\ Changed
    /\ net' = [net EXCEPT !.ifs[d[1]][d[2]].fwd = val]
    /\ Silently
    /\ UNCHANGED addrs

InjectRoute(n, x) ==
    /\ Changed
    /\ net' = [net EXCEPT !.injected[n] = Append(@, x)]
    /\ Silently
    /\ UNCHANGED addrs

(* The first injected route to x. *)
WithdrawRoute(n, x) ==
    /\ Changed /\ x \in Range(net.injected[n])
    /\ net' = [net EXCEPT !.injected[n] = RemoveFirst(@, x)]
    /\ Silently
    /\ UNCHANGED addrs

(* The first event after time 0. *)
TimePasses ==
    /\ ~fatal /\ ~started
    /\ started' = TRUE
    /\ UNCHANGED <<net, addrs, lsdb, extdb, computed, fatal, unaware, calls>>

Next ==
    \/ PopulateRoutingTables \/ RecomputeRoutingTables \/ TimePasses
    \/ \E d \in Changeable :
        \/ SetUp(d) \/ SetDown(d)
        \/ \E a \in NewAddresses : AddAddress(d, a)
        \/ \E k \in DOMAIN addrs[d] : RemoveAddress(d, k)
        \/ \E m \in Metrics : SetMetric(d, m)
        \/ \E val \in BOOLEAN : SetForwarding(d, val)
    \/ \E n \in net.routers, x \in Injectable : InjectRoute(n, x) \/ WithdrawRoute(n, x)

Spec == Init /\ [][Next]_vars
-----------------------------------------------------------------------------
Fresh == Snapshot(net, BuildDatabase(net, << >>), BuildExtDatabase(net, << >>))

(* RecomputeRoutingTables is to "remove all routes that were previously    *)
(* installed" and to update the "representation of the global topology"    *)
(* (ipv4-global-routing-helper.h), and so is an interface event: unless    *)
(* the topology has changed silently since, the tables hold the routes of  *)
(* the topology as it is, and none from an earlier topology or from a      *)
(* database with LSAs of two topologies.                                   *)
TablesAreCurrent == ~fatal /\ ~unaware => computed \subseteq {Fresh}
=============================================================================
