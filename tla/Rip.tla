---------------------------------- MODULE Rip ----------------------------------
(***************************************************************************)
(* RIP (src/internet/model/rip.cc): the routes of all routers to one       *)
(* network, Net.  Routers are joined by point-to-point links, so that a    *)
(* neighbour, its address and the interface to it are one and the same;    *)
(* every interface has the default metric 1.                               *)
(*                                                                         *)
(* Time goes in rounds, the time between two unsolicited updates of a      *)
(* router: in a round every router sends one, in any order, and every      *)
(* triggered update and message is done with before the next round, their  *)
(* delays being much smaller.  TimeoutDelay and GarbageCollectionDelay are *)
(* numbers of rounds.  A router sends an update when its last messages     *)
(* have arrived.                                                           *)
(***************************************************************************)
EXTENDS Integers, Sequences, FiniteSets, SequencesExt

CONSTANTS
    Routers,                 \* numbers from 1 on
    Networks,                \* the networks to look at, see RipAssumption
    LinkDown,                \* m_linkDown
    TimeoutDelay,            \* m_timeoutDelay
    GarbageCollectionDelay   \* m_garbageCollectionDelay

Strategies == {"NO_SPLIT_HORIZON", "SPLIT_HORIZON", "POISON_REVERSE"}

(* A network: its links, the routers with an interface to Net, the         *)
(* strategy m_splitHorizonStrategy of all routers, and a bound on how      *)
(* often interfaces go down or up.                                         *)
ASSUME RipAssumption ==
    /\ Routers \subseteq Nat \ {0}
    /\ Networks \subseteq [links : SUBSET {{r, n} : r, n \in Routers}, owners : SUBSET Routers,
                          strategy : Strategies, changes : Nat]
    /\ {LinkDown, TimeoutDelay, GarbageCollectionDelay} \subseteq Nat

VARIABLES
    network,    \* the network, one of Networks
    routes,     \* routes[r]: m_routes, the routes to Net in the order of the list
    triggered,  \* triggered[r]: what m_nextTriggeredUpdate will run, or "none"
    chan,       \* chan[r][n]: the messages under way from r to n, in order
    ifs,        \* ifs[r]: the interfaces of r that are up
    due,        \* the routers that have not sent the update of this round
    changes     \* interfaces that went down or up so far

ripVars == <<network, routes, triggered, chan, ifs, due, changes>>

Net == 0   \* as an interface, the one to Net; as a gateway, none

Neighbours(r) == {n \in Routers \ {r} : {r, n} \in network.links}

Interfaces(r) == Neighbours(r) \cup (IF r \in network.owners THEN {Net} ELSE {})

(* AddNetworkRouteTo for the network of an interface: metric 1, no timer.  *)
DirectRoute ==
    [gw |-> Net, metric |-> 1, valid |-> TRUE, changed |-> TRUE, event |-> "none", left |-> 0]

RipInit ==
    /\ network \in Networks
    /\ routes = [r \in Routers |-> IF r \in network.owners THEN << DirectRoute >> ELSE << >>]
    /\ triggered = [r \in Routers |-> "request"]          \* DoInitialize
    /\ chan = [r \in Routers |-> [n \in Neighbours(r) |-> << >>]]
    /\ ifs = [r \in Routers |-> Interfaces(r)]
    /\ due = Routers
    /\ changes = 0

-----------------------------------------------------------------------------
(***************************************************************************)
(* DoSendRouteUpdate: the entries sent to neighbour n, for all routes or   *)
(* for those that changed; the answer to a request has the valid ones.     *)
(***************************************************************************)
EntryUnpoisoned(route, n) == route.metric                        \* mutant

Entry(route, n) ==
    IF network.strategy = "POISON_REVERSE" /\ route.gw = n THEN LinkDown ELSE route.metric

Entries(table, included, n) ==
    FlattenSeq([k \in DOMAIN table |->
        IF k \in included /\ ~(network.strategy = "SPLIT_HORIZON" /\ table[k].gw = n)
        THEN << Entry(table[k], n) >> ELSE << >>])

Response(entries) ==
    IF entries = << >> THEN << >> ELSE << [command |-> "RESPONSE", entries |-> entries] >>

Request == << [command |-> "REQUEST"] >>

(* Messages leave by the interfaces that are up, once the last are gone.   *)
Clear(r) == \A n \in Neighbours(r) : chan[r][n] = << >>

SendToAll(r, messages) ==
    chan' = [chan EXCEPT ![r] =
        [n \in Neighbours(r) |-> IF n \in ifs[r] THEN messages[n] ELSE << >>]]

DoSendRouteUpdate(r, periodic) ==
    LET included == {k \in DOMAIN routes[r] : periodic \/ routes[r][k].changed} IN
    /\ Clear(r)
    /\ SendToAll(r, [n \in Neighbours(r) |-> Response(Entries(routes[r], included, n))])
    /\ routes' = [routes EXCEPT ![r] = [k \in DOMAIN @ |-> [@[k] EXCEPT !.changed = FALSE]]]

(* The event of m_nextTriggeredUpdate: an update, or SendRouteRequest.     *)
RunTriggered(r) ==
    /\ \/ triggered[r] = "update" /\ DoSendRouteUpdate(r, FALSE)
       \/ /\ triggered[r] = "request" /\ Clear(r)
          /\ SendToAll(r, [n \in Neighbours(r) |-> Request]) /\ UNCHANGED routes
    /\ triggered' = [triggered EXCEPT ![r] = "none"]
    /\ UNCHANGED <<network, ifs, due, changes>>

(* It cancels m_nextTriggeredUpdate, whatever that was to run. *)
SendUnsolicitedRouteUpdate(r) ==
    /\ r \in due /\ due' = due \ {r}
    /\ DoSendRouteUpdate(r, TRUE)
    /\ triggered' = [triggered EXCEPT ![r] = "none"]
    /\ UNCHANGED <<network, ifs, changes>>

SendTriggeredRouteUpdate(r) ==
    triggered' = [triggered EXCEPT ![r] = IF @ = "none" THEN "update" ELSE @]

-----------------------------------------------------------------------------
InvalidateRoute(route) ==
    [route EXCEPT !.valid = FALSE, !.metric = LinkDown, !.changed = TRUE,
                  !.event = "delete", !.left = GarbageCollectionDelay]

(* A route with a new timeout. *)
Learnt(n, metric) ==
    [gw |-> n, metric |-> metric, valid |-> TRUE, changed |-> TRUE,
     event |-> "invalidate", left |-> TimeoutDelay]

(***************************************************************************)
(* HandleResponses: what an entry with this metric, from n, makes of a     *)
(* route, and whether the route is said to have changed.  Routers send no  *)
(* malformed metric, so no message is ignored.                             *)
(***************************************************************************)
Refreshed(route) == [route EXCEPT !.event = "invalidate", !.left = TimeoutDelay]

UpdatedByBetter(route, n, metric) ==                             \* mutant
    CASE metric < route.metric -> Learnt(n, metric)
      [] n = route.gw -> Refreshed(route)
      [] OTHER -> route

Updated(route, n, metric) ==
    CASE metric < route.metric -> Learnt(n, metric)
      [] metric = route.metric /\ n = route.gw -> Refreshed(route)
      [] metric = route.metric /\ n # route.gw /\ 2 * route.left < TimeoutDelay ->
            Learnt(n, metric)
      [] metric > route.metric /\ n = route.gw ->
            IF metric < LinkDown THEN Learnt(n, metric) ELSE InvalidateRoute(route)
      [] OTHER -> route

HandleEntry(table, n, metric) ==
    IF table # << >> THEN [k \in DOMAIN table |-> Updated(table[k], n, metric)]
    ELSE IF metric = LinkDown THEN table
    ELSE << Learnt(n, metric) >>

Cost(entry) == IF entry + 1 > LinkDown THEN LinkDown ELSE entry + 1

(* The table after k of the entries. *)
Tables(table, n, entries) ==
    LET after[k \in 0 .. Len(entries)] ==
            IF k = 0 THEN table ELSE HandleEntry(after[k - 1], n, Cost(entries[k]))
    IN  after

HandleEntries(table, n, entries) == Tables(table, n, entries)[Len(entries)]

(* A timeout that is only refreshed is no change. *)
Changed(table, n, entries) ==
    LET after == Tables(table, n, entries) IN
    \E k \in 1 .. Len(entries) :
        \/ Len(after[k]) # Len(after[k - 1])
        \/ \E i \in DOMAIN after[k] :
            after[k][i] # after[k - 1][i] /\ after[k][i] # Refreshed(after[k - 1][i])

(* Receive at r of the next message from n. *)
Comes(r, n, command) == chan[n][r] # << >> /\ Head(chan[n][r]).command = command

ReceiveResponse(r, n) ==
    LET entries == Head(chan[n][r]).entries IN
    /\ n \in ifs[r] /\ Comes(r, n, "RESPONSE")
    /\ routes' = [routes EXCEPT ![r] = HandleEntries(@, n, entries)]
    /\ IF Changed(routes[r], n, entries) THEN SendTriggeredRouteUpdate(r) ELSE UNCHANGED triggered
    /\ chan' = [chan EXCEPT ![n][r] = Tail(@)]
    /\ UNCHANGED <<network, ifs, due, changes>>

(* HandleRequests: the whole table is sent back. *)
ReceiveRequest(r, n) ==
    LET valid == {k \in DOMAIN routes[r] : routes[r][k].valid} IN
    /\ n \in ifs[r] /\ Comes(r, n, "REQUEST")
    /\ chan' = [chan EXCEPT ![n][r] = Tail(@),
                            ![r][n] = @ \o Response(Entries(routes[r], valid, n))]
    /\ UNCHANGED <<network, routes, triggered, ifs, due, changes>>

(* A message into an interface that is down is dropped. *)
Drop(r, n) ==
    /\ chan[n][r] # << >> /\ n \notin ifs[r]
    /\ chan' = [chan EXCEPT ![n][r] = Tail(@)]
    /\ UNCHANGED <<network, routes, triggered, ifs, due, changes>>

-----------------------------------------------------------------------------
(* The event of a route runs: InvalidateRoute or DeleteRoute. *)
Expire(r, k) ==
    LET route == routes[r][k] IN
    /\ route.event # "none" /\ route.left = 0
    /\ routes' = [routes EXCEPT ![r] =
        IF route.event = "invalidate" THEN [@ EXCEPT ![k] = InvalidateRoute(route)]
        ELSE RemoveAt(@, k)]
    /\ UNCHANGED <<network, triggered, chan, ifs, due, changes>>

NotifyInterfaceDown(r, i) ==
    /\ changes < network.changes /\ changes' = changes + 1
    /\ i \in ifs[r] /\ ifs' = [ifs EXCEPT ![r] = @ \ {i}]
    /\ routes' = [routes EXCEPT ![r] =
        [k \in DOMAIN @ |-> IF @[k].gw = i THEN InvalidateRoute(@[k]) ELSE @[k]]]
    /\ SendTriggeredRouteUpdate(r)
    /\ UNCHANGED <<network, chan, due>>

(* The network's route is added whether or not the table still has one.    *)
NotifyInterfaceUp(r, i) ==
    /\ changes < network.changes /\ changes' = changes + 1
    /\ i \in Interfaces(r) \ ifs[r] /\ ifs' = [ifs EXCEPT ![r] = @ \cup {i}]
    /\ routes' = IF i = Net THEN [routes EXCEPT ![r] = Append(@, DirectRoute)] ELSE routes
    /\ SendTriggeredRouteUpdate(r)
    /\ UNCHANGED <<network, chan, due>>

Round ==
    /\ due = {}
    /\ \A r \in Routers :
        /\ triggered[r] = "none" /\ Clear(r)
        /\ \A k \in DOMAIN routes[r] : routes[r][k].event # "none" => routes[r][k].left > 0
    /\ due' = Routers
    /\ routes' = [r \in Routers |-> [k \in DOMAIN routes[r] |->
        [routes[r][k] EXCEPT !.left = IF @ = 0 THEN 0 ELSE @ - 1]]]
    /\ UNCHANGED <<network, triggered, chan, ifs, changes>>

RouterStep(r) ==
    \/ RunTriggered(r) \/ SendUnsolicitedRouteUpdate(r)
    \/ \E k \in DOMAIN routes[r] : Expire(r, k)
    \/ \E n \in Neighbours(r) : ReceiveResponse(r, n) \/ ReceiveRequest(r, n) \/ Drop(r, n)

RipNext ==
    \/ \E r \in Routers : RouterStep(r)
    \/ \E r \in Routers : \E i \in Interfaces(r) : NotifyInterfaceDown(r, i) \/ NotifyInterfaceUp(r, i)
    \/ Round

(* The simulator runs every event it was given, and its clock advances.    *)
RipSpec == RipInit /\ [][RipNext]_ripVars /\ WF_ripVars(Round) /\ \A r \in Routers : WF_ripVars(RouterStep(r))
-----------------------------------------------------------------------------
(***************************************************************************)
(* The reference: the distance of r to Net over interfaces that are up at  *)
(* both ends, as a metric.                                                 *)
(***************************************************************************)
Near ==
    LET near[d \in 1 .. LinkDown] ==
            IF d = 1 THEN {r \in Routers : Net \in ifs[r]}
            ELSE near[d - 1] \cup {r \in Routers :
                \E n \in near[d - 1] \cap Neighbours(r) : n \in ifs[r] /\ r \in ifs[n]}
    IN  near

Distance(r) ==
    LET reached == {d \in 1 .. LinkDown - 1 : r \in Near[d]}
    IN  IF reached = {} THEN LinkDown ELSE CHOOSE d \in reached : \A e \in reached : d <= e

(* Lookup: of the valid routes to one network the last of the list. *)
Used(r) == SelectLastInSeq(routes[r], LAMBDA route : route.valid)

(* What the routers forward by is a shortest path, or nothing below        *)
(* LinkDown where there is no path.                                        *)
Correct(r) ==
    IF Distance(r) = LinkDown THEN \A k \in DOMAIN routes[r] : routes[r][k].metric = LinkDown
    ELSE /\ Used(r) # 0
         /\ routes[r][Used(r)].metric = Distance(r)
         /\ LET gw == routes[r][Used(r)].gw
            IN  gw = Net \/ Distance(gw) = Distance(r) - 1

(* Once interfaces stop going down and up the routers agree on shortest    *)
(* paths for good, whatever was lost, timed out or counted to infinity     *)
(* before ("routes are updated according to the Bellman-Ford algorithm",   *)
(* doc/routing-overview.rst).                                              *)
Converges == <>[](\A r \in Routers : Correct(r))

Uses(r, n) == \E k \in DOMAIN routes[r] :
    routes[r][k].gw = n /\ routes[r][k].valid /\ routes[r][k].metric < LinkDown

(* The routers around the one on Net form a tree, in which toward[r] is    *)
(* the next one on the way to Net.                                         *)
IsTree(toward) ==
    /\ \A r \in network.owners : toward[r] = Net
    /\ \A r \in Routers : \A n \in Neighbours(r) : toward[r] = n <=> toward[n] # r

(* The point of split horizon: where the routers form a tree with one of   *)
(* them on Net, two neighbours never route to Net by each other.  With two *)
(* on Net they do, when both lose it after having announced it.            *)
NoMutualRoutes ==
    /\ network.strategy # "NO_SPLIT_HORIZON"
    /\ \E toward \in [Routers -> Routers \cup {Net}] : IsTree(toward)
    => \A r \in Routers : \A n \in Neighbours(r) : ~(Uses(r, n) /\ Uses(n, r))
=============================================================================
