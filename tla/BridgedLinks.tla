---------------------------- MODULE BridgedLinks ----------------------------
(***************************************************************************)
(* The recursive walks of GlobalRouter over a broadcast domain made of     *)
(* channels that bridges connect (global-router-interface.cc):             *)
(*   "another"     AnotherRouterOnLink                                     *)
(*   "designated"  FindDesignatedRouterForLink                             *)
(*   "all"         FindAllNonBridgedDevicesOnLink                          *)
(* with the list m_bridgesVisited they share.  GlobalRouter models the     *)
(* same functions on a channel without bridges.                            *)
(*                                                                         *)
(* A domain is a record                                                    *)
(*   chan    the sequence of channels, each the sequence of its devices in *)
(*           the order of Channel::GetDevice; device p of channel c is     *)
(*           <<c, p>> and its entry says what it is: the name of the       *)
(*           bridge it is a port of, or a router's device that is up       *)
(*           (UpRouter) or down (DownRouter), or a Host's                  *)
(*   routing the bridges whose node is a router with an interface on the   *)
(*           bridge that is up                                             *)
(*   down    the bridges whose node is a router with an interface on the   *)
(*           bridge that is down                                           *)
(* A bridge lists its ports in the order of the channels.  The lowest      *)
(* address is that of the first device, after those of the bridges.        *)
(***************************************************************************)
EXTENDS Integers, Sequences, FiniteSets, SequencesExt

CONSTANTS
    Domains,     \* the broadcast domains
    Bridges,     \* the names of bridges: negative numbers
    UpRouter, DownRouter, Host

ASSUME BridgedLinksAssumption ==
    /\ Bridges \subseteq Int /\ \A b \in Bridges : b < 0
    /\ {UpRouter, DownRouter, Host} \subseteq Nat

VARIABLES
    net,      \* the domain
    kind,     \* which walk
    start,    \* the device it starts from
    pc,       \* "walk", "done" or "abort"
    stack,    \* the calls: device, channel, next device, port being followed
    visited,  \* m_bridgesVisited
    found     \* the answer so far

vars == <<net, kind, start, pc, stack, visited, found>>

Broadcast == 4095   \* 255.255.255.255

Devices == UNION {{c} \X DOMAIN net.chan[c] : c \in DOMAIN net.chan}

What(d) == net.chan[d[1]][d[2]]

IsRouter(d) == What(d) \in {UpRouter, DownRouter}

(* NetDeviceIsBridged: some bridge has the device as a port. *)
IsBridged(d) == What(d) \in Bridges

DeviceOrder(d, e) == d[1] < e[1] \/ (d[1] = e[1] /\ d[2] < e[2])

Ports(b) == SetToSortSeq({d \in Devices : What(d) = b}, DeviceOrder)

Address(d) == 16 * d[1] + d[2]

BridgeAddress(b) == 16 + b

Call(d) == [local |-> d, next |-> 1, port |-> 0]

Nothing == [another |-> FALSE, designated |-> Broadcast, all |-> << >>]

Init ==
    /\ net \in Domains
    /\ kind \in {"another", "designated", "all"}
    /\ start \in {d \in Devices : What(d) = UpRouter}
    /\ pc = "walk" /\ stack = << Call(start) >> /\ visited = {} /\ found = Nothing

-----------------------------------------------------------------------------
Top == Last(stack)
Channel == Top.local[1]
Other == <<Channel, Top.next>>   \* ndOther

Examining == pc = "walk" /\ stack # << >> /\ Top.port = 0
InPorts   == pc = "walk" /\ stack # << >> /\ Top.port > 0

WithTop(frame) == [stack EXCEPT ![Len(stack)] = frame]

NextDevice == stack' = WithTop([Top EXCEPT !.next = @ + 1, !.port = 0])

(* "another" leaves the device it was called for out altogether, the       *)
(* others only if it is a bridge port.                                     *)
SkipsItself ==
    Other = Top.local /\ (kind = "another" \/ (kind = "designated" /\ IsBridged(Other)))

SkipMyself ==
    /\ Examining /\ Top.next <= Len(net.chan[Channel]) /\ SkipsItself
    /\ NextDevice
    /\ UNCHANGED <<net, kind, start, pc, visited, found>>

TakesEdge == ~IsBridged(Other)   \* mutant: "all" stops at a visited bridge

(* A device that is not bridged, or for "all" a port of a visited bridge. *)
TakesDevice == ~IsBridged(Other) \/ (kind = "all" /\ What(Other) \in visited)

Designated(d) ==
    IF What(d) = UpRouter /\ Address(d) < found.designated
    THEN Address(d) ELSE found.designated

SkipsNoBridge == FALSE   \* mutant: such a bridge is followed like any other

(* A bridge under a router whose interface on it is down is neither marked *)
(* nor followed by the walk that elects the designated router, and is not  *)
(* checked for having been visited; the other walks do not look at it.     *)
SkipsBridge == kind = "designated" /\ What(Other) \in net.down

SkipDownBridge ==
    /\ Examining /\ Top.next <= Len(net.chan[Channel])
    /\ ~SkipsItself /\ SkipsBridge
    /\ NextDevice
    /\ UNCHANGED <<net, kind, start, pc, visited, found>>

EdgeDevice ==
    /\ Examining /\ Top.next <= Len(net.chan[Channel])
    /\ ~SkipsItself /\ TakesDevice
    /\ \/ /\ kind = "another" /\ IsRouter(Other)
          /\ found' = [found EXCEPT !.another = TRUE]
          /\ pc' = "done" /\ UNCHANGED stack
       \/ /\ kind = "another" /\ ~IsRouter(Other)
          /\ NextDevice /\ UNCHANGED <<pc, found>>
       \/ /\ kind = "designated"
          /\ found' = [found EXCEPT !.designated = Designated(Other)]
          /\ NextDevice /\ UNCHANGED pc
       \/ /\ kind = "all"
          /\ found' = [found EXCEPT !.all = Append(@, Other)]
          /\ NextDevice /\ UNCHANGED pc
    /\ UNCHANGED <<net, kind, start, visited>>

(* The router on the bridge itself, which "designated" considers before it *)
(* looks whether the bridge has been visited.                              *)
DesignatedOfBridge(b) ==
    IF kind = "designated" /\ b \in net.routing /\ BridgeAddress(b) < found.designated
    THEN [found EXCEPT !.designated = BridgeAddress(b)] ELSE found

(* Mutant: a port of a bridge that was visited is passed over. *)
PassOver ==
    /\ Examining /\ Top.next <= Len(net.chan[Channel])
    /\ ~SkipsItself /\ ~SkipsBridge /\ ~TakesDevice /\ What(Other) \in visited
    /\ found' = DesignatedOfBridge(What(Other))
    /\ NextDevice
    /\ UNCHANGED <<net, kind, start, pc, visited>>

LoopDetected ==
    /\ Examining /\ Top.next <= Len(net.chan[Channel])
    /\ ~SkipsItself /\ ~SkipsBridge /\ ~TakesDevice /\ What(Other) \in visited
    /\ found' = DesignatedOfBridge(What(Other))
    /\ pc' = "abort"
    /\ UNCHANGED <<net, kind, start, stack, visited>>

EnterBridge ==
    /\ Examining /\ Top.next <= Len(net.chan[Channel])
    /\ ~SkipsItself /\ ~SkipsBridge /\ ~TakesDevice /\ What(Other) \notin visited
    /\ visited' = visited \cup {What(Other)}
    /\ found' = DesignatedOfBridge(What(Other))
    /\ stack' = WithTop([Top EXCEPT !.port = 1])
    /\ UNCHANGED <<net, kind, start, pc>>

(* "all" compares channels, the others devices. *)
GoesBack(port) ==
    IF kind = "all" THEN port[1] = Channel ELSE port = Other

FollowPort ==
    /\ InPorts /\ Top.port <= Len(Ports(What(Other)))
    /\ LET port  == Ports(What(Other))[Top.port]
           after == WithTop([Top EXCEPT !.port = @ + 1])
       IN  stack' = IF GoesBack(port) THEN after ELSE Append(after, Call(port))
    /\ UNCHANGED <<net, kind, start, pc, visited, found>>

(* Mutant: "another" takes the end of a bridge for a router. *)
LeaveBridgeTrue ==
    /\ InPorts /\ Top.port > Len(Ports(What(Other)))
    /\ IF kind = "another"
       THEN found' = [found EXCEPT !.another = TRUE] /\ pc' = "done" /\ UNCHANGED stack
       ELSE NextDevice /\ UNCHANGED <<pc, found>>
    /\ UNCHANGED <<net, kind, start, visited>>

(* "No routers on bridged net device, return false": "another" leaves the  *)
(* channel, with the devices after the port, the others go on.             *)
LeaveBridge ==
    /\ InPorts /\ Top.port > Len(Ports(What(Other)))
    /\ IF kind = "another" THEN stack' = Front(stack) ELSE NextDevice
    /\ UNCHANGED <<net, kind, start, pc, visited, found>>

LeaveChannel ==
    /\ Examining /\ Top.next > Len(net.chan[Channel])
    /\ stack' = Front(stack)
    /\ UNCHANGED <<net, kind, start, pc, visited, found>>

Finish ==
    /\ pc = "walk" /\ stack = << >>
    /\ pc' = "done"
    /\ UNCHANGED <<net, kind, start, stack, visited, found>>

Stopped == pc \in {"done", "abort"} /\ UNCHANGED vars

Next ==
    \/ SkipMyself \/ SkipDownBridge \/ EdgeDevice \/ LoopDetected \/ EnterBridge
    \/ FollowPort \/ LeaveBridge \/ LeaveChannel \/ Finish \/ Stopped

Spec == Init /\ [][Next]_vars
-----------------------------------------------------------------------------
(***************************************************************************)
(* The broadcast domain of the channel of start, by reachability over the  *)
(* bridges in bs.                                                          *)
(***************************************************************************)
Joined(b) == {d[1] : d \in {e \in Devices : What(e) = b}}

Grown(cs, bs) == cs \cup UNION {Joined(b) : b \in {x \in bs : Joined(x) \cap cs # {}}}

DomainChannels(bs) ==
    LET Closure[n \in Nat] == IF n = 0 THEN {start[1]} ELSE Grown(Closure[n - 1], bs)
    IN  Closure[Len(net.chan)]

DomainDevices(bs) == {d \in Devices : d[1] \in DomainChannels(bs)}

DomainBridges(bs) == {b \in bs : Joined(b) \cap DomainChannels(bs) # {}}

(* A graph of channels and bridges that is connected has no cycle if and   *)
(* only if it has one port less than it has channels and bridges.          *)
HasLoop(bs) ==
    Cardinality({d \in DomainDevices(bs) : What(d) \in bs})
        # Cardinality(DomainChannels(bs)) + Cardinality(DomainBridges(bs)) - 1

(* The bridges that do not end the election's domain.                      *)
Followed == Bridges \ net.down

(* "L2 forwarding loop detected": the walk that elects the designated      *)
(* router is aborted exactly if there is a loop in the part of the domain  *)
(* that it follows, however it is entered and whatever the order of the    *)
(* devices.  (A loop through a bridge whose router has its interface down  *)
(* is not noticed.)                                                        *)
LoopsAreDetected ==
    kind = "designated" /\ pc # "walk" => (pc = "abort" <=> HasLoop(Followed))

(* Of the routers that are up and can be reached without crossing a bridge *)
(* whose router has its interface down, the one with the lowest address is *)
(* the designated router: the routers of such a part of the domain agree   *)
(* on it.  (Those on the two sides of such a bridge may not.)              *)
DesignatedIsLowest ==
    kind = "designated" /\ pc = "done" =>
        found.designated =
            Min({Broadcast}
                \cup {Address(d) : d \in {e \in DomainDevices(Followed) : What(e) = UpRouter}}
                \cup {BridgeAddress(b) : b \in DomainBridges(Followed) \cap net.routing})

(* The attached routers of a Network-LSA are looked for among all edge     *)
(* devices of the broadcast domain, each of them once.                     *)
EdgeDevicesFound ==
    kind = "all" /\ pc # "walk" /\ ~HasLoop(Bridges) =>
        \A d \in DomainDevices(Bridges) :
            ~IsBridged(d) => Cardinality({k \in DOMAIN found.all : found.all[k] = d}) = 1

AnotherRouterInDomain == \E d \in DomainDevices(Bridges) : d # start /\ IsRouter(d)

(* A link is only made a transit network if there is another router in the *)
(* broadcast domain.  (In a domain with a loop a router finds itself; the  *)
(* election that follows reports the loop, unless it goes through a bridge *)
(* whose router has its interface down.)                                   *)
TransitHasRouters == found.another /\ ~HasLoop(Bridges) => AnotherRouterInDomain
=============================================================================
