------------------------------ MODULE NdiscCache ------------------------------
(***************************************************************************)
(* The neighbour cache of IPv6 (src/internet/model/ndisc-cache.cc) as      *)
(* icmpv6-l4-protocol.cc and ipv6-l3-protocol.cc drive it: the entry of    *)
(* one neighbour in the cache of one interface.  Entries do not share      *)
(* state, so one is enough.                                                *)
(*                                                                         *)
(* Time is left out: a pending timer fires at some moment.  A message of   *)
(* the link may arrive at any moment and name any hardware address, since  *)
(* messages are lost, delayed, and the address may have moved.  A          *)
(* link-local neighbour is one for which a source address is always found. *)
(* m_router and the time of the last confirmation are written and never    *)
(* read, and are left out.                                                 *)
(***************************************************************************)
EXTENDS Integers, Sequences, Functions

CONSTANTS
    Macs,                 \* hardware addresses on the link
    UnresQlen,            \* m_unresQlen
    MaxMulticastSolicit,  \* m_maxMulticastSolicit
    MaxUnicastSolicit,    \* m_maxUnicastSolicit
    NaFlags,              \* the flags advertisements carry: subsets of {"S", "O"}
    MaxPackets            \* bound: packets sent to the neighbour

ASSUME NdiscAssumption ==
    /\ UnresQlen \in Nat \ {0}
    /\ {MaxMulticastSolicit, MaxUnicastSolicit, MaxPackets} \subseteq Nat
    /\ NaFlags \subseteq SUBSET {"S", "O"}

VARIABLES
    forwarding, \* the node is a router on this interface
    entry,      \* the Entry, or NoEntry
    own,        \* the interface's global addresses: "none", some but "other", one "matching"
    given,      \* packets sent so far; packets are numbered
    left,       \* the packets that were sent on
    asked       \* solicitations of the timers since resolution or probing began

vars == <<forwarding, entry, own, given, left, asked>>

NoEntry == [state |-> "NONE"]

NoMac == 0

Static == {"PERMANENT", "STATIC_AUTOGENERATED"}

(* Add: the constructor of Entry, and the state its caller marks it with. *)
Add(state, m) == [state |-> state, mac |-> m, waiting |-> << >>, timer |-> "none", ns |-> 0]

Init ==
    /\ forwarding \in BOOLEAN
    /\ entry = NoEntry
    /\ own \in {"none", "other", "matching"}
    /\ given = 0 /\ left = {} /\ asked = 0

-----------------------------------------------------------------------------
(* StartReachableTimer, StartRetransmitTimer, StartDelayTimer and          *)
(* StartProbeTimer: the one timer of the entry gets a new function.        *)
Start(e, timer) == [e EXCEPT !.timer = timer]

StopNudTimer(e) == [e EXCEPT !.timer = "none", !.ns = 0]

Mark(e, state) == [e EXCEPT !.state = state]

MarkReachable(e, m) == [e EXCEPT !.state = "REACHABLE", !.mac = m]

MarkStaleEmptied(e, m) == [e EXCEPT !.state = "STALE", !.mac = m, !.waiting = << >>]   \* mutant

(* MarkStale(mac): no caller uses the waiting packets it returns. *)
MarkStale(e, m) == [e EXCEPT !.state = "STALE", !.mac = m]

Confirmed(e, m) == Start(MarkReachable(e, m), "reachable")

(* UpdateReachableTimer, for every packet received from the neighbour. *)
UpdateReachableTimer(e) ==
    IF e.state = "REACHABLE" THEN Start(e, "reachable") ELSE e

AddWaitingPacket(e, p) ==
    [e EXCEPT !.waiting = Append(IF Len(@) >= UnresQlen THEN Tail(@) ELSE @, p)]

ReleaseKept(e) ==                                                \* mutant
    /\ entry' = e
    /\ left' = left \cup Range(e.waiting)

(* The loop over the waiting packets, and ClearWaitingPacket. *)
Release(e) ==
    /\ entry' = [e EXCEPT !.waiting = << >>]
    /\ left' = left \cup Range(e.waiting)

Update(e) == entry' = e /\ UNCHANGED left

Exists == entry # NoEntry

-----------------------------------------------------------------------------
(***************************************************************************)
(* Icmpv6L4Protocol::Lookup for the next packet to the neighbour.          *)
(***************************************************************************)
Lookup ==
    LET p == given + 1
        leaves == left' = left \cup {p}
    IN
    /\ given < MaxPackets /\ given' = p
    /\ \/ /\ entry.state \in {"REACHABLE", "DELAY"} \cup Static
          /\ leaves /\ UNCHANGED <<entry, asked>>
       \/ /\ entry.state = "STALE"
          /\ entry' = Mark(Start(entry, "delay"), "DELAY")
          /\ leaves /\ UNCHANGED asked
       \/ /\ entry.state \in {"INCOMPLETE", "PROBE"}
          /\ Update(AddWaitingPacket(entry, p)) /\ UNCHANGED asked
       \/ /\ ~Exists /\ own = "none"                     \* added and removed
          /\ UNCHANGED <<entry, left, asked>>
       \/ /\ ~Exists /\ own # "none"
          /\ Update([Start(Add("INCOMPLETE", NoMac), "retransmit") EXCEPT !.waiting = << p >>])
          /\ asked' = 0
    /\ UNCHANGED <<forwarding, own>>

(* Lookup without a packet, when a redirection is sent. *)
LookupAddress ==
    /\ entry.state = "STALE"
    /\ entry' = Mark(Start(entry, "delay"), "DELAY")
    /\ UNCHANGED <<forwarding, own, given, left, asked>>

-----------------------------------------------------------------------------
(* The functions of the timer, which run whatever the state is by then.    *)
FunctionReachableTimeout ==
    /\ entry.timer = "reachable"
    /\ entry' = Mark(Start(entry, "none"), "STALE")
    /\ UNCHANGED asked

(* A solicitation is sent and the timer armed again. *)
SolicitOnce(timer) ==                                            \* mutant
    /\ entry' = [Start(entry, "none") EXCEPT !.ns = @ + 1]
    /\ asked' = asked + 1

Solicit(timer) ==
    /\ entry' = [Start(entry, timer) EXCEPT !.ns = @ + 1]
    /\ asked' = asked + 1

RemoveEntry == entry' = NoEntry /\ UNCHANGED asked

FunctionRetransmitTimeout ==
    /\ entry.timer = "retransmit"
    /\ IF own = "matching" /\ entry.ns < MaxMulticastSolicit THEN Solicit("retransmit") ELSE RemoveEntry

ProbeUncounted ==                                                \* mutant
    /\ entry.timer = "delay"
    /\ IF own # "matching" THEN RemoveEntry
       ELSE entry' = Mark(Start(entry, "probe"), "PROBE") /\ asked' = 1

FunctionDelayTimeout ==
    /\ entry.timer = "delay"
    /\ IF own # "matching" THEN RemoveEntry
       ELSE entry' = [Mark(Start(entry, "probe"), "PROBE") EXCEPT !.ns = 1] /\ asked' = 1

FunctionProbeTimeout ==
    /\ entry.timer = "probe"
    /\ IF own = "matching" /\ entry.ns < MaxUnicastSolicit THEN Solicit("probe") ELSE RemoveEntry

Timeout ==
    /\ Exists
    /\ \/ FunctionReachableTimeout \/ FunctionRetransmitTimeout
       \/ FunctionDelayTimeout \/ FunctionProbeTimeout
    /\ UNCHANGED <<forwarding, own, given, left>>

-----------------------------------------------------------------------------
(***************************************************************************)
(* Messages.  Ipv6L3Protocol::Receive has confirmed the sender's entry     *)
(* before the handler runs.  SetMacAddress runs before the code compares   *)
(* the entry's address with the one advertised, so the branches that       *)
(* would then call MarkStale are never taken.                              *)
(***************************************************************************)
HandleNA(m, flags) ==
    LET e == StopNudTimer(entry)
        takes == "O" \in flags \/ m = e.mac
        confirms == "S" \in flags /\ takes
        renamed == IF takes THEN [e EXCEPT !.mac = m] ELSE e
    IN
    /\ Exists
    /\ \/ e.state = "INCOMPLETE" /\ "S" \in flags /\ Release(Confirmed(e, m))
       \/ e.state = "INCOMPLETE" /\ "S" \notin flags /\ Update(MarkStale(e, m))
       \/ e.state = "REACHABLE" /\ ~takes /\ Update(Mark(e, "STALE"))
       \/ e.state = "REACHABLE" /\ takes /\ Update(IF "S" \in flags THEN Confirmed(e, m) ELSE renamed)
       \/ e.state \in {"STALE", "DELAY"} /\ Update(IF confirms THEN Confirmed(e, m) ELSE renamed)
       \/ e.state = "PROBE" /\ confirms /\ Release(Confirmed(e, m))
       \/ e.state = "PROBE" /\ ~confirms /\ Update(renamed)
       \/ e.state \in Static /\ Update(renamed)
    /\ UNCHANGED <<forwarding, own, given, asked>>

(* HandleNS, and HandleRS at a router: the sender's address is learnt.     *)
(* Without a source link-layer option they only confirm, as any packet.    *)
LearnSource(m) ==
    LET e == UpdateReachableTimer(entry) IN
    /\ IF ~Exists THEN Update(Add("STALE", m))
       ELSE Update(IF entry.mac # m THEN MarkStale(e, m) ELSE e)
    /\ UNCHANGED <<forwarding, own, given, asked>>

HandleNS(m) == LearnSource(m)

HandleRS(m) == forwarding /\ LearnSource(m)

(* HandleRA at a host: ReceiveLLA. *)
ReceiveLLA(m) ==
    LET e == UpdateReachableTimer(entry)
        moved == MarkStale(e, m)
        found == Confirmed(StopNudTimer(e), m)
    IN
    /\ ~forwarding
    /\ \/ ~Exists /\ Update(Start(Add("REACHABLE", m), "reachable"))
       \/ entry.state = "INCOMPLETE" /\ Release(found)
       \/ entry.state \in {"STALE", "DELAY"} /\ Update(IF entry.mac # m THEN moved ELSE found)
       \/ entry.state = "PROBE" /\ entry.mac # m /\ Update(moved)
       \/ /\ entry.state = "PROBE" /\ entry.mac = m      \* no ClearWaitingPacket
          /\ entry' = found /\ left' = left \cup Range(found.waiting)
       \/ /\ entry.state = "REACHABLE"
          /\ Update(Start(IF entry.mac # m THEN moved ELSE e, "reachable"))
       \/ entry.state \in Static /\ Update(IF entry.mac # m THEN moved ELSE e)
    /\ UNCHANGED <<forwarding, own, given, asked>>

HandleRedirection(m) ==
    /\ Update(IF ~Exists THEN Add("STALE", m)
              ELSE IF entry.mac # m THEN MarkStale(entry, m) ELSE entry)
    /\ UNCHANGED <<forwarding, own, given, asked>>

(* Any other packet of the neighbour. *)
ReceivePacket ==
    /\ Exists /\ entry.state = "REACHABLE"
    /\ Update(UpdateReachableTimer(entry))
    /\ UNCHANGED <<forwarding, own, given, asked>>

(* An application has heard from the neighbour; the packets that wait are  *)
(* sent (with the source of each as next hop, which is left out).          *)
ReachabilityHint ==
    /\ Exists
    /\ \/ entry.state = "REACHABLE" /\ Update(UpdateReachableTimer(entry))
       \/ entry.state = "PROBE" /\ Release(Confirmed(entry, entry.mac))
       \/ entry.state \in {"STALE", "DELAY"} /\ Update(Confirmed(entry, entry.mac))
    /\ UNCHANGED <<forwarding, own, given, asked>>

-----------------------------------------------------------------------------
(* MarkPermanent by the user, MarkAutoGenerated by NeighborCacheHelper. *)
AddEntry(m, state) ==
    /\ Update([StopNudTimer(IF Exists THEN entry ELSE Add(state, m)) EXCEPT
                  !.state = state, !.mac = m])
    /\ UNCHANGED <<forwarding, own, given, asked>>

RemoveAutoGeneratedEntries ==
    /\ entry.state = "STATIC_AUTOGENERATED"
    /\ Update(NoEntry)
    /\ UNCHANGED <<forwarding, own, given, asked>>

(* The link changes, or the helper removes the entry. *)
Flush ==
    /\ Exists
    /\ Update(NoEntry)
    /\ UNCHANGED <<forwarding, own, given, asked>>

(* Addresses of the interface are added, expire or are removed. *)
ChangeAddresses ==
    /\ own' \in {"none", "other", "matching"} \ {own}
    /\ UNCHANGED <<forwarding, entry, given, left, asked>>

Next ==
    \/ Lookup \/ LookupAddress \/ Timeout
    \/ \E m \in Macs :
        \/ \E flags \in NaFlags : HandleNA(m, flags)
        \/ HandleNS(m) \/ HandleRS(m) \/ ReceiveLLA(m) \/ HandleRedirection(m)
        \/ \E state \in Static : AddEntry(m, state)
    \/ ReceivePacket \/ ReachabilityHint
    \/ RemoveAutoGeneratedEntries \/ Flush \/ ChangeAddresses

(* The simulator runs every event it was given: a pending timer fires. *)
Spec == Init /\ [][Next]_vars /\ WF_vars(Timeout)
-----------------------------------------------------------------------------
(* FunctionRetransmitTimeout takes the front of the waiting list when it   *)
(* gives up, in whatever state messages have brought the entry: the list   *)
(* is never empty then.                                                    *)
FrontExists == Exists /\ entry.timer = "retransmit" => entry.waiting # << >>

(* "The list of packet waiting" (ndisc-cache.h) holds packets that are     *)
(* still to be sent: none of them has left, so none leaves twice,          *)
(* whichever of the handlers confirms the neighbour.  At a host ReceiveLLA *)
(* confirms a probed router without emptying the list, so this is about    *)
(* routers.                                                                *)
WaitingHaveNotLeft == forwarding /\ Exists => Range(entry.waiting) \cap left = {}

(* "It verify that the NS retransmit has reached the max so discard the    *)
(* entry" (ndisc-cache.h): while it has an address to ask from, a node     *)
(* gives a neighbour up only after all its solicitations, however the      *)
(* counter was used before.  FunctionDelayTimeout sends the first probe    *)
(* without a look at the maximum, so there is always one.                  *)
SolicitedBeforeGivenUp ==
    [][Timeout /\ entry' = NoEntry /\ own = "matching" =>
        asked = IF entry.timer # "probe" THEN MaxMulticastSolicit
                ELSE IF MaxUnicastSolicit = 0 THEN 1 ELSE MaxUnicastSolicit]_vars

(* Resolution of an address ends, by an answer or by giving up. *)
ResolutionEnds == entry.state = "INCOMPLETE" ~> entry.state # "INCOMPLETE"
=============================================================================
