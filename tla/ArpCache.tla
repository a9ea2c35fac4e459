------------------------------- MODULE ArpCache -------------------------------
(***************************************************************************)
(* Address resolution (src/internet/model/arp-cache.cc,                    *)
(* arp-l3-protocol.cc) of one interface of a host, with the hosts on its   *)
(* channel and NeighborCacheHelper (helper/neighbor-cache-helper.cc), which *)
(* writes entries by itself and keeps them up to date when addresses are   *)
(* added and removed.                                                      *)
(*                                                                         *)
(* Timeouts are attributes and may have any length, so time is left out:   *)
(* an entry expires at some moment after it was last seen, and the timer,  *)
(* which all entries share, fires at some moment while it is pending.      *)
(* Messages may be lost and take any time, of which the jitter of the      *)
(* first request is a part; a request is a broadcast that stays on the     *)
(* channel until no host is left to get it.  Packets are numbered as they  *)
(* are sent.                                                               *)
(***************************************************************************)
EXTENDS Integers, Sequences, FiniteSets

CONSTANTS
    Addresses,         \* the addresses packets are sent to
    Assignable,        \* those that hosts on the channel may have
    Macs,              \* the hosts on the channel, by hardware address
    MaxRetries,        \* m_maxRetries
    PendingQueueSize,  \* m_pendingQueueSize
    MaxPackets         \* bound: packets sent

ASSUME ArpAssumption ==
    /\ Assignable \subseteq Addresses
    /\ {MaxRetries, PendingQueueSize, MaxPackets} \subseteq Nat

VARIABLES
    cache,      \* m_arpCache: an Entry, or NoEntry, for each address
    timer,      \* m_waitReplyTimer is pending
    net,        \* the messages on the channel
    owns,       \* owns[m]: the addresses of host m
    dynamic,    \* the callbacks of NeighborCacheHelper are set
    given,      \* packets sent so far
    lastSent,   \* lastSent[a]: the last packet that left for a
    requests    \* requests[a]: retransmissions since a's entry began to wait

vars == <<cache, timer, net, owns, dynamic, given, lastSent, requests>>

NoEntry == [state |-> "none"]

NoMac == 0

(* The constructor of Entry. *)
NewEntry == [state |-> "alive", mac |-> NoMac, pending |-> << >>, retries |-> 0, expired |-> FALSE]

Exists(a) == cache[a] # NoEntry

Is(a, state) == cache[a].state = state

Init ==
    /\ cache = [a \in Addresses |-> NoEntry]
    /\ timer = FALSE
    /\ net = {}
    /\ owns \in [Macs -> SUBSET Assignable]
    /\ dynamic = FALSE
    /\ given = 0
    /\ lastSent = [a \in Addresses |-> 0]
    /\ requests = [a \in Addresses |-> 0]

-----------------------------------------------------------------------------
MarkWaitReply(entry, p) ==
    [entry EXCEPT !.state = "wait", !.pending = Append(@, p), !.expired = FALSE]

MarkDead(entry) == [entry EXCEPT !.state = "dead", !.retries = 0, !.expired = FALSE]

MarkAliveUncleared(entry, m) ==                                  \* mutant
    [entry EXCEPT !.state = "alive", !.mac = m, !.expired = FALSE]

MarkAlive(entry, m) ==
    [entry EXCEPT !.state = "alive", !.mac = m, !.retries = 0, !.expired = FALSE]

(* MarkPermanent and MarkAutoGenerated, after SetMacAddress. *)
MarkStatic(entry, m, state) ==
    [entry EXCEPT !.state = state, !.mac = m, !.retries = 0, !.expired = FALSE]

(***************************************************************************)
(* ArpL3Protocol::Lookup for the next packet: it leaves, waits with the    *)
(* entry, or is dropped.                                                   *)
(***************************************************************************)
PushFront(entry, p) == [entry EXCEPT !.pending = << p >> \o @]   \* mutant

UpdateWaitReply(entry, p) ==
    IF Len(entry.pending) >= PendingQueueSize THEN entry
    ELSE [entry EXCEPT !.pending = Append(@, p)]

SendArpRequest(a) == [kind |-> "request", for |-> a]

StartResolution(a, entry, p) ==
    /\ cache' = [cache EXCEPT ![a] = MarkWaitReply(entry, p)]
    /\ timer' = TRUE                                 \* StartWaitReplyTimer
    /\ net' = net \cup {SendArpRequest(a)}
    /\ requests' = [requests EXCEPT ![a] = 0]
    /\ UNCHANGED lastSent

Lookup(a) ==
    LET p == given + 1
        leaves == lastSent' = [lastSent EXCEPT ![a] = p]
    IN
    /\ given < MaxPackets /\ given' = p
    /\ \/ ~Exists(a) /\ StartResolution(a, NewEntry, p)
       \/ /\ Exists(a) /\ cache[a].state \in {"alive", "dead"} /\ cache[a].expired
          /\ StartResolution(a, cache[a], p)
       \/ /\ Exists(a) /\ Is(a, "alive") /\ ~cache[a].expired
          /\ leaves /\ UNCHANGED <<cache, timer, net, requests>>
       \/ /\ Exists(a) /\ Is(a, "dead") /\ ~cache[a].expired
          /\ UNCHANGED <<cache, timer, net, requests, lastSent>>
       \/ /\ Exists(a) /\ Is(a, "wait")
          /\ cache' = [cache EXCEPT ![a] = UpdateWaitReply(@, p)]
          /\ UNCHANGED <<timer, net, requests, lastSent>>
       \/ /\ Exists(a) /\ cache[a].state \in {"permanent", "auto"}
          /\ leaves /\ UNCHANGED <<cache, timer, net, requests>>
    /\ UNCHANGED <<owns, dynamic>>

(***************************************************************************)
(* HandleWaitReplyTimeout scans all entries that wait: a request is sent   *)
(* again, or the entry is marked dead and its packets are dropped.         *)
(***************************************************************************)
Retried(entry) == [entry EXCEPT !.retries = @ + 1, !.expired = FALSE]

AfterTimeout(entry) ==
    IF entry.state # "wait" THEN entry
    ELSE IF entry.retries < MaxRetries THEN Retried(entry)
    ELSE [MarkDead(entry) EXCEPT !.pending = << >>]

RetryOneOnly(retried) == Cardinality(retried) = 1               \* mutant

Restart(retried) == retried # {}

HandleWaitReplyTimeout ==
    LET retried == {a \in Addresses : Is(a, "wait") /\ cache[a].retries < MaxRetries}
    IN
    /\ timer
    /\ cache' = [a \in Addresses |-> AfterTimeout(cache[a])]
    /\ net' = net \cup {SendArpRequest(a) : a \in retried}
    /\ requests' = [a \in Addresses |-> IF a \in retried THEN requests[a] + 1 ELSE requests[a]]
    /\ timer' = Restart(retried)
    /\ UNCHANGED <<owns, dynamic, given, lastSent>>

(* IsExpired: the time since the entry was last seen exceeds its timeout. *)
Expire(a) ==
    /\ Exists(a) /\ cache[a].state \in {"alive", "dead"} /\ ~cache[a].expired
    /\ cache' = [cache EXCEPT ![a].expired = TRUE]
    /\ UNCHANGED <<timer, net, owns, dynamic, given, lastSent, requests>>

-----------------------------------------------------------------------------
(* ArpL3Protocol::Receive of a request at a host that has the address. *)
ReceiveRequest(msg, m) ==
    /\ msg.kind = "request" /\ msg.for \in owns[m]
    /\ net' = net \cup {[kind |-> "reply", for |-> msg.for, host |-> m]}
    /\ UNCHANGED <<cache, timer, owns, dynamic, given, lastSent, requests>>

(* Receive of a reply: for an entry that waits, the packets leave in order. *)
Resolve(a, m) ==
    LET entry == cache[a] IN
    /\ cache' = [cache EXCEPT ![a] = [MarkAlive(entry, m) EXCEPT !.pending = << >>]]
    /\ lastSent' = [lastSent EXCEPT ![a] = entry.pending[Len(entry.pending)]]

ReceiveReply(msg) ==
    /\ msg.kind = "reply"
    /\ net' = net \ {msg}
    /\ IF Is(msg.for, "wait") THEN Resolve(msg.for, msg.host) ELSE UNCHANGED <<cache, lastSent>>
    /\ UNCHANGED <<timer, owns, dynamic, given, requests>>

Lose(msg) ==
    /\ net' = net \ {msg}
    /\ UNCHANGED <<cache, timer, owns, dynamic, given, lastSent, requests>>

(* Flush, called when the link of the device changes. *)
Flush ==
    /\ cache' = [a \in Addresses |-> NoEntry] /\ timer' = FALSE
    /\ UNCHANGED <<net, owns, dynamic, given, lastSent, requests>>

-----------------------------------------------------------------------------
(* NeighborCacheHelper::AddEntry; MarkPermanent by the user. *)
AddEntry(a, m, state) ==
    cache' = [cache EXCEPT ![a] = MarkStatic(IF Exists(a) THEN @ ELSE NewEntry, m, state)]

AddPermanent(a, m) ==
    /\ AddEntry(a, m, "permanent")
    /\ UNCHANGED <<timer, net, owns, dynamic, given, lastSent, requests>>

(* Ipv4Interface::AddAddress and RemoveAddress of a host, with             *)
(* UpdateCacheByIpv4AddressAdded and UpdateCacheByIpv4AddressRemoved.      *)
AddAddress(a, m) ==
    /\ a \in Assignable \ owns[m]
    /\ owns' = [owns EXCEPT ![m] = @ \cup {a}]
    /\ IF dynamic THEN AddEntry(a, m, "auto") ELSE UNCHANGED cache
    /\ UNCHANGED <<timer, net, dynamic, given, lastSent, requests>>

RemoveAddressOnly(a, m) ==                                       \* mutant
    /\ a \in owns[m]
    /\ owns' = [owns EXCEPT ![m] = @ \ {a}]
    /\ UNCHANGED <<cache, timer, net, dynamic, given, lastSent, requests>>

RemoveAddress(a, m) ==
    /\ a \in owns[m]
    /\ owns' = [owns EXCEPT ![m] = @ \ {a}]
    /\ cache' = IF dynamic THEN [cache EXCEPT ![a] = NoEntry] ELSE cache
    /\ UNCHANGED <<timer, net, dynamic, given, lastSent, requests>>

(* PopulateNeighborCache writes an entry for every address on the channel, *)
(* the last host of the channel that has it, and sets the callbacks.       *)
PopulateNeighborCache ==
    /\ \E last \in [{a \in Addresses : \E m \in Macs : a \in owns[m]} -> Macs] :
        /\ \A a \in DOMAIN last : a \in owns[last[a]]
        /\ cache' = [a \in Addresses |->
            IF a \in DOMAIN last
            THEN MarkStatic(IF Exists(a) THEN cache[a] ELSE NewEntry, last[a], "auto")
            ELSE cache[a]]
    /\ dynamic' = TRUE
    /\ UNCHANGED <<timer, net, owns, given, lastSent, requests>>

(* FlushAutoGenerated: RemoveAutoGeneratedEntries. *)
FlushAutoGenerated ==
    /\ cache' = [a \in Addresses |-> IF Is(a, "auto") THEN NoEntry ELSE cache[a]]
    /\ UNCHANGED <<timer, net, owns, dynamic, given, lastSent, requests>>

Next ==
    \/ \E a \in Addresses : Lookup(a) \/ Expire(a)
    \/ HandleWaitReplyTimeout
    \/ \E msg \in net, m \in Macs : ReceiveRequest(msg, m)
    \/ \E msg \in net : ReceiveReply(msg) \/ Lose(msg)
    \/ Flush
    \/ \E a \in Addresses, m \in Macs :
        AddPermanent(a, m) \/ AddAddress(a, m) \/ RemoveAddress(a, m)
    \/ PopulateNeighborCache \/ FlushAutoGenerated

(* The simulator runs every event it was given: a pending timer fires. *)
Spec == Init /\ [][Next]_vars /\ WF_vars(HandleWaitReplyTimeout)
-----------------------------------------------------------------------------
(* Packets to one address leave in the order in which they were sent:      *)
(* those that wait are in order, none that was sent after one of them has  *)
(* left, and, as MarkWaitReply asserts when it starts over with an entry   *)
(* that was resolved or given up, none of the last resolution is left.     *)
InOrder ==
    \A a \in Addresses : Exists(a) =>
        LET q == << lastSent[a] >> \o cache[a].pending IN
        /\ Is(a, "wait") => \A i \in 1 .. Len(q) - 1 : q[i] < q[i + 1]
        /\ cache[a].state \in {"alive", "dead"} => cache[a].pending = << >>

(* A generated entry names a host that has the address now: "neighbor      *)
(* caches will update dynamically when IPv4 addresses are removed or       *)
(* added" (doc/ipv4.rst).                                                  *)
AutoGeneratedIsCurrent ==
    \A a \in Addresses : Exists(a) /\ Is(a, "auto") => a \in owns[cache[a].mac]

(* MaxRetries is the "number of retransmissions of ArpRequest before       *)
(* marking dead": an entry is never given up after fewer, whatever         *)
(* resolutions it has been through before.                                 *)
RetriedBeforeDead ==
    [][\A a \in Addresses :
        Is(a, "wait") /\ cache'[a].state = "dead" => requests[a] = MaxRetries]_vars

(* Resolution ends: an entry does not wait for ever, though the timer that *)
(* retries and gives up is shared by all entries and may have been started *)
(* for another.                                                            *)
ResolutionEnds == \A a \in Addresses : Is(a, "wait") ~> ~Is(a, "wait")
=============================================================================
