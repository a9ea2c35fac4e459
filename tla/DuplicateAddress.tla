--------------------------- MODULE DuplicateAddress ---------------------------
(***************************************************************************)
(* Duplicate address detection (src/internet/model/icmpv6-l4-protocol.cc,  *)
(* ipv6-interface.cc): hosts on one link add and remove the same address.  *)
(*                                                                         *)
(* Time goes in ticks.  A probe or an answer takes up to MaxDelay ticks to *)
(* reach each of the other hosts, of which the jitter of the probe is a    *)
(* part, and none is lost; nothing that is due now is put off.  Every host *)
(* gets multicasts for the address, and those without it ignore them.      *)
(***************************************************************************)
EXTENDS Integers, FiniteSets

CONSTANTS
    Hosts,
    DadTimeout,   \* m_dadTimeout, in ticks
    MaxDelay,     \* bound: ticks a message may take
    MaxAdds       \* bound: how often a host adds the address

ASSUME DadAssumption == {DadTimeout, MaxDelay, MaxAdds} \subseteq Nat

VARIABLES
    noDad,     \* the hosts with m_alwaysDad off
    addr,      \* addr[h]: the state of the address at h, or "absent"
    timeouts,  \* timeouts[h]: ticks left of h's FunctionDadTimeout events
    net,       \* the messages under way, with the ticks each may still take
    known,     \* the hosts with a neighbour cache entry for the address
    sound,     \* the hosts that last added the address with detection on and no
               \* timeout of an earlier detection pending, and had no entry for it
               \* then nor later while the detection ran
    adds       \* adds[h]: how often h has added the address

dadVars == <<noDad, addr, timeouts, net, known, sound, adds>>

DadInit ==
    /\ noDad \in SUBSET Hosts
    /\ addr = [h \in Hosts |-> "absent"]
    /\ timeouts = [h \in Hosts |-> {}]
    /\ net = {}
    /\ known = {}
    /\ sound = {}
    /\ adds = [h \in Hosts |-> 0]

(* Multicast to the solicited-node group of the address. *)
Multicast(kind, h) ==
    {[kind |-> kind, from |-> h, to |-> k, left |-> MaxDelay] : k \in Hosts \ {h}}

-----------------------------------------------------------------------------
DoDAD(h) == net' = net \cup Multicast("NS", h)

(***************************************************************************)
(* Ipv6Interface::AddAddress, with DoDAD, which it schedules for now.      *)
(***************************************************************************)
AddAddress(h) ==
    /\ addr[h] = "absent"
    /\ adds[h] < MaxAdds /\ adds' = [adds EXCEPT ![h] = @ + 1]
    /\ addr' = [addr EXCEPT ![h] = "tentative"]
    /\ IF h \in noDad
       THEN timeouts' = [timeouts EXCEPT ![h] = @ \cup {0}] /\ UNCHANGED net
       ELSE timeouts' = [timeouts EXCEPT ![h] = @ \cup {DadTimeout}]
            /\ DoDAD(h)
    /\ sound' = IF h \in noDad \cup known \/ timeouts[h] # {} THEN sound \ {h} ELSE sound \cup {h}
    /\ UNCHANGED <<noDad, known>>

(* RemoveAddress; the timeout stays scheduled. *)
RemoveAddress(h) ==
    /\ addr[h] # "absent"
    /\ addr' = [addr EXCEPT ![h] = "absent"]
    /\ UNCHANGED <<noDad, timeouts, net, known, sound, adds>>

TimeoutUnchecked(h) ==                                           \* mutant
    /\ 0 \in timeouts[h]
    /\ timeouts' = [timeouts EXCEPT ![h] = @ \ {0}]
    /\ addr' = [addr EXCEPT ![h] = IF @ = "absent" THEN @ ELSE "preferred"]
    /\ UNCHANGED <<noDad, net, known, sound, adds>>

TimeoutSkipped(h) ==                                             \* mutant
    /\ 0 \in timeouts[h]
    /\ timeouts' = [timeouts EXCEPT ![h] = @ \ {0}]
    /\ addr' = IF h \in known THEN addr
               ELSE [addr EXCEPT ![h] = IF @ \in {"absent", "invalid"} THEN @ ELSE "preferred"]
    /\ UNCHANGED <<noDad, net, known, sound, adds>>

FunctionDadTimeout(h) ==
    /\ 0 \in timeouts[h]
    /\ timeouts' = [timeouts EXCEPT ![h] = @ \ {0}]
    /\ addr' = [addr EXCEPT ![h] = IF @ \in {"absent", "invalid"} THEN @ ELSE "preferred"]
    /\ UNCHANGED <<noDad, net, known, sound, adds>>

(* HandleNS of a probe: a host answers for the address whatever its state. *)
DadHandleNS(msg) ==
    /\ msg.kind = "NS"
    /\ net' = (net \ {msg}) \cup
              IF addr[msg.to] = "absent" THEN {} ELSE Multicast("NA", msg.to)
    /\ UNCHANGED <<noDad, addr, timeouts, known, sound, adds>>

(* HandleNA: only without an entry for the address does the host look      *)
(* whether the address is its own.                                         *)
DadHandleNA(msg) ==
    LET h == msg.to IN
    /\ msg.kind = "NA"
    /\ net' = net \ {msg}
    /\ addr' = IF h \notin known /\ addr[h] = "tentative"
               THEN [addr EXCEPT ![h] = "invalid"] ELSE addr
    /\ UNCHANGED <<noDad, timeouts, known, sound, adds>>

(* The neighbour cache gets an entry: a host without the address resolves  *)
(* it, or a host hears a solicitation that another sends, or sent before   *)
(* it removed it, from the address: HandleNS does not look whether the     *)
(* source is an address of its own.  The entry is removed or flushed later.*)
Learn(h) ==
    /\ h \in Hosts \ known
    /\ addr[h] = "absent" \/ \E k \in Hosts \ {h} : adds[k] > 0
    /\ known' = known \cup {h}
    /\ sound' = IF addr[h] = "tentative" THEN sound \ {h} ELSE sound
    /\ UNCHANGED <<noDad, addr, timeouts, net, adds>>

Forget(h) ==
    /\ known' = known \ {h} /\ h \in known
    /\ UNCHANGED <<noDad, addr, timeouts, net, sound, adds>>

(* A tick passes once nothing is due. *)
Tick ==
    /\ \A msg \in net : msg.left > 0
    /\ \A h \in Hosts : 0 \notin timeouts[h]
    /\ net # {} \/ \E h \in Hosts : timeouts[h] # {}
    /\ net' = {[msg EXCEPT !.left = @ - 1] : msg \in net}
    /\ timeouts' = [h \in Hosts |-> {t - 1 : t \in timeouts[h]}]
    /\ UNCHANGED <<noDad, addr, known, sound, adds>>

DadNext ==
    \/ \E h \in Hosts :
        \/ AddAddress(h) \/ RemoveAddress(h) \/ FunctionDadTimeout(h)
        \/ Learn(h) \/ Forget(h)
    \/ \E msg \in net : DadHandleNS(msg) \/ DadHandleNA(msg)
    \/ Tick

(* The simulator runs every event it was given, and its clock advances. *)
DadSpec ==
    /\ DadInit /\ [][DadNext]_dadVars
    /\ WF_dadVars(Tick)
    /\ \A h \in Hosts : WF_dadVars(FunctionDadTimeout(h))
    /\ WF_dadVars(\E msg \in net : DadHandleNS(msg) \/ DadHandleNA(msg))
-----------------------------------------------------------------------------
(* Two hosts that do detection never both use the address: the first test  *)
(* of ipv6-address-duplication-test.cc, in every order and at every        *)
(* distance in time, while a probe and its answer fit into DadTimeout.     *)
(* It takes that neither had a timeout pending when it added the address,  *)
(* which would end the new detection early, or an entry for it at any time *)
(* until its detection ended: HandleNA looks for the host's own address    *)
(* only when there is no entry.                                            *)
Unique ==
    \A h, k \in sound : addr[h] = "preferred" /\ addr[k] = "preferred" => h = k

(* Detection ends: the address does not stay tentative, at a host that     *)
(* knows the address from its neighbour or adds it again at once too.      *)
DadEnds == \A h \in Hosts : addr[h] = "tentative" ~> addr[h] # "tentative"
=============================================================================
