------------------------ MODULE NullMessageSimulator ------------------------
(***************************************************************************)
(* Parallel simulation with null messages (src/mpi/model/                  *)
(* null-message-simulator-impl.cc, null-message-mpi-interface.cc,          *)
(* remote-channel-bundle.cc, remote-channel-bundle-manager.cc): every MPI  *)
(* rank runs its own event loop and executes an event only up to its safe  *)
(* time, the least of the times its neighbours have guaranteed not to send *)
(* anything for.  A guarantee travels with every packet, and in a null     *)
(* message when no packet has been sent for a while.                       *)
(*                                                                         *)
(* Packets leave through point-to-point devices (point-to-point-net-       *)
(* device.cc, point-to-point-remote-channel.cc).  A link is [from, to,     *)
(* delay, tx]: one direction of a channel between nodes of two ranks, with *)
(* its delay and the times that packets, of whatever size, take on it.     *)
(* MPI messages of a pair of ranks arrive in order, after any time.        *)
(*                                                                         *)
(* The assertions on guarantees and safe times are those of a debug build; *)
(* the model is of a build without them, which goes on.                    *)
(***************************************************************************)
EXTENDS RankEvents, FiniteSets

CONSTANTS
    SystemCount, \* m_systemCount, the number of MPI ranks
    Links,       \* the links between them
    Sources,     \* the ranks that have an application
    StartTimes,  \* when it may start
    StopTime,    \* Simulator::Stop(StopTime) is called on every rank
    MaxTime,     \* GetMaximumSimulationTime
    LocalDelays, \* the delays with which callbacks schedule events of their own rank
    MaxLocal,    \* bound: such events
    MaxPackets   \* bound: packets sent

Ranks == 0 .. SystemCount - 1

ASSUME NullMessageAssumption ==
    /\ \A l \in Links : l.from \in Ranks /\ l.to \in Ranks \ {l.from}
    /\ \A l \in Links : \E m \in Links : m.from = l.to /\ m.to = l.from /\ m.delay = l.delay
    /\ \A l \in Links : l.delay \in Nat \ {0} /\ l.tx \subseteq Nat \ {0}
    /\ Sources \subseteq Ranks /\ StartTimes \subseteq 0 .. StopTime - 1 /\ LocalDelays \subseteq Nat
    /\ {SystemCount, StopTime, MaxTime, MaxLocal, MaxPackets} \subseteq Nat

VARIABLES
    pc,         \* where Run is
    now,        \* m_currentTs
    events,     \* m_events
    safe,       \* m_safeTime
    guarantee,  \* guarantee[r][s]: m_guaranteeTime of r's bundle to s
    busy,       \* the links whose device is BUSY
    sending,    \* the links the current callback may transmit on
    channel,    \* channel[r][s]: the MPI messages from r to s
    packets,    \* packets sent so far
    local       \* events that callbacks have scheduled so far

vars == <<pc, now, events, safe, guarantee, busy, sending, channel, packets, local>>

Neighbours(r) == {l.to : l \in {m \in Links : m.from = r}}

(* Mutant: the delay of the bundle is the greatest. *)
DelayOfAll(r, s) == Max({l.delay : l \in {m \in Links : m.from = r /\ m.to = s}})

(* RemoteChannelBundle::AddChannel: the least delay of the channels. *)
Delay(r, s) == Min({l.delay : l \in {m \in Links : m.from = r /\ m.to = s}})

(* CalculateLookAhead, InitializeNullMessageEvents: a first guarantee to   *)
(* every neighbour, and an event for the next null message to each, in the *)
(* order of the ranks.  Every rank has the event of Stop, and a rank with  *)
(* an application an event of it at some time.                             *)
NullMessage(g) == [rx |-> 0, guarantee |-> g]

NullEvents(r, list) ==
    LET after[s \in 0 .. SystemCount] ==  \* the list when the bundles of ranks below s have an event
            IF s = 0 THEN list
            ELSE IF s - 1 \in Neighbours(r)
                 THEN Insert(after[s - 1], Event(Delay(r, s - 1), "null", s - 1))
                 ELSE after[s - 1]
    IN  after[SystemCount]

Init ==
    /\ pc = [r \in Ranks |-> "loop"]
    /\ now = [r \in Ranks |-> 0]
    /\ \E at \in [Sources -> StartTimes] :
        events = [r \in Ranks |->
            NullEvents(r, (IF r \in Sources THEN << Event(at[r], "app", r) >> ELSE << >>)
                          \o << Event(StopTime, "stop", r) >>)]
    /\ safe = [r \in Ranks |-> 0]
    /\ guarantee = [r \in Ranks |-> [s \in Neighbours(r) |-> 0]]
    /\ busy = {} /\ sending = [r \in Ranks |-> {}]
    /\ channel = [r \in Ranks |-> [s \in Neighbours(r) |-> << NullMessage(Delay(r, s)) >>]]
    /\ packets = 0 /\ local = 0

-----------------------------------------------------------------------------
Least(a, b) == IF a < b THEN a ELSE b

(* Mutant: the delay of the bundle is left out. *)
GuaranteeWithoutDelay(r, s, list) == Least(Head(list).ts, safe[r])

(* CalculateGuaranteeTime: Min(Next(), GetSafeTime()) + bundle->GetDelay() *)
GuaranteeTime(r, s, list) == Least(Head(list).ts, safe[r]) + Delay(r, s)

(* ProcessOneEvent for the null message event of neighbour s: the handler  *)
(* sends a guarantee and schedules the next one.                           *)
NullMessageEventHandler(r, s) ==
    LET rest == Tail(events[r]) IN
    /\ rest # << >>                 \* Next() asserts that there is an event
    /\ channel' = [channel EXCEPT ![r][s] = Append(@, NullMessage(GuaranteeTime(r, s, rest)))]
    /\ events' = [events EXCEPT ![r] =
                    Insert(rest, Event(Head(events[r]).ts + Delay(r, s), "null", s))]
    /\ pc' = [pc EXCEPT ![r] = "receive"]
    /\ UNCHANGED <<busy, sending>>

(* Application callbacks may transmit on every link, TransmitComplete on   *)
(* its own, Stop ends the loop; a cancelled event does nothing.            *)
Callback(r, e) ==
    /\ events' = [events EXCEPT ![r] = Tail(@)]
    /\ CASE e.kind \in {"app", "receive"} ->
                /\ pc' = [pc EXCEPT ![r] = "callback"]
                /\ sending' = [sending EXCEPT ![r] = {l \in Links : l.from = r}]
                /\ UNCHANGED busy
         [] e.kind = "complete" ->
                /\ pc' = [pc EXCEPT ![r] = "callback"]
                /\ sending' = [sending EXCEPT ![r] = {e.arg}]
                /\ busy' = busy \ {e.arg}
         [] e.kind = "cancelled" ->
                /\ pc' = [pc EXCEPT ![r] = "receive"]
                /\ UNCHANGED <<busy, sending>>
         [] e.kind = "stop" ->
                /\ pc' = [pc EXCEPT ![r] = "stopped"]
                /\ UNCHANGED <<busy, sending>>
    /\ UNCHANGED channel

SafeByDelay(r) ==   \* mutant: the delay is counted twice
    \A s \in Neighbours(r) : Head(events[r]).ts <= safe[r] + Delay(r, s)

Safe(r) == Head(events[r]).ts <= safe[r]

ProcessOneEvent(r) ==
    /\ pc[r] = "loop" /\ events[r] # << >> /\ Safe(r)
    /\ LET e == Head(events[r]) IN
        /\ now' = [now EXCEPT ![r] = e.ts]
        /\ IF e.kind = "null" THEN NullMessageEventHandler(r, e.arg) ELSE Callback(r, e)
    /\ UNCHANGED <<safe, guarantee, packets, local>>

(***************************************************************************)
(* PointToPointNetDevice::TransmitStart on a device that is READY, to      *)
(* NullMessageMpiInterface::SendPacket: TransmitComplete is scheduled, the *)
(* packet is sent with a guarantee, and the null message is postponed.     *)
(***************************************************************************)
CancelNull(s, list) ==
    [k \in DOMAIN list |->
        IF list[k].kind = "null" /\ list[k].arg = s
        THEN [list[k] EXCEPT !.kind = "cancelled"] ELSE list[k]]

TransmitStart(r, l, tx) ==
    /\ pc[r] = "callback" /\ l \in sending[r] \ busy /\ packets < MaxPackets
    /\ packets' = packets + 1
    /\ busy' = busy \cup {l}
    /\ LET list == Insert(events[r], Event(now[r] + tx, "complete", l)) IN
        /\ channel' = [channel EXCEPT ![r][l.to] =
                Append(@, [rx |-> now[r] + tx + l.delay,
                           guarantee |-> GuaranteeTime(r, l.to, list)])]
        /\ events' = [events EXCEPT ![r] =
                Insert(CancelNull(l.to, list), Event(now[r] + Delay(r, l.to), "null", l.to))]
    /\ UNCHANGED <<pc, now, safe, guarantee, sending, local>>

(* Schedule: before or after the callback has sent something. *)
ScheduleLocal(r, delay) ==
    /\ pc[r] = "callback" /\ local < MaxLocal
    /\ local' = local + 1
    /\ events' = [events EXCEPT ![r] = Insert(@, Event(now[r] + delay, "app", r))]
    /\ UNCHANGED <<pc, now, safe, guarantee, busy, sending, channel, packets>>

EndCallback(r) ==
    /\ pc[r] = "callback"
    /\ pc' = [pc EXCEPT ![r] = "receive"]
    /\ sending' = [sending EXCEPT ![r] = {}]
    /\ UNCHANGED <<now, events, safe, guarantee, busy, channel, packets, local>>

-----------------------------------------------------------------------------
(***************************************************************************)
(* ReceiveMessages.  After an event the messages that have arrived are     *)
(* taken, which may be any number of those on their way; a rank that may   *)
(* not execute its next event blocks until it has taken one.               *)
(***************************************************************************)
Blocks(r) == pc[r] = "loop" /\ events[r] # << >> /\ ~Safe(r)

SafeTime(g) == Min({MaxTime} \cup {g[s] : s \in DOMAIN g})

ReceiveMessage(r, s) ==
    /\ pc[r] = "receive" \/ Blocks(r)
    /\ channel[s][r] # << >>
    /\ LET m == Head(channel[s][r]) IN
        /\ events' = [events EXCEPT ![r] =
                IF m.rx > 0 THEN Insert(@, Event(m.rx, "receive", s)) ELSE @]
        /\ guarantee' = [guarantee EXCEPT ![r][s] = m.guarantee]
    /\ channel' = [channel EXCEPT ![s][r] = Tail(@)]
    /\ safe' = IF Blocks(r) THEN [safe EXCEPT ![r] = SafeTime(guarantee'[r])] ELSE safe
    /\ UNCHANGED <<pc, now, busy, sending, packets, local>>

(* A rank without neighbours does not wait for a message either. *)
NoMoreMessages(r) ==
    /\ pc[r] = "receive" \/ (Blocks(r) /\ Neighbours(r) = {})
    /\ safe' = [safe EXCEPT ![r] = SafeTime(guarantee[r])]
    /\ pc' = [pc EXCEPT ![r] = "loop"]
    /\ UNCHANGED <<now, events, guarantee, busy, sending, channel, packets, local>>

(* The list is never empty, a null message event being always in it, so    *)
(* only Stop ends the loop (IsFinished).                                   *)
Run(r) ==
    \/ ProcessOneEvent(r) \/ EndCallback(r)
    \/ \E l \in Links : \E tx \in l.tx : TransmitStart(r, l, tx)
    \/ \E delay \in LocalDelays : ScheduleLocal(r, delay)
    \/ NoMoreMessages(r)
    \/ \E s \in Neighbours(r) : ReceiveMessage(r, s)

Next == \E r \in Ranks : Run(r)

(* Every rank is a process of its own, and messages arrive. *)
Spec == Init /\ [][Next]_vars /\ \A r \in Ranks : WF_vars(Run(r))
-----------------------------------------------------------------------------
Arriving(r, s) == {channel[s][r][k] : k \in DOMAIN channel[s][r]}

(***************************************************************************)
(* A packet on one of two links between the same ranks does not arrive     *)
(* before the latest guarantee that a packet sent on the other at the same *)
(* time can carry.  A network with single links satisfies it.              *)
(***************************************************************************)
ParallelLinksFit ==
    \A l, m \in Links : l # m /\ l.from = m.from /\ l.to = m.to =>
        \A x \in l.tx, y \in m.tx : x + Delay(l.from, l.to) <= y + m.delay

(* "No message should arrive from task nodeSysId with a receive time less  *)
(* than the guarantee time" (null-message-simulator-impl.h): whatever the  *)
(* size of the packets and whatever else the callbacks schedule, no packet *)
(* falls short of a guarantee that was sent before it.                     *)
GuaranteeHonoured ==
    \A r \in Ranks : \A s \in Neighbours(r) : \A m \in Arriving(r, s) :
        m.rx > 0 => m.rx >= guarantee[r][s]

(* What ScheduleWithContext and ProcessOneEvent assert: no packet is under *)
(* way and no event listed that is behind the clock of its rank, although  *)
(* guarantees may be taken back and the safe time may go back with them.   *)
NeverBehind ==
    \A r \in Ranks :
        /\ \A k \in DOMAIN events[r] : events[r][k].ts >= now[r]
        /\ \A s \in Neighbours(r) : \A m \in Arriving(r, s) : m.rx > 0 => m.rx >= now[r]

(* The ranks do not wait for each other for ever: all of them reach the    *)
(* time at which Stop was scheduled, also those whose neighbours have      *)
(* stopped and send nothing more.                                          *)
AllRanksStop == <>(\A r \in Ranks : pc[r] = "stopped")
=============================================================================
