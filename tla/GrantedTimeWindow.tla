-------------------------- MODULE GrantedTimeWindow --------------------------
(***************************************************************************)
(* Parallel simulation with a granted time window (src/mpi/model/          *)
(* distributed-simulator-impl.cc, granted-time-window-mpi-interface.cc):   *)
(* every rank runs its events up to its granted time and then takes part   *)
(* in an MPI_Allgather of next event times and message counts, from which  *)
(* every rank computes its next granted time.  No window is granted while  *)
(* a message is on its way, which the sums of the counts tell.             *)
(*                                                                         *)
(* Links are those of NullMessageSimulator.  A message is [link, rx, num], *)
(* the link it was sent on, the time at which it is to be received and the *)
(* number of those its rank sent before; it arrives after any time and in  *)
(* any order.  MPI_Allgather is one step of all ranks: a rank that leaves  *)
(* it late only takes its next step late.                                  *)
(***************************************************************************)
EXTENDS RankEvents

CONSTANTS
    SystemCount, \* m_systemCount: the ranks are 0 .. SystemCount - 1
    Links,       \* the links between them
    Sources,     \* the ranks that have an application
    StopTime,    \* ranks may call Simulator::Stop(StopTime)
    MaxPackets,  \* bound: packets sent
    MaxTime      \* GetMaximumSimulationTime

Ranks == 0 .. SystemCount - 1

ASSUME GrantedTimeWindowAssumption ==
    /\ SystemCount \in Nat
    /\ \A l \in Links : l.from \in Ranks /\ l.to \in Ranks \ {l.from}
    /\ \A l \in Links : \E m \in Links : m.from = l.to /\ m.to = l.from /\ m.delay = l.delay
    /\ \A l \in Links : l.delay \in Nat \ {0} /\ l.tx \in Nat \ {0}
    /\ Sources \subseteq Ranks /\ {StopTime, MaxPackets, MaxTime} \subseteq Nat

VARIABLES
    pc,         \* where Run is: "loop", "callback", "receive", "allgather" or "finished"
    now,        \* m_currentTs
    events,     \* m_events
    stop,       \* m_stop
    granted,    \* m_grantedTime
    lbts,       \* the LbtsMessage a rank gives to the Allgather
    rxCount,    \* g_rxCount
    txCount,    \* g_txCount
    busy,       \* the links whose device is BUSY
    sending,    \* the links the current callback may transmit on
    flight,     \* the messages on their way
    arrived     \* the messages whose MPI_Irecv is complete

vars == <<pc, now, events, stop, granted, lbts, rxCount, txCount,
          busy, sending, flight, arrived>>

OwnLinks(r) == {l \in Links : l.from = r}

(* CalculateLookAhead: the least delay of the rank's links; a rank without *)
(* links takes the greatest of the others'.  A rank alone needs none.      *)
LookAheadOfAll(r) == Max({l.delay : l \in Links} \cup {0})       \* mutant

LookAhead(r) ==
    LET own(q) == Min({l.delay : l \in OwnLinks(q)})
    IN  IF SystemCount <= 1 THEN 0
        ELSE IF OwnLinks(r) # {} THEN own(r)
        ELSE IF Links = {} THEN MaxTime
        ELSE Max({own(q) : q \in {p \in Ranks : OwnLinks(p) # {}}})

(* Run before the loop.  An application has its event at some time, and    *)
(* any of the ranks have the event of Stop.                                *)
Init ==
    /\ pc = [r \in Ranks |-> "loop"]
    /\ now = [r \in Ranks |-> 0]
    /\ \E at \in [Sources -> 0 .. StopTime], S \in SUBSET Ranks :
        events = [r \in Ranks |->
            (IF r \in Sources THEN << Event(at[r], "app", r) >> ELSE << >>)
            \o (IF r \in S THEN << Event(StopTime, "stop", r) >> ELSE << >>)]
    /\ stop = [r \in Ranks |-> FALSE]
    /\ granted = [r \in Ranks |-> LookAhead(r)]
    /\ lbts = [r \in Ranks |-> [rx |-> 0, tx |-> 0, finished |-> FALSE, time |-> 0]]
    /\ rxCount = [r \in Ranks |-> 0] /\ txCount = [r \in Ranks |-> 0]
    /\ busy = {} /\ sending = [r \in Ranks |-> {}] /\ flight = {} /\ arrived = {}

-----------------------------------------------------------------------------
IsLocalFinished(r) == events[r] = << >> \/ stop[r]

NextTs(r, list) == IF list = << >> \/ stop[r] THEN MaxTime ELSE Head(list).ts

(***************************************************************************)
(* ProcessOneEvent.  The callbacks of applications may transmit on every   *)
(* link whose device is READY, TransmitComplete on its own (point-to-      *)
(* point-net-device.cc); Stop only sets m_stop.                            *)
(***************************************************************************)
ProcessOneEvent(r) ==
    /\ pc[r] = "loop" /\ ~IsLocalFinished(r) /\ NextTs(r, events[r]) <= granted[r]
    /\ LET e == Head(events[r]) IN
        /\ now' = [now EXCEPT ![r] = e.ts]
        /\ stop' = [stop EXCEPT ![r] = e.kind = "stop"]
        /\ pc' = [pc EXCEPT ![r] = IF e.kind = "stop" THEN "loop" ELSE "callback"]
        /\ sending' = [sending EXCEPT ![r] =
                CASE e.kind \in {"app", "receive"} -> OwnLinks(r)
                  [] e.kind = "complete" -> {e.arg}
                  [] e.kind = "stop" -> {}]
        /\ busy' = busy \ (IF e.kind = "complete" THEN {e.arg} ELSE {})
    /\ events' = [events EXCEPT ![r] = Tail(@)]
    /\ UNCHANGED <<granted, lbts, rxCount, txCount, flight, arrived>>

(* The sum of the entries of f, rank after rank. *)
Total(f) ==
    LET sum[n \in 0 .. SystemCount] == IF n = 0 THEN 0 ELSE sum[n - 1] + f[n - 1]
    IN  sum[SystemCount]

Sent == Total(txCount)

(* PointToPointNetDevice::TransmitStart with                               *)
(* GrantedTimeWindowMpiInterface::SendPacket, which counts the message.    *)
TransmitStart(r, l) ==
    /\ pc[r] = "callback" /\ l \in sending[r] \ busy /\ Sent < MaxPackets
    /\ flight' = flight \cup {[link |-> l, rx |-> now[r] + l.tx + l.delay, num |-> txCount[r]]}
    /\ txCount' = [txCount EXCEPT ![r] = @ + 1]
    /\ busy' = busy \cup {l}
    /\ events' = [events EXCEPT ![r] = Insert(@, Event(now[r] + l.tx, "complete", l))]
    /\ UNCHANGED <<pc, now, stop, granted, lbts, rxCount, sending, arrived>>

EndCallback(r) ==
    /\ pc[r] = "callback"
    /\ pc' = [pc EXCEPT ![r] = "loop"]
    /\ sending' = [sending EXCEPT ![r] = {}]
    /\ UNCHANGED <<now, events, stop, granted, lbts, rxCount, txCount, busy, flight, arrived>>

Arrive(r) ==
    /\ \E m \in flight : m.link.to = r /\ flight' = flight \ {m} /\ arrived' = arrived \cup {m}
    /\ UNCHANGED <<pc, now, events, stop, granted, lbts, rxCount, txCount, busy, sending>>

(***************************************************************************)
(* A rank at the end of its window: ReceiveMessages takes the messages     *)
(* that have arrived, one by one, and then the rank joins the Allgather    *)
(* with its counts and its next event time.                                *)
(***************************************************************************)
Received(r) == {m \in arrived : m.link.to = r}

EndWindow(r) ==
    /\ pc[r] = "loop"
    /\ NextTs(r, events[r]) > granted[r] \/ IsLocalFinished(r)
    /\ pc' = [pc EXCEPT ![r] = "receive"]
    /\ UNCHANGED <<now, events, stop, granted, lbts, rxCount, txCount, busy, sending, flight,
                   arrived>>

ReceiveUncounted(r) ==                                           \* mutant
    /\ pc[r] = "receive"
    /\ \E m \in Received(r) :
        /\ events' = [events EXCEPT ![r] = Insert(@, Event(m.rx, "receive", r))]
        /\ arrived' = arrived \ {m}
    /\ UNCHANGED <<pc, now, stop, granted, lbts, rxCount, txCount, busy, sending, flight>>

ReceiveMessage(r) ==
    /\ pc[r] = "receive"
    /\ \E m \in Received(r) :
        /\ events' = [events EXCEPT ![r] = Insert(@, Event(m.rx, "receive", r))]
        /\ arrived' = arrived \ {m}
    /\ rxCount' = [rxCount EXCEPT ![r] = @ + 1]
    /\ UNCHANGED <<pc, now, stop, granted, lbts, txCount, busy, sending, flight>>

EnterAllgather(r) ==
    /\ pc[r] = "receive" /\ Received(r) = {}
    /\ lbts' = [lbts EXCEPT ![r] =
            [rx |-> rxCount[r], tx |-> txCount[r], finished |-> IsLocalFinished(r),
             time |-> NextTs(r, events[r])]]
    /\ pc' = [pc EXCEPT ![r] = "allgather"]
    /\ UNCHANGED <<now, events, stop, granted, rxCount, txCount, busy, sending, flight, arrived>>

(* The sums of the counts are equal: no message is on its way. *)
NoTransients ==
    Total([r \in Ranks |-> lbts[r].rx]) = Total([r \in Ranks |-> lbts[r].tx])

FinishedAnyway == \A r \in Ranks : lbts[r].finished              \* mutant

GlobalFinished == (\A r \in Ranks : lbts[r].finished) /\ NoTransients

Allgather ==
    /\ \A r \in Ranks : pc[r] = "allgather"
    /\ pc' = [r \in Ranks |-> IF GlobalFinished THEN "finished" ELSE "loop"]
    /\ granted' = [r \in Ranks |->
            IF ~NoTransients THEN granted[r]
            ELSE IF LookAhead(r) = MaxTime THEN MaxTime
            ELSE Min({lbts[q].time : q \in Ranks}) + LookAhead(r)]
    /\ UNCHANGED <<now, events, stop, lbts, rxCount, txCount, busy, sending, flight, arrived>>

Run(r) ==
    \/ ProcessOneEvent(r) \/ EndCallback(r)
    \/ \E l \in Links : TransmitStart(r, l)
    \/ EndWindow(r) \/ ReceiveMessage(r) \/ EnterAllgather(r)

Next == (\E r \in Ranks : Run(r) \/ Arrive(r)) \/ Allgather

(* Every rank is a process of its own, MPI delivers every message and      *)
(* completes the collective operation that all ranks have entered.         *)
Spec ==
    /\ Init /\ [][Next]_vars
    /\ \A r \in Ranks : WF_vars(Run(r)) /\ WF_vars(Arrive(r))
    /\ WF_vars(Allgather)
-----------------------------------------------------------------------------
(* No rank runs past a packet that is still to be received: the window     *)
(* granted to a rank ends before anything can reach it over its links,     *)
(* whatever the look-ahead of the others and however late MPI delivers.    *)
NothingInThePast ==
    \A m \in flight \cup arrived : m.rx >= now[m.link.to]

(* "Global halting condition is all nodes have empty queue's and no        *)
(* messages are in-flight" (distributed-simulator-impl.cc), a rank on      *)
(* which Stop was called counting as empty.                                *)
HaltsWhenDone ==
    (\E r \in Ranks : pc[r] = "finished") =>
        flight \cup arrived = {} /\ \A r \in Ranks : IsLocalFinished(r)

(* All ranks leave Run, also when some have nothing to do, some have been  *)
(* stopped, and the others still send to them.                             *)
AllRanksFinish == <>(\A r \in Ranks : pc[r] = "finished")
=============================================================================
