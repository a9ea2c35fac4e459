----------------------------- MODULE Scheduler -----------------------------
(***************************************************************************)
(* The event list of the simulator: Insert, RemoveNext and Remove as       *)
(* MapScheduler, the default, implements them on a std::map from key to    *)
(* event (src/core/model/map-scheduler.cc).  HeapScheduler and             *)
(* CalendarScheduler are shown to implement this module.                   *)
(*                                                                         *)
(* An event is its key [ts, uid].  The callers give every event the next   *)
(* uid and never a time before that of the event they removed last         *)
(* (Simulator::Schedule takes a delay).                                    *)
(***************************************************************************)
EXTENDS Integers, FiniteSets

CONSTANTS
    Delays,      \* the delays events are scheduled with
    MaxUid,      \* bound: events scheduled in a behaviour
    MaxEvents    \* bound: events in the list at one time

VARIABLES
    events,      \* m_list
    removed,     \* the event RemoveNext returned last
    uid          \* the uid of the next event

vars == <<events, removed, uid>>

Event == [ts : Nat, uid : Nat]

NoEvent == [ts |-> 0, uid |-> 0]   \* before the first RemoveNext

(* operator< of Scheduler::EventKey: by time, then in order of scheduling. *)
Before(a, b) == a.ts < b.ts \/ (a.ts = b.ts /\ a.uid < b.uid)

Earliest(S) == CHOOSE e \in S : \A f \in S \ {e} : Before(e, f)

NewEvent(delay) == [ts |-> removed.ts + delay, uid |-> uid]

Init == events = {} /\ removed = NoEvent /\ uid = 1

Insert(delay) ==
    /\ uid <= MaxUid /\ Cardinality(events) < MaxEvents
    /\ events' = events \cup {NewEvent(delay)}
    /\ uid' = uid + 1
    /\ UNCHANGED removed

RemoveNext ==
    /\ events # {}
    /\ removed' = Earliest(events)
    /\ events' = events \ {removed'}
    /\ UNCHANGED uid

Remove(e) ==
    /\ e \in events
    /\ events' = events \ {e}
    /\ UNCHANGED <<removed, uid>>

Next ==
    \/ \E d \in Delays : Insert(d)
    \/ RemoveNext
    \/ \E e \in events : Remove(e)

Spec == Init /\ [][Next]_vars
=============================================================================
