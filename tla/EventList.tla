------------------------------ MODULE EventList ------------------------------
(***************************************************************************)
(* The event list of the simulator as a program may set it up: a heap or a *)
(* calendar, exchanged for the other at any time between two events        *)
(* (DefaultSimulatorImpl::SetScheduler).                                   *)
(***************************************************************************)
EXTENDS Integers, Sequences, FiniteSets

CONSTANTS
    Delays,      \* the delays events are scheduled with
    MaxUid,      \* bound: events scheduled in a behaviour
    MaxEvents    \* bound: events in the list at one time

ASSUME EventListAssumption ==
    Delays \subseteq Nat /\ MaxUid \in Nat /\ MaxEvents \in Nat

VARIABLES
    kind,             \* m_events is a "heap" or a "calendar"
    heap, pc, index,  \* the heap
    cal,              \* the calendar
    removed, uid      \* as in Scheduler

vars == <<kind, heap, pc, index, cal, removed, uid>>

Heap == INSTANCE HeapScheduler

Calendar == INSTANCE CalendarScheduler

Events == IF kind = "heap" THEN Heap!Contents ELSE Calendar!AllEvents(cal)

List == INSTANCE Scheduler WITH events <- Events

Seqs == INSTANCE SequencesExt

Init == kind \in {"heap", "calendar"} /\ Heap!Init /\ Calendar!Init

(***************************************************************************)
(* The events are taken out one by one and inserted into the new list.     *)
(* They come in order, so that none rises in the heap.                     *)
(***************************************************************************)
Moved == Seqs!SetToSortSeq(Events, List!Before)

SetScheduler ==
    /\ pc = "idle"
    /\ \/ kind = "calendar" /\ kind' = "heap"
          /\ heap' = Moved
          /\ cal' = Calendar!DoInit([size |-> 0, reverse |-> FALSE], 2, 1, 0)
       \/ kind = "heap" /\ kind' = "calendar"
          /\ heap' = << >>
          /\ \E r \in BOOLEAN :
                cal' = Seqs!FoldLeft(Calendar!DoInsertAndResize,
                                     Calendar!DoInit([size |-> 0, reverse |-> r], 2, 1, 0), Moved)
    /\ UNCHANGED <<pc, index, removed, uid>>

(***************************************************************************)
(* The calls of the heap.  Remove fills the gap at k with the last event,  *)
(* which only moves down from there; RootIsEarliest of HeapScheduler fails *)
(* when it should have moved up, so that here the program does not remove  *)
(* such an event.                                                          *)
(***************************************************************************)
FillsInOrder(k) ==
    k \notin {1, Len(heap)} => ~List!Before(heap[Len(heap)], heap[Heap!Parent(k)])

HeapCalls ==
    \/ \E d \in Delays : Heap!Insert(d)
    \/ Heap!BottomUp \/ Heap!RemoveNext \/ Heap!TopDown
    \/ \E k \in DOMAIN heap : FillsInOrder(k) /\ Heap!Remove(k)

Next ==
    \/ kind = "heap" /\ HeapCalls /\ UNCHANGED <<kind, cal>>
    \/ kind = "calendar" /\ Calendar!Next /\ UNCHANGED <<kind, heap, pc, index>>
    \/ SetScheduler

Spec == Init /\ [][Next]_vars
-----------------------------------------------------------------------------
(* Whichever list is in use, and across the exchange, RemoveNext gives out *)
(* the earliest event of those inserted and not removed: through rounds of *)
(* the calendar, jumps over empty years, re-cuts of its buckets, and those *)
(* removals from the middle of the heap that fill the gap in order.        *)
ImplementsScheduler == List!Spec
=============================================================================
