--------------------------- MODULE HeapScheduler ---------------------------
(***************************************************************************)
(* The event list as a binary heap in an array                             *)
(* (src/core/model/heap-scheduler.cc).  m_heap[0] is not used, so heap is  *)
(* m_heap from 1 on.  A call is one step that changes the array followed   *)
(* by the exchanges of BottomUp or TopDown, one step each; the caller sees *)
(* the array only between calls, when pc = "idle".                         *)
(***************************************************************************)
EXTENDS Integers, Sequences

CONSTANTS
    Delays,      \* the delays events are scheduled with
    MaxUid,      \* bound: events scheduled in a behaviour
    MaxEvents    \* bound: events in the list at one time

VARIABLES
    heap,        \* m_heap
    removed,     \* the event RemoveNext returned last
    uid,         \* the uid of the next event
    pc,          \* "idle", or in the loop of BottomUp ("up") or TopDown ("down")
    index        \* the position the loop has reached

vars == <<heap, removed, uid, pc, index>>

Contents == {heap[k] : k \in DOMAIN heap}

List == INSTANCE Scheduler WITH events <- Contents

-----------------------------------------------------------------------------
Parent(id) == id \div 2
LeftChild(id) == id * 2
RightChild(id) == id * 2 + 1
Last == Len(heap)
IsBottom(id) == id > Last

IsLessStrictly(a, b) == List!Before(heap[a], heap[b])

Smallest(a, b) == IF IsLessStrictly(a, b) THEN a ELSE b

Exch(h, a, b) == [h EXCEPT ![a] = h[b], ![b] = h[a]]

(* Exch(id, Last()) and pop_back. *)
Drop(id) == SubSeq(Exch(heap, id, Last), 1, Last - 1)

Init ==
    /\ heap = << >> /\ removed = List!NoEvent /\ uid = 1
    /\ pc = "idle" /\ index = 1

-----------------------------------------------------------------------------
Insert(delay) ==
    /\ pc = "idle" /\ uid <= MaxUid /\ Last < MaxEvents
    /\ heap' = Append(heap, List!NewEvent(delay))
    /\ uid' = uid + 1
    /\ pc' = "up" /\ index' = Last + 1
    /\ UNCHANGED removed

Rises == index # 1 /\ IsLessStrictly(index, Parent(index))

BottomUp ==
    /\ pc = "up"
    /\ IF Rises
       THEN /\ heap' = Exch(heap, index, Parent(index))
            /\ index' = Parent(index)
            /\ UNCHANGED pc
       ELSE /\ pc' = "idle" /\ index' = 1
            /\ UNCHANGED heap
    /\ UNCHANGED <<removed, uid>>

RemoveNext ==
    /\ pc = "idle" /\ heap # << >>
    /\ removed' = heap[1]
    /\ heap' = Drop(1)
    /\ pc' = "down" /\ index' = 1
    /\ UNCHANGED uid

(* The search for the uid ends at position k: no other event has it. *)
Remove(k) ==
    /\ pc = "idle"
    /\ heap' = Drop(k)
    /\ pc' = "down" /\ index' = k
    /\ UNCHANGED <<removed, uid>>

(* Mutant: the loop looks at the left child only. *)
LeftChildOnly == LeftChild(index)

(* The child to exchange with: the last level may hold a left child only. *)
SmallestChild ==
    IF IsBottom(RightChild(index)) THEN LeftChild(index)
    ELSE Smallest(LeftChild(index), RightChild(index))

Sinks ==
    /\ ~IsBottom(LeftChild(index))
    /\ ~IsLessStrictly(index, SmallestChild)

TopDown ==
    /\ pc = "down"
    /\ IF Sinks
       THEN /\ heap' = Exch(heap, index, SmallestChild)
            /\ index' = SmallestChild
            /\ UNCHANGED pc
       ELSE /\ pc' = "idle" /\ index' = 1
            /\ UNCHANGED heap
    /\ UNCHANGED <<removed, uid>>

Next ==
    \/ \E d \in Delays : Insert(d)
    \/ BottomUp
    \/ RemoveNext
    \/ \E k \in DOMAIN heap : Remove(k)
    \/ TopDown

Spec == Init /\ [][Next]_vars
-----------------------------------------------------------------------------
(* "Remove the earliest event from the event list" (scheduler.h): between  *)
(* two calls, after any inserts, removals from the top and from the        *)
(* middle, the root is the event RemoveNext has to give out.               *)
RootIsEarliest == pc = "idle" /\ heap # << >> => heap[1] = List!Earliest(Contents)
=============================================================================
