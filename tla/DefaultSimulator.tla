-------------------------- MODULE DefaultSimulator --------------------------
(***************************************************************************)
(* The event loop (src/core/model/default-simulator-impl.cc): one main     *)
(* thread that schedules, cancels, removes and runs events, and any number *)
(* of other threads that hand it events through ScheduleWithContext.       *)
(*                                                                         *)
(* An event is [ts, uid, impl]: its key and the EventImpl behind it.  Uids *)
(* are uint32_t and wrap at UidModulus.  The event list is the set of      *)
(* Scheduler.  Callbacks run with pc = "event" and may call every          *)
(* operation of the main thread, which the program may also do between     *)
(* runs.  The other threads' access to the list of foreign events is one   *)
(* step, the critical section of its mutex; the flag is read by the main   *)
(* thread without the mutex, in a step of its own.                         *)
(***************************************************************************)
EXTENDS Integers, Sequences, FiniteSets

CONSTANTS
    Delays,        \* the delays events are scheduled with
    MaxSchedules,  \* bound: events scheduled by the main thread
    MaxPosts,      \* bound: events scheduled by other threads
    UidModulus     \* 2^32: uids are uint32_t

INVALID == 0
DESTROY == 2
VALID == 4

ASSUME DefaultSimulatorAssumption ==
    /\ Delays \subseteq Nat /\ MaxSchedules \in Nat /\ MaxPosts \in Nat
    /\ UidModulus \in Nat /\ UidModulus > VALID

VARIABLES
    pc,           \* where the main thread is
    events,       \* m_events
    destroy,      \* m_destroyEvents
    cancelled,    \* the EventImpls with m_cancel set
    ran,          \* the EventImpls that have started to execute
    impls,        \* EventImpls created so far
    now, current, \* m_currentTs, m_currentUid
    uid,          \* m_uid
    unscheduled,  \* m_unscheduledEvents
    stop,         \* m_stop
    posted,       \* m_eventsWithContext: delays and EventImpls
    empty,        \* m_eventsWithContextEmpty
    moving,       \* the list ProcessEventsWithContext has taken over
    posts,        \* calls of ScheduleWithContext by other threads so far
    ids           \* the EventIds handed out

vars == <<pc, events, destroy, cancelled, ran, impls, now, current, uid,
          unscheduled, stop, posted, empty, moving, posts, ids>>

foreign == <<posted, empty, posts>>
clock == <<now, current>>

List == INSTANCE Scheduler
            WITH removed <- [ts |-> now, uid |-> current], MaxUid <- 0, MaxEvents <- 0

Init ==
    /\ pc = "outside" /\ events = {} /\ destroy = << >>
    /\ cancelled = {} /\ ran = {} /\ impls = 0
    /\ now = 0 /\ current = INVALID /\ uid = VALID
    /\ unscheduled = 0 /\ stop = FALSE
    /\ posted = << >> /\ empty = TRUE /\ moving = << >> /\ posts = 0
    /\ ids = {}

-----------------------------------------------------------------------------
(***************************************************************************)
(* Operations of the main thread, called by the program or by the callback *)
(* of the current event.                                                   *)
(***************************************************************************)
MainThreadCalls == pc \in {"outside", "event", "destroying"}

NextUid == (uid + 1) % UidModulus

NewEvent(delay, impl) == [ts |-> now + delay, uid |-> uid, impl |-> impl]

(* Also ScheduleNow, ScheduleWithContext by the main thread, and Stop with *)
(* a delay, which schedules a call of Stop.                                *)
Schedule(delay) ==
    /\ MainThreadCalls /\ impls < MaxSchedules + posts
    /\ impls' = impls + 1
    /\ events' = events \cup {NewEvent(delay, impls')}
    /\ ids' = ids \cup {NewEvent(delay, impls')}
    /\ uid' = NextUid
    /\ unscheduled' = unscheduled + 1
    /\ UNCHANGED <<pc, destroy, cancelled, ran, clock, stop, foreign, moving>>

ScheduleDestroy ==
    /\ MainThreadCalls /\ impls < MaxSchedules + posts
    /\ impls' = impls + 1
    /\ LET id == [ts |-> now, uid |-> DESTROY, impl |-> impls'] IN
        destroy' = Append(destroy, id) /\ ids' = ids \cup {id}
    /\ uid' = NextUid
    /\ UNCHANGED <<pc, events, cancelled, ran, clock, unscheduled, stop, foreign, moving>>

InDestroyList(id) == \E k \in DOMAIN destroy : destroy[k] = id

(* Mutant: the current event does not count as expired. *)
IsExpiredBefore(id) ==
    \/ id.impl \in cancelled
    \/ IF id.uid = DESTROY THEN ~InDestroyList(id)
       ELSE id.ts < now \/ (id.ts = now /\ id.uid < current)

IsExpired(id) ==
    \/ id.impl \in cancelled
    \/ IF id.uid = DESTROY THEN ~InDestroyList(id)
       ELSE id.ts < now \/ (id.ts = now /\ id.uid <= current)

Cancel(id) ==
    /\ MainThreadCalls /\ ~IsExpired(id)
    /\ cancelled' = cancelled \cup {id.impl}
    /\ UNCHANGED <<pc, events, destroy, ran, impls, clock, uid, unscheduled, stop,
                   foreign, moving, ids>>

Erase(s, k) == SubSeq(s, 1, k - 1) \o SubSeq(s, k + 1, Len(s))

(* Remove of a destroy event: the first with the id is erased. *)
RemoveDestroy(id) ==
    /\ MainThreadCalls /\ id.uid = DESTROY
    /\ \E k \in DOMAIN destroy :
        /\ destroy[k] = id /\ \A j \in 1 .. k - 1 : destroy[j] # id
        /\ destroy' = Erase(destroy, k)
    /\ UNCHANGED <<pc, events, cancelled, ran, impls, clock, uid, unscheduled, stop,
                   foreign, moving, ids>>

(* Mutant: the event is taken out of the list but not marked. *)
RemoveUnmarked(id) ==
    /\ MainThreadCalls /\ id.uid # DESTROY /\ ~IsExpired(id)
    /\ events' = {e \in events : e.uid # id.uid}
    /\ unscheduled' = unscheduled - 1
    /\ UNCHANGED <<pc, destroy, cancelled, ran, impls, clock, uid, stop, foreign, moving, ids>>

Remove(id) ==
    /\ MainThreadCalls /\ id.uid # DESTROY /\ ~IsExpired(id)
    /\ events' = {e \in events : e.uid # id.uid}
    /\ cancelled' = cancelled \cup {id.impl}
    /\ unscheduled' = unscheduled - 1
    /\ UNCHANGED <<pc, destroy, ran, impls, clock, uid, stop, foreign, moving, ids>>

Stop ==
    /\ MainThreadCalls /\ ~stop
    /\ stop' = TRUE
    /\ UNCHANGED <<pc, events, destroy, cancelled, ran, impls, clock, uid, unscheduled,
                   foreign, moving, ids>>

-----------------------------------------------------------------------------
(* Mutant: the flag is left as it is. *)
PostUnflagged(delay) ==
    /\ pc # "gone" /\ posts < MaxPosts
    /\ impls' = impls + 1 /\ posts' = posts + 1
    /\ posted' = Append(posted, [delay |-> delay, impl |-> impls'])
    /\ UNCHANGED <<pc, events, destroy, cancelled, ran, clock, uid, unscheduled, stop,
                   empty, moving, ids>>

(* ScheduleWithContext by another thread. *)
Post(delay) ==
    /\ pc # "gone" /\ posts < MaxPosts
    /\ impls' = impls + 1 /\ posts' = posts + 1
    /\ posted' = Append(posted, [delay |-> delay, impl |-> impls'])
    /\ empty' = FALSE
    /\ UNCHANGED <<pc, events, destroy, cancelled, ran, clock, uid, unscheduled, stop,
                   moving, ids>>

-----------------------------------------------------------------------------
(***************************************************************************)
(* Run, with ProcessEventsWithContext before the loop and after each event *)
(* ("flush": the flag is read; "swap": the mutex is awaited; "move": the   *)
(* events are inserted).                                                   *)
(***************************************************************************)
Run ==
    /\ pc = "outside"
    /\ pc' = "flush" /\ stop' = FALSE
    /\ UNCHANGED <<events, destroy, cancelled, ran, impls, clock, uid, unscheduled,
                   foreign, moving, ids>>

ReadFlag ==
    /\ pc = "flush"
    /\ pc' = IF empty THEN "loop" ELSE "swap"
    /\ UNCHANGED <<events, destroy, cancelled, ran, impls, clock, uid, unscheduled, stop,
                   foreign, moving, ids>>

SwapQueues ==
    /\ pc = "swap"
    /\ pc' = "move"
    /\ moving' = posted /\ posted' = << >> /\ empty' = TRUE
    /\ UNCHANGED <<events, destroy, cancelled, ran, impls, clock, uid, unscheduled, stop,
                   posts, ids>>

(* Mutant: the time of the event is its delay. *)
MoveAbsolute ==
    /\ pc = "move" /\ moving # << >>
    /\ events' = events \cup {[ts |-> Head(moving).delay, uid |-> uid, impl |-> Head(moving).impl]}
    /\ moving' = Tail(moving)
    /\ uid' = NextUid
    /\ unscheduled' = unscheduled + 1
    /\ UNCHANGED <<pc, destroy, cancelled, ran, impls, clock, stop, foreign, ids>>

(* The delay counts from the time of the move, not of the call. *)
MoveEvent ==
    /\ pc = "move" /\ moving # << >>
    /\ events' = events \cup {NewEvent(Head(moving).delay, Head(moving).impl)}
    /\ moving' = Tail(moving)
    /\ uid' = NextUid
    /\ unscheduled' = unscheduled + 1
    /\ UNCHANGED <<pc, destroy, cancelled, ran, impls, clock, stop, foreign, ids>>

MovedAll ==
    /\ pc = "move" /\ moving = << >>
    /\ pc' = "loop"
    /\ UNCHANGED <<events, destroy, cancelled, ran, impls, clock, uid, unscheduled, stop,
                   foreign, moving, ids>>

(* ProcessOneEvent: a cancelled event is taken out but not run. *)
ProcessOneEvent ==
    /\ pc = "loop" /\ events # {} /\ ~stop
    /\ LET next == List!Earliest(events) IN
        /\ events' = events \ {next}
        /\ now' = next.ts /\ current' = next.uid
        /\ IF next.impl \in cancelled
           THEN pc' = "flush" /\ UNCHANGED ran
           ELSE pc' = "event" /\ ran' = ran \cup {next.impl}
    /\ unscheduled' = unscheduled - 1
    /\ UNCHANGED <<destroy, cancelled, impls, uid, stop, foreign, moving, ids>>

(* The callback returns. *)
EndEvent ==
    /\ pc = "event"
    /\ pc' = "flush"
    /\ UNCHANGED <<events, destroy, cancelled, ran, impls, clock, uid, unscheduled, stop,
                   foreign, moving, ids>>

RunReturns ==
    /\ pc = "loop" /\ (events = {} \/ stop)
    /\ pc' = "outside"
    /\ UNCHANGED <<events, destroy, cancelled, ran, impls, clock, uid, unscheduled, stop,
                   foreign, moving, ids>>

(***************************************************************************)
(* Simulator::Destroy: the destroy events in order, then the object goes   *)
(* away with everything that is still scheduled.                           *)
(***************************************************************************)
DestroyNext ==
    /\ pc \in {"outside", "destroying"} /\ destroy # << >>
    /\ pc' = "destroying"
    /\ destroy' = Tail(destroy)
    /\ ran' = ran \cup ({Head(destroy).impl} \ cancelled)
    /\ UNCHANGED <<events, cancelled, impls, clock, uid, unscheduled, stop, foreign,
                   moving, ids>>

DoDispose ==
    /\ pc \in {"outside", "destroying"} /\ destroy = << >>
    /\ pc' = "gone"
    /\ events' = {} /\ posted' = << >> /\ empty' = TRUE
    /\ UNCHANGED <<destroy, cancelled, ran, impls, clock, uid, unscheduled, stop,
                   moving, posts, ids>>

Loop ==
    \/ ReadFlag \/ SwapQueues \/ MoveEvent \/ MovedAll
    \/ ProcessOneEvent \/ EndEvent \/ RunReturns

Next ==
    \/ \E d \in Delays : Schedule(d) \/ Post(d)
    \/ ScheduleDestroy
    \/ \E id \in ids : Cancel(id) \/ Remove(id) \/ RemoveDestroy(id)
    \/ Stop \/ Run \/ Loop
    \/ DestroyNext \/ DoDispose

(* The main thread goes on while Run has not returned, callbacks return. *)
Spec == Init /\ [][Next]_vars /\ WF_vars(Loop)
-----------------------------------------------------------------------------
(* "Check if an event has already run or been cancelled" (simulator.h):    *)
(* IsExpired decides it by comparing the times and uids of the event and   *)
(* of the current one, without looking at the event list.                  *)
ExpiredMeansRunOrCancelled ==
    pc # "gone" =>
        \A id \in ids :
            id.uid # DESTROY => (IsExpired(id) <=> id.impl \in ran \cup cancelled)

(* Time does not go back: no event in the list is before the current one,  *)
(* whoever scheduled it and however late it was taken over from another    *)
(* thread (ProcessOneEvent asserts it of the next event).                  *)
NoEventInThePast ==
    \A e \in events : List!Before([ts |-> now, uid |-> current], e)

(* "a consistency test to check that we didn't lose any events along the   *)
(* way" (Run): m_unscheduledEvents counts the events in the list.          *)
NoEventLost == pc # "gone" => unscheduled = Cardinality(events)

(* An event that another thread hands over while a callback executes runs  *)
(* in the same call of Run, unless something stops it: the loop looks at   *)
(* the flag, which it reads without the mutex, after every callback and    *)
(* before it decides whether there is anything left to do.                 *)
PostsAreRun ==
    \A k \in 1 .. MaxSchedules + MaxPosts :
        (pc = "event" /\ \E i \in DOMAIN posted : posted[i].impl = k) ~> (k \in ran \/ stop)
=============================================================================
