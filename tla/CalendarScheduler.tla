------------------------- MODULE CalendarScheduler -------------------------
(***************************************************************************)
(* The event list as a calendar: an array of sorted buckets, each for a    *)
(* slice of time of the same width, used round and round like the days of  *)
(* a year, and re-cut when it becomes too full or too empty                *)
(* (src/core/model/calendar-scheduler.cc).                                 *)
(*                                                                         *)
(* The fields of the object are the record cal: size is m_qSize, top is    *)
(* m_bucketTop, last and prio are m_lastBucket and m_lastPrio, n and width *)
(* are m_nBuckets and m_width, buckets is m_buckets from 0 on.             *)
(***************************************************************************)
EXTENDS Integers, Sequences, FiniteSets

CONSTANTS
    Delays,      \* the delays events are scheduled with
    MaxUid,      \* bound: events scheduled in a behaviour
    MaxEvents    \* bound: events in the list at one time

VARIABLES
    cal,         \* the calendar
    removed,     \* the event RemoveNext returned last
    uid          \* the uid of the next event

vars == <<cal, removed, uid>>

Seqs == INSTANCE SequencesExt

AllEvents(c) == UNION {{c.buckets[b][k] : k \in DOMAIN c.buckets[b]} : b \in 0 .. c.n - 1}

List == INSTANCE Scheduler WITH events <- AllEvents(cal)

-----------------------------------------------------------------------------
(***************************************************************************)
(* SetReverse: whether the buckets are kept in rising or falling order.    *)
(***************************************************************************)
NextEvent(c, b) ==
    IF c.reverse THEN c.buckets[b][Len(c.buckets[b])] ELSE Head(c.buckets[b])

Order(c, a, b) == IF c.reverse THEN List!Before(b, a) ELSE List!Before(a, b)

Pop(c, b) == IF c.reverse THEN Seqs!Front(c.buckets[b]) ELSE Tail(c.buckets[b])

Hash(c, ts) == (ts \div c.width) % c.n

DoInit(c, n, width, start) ==
    [buckets |-> [b \in 0 .. n - 1 |-> << >>], n |-> n, width |-> width,
     prio |-> start, last |-> (start \div width) % n,
     top |-> (start \div width + 1) * width,
     size |-> c.size, reverse |-> c.reverse]

(* The event goes in front of the first one that comes after it. *)
DoInsert(c, e) ==
    LET b     == c.buckets[Hash(c, e.ts)]
        after == {k \in DOMAIN b : Order(c, e, b[k])}
        place == IF after = {} THEN Len(b) + 1
                 ELSE CHOOSE k \in after : \A m \in after : k <= m
    IN  [c EXCEPT !.buckets[Hash(c, e.ts)] = Seqs!InsertAt(b, place, e)]

(***************************************************************************)
(* One round over the buckets from the current one.  The k-th bucket is    *)
(* due when its first event falls into the slice the round has reached.    *)
(***************************************************************************)
BucketAt(c, k) == (c.last + k) % c.n

TopAt(c, k) == c.top + k * c.width

Filled(c) == {k \in 0 .. c.n - 1 : c.buckets[BucketAt(c, k)] # << >>}

Due(c) == {k \in Filled(c) : NextEvent(c, BucketAt(c, k)).ts < TopAt(c, k)}

First(S) == CHOOSE k \in S : \A m \in S : k <= m

(* With no bucket due in a whole round, the earliest of their first events *)
EarliestBucket(c) ==
    BucketAt(c, CHOOSE k \in Filled(c) :
        \A m \in Filled(c) \ {k} :
            List!Before(NextEvent(c, BucketAt(c, k)), NextEvent(c, BucketAt(c, m))))

DoRemoveNext(c) ==
    IF Due(c) # {}
    THEN LET k == First(Due(c))
             b == BucketAt(c, k)
         IN  [event |-> NextEvent(c, b),
              cal |-> [c EXCEPT !.last = b, !.prio = NextEvent(c, b).ts,
                                !.top = TopAt(c, k), !.buckets[b] = Pop(c, b)]]
    ELSE LET b  == EarliestBucket(c)
             ts == NextEvent(c, b).ts
         IN  [event |-> NextEvent(c, b),
              cal |-> [c EXCEPT !.prio = ts, !.last = Hash(c, ts),
                                !.top = (ts \div c.width + 1) * c.width,
                                !.buckets[b] = Pop(c, b)]]

-----------------------------------------------------------------------------
(***************************************************************************)
(* CalculateNewWidth takes events out, puts them back and restores the     *)
(* position: it returns the width and the buckets it leaves.               *)
(***************************************************************************)
NSamples(size) ==
    LET wanted == IF size <= 5 THEN size ELSE 5 + size \div 10
    IN  IF wanted > 25 THEN 25 ELSE wanted

(* The calendar after k removals and the events removed. *)
Sampled(c, count) ==
    LET S[k \in Nat] ==
            IF k = 0 THEN [cal |-> c, samples |-> << >>]
            ELSE LET r == DoRemoveNext(S[k - 1].cal)
                 IN  [cal |-> r.cal, samples |-> Append(S[k - 1].samples, r.event)]
    IN  S[count]

Sum(s) == Seqs!FoldLeft(LAMBDA x, y : x + y, 0, s)

InsertAll(c, s) == Seqs!FoldLeft(DoInsert, c, s)

WidthOf(samples) ==
    LET gaps     == [k \in 1 .. Len(samples) - 1 |-> samples[k + 1].ts - samples[k].ts]
        twiceAvg == (Sum(gaps) \div (Len(samples) - 1)) * 2
        total    == 3 * Sum(SelectSeq(gaps, LAMBDA g : g <= twiceAvg))
    IN  IF total > 1 THEN total ELSE 1

Resize(c, n) ==
    LET s     == Sampled(c, NSamples(c.size))
        width == IF c.size < 2 THEN 1 ELSE WidthOf(s.samples)
        old   == IF c.size < 2 THEN c ELSE InsertAll(s.cal, s.samples)
    IN  InsertAll(DoInit(c, n, width, c.prio),
                  Seqs!FlattenSeq([b \in 1 .. c.n |-> old.buckets[b - 1]]))

MaxBuckets == 32768

ResizeUp(c) == IF c.size > c.n * 2 /\ c.n < MaxBuckets THEN Resize(c, c.n * 2) ELSE c

ResizeDown(c) == IF c.size < c.n \div 2 THEN Resize(c, c.n \div 2) ELSE c

-----------------------------------------------------------------------------
Init ==
    /\ \E r \in BOOLEAN : cal = DoInit([size |-> 0, reverse |-> r], 2, 1, 0)
    /\ removed = List!NoEvent /\ uid = 1

DoInsertAndResize(c, e) == ResizeUp([DoInsert(c, e) EXCEPT !.size = @ + 1])

Insert(delay) ==
    /\ uid <= MaxUid /\ cal.size < MaxEvents
    /\ cal' = DoInsertAndResize(cal, List!NewEvent(delay))
    /\ uid' = uid + 1
    /\ UNCHANGED removed

RemoveNext ==
    /\ cal.size # 0
    /\ LET r == DoRemoveNext(cal) IN
        /\ removed' = r.event
        /\ cal' = ResizeDown([r.cal EXCEPT !.size = @ - 1])
    /\ UNCHANGED uid

(* The event is looked for in the bucket its time belongs to. *)
Remove(e) ==
    /\ cal.size # 0
    /\ LET b == Hash(cal, e.ts) IN
        cal' = ResizeDown([cal EXCEPT !.size = @ - 1,
                    !.buckets[b] = SelectSeq(@, LAMBDA f : f.uid # e.uid)])
    /\ UNCHANGED <<removed, uid>>

Next ==
    \/ \E d \in Delays : Insert(d)
    \/ RemoveNext
    \/ \E e \in AllEvents(cal) : Remove(e)

Spec == Init /\ [][Next]_vars
=============================================================================
