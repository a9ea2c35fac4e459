--------------------- MODULE NullMessageSimulatorProofs ---------------------
(***************************************************************************)
(* Null messages keep the ranks in step, for any number of ranks and links *)
(* of any delay, packets of any size and events that callbacks schedule,   *)
(* with one condition on links that are parallel: ParallelLinksFit.        *)
(***************************************************************************)
EXTENDS NullMessageSimulator, SequenceTheorems, WellFoundedInduction, NaturalsInduction, TLAPS

-----------------------------------------------------------------------------
Events == [ts : Nat, kind : {"app", "stop", "null", "complete", "cancelled", "receive"},
           arg : Ranks \cup Links]

Messages == [rx : Nat, guarantee : Nat]

FunctionOn(f, S) == f = [x \in S |-> f[x]]

TypeOK ==
    /\ pc \in [Ranks -> {"loop", "callback", "receive", "stopped"}]
    /\ now \in [Ranks -> Nat] /\ safe \in [Ranks -> Nat]
    /\ events \in [Ranks -> Seq(Events)]
    /\ sending \in [Ranks -> SUBSET Links]
    /\ FunctionOn(guarantee, Ranks) /\ FunctionOn(channel, Ranks)
    /\ \A r \in Ranks : /\ guarantee[r] \in [Neighbours(r) -> Nat]
                        /\ channel[r] \in [Neighbours(r) -> Seq(Messages)]
                        /\ \A l \in sending[r] : l.from = r

(* The events in a list. *)
Members(list) == {list[k] : k \in 1 .. Len(list)}

Sorted(list) == \A j, k \in 1 .. Len(list) : j < k => list[j].ts <= list[k].ts

(* The null message event and TransmitComplete are about links of the rank. *)
OfRank(e, r) ==
    /\ e.kind = "null" => e.arg \in Neighbours(r)
    /\ e.kind = "complete" => e.arg \in Links /\ e.arg.from = r

(* The list of rank r at time t. *)
ListOfRank(list, r, t) == Sorted(list) /\ \A e \in Members(list) : t <= e.ts /\ OfRank(e, r)

Lists == \A r \in Ranks : ListOfRank(events[r], r, now[r])

(***************************************************************************)
(* A guarantee may be taken back by a later one, so the invariant is about *)
(* the greatest that there has been: promised[r][s] that r has given to s, *)
(* whether or not it has arrived, and reached[r], the greatest safe time   *)
(* that r has had.                                                         *)
(***************************************************************************)
History == [Ranks -> [Ranks -> Nat]]

(* A channel to a receiver whose guarantee is g and that has reached c,    *)
(* when the sender has promised b.                                         *)
Carries(ch, g, b, c) ==
    /\ g <= b /\ c <= b
    /\ \A k \in 1 .. Len(ch) :
        /\ ch[k].guarantee <= b
        /\ ch[k].rx > 0 => /\ g <= ch[k].rx /\ c <= ch[k].rx
                           /\ \A j \in 1 .. k - 1 : ch[j].guarantee <= ch[k].rx

Channels(promised, reached) ==
    \A r \in Ranks : \A s \in Neighbours(r) :
        /\ Carries(channel[r][s], guarantee[s][r], promised[r][s], reached[s])
        /\ promised[r][s] <= reached[r] + Delay(r, s)

Clocks(reached) == \A r \in Ranks : now[r] <= reached[r] /\ safe[r] <= reached[r]

CallsBack(e) == e.kind \in {"app", "receive", "complete"}

(* No packet that link l may still be given arrives before b: one that it  *)
(* is given at TransmitComplete when it is busy, or in any callback when   *)
(* it is not, also in the current one at time t.                           *)
Keeps(l, b, list, t, inCallback, isBusy) ==
    \A y \in l.tx :
        /\ \A e \in Members(list) :
            IF isBusy THEN e.kind = "complete" /\ e.arg = l => b <= e.ts + y + l.delay
                      ELSE CallsBack(e) => b <= e.ts + y + l.delay
        /\ inCallback /\ ~isBusy => b <= t + y + l.delay

KeepsOf(l, promised) ==
    Keeps(l, promised[l.from][l.to], events[l.from], now[l.from],
          pc[l.from] = "callback", l \in busy)

Bounds(promised, reached) ==
    /\ Channels(promised, reached) /\ Clocks(reached)
    /\ \A l \in Links : KeepsOf(l, promised)

IInv ==
    /\ TypeOK /\ Lists
    /\ \E promised \in History, reached \in [Ranks -> Nat] : Bounds(promised, reached)


(***************************************************************************)
(* The operators the actions are built from.                               *)
(***************************************************************************)
(* A set of naturals that is not empty has a smallest element. *)
LEMMA SmallestOf ==
    ASSUME NEW A \in SUBSET Nat, A # {}
    PROVE  \E m \in A : \A x \in A : m <= x
<1>1. PICK m \in A : \A x \in A : <<x, m>> \notin OpToRel(<, Nat)
  BY WFMin, NatLessThanWellFounded
<1>2. \A x \in A : ~(x < m)
  BY <1>1 DEF OpToRel
<1> QED BY <1>2

(* It is what Min returns. *)
LEMMA MinOf ==
    ASSUME NEW A \in SUBSET Nat, A # {}
    PROVE  Min(A) \in A /\ \A x \in A : Min(A) <= x
<1>1. \E m \in A : \A x \in A : m <= x
  BY SmallestOf
<1> QED BY <1>1 DEF Min

(* The ranks and links are as NullMessageAssumption says. *)
LEMMA LinkTypes ==
    /\ Ranks \subseteq Nat /\ SystemCount \in Nat /\ StopTime \in Nat /\ MaxTime \in Nat
    /\ \A l \in Links : /\ l.from \in Ranks /\ l.to \in Ranks /\ l.from # l.to
                        /\ l.delay \in Nat \ {0} /\ l.tx \subseteq Nat
    /\ \A l \in Links : l.to \in Neighbours(l.from)
    /\ \A r \in Ranks : \A s \in Neighbours(r) : s \in Ranks /\ s # r /\ r \in Neighbours(s)
<1>1. /\ SystemCount \in Nat /\ StopTime \in Nat /\ MaxTime \in Nat
      /\ \A l \in Links : /\ l.from \in Ranks /\ l.to \in Ranks /\ l.from # l.to
                          /\ l.delay \in Nat \ {0} /\ l.tx \subseteq Nat
      /\ \A l \in Links : \E m \in Links : m.from = l.to /\ m.to = l.from
  BY NullMessageAssumption
<1>2. Ranks \subseteq Nat
  BY <1>1 DEF Ranks
<1>3. \A l \in Links : l.to \in Neighbours(l.from)
  BY DEF Neighbours
<1>4. ASSUME NEW r \in Ranks, NEW s \in Neighbours(r)
      PROVE  s \in Ranks /\ s # r /\ r \in Neighbours(s)
  <2>1. PICK l \in Links : l.from = r /\ l.to = s
    BY <1>4 DEF Neighbours
  <2>2. PICK m \in Links : m.from = l.to /\ m.to = l.from
    BY <1>1
  <2> QED BY <1>1, <1>3, <2>1, <2>2
<1> QED BY <1>1, <1>2, <1>3, <1>4

(* The delay of a bundle is that of one of its channels, and the least. *)
LEMMA DelayIsLeast ==
    ASSUME NEW r \in Ranks, NEW s \in Neighbours(r)
    PROVE  /\ Delay(r, s) \in Nat \ {0}
           /\ \A l \in Links : l.from = r /\ l.to = s => Delay(r, s) <= l.delay
<1> DEFINE A == {l.delay : l \in {m \in Links : m.from = r /\ m.to = s}}
<1>1. A # {}
  BY DEF Neighbours
<1>2. A \subseteq Nat \ {0}
  BY LinkTypes
<1>3. Delay(r, s) = Min(A)
  BY DEF Delay
<1>4. Min(A) \in A /\ \A x \in A : Min(A) <= x
  <2> HIDE DEF A
  <2> QED BY <1>1, <1>2, MinOf
<1>5. \A l \in Links : l.from = r /\ l.to = s => l.delay \in A
  OBVIOUS
<1> HIDE DEF A
<1> QED BY <1>2, <1>3, <1>4, <1>5

(* The safe time is no later than any guarantee. *)
LEMMA SafeTimeIsLeast ==
    ASSUME NEW S, NEW g \in [S -> Nat]
    PROVE  /\ SafeTime(g) \in Nat /\ SafeTime(g) <= MaxTime
           /\ \A s \in S : SafeTime(g) <= g[s]
           /\ \A t \in Nat : t <= MaxTime /\ (\A s \in S : t <= g[s]) => t <= SafeTime(g)
<1> DEFINE A == {MaxTime} \cup {g[s] : s \in DOMAIN g}
<1>1. A \subseteq Nat /\ A # {}
  BY LinkTypes
<1>2. SafeTime(g) = Min(A)
  BY DEF SafeTime
<1>3. Min(A) \in A /\ \A x \in A : Min(A) <= x
  <2> HIDE DEF A
  <2> QED BY <1>1, MinOf
<1>4. MaxTime \in A /\ \A s \in S : g[s] \in A
  OBVIOUS
<1>5. ASSUME NEW t \in Nat, t <= MaxTime, \A s \in S : t <= g[s], NEW x \in A PROVE t <= x
  BY <1>5
<1> HIDE DEF A
<1> QED BY <1>1, <1>2, <1>3, <1>4, <1>5

-----------------------------------------------------------------------------
(***************************************************************************)
(* Event lists.                                                            *)
(***************************************************************************)
(* The time of an event. *)
LEMMA EventTime == \A e \in Events : e.ts \in Nat
BY DEF Events

(* Insert puts one event into its place. *)
InsertedAt(list, e, r, p) ==
    /\ r \in Seq(Events) /\ Len(r) = Len(list) + 1
    /\ r[p] = e
    /\ \A k \in 1 .. p - 1 : r[k] = list[k]
    /\ \A k \in p .. Len(list) : r[k + 1] = list[k]
    /\ \A k \in 1 .. p - 1 : list[k].ts <= e.ts
    /\ p <= Len(list) => e.ts < list[p].ts

(* There is such a place. *)
LEMMA InsertAtPosition ==
    ASSUME NEW list \in Seq(Events), NEW e \in Events, NEW r, r = Insert(list, e)
    PROVE  \E p \in 1 .. Len(list) + 1 : InsertedAt(list, e, r, p)
<1> DEFINE A == {k \in 1 .. Len(list) + 1 : k <= Len(list) => list[k].ts > e.ts}
           p == Position(list, e)
           n == Len(list)
<1>1. n \in Nat /\ \A k \in 1 .. n : list[k] \in Events /\ list[k].ts \in Nat
  BY EventTime
<1>2. A \subseteq Nat /\ n + 1 \in A /\ p = Min(A)
  BY <1>1 DEF Position
<1>3. p \in A /\ \A x \in A : p <= x
  <2> HIDE DEF A, p
  <2> QED BY <1>2, MinOf
<1>4. p \in 1 .. n + 1 /\ (p <= n => e.ts < list[p].ts)
  BY <1>1, <1>3 DEF Events
<1>5. ASSUME NEW k \in 1 .. p - 1 PROVE k \in 1 .. n /\ list[k].ts <= e.ts
  <2>1. k \in 1 .. n /\ ~(p <= k)
    BY <1>1, <1>4
  <2>2. k \notin A
    <3> HIDE DEF A
    <3> QED BY <1>3, <2>1
  <2>3. ~(list[k].ts > e.ts)
    BY <1>1, <2>1, <2>2
  <2> QED BY <1>1, <2>1, <2>3 DEF Events
<1>6. r = [k \in 1 .. n + 1 |-> IF k < p THEN list[k] ELSE IF k = p THEN e ELSE list[k - 1]]
  BY DEF Insert
<1> HIDE DEF A, p, n
<1>7. \A k \in 1 .. n + 1 : (IF k < p THEN list[k] ELSE IF k = p THEN e ELSE list[k - 1]) \in Events
  BY <1>1, <1>4
<1>8. r \in [1 .. n + 1 -> Events] /\ n + 1 \in Nat
  BY <1>1, <1>6, <1>7
<1>9. r \in Seq(Events) /\ Len(r) = n + 1
  BY <1>8
<1>10. /\ r[p] = e
       /\ \A k \in 1 .. p - 1 : r[k] = list[k]
       /\ \A k \in p .. n : r[k + 1] = list[k]
  BY <1>1, <1>4, <1>6
<1>11. InsertedAt(list, e, r, p)
  BY <1>4, <1>5, <1>9, <1>10 DEF n, InsertedAt
<1> QED BY <1>4, <1>11 DEF n

(* Its elements, and that it stays in order. *)
LEMMA InsertKeeps ==
    ASSUME NEW list \in Seq(Events), NEW e \in Events, NEW r, r = Insert(list, e), Sorted(list)
    PROVE  /\ r \in Seq(Events) /\ Sorted(r) /\ Members(r) = Members(list) \cup {e}
<1> DEFINE n == Len(list)
<1>0. PICK p \in 1 .. Len(list) + 1 : InsertedAt(list, e, r, p)
  BY InsertAtPosition
<1>1. /\ p \in 1 .. n + 1
      /\ r \in Seq(Events) /\ Len(r) = n + 1
      /\ r[p] = e
      /\ \A k \in 1 .. p - 1 : r[k] = list[k]
      /\ \A k \in p .. n : r[k + 1] = list[k]
      /\ \A k \in 1 .. p - 1 : list[k].ts <= e.ts
      /\ p <= n => e.ts < list[p].ts
  BY <1>0 DEF InsertedAt
<1>2. n \in Nat /\ e.ts \in Nat /\ \A k \in 1 .. n : list[k].ts \in Nat
  BY EventTime
<1>3. Members(list) = {list[k] : k \in 1 .. n} /\ Members(r) = {r[k] : k \in 1 .. n + 1}
  BY <1>1 DEF Members
<1>4. \A j, k \in 1 .. n : j < k => list[j].ts <= list[k].ts
  BY DEF Sorted
<1> HIDE DEF n
<1>6. ASSUME NEW k \in 1 .. n + 1
      PROVE  \/ k \in 1 .. p - 1 /\ k \in 1 .. n /\ r[k] = list[k]
             \/ k = p /\ r[k] = e
             \/ k \in p + 1 .. n + 1 /\ k - 1 \in p .. n /\ k - 1 \in 1 .. n /\ r[k] = list[k - 1]
  <2>1. CASE k < p
    BY <1>1, <1>2, <2>1
  <2>2. CASE k = p
    BY <1>1, <2>2
  <2>3. CASE k > p
    <3>1. k - 1 \in p .. n /\ k - 1 \in 1 .. n /\ (k - 1) + 1 = k
      BY <1>2, <2>3
    <3>2. r[(k - 1) + 1] = list[k - 1]
      BY <1>1, <3>1
    <3> QED BY <1>2, <2>3, <3>1, <3>2
  <2> QED BY <1>2, <2>1, <2>2, <2>3
<1>7. \A k \in p .. n : e.ts <= list[k].ts
  <2> SUFFICES ASSUME NEW k \in p .. n PROVE e.ts <= list[k].ts
    OBVIOUS
  <2>1. p \in 1 .. n /\ k \in 1 .. n /\ e.ts < list[p].ts
    BY <1>1, <1>2
  <2>2. list[p].ts <= list[k].ts
    BY <1>2, <1>4, <2>1
  <2> QED BY <1>2, <2>1, <2>2
<1>8. Members(r) = Members(list) \cup {e}
  <2>1. ASSUME NEW k \in 1 .. n + 1 PROVE r[k] \in {list[j] : j \in 1 .. n} \cup {e}
    BY <1>6
  <2>2. ASSUME NEW k \in 1 .. n PROVE list[k] \in {r[j] : j \in 1 .. n + 1}
    <3>1. CASE k < p
      <4>1. k \in 1 .. p - 1 /\ k \in 1 .. n + 1
        BY <1>2, <3>1
      <4> QED BY <1>1, <4>1
    <3>2. CASE k >= p
      <4>1. k \in p .. n /\ k + 1 \in 1 .. n + 1
        BY <1>2, <3>2
      <4> QED BY <1>1, <4>1
    <3> QED BY <1>2, <3>1, <3>2
  <2>3. e \in {r[j] : j \in 1 .. n + 1}
    BY <1>1
  <2> QED BY <1>3, <2>1, <2>2, <2>3
<1>9. ASSUME NEW j \in 1 .. n + 1, NEW k \in 1 .. n + 1, j < k PROVE r[j].ts <= r[k].ts
  <2>1. CASE j \in 1 .. p - 1 /\ j \in 1 .. n /\ r[j] = list[j]
    <3>1. list[j].ts <= e.ts
      BY <1>1, <2>1
    <3>2. CASE k \in 1 .. n /\ r[k] = list[k]
      BY <1>4, <1>9, <2>1, <3>2
    <3>3. CASE k = p /\ r[k] = e
      BY <2>1, <3>1, <3>3
    <3>4. CASE k - 1 \in p .. n /\ k - 1 \in 1 .. n /\ r[k] = list[k - 1]
      <4>1. e.ts <= list[k - 1].ts
        BY <1>7, <3>4
      <4> QED BY <1>2, <2>1, <3>1, <3>4, <4>1
    <3> QED BY <1>6, <3>2, <3>3, <3>4
  <2>2. CASE j = p /\ r[j] = e
    <3>1. k - 1 \in p .. n /\ r[k] = list[k - 1]
      BY <1>2, <1>6, <1>9, <2>2
    <3> QED BY <1>7, <2>2, <3>1
  <2>3. CASE j \in p + 1 .. n + 1 /\ j - 1 \in 1 .. n /\ r[j] = list[j - 1]
    <3>1. k \in p + 1 .. n + 1
      BY <1>2, <1>9, <2>3
    <3>2. k - 1 \in 1 .. n /\ r[k] = list[k - 1]
      BY <1>2, <1>6, <3>1
    <3>3. j - 1 < k - 1
      BY <1>9
    <3> QED BY <1>4, <2>3, <3>2, <3>3
  <2> QED BY <1>6, <2>1, <2>2, <2>3
<1>10. Sorted(r)
  BY <1>1, <1>9 DEF Sorted
<1> QED BY <1>1, <1>8, <1>10

(* The rest of a list. *)
LEMMA TailKeeps ==
    ASSUME NEW list \in Seq(Events), list # << >>, Sorted(list)
    PROVE  /\ Tail(list) \in Seq(Events) /\ Sorted(Tail(list))
           /\ Members(list) = {Head(list)} \cup Members(Tail(list))
           /\ Head(list) \in Events
           /\ \A e \in Members(list) : Head(list).ts <= e.ts
<1> DEFINE n == Len(list)
           t == Tail(list)
           h == Head(list)
<1>1. n \in Nat /\ n >= 1 /\ \A k \in 1 .. n : list[k] \in Events /\ list[k].ts \in Nat
  BY EventTime
<1>2. /\ t \in Seq(Events) /\ Len(t) = n - 1 /\ \A k \in 1 .. n - 1 : t[k] = list[k + 1]
      /\ h = list[1]
  BY <1>1
<1>3. \A j, k \in 1 .. n : j < k => list[j].ts <= list[k].ts
  BY DEF Sorted
<1>4. Members(list) = {list[k] : k \in 1 .. n} /\ Members(t) = {t[k] : k \in 1 .. n - 1}
  BY <1>2 DEF Members
<1> HIDE DEF n, t, h
<1>5. \A k \in 1 .. n - 1 : k + 1 \in 1 .. n
  BY <1>1
<1>6. ASSUME NEW j \in 1 .. n - 1, NEW k \in 1 .. n - 1, j < k PROVE t[j].ts <= t[k].ts
  <2>1. j + 1 \in 1 .. n /\ k + 1 \in 1 .. n /\ j + 1 < k + 1
    BY <1>5, <1>6
  <2>2. list[j + 1].ts <= list[k + 1].ts
    BY <1>3, <2>1
  <2> QED BY <1>2, <2>2
<1>7. Sorted(t)
  BY <1>2, <1>6 DEF Sorted
<1>8. ASSUME NEW k \in 1 .. n PROVE list[k] = h \/ \E j \in 1 .. n - 1 : list[k] = t[j]
  <2>1. CASE k = 1
    BY <1>2, <2>1
  <2>2. CASE k # 1
    <3>1. k - 1 \in 1 .. n - 1 /\ (k - 1) + 1 = k
      BY <1>1, <2>2
    <3> QED BY <1>2, <3>1
  <2> QED BY <2>1, <2>2
<1>9. Members(list) = {h} \cup Members(t)
  <2>1. h \in {list[k] : k \in 1 .. n}
    BY <1>1, <1>2
  <2>2. \A k \in 1 .. n - 1 : t[k] \in {list[j] : j \in 1 .. n}
    BY <1>2, <1>5
  <2> QED BY <1>4, <1>8, <2>1, <2>2
<1>10. \A k \in 1 .. n : h.ts <= list[k].ts
  <2> SUFFICES ASSUME NEW k \in 1 .. n PROVE h.ts <= list[k].ts
    OBVIOUS
  <2>1. CASE k = 1
    BY <1>1, <1>2, <2>1
  <2>2. CASE k # 1
    BY <1>1, <1>2, <1>3, <2>2
  <2> QED BY <2>1, <2>2
<1>11. h \in Events /\ \A e \in Members(list) : h.ts <= e.ts
  BY <1>1, <1>2, <1>4, <1>10
<1> QED BY <1>2, <1>7, <1>9, <1>11 DEF t, h

(* CancelNull leaves the times, and every event that is not cancelled. *)
LEMMA CancelKeeps ==
    ASSUME NEW list \in Seq(Events), NEW s, NEW r, r = CancelNull(s, list), Sorted(list)
    PROVE  /\ r \in Seq(Events) /\ Sorted(r)
           /\ \A x \in Members(r) : \E e \in Members(list) :
                x.ts = e.ts /\ (x.kind = "cancelled" \/ x = e)
<1> DEFINE n == Len(list)
           Cancelled(e) == IF e.kind = "null" /\ e.arg = s THEN [e EXCEPT !.kind = "cancelled"] ELSE e
<1>1. n \in Nat /\ DOMAIN list = 1 .. n /\ \A k \in 1 .. n : list[k] \in Events
  OBVIOUS
<1>2. r = [k \in 1 .. n |-> Cancelled(list[k])]
  BY <1>1 DEF CancelNull
<1>3. ASSUME NEW e \in Events
      PROVE  /\ Cancelled(e) \in Events /\ Cancelled(e).ts = e.ts
             /\ Cancelled(e).kind = "cancelled" \/ Cancelled(e) = e
  <2>1. CASE e.kind = "null" /\ e.arg = s
    BY <1>3, <2>1 DEF Events
  <2>2. CASE ~(e.kind = "null" /\ e.arg = s)
    BY <1>3, <2>2
  <2> QED BY <2>1, <2>2
<1> HIDE DEF Cancelled
<1>4. r \in [1 .. n -> Events] /\ \A k \in 1 .. n : r[k] = Cancelled(list[k])
  BY <1>1, <1>2, <1>3
<1>5. r \in Seq(Events) /\ Len(r) = n
  BY <1>1, <1>4
<1>6. \A j, k \in 1 .. n : j < k => list[j].ts <= list[k].ts
  BY DEF Sorted
<1>7. Sorted(r)
  BY <1>1, <1>3, <1>4, <1>5, <1>6 DEF Sorted
<1>8. \A x \in Members(r) : \E k \in 1 .. n : x = Cancelled(list[k])
  BY <1>4, <1>5 DEF Members
<1>9. \A k \in 1 .. n : list[k] \in Members(list)
  BY DEF Members
<1> QED BY <1>1, <1>3, <1>5, <1>7, <1>8, <1>9

-----------------------------------------------------------------------------
(***************************************************************************)
(* Channels.                                                               *)
(***************************************************************************)
(* The times of a message. *)
LEMMA MessageTimes == \A m \in Messages : m.rx \in Nat /\ m.guarantee \in Nat
BY DEF Messages

(* Sending a message, a packet not before what has been promised. *)
LEMMA AppendCarries ==
    ASSUME NEW ch \in Seq(Messages), NEW g \in Nat, NEW b \in Nat, NEW c \in Nat,
           NEW m \in Messages, NEW b2 \in Nat, Carries(ch, g, b, c),
           b <= b2, m.guarantee <= b2, m.rx > 0 => b <= m.rx
    PROVE  Append(ch, m) \in Seq(Messages) /\ Carries(Append(ch, m), g, b2, c)
<1> DEFINE n == Len(ch)
           q == Append(ch, m)
<1>1. /\ n \in Nat /\ \A k \in 1 .. n : ch[k].guarantee \in Nat /\ ch[k].rx \in Nat
      /\ m.guarantee \in Nat /\ m.rx \in Nat
  BY MessageTimes
<1>2. q \in Seq(Messages) /\ Len(q) = n + 1 /\ q[n + 1] = m /\ \A k \in 1 .. n : q[k] = ch[k]
  OBVIOUS
<1>3. /\ g <= b /\ c <= b
      /\ \A k \in 1 .. n :
            /\ ch[k].guarantee <= b
            /\ ch[k].rx > 0 => /\ g <= ch[k].rx /\ c <= ch[k].rx
                               /\ \A j \in 1 .. k - 1 : ch[j].guarantee <= ch[k].rx
  BY DEF Carries
<1> HIDE DEF n, q
<1>4. ASSUME NEW k \in 1 .. n + 1
      PROVE  /\ q[k].guarantee <= b2
             /\ q[k].rx > 0 => /\ g <= q[k].rx /\ c <= q[k].rx
                               /\ \A j \in 1 .. k - 1 : q[j].guarantee <= q[k].rx
  <2>1. CASE k \in 1 .. n
    <3>0. \A j \in 1 .. k - 1 : j \in 1 .. n
      BY <1>1, <2>1
    <3>1. \A j \in 1 .. k - 1 : j \in 1 .. n /\ q[j] = ch[j]
      BY <1>2, <3>0
    <3>2. q[k] = ch[k] /\ q[k].guarantee \in Nat
      BY <1>1, <1>2, <2>1
    <3>3. q[k].guarantee <= b2
      BY <1>3, <2>1, <3>2
    <3> QED BY <1>3, <2>1, <3>1, <3>2, <3>3
  <2>2. CASE k = n + 1
    <3>0. \A j \in 1 .. k - 1 : j \in 1 .. n
      BY <1>1, <2>2
    <3>1. \A j \in 1 .. k - 1 : j \in 1 .. n /\ q[j].guarantee <= b
      BY <1>2, <1>3, <3>0
    <3>2. q[k] = m /\ m.guarantee \in Nat /\ m.rx \in Nat
      BY <1>1, <1>2, <2>2
    <3>3. m.rx > 0 => g <= m.rx /\ c <= m.rx /\ b <= m.rx
      BY <1>3, <3>2
    <3>4. \A j \in 1 .. k - 1 : q[j].guarantee \in Nat
      BY <1>1, <1>2, <3>0
    <3> QED BY <3>1, <3>2, <3>3, <3>4
  <2> QED BY <1>1, <2>1, <2>2
<1>5. g <= b2 /\ c <= b2
  BY <1>3
<1> QED BY <1>2, <1>4, <1>5 DEF Carries, q

(* Taking a message. *)
LEMMA TailCarries ==
    ASSUME NEW ch \in Seq(Messages), NEW g \in Nat, NEW b \in Nat, NEW c \in Nat,
           ch # << >>, Carries(ch, g, b, c)
    PROVE  /\ Head(ch) \in Messages /\ Tail(ch) \in Seq(Messages)
           /\ Head(ch).rx > 0 => c <= Head(ch).rx
           /\ Carries(Tail(ch), Head(ch).guarantee, b, c)
<1> DEFINE n == Len(ch)
           t == Tail(ch)
           h == Head(ch)
<1>1. n \in Nat /\ n >= 1 /\ \A k \in 1 .. n : ch[k] \in Messages
  OBVIOUS
<1>2. /\ t \in Seq(Messages) /\ Len(t) = n - 1 /\ \A k \in 1 .. n - 1 : t[k] = ch[k + 1]
      /\ h = ch[1]
  BY <1>1
<1>3. /\ c <= b
      /\ \A k \in 1 .. n :
            /\ ch[k].guarantee <= b
            /\ ch[k].rx > 0 => /\ c <= ch[k].rx
                               /\ \A j \in 1 .. k - 1 : ch[j].guarantee <= ch[k].rx
  BY DEF Carries
<1> HIDE DEF n, t, h
<1>4. ASSUME NEW k \in 1 .. n - 1
      PROVE  /\ t[k].guarantee <= b
             /\ t[k].rx > 0 => /\ h.guarantee <= t[k].rx /\ c <= t[k].rx
                               /\ \A j \in 1 .. k - 1 : t[j].guarantee <= t[k].rx
  <2>1. k + 1 \in 1 .. n /\ t[k] = ch[k + 1] /\ 1 \in 1 .. (k + 1) - 1
    BY <1>1, <1>2
  <2>2. \A j \in 1 .. k - 1 : t[j] = ch[j + 1] /\ j + 1 \in 1 .. (k + 1) - 1
    BY <1>1, <1>2
  <2> QED BY <1>2, <1>3, <2>1, <2>2
<1>5. h \in Messages /\ h.guarantee <= b /\ (h.rx > 0 => c <= h.rx)
  BY <1>1, <1>2, <1>3
<1> QED BY <1>2, <1>3, <1>4, <1>5 DEF Carries, t, h

(* A safe time no later than the guarantee, and a later promise. *)
LEMMA LaterCarries ==
    ASSUME NEW ch \in Seq(Messages), NEW g \in Nat, NEW b \in Nat, NEW c \in Nat,
           NEW c2 \in Nat, Carries(ch, g, b, c), c2 <= g \/ c2 = c
    PROVE  Carries(ch, g, b, c2)
<1>1. \A k \in 1 .. Len(ch) : ch[k].rx \in Nat /\ ch[k].guarantee \in Nat
  BY MessageTimes
<1> QED BY <1>1 DEF Carries

(* The guarantee of an event list that is not empty. *)
LEMMA GuaranteeIsLeast ==
    ASSUME NEW r \in Ranks, NEW s \in Neighbours(r), NEW list \in Seq(Events), list # << >>,
           Sorted(list), safe[r] \in Nat
    PROVE  /\ GuaranteeTime(r, s, list) \in Nat
           /\ GuaranteeTime(r, s, list) <= safe[r] + Delay(r, s)
           /\ \A e \in Members(list) : GuaranteeTime(r, s, list) <= e.ts + Delay(r, s)
<1>1. Head(list) \in Events /\ \A e \in Members(list) : e \in Events /\ Head(list).ts <= e.ts
  BY TailKeeps DEF Members
<1>2. Head(list).ts \in Nat /\ Delay(r, s) \in Nat /\ \A e \in Members(list) : e.ts \in Nat
  BY <1>1, EventTime, DelayIsLeast
<1> QED BY <1>1, <1>2 DEF GuaranteeTime, Least

-----------------------------------------------------------------------------
(***************************************************************************)
(* The initial states.                                                     *)
(***************************************************************************)
(* A list with null message events besides those of another list. *)
Planned(new, r, list) ==
    /\ new \in Seq(Events) /\ Sorted(new)
    /\ \A e \in Members(new) : e \in Members(list) \/ (e.kind = "null" /\ e.arg \in Neighbours(r))

(* One more neighbour. *)
LEMMA PlanOne ==
    ASSUME NEW r \in Ranks, NEW list, NEW s \in Ranks, NEW old, Planned(old, r, list),
           NEW new, new = IF s \in Neighbours(r)
                          THEN Insert(old, Event(Delay(r, s), "null", s)) ELSE old
    PROVE  Planned(new, r, list)
<1>1. CASE s \notin Neighbours(r)
  BY <1>1 DEF Planned
<1>2. CASE s \in Neighbours(r)
  <2> DEFINE z == Event(Delay(r, s), "null", s)
  <2>1. z \in Events /\ z.kind = "null" /\ z.arg = s
    BY <1>2, DelayIsLeast DEF Event, Events
  <2>2. new = Insert(old, z)
    BY <1>2
  <2> HIDE DEF z
  <2>3. new \in Seq(Events) /\ Sorted(new) /\ Members(new) = Members(old) \cup {z}
    BY <2>1, <2>2, InsertKeeps DEF Planned
  <2> QED BY <1>2, <2>1, <2>3 DEF Planned
<1> QED BY <1>1, <1>2

LEMMA AllPlanned ==
    ASSUME NEW r \in Ranks, NEW list \in Seq(Events), Sorted(list),
           \A e \in Members(list) : e.kind # "null"
    PROVE  Planned(NullEvents(r, list), r, list)
<1> DEFINE N == SystemCount
           More(l, s) == IF s \in Neighbours(r) THEN Insert(l, Event(Delay(r, s), "null", s)) ELSE l
           Is(f, m) == f = [k \in 0 .. m |-> IF k = 0 THEN list ELSE More(f[k - 1], k - 1)]
<1>0. N \in Nat /\ \A k \in 1 .. N : k - 1 \in Ranks
  BY LinkTypes DEF Ranks
<1> HIDE DEF N, More
<1>2. \E f : Is(f, N)
  <2> DEFINE A == {m \in Nat : m <= N /\ ~\E f : Is(f, m)}
  <2> HIDE DEF Is
  <2>1. SUFFICES ASSUME A # {} PROVE FALSE
    <3>1. N \in Nat /\ N <= N
      BY <1>0
    <3> QED BY <3>1
  <2>2. PICK m \in A : \A x \in A : m <= x
    BY <2>1, SmallestOf
  <2>3. m # 0
    <3>1. Is([k \in 0 .. 0 |-> list], 0)
      BY DEF Is
    <3> QED BY <2>2, <3>1
  <2>4. m - 1 \in Nat /\ m - 1 <= N /\ m - 1 \notin A
    <3>1. m \in Nat /\ m <= N /\ N \in Nat
      BY <1>0, <2>2
    <3>2. m - 1 \in Nat /\ m - 1 <= N /\ ~(m <= m - 1)
      BY <2>3, <3>1
    <3> HIDE DEF A
    <3> QED BY <2>2, <3>2
  <2>5. PICK f : Is(f, m - 1)
    BY <2>4
  <2> DEFINE h == [k \in 0 .. m |-> IF k = m THEN More(f[m - 1], m - 1) ELSE f[k]]
  <2>6. ASSUME NEW k \in 0 .. m
        PROVE  h[k] = IF k = 0 THEN list ELSE More(h[k - 1], k - 1)
    <3>1. CASE k = m
      <4>1. h[m] = More(f[m - 1], m - 1) /\ h[m - 1] = f[m - 1]
        BY <2>2, <2>3
      <4> QED BY <2>3, <3>1, <4>1
    <3>2. CASE k # m
      <4>0. k \in 0 .. m - 1
        BY <2>2, <3>2
      <4>1. f[k] = IF k = 0 THEN list ELSE More(f[k - 1], k - 1)
        BY <2>5, <4>0 DEF Is
      <4>2. k # 0 => h[k - 1] = f[k - 1]
        BY <2>2, <3>2
      <4>3. h[k] = f[k]
        BY <3>2
      <4> QED BY <4>1, <4>2, <4>3
    <3> QED BY <3>1, <3>2
  <2>7. Is(h, m)
    <3> DEFINE i == [k \in 0 .. m |-> IF k = 0 THEN list ELSE More(h[k - 1], k - 1)]
    <3>1. \A k \in 0 .. m : h[k] = i[k]
      BY <2>6
    <3>2. h = i
      BY <3>1
    <3> QED BY <3>2 DEF Is
  <2> QED BY <2>2, <2>7
<1> DEFINE after[k \in 0 .. SystemCount] ==
            IF k = 0 THEN list
            ELSE IF k - 1 \in Neighbours(r)
                 THEN Insert(after[k - 1], Event(Delay(r, k - 1), "null", k - 1))
                 ELSE after[k - 1]
<1>3. NullEvents(r, list) = after[SystemCount]
  BY DEF NullEvents
<1>4. Is(after, N)
  BY <1>2 DEF N, More
<1> HIDE DEF after
<1>5. /\ after[0] = list
      /\ \A k \in 1 .. N : after[k] = More(after[k - 1], k - 1)
  BY <1>0, <1>4 DEF Is
<1>6. Planned(after[0], r, list)
  BY <1>5 DEF Planned
<1>7. ASSUME NEW k \in 1 .. N, Planned(after[k - 1], r, list)
      PROVE  Planned(after[k], r, list)
  <2>1. k - 1 \in Ranks
    BY <1>0
  <2>2. PICK old : old = after[k - 1]
    OBVIOUS
  <2>3. PICK new : new = after[k]
    OBVIOUS
  <2>4. new = IF k - 1 \in Neighbours(r)
              THEN Insert(old, Event(Delay(r, k - 1), "null", k - 1)) ELSE old
    BY <1>5, <2>2, <2>3 DEF More
  <2>5. Planned(new, r, list)
    BY <1>7, <2>1, <2>2, <2>4, PlanOne
  <2> QED BY <2>1, <2>3, <2>5
<1>8. Planned(after[N], r, list)
  <2> DEFINE A == {m \in Nat : m <= N /\ ~Planned(after[m], r, list)}
  <2>1. SUFFICES ASSUME A # {} PROVE FALSE
    <3>1. N \in Nat /\ N <= N
      BY <1>0
    <3> QED BY <3>1
  <2>2. PICK m \in A : \A x \in A : m <= x
    BY <2>1, SmallestOf
  <2>3. m \in 1 .. N
    BY <1>0, <1>6, <2>2
  <2>4. m - 1 \in Nat /\ m - 1 <= N /\ m - 1 \notin A
    <3>1. m - 1 \in Nat /\ m - 1 <= N /\ ~(m <= m - 1)
      BY <1>0, <2>3
    <3> HIDE DEF A
    <3> QED BY <2>2, <3>1
  <2> QED BY <1>7, <2>2, <2>3, <2>4
<1> QED BY <1>3, <1>8 DEF N

(* The invariant holds at first. *)
(* The invariant holds at first, with the promises of CalculateLookAhead. *)
LEMMA InitInvariant == Init => IInv
<1> SUFFICES ASSUME Init PROVE IInv
  OBVIOUS
<1>1. PICK at \in [Sources -> StartTimes] :
        events = [r \in Ranks |->
            NullEvents(r, (IF r \in Sources THEN << Event(at[r], "app", r) >> ELSE << >>)
                          \o << Event(StopTime, "stop", r) >>)]
  BY DEF Init
<1>2. /\ pc = [r \in Ranks |-> "loop"] /\ now = [r \in Ranks |-> 0]
      /\ safe = [r \in Ranks |-> 0]
      /\ guarantee = [r \in Ranks |-> [s \in Neighbours(r) |-> 0]]
      /\ busy = {} /\ sending = [r \in Ranks |-> {}]
      /\ channel = [r \in Ranks |-> [s \in Neighbours(r) |-> << NullMessage(Delay(r, s)) >>]]
  BY DEF Init
<1>3. ASSUME NEW r \in Ranks
      PROVE  events[r] \in Seq(Events) /\ ListOfRank(events[r], r, 0)
  <2> DEFINE a == Event(at[r], "app", r)
             b == Event(StopTime, "stop", r)
  <2>1. PICK list : list = (IF r \in Sources THEN << a >> ELSE << >>) \o << b >>
    OBVIOUS
  <2>2. b \in Events /\ b.kind = "stop" /\ b.ts = StopTime
    BY LinkTypes DEF Event, Events
  <2>3. r \in Sources => a \in Events /\ a.kind = "app" /\ a.ts <= b.ts
    <3>1. ASSUME r \in Sources PROVE at[r] \in Nat /\ at[r] <= StopTime
      <4>1. at[r] \in StartTimes /\ StartTimes \subseteq 0 .. StopTime - 1
        BY <3>1, NullMessageAssumption
      <4>2. at[r] \in 0 .. StopTime - 1 /\ StopTime \in Nat
        BY <4>1, LinkTypes
      <4> QED BY <4>2
    <3> QED BY <2>2, <3>1 DEF Event, Events
  <2>4. events[r] = NullEvents(r, list)
    BY <1>1, <2>1
  <2> HIDE DEF a, b
  <2>5. /\ list \in Seq(Events) /\ Sorted(list)
        /\ \A e \in Members(list) : e.kind \notin {"null", "complete"}
    <3>1. CASE r \in Sources
      <4>1. list = << a >> \o << b >> /\ << a >> \in Seq(Events) /\ << b >> \in Seq(Events)
        BY <2>1, <2>2, <2>3, <3>1
      <4>2. Len(list) = 2 /\ list[1] = a /\ list[2] = b /\ list \in Seq(Events)
        BY <4>1
      <4>3. Members(list) = {a, b}
        BY <4>2 DEF Members
      <4>4. Sorted(list)
        BY <2>3, <3>1, <4>2 DEF Sorted
      <4> QED BY <2>2, <2>3, <3>1, <4>2, <4>3, <4>4
    <3>2. CASE r \notin Sources
      <4>1. list = << b >>
        BY <2>1, <3>2
      <4>2. Len(list) = 1 /\ list[1] = b /\ list \in Seq(Events)
        BY <2>2, <4>1
      <4>3. Members(list) = {b}
        BY <4>2 DEF Members
      <4>4. Sorted(list)
        BY <4>2 DEF Sorted
      <4> QED BY <2>2, <4>2, <4>3, <4>4
    <3> QED BY <3>1, <3>2
  <2>6. PICK new : new = NullEvents(r, list)
    OBVIOUS
  <2>7. Planned(new, r, list)
    BY <2>5, <2>6, AllPlanned
  <2>8. \A e \in Members(new) : 0 <= e.ts
    <3>1. \A e \in Members(new) : e.ts \in Nat
      BY <2>7, EventTime DEF Members, Planned
    <3> QED BY <3>1
  <2> QED BY <2>4, <2>5, <2>6, <2>7, <2>8 DEF ListOfRank, OfRank, Planned
<1>4. events \in [Ranks -> Seq(Events)]
  <2>1. events = [r \in Ranks |-> events[r]]
    BY <1>1
  <2> QED BY <1>3, <2>1
<1>5. ASSUME NEW r \in Ranks, NEW s \in Neighbours(r)
      PROVE  /\ Delay(r, s) \in Nat /\ channel[r][s] = << NullMessage(Delay(r, s)) >>
             /\ NullMessage(Delay(r, s)) \in Messages
             /\ NullMessage(Delay(r, s)).rx = 0
             /\ NullMessage(Delay(r, s)).guarantee = Delay(r, s)
             /\ guarantee[s][r] = 0
  <2>1. Delay(r, s) \in Nat
    BY DelayIsLeast
  <2>2. s \in Ranks /\ r \in Neighbours(s)
    BY LinkTypes
  <2> QED BY <1>2, <2>1, <2>2 DEF NullMessage, Messages
<1>6. TypeOK
  <2>1. pc \in [Ranks -> {"loop", "callback", "receive", "stopped"}]
    BY <1>2
  <2>2. now \in [Ranks -> Nat] /\ safe \in [Ranks -> Nat]
    BY <1>2
  <2>3. sending \in [Ranks -> SUBSET Links] /\ \A r \in Ranks : sending[r] = {}
    BY <1>2
  <2>4. FunctionOn(guarantee, Ranks) /\ FunctionOn(channel, Ranks)
    BY <1>2 DEF FunctionOn
  <2>5. ASSUME NEW r \in Ranks PROVE guarantee[r] \in [Neighbours(r) -> Nat]
    BY <1>2
  <2>6. ASSUME NEW r \in Ranks PROVE channel[r] \in [Neighbours(r) -> Seq(Messages)]
    <3>1. channel[r] = [s \in Neighbours(r) |-> << NullMessage(Delay(r, s)) >>]
      BY <1>2
    <3>2. \A s \in Neighbours(r) : << NullMessage(Delay(r, s)) >> \in Seq(Messages)
      BY <1>5
    <3> QED BY <3>1, <3>2
  <2> QED BY <1>4, <2>1, <2>2, <2>3, <2>4, <2>5, <2>6 DEF TypeOK
<1>7. Lists
  BY <1>2, <1>3 DEF Lists
<1> DEFINE first == [r \in Ranks |-> [s \in Ranks |-> IF s \in Neighbours(r) THEN Delay(r, s) ELSE 0]]
           zero == [r \in Ranks |-> 0]
<1>8. /\ first \in History /\ zero \in [Ranks -> Nat]
      /\ \A r \in Ranks : \A s \in Neighbours(r) : s \in Ranks /\ first[r][s] = Delay(r, s)
      /\ \A r \in Ranks : zero[r] = 0
  BY <1>5, LinkTypes DEF History
<1> HIDE DEF first, zero
<1>9. Channels(first, zero)
  <2> SUFFICES ASSUME NEW r \in Ranks, NEW s \in Neighbours(r)
               PROVE  /\ Carries(channel[r][s], guarantee[s][r], first[r][s], zero[s])
                      /\ first[r][s] <= zero[r] + Delay(r, s)
    BY DEF Channels
  <2>1. PICK ch : ch = channel[r][s]
    OBVIOUS
  <2>2. Len(ch) = 1 /\ ch[1] = NullMessage(Delay(r, s))
    <3>1. ch = << NullMessage(Delay(r, s)) >>
      BY <1>5, <2>1
    <3> QED BY <3>1
  <2>3. /\ s \in Ranks /\ first[r][s] = Delay(r, s) /\ zero[r] = 0 /\ zero[s] = 0
        /\ Delay(r, s) \in Nat /\ guarantee[s][r] = 0
    BY <1>5, <1>8
  <2>4. Carries(ch, 0, Delay(r, s), 0)
    BY <1>5, <2>2, <2>3 DEF Carries
  <2> QED BY <2>1, <2>3, <2>4
<1>10. Clocks(zero)
  BY <1>2, <1>8 DEF Clocks
<1>11. ASSUME NEW l \in Links PROVE KeepsOf(l, first)
  <2>1. l.from \in Ranks /\ l.to \in Neighbours(l.from) /\ l.delay \in Nat /\ l.tx \subseteq Nat
    BY LinkTypes
  <2>2. PICK list \in Seq(Events) : list = events[l.from]
    BY <1>4, <2>1
  <2>3. \A e \in Members(list) : e.ts \in Nat
    BY EventTime DEF Members
  <2>4. PICK d \in Nat : d = Delay(l.from, l.to) /\ d <= l.delay
    BY <2>1, DelayIsLeast
  <2>5. first[l.from][l.to] = d
    BY <1>8, <2>1, <2>4
  <2>6. \A y \in l.tx : \A e \in Members(list) : d <= e.ts + y + l.delay
    BY <2>1, <2>3, <2>4
  <2>7. ~(pc[l.from] = "callback")
    BY <1>2, <2>1
  <2> QED BY <2>2, <2>5, <2>6, <2>7 DEF KeepsOf, Keeps
<1>12. Bounds(first, zero)
  BY <1>9, <1>10, <1>11 DEF Bounds
<1> QED BY <1>6, <1>7, <1>8, <1>12 DEF IInv

-----------------------------------------------------------------------------
(***************************************************************************)
(* What the steps have in common.                                          *)
(***************************************************************************)
(* Of times and delays: a later start, a slower link, a later event. *)
LEMMA LaterStart == \A b, t, d, y, e \in Nat : b <= t + y + e => b <= (t + d) + y + e
OBVIOUS

LEMMA SlowerLink ==
    \A b, t, d, x, y, e \in Nat : b <= (t + x) + d /\ x + d <= y + e => b <= t + y + e
OBVIOUS

LEMMA LaterEvent ==
    \A b, t, d, u, y, e \in Nat : b <= t + d /\ t <= u /\ d <= e => b <= u + y + e
OBVIOUS

(* The events of a list. *)
LEMMA ListEvents ==
    ASSUME NEW list \in Seq(Events)
    PROVE  \A e \in Members(list) : e \in Events /\ e.ts \in Nat
BY EventTime DEF Members

(* A step that only concerns rank r, and what the invariant asks of it.    *)
StepOf(r, promised, reached, promised2, reached2) ==
    /\ \A x \in Ranks \ {r} :
        /\ pc'[x] = pc[x] /\ now'[x] = now[x] /\ safe'[x] = safe[x] /\ events'[x] = events[x]
        /\ promised2[x] = promised[x] /\ reached2[x] = reached[x]
    /\ \A l \in Links : l.from # r => (l \in busy' <=> l \in busy)
    /\ ListOfRank(events'[r], r, now'[r])
    /\ now'[r] <= reached2[r] /\ safe'[r] <= reached2[r]
    /\ \A l \in Links : l.from = r =>
        Keeps(l, promised2[r][l.to], events'[r], now'[r], pc'[r] = "callback", l \in busy')
    /\ Channels(promised2, reached2)'

(* The links of the other ranks keep what they kept. *)
LEMMA RankStep ==
    ASSUME NEW r \in Ranks, Lists, TypeOK',
           NEW promised \in History, NEW reached \in [Ranks -> Nat], Bounds(promised, reached),
           NEW promised2 \in History, NEW reached2 \in [Ranks -> Nat],
           StepOf(r, promised, reached, promised2, reached2)
    PROVE  IInv'
<1>0. /\ \A x \in Ranks \ {r} :
            /\ pc'[x] = pc[x] /\ now'[x] = now[x] /\ safe'[x] = safe[x] /\ events'[x] = events[x]
            /\ promised2[x] = promised[x] /\ reached2[x] = reached[x]
      /\ \A l \in Links : l.from # r => (l \in busy' <=> l \in busy)
      /\ ListOfRank(events'[r], r, now'[r])
      /\ now'[r] <= reached2[r] /\ safe'[r] <= reached2[r]
      /\ \A l \in Links : l.from = r =>
            Keeps(l, promised2[r][l.to], events'[r], now'[r], pc'[r] = "callback", l \in busy')
      /\ Channels(promised2, reached2)'
  BY DEF StepOf
<1>1. Lists'
  BY <1>0 DEF Lists
<1>2. Clocks(reached2)'
  BY <1>0 DEF Clocks, Bounds
<1>3. ASSUME NEW l \in Links PROVE KeepsOf(l, promised2)'
  <2>1. CASE l.from = r
    BY <1>0, <2>1 DEF KeepsOf
  <2>2. CASE l.from # r
    <3>1. l.from \in Ranks /\ KeepsOf(l, promised)
      BY LinkTypes DEF Bounds
    <3>2. /\ pc'[l.from] = pc[l.from] /\ now'[l.from] = now[l.from]
          /\ events'[l.from] = events[l.from] /\ promised2[l.from] = promised[l.from]
          /\ l \in busy' <=> l \in busy
      BY <1>0, <2>2, <3>1
    <3> QED BY <3>1, <3>2 DEF KeepsOf, Keeps
  <2> QED BY <2>1, <2>2
<1>4. Bounds(promised2, reached2)'
  BY <1>0, <1>2, <1>3 DEF Bounds
<1> QED BY <1>1, <1>4 DEF IInv

(* A link keeps what it kept when the list has no further callbacks. *)
LEMMA KeepsList ==
    ASSUME NEW l, NEW b, NEW list, NEW new, NEW t, NEW t2, NEW c, NEW z,
           Keeps(l, b, list, t, c, z),
           \A e \in Members(new) : CallsBack(e) => e \in Members(list)
    PROVE  Keeps(l, b, new, t2, FALSE, z) /\ Keeps(l, b, new, t, c, z)
BY DEF Keeps, CallsBack

(* One promise of two. *)
LEMMA KeepsEither ==
    ASSUME NEW l, NEW b, NEW p, NEW b2 \in {b, p}, NEW list, NEW t, NEW c, NEW z,
           Keeps(l, b, list, t, c, z), Keeps(l, p, list, t, c, z)
    PROVE  Keeps(l, b2, list, t, c, z)
<1>1. CASE b2 = b
  BY <1>1
<1>2. CASE b2 = p
  BY <1>2
<1> QED BY <1>1, <1>2

(* The greater of a promise of r to s and another time is the new one. *)
LEMMA Raise ==
    ASSUME NEW promised \in History, NEW r \in Ranks, NEW s \in Ranks, NEW p \in Nat
    PROVE  \E promised2 \in History :
            /\ promised2[r][s] \in {promised[r][s], p}
            /\ p <= promised2[r][s] /\ promised[r][s] <= promised2[r][s]
            /\ \A y \in Ranks \ {s} : promised2[r][y] = promised[r][y]
            /\ \A x \in Ranks \ {r} : promised2[x] = promised[x]
<1>1. PICK b \in Nat : b = promised[r][s]
  BY DEF History
<1>2. PICK b2 \in Nat : b2 \in {b, p} /\ b <= b2 /\ p <= b2
  <2>1. CASE b <= p
    BY <2>1
  <2>2. CASE p <= b
    BY <2>2
  <2> QED BY <2>1, <2>2
<1> DEFINE row == [y \in Ranks |-> IF y = s THEN b2 ELSE promised[r][y]]
           next == [x \in Ranks |-> IF x = r THEN row ELSE promised[x]]
<1>3. row \in [Ranks -> Nat] /\ row[s] = b2 /\ \A y \in Ranks \ {s} : row[y] = promised[r][y]
  BY DEF History
<1> HIDE DEF row
<1>4. next \in History /\ next[r] = row /\ \A x \in Ranks \ {r} : next[x] = promised[x]
  BY <1>3 DEF History
<1> HIDE DEF next
<1> QED BY <1>1, <1>2, <1>3, <1>4

(* Rank r sends message m to s. *)
Sending(r, s, m) ==
    channel' = [channel EXCEPT ![r][s] = Append(@, m)] /\ guarantee' = guarantee

(* What the channels carry then. *)
LEMMA SendChannels ==
    ASSUME NEW r \in Ranks, NEW s \in Neighbours(r), NEW m \in Messages, TypeOK,
           NEW promised \in History, NEW reached \in [Ranks -> Nat], Bounds(promised, reached),
           Sending(r, s, m),
           m.rx > 0 => promised[r][s] <= m.rx,
           m.guarantee <= safe[r] + Delay(r, s)
    PROVE  /\ FunctionOn(channel', Ranks)
           /\ \A x \in Ranks : channel'[x] \in [Neighbours(x) -> Seq(Messages)]
           /\ \E promised2 \in History :
                /\ promised2[r][s] \in {promised[r][s], m.guarantee}
                /\ \A y \in Ranks \ {s} : promised2[r][y] = promised[r][y]
                /\ \A x \in Ranks \ {r} : promised2[x] = promised[x]
                /\ Channels(promised2, reached)'
<1>1. s \in Ranks /\ s # r /\ m.guarantee \in Nat /\ m.rx \in Nat
  BY LinkTypes, MessageTimes
<1>0. channel' = [channel EXCEPT ![r][s] = Append(@, m)] /\ guarantee' = guarantee
  BY DEF Sending
<1>2. /\ FunctionOn(channel, Ranks)
      /\ \A x \in Ranks : channel[x] \in [Neighbours(x) -> Seq(Messages)]
      /\ \A x \in Ranks : guarantee[x] \in [Neighbours(x) -> Nat]
      /\ safe \in [Ranks -> Nat]
  BY DEF TypeOK
<1>3. PICK promised2 \in History :
        /\ promised2[r][s] \in {promised[r][s], m.guarantee}
        /\ m.guarantee <= promised2[r][s] /\ promised[r][s] <= promised2[r][s]
        /\ \A y \in Ranks \ {s} : promised2[r][y] = promised[r][y]
        /\ \A x \in Ranks \ {r} : promised2[x] = promised[x]
  BY <1>1, Raise
<1>4. PICK row \in [Neighbours(r) -> Seq(Messages)] : row = channel[r]
  BY <1>2
<1>5. /\ channel'[r] = [row EXCEPT ![s] = Append(@, m)]
      /\ \A x \in Ranks \ {r} : channel'[x] = channel[x]
      /\ FunctionOn(channel', Ranks)
  BY <1>0, <1>2, <1>4 DEF FunctionOn
<1>6. /\ channel'[r] \in [Neighbours(r) -> Seq(Messages)]
      /\ channel'[r][s] = Append(row[s], m)
      /\ \A y \in Neighbours(r) \ {s} : channel'[r][y] = row[y]
  BY <1>4, <1>5
<1>7. ASSUME NEW x \in Ranks, NEW y \in Neighbours(x)
      PROVE  /\ Carries(channel'[x][y], guarantee'[y][x], promised2[x][y], reached[y])
             /\ promised2[x][y] <= reached[x] + Delay(x, y)
  <2>1. y \in Ranks /\ x \in Neighbours(y)
    BY LinkTypes
  <2>2. /\ Carries(channel[x][y], guarantee[y][x], promised[x][y], reached[y])
        /\ promised[x][y] <= reached[x] + Delay(x, y)
    BY DEF Bounds, Channels
  <2>3. CASE x = r /\ y = s
    <3>1. PICK ch \in Seq(Messages) : ch = row[s]
      OBVIOUS
    <3>2. PICK g \in Nat : g = guarantee[s][r]
      BY <1>1, <1>2, <2>1, <2>3
    <3>3. PICK b \in Nat : b = promised[r][s]
      BY <1>1 DEF History
    <3>4. PICK b2 \in Nat : b2 = promised2[r][s]
      BY <1>1 DEF History
    <3>5. PICK c \in Nat : c = reached[s]
      BY <1>1
    <3>6. Carries(Append(ch, m), g, b2, c)
      <4>1. Carries(ch, g, b, c)
        BY <1>4, <2>2, <2>3, <3>1, <3>2, <3>3, <3>5
      <4>2. b <= b2 /\ m.guarantee <= b2 /\ (m.rx > 0 => b <= m.rx)
        BY <1>3, <3>3, <3>4
      <4> QED BY <4>1, <4>2, AppendCarries
    <3>7. b2 <= reached[r] + Delay(r, s)
      <4>1. safe[r] \in Nat /\ reached[r] \in Nat /\ safe[r] <= reached[r] /\ Delay(r, s) \in Nat
        BY <1>2, DelayIsLeast DEF Bounds, Clocks
      <4>2. CASE b2 = b
        BY <2>2, <2>3, <3>3, <4>2
      <4>3. CASE b2 = m.guarantee
        BY <1>1, <4>1, <4>3
      <4> QED BY <1>3, <3>3, <3>4, <4>2, <4>3
    <3> QED BY <1>0, <1>6, <2>3, <3>1, <3>2, <3>4, <3>5, <3>6, <3>7
  <2>4. CASE x = r /\ y # s
    BY <1>0, <1>3, <1>4, <1>6, <2>1, <2>2, <2>4
  <2>5. CASE x # r
    BY <1>0, <1>3, <1>5, <2>2, <2>5
  <2> QED BY <2>3, <2>4, <2>5
<1>8. Channels(promised2, reached)'
  BY <1>7 DEF Channels
<1> QED BY <1>2, <1>3, <1>5, <1>6, <1>8

(* A safe time that is no later than the guarantees. *)
LEMMA SafeChannels ==
    ASSUME NEW r \in Ranks, TypeOK', NEW promised \in History,
           NEW reached \in [Ranks -> Nat], Channels(promised, reached)',
           safe'[r] <= reached[r] \/ \A x \in Neighbours(r) : safe'[r] <= guarantee'[r][x]
    PROVE  \E reached2 \in [Ranks -> Nat] :
            /\ safe'[r] <= reached2[r] /\ reached[r] <= reached2[r]
            /\ \A x \in Ranks \ {r} : reached2[x] = reached[x]
            /\ Channels(promised, reached2)'
<1>1. PICK f \in Nat : f = safe'[r]
  BY DEF TypeOK
<1>2. PICK c \in Nat : c = reached[r]
  OBVIOUS
<1>3. PICK c2 \in Nat : f <= c2 /\ c <= c2 /\ (c2 = c \/ (c2 = f /\ ~(f <= c)))
  <2>1. CASE f <= c
    BY <2>1
  <2>2. CASE ~(f <= c)
    BY <2>2
  <2> QED BY <2>1, <2>2
<1>4. PICK reached2 \in [Ranks -> Nat] :
        reached2[r] = c2 /\ \A x \in Ranks \ {r} : reached2[x] = reached[x]
  <2>1. [reached EXCEPT ![r] = c2] \in [Ranks -> Nat]
    OBVIOUS
  <2> QED BY <2>1
<1>5. ASSUME NEW x \in Ranks, NEW y \in Neighbours(x)
      PROVE  /\ Carries(channel'[x][y], guarantee'[y][x], promised[x][y], reached2[y])
             /\ promised[x][y] <= reached2[x] + Delay(x, y)
  <2>1. y \in Ranks /\ x \in Neighbours(y) /\ Delay(x, y) \in Nat
    BY LinkTypes, DelayIsLeast
  <2>2. /\ Carries(channel'[x][y], guarantee'[y][x], promised[x][y], reached[y])
        /\ promised[x][y] <= reached[x] + Delay(x, y)
    BY DEF Channels
  <2>3. reached[x] \in Nat /\ reached2[x] \in Nat /\ reached[x] <= reached2[x]
    BY <1>2, <1>3, <1>4
  <2>4. promised[x][y] <= reached2[x] + Delay(x, y)
    <3>1. promised[x][y] \in Nat
      BY <2>1 DEF History
    <3> QED BY <2>1, <2>2, <2>3, <3>1
  <2>5. CASE y # r
    BY <1>4, <2>1, <2>2, <2>4, <2>5
  <2>6. CASE y = r
    <3>1. PICK ch \in Seq(Messages) : ch = channel'[x][r]
      BY <2>6 DEF TypeOK
    <3>2. PICK g \in Nat : g = guarantee'[r][x]
      BY <2>1, <2>6 DEF TypeOK
    <3>3. PICK b \in Nat : b = promised[x][r]
      BY <2>1, <2>6 DEF History
    <3>4. c2 = c \/ c2 <= g
      BY <1>1, <1>2, <1>3, <2>1, <2>6, <3>2
    <3>5. Carries(ch, g, b, c2)
      BY <1>2, <2>2, <2>6, <3>1, <3>2, <3>3, <3>4, LaterCarries
    <3> QED BY <1>4, <2>4, <2>6, <3>1, <3>2, <3>3, <3>5
  <2> QED BY <2>5, <2>6
<1>6. Channels(promised, reached2)'
  BY <1>5 DEF Channels
<1> QED BY <1>1, <1>2, <1>3, <1>4, <1>6

-----------------------------------------------------------------------------
(***************************************************************************)
(* The steps of a rank.                                                    *)
(***************************************************************************)
(* What the invariant says of the rank that takes a step. *)
LEMMA OfInvariant ==
    ASSUME IInv, NEW r \in Ranks
    PROVE  /\ TypeOK /\ Lists
           /\ now[r] \in Nat /\ safe[r] \in Nat /\ events[r] \in Seq(Events)
           /\ Sorted(events[r])
           /\ \A e \in Members(events[r]) : now[r] <= e.ts /\ OfRank(e, r)
BY DEF IInv, TypeOK, Lists, ListOfRank

(* ProcessOneEvent of a null message event. *)
LEMMA NullMessageInvariant ==
    ASSUME IInv, NEW r \in Ranks, ProcessOneEvent(r), Head(events[r]).kind = "null"
    PROVE  IInv'
<1> PICK list \in Seq(Events) : list = events[r]
  BY OfInvariant
<1> DEFINE e == Head(list)
           rest == Tail(list)
           s == e.arg
           p == GuaranteeTime(r, s, rest)
           m == NullMessage(p)
           z == Event(e.ts + Delay(r, s), "null", s)
<1>1. /\ pc[r] = "loop" /\ list # << >> /\ e.ts <= safe[r]
      /\ now' = [now EXCEPT ![r] = e.ts] /\ UNCHANGED <<safe, guarantee>>
      /\ NullMessageEventHandler(r, s)
  BY DEF ProcessOneEvent, Safe
<1>2. /\ rest # << >> /\ channel' = [channel EXCEPT ![r][s] = Append(@, m)]
      /\ events' = [events EXCEPT ![r] = Insert(rest, z)]
      /\ pc' = [pc EXCEPT ![r] = "receive"] /\ UNCHANGED <<busy, sending>>
  BY <1>1 DEF NullMessageEventHandler
<1>3. /\ TypeOK /\ Lists /\ Sorted(list) /\ \A x \in Members(list) : OfRank(x, r)
      /\ safe[r] \in Nat
  BY OfInvariant
<1>4. /\ rest \in Seq(Events) /\ Sorted(rest) /\ Members(list) = {e} \cup Members(rest)
      /\ e \in Events /\ e.ts \in Nat /\ \A x \in Members(list) : e.ts <= x.ts
  BY <1>1, <1>3, TailKeeps, EventTime
<1>5. s \in Neighbours(r) /\ s \in Ranks
  <2>1. e \in Members(list) /\ e.kind = "null"
    BY <1>4
  <2> QED BY <1>3, <2>1, LinkTypes DEF OfRank
<1>6. /\ p \in Nat /\ p <= safe[r] + Delay(r, s)
      /\ \A x \in Members(rest) : p <= x.ts + Delay(r, s)
  <2> HIDE DEF rest, s
  <2> QED BY <1>2, <1>3, <1>4, <1>5, GuaranteeIsLeast
<1>7. m \in Messages /\ m.rx = 0 /\ m.guarantee = p
  BY <1>6 DEF NullMessage, Messages
<1>8. z \in Events /\ z.kind = "null" /\ z.arg = s /\ e.ts <= z.ts
  BY <1>4, <1>5, DelayIsLeast DEF Event, Events
<1> HIDE DEF e, rest, s, p, m, z
<1>9. PICK new \in Seq(Events) : /\ new = Insert(rest, z) /\ Sorted(new)
                                 /\ Members(new) = Members(rest) \cup {z}
  BY <1>4, <1>8, InsertKeeps
<1>10. ListOfRank(new, r, e.ts)
  BY <1>3, <1>4, <1>5, <1>8, <1>9 DEF ListOfRank, OfRank
<1>11. PICK promised \in History, reached \in [Ranks -> Nat] : Bounds(promised, reached)
  BY DEF IInv
<1>12. /\ FunctionOn(channel', Ranks)
       /\ \A x \in Ranks : channel'[x] \in [Neighbours(x) -> Seq(Messages)]
       /\ \E promised2 \in History :
            /\ promised2[r][s] \in {promised[r][s], m.guarantee}
            /\ \A y \in Ranks \ {s} : promised2[r][y] = promised[r][y]
            /\ \A x \in Ranks \ {r} : promised2[x] = promised[x]
            /\ Channels(promised2, reached)'
  <2>1. ~(m.rx > 0) /\ m.guarantee <= safe[r] + Delay(r, s)
    BY <1>6, <1>7
  <2>2. m.rx > 0 => promised[r][s] <= m.rx
    BY <2>1
  <2>3. Sending(r, s, m)
    BY <1>1, <1>2 DEF Sending
  <2>4. TypeOK
    BY <1>3
  <2> QED BY <1>5, <1>7, <1>11, <2>1, <2>2, <2>3, <2>4, SendChannels
<1>13. PICK promised2 \in History :
            /\ promised2[r][s] \in {promised[r][s], p}
            /\ \A y \in Ranks \ {s} : promised2[r][y] = promised[r][y]
            /\ \A x \in Ranks \ {r} : promised2[x] = promised[x]
            /\ Channels(promised2, reached)'
  BY <1>7, <1>12
<1>14. /\ events'[r] = new /\ now'[r] = e.ts /\ pc'[r] = "receive"
       /\ \A x \in Ranks \ {r} : /\ pc'[x] = pc[x] /\ now'[x] = now[x] /\ safe'[x] = safe[x]
                                 /\ events'[x] = events[x]
  BY <1>1, <1>2, <1>3, <1>9 DEF TypeOK
<1>15. TypeOK'
  BY <1>1, <1>2, <1>3, <1>4, <1>9, <1>12 DEF TypeOK
<1>16. now'[r] <= reached[r] /\ safe'[r] <= reached[r]
  BY <1>1, <1>3, <1>4, <1>11, <1>14 DEF Bounds, Clocks
<1>17. ASSUME NEW l \in Links, l.from = r
       PROVE  Keeps(l, promised2[r][l.to], new, e.ts, FALSE, l \in busy)
  <2>1. Keeps(l, promised[r][l.to], list, now[r], FALSE, l \in busy)
    BY <1>1, <1>11, <1>17 DEF Bounds, KeepsOf
  <2>2. \A x \in Members(new) : CallsBack(x) => x \in Members(rest) /\ x \in Members(list)
    BY <1>4, <1>8, <1>9 DEF CallsBack
  <2>3. Keeps(l, promised[r][l.to], new, e.ts, FALSE, l \in busy)
    BY <2>1, <2>2, KeepsList
  <2>4. CASE l.to # s
    BY <1>13, <2>3, <2>4, LinkTypes
  <2>5. CASE l.to = s
    <3>1. /\ l.tx \subseteq Nat /\ l.delay \in Nat
          /\ Delay(r, s) \in Nat /\ Delay(r, s) <= l.delay
      BY <1>5, <1>17, <2>5, LinkTypes, DelayIsLeast
    <3>2. ASSUME NEW y \in l.tx, NEW x \in Members(rest) PROVE p <= x.ts + y + l.delay
      <4>1. x.ts \in Nat /\ p <= x.ts + Delay(r, s)
        BY <1>4, <1>6, ListEvents
      <4> QED BY <1>6, <3>1, <4>1
    <3>3. Keeps(l, p, new, e.ts, FALSE, l \in busy)
      BY <2>2, <3>2 DEF Keeps, CallsBack
    <3> QED BY <1>13, <2>3, <2>5, <3>3, KeepsEither
  <2> QED BY <2>4, <2>5
<1>18. ASSUME NEW l \in Links, l.from = r
       PROVE  Keeps(l, promised2[r][l.to], events'[r], now'[r], pc'[r] = "callback", l \in busy')
  <2>1. Keeps(l, promised2[r][l.to], new, e.ts, FALSE, l \in busy)
    BY <1>17, <1>18
  <2> QED BY <1>2, <1>14, <2>1 DEF Keeps
<1>19. \A l \in Links : l.from # r => (l \in busy' <=> l \in busy)
  BY <1>2
<1>20. Lists /\ ListOfRank(events'[r], r, now'[r])
  BY <1>3, <1>10, <1>14
<1>21. \A x \in Ranks \ {r} :
         /\ pc'[x] = pc[x] /\ now'[x] = now[x] /\ safe'[x] = safe[x] /\ events'[x] = events[x]
         /\ promised2[x] = promised[x] /\ reached[x] = reached[x]
  BY <1>13, <1>14
<1>22. Channels(promised2, reached)'
  BY <1>13
<1>23. StepOf(r, promised, reached, promised2, reached)
  BY <1>16, <1>18, <1>19, <1>20, <1>21, <1>22 DEF StepOf
<1> QED BY <1>11, <1>15, <1>20, <1>23, RankStep

(* A step that neither sends nor takes a message. *)
LEMMA LocalInvariant ==
    ASSUME IInv, NEW r \in Ranks, TypeOK', UNCHANGED <<safe, guarantee, channel>>,
           \A x \in Ranks \ {r} : pc'[x] = pc[x] /\ now'[x] = now[x] /\ events'[x] = events[x],
           \A l \in Links : l.from # r => (l \in busy' <=> l \in busy),
           ListOfRank(events'[r], r, now'[r]),
           now'[r] <= now[r] \/ now'[r] <= safe[r],
           \A l \in Links, b \in Nat :
             l.from = r /\ Keeps(l, b, events[r], now[r], pc[r] = "callback", l \in busy)
               => Keeps(l, b, events'[r], now'[r], pc'[r] = "callback", l \in busy')
    PROVE  IInv'
<1>1. PICK promised \in History, reached \in [Ranks -> Nat] : Bounds(promised, reached)
  BY DEF IInv
<1>2. Channels(promised, reached)'
  BY <1>1 DEF Bounds, Channels
<1>3. now'[r] <= reached[r] /\ safe'[r] <= reached[r]
  <2>1. now[r] \in Nat /\ now'[r] \in Nat /\ safe[r] \in Nat
    BY DEF IInv, TypeOK
  <2> QED BY <1>1, <2>1 DEF Bounds, Clocks
<1>4. ASSUME NEW l \in Links, l.from = r
      PROVE  Keeps(l, promised[r][l.to], events'[r], now'[r], pc'[r] = "callback", l \in busy')
  <2>1. promised[r][l.to] \in Nat
    BY LinkTypes DEF History
  <2> QED BY <1>1, <1>4, <2>1 DEF Bounds, KeepsOf
<1>5. Lists
  BY DEF IInv
<1>6. StepOf(r, promised, reached, promised, reached)
  BY <1>2, <1>3, <1>4 DEF StepOf
<1> QED BY <1>1, <1>5, <1>6, RankStep

(* What a link keeps for the callbacks of a list it keeps at their times. *)
LEMMA KeepsWhenCalled ==
    ASSUME NEW l \in Links, NEW b \in Nat, NEW list \in Seq(Events), NEW t, NEW e \in Members(list),
           NEW rest \in Seq(Events), Members(rest) \subseteq Members(list),
           \A x \in Members(list) : e.ts <= x.ts, CallsBack(e),
           NEW z, NEW z2, z2 <=> (z /\ ~(e.kind = "complete" /\ e.arg = l)),
           Keeps(l, b, list, t, FALSE, z)
    PROVE  Keeps(l, b, rest, e.ts, TRUE, z2)
<1>1. l.tx \subseteq Nat /\ l.delay \in Nat /\ \A x \in Members(list) : x.ts \in Nat
  BY LinkTypes, ListEvents
<1>2. CASE z2
  BY <1>2 DEF Keeps
<1>3. CASE ~z2
  <2>1. ASSUME NEW y \in l.tx PROVE b <= e.ts + y + l.delay
    BY <1>3 DEF Keeps, CallsBack
  <2>2. ASSUME NEW y \in l.tx, NEW x \in Members(rest) PROVE b <= x.ts + y + l.delay
    <3>1. x.ts \in Nat /\ e.ts \in Nat /\ e.ts <= x.ts /\ b <= e.ts + y + l.delay
      BY <1>1, <2>1
    <3> QED BY <1>1, <3>1
  <2> QED BY <1>3, <2>1, <2>2 DEF Keeps
<1> QED BY <1>2, <1>3

(* ProcessOneEvent of any other event. *)
LEMMA CallbackInvariant ==
    ASSUME IInv, NEW r \in Ranks, ProcessOneEvent(r), Head(events[r]).kind # "null"
    PROVE  IInv'
<1> PICK list \in Seq(Events) : list = events[r]
  BY OfInvariant
<1> DEFINE e == Head(list)
           rest == Tail(list)
<1>1. /\ pc[r] = "loop" /\ list # << >> /\ e.ts <= safe[r]
      /\ now' = [now EXCEPT ![r] = e.ts] /\ UNCHANGED <<safe, guarantee>>
      /\ Callback(r, e)
  BY DEF ProcessOneEvent, Safe
<1>2. /\ TypeOK /\ Lists /\ Sorted(list) /\ \A x \in Members(list) : OfRank(x, r)
      /\ safe[r] \in Nat
  BY OfInvariant
<1>3. /\ rest \in Seq(Events) /\ Sorted(rest) /\ Members(list) = {e} \cup Members(rest)
      /\ e \in Events /\ e.ts \in Nat /\ \A x \in Members(list) : e.ts <= x.ts
  BY <1>1, <1>2, TailKeeps, EventTime
<1>4. e.kind \in {"app", "stop", "complete", "cancelled", "receive"}
  BY <1>3 DEF Events
<1>5. e.kind = "complete" => e.arg \in Links /\ e.arg.from = r
  BY <1>2, <1>3 DEF OfRank
<1> HIDE DEF e, rest
<1>6. events' = [events EXCEPT ![r] = rest] /\ UNCHANGED channel
  BY <1>1 DEF Callback, rest
<1>7. /\ pc' = [pc EXCEPT ![r] = pc'[r]] /\ pc'[r] \in {"callback", "receive", "stopped"}
      /\ pc'[r] = "callback" => CallsBack(e)
      /\ sending' = [sending EXCEPT ![r] = sending'[r]] /\ sending'[r] \in SUBSET Links
      /\ \A l \in sending'[r] : l.from = r
      /\ \A l \in Links : l \in busy' <=> (l \in busy /\ ~(e.kind = "complete" /\ e.arg = l))
  <2>0. /\ pc \in [Ranks -> {"loop", "callback", "receive", "stopped"}]
        /\ sending \in [Ranks -> SUBSET Links] /\ \A l \in sending[r] : l.from = r
    BY <1>2 DEF TypeOK
  <2>1. CASE e.kind \in {"app", "receive"}
    <3>1. /\ pc' = [pc EXCEPT ![r] = "callback"] /\ UNCHANGED busy
          /\ sending' = [sending EXCEPT ![r] = {l \in Links : l.from = r}]
      BY <1>1, <2>1 DEF Callback
    <3> QED BY <2>0, <2>1, <3>1 DEF CallsBack
  <2>2. CASE e.kind = "complete"
    <3>1. /\ pc' = [pc EXCEPT ![r] = "callback"] /\ busy' = busy \ {e.arg}
          /\ sending' = [sending EXCEPT ![r] = {e.arg}]
      BY <1>1, <2>2 DEF Callback
    <3> QED BY <1>5, <2>0, <2>2, <3>1 DEF CallsBack
  <2>3. CASE e.kind = "cancelled"
    <3>1. pc' = [pc EXCEPT ![r] = "receive"] /\ UNCHANGED <<busy, sending>>
      BY <1>1, <2>3 DEF Callback
    <3> QED BY <2>0, <2>3, <3>1
  <2>4. CASE e.kind = "stop"
    <3>1. pc' = [pc EXCEPT ![r] = "stopped"] /\ UNCHANGED <<busy, sending>>
      BY <1>1, <2>4 DEF Callback
    <3> QED BY <2>0, <2>4, <3>1
  <2> QED BY <1>4, <2>1, <2>2, <2>3, <2>4
<1>8. /\ events'[r] = rest /\ now'[r] = e.ts
      /\ \A x \in Ranks \ {r} : /\ pc'[x] = pc[x] /\ now'[x] = now[x] /\ events'[x] = events[x]
                                /\ sending'[x] = sending[x]
  BY <1>1, <1>2, <1>6, <1>7 DEF TypeOK
<1>9. TypeOK'
  <2>1. pc' \in [Ranks -> {"loop", "callback", "receive", "stopped"}]
    BY <1>2, <1>7 DEF TypeOK
  <2>2. sending' \in [Ranks -> SUBSET Links]
    BY <1>2, <1>7 DEF TypeOK
  <2>3. \A x \in Ranks : \A l \in sending'[x] : l.from = x
    BY <1>2, <1>7, <1>8 DEF TypeOK
  <2> QED BY <1>1, <1>2, <1>3, <1>6, <2>1, <2>2, <2>3 DEF TypeOK
<1>10. ListOfRank(rest, r, e.ts)
  BY <1>2, <1>3 DEF ListOfRank
<1>11. \A l \in Links : l.from # r => (l \in busy' <=> l \in busy)
  BY <1>5, <1>7
<1>12. ASSUME NEW l \in Links, NEW b \in Nat, Keeps(l, b, list, now[r], FALSE, l \in busy)
       PROVE  Keeps(l, b, rest, e.ts, pc'[r] = "callback", l \in busy')
  <2>1. CASE CallsBack(e)
    <3>1. Keeps(l, b, rest, e.ts, TRUE, l \in busy')
      BY <1>3, <1>7, <1>12, <2>1, KeepsWhenCalled
    <3> QED BY <3>1 DEF Keeps
  <2>2. CASE ~CallsBack(e)
    <3>1. l \in busy' <=> l \in busy
      BY <1>7, <2>2 DEF CallsBack
    <3>2. Keeps(l, b, rest, e.ts, FALSE, l \in busy)
      BY <1>3, <1>12, KeepsList
    <3> QED BY <1>7, <2>2, <3>1, <3>2 DEF Keeps
  <2> QED BY <2>1, <2>2
<1>13. now'[r] <= safe[r] /\ pc[r] # "callback"
  BY <1>1, <1>8
<1>14. ASSUME NEW l \in Links, NEW b \in Nat, l.from = r,
              Keeps(l, b, events[r], now[r], pc[r] = "callback", l \in busy)
       PROVE  Keeps(l, b, events'[r], now'[r], pc'[r] = "callback", l \in busy')
  <2>1. Keeps(l, b, list, now[r], FALSE, l \in busy)
    BY <1>13, <1>14 DEF Keeps
  <2> QED BY <1>8, <1>12, <2>1
<1> QED BY <1>1, <1>6, <1>8, <1>9, <1>10, <1>11, <1>13, <1>14, LocalInvariant

(* Schedule in a callback: every link keeps its promise at the present. *)
LEMMA ScheduleInvariant ==
    ASSUME IInv, NEW r \in Ranks, NEW delay \in LocalDelays, ScheduleLocal(r, delay)
    PROVE  IInv'
<1> PICK list \in Seq(Events) : list = events[r]
  BY OfInvariant
<1> PICK t \in Nat : t = now[r]
  BY OfInvariant
<1> DEFINE z == Event(t + delay, "app", r)
<1>1. /\ pc[r] = "callback" /\ events' = [events EXCEPT ![r] = Insert(list, z)]
      /\ UNCHANGED <<pc, now, safe, guarantee, busy, sending, channel>>
  BY DEF ScheduleLocal
<1>2. /\ TypeOK /\ Sorted(list) /\ \A x \in Members(list) : t <= x.ts /\ OfRank(x, r)
  BY OfInvariant
<1>3. z \in Events /\ z.kind = "app" /\ z.ts = t + delay /\ delay \in Nat
  BY NullMessageAssumption DEF Event, Events
<1> HIDE DEF z
<1>4. PICK new \in Seq(Events) : /\ new = Insert(list, z) /\ Sorted(new)
                                 /\ Members(new) = Members(list) \cup {z}
  BY <1>2, <1>3, InsertKeeps
<1>5. ListOfRank(new, r, t)
  BY <1>2, <1>3, <1>4 DEF ListOfRank, OfRank
<1>6. events'[r] = new /\ \A x \in Ranks \ {r} : events'[x] = events[x]
  BY <1>1, <1>2, <1>4 DEF TypeOK
<1>7. TypeOK'
  BY <1>1, <1>2, <1>4 DEF TypeOK
<1>8. ASSUME NEW l \in Links, NEW b \in Nat, Keeps(l, b, list, t, TRUE, l \in busy)
      PROVE  Keeps(l, b, new, t, TRUE, l \in busy)
  <2>1. l.tx \subseteq Nat /\ l.delay \in Nat
    BY LinkTypes
  <2>2. ASSUME NEW y \in l.tx, l \notin busy PROVE b <= z.ts + y + l.delay
    <3>1. b <= t + y + l.delay /\ y \in Nat
      BY <1>8, <2>1, <2>2 DEF Keeps
    <3>2. b <= (t + delay) + y + l.delay
      BY <1>3, <2>1, <3>1, LaterStart
    <3> QED BY <1>3, <3>2
  <2> QED BY <1>3, <1>4, <1>8, <2>2 DEF Keeps
<1>9. ASSUME NEW l \in Links, NEW b \in Nat,
             Keeps(l, b, events[r], now[r], pc[r] = "callback", l \in busy)
      PROVE  Keeps(l, b, events'[r], now'[r], pc'[r] = "callback", l \in busy')
  <2>1. Keeps(l, b, list, t, TRUE, l \in busy)
    BY <1>1, <1>9 DEF Keeps
  <2>2. Keeps(l, b, new, t, TRUE, l \in busy)
    BY <1>8, <2>1
  <2> QED BY <1>1, <1>6, <2>2 DEF Keeps
<1>10. ListOfRank(events'[r], r, now'[r])
  BY <1>1, <1>5, <1>6
<1>11. now'[r] <= now[r]
  BY <1>1
<1> QED BY <1>1, <1>6, <1>7, <1>9, <1>10, <1>11, LocalInvariant

(* The end of a callback. *)
LEMMA EndInvariant ==
    ASSUME IInv, NEW r \in Ranks, EndCallback(r)
    PROVE  IInv'
<1>1. /\ pc' = [pc EXCEPT ![r] = "receive"] /\ sending' = [sending EXCEPT ![r] = {}]
      /\ UNCHANGED <<now, events, safe, guarantee, busy, channel>>
  BY DEF EndCallback
<1>2. TypeOK /\ Lists /\ now[r] \in Nat
  BY OfInvariant
<1>3. TypeOK'
  BY <1>1, <1>2 DEF TypeOK
<1>4. pc'[r] # "callback" /\ \A x \in Ranks \ {r} : pc'[x] = pc[x]
  BY <1>1, <1>2 DEF TypeOK
<1>5. ListOfRank(events'[r], r, now'[r])
  BY <1>1, <1>2 DEF Lists
<1>6. ASSUME NEW l \in Links, NEW b \in Nat,
             Keeps(l, b, events[r], now[r], pc[r] = "callback", l \in busy)
      PROVE  Keeps(l, b, events'[r], now'[r], pc'[r] = "callback", l \in busy')
  BY <1>1, <1>4, <1>6 DEF Keeps
<1> QED BY <1>1, <1>2, <1>3, <1>4, <1>5, <1>6, LocalInvariant

(* TransmitStart: other links to the same rank are slow enough, or busy. *)
LEMMA TransmitInvariant ==
    ASSUME IInv, ParallelLinksFit, NEW r \in Ranks, NEW l \in Links, NEW tx \in l.tx,
           TransmitStart(r, l, tx)
    PROVE  IInv'
<1> PICK list \in Seq(Events) : list = events[r]
  BY OfInvariant
<1> PICK t \in Nat : t = now[r]
  BY OfInvariant
<1> DEFINE s == l.to
           z == Event(t + tx, "complete", l)
           mid == Insert(list, z)
           p == GuaranteeTime(r, s, mid)
           m == [rx |-> t + tx + l.delay, guarantee |-> p]
           cancelled == CancelNull(s, mid)
           n == Event(t + Delay(r, s), "null", s)
<1>1. /\ pc[r] = "callback" /\ l \in sending[r] /\ l \notin busy /\ busy' = busy \cup {l}
      /\ channel' = [channel EXCEPT ![r][s] = Append(@, m)]
      /\ events' = [events EXCEPT ![r] = Insert(cancelled, n)]
      /\ UNCHANGED <<pc, now, safe, guarantee, sending>>
  BY DEF TransmitStart
<1>2. /\ TypeOK /\ Lists /\ Sorted(list) /\ \A x \in Members(list) : t <= x.ts /\ OfRank(x, r)
      /\ safe[r] \in Nat
  BY OfInvariant
<1>3. l.from = r
  BY <1>1, <1>2 DEF TypeOK
<1>4. /\ s \in Neighbours(r) /\ s \in Ranks /\ tx \in Nat /\ l.delay \in Nat
      /\ Delay(r, s) \in Nat
  BY <1>3, LinkTypes, DelayIsLeast
<1>5. z \in Events /\ z.ts = t + tx /\ z.kind = "complete" /\ z.arg = l
  BY <1>4 DEF Event, Events
<1>6. mid \in Seq(Events) /\ Sorted(mid) /\ Members(mid) = Members(list) \cup {z}
  <2> HIDE DEF z
  <2> QED BY <1>2, <1>5, InsertKeeps
<1>7. /\ p \in Nat /\ p <= safe[r] + Delay(r, s)
      /\ \A x \in Members(mid) : p <= x.ts + Delay(r, s)
  <2> HIDE DEF mid, s
  <2>1. mid # << >>
    <3>1. PICK k \in 1 .. Len(mid) : z = mid[k]
      BY <1>6 DEF Members
    <3>2. Len(mid) # 0
      BY <3>1
    <3> QED BY <3>2
  <2> QED BY <1>2, <1>4, <1>6, <2>1, GuaranteeIsLeast
<1>8. m \in Messages /\ m.rx = t + tx + l.delay /\ m.guarantee = p
  <2> HIDE DEF p
  <2> QED BY <1>4, <1>7 DEF Messages
<1>9. n \in Events /\ n.kind = "null" /\ n.arg = s /\ t <= n.ts
  BY <1>4 DEF Event, Events
<1> HIDE DEF s, z, mid, p, m, n
<1>10. /\ cancelled \in Seq(Events) /\ Sorted(cancelled)
       /\ \A x \in Members(cancelled) : \E e \in Members(mid) :
            x.ts = e.ts /\ (x.kind = "cancelled" \/ x = e)
  BY <1>6, CancelKeeps
<1> HIDE DEF cancelled
<1>11. PICK new \in Seq(Events) : /\ new = Insert(cancelled, n) /\ Sorted(new)
                                  /\ Members(new) = Members(cancelled) \cup {n}
  BY <1>9, <1>10, InsertKeeps
<1>12. \A x \in Members(mid) : x.ts \in Nat /\ t <= x.ts /\ OfRank(x, r)
  <2>1. OfRank(z, r) /\ t <= z.ts
    BY <1>3, <1>4, <1>5 DEF OfRank
  <2> QED BY <1>2, <1>6, <2>1, ListEvents
<1>13. ListOfRank(new, r, t)
  <2>1. ASSUME NEW x \in Members(cancelled) PROVE t <= x.ts /\ OfRank(x, r)
    BY <1>10, <1>12, <2>1 DEF OfRank
  <2>2. t <= n.ts /\ OfRank(n, r)
    BY <1>4, <1>9 DEF OfRank
  <2> QED BY <1>11, <2>1, <2>2 DEF ListOfRank
<1>14. \A x \in Members(new) : CallsBack(x) => x \in Members(mid)
  BY <1>9, <1>10, <1>11 DEF CallsBack
<1>15. PICK promised \in History, reached \in [Ranks -> Nat] : Bounds(promised, reached)
  BY DEF IInv
<1>16. ASSUME NEW k \in Links, k.from = r
       PROVE  /\ Keeps(k, promised[r][k.to], list, t, TRUE, k \in busy)
              /\ promised[r][k.to] \in Nat /\ k.tx \subseteq Nat /\ k.delay \in Nat
  <2>1. KeepsOf(k, promised) /\ k.to \in Ranks /\ k.tx \subseteq Nat /\ k.delay \in Nat
    BY <1>15, LinkTypes DEF Bounds
  <2>2. Keeps(k, promised[r][k.to], list, t, TRUE, k \in busy)
    BY <1>1, <1>16, <2>1 DEF KeepsOf, Keeps
  <2> QED BY <2>1, <2>2 DEF History
<1>17. promised[r][s] <= m.rx
  <2>1. promised[r][s] <= t + tx + l.delay
    BY <1>1, <1>3, <1>16 DEF Keeps, s
  <2> QED BY <1>8, <2>1
<1>18. /\ FunctionOn(channel', Ranks)
       /\ \A x \in Ranks : channel'[x] \in [Neighbours(x) -> Seq(Messages)]
       /\ \E promised2 \in History :
            /\ promised2[r][s] \in {promised[r][s], m.guarantee}
            /\ \A y \in Ranks \ {s} : promised2[r][y] = promised[r][y]
            /\ \A x \in Ranks \ {r} : promised2[x] = promised[x]
            /\ Channels(promised2, reached)'
  <2>1. m.guarantee <= safe[r] + Delay(r, s)
    BY <1>7, <1>8
  <2>2. m.rx > 0 => promised[r][s] <= m.rx
    BY <1>17
  <2>3. Sending(r, s, m)
    BY <1>1 DEF Sending
  <2>4. TypeOK
    BY <1>2
  <2> QED BY <1>4, <1>8, <1>15, <2>1, <2>2, <2>3, <2>4, SendChannels, ZenonT(60)
<1>19. PICK promised2 \in History :
            /\ promised2[r][s] \in {promised[r][s], p}
            /\ \A y \in Ranks \ {s} : promised2[r][y] = promised[r][y]
            /\ \A x \in Ranks \ {r} : promised2[x] = promised[x]
            /\ Channels(promised2, reached)'
  BY <1>8, <1>18
<1>20. /\ events'[r] = new /\ now'[r] = t /\ pc'[r] = "callback"
       /\ \A x \in Ranks \ {r} : /\ pc'[x] = pc[x] /\ now'[x] = now[x] /\ safe'[x] = safe[x]
                                 /\ events'[x] = events[x]
  BY <1>1, <1>2, <1>11 DEF TypeOK
<1>21. TypeOK'
  BY <1>1, <1>2, <1>11, <1>18 DEF TypeOK
<1>22. now'[r] <= reached[r] /\ safe'[r] <= reached[r]
  BY <1>1, <1>15 DEF Bounds, Clocks
<1>23. ASSUME NEW k \in Links, k.from = r
       PROVE  Keeps(k, promised[r][k.to], mid, t, TRUE, k \in busy')
  <2> PICK b \in Nat : b = promised[r][k.to]
    BY <1>16, <1>23
  <2>1. Keeps(k, b, list, t, TRUE, k \in busy) /\ k.tx \subseteq Nat /\ k.delay \in Nat
    BY <1>16, <1>23
  <2>2. ASSUME NEW y \in k.tx, b <= t + y + k.delay PROVE b <= z.ts + y + k.delay
    <3>1. y \in Nat /\ k.delay \in Nat /\ tx \in Nat
      BY <1>4, <2>1
    <3>2. b <= (t + tx) + y + k.delay
      BY <2>2, <3>1, LaterStart
    <3> QED BY <1>5, <3>2
  <2>3. CASE k = l
    <3>1. \A y \in k.tx : /\ b <= t + y + k.delay
                          /\ \A e \in Members(list) : e.kind = "complete" => b <= e.ts + y + k.delay
      BY <1>1, <2>1, <2>3 DEF Keeps, CallsBack
    <3> QED BY <1>1, <1>6, <2>2, <2>3, <3>1 DEF Keeps
  <2>4. CASE k # l /\ k \in busy
    <3>1. ~(z.arg = k)
      BY <1>5, <2>4
    <3> QED BY <1>1, <1>6, <2>1, <2>4, <3>1 DEF Keeps
  <2>5. CASE k # l /\ k \notin busy
    <3>1. \A y \in k.tx : b <= t + y + k.delay /\ b <= z.ts + y + k.delay
      BY <2>1, <2>2, <2>5 DEF Keeps
    <3> QED BY <1>1, <1>6, <2>1, <2>5, <3>1 DEF Keeps
  <2> QED BY <2>3, <2>4, <2>5
<1>24. ASSUME NEW k \in Links, k.from = r, k.to = s
       PROVE  Keeps(k, p, mid, t, TRUE, k \in busy')
  <2>1. k.tx \subseteq Nat /\ k.delay \in Nat /\ Delay(r, s) <= k.delay
    BY <1>4, <1>24, LinkTypes, DelayIsLeast
  <2>2. ASSUME NEW y \in k.tx, NEW e \in Members(mid) PROVE p <= e.ts + y + k.delay
    <3>1. e.ts \in Nat /\ p <= e.ts + Delay(r, s) /\ y \in Nat
      BY <1>7, <1>12, <2>1
    <3> QED BY <1>4, <1>7, <2>1, <3>1
  <2>3. ASSUME NEW y \in k.tx, k \notin busy' PROVE p <= t + y + k.delay
    <3>1. k # l /\ l.from = k.from /\ l.to = k.to
      BY <1>1, <1>3, <1>24, <2>3 DEF s
    <3>2. tx + Delay(r, s) <= y + k.delay
      BY <1>3, <2>3, <3>1 DEF ParallelLinksFit, s
    <3>3. p <= z.ts + Delay(r, s)
      BY <1>6, <1>7
    <3>4. y \in Nat /\ k.delay \in Nat /\ p \in Nat /\ Delay(r, s) \in Nat /\ tx \in Nat
      BY <1>4, <1>7, <2>1
    <3>5. p <= (t + tx) + Delay(r, s)
      BY <1>5, <3>3
    <3> QED BY <3>2, <3>4, <3>5, SlowerLink
  <2> QED BY <2>2, <2>3 DEF Keeps
<1>25. ASSUME NEW k \in Links, k.from = r
       PROVE  Keeps(k, promised2[r][k.to], events'[r], now'[r], pc'[r] = "callback", k \in busy')
  <2>1. Keeps(k, promised2[r][k.to], mid, t, TRUE, k \in busy')
    <3>1. CASE k.to = s
      BY <1>19, <1>23, <1>24, <1>25, <3>1, KeepsEither
    <3>2. CASE k.to # s
      BY <1>19, <1>23, <1>25, <3>2, LinkTypes
    <3> QED BY <3>1, <3>2
  <2>2. Keeps(k, promised2[r][k.to], new, t, TRUE, k \in busy')
    BY <1>14, <2>1, KeepsList
  <2> QED BY <1>20, <2>2 DEF Keeps
<1>26. \A k \in Links : k.from # r => (k \in busy' <=> k \in busy)
  BY <1>1, <1>3
<1>27. Lists /\ ListOfRank(events'[r], r, now'[r])
  BY <1>2, <1>13, <1>20
<1>28. \A x \in Ranks \ {r} :
         /\ pc'[x] = pc[x] /\ now'[x] = now[x] /\ safe'[x] = safe[x] /\ events'[x] = events[x]
         /\ promised2[x] = promised[x] /\ reached[x] = reached[x]
  BY <1>19, <1>20
<1>29. Channels(promised2, reached)'
  BY <1>19
<1>30. StepOf(r, promised, reached, promised2, reached)
  BY <1>22, <1>25, <1>26, <1>27, <1>28, <1>29 DEF StepOf
<1> QED BY <1>15, <1>21, <1>27, <1>30, RankStep

(* ReceiveMessage. *)
LEMMA ReceiveInvariant ==
    ASSUME IInv, NEW r \in Ranks, NEW s \in Neighbours(r), ReceiveMessage(r, s)
    PROVE  IInv'
<1> PICK list \in Seq(Events) : list = events[r]
  BY OfInvariant
<1> PICK t \in Nat : t = now[r]
  BY OfInvariant
<1>0. s \in Ranks /\ r \in Neighbours(s) /\ channel[s] \in [Neighbours(s) -> Seq(Messages)]
  BY OfInvariant, LinkTypes DEF TypeOK
<1> PICK ch \in Seq(Messages) : ch = channel[s][r]
  BY <1>0
<1> DEFINE m == Head(ch)
<1>1. /\ pc[r] # "callback" /\ ch # << >>
      /\ events' = [events EXCEPT ![r] =
                        IF m.rx > 0 THEN Insert(list, Event(m.rx, "receive", s)) ELSE list]
      /\ guarantee' = [guarantee EXCEPT ![r][s] = m.guarantee]
      /\ channel' = [channel EXCEPT ![s][r] = Tail(@)]
      /\ safe' = safe \/ safe' = [safe EXCEPT ![r] = SafeTime(guarantee'[r])]
      /\ UNCHANGED <<pc, now, busy, sending>>
  BY DEF ReceiveMessage, Blocks
<1>2. /\ TypeOK /\ Lists /\ Sorted(list) /\ \A x \in Members(list) : t <= x.ts /\ OfRank(x, r)
      /\ safe[r] \in Nat
  BY OfInvariant
<1>3. s \in Ranks /\ s # r /\ r \in Neighbours(s)
  BY LinkTypes
<1>4. PICK promised \in History, reached \in [Ranks -> Nat] : Bounds(promised, reached)
  BY DEF IInv
<1>5. PICK g \in Nat : g = guarantee[r][s]
  BY <1>2 DEF TypeOK
<1>6. PICK b \in Nat : b = promised[s][r]
  BY <1>3 DEF History
<1>7. PICK c \in Nat : c = reached[r]
  OBVIOUS
<1>8. Carries(ch, g, b, c)
  BY <1>3, <1>4, <1>5, <1>6, <1>7 DEF Bounds, Channels
<1>9. /\ m \in Messages /\ m.rx \in Nat /\ m.guarantee \in Nat /\ Tail(ch) \in Seq(Messages)
      /\ m.rx > 0 => c <= m.rx
      /\ Carries(Tail(ch), m.guarantee, b, c)
  BY <1>1, <1>8, TailCarries, MessageTimes
<1> DEFINE z == Event(m.rx, "receive", s)
<1>10. z \in Events /\ z.kind = "receive" /\ z.ts = m.rx
  BY <1>3, <1>9 DEF Event, Events
<1> HIDE DEF m, z
<1>11. t <= c /\ safe[r] <= c
  BY <1>4, <1>7 DEF Bounds, Clocks
<1>12. PICK new \in Seq(Events) :
            /\ new = IF m.rx > 0 THEN Insert(list, z) ELSE list
            /\ Sorted(new) /\ Members(list) \subseteq Members(new)
            /\ \A x \in Members(new) : x \in Members(list) \/ (x = z /\ c <= z.ts)
  <2>1. CASE m.rx > 0
    <3>1. /\ Insert(list, z) \in Seq(Events) /\ Sorted(Insert(list, z))
          /\ Members(Insert(list, z)) = Members(list) \cup {z}
      BY <1>2, <1>10, InsertKeeps
    <3> QED BY <1>9, <1>10, <2>1, <3>1
  <2>2. CASE ~(m.rx > 0)
    BY <1>2, <2>2
  <2> QED BY <2>1, <2>2
<1>13. ListOfRank(new, r, t)
  <2>1. ASSUME NEW x \in Members(new) PROVE t <= x.ts /\ OfRank(x, r)
    <3>1. CASE x \in Members(list)
      BY <1>2, <3>1
    <3>2. CASE x = z /\ c <= z.ts
      BY <1>9, <1>10, <1>11, <3>2 DEF OfRank
    <3> QED BY <1>12, <3>1, <3>2
  <2> QED BY <1>12, <2>1 DEF ListOfRank
<1>14. PICK got \in [Neighbours(r) -> Nat] : got = guarantee[r]
  BY <1>2 DEF TypeOK
<1>15. PICK row \in [Neighbours(s) -> Seq(Messages)] : row = channel[s]
  BY <1>2, <1>3 DEF TypeOK
<1>16. /\ guarantee'[r] = [got EXCEPT ![s] = m.guarantee]
       /\ guarantee'[r] \in [Neighbours(r) -> Nat]
       /\ guarantee'[r][s] = m.guarantee
       /\ \A x \in Neighbours(r) \ {s} : guarantee'[r][x] = guarantee[r][x]
       /\ \A x \in Ranks \ {r} : guarantee'[x] = guarantee[x]
       /\ FunctionOn(guarantee', Ranks)
  BY <1>1, <1>2, <1>9, <1>14 DEF TypeOK, FunctionOn, m
<1>17. /\ channel'[s] = [row EXCEPT ![r] = Tail(@)]
       /\ \A x \in Ranks \ {s} : channel'[x] = channel[x]
       /\ FunctionOn(channel', Ranks)
  BY <1>1, <1>2, <1>3, <1>15 DEF TypeOK, FunctionOn
<1>18. /\ channel'[s] \in [Neighbours(s) -> Seq(Messages)]
       /\ channel'[s][r] = Tail(ch)
       /\ \A x \in Neighbours(s) \ {r} : channel'[s][x] = channel[s][x]
  BY <1>3, <1>9, <1>15, <1>17
<1>19. PICK f \in Nat : /\ f = safe'[r] /\ safe' = [safe EXCEPT ![r] = f]
                        /\ f <= c \/ \A x \in Neighbours(r) : f <= guarantee'[r][x]
  <2>1. CASE safe' = safe
    BY <1>2, <1>11, <2>1 DEF TypeOK
  <2>2. CASE safe' = [safe EXCEPT ![r] = SafeTime(guarantee'[r])]
    <3>1. PICK h \in [Neighbours(r) -> Nat] : h = guarantee'[r]
      BY <1>16
    <3>2. SafeTime(h) \in Nat /\ \A x \in Neighbours(r) : SafeTime(h) <= h[x]
      BY SafeTimeIsLeast
    <3> QED BY <1>2, <2>2, <3>1, <3>2 DEF TypeOK
  <2> QED BY <1>1, <2>1, <2>2
<1>20. events' = [events EXCEPT ![r] = new]
  BY <1>1, <1>12 DEF m, z
<1>21. TypeOK'
  <2>1. /\ events' \in [Ranks -> Seq(Events)] /\ safe' \in [Ranks -> Nat]
        /\ UNCHANGED <<pc, now, sending>>
    BY <1>1, <1>2, <1>19, <1>20 DEF TypeOK
  <2>2. \A x \in Ranks : /\ guarantee'[x] \in [Neighbours(x) -> Nat]
                         /\ channel'[x] \in [Neighbours(x) -> Seq(Messages)]
    BY <1>2, <1>16, <1>17, <1>18 DEF TypeOK
  <2> QED BY <1>2, <1>16, <1>17, <2>1, <2>2 DEF TypeOK
<1>22. Channels(promised, reached)'
  <2> SUFFICES ASSUME NEW x \in Ranks, NEW y \in Neighbours(x)
               PROVE  /\ Carries(channel'[x][y], guarantee'[y][x], promised[x][y], reached[y])
                      /\ promised[x][y] <= reached[x] + Delay(x, y)
    BY DEF Channels
  <2>1. y \in Ranks /\ x \in Neighbours(y)
    BY LinkTypes
  <2>2. /\ Carries(channel[x][y], guarantee[y][x], promised[x][y], reached[y])
        /\ promised[x][y] <= reached[x] + Delay(x, y)
    BY <1>4 DEF Bounds, Channels
  <2>3. CASE x = s /\ y = r
    BY <1>6, <1>7, <1>9, <1>16, <1>18, <2>2, <2>3
  <2>4. CASE ~(x = s /\ y = r)
    <3>1. channel'[x][y] = channel[x][y]
      BY <1>17, <1>18, <2>4
    <3>2. guarantee'[y][x] = guarantee[y][x]
      BY <1>16, <2>1, <2>4
    <3> QED BY <2>2, <3>1, <3>2
  <2> QED BY <2>3, <2>4
<1>23. PICK reached2 \in [Ranks -> Nat] :
            /\ safe'[r] <= reached2[r] /\ reached[r] <= reached2[r]
            /\ \A x \in Ranks \ {r} : reached2[x] = reached[x]
            /\ Channels(promised, reached2)'
  BY <1>7, <1>19, <1>21, <1>22, SafeChannels
<1>24. /\ events'[r] = new /\ now'[r] = t /\ pc'[r] # "callback"
       /\ \A x \in Ranks \ {r} : /\ pc'[x] = pc[x] /\ now'[x] = now[x] /\ safe'[x] = safe[x]
                                 /\ events'[x] = events[x]
  BY <1>1, <1>2, <1>19, <1>20 DEF TypeOK
<1>25. now'[r] <= reached2[r]
  BY <1>7, <1>11, <1>23, <1>24
<1>26. ASSUME NEW l \in Links, l.from = r
       PROVE  Keeps(l, promised[r][l.to], events'[r], now'[r], pc'[r] = "callback", l \in busy')
  <2>1. /\ l.to \in Neighbours(r) /\ l.to \in Ranks /\ l.tx \subseteq Nat /\ l.delay \in Nat
        /\ Delay(r, l.to) \in Nat /\ Delay(r, l.to) <= l.delay
    BY <1>26, LinkTypes, DelayIsLeast
  <2>2. PICK a \in Nat : a = promised[r][l.to]
    BY <2>1 DEF History
  <2>3. Keeps(l, a, list, t, FALSE, l \in busy)
    BY <1>1, <1>4, <1>26, <2>2 DEF Bounds, KeepsOf, Keeps
  <2>4. a <= c + Delay(r, l.to)
    BY <1>4, <1>7, <2>1, <2>2 DEF Bounds, Channels
  <2>5. ASSUME NEW y \in l.tx, c <= z.ts PROVE a <= z.ts + y + l.delay
    <3>1. y \in Nat /\ z.ts \in Nat
      BY <1>9, <1>10, <2>1
    <3>2. PICK u \in Nat : u = z.ts
      BY <3>1
    <3>3. PICK w \in Nat : w = Delay(r, l.to) /\ w <= l.delay
      BY <2>1
    <3>4. a <= c + w /\ c <= u
      BY <2>4, <2>5, <3>2, <3>3
    <3>5. a <= u + y + l.delay
      BY <2>1, <3>1, <3>3, <3>4, LaterEvent
    <3> QED BY <3>2, <3>5
  <2>6. Keeps(l, a, new, t, FALSE, l \in busy)
    BY <1>10, <1>12, <2>3, <2>5 DEF Keeps
  <2> QED BY <1>1, <1>24, <2>2, <2>6 DEF Keeps
<1>27. Lists /\ ListOfRank(events'[r], r, now'[r])
  BY <1>2, <1>13, <1>24
<1>28. \A l \in Links : l.from # r => (l \in busy' <=> l \in busy)
  BY <1>1
<1>29. \A x \in Ranks \ {r} :
         /\ pc'[x] = pc[x] /\ now'[x] = now[x] /\ safe'[x] = safe[x] /\ events'[x] = events[x]
         /\ promised[x] = promised[x] /\ reached2[x] = reached[x]
  BY <1>23, <1>24
<1>30. safe'[r] <= reached2[r] /\ Channels(promised, reached2)'
  BY <1>23
<1>31. StepOf(r, promised, reached, promised, reached2)
  BY <1>25, <1>26, <1>27, <1>28, <1>29, <1>30 DEF StepOf
<1> QED BY <1>4, <1>21, <1>27, <1>31, RankStep

(* NoMoreMessages: the safe time of the guarantees. *)
LEMMA SafeTimeInvariant ==
    ASSUME IInv, NEW r \in Ranks, NoMoreMessages(r)
    PROVE  IInv'
<1>1. /\ safe' = [safe EXCEPT ![r] = SafeTime(guarantee[r])]
      /\ pc' = [pc EXCEPT ![r] = "loop"] /\ (pc[r] = "receive" \/ pc[r] = "loop")
      /\ UNCHANGED <<now, events, guarantee, busy, sending, channel>>
  BY DEF NoMoreMessages, Blocks
<1>2. TypeOK /\ Lists /\ now[r] \in Nat
  BY OfInvariant
<1>3. PICK h \in [Neighbours(r) -> Nat] : h = guarantee[r]
  BY <1>2 DEF TypeOK
<1>4. SafeTime(h) \in Nat /\ \A x \in Neighbours(r) : SafeTime(h) <= h[x]
  BY SafeTimeIsLeast
<1>5. /\ safe' \in [Ranks -> Nat] /\ \A x \in Neighbours(r) : safe'[r] <= guarantee'[r][x]
      /\ \A x \in Ranks \ {r} : safe'[x] = safe[x] /\ pc'[x] = pc[x]
      /\ pc'[r] = "loop"
  BY <1>1, <1>2, <1>3, <1>4 DEF TypeOK
<1>6. TypeOK'
  BY <1>1, <1>2, <1>5 DEF TypeOK
<1>7. PICK promised \in History, reached \in [Ranks -> Nat] : Bounds(promised, reached)
  BY DEF IInv
<1>8. Channels(promised, reached)'
  BY <1>1, <1>7 DEF Bounds, Channels
<1>9. PICK reached2 \in [Ranks -> Nat] :
            /\ safe'[r] <= reached2[r] /\ reached[r] <= reached2[r]
            /\ \A x \in Ranks \ {r} : reached2[x] = reached[x]
            /\ Channels(promised, reached2)'
  BY <1>5, <1>6, <1>8, SafeChannels
<1>10. now'[r] <= reached2[r]
  <2>1. now[r] <= reached[r]
    BY <1>7 DEF Bounds, Clocks
  <2> QED BY <1>1, <1>2, <1>9, <2>1
<1>11. ASSUME NEW l \in Links, l.from = r
       PROVE  Keeps(l, promised[r][l.to], events'[r], now'[r], pc'[r] = "callback", l \in busy')
  BY <1>1, <1>5, <1>7, <1>11 DEF Bounds, KeepsOf, Keeps
<1>12. Lists /\ ListOfRank(events'[r], r, now'[r])
  BY <1>1, <1>2 DEF Lists
<1>13. \A x \in Ranks \ {r} : /\ pc'[x] = pc[x] /\ now'[x] = now[x] /\ safe'[x] = safe[x]
                              /\ events'[x] = events[x]
  BY <1>1, <1>5
<1>14. \A l \in Links : l.from # r => (l \in busy' <=> l \in busy)
  BY <1>1
<1>15. StepOf(r, promised, reached, promised, reached2)
  BY <1>9, <1>10, <1>11, <1>12, <1>13, <1>14 DEF StepOf
<1> QED BY <1>6, <1>7, <1>12, <1>15, RankStep

-----------------------------------------------------------------------------
(* Every step keeps the ranks in step. *)
LEMMA StepInvariant ==
    ASSUME ParallelLinksFit, IInv, [Next]_vars
    PROVE  IInv'
<1>1. CASE UNCHANGED vars
  <2>1. UNCHANGED <<pc, now, events, safe, guarantee, busy, sending, channel>>
    BY <1>1 DEF vars
  <2>2. TypeOK' /\ Lists'
    BY <2>1 DEF IInv, TypeOK, Lists
  <2>3. PICK promised \in History, reached \in [Ranks -> Nat] : Bounds(promised, reached)
    BY DEF IInv
  <2>4. Bounds(promised, reached)'
    BY <2>1, <2>3 DEF Bounds, Channels, Clocks, KeepsOf
  <2> QED BY <2>2, <2>4 DEF IInv
<1>2. CASE Next
  <2>1. PICK r \in Ranks : Run(r)
    BY <1>2 DEF Next
  <2>2. CASE ProcessOneEvent(r)
    BY <2>2, NullMessageInvariant, CallbackInvariant
  <2>3. CASE EndCallback(r)
    BY <2>3, EndInvariant
  <2>4. ASSUME NEW l \in Links, NEW tx \in l.tx, TransmitStart(r, l, tx) PROVE IInv'
    BY <2>4, TransmitInvariant
  <2>5. ASSUME NEW delay \in LocalDelays, ScheduleLocal(r, delay) PROVE IInv'
    BY <2>5, ScheduleInvariant
  <2>6. CASE NoMoreMessages(r)
    BY <2>6, SafeTimeInvariant
  <2>7. ASSUME NEW s \in Neighbours(r), ReceiveMessage(r, s) PROVE IInv'
    BY <2>7, ReceiveInvariant
  <2> QED BY <2>1, <2>2, <2>3, <2>4, <2>5, <2>6, <2>7 DEF Run
<1> QED BY <1>1, <1>2

(* What the invariant says of the messages on their way and the events. *)
LEMMA InvariantImplies == IInv => GuaranteeHonoured /\ NeverBehind
<1> SUFFICES ASSUME IInv PROVE GuaranteeHonoured /\ NeverBehind
  OBVIOUS
<1>0. PICK promised \in History, reached \in [Ranks -> Nat] : Bounds(promised, reached)
  BY DEF IInv
<1>1. ASSUME NEW r \in Ranks, NEW s \in Neighbours(r), NEW m \in Arriving(r, s), m.rx > 0
      PROVE  m.rx >= guarantee[r][s] /\ m.rx >= now[r]
  <2>1. s \in Ranks /\ r \in Neighbours(s)
    BY LinkTypes
  <2>2. PICK ch \in Seq(Messages) : ch = channel[s][r]
    BY <2>1 DEF IInv, TypeOK
  <2>3. PICK k \in 1 .. Len(ch) : m = ch[k]
    BY <2>2 DEF Arriving
  <2>4. Carries(ch, guarantee[r][s], promised[s][r], reached[r])
    BY <1>0, <2>1, <2>2 DEF Bounds, Channels
  <2>5. guarantee[r][s] <= m.rx /\ reached[r] <= m.rx /\ m \in Messages
    BY <1>1, <2>3, <2>4 DEF Carries
  <2>6. now[r] \in Nat /\ reached[r] \in Nat /\ now[r] <= reached[r] /\ guarantee[r][s] \in Nat
    BY <1>0 DEF IInv, TypeOK, Bounds, Clocks
  <2>7. m.rx \in Nat
    BY <2>5, MessageTimes
  <2> QED BY <2>5, <2>6, <2>7
<1>2. ASSUME NEW r \in Ranks, NEW k \in DOMAIN events[r] PROVE events[r][k].ts >= now[r]
  <2>1. events[r] \in Seq(Events) /\ ListOfRank(events[r], r, now[r]) /\ now[r] \in Nat
    BY DEF IInv, TypeOK, Lists
  <2>2. events[r][k] \in Members(events[r]) /\ events[r][k] \in Events
    BY <2>1 DEF Members
  <2> QED BY <2>1, <2>2, EventTime DEF ListOfRank
<1> QED BY <1>1, <1>2 DEF GuaranteeHonoured, NeverBehind

(* The event lists, the channels and the guarantees stay as IInv says. *)
THEOREM RanksInStep == ParallelLinksFit => (Spec => []IInv)
<1> SUFFICES ASSUME ParallelLinksFit PROVE Spec => []IInv
  OBVIOUS
<1>1. IInv /\ [Next]_vars => IInv'
  BY StepInvariant
<1> QED BY <1>1, InitInvariant, PTL DEF Spec

(* No packet arrives before the time its sender has guaranteed             *)
(* (null-message-simulator-impl.h), whatever the sizes of the packets and  *)
(* whatever events the callbacks schedule, as long as links that are       *)
(* parallel do not let packets overtake each other by more than            *)
(* ParallelLinksFit allows; networks of single links satisfy it.           *)
THEOREM GuaranteesAreHonoured == ParallelLinksFit => (Spec => []GuaranteeHonoured)
<1> SUFFICES ASSUME ParallelLinksFit PROVE Spec => []GuaranteeHonoured
  OBVIOUS
<1>1. Spec => []IInv
  BY RanksInStep
<1> QED BY <1>1, InvariantImplies, PTL

(* No event is listed and no packet under way that is behind the clock of  *)
(* its rank (the assertions of ScheduleWithContext and ProcessOneEvent)    *)
(* under the same condition, although guarantees and safe times may go     *)
(* back.                                                                   *)
THEOREM AssertionsHold == ParallelLinksFit => (Spec => []NeverBehind)
<1> SUFFICES ASSUME ParallelLinksFit PROVE Spec => []NeverBehind
  OBVIOUS
<1>1. Spec => []IInv
  BY RanksInStep
<1> QED BY <1>1, InvariantImplies, PTL
=============================================================================
