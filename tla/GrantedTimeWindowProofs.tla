----------------------- MODULE GrantedTimeWindowProofs -----------------------
(***************************************************************************)
(* The granted time window keeps the ranks in step, for any number of      *)
(* ranks and links of any delay and speed: no rank runs past a packet that *)
(* it is still to receive, and Run ends only when nothing is on its way.   *)
(***************************************************************************)
EXTENDS GrantedTimeWindow, SequenceTheorems, FiniteSetTheorems, WellFoundedInduction,
        NaturalsInduction, TLAPS

Events == [ts : Nat, kind : {"app", "stop", "complete", "receive"}, arg : Ranks \cup Links]

Messages == [link : Links, rx : Nat, num : Nat]

TypeOK ==
    /\ pc \in [Ranks -> {"loop", "callback", "receive", "allgather", "finished"}]
    /\ now \in [Ranks -> Nat] /\ granted \in [Ranks -> Nat]
    /\ events \in [Ranks -> Seq(Events)]
    /\ stop \in [Ranks -> BOOLEAN]
    /\ rxCount \in [Ranks -> Nat] /\ txCount \in [Ranks -> Nat]
    /\ lbts \in [Ranks -> [rx : Nat, tx : Nat, finished : BOOLEAN, time : Nat]]
    /\ sending \in [Ranks -> SUBSET Links]
    /\ flight \in SUBSET Messages /\ arrived \in SUBSET Messages

(* The events in a list. *)
Members(list) == {list[k] : k \in 1 .. Len(list)}

Sorted(list) == \A j, k \in 1 .. Len(list) : j < k => list[j].ts <= list[k].ts

(* Events are listed in order, and callbacks use the links of their rank. *)
Lists ==
    \A r \in Ranks :
        /\ Sorted(events[r])
        /\ \A e \in Members(events[r]) : e.kind = "complete" => e.arg \in OwnLinks(r)
        /\ sending[r] \subseteq OwnLinks(r)

(* A rank that is in the window that began at time t. *)
InWindow(r, t) ==
    /\ OwnLinks(r) # {} => granted[r] <= t + LookAhead(r) /\ now[r] <= t + LookAhead(r)
    /\ ~stop[r] => \A e \in Members(events[r]) : t <= e.ts
    /\ pc[r] = "callback" => t <= now[r]

(* All ranks are in the same window, and what is sent in it is received    *)
(* after the delay of its link or later.                                   *)
Window(t) ==
    /\ \A r \in Ranks : InWindow(r, t)
    /\ \A m \in flight \cup arrived : t + m.link.delay <= m.rx

(* Messages are counted: those sent are received or on their way.  They    *)
(* are told apart by the sender's count.                                   *)
Counted ==
    /\ IsFiniteSet(flight \cup arrived)
    /\ flight \cap arrived = {}
    /\ \A m \in flight \cup arrived : m.num < txCount[m.link.from]
    /\ Total(txCount) = Total(rxCount) + Cardinality(flight \cup arrived)

(* What a rank gives to the Allgather still holds when it takes place. *)
Reported ==
    \A r \in Ranks : pc[r] = "allgather" =>
        lbts[r] = [rx |-> rxCount[r], tx |-> txCount[r], finished |-> IsLocalFinished(r),
                   time |-> NextTs(r, events[r])]

Halted ==
    (\E r \in Ranks : pc[r] = "finished") =>
        /\ \A r \in Ranks : pc[r] = "finished" /\ IsLocalFinished(r)
        /\ flight \cup arrived = {}

IInv ==
    /\ TypeOK /\ Lists /\ Counted /\ Reported /\ Halted
    /\ \E t \in Nat : Window(t)

-----------------------------------------------------------------------------
(***************************************************************************)
(* The operators the actions are built from.                               *)
(***************************************************************************)
(* A set of naturals that is not empty has a smallest element. *)
LEMMA SmallestOf ==
    ASSUME NEW A \in SUBSET Nat, A # {}
    PROVE  \E m \in A : \A x \in A : m <= x
<1>1. PICK m \in A : \A x \in A : <<x, m>> \notin OpToRel(<, Nat)
  BY WFMin, NatLessThanWellFounded
<1>2. \A x \in A : ~(x < m)
  BY <1>1 DEF OpToRel
<1> QED BY <1>2

(* It is what Min returns. *)
LEMMA MinOf ==
    ASSUME NEW A \in SUBSET Nat, A # {}
    PROVE  Min(A) \in A /\ \A x \in A : Min(A) <= x
<1>1. \E m \in A : \A x \in A : m <= x
  BY SmallestOf
<1> QED BY <1>1 DEF Min

(* The ranks and links are as GrantedTimeWindowAssumption says. *)
LEMMA LinkTypes ==
    /\ Ranks \subseteq Nat /\ SystemCount \in Nat /\ StopTime \in Nat /\ MaxTime \in Nat
    /\ Sources \subseteq Ranks
    /\ \A k \in 1 .. SystemCount : k - 1 \in Ranks
    /\ \A r \in Ranks : r + 1 \in 1 .. SystemCount
    /\ \A l \in Links : /\ l.from \in Ranks /\ l.to \in Ranks
                        /\ l.delay \in Nat \ {0} /\ l.tx \in Nat \ {0}
    /\ \A l \in Links : \E m \in Links : m.from = l.to /\ m.to = l.from /\ m.delay = l.delay
<1>1. /\ SystemCount \in Nat /\ StopTime \in Nat /\ MaxTime \in Nat /\ Sources \subseteq Ranks
      /\ \A l \in Links : /\ l.from \in Ranks /\ l.to \in Ranks
                          /\ l.delay \in Nat \ {0} /\ l.tx \in Nat \ {0}
      /\ \A l \in Links : \E m \in Links : m.from = l.to /\ m.to = l.from /\ m.delay = l.delay
  BY GrantedTimeWindowAssumption
<1>2. /\ Ranks \subseteq Nat /\ \A k \in 1 .. SystemCount : k - 1 \in Ranks
      /\ \A r \in Ranks : r + 1 \in 1 .. SystemCount
  BY <1>1 DEF Ranks
<1> QED BY <1>1, <1>2

(* The least delay of the links of a rank that has some. *)
Own(r) == Min({l.delay : l \in OwnLinks(r)})

(* It is the delay of one, and no more than that of any. *)
LEMMA OwnIsLeast ==
    ASSUME NEW r \in Ranks, OwnLinks(r) # {}
    PROVE  Own(r) \in Nat /\ \A l \in OwnLinks(r) : Own(r) <= l.delay
<1> DEFINE A == {l.delay : l \in OwnLinks(r)}
<1>1. A \subseteq Nat /\ A # {} /\ \A l \in OwnLinks(r) : l.delay \in A
  BY LinkTypes DEF OwnLinks
<1>2. Own(r) = Min(A)
  BY DEF Own
<1> HIDE DEF A
<1>3. Min(A) \in A /\ \A x \in A : Min(A) <= x
  BY <1>1, MinOf
<1> QED BY <1>1, <1>2, <1>3

(* Among the ranks that have links one has the greatest of these delays. *)
LEMMA GreatestOwn ==
    ASSUME NEW q \in Ranks, OwnLinks(q) # {}
    PROVE  \E g \in {p \in Ranks : OwnLinks(p) # {}} :
               \A p \in Ranks : OwnLinks(p) # {} => Own(g) >= Own(p)
<1> DEFINE P == {p \in Ranks : OwnLinks(p) # {}}
           Best(m, g) == g \in P /\ \A p \in P : p < m => Own(g) >= Own(p)
           A == {m \in Nat : ~\E g : Best(m, g)}
<1>1. /\ q \in P /\ P \subseteq Nat /\ SystemCount \in Nat
      /\ \A p \in P : Own(p) \in Nat /\ p < SystemCount
  BY LinkTypes, OwnIsLeast DEF Ranks
<1>2. A = {}
  <2>1. SUFFICES ASSUME A # {} PROVE FALSE
    OBVIOUS
  <2>2. PICK m \in A : \A x \in A : m <= x
    BY <2>1, SmallestOf
  <2>3. m # 0
    <3>1. Best(0, q)
      BY <1>1
    <3> QED BY <2>2, <3>1
  <2>4. m - 1 \in Nat /\ m - 1 \notin A
    <3>1. m - 1 \in Nat /\ ~(m <= m - 1)
      BY <2>2, <2>3
    <3> HIDE DEF A
    <3> QED BY <2>2, <3>1
  <2>5. PICK g : Best(m - 1, g)
    BY <2>4
  <2> HIDE DEF P
  <2>6. CASE m - 1 \in P /\ Own(m - 1) > Own(g)
    <3>1. Best(m, m - 1)
      <4>1. ASSUME NEW p \in P, p < m PROVE Own(m - 1) >= Own(p)
        <5>1. CASE p = m - 1
          BY <1>1, <2>6, <5>1
        <5>2. CASE p < m - 1
          BY <1>1, <2>5, <2>6, <5>2
        <5> QED BY <1>1, <2>2, <4>1, <5>1, <5>2
      <4> QED BY <2>6, <4>1
    <3> QED BY <2>2, <3>1
  <2>7. CASE ~(m - 1 \in P /\ Own(m - 1) > Own(g))
    <3>1. Best(m, g)
      <4>1. ASSUME NEW p \in P, p < m PROVE Own(g) >= Own(p)
        <5>1. CASE p = m - 1
          BY <1>1, <2>5, <2>7, <5>1
        <5>2. CASE p < m - 1
          BY <2>5, <5>2
        <5> QED BY <1>1, <2>2, <4>1, <5>1, <5>2
      <4> QED BY <2>5, <4>1
    <3> QED BY <2>2, <3>1
  <2> QED BY <2>6, <2>7
<1>3. \E g : Best(SystemCount, g)
  BY <1>1, <1>2
<1> QED BY <1>1, <1>3

(* The look-ahead is a time, and no link of the rank is faster. *)
LEMMA LookAheadIsLeast ==
    ASSUME NEW r \in Ranks
    PROVE  LookAhead(r) \in Nat /\ \A l \in OwnLinks(r) : LookAhead(r) <= l.delay
<1>0. \A l \in OwnLinks(r) : l.delay \in Nat
  BY LinkTypes DEF OwnLinks
<1>1. LookAhead(r) = IF SystemCount <= 1 THEN 0
                     ELSE IF OwnLinks(r) # {} THEN Own(r)
                     ELSE IF Links = {} THEN MaxTime
                     ELSE Max({Own(q) : q \in {p \in Ranks : OwnLinks(p) # {}}})
  BY DEF LookAhead, Own
<1>2. CASE SystemCount <= 1
  BY <1>0, <1>1, <1>2
<1>3. CASE ~(SystemCount <= 1) /\ OwnLinks(r) # {}
  BY <1>1, <1>3, OwnIsLeast
<1>4. CASE ~(SystemCount <= 1) /\ OwnLinks(r) = {} /\ Links = {}
  BY <1>1, <1>4, LinkTypes
<1>5. CASE ~(SystemCount <= 1) /\ OwnLinks(r) = {} /\ Links # {}
  <2> DEFINE B == {Own(q) : q \in {p \in Ranks : OwnLinks(p) # {}}}
  <2>1. LookAhead(r) = Max(B)
    BY <1>1, <1>5
  <2>2. B \subseteq Nat
    BY OwnIsLeast
  <2>3. PICK l \in Links : TRUE
    BY <1>5
  <2>4. l.from \in Ranks /\ OwnLinks(l.from) # {}
    BY LinkTypes DEF OwnLinks
  <2>5. \E b \in B : \A x \in B : b >= x
    BY <2>4, GreatestOwn
  <2>6. Max(B) \in B
    <3> HIDE DEF B
    <3> QED BY <2>5 DEF Max
  <2> HIDE DEF B
  <2> QED BY <1>5, <2>1, <2>2, <2>6
<1> QED BY <1>2, <1>3, <1>4, <1>5

-----------------------------------------------------------------------------
(***************************************************************************)
(* The sums of the counts.                                                 *)
(***************************************************************************)
(* The sums of the entries below k. *)
SumsOf(f, s) ==
    /\ s[0] = 0
    /\ \A k \in 1 .. SystemCount : s[k] \in Nat /\ s[k] = s[k - 1] + f[k - 1]

(* Total is the last of them. *)
LEMMA TotalIsSum ==
    ASSUME NEW f \in [Ranks -> Nat]
    PROVE  \E s : SumsOf(f, s) /\ Total(f) = s[SystemCount]
<1> DEFINE N == SystemCount
           Is(g, m) == g = [k \in 0 .. m |-> IF k = 0 THEN 0 ELSE g[k - 1] + f[k - 1]]
<1>0. N \in Nat /\ \A k \in 1 .. N : k - 1 \in Ranks /\ f[k - 1] \in Nat
  BY LinkTypes
<1> HIDE DEF N
<1>1. \E g : Is(g, N)
  <2> DEFINE A == {m \in Nat : m <= N /\ ~\E g : Is(g, m)}
  <2> HIDE DEF Is
  <2>1. SUFFICES ASSUME A # {} PROVE FALSE
    <3>1. N \in Nat /\ N <= N
      BY <1>0
    <3> QED BY <3>1
  <2>2. PICK m \in A : \A x \in A : m <= x
    BY <2>1, SmallestOf
  <2>3. m # 0
    <3>1. Is([k \in 0 .. 0 |-> 0], 0)
      BY DEF Is
    <3> QED BY <2>2, <3>1
  <2>4. m - 1 \in Nat /\ m - 1 <= N /\ m - 1 \notin A
    <3>1. m \in Nat /\ m <= N /\ N \in Nat
      BY <1>0, <2>2
    <3>2. m - 1 \in Nat /\ m - 1 <= N /\ ~(m <= m - 1)
      BY <2>3, <3>1
    <3> HIDE DEF A
    <3> QED BY <2>2, <3>2
  <2>5. PICK g : Is(g, m - 1)
    BY <2>4
  <2> DEFINE h == [k \in 0 .. m |-> IF k = m THEN g[m - 1] + f[m - 1] ELSE g[k]]
  <2>6. ASSUME NEW k \in 0 .. m
        PROVE  h[k] = IF k = 0 THEN 0 ELSE h[k - 1] + f[k - 1]
    <3>1. CASE k = m
      <4>1. h[m] = g[m - 1] + f[m - 1] /\ h[m - 1] = g[m - 1]
        BY <2>2, <2>3
      <4> QED BY <2>3, <3>1, <4>1
    <3>2. CASE k # m
      <4>0. k \in 0 .. m - 1
        BY <2>2, <3>2
      <4>1. g[k] = IF k = 0 THEN 0 ELSE g[k - 1] + f[k - 1]
        BY <2>5, <4>0 DEF Is
      <4>2. k # 0 => h[k - 1] = g[k - 1]
        BY <2>2, <3>2
      <4>3. h[k] = g[k]
        BY <3>2
      <4> QED BY <4>1, <4>2, <4>3
    <3> QED BY <3>1, <3>2
  <2>7. Is(h, m)
    <3> DEFINE i == [k \in 0 .. m |-> IF k = 0 THEN 0 ELSE h[k - 1] + f[k - 1]]
    <3>1. \A k \in 0 .. m : h[k] = i[k]
      BY <2>6
    <3>2. h = i
      BY <3>1
    <3> QED BY <3>2 DEF Is
  <2> QED BY <2>2, <2>7
<1> DEFINE sum[n \in 0 .. SystemCount] == IF n = 0 THEN 0 ELSE sum[n - 1] + f[n - 1]
<1>2. Total(f) = sum[SystemCount]
  BY DEF Total
<1>3. Is(sum, N)
  BY <1>1 DEF N
<1> HIDE DEF sum
<1>4. sum[0] = 0 /\ \A k \in 1 .. N : sum[k] = sum[k - 1] + f[k - 1]
  BY <1>0, <1>3 DEF Is
<1>5. \A k \in 0 .. N : sum[k] \in Nat
  <2> DEFINE A == {m \in Nat : m <= N /\ sum[m] \notin Nat}
  <2>1. SUFFICES ASSUME A # {} PROVE FALSE
    BY <1>0
  <2>2. PICK m \in A : \A x \in A : m <= x
    BY <2>1, SmallestOf
  <2>3. m \in 1 .. N
    BY <1>0, <1>4, <2>2
  <2>4. m - 1 \in Nat /\ m - 1 <= N /\ m - 1 \notin A
    <3>1. m - 1 \in Nat /\ m - 1 <= N /\ ~(m <= m - 1)
      BY <1>0, <2>3
    <3> HIDE DEF A
    <3> QED BY <2>2, <3>1
  <2> QED BY <1>0, <1>4, <2>2, <2>3, <2>4
<1>6. SumsOf(f, sum)
  BY <1>0, <1>4, <1>5 DEF SumsOf, N
<1> QED BY <1>2, <1>6 DEF N

(* The sum is a number, and none of no counts. *)
LEMMA TotalType ==
    /\ \A f \in [Ranks -> Nat] : Total(f) \in Nat
    /\ Total([r \in Ranks |-> 0]) = 0
<1>1. ASSUME NEW f \in [Ranks -> Nat] PROVE Total(f) \in Nat
  <2>1. PICK s : SumsOf(f, s) /\ Total(f) = s[SystemCount]
    BY TotalIsSum
  <2>2. SystemCount = 0 \/ SystemCount \in 1 .. SystemCount
    BY LinkTypes
  <2> QED BY <2>1, <2>2 DEF SumsOf
<1>2. Total([r \in Ranks |-> 0]) = 0
  <2> DEFINE f == [r \in Ranks |-> 0]
             N == SystemCount
  <2>0. f \in [Ranks -> Nat] /\ N \in Nat /\ \A k \in 1 .. N : f[k - 1] = 0
    BY LinkTypes
  <2>1. PICK s : SumsOf(f, s) /\ Total(f) = s[N]
    BY <2>0, TotalIsSum
  <2> HIDE DEF f
  <2>2. s[0] = 0 /\ \A k \in 1 .. N : s[k] \in Nat /\ s[k] = s[k - 1]
    BY <2>0, <2>1 DEF SumsOf
  <2> HIDE DEF N
  <2> DEFINE A == {m \in Nat : m <= N /\ s[m] # 0}
  <2>3. A = {}
    <3>1. SUFFICES ASSUME A # {} PROVE FALSE
      OBVIOUS
    <3>2. PICK m \in A : \A x \in A : m <= x
      BY <3>1, SmallestOf
    <3>3. m \in 1 .. N
      BY <2>0, <2>2, <3>2
    <3>4. m - 1 \in Nat /\ m - 1 <= N /\ m - 1 \notin A
      <4>1. m - 1 \in Nat /\ m - 1 <= N /\ ~(m <= m - 1)
        BY <2>0, <3>3
      <4> HIDE DEF A
      <4> QED BY <3>2, <4>1
    <3> QED BY <2>0, <2>2, <3>2, <3>3, <3>4
  <2>4. s[N] = 0
    BY <2>0, <2>3
  <2> QED BY <2>1, <2>4 DEF f
<1> QED BY <1>1, <1>2

(* Counting one more. *)
LEMMA TotalCounts ==
    ASSUME NEW f \in [Ranks -> Nat], NEW r \in Ranks
    PROVE  Total([f EXCEPT ![r] = @ + 1]) = Total(f) + 1
<1> DEFINE h == [f EXCEPT ![r] = @ + 1]
           N == SystemCount
<1>0. /\ h \in [Ranks -> Nat] /\ N \in Nat /\ r \in Nat /\ r < N
      /\ \A k \in 1 .. N : f[k - 1] \in Nat /\ h[k - 1] = IF k = r + 1 THEN f[k - 1] + 1 ELSE f[k - 1]
  BY LinkTypes
<1>1. PICK s : SumsOf(f, s) /\ Total(f) = s[N]
  BY TotalIsSum
<1>2. PICK u : SumsOf(h, u) /\ Total(h) = u[N]
  BY <1>0, TotalIsSum
<1> HIDE DEF h
<1>3. /\ s[0] = 0 /\ u[0] = 0
      /\ \A k \in 1 .. N : s[k] \in Nat /\ s[k] = s[k - 1] + f[k - 1]
      /\ \A k \in 1 .. N : u[k] \in Nat /\ u[k] = u[k - 1] + h[k - 1]
  BY <1>1, <1>2 DEF SumsOf
<1> HIDE DEF N
<1> DEFINE A == {m \in Nat : m <= N /\ u[m] # IF m > r THEN s[m] + 1 ELSE s[m]}
<1>4. A = {}
  <2>1. SUFFICES ASSUME A # {} PROVE FALSE
    OBVIOUS
  <2>2. PICK m \in A : \A x \in A : m <= x
    BY <2>1, SmallestOf
  <2>3. m \in 1 .. N
    BY <1>0, <1>3, <2>2
  <2>4. m - 1 \in Nat /\ m - 1 <= N /\ m - 1 \notin A
    <3>1. m - 1 \in Nat /\ m - 1 <= N /\ ~(m <= m - 1)
      BY <1>0, <2>3
    <3> HIDE DEF A
    <3> QED BY <2>2, <3>1
  <2>5. u[m - 1] = IF m - 1 > r THEN s[m - 1] + 1 ELSE s[m - 1]
    BY <2>4
  <2>6. s[m] = s[m - 1] + f[m - 1] /\ u[m] = u[m - 1] + h[m - 1]
    BY <1>3, <2>3
  <2>7. s[m - 1] \in Nat
    <3>1. m - 1 = 0 \/ m - 1 \in 1 .. N
      BY <1>0, <2>3
    <3> QED BY <1>3, <3>1
  <2>8. f[m - 1] \in Nat /\ h[m - 1] = IF m = r + 1 THEN f[m - 1] + 1 ELSE f[m - 1]
    BY <1>0, <2>3
  <2>9. u[m] = IF m > r THEN s[m] + 1 ELSE s[m]
    <3>1. CASE m = r + 1
      <4>1. m > r /\ ~(m - 1 > r)
        BY <1>0, <3>1
      <4> QED BY <2>5, <2>6, <2>7, <2>8, <3>1, <4>1
    <3>2. CASE m # r + 1
      <4>1. m > r <=> m - 1 > r
        BY <1>0, <2>2, <3>2
      <4> QED BY <2>5, <2>6, <2>7, <2>8, <3>2, <4>1
    <3> QED BY <3>1, <3>2
  <2> QED BY <2>2, <2>9
<1>5. u[N] = s[N] + 1
  BY <1>0, <1>4
<1> QED BY <1>1, <1>2, <1>5 DEF h

-----------------------------------------------------------------------------
(***************************************************************************)
(* Event lists.                                                            *)
(***************************************************************************)
(* The time of an event. *)
LEMMA EventTime == \A e \in Events : e.ts \in Nat
BY DEF Events

(* Insert puts one event into its place. *)
InsertedAt(list, e, r, p) ==
    /\ r \in Seq(Events) /\ Len(r) = Len(list) + 1
    /\ r[p] = e
    /\ \A k \in 1 .. p - 1 : r[k] = list[k]
    /\ \A k \in p .. Len(list) : r[k + 1] = list[k]
    /\ \A k \in 1 .. p - 1 : list[k].ts <= e.ts
    /\ p <= Len(list) => e.ts < list[p].ts

(* There is such a place. *)
LEMMA InsertAtPosition ==
    ASSUME NEW list \in Seq(Events), NEW e \in Events, NEW r, r = Insert(list, e)
    PROVE  \E p \in 1 .. Len(list) + 1 : InsertedAt(list, e, r, p)
<1> DEFINE A == {k \in 1 .. Len(list) + 1 : k <= Len(list) => list[k].ts > e.ts}
           p == Position(list, e)
           n == Len(list)
<1>1. n \in Nat /\ \A k \in 1 .. n : list[k] \in Events /\ list[k].ts \in Nat
  BY EventTime
<1>2. A \subseteq Nat /\ n + 1 \in A /\ p = Min(A)
  BY <1>1 DEF Position
<1>3. p \in A /\ \A x \in A : p <= x
  <2> HIDE DEF A, p
  <2> QED BY <1>2, MinOf
<1>4. p \in 1 .. n + 1 /\ (p <= n => e.ts < list[p].ts)
  BY <1>1, <1>3 DEF Events
<1>5. ASSUME NEW k \in 1 .. p - 1 PROVE k \in 1 .. n /\ list[k].ts <= e.ts
  <2>1. k \in 1 .. n /\ ~(p <= k)
    BY <1>1, <1>4
  <2>2. k \notin A
    <3> HIDE DEF A
    <3> QED BY <1>3, <2>1
  <2>3. ~(list[k].ts > e.ts)
    BY <1>1, <2>1, <2>2
  <2> QED BY <1>1, <2>1, <2>3 DEF Events
<1>6. r = [k \in 1 .. n + 1 |-> IF k < p THEN list[k] ELSE IF k = p THEN e ELSE list[k - 1]]
  BY DEF Insert
<1> HIDE DEF A, p, n
<1>7. \A k \in 1 .. n + 1 : (IF k < p THEN list[k] ELSE IF k = p THEN e ELSE list[k - 1]) \in Events
  BY <1>1, <1>4
<1>8. r \in [1 .. n + 1 -> Events] /\ n + 1 \in Nat
  BY <1>1, <1>6, <1>7
<1>9. r \in Seq(Events) /\ Len(r) = n + 1
  BY <1>8
<1>10. /\ r[p] = e
       /\ \A k \in 1 .. p - 1 : r[k] = list[k]
       /\ \A k \in p .. n : r[k + 1] = list[k]
  BY <1>1, <1>4, <1>6
<1>11. InsertedAt(list, e, r, p)
  BY <1>4, <1>5, <1>9, <1>10 DEF n, InsertedAt
<1> QED BY <1>4, <1>11 DEF n

(* Its elements, and that it stays in order. *)
LEMMA InsertKeeps ==
    ASSUME NEW list \in Seq(Events), NEW e \in Events, NEW r, r = Insert(list, e), Sorted(list)
    PROVE  /\ r \in Seq(Events) /\ Sorted(r) /\ Members(r) = Members(list) \cup {e}
<1> DEFINE n == Len(list)
<1>0. PICK p \in 1 .. Len(list) + 1 : InsertedAt(list, e, r, p)
  BY InsertAtPosition
<1>1. /\ p \in 1 .. n + 1
      /\ r \in Seq(Events) /\ Len(r) = n + 1
      /\ r[p] = e
      /\ \A k \in 1 .. p - 1 : r[k] = list[k]
      /\ \A k \in p .. n : r[k + 1] = list[k]
      /\ \A k \in 1 .. p - 1 : list[k].ts <= e.ts
      /\ p <= n => e.ts < list[p].ts
  BY <1>0 DEF InsertedAt
<1>2. n \in Nat /\ e.ts \in Nat /\ \A k \in 1 .. n : list[k].ts \in Nat
  BY EventTime
<1>3. Members(list) = {list[k] : k \in 1 .. n} /\ Members(r) = {r[k] : k \in 1 .. n + 1}
  BY <1>1 DEF Members
<1>4. \A j, k \in 1 .. n : j < k => list[j].ts <= list[k].ts
  BY DEF Sorted
<1> HIDE DEF n
<1>5. ASSUME NEW k \in 1 .. n + 1
      PROVE  \/ k \in 1 .. p - 1 /\ k \in 1 .. n /\ r[k] = list[k]
             \/ k = p /\ r[k] = e
             \/ k \in p + 1 .. n + 1 /\ k - 1 \in p .. n /\ k - 1 \in 1 .. n /\ r[k] = list[k - 1]
  <2>1. CASE k < p
    BY <1>1, <1>2, <2>1
  <2>2. CASE k = p
    BY <1>1, <2>2
  <2>3. CASE k > p
    <3>1. k - 1 \in p .. n /\ k - 1 \in 1 .. n /\ (k - 1) + 1 = k
      BY <1>2, <2>3
    <3>2. r[(k - 1) + 1] = list[k - 1]
      BY <1>1, <3>1
    <3> QED BY <1>2, <2>3, <3>1, <3>2
  <2> QED BY <1>2, <2>1, <2>2, <2>3
<1>6. \A k \in p .. n : e.ts <= list[k].ts
  <2> SUFFICES ASSUME NEW k \in p .. n PROVE e.ts <= list[k].ts
    OBVIOUS
  <2>1. p \in 1 .. n /\ k \in 1 .. n /\ e.ts < list[p].ts
    BY <1>1, <1>2
  <2>2. list[p].ts <= list[k].ts
    BY <1>2, <1>4, <2>1
  <2> QED BY <1>2, <2>1, <2>2
<1>7. Members(r) = Members(list) \cup {e}
  <2>1. ASSUME NEW k \in 1 .. n + 1 PROVE r[k] \in {list[j] : j \in 1 .. n} \cup {e}
    BY <1>5
  <2>2. ASSUME NEW k \in 1 .. n PROVE list[k] \in {r[j] : j \in 1 .. n + 1}
    <3>1. CASE k < p
      <4>1. k \in 1 .. p - 1 /\ k \in 1 .. n + 1
        BY <1>2, <3>1
      <4> QED BY <1>1, <4>1
    <3>2. CASE k >= p
      <4>1. k \in p .. n /\ k + 1 \in 1 .. n + 1
        BY <1>2, <3>2
      <4> QED BY <1>1, <4>1
    <3> QED BY <1>2, <3>1, <3>2
  <2>3. e \in {r[j] : j \in 1 .. n + 1}
    BY <1>1
  <2> QED BY <1>3, <2>1, <2>2, <2>3
<1>8. ASSUME NEW j \in 1 .. n + 1, NEW k \in 1 .. n + 1, j < k PROVE r[j].ts <= r[k].ts
  <2>1. CASE j \in 1 .. p - 1 /\ j \in 1 .. n /\ r[j] = list[j]
    <3>1. list[j].ts <= e.ts
      BY <1>1, <2>1
    <3>2. CASE k \in 1 .. n /\ r[k] = list[k]
      BY <1>4, <1>8, <2>1, <3>2
    <3>3. CASE k = p /\ r[k] = e
      BY <2>1, <3>1, <3>3
    <3>4. CASE k - 1 \in p .. n /\ k - 1 \in 1 .. n /\ r[k] = list[k - 1]
      <4>1. e.ts <= list[k - 1].ts
        BY <1>6, <3>4
      <4> QED BY <1>2, <2>1, <3>1, <3>4, <4>1
    <3> QED BY <1>5, <3>2, <3>3, <3>4
  <2>2. CASE j = p /\ r[j] = e
    <3>1. k - 1 \in p .. n /\ r[k] = list[k - 1]
      BY <1>2, <1>5, <1>8, <2>2
    <3> QED BY <1>6, <2>2, <3>1
  <2>3. CASE j \in p + 1 .. n + 1 /\ j - 1 \in 1 .. n /\ r[j] = list[j - 1]
    <3>1. k \in p + 1 .. n + 1
      BY <1>2, <1>8, <2>3
    <3>2. k - 1 \in 1 .. n /\ r[k] = list[k - 1]
      BY <1>2, <1>5, <3>1
    <3>3. j - 1 < k - 1
      BY <1>8
    <3> QED BY <1>4, <2>3, <3>2, <3>3
  <2> QED BY <1>5, <2>1, <2>2, <2>3
<1>9. Sorted(r)
  BY <1>1, <1>8 DEF Sorted
<1> QED BY <1>1, <1>7, <1>9

(* The rest of a list. *)
LEMMA TailKeeps ==
    ASSUME NEW list \in Seq(Events), list # << >>, Sorted(list)
    PROVE  /\ Tail(list) \in Seq(Events) /\ Sorted(Tail(list))
           /\ Head(list) \in Events /\ Head(list) \in Members(list)
           /\ Members(Tail(list)) \subseteq Members(list)
           /\ \A e \in Members(list) : Head(list).ts <= e.ts
<1> DEFINE n == Len(list)
           t == Tail(list)
           h == Head(list)
<1>1. n \in Nat /\ n >= 1 /\ \A k \in 1 .. n : list[k] \in Events /\ list[k].ts \in Nat
  BY EventTime
<1>2. /\ t \in Seq(Events) /\ Len(t) = n - 1 /\ \A k \in 1 .. n - 1 : t[k] = list[k + 1]
      /\ h = list[1]
  BY <1>1
<1>3. \A j, k \in 1 .. n : j < k => list[j].ts <= list[k].ts
  BY DEF Sorted
<1>4. Members(list) = {list[k] : k \in 1 .. n} /\ Members(t) = {t[k] : k \in 1 .. n - 1}
  BY <1>2 DEF Members
<1> HIDE DEF n, t, h
<1>5. \A k \in 1 .. n - 1 : k + 1 \in 1 .. n
  BY <1>1
<1>6. ASSUME NEW j \in 1 .. n - 1, NEW k \in 1 .. n - 1, j < k PROVE t[j].ts <= t[k].ts
  <2>1. j + 1 \in 1 .. n /\ k + 1 \in 1 .. n /\ j + 1 < k + 1
    BY <1>5, <1>6
  <2>2. list[j + 1].ts <= list[k + 1].ts
    BY <1>3, <2>1
  <2> QED BY <1>2, <2>2
<1>7. Sorted(t)
  BY <1>2, <1>6 DEF Sorted
<1>8. h \in Events /\ h \in Members(list) /\ Members(t) \subseteq Members(list)
  BY <1>1, <1>2, <1>4, <1>5
<1>9. \A k \in 1 .. n : h.ts <= list[k].ts
  <2> SUFFICES ASSUME NEW k \in 1 .. n PROVE h.ts <= list[k].ts
    OBVIOUS
  <2>1. CASE k = 1
    BY <1>1, <1>2, <2>1
  <2>2. CASE k # 1
    BY <1>1, <1>2, <1>3, <2>2
  <2> QED BY <2>1, <2>2
<1>10. \A e \in Members(list) : h.ts <= e.ts
  BY <1>4, <1>9
<1> QED BY <1>2, <1>7, <1>8, <1>10 DEF t, h

-----------------------------------------------------------------------------
(***************************************************************************)
(* The invariant holds at first.                                           *)
(***************************************************************************)
(* A list of at most two events, in order. *)
LEMMA ShortLists ==
    ASSUME NEW e \in Events, NEW f \in Events, e.ts <= f.ts, NEW p, NEW s,
           p = << e >> \/ p = << >>, s = << f >> \/ s = << >>
    PROVE  /\ p \o s \in Seq(Events) /\ Sorted(p \o s)
           /\ Members(p \o s) \subseteq {e, f}
<1>1. CASE p = << e >> /\ s = << f >>
  <2>1. p \in Seq(Events) /\ s \in Seq(Events) /\ Len(p) = 1 /\ Len(s) = 1 /\ p[1] = e /\ s[1] = f
    BY <1>1
  <2>2. PICK c : c = p \o s
    OBVIOUS
  <2>3. c \in Seq(Events) /\ Len(c) = 2 /\ c[1] = e /\ c[2] = f
    BY <2>1, <2>2, ConcatProperties
  <2>4. \A k \in 1 .. Len(c) : k = 1 \/ k = 2
    BY <2>3
  <2>5. Sorted(c) /\ Members(c) \subseteq {e, f}
    BY <2>3, <2>4 DEF Sorted, Members
  <2> QED BY <2>2, <2>3, <2>5
<1>2. CASE p = << e >> /\ s = << >>
  BY <1>2 DEF Sorted, Members
<1>3. CASE p = << >> /\ s = << f >>
  BY <1>3 DEF Sorted, Members
<1>4. CASE p = << >> /\ s = << >>
  BY <1>4 DEF Sorted, Members
<1> QED BY <1>1, <1>2, <1>3, <1>4

(* Run before the loop. *)
LEMMA IInvInit == Init => IInv
<1> SUFFICES ASSUME Init PROVE IInv
  OBVIOUS
<1>1. PICK at \in [Sources -> 0 .. StopTime], S \in SUBSET Ranks :
        events = [r \in Ranks |->
            (IF r \in Sources THEN << Event(at[r], "app", r) >> ELSE << >>)
            \o (IF r \in S THEN << Event(StopTime, "stop", r) >> ELSE << >>)]
  BY DEF Init
<1>2. /\ pc = [r \in Ranks |-> "loop"] /\ now = [r \in Ranks |-> 0]
      /\ stop = [r \in Ranks |-> FALSE] /\ granted = [r \in Ranks |-> LookAhead(r)]
      /\ lbts = [r \in Ranks |-> [rx |-> 0, tx |-> 0, finished |-> FALSE, time |-> 0]]
      /\ rxCount = [r \in Ranks |-> 0] /\ txCount = [r \in Ranks |-> 0]
      /\ sending = [r \in Ranks |-> {}] /\ flight = {} /\ arrived = {}
  BY DEF Init
<1>3. ASSUME NEW r \in Ranks
      PROVE  /\ events[r] \in Seq(Events) /\ Sorted(events[r])
             /\ \A e \in Members(events[r]) : e.kind # "complete" /\ e.ts \in Nat
  <2> DEFINE e == Event(IF r \in Sources THEN at[r] ELSE 0, "app", r)
             f == Event(StopTime, "stop", r)
  <2>1. e \in Events /\ f \in Events /\ e.ts <= f.ts /\ e.kind = "app" /\ f.kind = "stop"
    <3>1. r \in Sources => at[r] \in Nat /\ at[r] <= StopTime
      BY LinkTypes
    <3> QED BY <3>1, LinkTypes DEF Event, Events
  <2>2. events[r] = (IF r \in Sources THEN << e >> ELSE << >>)
                    \o (IF r \in S THEN << f >> ELSE << >>)
    BY <1>1
  <2> HIDE DEF e, f
  <2>3. events[r] \in Seq(Events) /\ Sorted(events[r]) /\ Members(events[r]) \subseteq {e, f}
    <3>1. PICK p : p = IF r \in Sources THEN << e >> ELSE << >>
      OBVIOUS
    <3>2. PICK s : s = IF r \in S THEN << f >> ELSE << >>
      OBVIOUS
    <3>3. (p = << e >> \/ p = << >>) /\ (s = << f >> \/ s = << >>) /\ events[r] = p \o s
      BY <2>2, <3>1, <3>2
    <3>4. p \o s \in Seq(Events) /\ Sorted(p \o s) /\ Members(p \o s) \subseteq {e, f}
      BY <2>1, <3>3, ShortLists
    <3> QED BY <3>3, <3>4
  <2> QED BY <2>1, <2>3, EventTime
<1>4. TypeOK
  <2>1. events \in [Ranks -> Seq(Events)]
    BY <1>1, <1>3
  <2> QED BY <1>2, <2>1, LookAheadIsLeast DEF TypeOK
<1>5. Lists
  BY <1>2, <1>3 DEF Lists
<1>6. Counted
  <2>1. Total(txCount) = 0 /\ Total(rxCount) = 0
    BY <1>2, TotalType
  <2>2. flight \cup arrived = {} /\ IsFiniteSet({}) /\ Cardinality({}) = 0
    BY <1>2, FS_EmptySet
  <2>3. Total(txCount) = Total(rxCount) + Cardinality(flight \cup arrived)
    <3>1. Cardinality(flight \cup arrived) = 0
      BY <2>2
    <3> QED BY <2>1, <3>1
  <2> QED BY <2>2, <2>3 DEF Counted
<1>7. Reported /\ Halted
  BY <1>2 DEF Reported, Halted
<1>8. Window(0)
  BY <1>2, <1>3, LookAheadIsLeast DEF Window, InWindow
<1> QED BY <1>4, <1>5, <1>6, <1>7, <1>8 DEF IInv

-----------------------------------------------------------------------------
(***************************************************************************)
(* Every step keeps it.                                                    *)
(***************************************************************************)
(* A step of rank r leaves the state of the others alone. *)
OnlyRank(r) ==
    \A q \in Ranks \ {r} :
        /\ pc'[q] = pc[q] /\ now'[q] = now[q] /\ events'[q] = events[q] /\ stop'[q] = stop[q]
        /\ granted'[q] = granted[q] /\ lbts'[q] = lbts[q] /\ sending'[q] = sending[q]
        /\ rxCount'[q] = rxCount[q] /\ txCount'[q] = txCount[q]

(* They are still in the window, and what they reported still holds. *)
LEMMA OthersKeep ==
    ASSUME IInv, NEW r \in Ranks, OnlyRank(r), pc[r] # "finished", pc'[r] # "finished"
    PROVE  /\ Halted'
           /\ (pc'[r] # "allgather" => Reported')
           /\ \A t \in Nat : \A q \in Ranks \ {r} : InWindow(q, t) => InWindow(q, t)'
<1>1. Halted'
  <2>1. \A q \in Ranks : pc[q] # "finished"
    BY DEF IInv, Halted
  <2>2. \A q \in Ranks : pc'[q] # "finished"
    BY <2>1 DEF OnlyRank
  <2> QED BY <2>2 DEF Halted
<1>2. ASSUME pc'[r] # "allgather" PROVE Reported'
  <2> SUFFICES ASSUME NEW q \in Ranks, pc'[q] = "allgather"
               PROVE  lbts'[q] = [rx |-> rxCount'[q], tx |-> txCount'[q],
                                  finished |-> IsLocalFinished(q)', time |-> NextTs(q, events[q])']
    BY DEF Reported
  <2>1. q \in Ranks \ {r} /\ pc[q] = "allgather"
    BY <1>2 DEF OnlyRank
  <2>2. lbts[q] = [rx |-> rxCount[q], tx |-> txCount[q], finished |-> IsLocalFinished(q),
                   time |-> NextTs(q, events[q])]
    BY <2>1 DEF IInv, Reported
  <2>3. /\ lbts'[q] = lbts[q] /\ rxCount'[q] = rxCount[q] /\ txCount'[q] = txCount[q]
        /\ events'[q] = events[q] /\ stop'[q] = stop[q]
    BY <2>1 DEF OnlyRank
  <2>4. IsLocalFinished(q)' = IsLocalFinished(q) /\ NextTs(q, events[q])' = NextTs(q, events[q])
    BY <2>3 DEF IsLocalFinished, NextTs
  <2> QED BY <2>2, <2>3, <2>4
<1>3. ASSUME NEW t \in Nat, NEW q \in Ranks \ {r}, InWindow(q, t) PROVE InWindow(q, t)'
  BY <1>3 DEF InWindow, OnlyRank
<1> QED BY <1>1, <1>2, <1>3

(* ProcessOneEvent. *)
LEMMA ProcessOneEventStep ==
    ASSUME IInv, NEW r \in Ranks, ProcessOneEvent(r)
    PROVE  IInv'
<1> DEFINE list == events[r]
           e == Head(list)
<1>1. TypeOK /\ Lists /\ Counted
  BY DEF IInv
<1>2. /\ pc[r] = "loop" /\ list # << >> /\ ~stop[r] /\ e.ts <= granted[r]
      /\ now' = [now EXCEPT ![r] = e.ts]
      /\ stop' = [stop EXCEPT ![r] = e.kind = "stop"]
      /\ pc' = [pc EXCEPT ![r] = IF e.kind = "stop" THEN "loop" ELSE "callback"]
      /\ sending' = [sending EXCEPT ![r] =
                CASE e.kind \in {"app", "receive"} -> OwnLinks(r)
                  [] e.kind = "complete" -> {e.arg}
                  [] e.kind = "stop" -> {}]
      /\ events' = [events EXCEPT ![r] = Tail(list)]
      /\ UNCHANGED <<granted, lbts, rxCount, txCount, flight, arrived>>
  BY DEF ProcessOneEvent, IsLocalFinished, NextTs
<1>3. list \in Seq(Events) /\ Sorted(list)
  BY <1>1 DEF TypeOK, Lists
<1>4. /\ Tail(list) \in Seq(Events) /\ Sorted(Tail(list)) /\ e \in Events /\ e \in Members(list)
      /\ Members(Tail(list)) \subseteq Members(list)
  BY <1>2, <1>3, TailKeeps
<1>5. e.kind = "complete" => e.arg \in OwnLinks(r)
  BY <1>1, <1>4 DEF Lists
<1> DEFINE links == CASE e.kind \in {"app", "receive"} -> OwnLinks(r)
                      [] e.kind = "complete" -> {e.arg}
                      [] e.kind = "stop" -> {}
<1>6. links \subseteq OwnLinks(r) /\ OwnLinks(r) \subseteq Links
  <2>1. e.kind \in {"app", "stop", "complete", "receive"}
    BY <1>4 DEF Events
  <2>2. OwnLinks(r) \subseteq Links
    BY DEF OwnLinks
  <2> HIDE DEF e
  <2> QED BY <1>5, <2>1, <2>2
<1>7. e.ts \in Nat
  BY <1>4, EventTime
<1>8. /\ now' = [now EXCEPT ![r] = e.ts] /\ sending' = [sending EXCEPT ![r] = links]
      /\ stop' = [stop EXCEPT ![r] = e.kind = "stop"]
      /\ pc' = [pc EXCEPT ![r] = IF e.kind = "stop" THEN "loop" ELSE "callback"]
      /\ events' = [events EXCEPT ![r] = Tail(list)]
      /\ UNCHANGED <<granted, lbts, rxCount, txCount, flight, arrived>>
  BY <1>2
<1> HIDE DEF list, e, links
<1>9. TypeOK'
  BY <1>1, <1>4, <1>6, <1>7, <1>8 DEF TypeOK
<1>10. OnlyRank(r) /\ pc'[r] \in {"loop", "callback"}
  BY <1>1, <1>8 DEF OnlyRank, TypeOK
<1>11. Lists'
  <2>1. ASSUME NEW q \in Ranks
        PROVE  /\ Sorted(events'[q])
               /\ \A x \in Members(events'[q]) : x.kind = "complete" => x.arg \in OwnLinks(q)
               /\ sending'[q] \subseteq OwnLinks(q)
    <3>1. CASE q = r
      <4>1. events'[q] = Tail(list) /\ sending'[q] = links
        BY <1>1, <1>8, <3>1 DEF TypeOK
      <4>2. \A x \in Members(list) : x.kind = "complete" => x.arg \in OwnLinks(r)
        BY <1>1 DEF Lists, list
      <4> QED BY <1>4, <1>6, <3>1, <4>1, <4>2
    <3>2. CASE q # r
      BY <1>1, <1>10, <3>2 DEF OnlyRank, Lists
    <3> QED BY <3>1, <3>2
  <2> QED BY <2>1 DEF Lists
<1>12. Counted'
  BY <1>1, <1>8 DEF Counted
<1>13. Reported' /\ Halted'
  BY <1>2, <1>10, OthersKeep
<1>14. ASSUME NEW t \in Nat, Window(t) PROVE Window(t)'
  <2>1. InWindow(r, t)
    BY <1>14 DEF Window
  <2>2. \A x \in Members(list) : t <= x.ts
    BY <1>2, <2>1 DEF InWindow, list
  <2>3. /\ now'[r] = e.ts /\ events'[r] = Tail(list) /\ granted'[r] = granted[r]
    BY <1>1, <1>8 DEF TypeOK
  <2>4. OwnLinks(r) # {} => granted[r] <= t + LookAhead(r)
    BY <2>1 DEF InWindow
  <2>5. OwnLinks(r) # {} => e.ts <= t + LookAhead(r)
    <3>1. granted[r] \in Nat /\ LookAhead(r) \in Nat
      BY <1>1, LookAheadIsLeast DEF TypeOK
    <3> QED BY <1>2, <1>7, <2>4, <3>1
  <2>6. InWindow(r, t)'
    BY <1>4, <2>2, <2>3, <2>4, <2>5 DEF InWindow
  <2>7. \A q \in Ranks : InWindow(q, t)'
    BY <1>2, <1>10, <1>14, <2>6, OthersKeep DEF Window
  <2> QED BY <1>8, <1>14, <2>7 DEF Window
<1> QED BY <1>9, <1>11, <1>12, <1>13, <1>14 DEF IInv

(* TransmitStart: the message is received after the delay of its link.     *)
LEMMA TransmitStartStep ==
    ASSUME IInv, NEW r \in Ranks, NEW l \in Links, TransmitStart(r, l)
    PROVE  IInv'
<1> DEFINE list == events[r]
           e == Event(now[r] + l.tx, "complete", l)
           new == Insert(list, e)
           msg == [link |-> l, rx |-> now[r] + l.tx + l.delay, num |-> txCount[r]]
<1>1. TypeOK /\ Lists /\ Counted
  BY DEF IInv
<1>2. /\ pc[r] = "callback" /\ l \in sending[r]
      /\ flight' = flight \cup {msg}
      /\ txCount' = [txCount EXCEPT ![r] = @ + 1]
      /\ events' = [events EXCEPT ![r] = new]
      /\ UNCHANGED <<pc, now, stop, granted, lbts, rxCount, sending, arrived>>
  BY DEF TransmitStart
<1>3. /\ l.tx \in Nat /\ l.delay \in Nat /\ now[r] \in Nat /\ txCount[r] \in Nat
      /\ list \in Seq(Events) /\ Sorted(list) /\ l \in OwnLinks(r) /\ l.from = r
  BY <1>1, <1>2, LinkTypes DEF TypeOK, Lists, OwnLinks
<1>4. /\ e \in Events /\ e.ts = now[r] + l.tx /\ e.arg = l
      /\ msg \in Messages /\ msg.link = l /\ msg.num = txCount[r]
      /\ msg.rx = now[r] + l.tx + l.delay
  BY <1>3 DEF Event, Events, Messages
<1> HIDE DEF list, e, msg
<1>5. new \in Seq(Events) /\ Sorted(new) /\ Members(new) = Members(list) \cup {e}
  BY <1>3, <1>4, InsertKeeps
<1> HIDE DEF new
<1>6. TypeOK'
  <2>1. events' \in [Ranks -> Seq(Events)] /\ txCount' \in [Ranks -> Nat]
    BY <1>1, <1>2, <1>3, <1>5 DEF TypeOK
  <2>2. flight' \in SUBSET Messages
    BY <1>1, <1>2, <1>4 DEF TypeOK
  <2> QED BY <1>1, <1>2, <2>1, <2>2 DEF TypeOK
<1>7. OnlyRank(r) /\ pc'[r] = "callback"
  BY <1>1, <1>2 DEF OnlyRank, TypeOK
<1>8. Lists'
  <2>1. ASSUME NEW q \in Ranks
        PROVE  /\ Sorted(events'[q])
               /\ \A x \in Members(events'[q]) : x.kind = "complete" => x.arg \in OwnLinks(q)
               /\ sending'[q] \subseteq OwnLinks(q)
    <3>1. CASE q = r
      <4>1. events'[q] = new /\ sending'[q] = sending[q]
        BY <1>1, <1>2, <3>1 DEF TypeOK
      <4>2. \A x \in Members(list) : x.kind = "complete" => x.arg \in OwnLinks(r)
        BY <1>1 DEF Lists, list
      <4>3. sending[q] \subseteq OwnLinks(q)
        BY <1>1 DEF Lists
      <4> QED BY <1>3, <1>4, <1>5, <3>1, <4>1, <4>2, <4>3
    <3>2. CASE q # r
      BY <1>1, <1>7, <3>2 DEF OnlyRank, Lists
    <3> QED BY <3>1, <3>2
  <2> QED BY <2>1 DEF Lists
<1>9. Counted'
  <2> DEFINE all == flight \cup arrived
  <2>1. /\ IsFiniteSet(all) /\ flight \cap arrived = {}
        /\ \A m \in all : m.num < txCount[m.link.from]
        /\ Total(txCount) = Total(rxCount) + Cardinality(all)
        /\ all \subseteq Messages
    BY <1>1 DEF Counted, TypeOK
  <2>2. msg \notin all
    <3>1. ~(txCount[r] < txCount[r])
      BY <1>3
    <3> QED BY <1>3, <1>4, <2>1, <3>1
  <2>3. (flight \cup arrived)' = all \cup {msg}
    BY <1>2
  <2>4. (flight \cap arrived)' = {}
    BY <1>2, <2>1, <2>2
  <2> HIDE DEF all
  <2>5. IsFiniteSet(all \cup {msg}) /\ Cardinality(all \cup {msg}) = Cardinality(all) + 1
    BY <2>1, <2>2, FS_AddElement
  <2>6. ASSUME NEW m \in all \cup {msg} PROVE m.num < txCount'[m.link.from]
    <3>1. CASE m = msg
      <4>1. txCount'[r] = txCount[r] + 1
        BY <1>1, <1>2 DEF TypeOK
      <4> QED BY <1>3, <1>4, <3>1, <4>1
    <3>2. CASE m \in all
      <4>1. m.num \in Nat /\ m.link.from \in Ranks /\ m.num < txCount[m.link.from]
        BY <2>1, <3>2, LinkTypes DEF Messages
      <4>2. txCount[m.link.from] \in Nat
        BY <1>1, <4>1 DEF TypeOK
      <4>3. \/ txCount'[m.link.from] = txCount[m.link.from]
            \/ txCount'[m.link.from] = txCount[m.link.from] + 1
        BY <1>1, <1>2, <4>1 DEF TypeOK
      <4> QED BY <4>1, <4>2, <4>3
    <3> QED BY <2>6, <3>1, <3>2
  <2>7. Total(txCount') = Total(rxCount') + Cardinality(all \cup {msg})
    <3>1. Total(txCount') = Total(txCount) + 1
      BY <1>1, <1>2, TotalCounts DEF TypeOK
    <3>2. Total(rxCount) \in Nat /\ Cardinality(all) \in Nat
      BY <1>1, <2>1, TotalType, FS_CardinalityType DEF TypeOK
    <3>3. rxCount' = rxCount
      BY <1>2
    <3> QED BY <2>1, <2>5, <3>1, <3>2, <3>3
  <2> QED BY <2>3, <2>4, <2>5, <2>6, <2>7 DEF Counted
<1>10. Reported' /\ Halted'
  BY <1>2, <1>7, OthersKeep
<1>11. ASSUME NEW t \in Nat, Window(t) PROVE Window(t)'
  <2>1. InWindow(r, t)
    BY <1>11 DEF Window
  <2>2. t <= now[r] /\ (~stop[r] => \A x \in Members(list) : t <= x.ts)
    BY <1>2, <2>1 DEF InWindow, list
  <2>3. /\ now'[r] = now[r] /\ events'[r] = new /\ granted'[r] = granted[r] /\ stop'[r] = stop[r]
        /\ pc'[r] = pc[r]
    BY <1>1, <1>2 DEF TypeOK
  <2>4. t <= e.ts /\ t + l.delay <= msg.rx
    BY <1>3, <1>4, <2>2
  <2>5. InWindow(r, t)'
    BY <1>5, <2>1, <2>2, <2>3, <2>4 DEF InWindow
  <2>6. \A q \in Ranks : InWindow(q, t)'
    BY <1>2, <1>7, <1>11, <2>5, OthersKeep DEF Window
  <2>7. \A m \in (flight \cup arrived)' : t + m.link.delay <= m.rx
    BY <1>2, <1>4, <1>11, <2>4 DEF Window
  <2> QED BY <2>6, <2>7 DEF Window
<1> QED BY <1>6, <1>8, <1>9, <1>10, <1>11 DEF IInv

(* The steps that only move the rank on: the callback ends, and the window *)
(* does.                                                                   *)
LEMMA MoveStep ==
    ASSUME IInv, NEW r \in Ranks, EndCallback(r) \/ EndWindow(r)
    PROVE  IInv'
<1>1. TypeOK /\ Lists /\ Counted
  BY DEF IInv
<1>2. /\ pc[r] \in {"callback", "loop"}
      /\ \E p \in {"loop", "receive"} : pc' = [pc EXCEPT ![r] = p]
      /\ sending' = [sending EXCEPT ![r] = {}] \/ sending' = sending
      /\ UNCHANGED <<now, events, stop, granted, lbts, rxCount, txCount, flight, arrived>>
  BY DEF EndCallback, EndWindow
<1>3. TypeOK'
  <2>1. PICK p \in {"loop", "receive"} : pc' = [pc EXCEPT ![r] = p]
    BY <1>2
  <2>2. pc' \in [Ranks -> {"loop", "callback", "receive", "allgather", "finished"}]
    BY <1>1, <2>1 DEF TypeOK
  <2>3. sending' \in [Ranks -> SUBSET Links]
    BY <1>1, <1>2 DEF TypeOK
  <2> QED BY <1>1, <1>2, <2>2, <2>3 DEF TypeOK
<1>4. OnlyRank(r) /\ pc'[r] \in {"loop", "receive"}
  BY <1>1, <1>2 DEF OnlyRank, TypeOK
<1>5. Lists'
  <2>1. \A q \in Ranks : sending'[q] \subseteq sending[q]
    BY <1>1, <1>2 DEF TypeOK
  <2> QED BY <1>1, <1>2, <2>1 DEF Lists
<1>6. Counted'
  BY <1>1, <1>2 DEF Counted
<1>7. Reported' /\ Halted'
  BY <1>2, <1>4, OthersKeep
<1>8. ASSUME NEW t \in Nat, Window(t) PROVE Window(t)'
  <2>1. InWindow(r, t)
    BY <1>8 DEF Window
  <2>2. InWindow(r, t)'
    BY <1>2, <1>4, <2>1 DEF InWindow
  <2>3. \A q \in Ranks : InWindow(q, t)'
    BY <1>2, <1>4, <1>8, <2>2, OthersKeep DEF Window
  <2> QED BY <1>2, <1>8, <2>3 DEF Window
<1> QED BY <1>3, <1>5, <1>6, <1>7, <1>8 DEF IInv

(* MPI delivers a message. *)
LEMMA ArriveStep ==
    ASSUME IInv, NEW r \in Ranks, Arrive(r)
    PROVE  IInv'
<1>1. TypeOK /\ Lists /\ Counted /\ Reported /\ Halted
  BY DEF IInv
<1>2. PICK m \in flight : flight' = flight \ {m} /\ arrived' = arrived \cup {m}
  BY DEF Arrive
<1>3. UNCHANGED <<pc, now, events, stop, granted, lbts, rxCount, txCount, sending>>
  BY DEF Arrive
<1>4. (flight \cup arrived)' = flight \cup arrived /\ ((flight \cap arrived) = {} => (flight \cap arrived)' = {})
  BY <1>2
<1>5. TypeOK'
  BY <1>1, <1>2, <1>3 DEF TypeOK
<1>6. Lists'
  BY <1>1, <1>3 DEF Lists
<1>7. Counted'
  BY <1>1, <1>3, <1>4 DEF Counted
<1>8. Reported'
  BY <1>1, <1>3 DEF Reported, IsLocalFinished, NextTs
<1>9. Halted'
  BY <1>1, <1>2, <1>3 DEF Halted
<1>10. ASSUME NEW t \in Nat, Window(t) PROVE Window(t)'
  <2>1. \A q \in Ranks : InWindow(q, t)'
    BY <1>3, <1>10 DEF Window, InWindow
  <2> QED BY <1>4, <1>10, <2>1 DEF Window
<1> QED BY <1>5, <1>6, <1>7, <1>8, <1>9, <1>10 DEF IInv

(* ReceiveMessages takes a message, which is no earlier than the window.   *)
LEMMA ReceiveMessageStep ==
    ASSUME IInv, NEW r \in Ranks, ReceiveMessage(r)
    PROVE  IInv'
<1>1. TypeOK /\ Lists /\ Counted
  BY DEF IInv
<1>2. PICK m \in Received(r) :
        /\ events' = [events EXCEPT ![r] = Insert(@, Event(m.rx, "receive", r))]
        /\ arrived' = arrived \ {m}
  BY DEF ReceiveMessage
<1> DEFINE list == events[r]
           e == Event(m.rx, "receive", r)
           new == Insert(list, e)
<1>3. /\ pc[r] = "receive" /\ events' = [events EXCEPT ![r] = new]
      /\ rxCount' = [rxCount EXCEPT ![r] = @ + 1]
      /\ UNCHANGED <<pc, now, stop, granted, lbts, txCount, sending, flight>>
  BY <1>2 DEF ReceiveMessage
<1>4. /\ m \in arrived /\ m.rx \in Nat /\ m.link.delay \in Nat
      /\ list \in Seq(Events) /\ Sorted(list)
  BY <1>1, <1>2, LinkTypes DEF TypeOK, Lists, Received, Messages
<1>5. e \in Events /\ e.ts = m.rx /\ e.kind = "receive"
  BY <1>4 DEF Event, Events
<1> HIDE DEF list, e
<1>6. new \in Seq(Events) /\ Sorted(new) /\ Members(new) = Members(list) \cup {e}
  BY <1>4, <1>5, InsertKeeps
<1> HIDE DEF new
<1>7. TypeOK'
  <2>1. events' \in [Ranks -> Seq(Events)] /\ rxCount' \in [Ranks -> Nat]
    BY <1>1, <1>3, <1>6 DEF TypeOK
  <2>2. arrived' \in SUBSET Messages
    BY <1>1, <1>2 DEF TypeOK
  <2> QED BY <1>1, <1>3, <2>1, <2>2 DEF TypeOK
<1>8. OnlyRank(r) /\ pc'[r] = "receive"
  BY <1>1, <1>3 DEF OnlyRank, TypeOK
<1>9. Lists'
  <2>1. ASSUME NEW q \in Ranks
        PROVE  /\ Sorted(events'[q])
               /\ \A x \in Members(events'[q]) : x.kind = "complete" => x.arg \in OwnLinks(q)
               /\ sending'[q] \subseteq OwnLinks(q)
    <3>1. CASE q = r
      <4>1. events'[q] = new /\ sending'[q] = sending[q]
        BY <1>1, <1>3, <3>1 DEF TypeOK
      <4>2. \A x \in Members(list) : x.kind = "complete" => x.arg \in OwnLinks(r)
        BY <1>1 DEF Lists, list
      <4>3. sending[q] \subseteq OwnLinks(q)
        BY <1>1 DEF Lists
      <4> QED BY <1>5, <1>6, <3>1, <4>1, <4>2, <4>3
    <3>2. CASE q # r
      BY <1>1, <1>8, <3>2 DEF OnlyRank, Lists
    <3> QED BY <3>1, <3>2
  <2> QED BY <2>1 DEF Lists
<1>10. Counted'
  <2> DEFINE all == flight \cup arrived
  <2>1. /\ IsFiniteSet(all) /\ flight \cap arrived = {}
        /\ \A x \in all : x.num < txCount[x.link.from]
        /\ Total(txCount) = Total(rxCount) + Cardinality(all)
    BY <1>1 DEF Counted
  <2>2. (flight \cup arrived)' = all \ {m} /\ (flight \cap arrived)' = {} /\ m \in all
    BY <1>2, <1>3, <1>4, <2>1
  <2> HIDE DEF all
  <2>3. IsFiniteSet(all \ {m}) /\ Cardinality(all \ {m}) = Cardinality(all) - 1
    BY <2>1, <2>2, FS_RemoveElement
  <2>4. Total(txCount') = Total(rxCount') + Cardinality(all \ {m})
    <3>1. Total(rxCount') = Total(rxCount) + 1
      BY <1>1, <1>3, TotalCounts DEF TypeOK
    <3>2. Total(rxCount) \in Nat /\ Cardinality(all) \in Nat
      BY <1>1, <2>1, TotalType, FS_CardinalityType DEF TypeOK
    <3>3. txCount' = txCount
      BY <1>3
    <3> QED BY <2>1, <2>3, <3>1, <3>2, <3>3
  <2>5. \A x \in all \ {m} : x.num < txCount'[x.link.from]
    BY <1>3, <2>1
  <2> QED BY <2>2, <2>3, <2>4, <2>5 DEF Counted
<1>11. Reported' /\ Halted'
  BY <1>3, <1>8, OthersKeep
<1>12. ASSUME NEW t \in Nat, Window(t) PROVE Window(t)'
  <2>1. InWindow(r, t) /\ t + m.link.delay <= m.rx
    BY <1>4, <1>12 DEF Window
  <2>2. t <= e.ts
    BY <1>4, <1>5, <2>1
  <2>3. /\ now'[r] = now[r] /\ events'[r] = new /\ granted'[r] = granted[r] /\ stop'[r] = stop[r]
        /\ pc'[r] = pc[r]
    BY <1>1, <1>3 DEF TypeOK
  <2>4. InWindow(r, t)'
    BY <1>6, <2>1, <2>2, <2>3 DEF InWindow, list
  <2>5. \A q \in Ranks : InWindow(q, t)'
    BY <1>3, <1>8, <1>12, <2>4, OthersKeep DEF Window
  <2>6. \A x \in (flight \cup arrived)' : t + x.link.delay <= x.rx
    BY <1>2, <1>3, <1>12 DEF Window
  <2> QED BY <2>5, <2>6 DEF Window
<1> QED BY <1>7, <1>9, <1>10, <1>11, <1>12 DEF IInv

(* The time of the next event is no later than that of any. *)
LEMMA NextTsIsFirst ==
    ASSUME TypeOK, Lists, NEW r \in Ranks
    PROVE  /\ NextTs(r, events[r]) \in Nat
           /\ ~stop[r] => \A e \in Members(events[r]) : NextTs(r, events[r]) <= e.ts
<1> DEFINE list == events[r]
<1>1. list \in Seq(Events) /\ Sorted(list)
  BY DEF TypeOK, Lists
<1>2. CASE list = << >> \/ stop[r]
  BY <1>2, LinkTypes DEF NextTs, Members
<1>3. CASE list # << >> /\ ~stop[r]
  <2>1. NextTs(r, list) = Head(list).ts
    BY <1>3 DEF NextTs
  <2> HIDE DEF list
  <2>2. Head(list) \in Events /\ \A e \in Members(list) : Head(list).ts <= e.ts
    BY <1>1, <1>3, TailKeeps
  <2> QED BY <2>1, <2>2, EventTime DEF list
<1> QED BY <1>2, <1>3

(* A rank joins the Allgather. *)
LEMMA EnterAllgatherStep ==
    ASSUME IInv, NEW r \in Ranks, EnterAllgather(r)
    PROVE  IInv'
<1> DEFINE report == [rx |-> rxCount[r], tx |-> txCount[r], finished |-> IsLocalFinished(r),
                      time |-> NextTs(r, events[r])]
<1>1. TypeOK /\ Lists /\ Counted /\ Reported
  BY DEF IInv
<1>2. /\ pc[r] = "receive" /\ lbts' = [lbts EXCEPT ![r] = report]
      /\ pc' = [pc EXCEPT ![r] = "allgather"]
      /\ UNCHANGED <<now, events, stop, granted, rxCount, txCount, sending, flight, arrived>>
  BY DEF EnterAllgather
<1>3. report \in [rx : Nat, tx : Nat, finished : BOOLEAN, time : Nat]
  <2>1. rxCount[r] \in Nat /\ txCount[r] \in Nat /\ NextTs(r, events[r]) \in Nat
    BY <1>1, NextTsIsFirst DEF TypeOK
  <2>2. IsLocalFinished(r) \in BOOLEAN
    BY <1>1 DEF IsLocalFinished, TypeOK
  <2> QED BY <2>1, <2>2
<1>4. PICK rep : rep = report
  OBVIOUS
<1>5. /\ pc \in [Ranks -> {"loop", "callback", "receive", "allgather", "finished"}]
      /\ lbts \in [Ranks -> [rx : Nat, tx : Nat, finished : BOOLEAN, time : Nat]]
  BY <1>1 DEF TypeOK
<1>6. /\ lbts' = [lbts EXCEPT ![r] = rep]
      /\ rep \in [rx : Nat, tx : Nat, finished : BOOLEAN, time : Nat]
  BY <1>2, <1>3, <1>4
<1> HIDE DEF report
<1>7. /\ pc' \in [Ranks -> {"loop", "callback", "receive", "allgather", "finished"}]
      /\ lbts' \in [Ranks -> [rx : Nat, tx : Nat, finished : BOOLEAN, time : Nat]]
      /\ pc'[r] = "allgather" /\ lbts'[r] = rep
      /\ \A q \in Ranks \ {r} : pc'[q] = pc[q] /\ lbts'[q] = lbts[q]
  BY <1>2, <1>5, <1>6
<1>8. TypeOK'
  BY <1>1, <1>2, <1>7 DEF TypeOK
<1>9. OnlyRank(r)
  BY <1>2, <1>7 DEF OnlyRank
<1>10. Lists' /\ Counted'
  BY <1>1, <1>2 DEF Lists, Counted
<1>11. Halted'
  BY <1>2, <1>7, <1>9, OthersKeep
<1>12. Reported'
  <2>1. ASSUME NEW q \in Ranks, pc'[q] = "allgather"
        PROVE  lbts'[q] = [rx |-> rxCount[q], tx |-> txCount[q],
                           finished |-> IsLocalFinished(q), time |-> NextTs(q, events[q])]
    <3>1. CASE q = r
      BY <1>4, <1>7, <3>1 DEF report
    <3>2. CASE q # r
      BY <1>1, <1>7, <2>1, <3>2 DEF Reported
    <3> QED BY <3>1, <3>2
  <2>2. \A q \in Ranks : /\ IsLocalFinished(q)' = IsLocalFinished(q)
                         /\ NextTs(q, events[q])' = NextTs(q, events[q])
    BY <1>2 DEF IsLocalFinished, NextTs
  <2> QED BY <1>2, <2>1, <2>2 DEF Reported
<1>13. ASSUME NEW t \in Nat, Window(t) PROVE Window(t)'
  <2>1. InWindow(r, t)
    BY <1>13 DEF Window
  <2>2. InWindow(r, t)'
    BY <1>2, <1>7, <2>1 DEF InWindow
  <2>3. \A q \in Ranks : InWindow(q, t)'
    BY <1>2, <1>7, <1>9, <1>13, <2>2, OthersKeep DEF Window
  <2> QED BY <1>2, <1>13, <2>3 DEF Window
<1> QED BY <1>8, <1>10, <1>11, <1>12, <1>13 DEF IInv

(* What a rank in the Allgather has reported. *)
LEMMA Report ==
    ASSUME Reported, NEW r \in Ranks, pc[r] = "allgather"
    PROVE  /\ lbts[r].rx = rxCount[r] /\ lbts[r].tx = txCount[r]
           /\ lbts[r].finished = IsLocalFinished(r) /\ lbts[r].time = NextTs(r, events[r])
<1>1. PICK a, b, c, d : a = rxCount[r] /\ b = txCount[r] /\ c = IsLocalFinished(r)
                        /\ d = NextTs(r, events[r])
  OBVIOUS
<1>2. lbts[r] = [rx |-> a, tx |-> b, finished |-> c, time |-> d]
  BY <1>1 DEF Reported
<1>3. lbts[r].rx = a /\ lbts[r].tx = b /\ lbts[r].finished = c /\ lbts[r].time = d
  BY <1>2
<1> QED BY <1>1, <1>3

(* When the sums are equal nothing is on its way. *)
LEMMA NothingOnItsWay ==
    ASSUME IInv, \A r \in Ranks : pc[r] = "allgather", NoTransients
    PROVE  flight \cup arrived = {}
<1>1. TypeOK /\ Counted /\ Reported
  BY DEF IInv
<1>2. \A r \in Ranks : lbts[r].rx = rxCount[r] /\ lbts[r].tx = txCount[r]
  BY <1>1, Report
<1>3. [r \in Ranks |-> lbts[r].rx] = rxCount /\ [r \in Ranks |-> lbts[r].tx] = txCount
  BY <1>1, <1>2 DEF TypeOK
<1>4. Total(rxCount) = Total(txCount)
  BY <1>3 DEF NoTransients
<1>5. /\ IsFiniteSet(flight \cup arrived) /\ Total(rxCount) \in Nat
      /\ Total(txCount) = Total(rxCount) + Cardinality(flight \cup arrived)
  BY <1>1, TotalType DEF Counted, TypeOK
<1>6. Cardinality(flight \cup arrived) = 0
  BY <1>4, <1>5, FS_CardinalityType
<1> QED BY <1>5, <1>6, FS_EmptySet

(* The Allgather grants the next windows, from the time of the first event *)
(* of all, or ends Run.                                                    *)
LEMMA AllgatherStep ==
    ASSUME IInv, Allgather
    PROVE  IInv'
<1>1. TypeOK /\ Lists /\ Counted /\ Reported
  BY DEF IInv
<1>2. /\ \A r \in Ranks : pc[r] = "allgather"
      /\ pc' = [r \in Ranks |-> IF GlobalFinished THEN "finished" ELSE "loop"]
      /\ granted' = [r \in Ranks |->
            IF ~NoTransients THEN granted[r]
            ELSE IF LookAhead(r) = MaxTime THEN MaxTime
            ELSE Min({lbts[q].time : q \in Ranks}) + LookAhead(r)]
      /\ UNCHANGED <<now, events, stop, lbts, rxCount, txCount, sending, flight, arrived>>
  BY DEF Allgather
<1> DEFINE first == Min({lbts[q].time : q \in Ranks})
<1>3. ASSUME Ranks # {}
      PROVE  /\ first \in Nat
             /\ \A q \in Ranks : ~stop[q] => \A e \in Members(events[q]) : first <= e.ts
  <2> DEFINE A == {lbts[q].time : q \in Ranks}
  <2>1. \A q \in Ranks : lbts[q].time = NextTs(q, events[q])
    BY <1>1, <1>2, Report
  <2>2. A \subseteq Nat /\ A # {} /\ \A q \in Ranks : NextTs(q, events[q]) \in A
    BY <1>1, <1>3, <2>1, NextTsIsFirst
  <2>3. first = Min(A)
    OBVIOUS
  <2> HIDE DEF A, first
  <2>4. first \in Nat /\ \A x \in A : first <= x
    BY <2>2, <2>3, MinOf
  <2>5. ASSUME NEW q \in Ranks, ~stop[q], NEW e \in Members(events[q]) PROVE first <= e.ts
    <3>1. NextTs(q, events[q]) \in Nat /\ NextTs(q, events[q]) <= e.ts
      BY <1>1, <2>5, NextTsIsFirst
    <3>2. first <= NextTs(q, events[q])
      BY <2>2, <2>4
    <3>3. e.ts \in Nat
      <4>1. events[q] \in Seq(Events)
        BY <1>1 DEF TypeOK
      <4> QED BY <2>5, <4>1, EventTime DEF Members
    <3> QED BY <2>4, <3>1, <3>2, <3>3
  <2> QED BY <2>4, <2>5
<1> HIDE DEF first
<1>4. granted' = [r \in Ranks |->
            IF ~NoTransients THEN granted[r]
            ELSE IF LookAhead(r) = MaxTime THEN MaxTime ELSE first + LookAhead(r)]
  BY <1>2 DEF first
<1>5. \A r \in Ranks : granted[r] \in Nat /\ LookAhead(r) \in Nat /\ now[r] \in Nat /\ MaxTime \in Nat
  BY <1>1, LookAheadIsLeast, LinkTypes DEF TypeOK
<1>6. TypeOK'
  <2>1. granted' \in [Ranks -> Nat]
    BY <1>3, <1>4, <1>5
  <2>2. pc' \in [Ranks -> {"loop", "callback", "receive", "allgather", "finished"}]
    BY <1>2
  <2> QED BY <1>1, <1>2, <2>1, <2>2 DEF TypeOK
<1>7. Lists' /\ Counted'
  BY <1>1, <1>2 DEF Lists, Counted
<1>8. Reported'
  BY <1>2 DEF Reported
<1>9. Halted'
  <2> SUFFICES ASSUME NEW q \in Ranks, pc'[q] = "finished"
               PROVE  /\ \A r \in Ranks : pc'[r] = "finished" /\ IsLocalFinished(r)'
                      /\ (flight \cup arrived)' = {}
    BY DEF Halted
  <2>1. GlobalFinished
    BY <1>2
  <2>2. flight \cup arrived = {}
    BY <1>2, <2>1, NothingOnItsWay DEF GlobalFinished
  <2>3. \A r \in Ranks : IsLocalFinished(r)
    BY <1>1, <1>2, <2>1, Report DEF GlobalFinished
  <2>4. \A r \in Ranks : IsLocalFinished(r)'
    BY <1>2, <2>3 DEF IsLocalFinished
  <2> QED BY <1>2, <2>1, <2>2, <2>4
<1>10. PICK t \in Nat : Window(t)
  BY DEF IInv
<1>11. \E u \in Nat : Window(u)'
  <2>1. CASE ~NoTransients \/ Ranks = {}
    <3>1. \A r \in Ranks : granted'[r] = granted[r] /\ pc'[r] # "callback"
      BY <1>2, <1>4, <2>1
    <3>2. \A r \in Ranks : InWindow(r, t)'
      BY <1>2, <1>10, <3>1 DEF Window, InWindow
    <3>3. Window(t)'
      BY <1>2, <1>10, <3>2 DEF Window
    <3> QED BY <3>3
  <2>2. CASE NoTransients /\ Ranks # {}
    <3>0. PICK u \in Nat : t <= u /\ first <= u /\ (u = t \/ u = first)
      <4>1. t <= first \/ first <= t
        BY <1>3, <2>2
      <4> QED BY <1>3, <2>2, <4>1
    <3>1. flight \cup arrived = {}
      BY <1>2, <2>2, NothingOnItsWay
    <3>2. ASSUME NEW r \in Ranks PROVE InWindow(r, u)'
      <4>1. InWindow(r, t)
        BY <1>10 DEF Window
      <4>2. granted'[r] = IF LookAhead(r) = MaxTime THEN MaxTime ELSE first + LookAhead(r)
        BY <1>4, <2>2
      <4>3. granted'[r] <= u + LookAhead(r)
        BY <1>3, <1>5, <2>2, <3>0, <4>2
      <4>4. OwnLinks(r) # {} => now[r] <= u + LookAhead(r)
        <5>1. OwnLinks(r) # {} => now[r] <= t + LookAhead(r)
          BY <4>1 DEF InWindow
        <5> QED BY <1>5, <3>0, <5>1
      <4>5. ~stop[r] => \A e \in Members(events[r]) : u <= e.ts
        BY <1>3, <2>2, <3>0, <4>1 DEF InWindow
      <4>6. pc'[r] # "callback"
        BY <1>2
      <4> QED BY <1>2, <4>3, <4>4, <4>5, <4>6 DEF InWindow
    <3>3. Window(u)'
      BY <1>2, <3>1, <3>2 DEF Window
    <3> QED BY <3>0, <3>3
  <2> QED BY <2>1, <2>2
<1> QED BY <1>6, <1>7, <1>8, <1>9, <1>11 DEF IInv

(* Every step of the specification. *)
LEMMA IInvNext == IInv /\ [Next]_vars => IInv'
<1> SUFFICES ASSUME IInv, [Next]_vars PROVE IInv'
  OBVIOUS
<1>1. ASSUME NEW r \in Ranks, Run(r) PROVE IInv'
  BY <1>1, ProcessOneEventStep, TransmitStartStep, MoveStep, ReceiveMessageStep,
     EnterAllgatherStep DEF Run
<1>2. CASE UNCHANGED vars
  <2>1. /\ TypeOK /\ Lists /\ Counted /\ Reported /\ Halted /\ \E t \in Nat : Window(t)
    BY DEF IInv
  <2>2. TypeOK' /\ Lists' /\ Counted' /\ Reported' /\ Halted'
    BY <1>2, <2>1 DEF vars, TypeOK, Lists, Counted, Reported, Halted, IsLocalFinished, NextTs
  <2>3. \A t \in Nat : Window(t) => Window(t)'
    BY <1>2 DEF vars, Window, InWindow
  <2> QED BY <2>1, <2>2, <2>3 DEF IInv
<1> QED BY <1>1, <1>2, ArriveStep, AllgatherStep DEF Next

(* The invariant of the granted time window. *)
LEMMA Invariance == Spec => []IInv
BY IInvInit, IInvNext, PTL DEF Spec

-----------------------------------------------------------------------------
(* A rank never runs past a packet it is still to receive: what is in      *)
(* flight, or has arrived and waits for ReceiveMessages, is to be received *)
(* at the rank's time or later.  For any ranks, links and delays.          *)
THEOREM GrantedNothingInThePast == Spec => []NothingInThePast
<1>1. ASSUME IInv PROVE NothingInThePast
  <2> SUFFICES ASSUME NEW m \in flight \cup arrived PROVE m.rx >= now[m.link.to]
    BY DEF NothingInThePast
  <2>1. PICK t \in Nat : Window(t)
    BY <1>1 DEF IInv
  <2>2. m \in Messages /\ TypeOK
    BY <1>1 DEF IInv, TypeOK
  <2>3. /\ m.link \in Links /\ m.rx \in Nat /\ m.link.to \in Ranks
        /\ m.link.delay \in Nat /\ now[m.link.to] \in Nat
    BY <2>2, LinkTypes DEF Messages, TypeOK
  <2>4. PICK back \in OwnLinks(m.link.to) : back.delay = m.link.delay
    BY <2>3, LinkTypes DEF OwnLinks
  <2>5. LookAhead(m.link.to) \in Nat /\ LookAhead(m.link.to) <= m.link.delay
    BY <2>3, <2>4, LookAheadIsLeast
  <2>6. t + m.link.delay <= m.rx /\ now[m.link.to] <= t + LookAhead(m.link.to)
    BY <2>1, <2>3, <2>4 DEF Window, InWindow
  <2> QED BY <2>3, <2>5, <2>6
<1> QED BY <1>1, Invariance, PTL

(* Run ends on a rank only when no event is left on any, or Stop was       *)
(* called there, and no message is on its way to any: the counts are equal *)
(* when the ranks leave for good.                                          *)
THEOREM GrantedHaltsWhenDone == Spec => []HaltsWhenDone
<1>1. IInv => HaltsWhenDone
  BY DEF IInv, Halted, HaltsWhenDone
<1> QED BY <1>1, Invariance, PTL

=============================================================================
