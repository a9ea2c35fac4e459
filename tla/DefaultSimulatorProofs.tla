------------------------ MODULE DefaultSimulatorProofs ------------------------
(***************************************************************************)
(* The event loop for any number of events, delays and calls from other    *)
(* threads, as long as the 32 bits of m_uid do not wrap.                   *)
(***************************************************************************)
EXTENDS DefaultSimulator, FiniteSetTheorems, SequenceTheorems, WellFoundedInduction,
        NaturalsInduction, TLAPS

(* Fewer events are scheduled than there are uids. *)
UidsDoNotWrap == MaxSchedules + MaxPosts + VALID < UidModulus

Ids == [ts : Nat, uid : Nat, impl : Nat]

Calls == [delay : Nat, impl : Nat]

TypeOK ==
    /\ pc \in {"outside", "event", "destroying", "flush", "swap", "move", "loop", "gone"}
    /\ events \subseteq Ids /\ IsFiniteSet(events)
    /\ ids \subseteq Ids
    /\ destroy \in Seq(Ids) /\ posted \in Seq(Calls) /\ moving \in Seq(Calls)
    /\ impls \in Nat /\ now \in Nat /\ current \in Nat /\ uid \in Nat /\ posts \in Nat

Impls(s) == {s[i].impl : i \in DOMAIN s}

Distinct(s) == \A i, j \in DOMAIN s : i # j => s[i].impl # s[j].impl

(* The uids handed out are below m_uid, and no two events have the same.   *)
UidsAreFresh ==
    /\ current < uid /\ VALID <= uid
    /\ \A e \in events : VALID <= e.uid /\ e.uid < uid
    /\ \A e, f \in events : e.uid = f.uid => e = f
    /\ uid + Len(posted) + Len(moving) <= VALID + impls
    /\ impls <= MaxSchedules + posts /\ posts <= MaxPosts

(* An EventImpl is in one place: the list, the list of destroy events, or  *)
(* one of the two lists of foreign events; those in the list and the       *)
(* foreign ones have not run.                                              *)
ImplsAreApart ==
    LET inList == {e.impl : e \in events} IN
    /\ inList \cup ran \cup Impls(destroy) \cup Impls(posted) \cup Impls(moving) \subseteq 0 .. impls
    /\ \A e, f \in events : e.impl = f.impl => e = f
    /\ Distinct(posted) /\ Distinct(moving)
    /\ inList \cap (ran \cup Impls(destroy) \cup Impls(posted) \cup Impls(moving)) = {}
    /\ (ran \cup Impls(destroy)) \cap (Impls(posted) \cup Impls(moving)) = {}
    /\ Impls(posted) \cap Impls(moving) = {}

(* What is not in the list any more is in the past or cancelled, and has   *)
(* run or was cancelled.                                                   *)
Accounted ==
    pc # "gone" =>
        \A id \in ids : id.uid # DESTROY /\ id \notin events =>
            IsExpired(id) /\ id.impl \in ran \cup cancelled

IInv ==
    /\ TypeOK /\ UidsAreFresh /\ ImplsAreApart
    /\ NoEventInThePast /\ Accounted /\ NoEventLost
    /\ pc # "move" => moving = << >>

-----------------------------------------------------------------------------
(* A set of naturals that is not empty has a smallest element. *)
LEMMA SmallestOf ==
    ASSUME NEW A \in SUBSET Nat, A # {}
    PROVE  \E m \in A : \A x \in A : m <= x
<1>1. PICK m \in A : \A x \in A : <<x, m>> \notin OpToRel(<, Nat)
  BY WFMin, NatLessThanWellFounded
<1>2. \A x \in A : ~(x < m)
  BY <1>1 DEF OpToRel
<1> QED BY <1>2

(* RemoveNext returns the earliest event: operator< of EventKey is total   *)
(* on events with different uids.                                          *)
LEMMA EarliestIsFirst ==
    ASSUME NEW S \in SUBSET Ids, S # {}, \A e, f \in S : e.uid = f.uid => e = f
    PROVE  /\ List!Earliest(S) \in S
           /\ \A f \in S \ {List!Earliest(S)} : List!Before(List!Earliest(S), f)
<1> DEFINE T == {e.ts : e \in S}
<1>1. T \in SUBSET Nat /\ T # {}
  BY DEF Ids
<1>2. PICK t \in T : \A x \in T : t <= x
  <2> HIDE DEF T
  <2> QED BY <1>1, SmallestOf
<1> DEFINE U == {e.uid : e \in {f \in S : f.ts = t}}
<1>3. U \in SUBSET Nat /\ U # {}
  BY <1>2 DEF Ids
<1>4. PICK u \in U : \A x \in U : u <= x
  <2> HIDE DEF U
  <2> QED BY <1>3, SmallestOf
<1>5. PICK e \in S : e.ts = t /\ e.uid = u
  BY <1>4
<1>6. ASSUME NEW f \in S \ {e} PROVE List!Before(e, f)
  <2>1. /\ t <= f.ts /\ f.uid # u /\ f.ts \in Nat /\ f.uid \in Nat
        /\ e.ts \in Nat /\ e.uid \in Nat
    BY <1>2, <1>5 DEF Ids
  <2>2. f.ts = t => u <= f.uid
    BY <1>4
  <2> QED BY <1>5, <2>1, <2>2 DEF List!Before
<1> QED BY <1>6 DEF List!Earliest

(* What push_back does to the EventImpls of a list. *)
LEMMA AppendImpls ==
    ASSUME NEW T, NEW s \in Seq(T), NEW x \in T
    PROVE  /\ Append(s, x) \in Seq(T) /\ Len(Append(s, x)) = Len(s) + 1
           /\ Impls(Append(s, x)) = Impls(s) \cup {x.impl}
           /\ Distinct(s) /\ x.impl \notin Impls(s) => Distinct(Append(s, x))
<1> DEFINE r == Append(s, x)
<1>1. /\ r \in Seq(T) /\ Len(r) = Len(s) + 1 /\ DOMAIN r = 1 .. Len(s) + 1
      /\ DOMAIN s = 1 .. Len(s) /\ Len(s) \in Nat
      /\ \A i \in 1 .. Len(s) : r[i] = s[i]
      /\ r[Len(s) + 1] = x
  OBVIOUS
<1> HIDE DEF r
<1>2. \A i \in 1 .. Len(s) + 1 : i \in 1 .. Len(s) \/ i = Len(s) + 1
  BY <1>1
<1>3. \A i \in 1 .. Len(s) : i \in 1 .. Len(s) + 1
  BY <1>1
<1>4. Len(s) + 1 \in 1 .. Len(s) + 1
  BY <1>1
<1>5. Impls(r) = Impls(s) \cup {x.impl}
  BY <1>1, <1>2, <1>3, <1>4, Zenon DEF Impls
<1>6. ASSUME Distinct(s), x.impl \notin Impls(s) PROVE Distinct(r)
  <2>1. \A i \in 1 .. Len(s) : s[i].impl # x.impl
    BY <1>1, <1>6, Zenon DEF Impls
  <2>2. SUFFICES ASSUME NEW i \in 1 .. Len(s) + 1, NEW j \in 1 .. Len(s) + 1, i # j
                 PROVE  r[i].impl # r[j].impl
    BY <1>1 DEF Distinct
  <2>3. \/ i \in 1 .. Len(s) /\ j \in 1 .. Len(s)
        \/ i \in 1 .. Len(s) /\ j = Len(s) + 1
        \/ i = Len(s) + 1 /\ j \in 1 .. Len(s)
    BY <1>2, <2>2
  <2> QED BY <1>1, <1>6, <2>1, <2>2, <2>3, Zenon DEF Distinct
<1> QED BY <1>1, <1>5, <1>6 DEF r

(* What pop_front does to the EventImpls of a list. *)
LEMMA TailImpls ==
    ASSUME NEW T, NEW s \in Seq(T), s # << >>
    PROVE  /\ Head(s) \in T /\ Tail(s) \in Seq(T) /\ Len(Tail(s)) = Len(s) - 1
           /\ Head(s).impl \in Impls(s) /\ Impls(Tail(s)) \subseteq Impls(s)
           /\ Distinct(s) => Distinct(Tail(s)) /\ Head(s).impl \notin Impls(Tail(s))
<1> DEFINE r == Tail(s)
           n == Len(s)
<1>1. /\ n \in Nat /\ n >= 1 /\ Head(s) = s[1] /\ Head(s) \in T
      /\ r \in Seq(T) /\ Len(r) = n - 1 /\ DOMAIN r = 1 .. n - 1 /\ DOMAIN s = 1 .. n
      /\ \A i \in 1 .. n - 1 : r[i] = s[i + 1]
  OBVIOUS
<1> HIDE DEF r, n
<1>2. \A i \in 1 .. n - 1 : i + 1 \in 1 .. n /\ i + 1 # 1
  BY <1>1
<1>3. 1 \in 1 .. n
  BY <1>1
<1>4. Head(s).impl \in Impls(s) /\ Impls(r) \subseteq Impls(s)
  <2>1. s[1].impl \in Impls(s)
    BY <1>1, <1>3 DEF Impls
  <2>2. ASSUME NEW i \in 1 .. n - 1 PROVE r[i].impl \in Impls(s)
    BY <1>1, <1>2 DEF Impls
  <2>3. Impls(r) \subseteq Impls(s)
    <3> HIDE DEF Impls
    <3>1. Impls(r) = {r[i].impl : i \in 1 .. n - 1}
      BY <1>1 DEF Impls
    <3> QED BY <2>2, <3>1
  <2> QED BY <1>1, <2>1, <2>3
<1>5. ASSUME Distinct(s) PROVE Distinct(r) /\ Head(s).impl \notin Impls(r)
  <2>1. ASSUME NEW i \in 1 .. n - 1, NEW j \in 1 .. n - 1, i # j PROVE r[i].impl # r[j].impl
    <3>1. i + 1 # j + 1
      BY <1>1, <2>1
    <3>2. i + 1 \in DOMAIN s /\ j + 1 \in DOMAIN s /\ r[i] = s[i + 1] /\ r[j] = s[j + 1]
      BY <1>1, <1>2
    <3>3. s[i + 1].impl # s[j + 1].impl
      BY <1>5, <3>1, <3>2 DEF Distinct
    <3> QED BY <3>2, <3>3
  <2>2. ASSUME NEW i \in 1 .. n - 1 PROVE r[i].impl # s[1].impl
    <3>1. i + 1 # 1
      BY <1>1
    <3>2. i + 1 \in DOMAIN s /\ r[i] = s[i + 1] /\ 1 \in DOMAIN s
      BY <1>1, <1>2, <1>3
    <3>3. s[i + 1].impl # s[1].impl
      BY <1>5, <3>1, <3>2 DEF Distinct
    <3> QED BY <3>2, <3>3
  <2>3. Distinct(r)
    BY <1>1, <2>1 DEF Distinct
  <2>4. Head(s).impl \notin Impls(r)
    BY <1>1, <2>2, Zenon DEF Impls
  <2> QED BY <2>3, <2>4
<1> QED BY <1>1, <1>4, <1>5 DEF r, n

(* erase leaves elements of the list. *)
LEMMA EraseImpls ==
    ASSUME NEW T, NEW s \in Seq(T), NEW k \in DOMAIN s
    PROVE  Erase(s, k) \in Seq(T) /\ Impls(Erase(s, k)) \subseteq Impls(s)
<1> DEFINE a == SubSeq(s, 1, k - 1)
           b == SubSeq(s, k + 1, Len(s))
<1>0. Len(s) \in Nat /\ DOMAIN s = 1 .. Len(s) /\ k \in 1 .. Len(s)
  OBVIOUS
<1>1. /\ a \in Seq(T) /\ Len(a) = k - 1
      /\ \A i \in 1 .. k - 1 : a[i] = s[i]
  BY <1>0
<1>2. /\ b \in Seq(T) /\ Len(b) = Len(s) - k
      /\ \A i \in 1 .. Len(s) - k : b[i] = s[k + i]
  BY <1>0
<1> HIDE DEF a, b
<1>3. /\ a \o b \in Seq(T) /\ Len(a \o b) = Len(a) + Len(b)
      /\ \A i \in 1 .. Len(a) + Len(b) :
            (a \o b)[i] = IF i <= Len(a) THEN a[i] ELSE b[i - Len(a)]
  BY <1>1, <1>2, ConcatProperties
<1>4. ASSUME NEW i \in 1 .. Len(a \o b) PROVE \E j \in 1 .. Len(s) : (a \o b)[i] = s[j]
  <2>0. i \in 1 .. Len(s) - 1
    BY <1>0, <1>1, <1>2, <1>3
  <2>1. CASE i <= k - 1
    BY <1>0, <1>1, <1>2, <1>3, <2>0, <2>1
  <2>2. CASE ~(i <= k - 1)
    <3>1. i - Len(a) \in 1 .. Len(s) - k /\ k + (i - Len(a)) \in 1 .. Len(s)
      BY <1>0, <1>1, <2>0, <2>2
    <3>2. (a \o b)[i] = b[i - Len(a)]
      BY <1>0, <1>1, <1>2, <1>3, <2>0, <2>2
    <3> QED BY <1>2, <3>1, <3>2
  <2> QED BY <2>1, <2>2
<1>5. DOMAIN (a \o b) = 1 .. Len(a \o b)
  BY <1>3
<1>6. Erase(s, k) = a \o b
  BY DEF Erase, a, b
<1>7. ASSUME NEW x \in Impls(a \o b) PROVE x \in Impls(s)
  <2>1. PICK i \in 1 .. Len(a \o b) : x = (a \o b)[i].impl
    BY <1>5 DEF Impls
  <2>2. PICK j \in 1 .. Len(s) : (a \o b)[i] = s[j]
    BY <1>4
  <2> QED BY <1>0, <2>1, <2>2 DEF Impls
<1> QED BY <1>3, <1>6, <1>7

(* An empty list has no EventImpls. *)
LEMMA NoImpls == Impls(<< >>) = {} /\ Distinct(<< >>)
BY DEF Impls, Distinct

-----------------------------------------------------------------------------
(* The invariant holds when the simulator is created.                      *)
LEMMA IInvInit == Init => IInv
<1> SUFFICES ASSUME Init PROVE IInv
  OBVIOUS
<1> USE DEF Init
<1>1. TypeOK
  <2>1. IsFiniteSet(events)
    BY FS_EmptySet
  <2>2. destroy \in Seq(Ids) /\ posted \in Seq(Calls) /\ moving \in Seq(Calls)
    OBVIOUS
  <2> QED BY <2>1, <2>2 DEF TypeOK, INVALID, VALID
<1>2. Len(posted) = 0 /\ Len(moving) = 0
  OBVIOUS
<1>3. UidsAreFresh
  BY <1>2, DefaultSimulatorAssumption DEF UidsAreFresh, INVALID, VALID
<1>4. ImplsAreApart
  BY NoImpls DEF ImplsAreApart
<1>5. NoEventLost
  BY FS_EmptySet DEF NoEventLost
<1> QED BY <1>1, <1>3, <1>4, <1>5 DEF IInv, NoEventInThePast, Accounted

(* m_uid++ does not wrap. *)
LEMMA NextUidIsNext ==
    ASSUME UidsDoNotWrap, TypeOK, uid + 1 <= VALID + MaxSchedules + MaxPosts
    PROVE  NextUid = uid + 1
<1>1. uid + 1 \in Nat /\ UidModulus \in Nat /\ uid + 1 < UidModulus
  BY DefaultSimulatorAssumption DEF UidsDoNotWrap, TypeOK, VALID
<1>2. ASSUME NEW x \in Nat, NEW m \in Nat, x < m PROVE x % m = x
  BY <1>2
<1> QED BY <1>1, <1>2 DEF NextUid

(* An id that is not of a destroy event is expired by time or cancelled.   *)
LEMMA ExpiredByTime ==
    ASSUME NEW id, id.uid # DESTROY
    PROVE  /\ IsExpired(id) <=> \/ id.impl \in cancelled
                               \/ id.ts < now \/ (id.ts = now /\ id.uid <= current)
           /\ IsExpired(id)' <=> \/ id.impl \in cancelled'
                                \/ id.ts < now' \/ (id.ts = now' /\ id.uid <= current')
BY DEF IsExpired

(* The main thread moves on, or marks an event. *)
LEMMA QuietStep ==
    ASSUME IInv,
           UNCHANGED <<events, destroy, ran, impls, now, current, uid, unscheduled, posted,
                       moving, posts, ids>>,
           cancelled \subseteq cancelled',
           pc # "gone", pc' \in {"outside", "event", "destroying", "flush", "swap", "move", "loop"},
           pc' # "move" => moving = << >>
    PROVE  IInv'
<1>1. TypeOK'
  BY DEF IInv, TypeOK
<1>2. UidsAreFresh'
  BY DEF IInv, UidsAreFresh
<1>3. ImplsAreApart'
  BY DEF IInv, ImplsAreApart
<1>4. NoEventInThePast'
  BY DEF IInv, NoEventInThePast, List!Before
<1>5. Accounted'
  BY ExpiredByTime DEF IInv, Accounted
<1>6. NoEventLost'
  BY DEF IInv, NoEventLost
<1> QED BY <1>1, <1>2, <1>3, <1>4, <1>5, <1>6 DEF IInv

(* Insert: an event with the next uid, not before now. *)
LEMMA EventAdded ==
    ASSUME IInv, NEW n \in Ids, n.uid = uid, now <= n.ts, n.impl \notin {e.impl : e \in events},
           events' = events \cup {n}, uid' = uid + 1, UNCHANGED <<now, current>>,
           pc # "gone", unscheduled' = unscheduled + 1
    PROVE  /\ events' \subseteq Ids /\ IsFiniteSet(events')
           /\ \A e \in events' : VALID <= e.uid /\ e.uid < uid'
           /\ \A e, f \in events' : e.uid = f.uid => e = f
           /\ \A e, f \in events' : e.impl = f.impl => e = f
           /\ NoEventInThePast' /\ NoEventLost'
<1>0. /\ uid \in Nat /\ now \in Nat /\ current \in Nat /\ current < uid /\ VALID <= uid
      /\ \A e \in events : e.uid \in Nat /\ VALID <= e.uid /\ e.uid < uid
      /\ IsFiniteSet(events) /\ n.ts \in Nat
  BY DEF IInv, TypeOK, UidsAreFresh, Ids
<1>1. \A e \in events : e.uid # n.uid /\ e.impl # n.impl /\ e # n
  BY <1>0
<1>2. events' \subseteq Ids
  BY DEF IInv, TypeOK
<1>3. IsFiniteSet(events') /\ Cardinality(events') = Cardinality(events) + 1
  BY <1>0, <1>1, FS_AddElement
<1>4. \A e \in events' : VALID <= e.uid /\ e.uid < uid'
  BY <1>0, <1>1 DEF VALID
<1>5. \A e, f \in events' : e.uid = f.uid => e = f
  BY <1>1 DEF IInv, UidsAreFresh
<1>6. \A e, f \in events' : e.impl = f.impl => e = f
  BY <1>1 DEF IInv, ImplsAreApart
<1>7. NoEventInThePast'
  BY <1>0 DEF IInv, NoEventInThePast, List!Before
<1>8. NoEventLost'
  BY <1>3 DEF IInv, NoEventLost
<1> QED BY <1>2, <1>3, <1>4, <1>5, <1>6, <1>7, <1>8

(* What the guards of the main thread's calls give. *)
LEMMA RoomForOne ==
    ASSUME UidsDoNotWrap, IInv, MainThreadCalls, impls < MaxSchedules + posts
    PROVE  /\ NextUid = uid + 1
           /\ pc # "gone" /\ pc # "move" /\ moving = << >>
           /\ impls + 1 \in Nat
<1>1. uid + 1 <= VALID + MaxSchedules + MaxPosts
  <2>1. /\ uid + Len(posted) + Len(moving) <= VALID + impls /\ posts <= MaxPosts
        /\ uid \in Nat /\ Len(posted) \in Nat /\ Len(moving) \in Nat /\ impls \in Nat /\ posts \in Nat
    BY DEF IInv, TypeOK, UidsAreFresh
  <2> QED BY <2>1, DefaultSimulatorAssumption DEF VALID
<1>2. pc # "gone" /\ pc # "move"
  BY DEF MainThreadCalls
<1> QED BY <1>1, <1>2, NextUidIsNext DEF IInv, TypeOK

(* Schedule and its variants. *)
LEMMA ScheduleStep ==
    ASSUME UidsDoNotWrap, IInv, NEW d \in Delays, Schedule(d)
    PROVE  IInv'
<1> DEFINE n == NewEvent(d, impls + 1)
<1>0. /\ NextUid = uid + 1 /\ pc # "gone" /\ pc # "move" /\ moving = << >>
      /\ impls + 1 \in Nat /\ impls < MaxSchedules + posts
  BY RoomForOne DEF Schedule
<1>1. /\ impls' = impls + 1 /\ events' = events \cup {n} /\ ids' = ids \cup {n}
      /\ uid' = uid + 1 /\ unscheduled' = unscheduled + 1
      /\ UNCHANGED <<pc, destroy, cancelled, ran, now, current, posted, moving, posts>>
  BY <1>0 DEF Schedule, clock, foreign
<1>2. n \in Ids /\ n.uid = uid /\ now <= n.ts /\ n.impl = impls + 1
  BY <1>0, DefaultSimulatorAssumption DEF NewEvent, IInv, TypeOK, Ids
<1> HIDE DEF n
<1>3. /\ {e.impl : e \in events} \cup ran \cup Impls(destroy) \cup Impls(posted) \cup Impls(moving)
            \subseteq 0 .. impls
      /\ impls + 1 \notin 0 .. impls /\ 0 .. impls \subseteq 0 .. impls + 1
      /\ impls + 1 \in 0 .. impls + 1
  BY DEF IInv, ImplsAreApart, TypeOK
<1>4. n.impl \notin {e.impl : e \in events}
  BY <1>2, <1>3
<1>5. /\ events' \subseteq Ids /\ IsFiniteSet(events')
      /\ \A e \in events' : VALID <= e.uid /\ e.uid < uid'
      /\ \A e, f \in events' : e.uid = f.uid => e = f
      /\ \A e, f \in events' : e.impl = f.impl => e = f
      /\ NoEventInThePast' /\ NoEventLost'
  BY <1>0, <1>1, <1>2, <1>4, EventAdded
<1>6. TypeOK'
  BY <1>0, <1>1, <1>2, <1>5 DEF IInv, TypeOK
<1>7. UidsAreFresh'
  <2>1. /\ current' < uid' /\ VALID <= uid'
        /\ uid' + Len(posted') + Len(moving') <= VALID + impls'
        /\ impls' <= MaxSchedules + posts' /\ posts' <= MaxPosts
    BY <1>0, <1>1, DefaultSimulatorAssumption DEF IInv, UidsAreFresh, TypeOK, VALID
  <2> QED BY <1>5, <2>1 DEF UidsAreFresh
<1>8. ImplsAreApart'
  <2> DEFINE L == {e.impl : e \in events}
             M == {e.impl : e \in events'}
  <2>1. M = L \cup {impls + 1}
    BY <1>1, <1>2
  <2>2. /\ L \cap (ran \cup Impls(destroy) \cup Impls(posted) \cup Impls(moving)) = {}
        /\ (ran \cup Impls(destroy)) \cap (Impls(posted) \cup Impls(moving)) = {}
        /\ Impls(posted) \cap Impls(moving) = {} /\ Distinct(posted) /\ Distinct(moving)
    BY DEF IInv, ImplsAreApart
  <2> HIDE DEF L, M
  <2>3. /\ M \cup ran \cup Impls(destroy) \cup Impls(posted) \cup Impls(moving)
             \subseteq 0 .. impls + 1
        /\ M \cap (ran \cup Impls(destroy) \cup Impls(posted) \cup Impls(moving)) = {}
    BY <1>3, <2>1, <2>2 DEF L
  <2> QED BY <1>1, <1>5, <2>2, <2>3 DEF ImplsAreApart, M
<1>9. Accounted'
  BY <1>1, ExpiredByTime DEF IInv, Accounted
<1> QED BY <1>0, <1>1, <1>5, <1>6, <1>7, <1>8, <1>9 DEF IInv

(* ScheduleDestroy, which takes a uid too. *)
LEMMA ScheduleDestroyStep ==
    ASSUME UidsDoNotWrap, IInv, ScheduleDestroy
    PROVE  IInv'
<1> DEFINE n == [ts |-> now, uid |-> DESTROY, impl |-> impls + 1]
<1>0. /\ NextUid = uid + 1 /\ pc # "gone" /\ pc # "move" /\ moving = << >>
      /\ impls + 1 \in Nat /\ impls < MaxSchedules + posts
  BY RoomForOne DEF ScheduleDestroy
<1>1. /\ impls' = impls + 1 /\ destroy' = Append(destroy, n) /\ ids' = ids \cup {n}
      /\ uid' = uid + 1
      /\ UNCHANGED <<pc, events, cancelled, ran, now, current, unscheduled, posted, moving, posts>>
  BY <1>0 DEF ScheduleDestroy, clock, foreign
<1>2. n \in Ids /\ n.uid = DESTROY /\ n.impl = impls + 1
  BY <1>0 DEF IInv, TypeOK, Ids, DESTROY
<1> HIDE DEF n
<1>3. /\ {e.impl : e \in events} \cup ran \cup Impls(destroy) \cup Impls(posted) \cup Impls(moving)
            \subseteq 0 .. impls
      /\ impls + 1 \notin 0 .. impls /\ 0 .. impls \subseteq 0 .. impls + 1
      /\ impls + 1 \in 0 .. impls + 1
  BY DEF IInv, ImplsAreApart, TypeOK
<1>4. destroy' \in Seq(Ids) /\ Impls(destroy') = Impls(destroy) \cup {impls + 1}
  BY <1>1, <1>2, AppendImpls DEF IInv, TypeOK
<1>5. TypeOK'
  BY <1>0, <1>1, <1>2, <1>4 DEF IInv, TypeOK
<1>6. UidsAreFresh'
  <2>1. /\ current' < uid' /\ VALID <= uid'
        /\ uid' + Len(posted') + Len(moving') <= VALID + impls'
        /\ impls' <= MaxSchedules + posts' /\ posts' <= MaxPosts
    BY <1>0, <1>1, DefaultSimulatorAssumption DEF IInv, UidsAreFresh, TypeOK, VALID
  <2>2. \A e \in events : e.uid < uid + 1
    BY DEF IInv, UidsAreFresh, TypeOK, Ids
  <2> QED BY <1>1, <2>1, <2>2 DEF IInv, UidsAreFresh
<1>7. ImplsAreApart'
  BY <1>1, <1>3, <1>4 DEF IInv, ImplsAreApart
<1>8. Accounted'
  BY <1>1, <1>2, ExpiredByTime DEF IInv, Accounted
<1>9. NoEventInThePast' /\ NoEventLost'
  BY <1>1 DEF IInv, NoEventInThePast, NoEventLost, List!Before
<1> QED BY <1>0, <1>1, <1>5, <1>6, <1>7, <1>8, <1>9 DEF IInv

(* ScheduleWithContext by another thread, at any moment. *)
LEMMA PostStep ==
    ASSUME IInv, NEW d \in Delays, Post(d)
    PROVE  IInv'
<1> DEFINE c == [delay |-> d, impl |-> impls + 1]
<1>1. /\ pc # "gone" /\ posts < MaxPosts /\ impls' = impls + 1 /\ posts' = posts + 1
      /\ posted' = Append(posted, c)
      /\ UNCHANGED <<pc, events, destroy, cancelled, ran, now, current, uid, unscheduled, moving, ids>>
  BY DEF Post, clock
<1>2. c \in Calls /\ c.impl = impls + 1 /\ impls + 1 \in Nat /\ posts + 1 \in Nat
  BY DefaultSimulatorAssumption DEF IInv, TypeOK, Calls
<1> HIDE DEF c
<1> DEFINE L == {e.impl : e \in events}
<1>3. /\ L \cup ran \cup Impls(destroy) \cup Impls(posted) \cup Impls(moving) \subseteq 0 .. impls
      /\ impls + 1 \notin 0 .. impls /\ 0 .. impls \subseteq 0 .. impls + 1
      /\ impls + 1 \in 0 .. impls + 1
  BY DEF IInv, ImplsAreApart, TypeOK
<1>4. /\ posted' \in Seq(Calls) /\ Len(posted') = Len(posted) + 1
      /\ Impls(posted') = Impls(posted) \cup {impls + 1}
      /\ Distinct(posted) /\ impls + 1 \notin Impls(posted) => Distinct(posted')
  BY <1>1, <1>2, AppendImpls DEF IInv, TypeOK
<1>5. TypeOK'
  BY <1>1, <1>2, <1>4 DEF IInv, TypeOK
<1>6. UidsAreFresh'
  <2>1. /\ uid' + Len(posted') + Len(moving') <= VALID + impls'
        /\ impls' <= MaxSchedules + posts' /\ posts' <= MaxPosts
    BY <1>1, <1>4, DefaultSimulatorAssumption DEF IInv, UidsAreFresh, TypeOK, VALID
  <2> QED BY <1>1, <2>1 DEF IInv, UidsAreFresh
<1>7. ImplsAreApart'
  <2>1. /\ L \cap (ran \cup Impls(destroy) \cup Impls(posted) \cup Impls(moving)) = {}
        /\ (ran \cup Impls(destroy)) \cap (Impls(posted) \cup Impls(moving)) = {}
        /\ Impls(posted) \cap Impls(moving) = {} /\ Distinct(posted) /\ Distinct(moving)
        /\ \A e, f \in events : e.impl = f.impl => e = f
    BY DEF IInv, ImplsAreApart
  <2> HIDE DEF L
  <2>2. /\ L \cup ran \cup Impls(destroy) \cup Impls(posted') \cup Impls(moving) \subseteq 0 .. impls + 1
        /\ L \cap (ran \cup Impls(destroy) \cup Impls(posted') \cup Impls(moving)) = {}
        /\ (ran \cup Impls(destroy)) \cap (Impls(posted') \cup Impls(moving)) = {}
        /\ Impls(posted') \cap Impls(moving) = {} /\ Distinct(posted')
    BY <1>3, <1>4, <2>1
  <2> QED BY <1>1, <2>1, <2>2 DEF ImplsAreApart, L
<1>8. Accounted'
  BY <1>1, ExpiredByTime DEF IInv, Accounted
<1>9. NoEventInThePast' /\ NoEventLost'
  BY <1>1 DEF IInv, NoEventInThePast, NoEventLost, List!Before
<1> QED BY <1>1, <1>5, <1>6, <1>7, <1>8, <1>9 DEF IInv

(* The list of foreign events is taken over. *)
LEMMA SwapStep ==
    ASSUME IInv, SwapQueues
    PROVE  IInv'
<1>1. /\ pc = "swap" /\ pc' = "move" /\ moving' = posted /\ posted' = << >>
      /\ UNCHANGED <<events, destroy, cancelled, ran, impls, now, current, uid, unscheduled, posts, ids>>
  BY DEF SwapQueues, clock
<1>2. moving = << >> /\ Impls(posted') = {} /\ Distinct(posted') /\ posted' \in Seq(Calls)
      /\ Len(posted') = 0 /\ Len(moving) = 0
  BY <1>1, NoImpls DEF IInv
<1>3. TypeOK'
  BY <1>1, <1>2 DEF IInv, TypeOK
<1>4. UidsAreFresh'
  BY <1>1, <1>2 DEF IInv, UidsAreFresh, TypeOK
<1>5. ImplsAreApart'
  <2> DEFINE L == {e.impl : e \in events}
  <2>1. /\ L \cup ran \cup Impls(destroy) \cup Impls(posted) \cup Impls(moving) \subseteq 0 .. impls
        /\ L \cap (ran \cup Impls(destroy) \cup Impls(posted) \cup Impls(moving)) = {}
        /\ (ran \cup Impls(destroy)) \cap (Impls(posted) \cup Impls(moving)) = {}
        /\ Impls(posted) \cap Impls(moving) = {} /\ Distinct(posted) /\ Distinct(moving)
        /\ \A e, f \in events : e.impl = f.impl => e = f
    BY DEF IInv, ImplsAreApart
  <2> HIDE DEF L
  <2>2. /\ L \cup ran \cup Impls(destroy) \cup Impls(posted') \cup Impls(moving') \subseteq 0 .. impls
        /\ L \cap (ran \cup Impls(destroy) \cup Impls(posted') \cup Impls(moving')) = {}
        /\ (ran \cup Impls(destroy)) \cap (Impls(posted') \cup Impls(moving')) = {}
        /\ Impls(posted') \cap Impls(moving') = {} /\ Distinct(posted') /\ Distinct(moving')
    BY <1>1, <1>2, <2>1
  <2> QED BY <1>1, <2>1, <2>2 DEF ImplsAreApart, L
<1>6. Accounted'
  BY <1>1, ExpiredByTime DEF IInv, Accounted
<1>7. NoEventInThePast' /\ NoEventLost'
  BY <1>1 DEF IInv, NoEventInThePast, NoEventLost, List!Before
<1> QED BY <1>1, <1>3, <1>4, <1>5, <1>6, <1>7 DEF IInv

(* A foreign event gets its uid, and its time from the clock as it is.     *)
LEMMA MoveStep ==
    ASSUME UidsDoNotWrap, IInv, MoveEvent
    PROVE  IInv'
<1> DEFINE c == Head(moving)
           n == NewEvent(c.delay, c.impl)
<1>0. /\ pc = "move" /\ moving # << >> /\ moving \in Seq(Calls) /\ posted \in Seq(Calls)
      /\ uid + Len(posted) + Len(moving) <= VALID + impls /\ impls \in Nat /\ posts \in Nat
      /\ impls <= MaxSchedules + posts /\ posts <= MaxPosts
  BY DEF MoveEvent, IInv, TypeOK, UidsAreFresh
<1>1. /\ c \in Calls /\ moving' \in Seq(Calls) /\ Len(moving') = Len(moving) - 1
      /\ c.impl \in Impls(moving) /\ Impls(moving') \subseteq Impls(moving)
      /\ Distinct(moving) => Distinct(moving') /\ c.impl \notin Impls(moving')
      /\ moving' = Tail(moving)
  BY <1>0, TailImpls DEF MoveEvent
<1>2. NextUid = uid + 1
  <2>1. Len(moving) \in Nat /\ Len(moving) # 0 /\ Len(posted) \in Nat
    BY <1>0
  <2>2. uid + 1 <= VALID + MaxSchedules + MaxPosts
    BY <1>0, <2>1, DefaultSimulatorAssumption DEF IInv, TypeOK, VALID
  <2> QED BY <2>2, NextUidIsNext DEF IInv
<1>3. /\ events' = events \cup {n} /\ uid' = uid + 1 /\ unscheduled' = unscheduled + 1
      /\ UNCHANGED <<pc, destroy, cancelled, ran, impls, now, current, posted, posts, ids>>
  BY <1>2 DEF MoveEvent, clock, foreign
<1> HIDE DEF c
<1>4. n \in Ids /\ n.uid = uid /\ now <= n.ts /\ n.impl = c.impl
  <2>1. c.delay \in Nat /\ c.impl \in Nat
    BY <1>1 DEF Calls
  <2> QED BY <2>1 DEF NewEvent, IInv, TypeOK, Ids
<1> HIDE DEF n
<1> DEFINE L == {e.impl : e \in events}
           M == {e.impl : e \in events'}
<1>5. /\ L \cup ran \cup Impls(destroy) \cup Impls(posted) \cup Impls(moving) \subseteq 0 .. impls
      /\ L \cap (ran \cup Impls(destroy) \cup Impls(posted) \cup Impls(moving)) = {}
      /\ (ran \cup Impls(destroy)) \cap (Impls(posted) \cup Impls(moving)) = {}
      /\ Impls(posted) \cap Impls(moving) = {} /\ Distinct(posted) /\ Distinct(moving)
  BY DEF IInv, ImplsAreApart
<1>6. M = L \cup {c.impl}
  BY <1>3, <1>4
<1>7. n.impl \notin L
  <2> HIDE DEF L
  <2> QED BY <1>1, <1>4, <1>5
<1>8. /\ events' \subseteq Ids /\ IsFiniteSet(events')
      /\ \A e \in events' : VALID <= e.uid /\ e.uid < uid'
      /\ \A e, f \in events' : e.uid = f.uid => e = f
      /\ \A e, f \in events' : e.impl = f.impl => e = f
      /\ NoEventInThePast' /\ NoEventLost'
  BY <1>0, <1>3, <1>4, <1>7, EventAdded
<1>9. TypeOK'
  BY <1>0, <1>1, <1>3, <1>8 DEF IInv, TypeOK
<1>10. UidsAreFresh'
  <2>1. /\ current' < uid' /\ VALID <= uid'
        /\ uid' + Len(posted') + Len(moving') <= VALID + impls'
    BY <1>0, <1>1, <1>3 DEF IInv, UidsAreFresh, TypeOK, VALID
  <2> QED BY <1>0, <1>3, <1>8, <2>1 DEF UidsAreFresh
<1>11. ImplsAreApart'
  <2> HIDE DEF L, M
  <2>1. /\ M \cup ran \cup Impls(destroy) \cup Impls(posted) \cup Impls(moving') \subseteq 0 .. impls
        /\ M \cap (ran \cup Impls(destroy) \cup Impls(posted) \cup Impls(moving')) = {}
        /\ (ran \cup Impls(destroy)) \cap (Impls(posted) \cup Impls(moving')) = {}
        /\ Impls(posted) \cap Impls(moving') = {} /\ Distinct(moving')
    BY <1>1, <1>5, <1>6
  <2> QED BY <1>3, <1>5, <1>8, <2>1 DEF ImplsAreApart, M
<1>12. Accounted'
  BY <1>3, ExpiredByTime DEF IInv, Accounted
<1>13. pc' = "move"
  BY <1>0, <1>3
<1> QED BY <1>8, <1>9, <1>10, <1>11, <1>12, <1>13 DEF IInv

(* Remove of an event that is not expired: it is in the list. *)
LEMMA RemoveStep ==
    ASSUME IInv, NEW id \in ids, Remove(id)
    PROVE  IInv'
<1>1. /\ MainThreadCalls /\ id.uid # DESTROY /\ ~IsExpired(id)
      /\ events' = {e \in events : e.uid # id.uid}
      /\ cancelled' = cancelled \cup {id.impl} /\ unscheduled' = unscheduled - 1
      /\ UNCHANGED <<pc, destroy, ran, impls, now, current, uid, posted, moving, posts, ids>>
  BY DEF Remove, clock, foreign
<1>2. pc # "gone" /\ pc # "move"
  BY <1>1 DEF MainThreadCalls
<1>3. id \in events
  BY <1>1, <1>2 DEF IInv, Accounted
<1>4. events' = events \ {id} /\ IsFiniteSet(events)
  BY <1>1, <1>3 DEF IInv, UidsAreFresh, TypeOK
<1>5. IsFiniteSet(events') /\ Cardinality(events') = Cardinality(events) - 1
  BY <1>3, <1>4, FS_RemoveElement
<1>6. TypeOK'
  BY <1>1, <1>4, <1>5 DEF IInv, TypeOK
<1>7. UidsAreFresh'
  BY <1>1, <1>4 DEF IInv, UidsAreFresh
<1>8. ImplsAreApart'
  <2> DEFINE L == {e.impl : e \in events}
             M == {e.impl : e \in events'}
  <2>1. M \subseteq L
    BY <1>4
  <2>2. /\ L \cup ran \cup Impls(destroy) \cup Impls(posted) \cup Impls(moving) \subseteq 0 .. impls
        /\ L \cap (ran \cup Impls(destroy) \cup Impls(posted) \cup Impls(moving)) = {}
    BY DEF IInv, ImplsAreApart
  <2> HIDE DEF L, M
  <2>3. /\ M \cup ran \cup Impls(destroy) \cup Impls(posted) \cup Impls(moving) \subseteq 0 .. impls
        /\ M \cap (ran \cup Impls(destroy) \cup Impls(posted) \cup Impls(moving)) = {}
    BY <2>1, <2>2
  <2>4. \A e, f \in events' : e.impl = f.impl => e = f
    BY <1>4 DEF IInv, ImplsAreApart
  <2> QED BY <1>1, <2>3, <2>4 DEF IInv, ImplsAreApart, M
<1>9. Accounted'
  <2>1. SUFFICES ASSUME NEW x \in ids, x.uid # DESTROY, x \notin events'
                 PROVE  IsExpired(x)' /\ x.impl \in ran' \cup cancelled'
    BY <1>1 DEF Accounted
  <2>2. CASE x = id
    BY <1>1, <2>1, <2>2, ExpiredByTime
  <2>3. CASE x # id
    <3>1. x \notin events
      BY <1>4, <2>1, <2>3
    <3>2. IsExpired(x) /\ x.impl \in ran \cup cancelled
      BY <1>2, <2>1, <3>1 DEF IInv, Accounted
    <3> QED BY <1>1, <2>1, <3>2, ExpiredByTime
  <2> QED BY <2>2, <2>3
<1>10. NoEventInThePast'
  BY <1>1, <1>4 DEF IInv, NoEventInThePast, List!Before
<1>11. NoEventLost'
  BY <1>1, <1>2, <1>5 DEF IInv, NoEventLost
<1> QED BY <1>1, <1>2, <1>6, <1>7, <1>8, <1>9, <1>10, <1>11 DEF IInv

(* Remove of a destroy event. *)
LEMMA RemoveDestroyStep ==
    ASSUME IInv, NEW id \in ids, RemoveDestroy(id)
    PROVE  IInv'
<1>1. PICK k \in DOMAIN destroy : destroy' = Erase(destroy, k)
  BY DEF RemoveDestroy
<1>2. /\ pc # "gone"
      /\ UNCHANGED <<pc, events, cancelled, ran, impls, now, current, uid, unscheduled, posted,
                     moving, posts, ids>>
  BY DEF RemoveDestroy, MainThreadCalls, clock, foreign
<1>3. destroy' \in Seq(Ids) /\ Impls(destroy') \subseteq Impls(destroy)
  BY <1>1, EraseImpls DEF IInv, TypeOK
<1>4. TypeOK'
  BY <1>2, <1>3 DEF IInv, TypeOK
<1>5. UidsAreFresh'
  BY <1>2 DEF IInv, UidsAreFresh
<1>6. ImplsAreApart'
  BY <1>2, <1>3 DEF IInv, ImplsAreApart
<1>7. Accounted'
  BY <1>2, ExpiredByTime DEF IInv, Accounted
<1>8. NoEventInThePast' /\ NoEventLost'
  BY <1>2 DEF IInv, NoEventInThePast, NoEventLost, List!Before
<1> QED BY <1>2, <1>4, <1>5, <1>6, <1>7, <1>8 DEF IInv

(* RemoveNext: the clock moves to the earliest event, past which there is  *)
(* nothing left, and the event runs unless it is cancelled.                *)
LEMMA ProcessStep ==
    ASSUME IInv, ProcessOneEvent
    PROVE  IInv'
<1> DEFINE next == List!Earliest(events)
<1>1. /\ pc = "loop" /\ events # {} /\ events' = events \ {next}
      /\ now' = next.ts /\ current' = next.uid
      /\ \/ next.impl \in cancelled /\ pc' = "flush" /\ ran' = ran
         \/ next.impl \notin cancelled /\ pc' = "event" /\ ran' = ran \cup {next.impl}
      /\ unscheduled' = unscheduled - 1
      /\ UNCHANGED <<destroy, cancelled, impls, uid, posted, moving, posts, ids>>
  BY DEF ProcessOneEvent, foreign
<1>2. next \in events /\ \A f \in events \ {next} : List!Before(next, f)
  BY <1>1, EarliestIsFirst DEF IInv, TypeOK, UidsAreFresh
<1> HIDE DEF next
<1>3. /\ next \in Ids /\ next.ts \in Nat /\ next.uid \in Nat /\ next.uid < uid
      /\ next.ts > now \/ (next.ts = now /\ next.uid > current)
      /\ now \in Nat /\ current \in Nat
  BY <1>2 DEF IInv, TypeOK, UidsAreFresh, Ids, NoEventInThePast, List!Before
<1>4. IsFiniteSet(events') /\ Cardinality(events') = Cardinality(events) - 1
  BY <1>1, <1>2, FS_RemoveElement DEF IInv, TypeOK
<1>5. TypeOK'
  BY <1>1, <1>3, <1>4 DEF IInv, TypeOK
<1>6. UidsAreFresh'
  BY <1>1, <1>3 DEF IInv, UidsAreFresh
<1>7. ImplsAreApart'
  <2> DEFINE L == {e.impl : e \in events}
             M == {e.impl : e \in events'}
  <2>0. \A e, f \in events : e.impl = f.impl => e = f
    BY DEF IInv, ImplsAreApart
  <2>1. M \subseteq L /\ next.impl \in L /\ next.impl \notin M
    BY <1>1, <1>2, <2>0
  <2>2. /\ L \cup ran \cup Impls(destroy) \cup Impls(posted) \cup Impls(moving) \subseteq 0 .. impls
        /\ L \cap (ran \cup Impls(destroy) \cup Impls(posted) \cup Impls(moving)) = {}
        /\ (ran \cup Impls(destroy)) \cap (Impls(posted) \cup Impls(moving)) = {}
    BY DEF IInv, ImplsAreApart
  <2> HIDE DEF L, M
  <2>3. ran \subseteq ran' /\ ran' \subseteq ran \cup {next.impl}
    BY <1>1
  <2>4. /\ M \cup ran' \cup Impls(destroy) \cup Impls(posted) \cup Impls(moving) \subseteq 0 .. impls
        /\ M \cap (ran' \cup Impls(destroy) \cup Impls(posted) \cup Impls(moving)) = {}
        /\ (ran' \cup Impls(destroy)) \cap (Impls(posted) \cup Impls(moving)) = {}
    BY <2>1, <2>2, <2>3
  <2>5. \A e, f \in events' : e.impl = f.impl => e = f
    BY <1>1, <2>0
  <2> QED BY <1>1, <2>4, <2>5 DEF IInv, ImplsAreApart, M
<1>8. Accounted'
  <2>1. SUFFICES ASSUME NEW x \in ids, x.uid # DESTROY, x \notin events'
                 PROVE  IsExpired(x)' /\ x.impl \in ran' \cup cancelled'
    BY <1>1 DEF Accounted
  <2>2. x.ts \in Nat /\ x.uid \in Nat
    BY DEF IInv, TypeOK, Ids
  <2>3. CASE x = next
    BY <1>1, <1>3, <2>1, <2>3, ExpiredByTime
  <2>4. CASE x # next
    <3>1. x \notin events
      BY <1>1, <2>1, <2>4
    <3>2. IsExpired(x) /\ x.impl \in ran \cup cancelled
      BY <1>1, <2>1, <3>1 DEF IInv, Accounted
    <3> QED BY <1>1, <1>3, <2>1, <2>2, <3>2, ExpiredByTime
  <2> QED BY <2>3, <2>4
<1>9. NoEventInThePast'
  BY <1>1, <1>2 DEF NoEventInThePast, List!Before
<1>10. NoEventLost'
  BY <1>1, <1>4 DEF IInv, NoEventLost
<1> QED BY <1>1, <1>5, <1>6, <1>7, <1>8, <1>9, <1>10 DEF IInv

(* A destroy event runs. *)
LEMMA DestroyNextStep ==
    ASSUME IInv, DestroyNext
    PROVE  IInv'
<1>1. /\ pc \in {"outside", "destroying"} /\ destroy # << >> /\ pc' = "destroying"
      /\ destroy' = Tail(destroy) /\ ran' = ran \cup ({Head(destroy).impl} \ cancelled)
      /\ UNCHANGED <<events, cancelled, impls, now, current, uid, unscheduled, posted, moving,
                     posts, ids>>
  BY DEF DestroyNext, clock, foreign
<1>2. /\ destroy' \in Seq(Ids) /\ Impls(destroy') \subseteq Impls(destroy)
      /\ Head(destroy).impl \in Impls(destroy)
  BY <1>1, TailImpls DEF IInv, TypeOK
<1>3. ran \subseteq ran' /\ ran' \cup Impls(destroy') \subseteq ran \cup Impls(destroy)
  BY <1>1, <1>2
<1>4. TypeOK'
  BY <1>1, <1>2 DEF IInv, TypeOK
<1>5. UidsAreFresh'
  BY <1>1 DEF IInv, UidsAreFresh
<1>6. ImplsAreApart'
  <2> DEFINE L == {e.impl : e \in events}
  <2>1. /\ L \cup ran \cup Impls(destroy) \cup Impls(posted) \cup Impls(moving) \subseteq 0 .. impls
        /\ L \cap (ran \cup Impls(destroy) \cup Impls(posted) \cup Impls(moving)) = {}
        /\ (ran \cup Impls(destroy)) \cap (Impls(posted) \cup Impls(moving)) = {}
    BY DEF IInv, ImplsAreApart
  <2> HIDE DEF L
  <2>2. /\ L \cup ran' \cup Impls(destroy') \cup Impls(posted) \cup Impls(moving) \subseteq 0 .. impls
        /\ L \cap (ran' \cup Impls(destroy') \cup Impls(posted) \cup Impls(moving)) = {}
        /\ (ran' \cup Impls(destroy')) \cap (Impls(posted) \cup Impls(moving)) = {}
    BY <1>3, <2>1
  <2> QED BY <1>1, <2>2 DEF IInv, ImplsAreApart, L
<1>7. Accounted'
  BY <1>1, <1>3, ExpiredByTime DEF IInv, Accounted
<1>8. NoEventInThePast' /\ NoEventLost'
  BY <1>1 DEF IInv, NoEventInThePast, NoEventLost, List!Before
<1> QED BY <1>1, <1>4, <1>5, <1>6, <1>7, <1>8 DEF IInv

(* The object goes away. *)
LEMMA DisposeStep ==
    ASSUME IInv, DoDispose
    PROVE  IInv'
<1>1. /\ pc # "move" /\ pc' = "gone" /\ events' = {} /\ posted' = << >>
      /\ UNCHANGED <<destroy, cancelled, ran, impls, now, current, uid, moving, posts, ids>>
  BY DEF DoDispose, clock
<1>2. Impls(posted') = {} /\ Distinct(posted') /\ posted' \in Seq(Calls) /\ Len(posted') = 0
  BY <1>1, NoImpls
<1>3. TypeOK'
  BY <1>1, <1>2, FS_EmptySet DEF IInv, TypeOK
<1>4. UidsAreFresh'
  <2>1. /\ Len(posted) \in Nat /\ Len(moving) \in Nat /\ uid \in Nat /\ impls \in Nat
        /\ uid + Len(posted) + Len(moving) <= VALID + impls
    BY DEF IInv, TypeOK, UidsAreFresh
  <2>2. uid' + Len(posted') + Len(moving') <= VALID + impls'
    BY <1>1, <1>2, <2>1 DEF VALID
  <2> QED BY <1>1, <2>2 DEF IInv, UidsAreFresh
<1>5. ImplsAreApart'
  BY <1>1, <1>2 DEF IInv, ImplsAreApart
<1> QED BY <1>1, <1>3, <1>4, <1>5 DEF IInv, NoEventInThePast, Accounted, NoEventLost

(* Every step of every thread keeps the invariant. *)
LEMMA IInvNext ==
    ASSUME UidsDoNotWrap, IInv, [Next]_vars
    PROVE  IInv'
<1>1. ASSUME NEW d \in Delays, Schedule(d) \/ Post(d) PROVE IInv'
  BY <1>1, ScheduleStep, PostStep
<1>2. ASSUME NEW id \in ids, Cancel(id) PROVE IInv'
  BY <1>2, QuietStep DEF Cancel, MainThreadCalls, clock, foreign, IInv
<1>3. ASSUME NEW id \in ids, Remove(id) \/ RemoveDestroy(id) PROVE IInv'
  BY <1>3, RemoveStep, RemoveDestroyStep
<1>4. ASSUME Stop PROVE IInv'
  BY <1>4, QuietStep DEF Stop, MainThreadCalls, clock, foreign, IInv
<1>5. ASSUME Run \/ ReadFlag \/ MovedAll \/ EndEvent \/ RunReturns PROVE IInv'
  BY <1>5, QuietStep DEF Run, ReadFlag, MovedAll, EndEvent, RunReturns, clock, foreign, IInv
<1>6. ASSUME UNCHANGED vars PROVE IInv'
  <2>1. CASE pc = "gone"
    BY <1>6, <2>1, ExpiredByTime
    DEF vars, IInv, TypeOK, UidsAreFresh, ImplsAreApart, NoEventInThePast, Accounted,
        NoEventLost, List!Before
  <2>2. CASE pc # "gone"
    BY <1>6, <2>2, QuietStep DEF vars, IInv, TypeOK
  <2> QED BY <2>1, <2>2
<1>7. ASSUME Loop PROVE IInv'
  BY <1>5, <1>7, SwapStep, MoveStep, ProcessStep DEF Loop
<1> QED BY <1>1, <1>2, <1>3, <1>4, <1>5, <1>6, <1>7, ScheduleDestroyStep, DestroyNextStep,
           DisposeStep DEF Next

(* The invariant holds throughout. *)
LEMMA Invariance == UidsDoNotWrap => (Spec => []IInv)
<1> SUFFICES ASSUME UidsDoNotWrap PROVE Spec => []IInv
  OBVIOUS
<1>1. IInv /\ [Next]_vars => IInv'
  BY IInvNext
<1> QED BY IInvInit, <1>1, PTL DEF Spec

-----------------------------------------------------------------------------
(* Time does not go back: whatever the main thread and the others do, no   *)
(* event in the list is before the current one, so the assertion of        *)
(* ProcessOneEvent holds for any number of events.                         *)
THEOREM SimulatorNoEventInThePast == UidsDoNotWrap => (Spec => []NoEventInThePast)
<1>1. IInv => NoEventInThePast
  BY DEF IInv
<1> QED BY <1>1, Invariance, PTL

(* The consistency test of Run: m_unscheduledEvents is the length of the   *)
(* event list through every Schedule, Remove, hand-over and RemoveNext.    *)
THEOREM SimulatorNoEventLost == UidsDoNotWrap => (Spec => []NoEventLost)
<1>1. IInv => NoEventLost
  BY DEF IInv
<1> QED BY <1>1, Invariance, PTL

(* IsExpired, which compares times and uids only, is right about every     *)
(* EventId that was handed out: it says yes exactly for the events that    *)
(* have started to run or were cancelled.                                  *)
THEOREM SimulatorExpiredMeansRunOrCancelled ==
    UidsDoNotWrap => (Spec => []ExpiredMeansRunOrCancelled)
<1>1. ASSUME IInv PROVE ExpiredMeansRunOrCancelled
  <2>1. SUFFICES ASSUME pc # "gone", NEW id \in ids, id.uid # DESTROY
                 PROVE  IsExpired(id) <=> id.impl \in ran \cup cancelled
    BY DEF ExpiredMeansRunOrCancelled
  <2>2. CASE id \notin events
    BY <1>1, <2>1, <2>2 DEF IInv, Accounted
  <2>3. CASE id \in events
    <3>1. id.impl \notin ran
      BY <1>1, <2>3 DEF IInv, ImplsAreApart
    <3>2. ~(id.ts < now \/ (id.ts = now /\ id.uid <= current))
      BY <1>1, <2>3 DEF IInv, TypeOK, Ids, NoEventInThePast, List!Before
    <3> QED BY <2>1, <3>1, <3>2, ExpiredByTime
  <2> QED BY <2>2, <2>3
<1>2. IInv => ExpiredMeansRunOrCancelled
  BY <1>1
<1> QED BY <1>2, Invariance, PTL
=============================================================================
