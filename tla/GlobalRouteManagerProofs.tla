----------------------- MODULE GlobalRouteManagerProofs -----------------------
(***************************************************************************)
(* The routes in the tables are those of the topology as it is, for every  *)
(* topology and every sequence of changes, notifications and calls.        *)
(***************************************************************************)
EXTENDS GlobalRouteManager, SequenceTheorems, FiniteSetTheorems, WellFoundedInduction,
        NaturalsInduction, TLAPS

(* A set of naturals that is not empty has a smallest element. *)
LEMMA SmallestOf ==
    ASSUME NEW A \in SUBSET Nat, A # {}
    PROVE  \E m \in A : \A x \in A : m <= x
<1>1. PICK m \in A : \A x \in A : <<x, m>> \notin OpToRel(<, Nat)
  BY WFMin, NatLessThanWellFounded
<1>2. \A x \in A : ~(x < m)
  BY <1>1 DEF OpToRel
<1> QED BY <1>2

(* FlattenSeq, with which BuildGlobalRoutingDatabase is written, returns a *)
(* sequence.                                                               *)
LEMMA FlattenIsSeq ==
    ASSUME NEW S, NEW ss \in Seq(Seq(S))
    PROVE  FlattenSeq(ss) \in Seq(S)
<1> DEFINE N == Len(ss)
           Is(f, n) == f = [i \in 1 .. n |-> IF i = 1 THEN ss[i] ELSE f[i - 1] \o ss[i]]
<1>0. N \in Nat /\ \A i \in 1 .. N : ss[i] \in Seq(S)
  OBVIOUS
<1>1. CASE N = 0
  <2>1. ss = << >>
    BY <1>1
  <2> QED BY <1>1, <2>1 DEF FlattenSeq
<1>2. CASE N # 0
  <2> HIDE DEF N
  <2>1. \E f : Is(f, N)
    <3> DEFINE A == {n \in Nat : n <= N /\ ~\E f : Is(f, n)}
    <3> HIDE DEF Is
    <3>1. SUFFICES ASSUME A # {} PROVE FALSE
      <4>1. N \in Nat /\ N <= N
        BY <1>0
      <4> QED BY <4>1
    <3>2. PICK m \in A : \A x \in A : m <= x
      BY <3>1, SmallestOf
    <3>3. m # 0
      <4>1. Is(<< >>, 0)
        BY DEF Is
      <4> QED BY <3>2, <4>1
    <3>4. m - 1 \in Nat /\ m - 1 <= N /\ m - 1 \notin A
      BY <3>2, <3>3, <1>0
    <3>5. PICK f : Is(f, m - 1)
      BY <3>4
    <3> DEFINE g == [i \in 1 .. m |-> IF i = m THEN (IF m = 1 THEN ss[m] ELSE f[m - 1] \o ss[m]) ELSE f[i]]
    <3>6. ASSUME NEW i \in 1 .. m
          PROVE  g[i] = IF i = 1 THEN ss[i] ELSE g[i - 1] \o ss[i]
      <4>1. CASE i = m
        BY <3>2, <3>3, <4>1
      <4>2. CASE i # m
        <5>0. i \in 1 .. m - 1
          BY <3>2, <4>2
        <5>1. f[i] = IF i = 1 THEN ss[i] ELSE f[i - 1] \o ss[i]
          BY <3>5, <5>0 DEF Is
        <5>2. i # 1 => g[i - 1] = f[i - 1]
          BY <3>2, <4>2
        <5> QED BY <4>2, <5>1, <5>2
      <4> QED BY <4>1, <4>2
    <3>7. Is(g, m)
      <4> DEFINE h == [i \in 1 .. m |-> IF i = 1 THEN ss[i] ELSE g[i - 1] \o ss[i]]
      <4>1. \A i \in 1 .. m : g[i] = h[i]
        BY <3>6
      <4> QED BY <4>1 DEF Is
    <3> QED BY <3>2, <3>7
  <2> DEFINE fl[i \in 1 .. Len(ss)] == IF i = 1 THEN ss[i] ELSE fl[i - 1] \o ss[i]
  <2>2. FlattenSeq(ss) = fl[Len(ss)]
    BY <1>2 DEF FlattenSeq, N
  <2>3. Is(fl, N)
    BY <2>1 DEF N
  <2> HIDE DEF fl
  <2>4. ASSUME NEW i \in 1 .. N PROVE fl[i] = IF i = 1 THEN ss[i] ELSE fl[i - 1] \o ss[i]
    BY <2>3
  <2>5. \A i \in 1 .. N : fl[i] \in Seq(S)
    <3> DEFINE A == {n \in 1 .. N : fl[n] \notin Seq(S)}
    <3>1. SUFFICES ASSUME A # {} PROVE FALSE
      OBVIOUS
    <3>2. PICK m \in A : \A x \in A : m <= x
      <4>1. A \in SUBSET Nat
        BY <1>0
      <4> HIDE DEF A
      <4> QED BY <3>1, <4>1, SmallestOf
    <3>3. CASE m = 1
      BY <1>0, <2>4, <3>2, <3>3
    <3>4. CASE m # 1
      <4>1. m \in 1 .. N /\ m - 1 \in 1 .. N /\ m - 1 \notin A
        BY <1>0, <3>2, <3>4
      <4>2. fl[m] = fl[m - 1] \o ss[m]
        BY <2>4, <3>4, <4>1
      <4>3. fl[m - 1] \in Seq(S) /\ ss[m] \in Seq(S)
        BY <1>0, <4>1
      <4>4. fl[m - 1] \o ss[m] \in Seq(S)
        BY <4>3, ConcatProperties
      <4> QED BY <3>2, <4>2, <4>4
    <3> QED BY <3>3, <3>4
  <2> QED BY <1>0, <1>2, <2>2, <2>5 DEF N
<1> QED BY <1>1, <1>2

-----------------------------------------------------------------------------
(* What the proof takes of the topology: the routers may have injected     *)
(* routes.                                                                 *)
Injecting(t) ==
    /\ {"nodes", "routers", "injected"} \subseteq DOMAIN t
    /\ IsFiniteSet(t.nodes) /\ t.routers \subseteq t.nodes
    /\ t.injected \in [t.nodes -> Seq(Nat)]

ExternalLSAs == [id : Nat, mask : {SubnetMask}, advertisingRouter : Nat]

(* The external LSAs of a topology, which BuildGlobalRoutingDatabase       *)
(* appends to the database each time.                                      *)
External(t) == FlattenSeq([k \in 1 .. Cardinality(t.nodes) |-> DiscoverExternalLSAs(t, k - 1)])

(* External LSAs are a sequence. *)
LEMMA ExternalIsSeq ==
    ASSUME NEW t, Injecting(t)
    PROVE  External(t) \in Seq(ExternalLSAs)
<1> DEFINE N == Cardinality(t.nodes)
           ss == [k \in 1 .. N |-> DiscoverExternalLSAs(t, k - 1)]
<1>1. N \in Nat
  BY FS_CardinalityType DEF Injecting
<1> HIDE DEF N
<1>2. ASSUME NEW n PROVE DiscoverExternalLSAs(t, n) \in Seq(ExternalLSAs)
  <2>1. CASE n \in t.routers
    <3>1. t.injected[n] \in Seq(Nat)
      BY <2>1 DEF Injecting
    <3> DEFINE q == t.injected[n]
               id == RouterId(t, n)
    <3>2. id \in Nat
      <4>1. IsFiniteSet({m \in t.routers : m < n})
        BY FS_Subset DEF Injecting
      <4> QED BY <4>1, FS_CardinalityType DEF RouterId
    <3> HIDE DEF id
    <3>3. ASExternalLSAs(t, n) = [k \in 1 .. Len(q) |->
            [id |-> q[k], mask |-> SubnetMask, advertisingRouter |-> id]]
      BY <3>1 DEF ASExternalLSAs, id
    <3>4. \A k \in 1 .. Len(q) :
            [id |-> q[k], mask |-> SubnetMask, advertisingRouter |-> id] \in ExternalLSAs
      BY <3>1, <3>2 DEF ExternalLSAs
    <3>5. Len(q) \in Nat
      BY <3>1
    <3> HIDE DEF q
    <3>6. ASExternalLSAs(t, n) \in [1 .. Len(q) -> ExternalLSAs]
      BY <3>3, <3>4
    <3> QED BY <2>1, <3>5, <3>6, SeqDef DEF DiscoverExternalLSAs
  <2>2. CASE n \notin t.routers
    BY <2>2 DEF DiscoverExternalLSAs
  <2> QED BY <2>1, <2>2
<1>3. ss \in [1 .. N -> Seq(ExternalLSAs)]
  BY <1>2
<1>4. ss \in Seq(Seq(ExternalLSAs))
  BY <1>1, <1>3, SeqDef
<1> QED BY <1>4, FlattenIsSeq DEF External, N

(* What BuildGlobalRoutingDatabase appends is a second time nothing new to *)
(* a reader of the set of external LSAs.                                   *)
LEMMA ExternalTwice ==
    ASSUME NEW t, Injecting(t), NEW ext \in Seq(ExternalLSAs)
    PROVE  /\ BuildExtDatabase(t, ext) \in Seq(ExternalLSAs)
           /\ Range(BuildExtDatabase(t, ext)) = Range(ext) \cup Range(External(t))
<1> DEFINE x == External(t)
<1>1. x \in Seq(ExternalLSAs) /\ BuildExtDatabase(t, ext) = ext \o x
  BY ExternalIsSeq DEF BuildExtDatabase, External
<1> HIDE DEF x
<1>2. /\ ext \o x \in Seq(ExternalLSAs) /\ Len(ext \o x) = Len(ext) + Len(x)
      /\ \A i \in 1 .. Len(ext) + Len(x) :
            (ext \o x)[i] = IF i <= Len(ext) THEN ext[i] ELSE x[i - Len(ext)]
  BY <1>1, ConcatProperties
<1>3. ASSUME NEW i \in 1 .. Len(ext) + Len(x) PROVE (ext \o x)[i] \in Range(ext) \cup Range(x)
  <2>1. CASE i <= Len(ext)
    <3>1. i \in DOMAIN ext
      BY <2>1
    <3> QED BY <1>2, <2>1, <3>1 DEF Range
  <2>2. CASE ~(i <= Len(ext))
    <3>1. i - Len(ext) \in DOMAIN x
      BY <1>1, <2>2
    <3> QED BY <1>2, <2>2, <3>1 DEF Range
  <2> QED BY <2>1, <2>2
<1>4. ASSUME NEW i \in DOMAIN ext PROVE ext[i] \in Range(ext \o x)
  <2>1. i \in DOMAIN (ext \o x) /\ (ext \o x)[i] = ext[i]
    BY <1>1, <1>2
  <2> QED BY <2>1 DEF Range
<1>5. ASSUME NEW i \in DOMAIN x PROVE x[i] \in Range(ext \o x)
  <2> DEFINE j == Len(ext) + i
  <2>1. j \in DOMAIN (ext \o x) /\ (ext \o x)[j] = x[i]
    BY <1>1, <1>2
  <2> QED BY <2>1 DEF Range
<1>6. Range(ext \o x) = Range(ext) \cup Range(x)
  <2>1. DOMAIN (ext \o x) = 1 .. Len(ext) + Len(x)
    BY <1>1, <1>2
  <2> HIDE DEF x
  <2> QED BY <1>3, <1>4, <1>5, <2>1 DEF Range
<1> QED BY <1>1, <1>2, <1>6 DEF x

(* GlobalRouteManagerLSDB::Insert drops what is already there, so a second *)
(* build over the same topology changes nothing.                           *)
LEMMA BuildTwice ==
    ASSUME NEW t
    PROVE  BuildDatabase(t, BuildDatabase(t, << >>)) = BuildDatabase(t, << >>)
<1> DEFINE lsas == DiscoveredLSAs(t)
           db == InsertLSAs(<< >>, lsas)
<1>1. DOMAIN db = {l.id : l \in lsas}
  BY DEF InsertLSAs
<1>2. db = [id \in DOMAIN db |-> db[id]]
  BY DEF InsertLSAs
<1> HIDE DEF db, lsas
<1>3. InsertLSAs(db, lsas) = db
  BY <1>1, <1>2 DEF InsertLSAs
<1> QED BY <1>3 DEF BuildDatabase, db, lsas

-----------------------------------------------------------------------------
(* The databases are those of the topology as it is, up to the order and   *)
(* the repetitions of external LSAs.                                       *)
BuiltFrom(t, db, ext) ==
    db = BuildDatabase(t, << >>) /\ Range(ext) = Range(BuildExtDatabase(t, << >>))

IInv ==
    /\ Injecting(net) /\ extdb \in Seq(ExternalLSAs)
    /\ fatal \in BOOLEAN /\ unaware \in BOOLEAN
    /\ computed = {} => lsdb = << >> /\ extdb = << >>
    /\ ~fatal /\ ~unaware /\ computed # {} => BuiltFrom(net, lsdb, extdb) /\ computed = {Fresh}

(* Two readings of the same databases give the same routes. *)
LEMMA SnapshotOfBuilt ==
    ASSUME NEW t, NEW db, NEW ext, BuiltFrom(t, db, ext)
    PROVE  Snapshot(t, db, ext) = Snapshot(t, BuildDatabase(t, << >>), BuildExtDatabase(t, << >>))
BY DEF BuiltFrom, Snapshot

(* Databases that are empty, or were built from the topology, are built    *)
(* from it afterwards.                                                     *)
LEMMA BuildAgain ==
    ASSUME NEW t, Injecting(t), NEW db, NEW ext \in Seq(ExternalLSAs),
           (db = << >> /\ ext = << >>) \/ BuiltFrom(t, db, ext)
    PROVE  /\ BuiltFrom(t, BuildDatabase(t, db), BuildExtDatabase(t, ext))
           /\ BuildExtDatabase(t, ext) \in Seq(ExternalLSAs)
<1>1. /\ Range(BuildExtDatabase(t, ext)) = Range(ext) \cup Range(External(t))
      /\ BuildExtDatabase(t, ext) \in Seq(ExternalLSAs)
  BY ExternalTwice
<1>2. Range(BuildExtDatabase(t, << >>)) = Range(External(t))
  <2> DEFINE none == << >>
  <2>1. none \in Seq(ExternalLSAs) /\ Range(none) = {}
    BY DEF Range
  <2> HIDE DEF none
  <2>2. Range(BuildExtDatabase(t, none)) = Range(none) \cup Range(External(t))
    BY <2>1, ExternalTwice
  <2>3. Range(BuildExtDatabase(t, none)) = Range(External(t))
    BY <2>1, <2>2
  <2> QED BY <2>3 DEF none
<1>3. CASE db = << >> /\ ext = << >>
  BY <1>1, <1>3 DEF BuiltFrom
<1>4. CASE BuiltFrom(t, db, ext)
  BY <1>1, <1>2, <1>4, BuildTwice DEF BuiltFrom
<1> QED BY <1>3, <1>4

(* Every build keeps the invariant if the databases it starts from are     *)
(* empty or current, and the routes that stay are current.                 *)
LEMMA BuildStep ==
    ASSUME NEW db, NEW ext \in Seq(ExternalLSAs), NEW old,
           Injecting(net'), extdb \in Seq(ExternalLSAs), fatal \in BOOLEAN, unaware' \in BOOLEAN,
           computed = {} => lsdb = << >> /\ extdb = << >>,
           BuildAndInitialize(net', db, ext, old),
           ~fatal => \/ unaware'
                     \/ /\ (db = << >> /\ ext = << >>) \/ BuiltFrom(net', db, ext)
                        /\ old \subseteq {Fresh'}
    PROVE  IInv'
<1> DEFINE t == net'
<1>1. CASE fatal' = TRUE /\ UNCHANGED <<lsdb, extdb, computed>>
  BY <1>1 DEF IInv
<1>2. CASE /\ lsdb' = BuildDatabase(t, db)
           /\ extdb' = BuildExtDatabase(t, ext)
           /\ computed' = old \cup {Snapshot(t, lsdb', extdb')}
           /\ UNCHANGED fatal
  <2>1. extdb' \in Seq(ExternalLSAs) /\ computed' # {} /\ fatal' \in BOOLEAN
    BY <1>2, ExternalTwice
  <2>2. ASSUME ~fatal, ~unaware' PROVE BuiltFrom(t, lsdb', extdb') /\ computed' = {Fresh'}
    <3>1. BuiltFrom(t, lsdb', extdb') /\ old \subseteq {Fresh'}
      <4>1. (db = << >> /\ ext = << >>) \/ BuiltFrom(t, db, ext)
        BY <2>2
      <4>2. BuiltFrom(t, BuildDatabase(t, db), BuildExtDatabase(t, ext))
        BY <4>1, BuildAgain
      <4> QED BY <1>2, <2>2, <4>2
    <3>2. Snapshot(t, lsdb', extdb') = Fresh'
      BY <3>1, SnapshotOfBuilt DEF Fresh
    <3> QED BY <1>2, <3>1, <3>2
  <2> QED BY <1>2, <2>1, <2>2 DEF IInv
<1> QED BY <1>1, <1>2 DEF BuildAndInitialize

-----------------------------------------------------------------------------
(* The invariant holds before routes are computed for the first time.      *)
LEMMA IInvInit == Init => IInv
<1> SUFFICES ASSUME Init PROVE IInv
  OBVIOUS
<1>1. Injecting(net)
  BY GlobalRouteManagerAssumption DEF Init, WellFormedTopology, Injecting
<1>2. << >> \in Seq(ExternalLSAs)
  OBVIOUS
<1>3. extdb \in Seq(ExternalLSAs) /\ fatal = FALSE /\ unaware = FALSE
  BY <1>2 DEF Init
<1> QED BY <1>1, <1>3 DEF Init, IInv

(* Populating twice installs the same routes twice. *)
LEMMA PopulateStep ==
    ASSUME IInv, PopulateRoutingTables
    PROVE  IInv'
<1>2. /\ net' = net /\ unaware' = unaware /\ ~fatal
      /\ BuildAndInitialize(net', lsdb, extdb, computed)
  BY DEF PopulateRoutingTables
<1>3. Fresh' = Fresh
  BY <1>2 DEF Fresh
<1>4. \/ unaware'
      \/ /\ (lsdb = << >> /\ extdb = << >>) \/ BuiltFrom(net', lsdb, extdb)
         /\ computed \subseteq {Fresh'}
  BY <1>2, <1>3 DEF IInv
<1> QED BY <1>2, <1>4, BuildStep DEF IInv

(* A change of the topology leaves it a topology. *)
LEMMA ChangedTopology ==
    ASSUME IInv, NEW d, NEW v, NEW field \in {"up", "addr", "metric", "fwd"},
           net' = [net EXCEPT !.ifs[d[1]][d[2]][field] = v]
    PROVE  Injecting(net')
<1>1. /\ net'.nodes = net.nodes /\ net'.routers = net.routers
      /\ net'.injected = net.injected
      /\ DOMAIN net' = DOMAIN net
  BY DEF IInv, Injecting
<1> QED BY <1>1 DEF IInv, Injecting

(* A change that nobody is told about while routes are installed is noted. *)
LEMMA SilentStep ==
    ASSUME IInv, Injecting(net'), Silently
    PROVE  IInv'
<1>1. unaware' = (unaware \/ computed # {}) /\ UNCHANGED <<lsdb, extdb, computed, fatal>>
  BY DEF Silently
<1>2. unaware' \in BOOLEAN /\ (~unaware' => computed = {})
  BY <1>1 DEF IInv
<1> QED BY <1>1, <1>2 DEF IInv

(* DeleteGlobalRoutes empties the databases and the tables. *)
LEMMA RecomputeStep ==
    ASSUME IInv, ~fatal, Injecting(net'), Recompute(net'), unaware' = FALSE
    PROVE  IInv'
<1> DEFINE none == << >>
<1>1. none \in Seq(ExternalLSAs) /\ none = << >>
  OBVIOUS
<1>2. BuildAndInitialize(net', none, none, {})
  BY DEF Recompute
<1> HIDE DEF none
<1>3. \/ unaware'
      \/ /\ (none = << >> /\ none = << >>) \/ BuiltFrom(net', none, none)
         /\ {} \subseteq {Fresh'}
  BY <1>1
<1>4. unaware' \in BOOLEAN
  OBVIOUS
<1> QED BY <1>1, <1>2, <1>3, <1>4, BuildStep DEF IInv

(* An interface event recomputes, or is a change nobody is told about. *)
LEMMA NotifyStep ==
    ASSUME IInv, ~fatal, Injecting(net'), NEW n, Notify(n)
    PROVE  IInv'
<1>1. CASE Recompute(net') /\ unaware' = FALSE
  BY <1>1, RecomputeStep
<1>2. CASE Silently
  BY <1>2, SilentStep
<1> QED BY <1>1, <1>2 DEF Notify, Silently

(* Routes are injected and withdrawn at the routers. *)
LEMMA InjectedTopology ==
    ASSUME IInv, NEW n \in net.routers, NEW x \in Injectable,
           InjectRoute(n, x) \/ WithdrawRoute(n, x)
    PROVE  Injecting(net') /\ Silently
<1> DEFINE q == net.injected[n]
<1>1. q \in Seq(Nat) /\ n \in net.nodes /\ x \in Nat
  BY GlobalRouteManagerAssumption DEF IInv, Injecting
<1>2. ASSUME NEW r \in Seq(Nat), net' = [net EXCEPT !.injected[n] = r]
      PROVE  Injecting(net')
  <2>1. /\ net'.nodes = net.nodes /\ net'.routers = net.routers
        /\ net'.injected = [net.injected EXCEPT ![n] = r]
        /\ DOMAIN net' = DOMAIN net
    BY <1>2 DEF IInv, Injecting
  <2> QED BY <1>1, <1>2, <2>1 DEF IInv, Injecting
<1>3. CASE InjectRoute(n, x)
  <2>1. Append(q, x) \in Seq(Nat) /\ net' = [net EXCEPT !.injected[n] = Append(q, x)]
    BY <1>1, <1>3 DEF InjectRoute
  <2> QED BY <1>2, <1>3, <2>1 DEF InjectRoute
<1>4. CASE WithdrawRoute(n, x)
  <2> DEFINE r == RemoveFirst(q, x)
  <2>1. net' = [net EXCEPT !.injected[n] = r]
    BY <1>4 DEF WithdrawRoute
  <2>2. r \in Seq(Nat)
    <3> HIDE DEF q
    <3> DEFINE I == {i \in 1 .. Len(q) : q[i] = x}
               i == Min(I)
    <3>1. CASE I = {}
      <4>1. r = q
        BY <3>1 DEF RemoveFirst
      <4> QED BY <1>1, <4>1
    <3>2. CASE I # {}
      <4>1. i \in 1 .. Len(q)
        <5>1. I \in SUBSET Nat
          BY <1>1
        <5> HIDE DEF I
        <5>2. \E m \in I : \A y \in I : m <= y
          BY <3>2, <5>1, SmallestOf
        <5>3. i \in I
          BY <5>2 DEF Min
        <5> QED BY <5>3 DEF I
      <4>2. r = SubSeq(q, 1, i - 1) \o SubSeq(q, i + 1, Len(q))
        BY <3>2 DEF RemoveFirst, RemoveAt, SelectInSeq
      <4> HIDE DEF i
      <4>3. SubSeq(q, 1, i - 1) \in Seq(Nat) /\ SubSeq(q, i + 1, Len(q)) \in Seq(Nat)
        BY <1>1, <4>1
      <4> QED BY <4>2, <4>3, ConcatProperties
    <3> QED BY <3>1, <3>2
  <2> QED BY <1>2, <1>4, <2>1, <2>2 DEF WithdrawRoute
<1> QED BY <1>3, <1>4

(* Every step preserves the invariant. *)
LEMMA IInvNext == IInv /\ [Next]_vars => IInv'
<1> SUFFICES ASSUME IInv, [Next]_vars PROVE IInv'
  OBVIOUS
<1>1. CASE UNCHANGED vars
  BY <1>1 DEF vars, IInv, Fresh, BuiltFrom
<1>2. CASE RecomputeRoutingTables
  <2>1. Injecting(net') /\ ~fatal /\ Recompute(net') /\ unaware' = FALSE
    BY <1>2 DEF RecomputeRoutingTables, IInv
  <2> QED BY <2>1, RecomputeStep
<1>3. CASE TimePasses
  BY <1>3 DEF TimePasses, IInv, Fresh, BuiltFrom
<1>4. ASSUME NEW d \in Changeable, NEW a, SetUp(d) \/ SetDown(d) \/ AddAddress(d, a) PROVE IInv'
  <2>1. ~fatal /\ Notify(d[1])
    BY <1>4 DEF SetUp, SetDown, AddAddress, Changed
  <2>2. Injecting(net')
    BY <1>4, ChangedTopology DEF SetUp, SetDown, AddAddress, WithAddresses
  <2> QED BY <2>1, <2>2, NotifyStep
<1>5. ASSUME NEW d \in Changeable, NEW k, RemoveAddress(d, k) PROVE IInv'
  <2>1. ~fatal /\ Notify(d[1])
    BY <1>5 DEF RemoveAddress, Changed
  <2>2. Injecting(net')
    BY <1>5, ChangedTopology DEF RemoveAddress, WithAddresses
  <2> QED BY <2>1, <2>2, NotifyStep
<1>6. ASSUME NEW d \in Changeable, NEW m, SetMetric(d, m) \/ SetForwarding(d, m) PROVE IInv'
  <2>1. Injecting(net') /\ Silently
    BY <1>6, ChangedTopology DEF SetMetric, SetForwarding
  <2> QED BY <2>1, SilentStep
<1>7. ASSUME NEW n \in net.routers, NEW x \in Injectable, InjectRoute(n, x) \/ WithdrawRoute(n, x)
      PROVE  IInv'
  BY <1>7, InjectedTopology, SilentStep
<1> QED BY <1>1, <1>2, <1>3, <1>4, <1>5, <1>6, <1>7, PopulateStep DEF Next

(* While the topology has not changed silently, the tables hold the routes *)
(* of the topology as it is and no others.                                 *)
THEOREM ManagerTablesAreCurrent == Spec => []TablesAreCurrent
<1>1. IInv => TablesAreCurrent
  BY DEF IInv, TablesAreCurrent
<1> QED BY <1>1, IInvInit, IInvNext, PTL DEF Spec
=============================================================================
