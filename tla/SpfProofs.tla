----------------------------- MODULE SpfProofs -----------------------------
(***************************************************************************)
(* Theorems about SpfCalculation, for every set of well-formed topologies: *)
(* the candidate list, the database and the shortest path tree.            *)
(***************************************************************************)
EXTENDS SpfProperties, FiniteSetTheorems, WellFoundedInduction, NaturalsInduction,
        SequenceTheorems, TLAPS

-----------------------------------------------------------------------------
(***************************************************************************)
(* What Push, Pop and Reorder do to a candidate list of any length, over   *)
(* any set S of vertices.                                                  *)
(***************************************************************************)
(* CompareSPFVertex is a strict weak order, as std::upper_bound and        *)
(* std::list::sort require of it.                                          *)
LEMMA CompareIsStrictWeakOrder ==
    ASSUME NEW S, NEW D \in [S -> Nat], NEW N, NEW a \in S, NEW b \in S, NEW c \in S
    PROVE  /\ ~CompareSPFVertex(D, N, a, a)
           /\ CompareSPFVertex(D, N, a, b) => ~CompareSPFVertex(D, N, b, a)
           /\ CompareSPFVertex(D, N, a, b) /\ CompareSPFVertex(D, N, b, c)
                => CompareSPFVertex(D, N, a, c)
           /\ ~CompareSPFVertex(D, N, a, b) /\ ~CompareSPFVertex(D, N, b, c)
                => ~CompareSPFVertex(D, N, a, c)
BY DEF CompareSPFVertex

(* std::upper_bound always finds its position. *)
LEMMA UpperBoundFound ==
    ASSUME NEW S, NEW D \in [S -> Nat], NEW N, NEW q \in Seq(S), NEW w \in S
    PROVE  LET p == UpperBound(D, N, q, w) IN
           /\ p \in 1 .. Len(q) + 1
           /\ \A k \in 1 .. p - 1 : ~CompareSPFVertex(D, N, w, q[k])
           /\ p <= Len(q) => CompareSPFVertex(D, N, w, q[p])
<1> DEFINE A == {p \in 1 .. Len(q) + 1 :
                    p <= Len(q) => CompareSPFVertex(D, N, w, q[p])}
<1>1. Len(q) + 1 \in A /\ A \subseteq Nat
  OBVIOUS
<1>2. PICK m \in A : \A x \in A : <<x, m>> \notin OpToRel(<, Nat)
  BY <1>1, WFMin, NatLessThanWellFounded
<1>3. \A x \in A : ~(x < m)
  BY <1>1, <1>2 DEF OpToRel
<1>4. \A k \in 1 .. m - 1 : ~CompareSPFVertex(D, N, w, q[k])
  BY <1>3
<1> QED
  BY <1>4 DEF UpperBound

(* Push adds one element; nothing is lost. *)
LEMMA PushAdds ==
    ASSUME NEW S, NEW D \in [S -> Nat], NEW N, NEW q \in Seq(S), NEW w \in S
    PROVE  /\ Push(D, N, q, w) \in Seq(S)
           /\ Listed(Push(D, N, q, w)) = Listed(q) \cup {w}
           /\ w \notin Listed(q) /\ NoDuplicates(q)
                => NoDuplicates(Push(D, N, q, w))
<1> DEFINE p == UpperBound(D, N, q, w)
           r == Push(D, N, q, w)
<1>1. p \in 1 .. Len(q) + 1
  BY UpperBoundFound
<1> HIDE DEF p
<1>2. r = [k \in 1 .. Len(q) + 1 |->
            IF k < p THEN q[k] ELSE IF k = p THEN w ELSE q[k - 1]]
  BY DEF p, Push, InsertBefore
<1>3. r \in Seq(S) /\ Len(r) = Len(q) + 1
  BY <1>1, <1>2
<1> HIDE DEF r
<1>4. Listed(r) = Listed(q) \cup {w}
  <2>1. \A k \in 1 .. Len(r) : r[k] \in Listed(q) \cup {w}
    BY <1>1, <1>2, <1>3 DEF Listed
  <2>2. w \in Listed(r)
    BY <1>1, <1>2, <1>3 DEF Listed
  <2>3. ASSUME NEW k \in 1 .. Len(q) PROVE q[k] \in Listed(r)
    <3>1. CASE k < p
      BY <3>1, <1>1, <1>2, <1>3 DEF Listed
    <3>2. CASE k >= p
      <4>1. k + 1 \in 1 .. Len(r) /\ r[k + 1] = q[k]
        BY <3>2, <1>1, <1>2, <1>3
      <4> QED BY <4>1 DEF Listed
    <3> QED BY <3>1, <3>2, <1>1
  <2> QED BY <2>1, <2>2, <2>3 DEF Listed
<1>5. ASSUME w \notin Listed(q), NoDuplicates(q)
      PROVE  NoDuplicates(r)
  <2>1. \A k \in 1 .. Len(q) : q[k] # w
    BY <1>5 DEF Listed
  <2>2. SUFFICES ASSUME NEW j \in 1 .. Len(r), NEW k \in 1 .. Len(r), j < k
                 PROVE  r[j] # r[k]
    BY <1>3 DEF NoDuplicates
  <2>3. CASE k <= p
    BY <2>1, <2>2, <2>3, <1>1, <1>2, <1>3, <1>5 DEF NoDuplicates
  <2>4. CASE k > p /\ j <= p
    <3>1. r[k] = q[k - 1] /\ k - 1 \in 1 .. Len(q)
      BY <2>4, <1>1, <1>2, <1>3
    <3>2. CASE j = p
      BY <3>1, <3>2, <2>1, <1>1, <1>2, <1>3
    <3>3. CASE j < p
      <4>1. r[j] = q[j] /\ j \in 1 .. Len(q) /\ j # k - 1
        BY <2>4, <3>3, <1>1, <1>2, <1>3
      <4> QED BY <3>1, <4>1, <1>5 DEF NoDuplicates
    <3> QED BY <3>2, <3>3, <2>4, <1>1
  <2>5. CASE k > p /\ j > p
    <3>1. r[k] = q[k - 1] /\ r[j] = q[j - 1] /\ k - 1 \in 1 .. Len(q) /\ j - 1 \in 1 .. Len(q)
          /\ j - 1 # k - 1
      BY <2>2, <2>5, <1>1, <1>2, <1>3
    <3> QED BY <3>1, <1>5 DEF NoDuplicates
  <2> QED BY <2>3, <2>4, <2>5, <1>1, <1>3
<1> QED BY <1>3, <1>4, <1>5 DEF r

(* Push adds one vertex to the list and loses none.                        *)
LEMMA PushLists ==
    ASSUME NEW S, NEW D \in [S -> Nat], NEW N, NEW q \in Seq(S), NEW w \in S,
           w \notin Listed(q), NoDuplicates(q)
    PROVE  /\ Listed(Push(D, N, q, w)) = Listed(q) \cup {w}
           /\ NoDuplicates(Push(D, N, q, w))
BY PushAdds

(* Push into a sorted list keeps it sorted. *)
LEMMA PushSorts ==
    ASSUME NEW S, NEW D \in [S -> Nat], NEW N, NEW q \in Seq(S), NEW w \in S,
           Sorted(D, N, q)
    PROVE  Sorted(D, N, Push(D, N, q, w))
<1> DEFINE p == UpperBound(D, N, q, w)
           r == Push(D, N, q, w)
<1>1. /\ p \in 1 .. Len(q) + 1
      /\ \A k \in 1 .. p - 1 : ~CompareSPFVertex(D, N, w, q[k])
      /\ p <= Len(q) => CompareSPFVertex(D, N, w, q[p])
  BY UpperBoundFound
<1> HIDE DEF p
<1>2. r = [k \in 1 .. Len(q) + 1 |->
            IF k < p THEN q[k] ELSE IF k = p THEN w ELSE q[k - 1]]
  BY DEF p, Push, InsertBefore
<1>3. Len(r) = Len(q) + 1
  BY <1>2, <1>1
<1> HIDE DEF r
<1>4. \A k \in 1 .. Len(q) : k >= p => ~CompareSPFVertex(D, N, q[k], w)
  <2> SUFFICES ASSUME NEW k \in 1 .. Len(q), k >= p
               PROVE  ~CompareSPFVertex(D, N, q[k], w)
    OBVIOUS
  <2>1. p \in 1 .. Len(q) /\ CompareSPFVertex(D, N, w, q[p])
    BY <1>1
  <2>2. ~CompareSPFVertex(D, N, q[k], q[p])
    <3>1. CASE k = p
      BY <3>1, <2>1, CompareIsStrictWeakOrder
    <3>2. CASE k > p
      BY <3>2, <2>1 DEF Sorted
    <3> QED BY <3>1, <3>2, <2>1
  <2>3. q[k] \in S /\ q[p] \in S
    BY <2>1
  <2> QED BY <2>1, <2>2, <2>3 DEF CompareSPFVertex
<1>5. ASSUME NEW j \in 1 .. Len(r), NEW k \in 1 .. Len(r), j < k
      PROVE  ~CompareSPFVertex(D, N, r[k], r[j])
  <2>1. CASE k < p
    <3>1. r[k] = q[k] /\ r[j] = q[j] /\ k \in 1 .. Len(q) /\ j \in 1 .. Len(q)
      BY <2>1, <1>1, <1>2, <1>3, <1>5
    <3> QED BY <1>5, <3>1 DEF Sorted
  <2>2. CASE k = p
    BY <2>2, <1>1, <1>2, <1>3, <1>5
  <2>3. CASE k > p /\ j = p
    BY <2>3, <1>1, <1>2, <1>3, <1>4, <1>5
  <2>4. CASE k > p /\ j < p
    <3>1. r[k] = q[k - 1] /\ r[j] = q[j] /\ k - 1 \in 1 .. Len(q) /\ j \in 1 .. Len(q)
      BY <2>4, <1>1, <1>2, <1>3
    <3>2. j < k - 1
      BY <2>4, <1>1
    <3> QED BY <3>1, <3>2 DEF Sorted
  <2>5. CASE k > p /\ j > p
    <3>1. r[k] = q[k - 1] /\ r[j] = q[j - 1] /\ k - 1 \in 1 .. Len(q) /\ j - 1 \in 1 .. Len(q)
          /\ j - 1 < k - 1
      BY <2>5, <1>1, <1>2, <1>3, <1>5
    <3> QED BY <3>1 DEF Sorted
  <2> QED BY <2>1, <2>2, <2>3, <2>4, <2>5, <1>1, <1>3
<1> QED BY <1>5 DEF Sorted, r

-----------------------------------------------------------------------------
(***************************************************************************)
(* Reorder.  Every position has a rank of its own, so that the re-sorted   *)
(* list is a permutation of the old one.                                   *)
(***************************************************************************)
LEMMA SortsBeforeIsTotal ==
    ASSUME NEW S, NEW D \in [S -> Nat], NEW N, NEW q \in Seq(S),
           NEW j \in 1 .. Len(q), NEW k \in 1 .. Len(q), NEW m \in 1 .. Len(q)
    PROVE  /\ ~SortsBefore(D, N, q, k, k)
           /\ j # k => SortsBefore(D, N, q, j, k) \/ SortsBefore(D, N, q, k, j)
           /\ SortsBefore(D, N, q, j, k) /\ SortsBefore(D, N, q, k, m)
                => SortsBefore(D, N, q, j, m)
<1> q[j] \in S /\ q[k] \in S /\ q[m] \in S
  OBVIOUS
<1> QED BY DEF SortsBefore, CompareSPFVertex

(* Ranks are positions, and the rank of what sorts before is lower.        *)
LEMMA RankOrder ==
    ASSUME NEW S, NEW D \in [S -> Nat], NEW N, NEW q \in Seq(S)
    PROVE  /\ \A k \in 1 .. Len(q) : Rank(D, N, q, k) \in 1 .. Len(q)
           /\ \A j, k \in 1 .. Len(q) :
                SortsBefore(D, N, q, j, k) => Rank(D, N, q, j) < Rank(D, N, q, k)
<1> DEFINE P == 1 .. Len(q)
           Before(k) == {j \in P : SortsBefore(D, N, q, j, k)}
<1>0. Len(q) \in Nat
  OBVIOUS
<1>1. IsFiniteSet(P) /\ Cardinality(P) = Len(q)
  <2>1. IsFiniteSet(P) /\ Cardinality(P) = IF 1 > Len(q) THEN 0 ELSE Len(q) - 1 + 1
    BY <1>0, FS_Interval
  <2> QED BY <1>0, <2>1
<1>2. ASSUME NEW k \in P
      PROVE  /\ IsFiniteSet(Before(k)) /\ Cardinality(Before(k)) \in Nat
             /\ Rank(D, N, q, k) = 1 + Cardinality(Before(k))
  <2>1. IsFiniteSet(Before(k))
    BY <1>1, FS_Subset
  <2> QED BY <2>1, FS_CardinalityType DEF Rank
<1>3. ASSUME NEW k \in P PROVE Rank(D, N, q, k) \in P
  <2>1. k \notin Before(k)
    BY SortsBeforeIsTotal
  <2>2. Before(k) \in SUBSET P /\ Before(k) # P
    BY <2>1
  <2>3. Cardinality(Before(k)) <= Len(q) /\ Cardinality(Before(k)) # Len(q)
    BY <2>2, <1>1, FS_Subset
  <2> HIDE DEF Before
  <2> QED BY <2>3, <1>2, <1>0
<1>4. ASSUME NEW j \in P, NEW k \in P, SortsBefore(D, N, q, j, k)
      PROVE  Rank(D, N, q, j) < Rank(D, N, q, k)
  <2>1. Before(j) \in SUBSET Before(k)
    BY <1>4, SortsBeforeIsTotal
  <2>2. j \in Before(k) /\ j \notin Before(j)
    BY <1>4, SortsBeforeIsTotal
  <2>3. /\ Cardinality(Before(j)) <= Cardinality(Before(k))
        /\ Cardinality(Before(j)) # Cardinality(Before(k))
    BY <2>1, <2>2, <1>2, FS_Subset
  <2> HIDE DEF Before
  <2> QED BY <2>3, <1>2
<1> QED BY <1>3, <1>4

(* The positions are mapped to the ranks one to one. *)
LEMMA RankIsPermutation ==
    ASSUME NEW S, NEW D \in [S -> Nat], NEW N, NEW q \in Seq(S)
    PROVE  /\ \A j, k \in 1 .. Len(q) : Rank(D, N, q, j) = Rank(D, N, q, k) => j = k
           /\ \A r \in 1 .. Len(q) : \E k \in 1 .. Len(q) : Rank(D, N, q, k) = r
<1> DEFINE P == 1 .. Len(q)
           f == [k \in P |-> Rank(D, N, q, k)]
<1>1. \A k \in P : Rank(D, N, q, k) \in P
  BY RankOrder
<1>2. ASSUME NEW j \in P, NEW k \in P, Rank(D, N, q, j) = Rank(D, N, q, k)
      PROVE  j = k
  <2>1. Rank(D, N, q, j) \in Nat
    BY <1>1
  <2>2. ~SortsBefore(D, N, q, j, k) /\ ~SortsBefore(D, N, q, k, j)
    BY <1>2, <2>1, RankOrder
  <2> QED BY <2>2, SortsBeforeIsTotal
<1>3. f \in Injection(P, P)
  BY <1>1, <1>2 DEF Injection, IsInjective
<1>4. IsFiniteSet(P)
  BY FS_Interval
<1>5. f \in Surjection(P, P)
  BY <1>3, <1>4, FS_Injection
<1>6. \A r \in P : \E k \in P : Rank(D, N, q, k) = r
  BY <1>5 DEF Surjection
<1> QED BY <1>2, <1>6

(* Reorder sorts, whatever the list was, and loses nothing. *)
LEMMA ReorderSorts ==
    ASSUME NEW S, NEW D \in [S -> Nat], NEW N, NEW q \in Seq(S)
    PROVE  /\ Reorder(D, N, q) \in Seq(S)
           /\ Listed(Reorder(D, N, q)) = Listed(q)
           /\ NoDuplicates(q) => NoDuplicates(Reorder(D, N, q))
           /\ Sorted(D, N, Reorder(D, N, q))
<1> DEFINE P == 1 .. Len(q)
           At(r) == CHOOSE k \in P : Rank(D, N, q, k) = r
           s == Reorder(D, N, q)
<1>1. ASSUME NEW r \in P PROVE At(r) \in P /\ Rank(D, N, q, At(r)) = r
  <2>1. \E k \in P : Rank(D, N, q, k) = r
    BY RankIsPermutation
  <2> QED BY <2>1
<1>2. ASSUME NEW k \in P
      PROVE  Rank(D, N, q, k) \in P /\ At(Rank(D, N, q, k)) = k
  <2>1. Rank(D, N, q, k) \in P
    BY RankOrder
  <2>2. At(Rank(D, N, q, k)) \in P /\ Rank(D, N, q, At(Rank(D, N, q, k))) = Rank(D, N, q, k)
    BY <1>1, <2>1
  <2> QED BY <2>1, <2>2, RankIsPermutation
<1>3. s = [r \in P |-> q[At(r)]]
  BY DEF Reorder
<1> HIDE DEF At, s
<1>4. s \in Seq(S) /\ Len(s) = Len(q)
  BY <1>1, <1>3
<1>5. Listed(s) = Listed(q)
  BY <1>1, <1>2, <1>3, <1>4 DEF Listed
<1>6. NoDuplicates(q) => NoDuplicates(s)
  <2>1. \A j, k \in P : j # k => At(j) # At(k)
    BY <1>1
  <2> SUFFICES ASSUME NoDuplicates(q), NEW j \in P, NEW k \in P, j # k
               PROVE  s[j] # s[k]
    BY <1>4 DEF NoDuplicates
  <2>2. At(j) \in P /\ At(k) \in P /\ At(j) # At(k)
    BY <2>1, <1>1
  <2> QED BY <2>2, <1>3 DEF NoDuplicates
<1>7. Sorted(D, N, s)
  <2> SUFFICES ASSUME NEW j \in P, NEW k \in P, j < k
               PROVE  ~CompareSPFVertex(D, N, s[k], s[j])
    BY <1>4 DEF Sorted
  <2>1. At(j) \in P /\ At(k) \in P /\ At(j) # At(k)
    BY <1>1
  <2>2. ~(Rank(D, N, q, At(k)) < Rank(D, N, q, At(j)))
    BY <1>1
  <2>3. ~SortsBefore(D, N, q, At(k), At(j))
    BY <2>1, <2>2, RankOrder
  <2> QED BY <2>3, <1>3 DEF SortsBefore
<1> QED BY <1>4, <1>5, <1>6, <1>7 DEF s

(* Taking the closest candidate off the list leaves the rest as it was,    *)
(* and none of the rest is ranked before it.                               *)
LEMMA PopTakesClosest ==
    ASSUME NEW S, NEW D \in [S -> Nat], NEW N, NEW q \in Seq(S), q # << >>,
           NoDuplicates(q), Sorted(D, N, q)
    PROVE  /\ Top(q) \in Listed(q) /\ Top(q) \in S
           /\ Pop(q) \in Seq(S)
           /\ Listed(Pop(q)) = Listed(q) \ {Top(q)}
           /\ NoDuplicates(Pop(q))
           /\ Sorted(D, N, Pop(q))
           /\ \A w \in Listed(q) : D[Top(q)] <= D[w]
<1>1. Len(q) \in Nat \ {0} /\ Len(Tail(q)) = Len(q) - 1 /\ Tail(q) \in Seq(S)
  OBVIOUS
<1>2. \A k \in 1 .. Len(Tail(q)) : Tail(q)[k] = q[k + 1] /\ k + 1 \in 1 .. Len(q)
  BY <1>1
<1>3. Listed(Tail(q)) = Listed(q) \ {q[1]}
  <2>1. \A k \in 1 .. Len(Tail(q)) : Tail(q)[k] \in Listed(q) \ {q[1]}
    BY <1>1, <1>2 DEF Listed, NoDuplicates
  <2>2. ASSUME NEW k \in 1 .. Len(q), q[k] # q[1] PROVE q[k] \in Listed(Tail(q))
    <3>1. k - 1 \in 1 .. Len(Tail(q)) /\ Tail(q)[k - 1] = q[k]
      BY <1>1, <1>2, <2>2
    <3> QED BY <3>1 DEF Listed
  <2> QED BY <2>1, <2>2 DEF Listed
<1>4. NoDuplicates(Tail(q))
  BY <1>1, <1>2 DEF NoDuplicates
<1>5. Sorted(D, N, Tail(q))
  <2> SUFFICES ASSUME NEW j \in 1 .. Len(Tail(q)), NEW k \in 1 .. Len(Tail(q)), j < k
               PROVE  ~CompareSPFVertex(D, N, Tail(q)[k], Tail(q)[j])
    BY DEF Sorted
  <2>1. j + 1 < k + 1
    OBVIOUS
  <2> QED BY <2>1, <1>2 DEF Sorted
<1>6. \A k \in 1 .. Len(q) : D[q[1]] <= D[q[k]]
  <2> SUFFICES ASSUME NEW k \in 1 .. Len(q) PROVE D[q[1]] <= D[q[k]]
    OBVIOUS
  <2>1. D[q[1]] \in Nat /\ D[q[k]] \in Nat
    BY <1>1
  <2>2. k = 1 \/ ~CompareSPFVertex(D, N, q[k], q[1])
    BY <1>1 DEF Sorted
  <2> QED BY <2>1, <2>2 DEF CompareSPFVertex
<1>7. q[1] \in Listed(q) /\ q[1] \in S
  BY <1>1 DEF Listed
<1>8. \A w \in Listed(q) : D[q[1]] <= D[w]
  BY <1>6 DEF Listed
<1> QED BY <1>1, <1>3, <1>4, <1>5, <1>7, <1>8 DEF Top, Pop

(* The order of a list depends on the distances of its own elements only.  *)
LEMMA SortedAgrees ==
    ASSUME NEW D, NEW E, NEW N, NEW q, Sorted(D, N, q),
           \A u \in Listed(q) : E[u] = D[u]
    PROVE  Sorted(E, N, q)
BY DEF Sorted, Listed, CompareSPFVertex

-----------------------------------------------------------------------------
(***************************************************************************)
(* The operators the actions are built from return what they should.       *)
(***************************************************************************)

(* A set of naturals that is not empty has a smallest element.             *)
LEMMA SmallestOf ==
    ASSUME NEW T \in SUBSET Nat, T # {}
    PROVE  \E m \in T : \A x \in T : m <= x
<1>1. PICK m \in T : \A x \in T : <<x, m>> \notin OpToRel(<, Nat)
  BY WFMin, NatLessThanWellFounded
<1>2. \A x \in T : ~(x < m)
  BY <1>1 DEF OpToRel
<1>3. \A x \in T : m <= x
  BY <1>2
<1> QED BY <1>3

(* An address combined with a mask is an address.                          *)
LEMMA CombineMaskType ==
    ASSUME NEW a \in Nat, NEW mask \in Nat \ {0}
    PROVE  CombineMask(a, mask) \in Nat
BY DEF CombineMask

(* A concatenation lists what its parts list.                              *)
LEMMA ConcatLists ==
    ASSUME NEW S, NEW p \in Seq(S), NEW q \in Seq(S)
    PROVE  Listed(p \o q) = Listed(p) \cup Listed(q)
<1>1. Len(p \o q) = Len(p) + Len(q) /\ Len(p) \in Nat /\ Len(q) \in Nat
  BY ConcatProperties
<1>2. \A k \in 1 .. Len(p) + Len(q) : (p \o q)[k] = IF k <= Len(p) THEN p[k] ELSE q[k - Len(p)]
  BY ConcatProperties
<1>3. ASSUME NEW k \in 1 .. Len(p) PROVE p[k] \in Listed(p \o q)
  <2>0. \A a, b \in Nat : \A x \in 1 .. a : x \in 1 .. a + b /\ x <= a
    OBVIOUS
  <2>1. k \in 1 .. Len(p) + Len(q) /\ k <= Len(p)
    BY <1>1, <2>0
  <2>2. (p \o q)[k] = p[k]
    BY <1>2, <2>1
  <2> QED BY <1>1, <2>1, <2>2 DEF Listed
<1>4. ASSUME NEW k \in 1 .. Len(q) PROVE q[k] \in Listed(p \o q)
  <2>1. k + Len(p) \in 1 .. Len(p) + Len(q) /\ (p \o q)[k + Len(p)] = q[k]
    BY <1>1, <1>2
  <2> QED BY <1>1, <2>1 DEF Listed
<1>5. ASSUME NEW k \in 1 .. Len(p \o q) PROVE (p \o q)[k] \in Listed(p) \cup Listed(q)
  <2>1. CASE k <= Len(p)
    BY <1>1, <1>2, <2>1 DEF Listed
  <2>2. CASE ~(k <= Len(p))
    <3>1. k - Len(p) \in 1 .. Len(q) /\ (p \o q)[k] = q[k - Len(p)]
      BY <1>1, <1>2, <2>2
    <3> QED BY <3>1 DEF Listed
  <2> QED BY <2>1, <2>2
<1> QED BY <1>3, <1>4, <1>5 DEF Listed

(* FlattenSeq, with which DiscoverLSAs is written, returns a sequence of   *)
(* the elements of its parts.                                              *)
LEMMA FlattenLists ==
    ASSUME NEW S, NEW ss \in Seq(Seq(S))
    PROVE  /\ FlattenSeq(ss) \in Seq(S)
           /\ Listed(FlattenSeq(ss)) = UNION {Listed(ss[q]) : q \in 1 .. Len(ss)}
<1> DEFINE N == Len(ss)
           Is(f, n) == f = [r \in 1 .. n |-> IF r = 1 THEN ss[r] ELSE f[r - 1] \o ss[r]]
<1>0. N \in Nat /\ \A r \in 1 .. N : ss[r] \in Seq(S)
  OBVIOUS
<1>1. CASE N = 0
  <2>1. ss = << >>
    BY <1>1
  <2>2. FlattenSeq(ss) = << >>
    BY <1>1, <2>1 DEF FlattenSeq
  <2> QED BY <1>1, <2>2 DEF Listed
<1>2. CASE N # 0
  <2> HIDE DEF N
  <2>1. \E f : Is(f, N)
    <3> DEFINE A == {n \in Nat : n <= N /\ ~\E f : Is(f, n)}
    <3> HIDE DEF Is
    <3>1. SUFFICES ASSUME A # {} PROVE FALSE
      <4>1. N \in Nat /\ N <= N
        BY <1>0
      <4> QED BY <4>1
    <3>2. PICK m \in A : \A x \in A : m <= x
      BY <3>1, SmallestOf
    <3>3. m # 0
      <4>1. Is(<< >>, 0)
        BY DEF Is
      <4> QED BY <3>2, <4>1
    <3>4. m - 1 \in Nat /\ m - 1 <= N /\ m - 1 \notin A
      BY <3>2, <3>3, <1>0
    <3>5. PICK f : Is(f, m - 1)
      BY <3>4
    <3> DEFINE g == [r \in 1 .. m |-> IF r = m THEN (IF m = 1 THEN ss[m] ELSE f[m - 1] \o ss[m]) ELSE f[r]]
    <3>6. ASSUME NEW r \in 1 .. m
          PROVE  g[r] = IF r = 1 THEN ss[r] ELSE g[r - 1] \o ss[r]
      <4>1. CASE r = m
        BY <3>2, <3>3, <4>1
      <4>2. CASE r # m
        <5>0. r \in 1 .. m - 1
          BY <3>2, <4>2
        <5>1. f[r] = IF r = 1 THEN ss[r] ELSE f[r - 1] \o ss[r]
          BY <3>5, <5>0 DEF Is
        <5>2. r # 1 => g[r - 1] = f[r - 1]
          BY <3>2, <4>2
        <5> QED BY <4>2, <5>1, <5>2
      <4> QED BY <4>1, <4>2
    <3>7. Is(g, m)
      <4> DEFINE h == [r \in 1 .. m |-> IF r = 1 THEN ss[r] ELSE g[r - 1] \o ss[r]]
      <4>1. \A r \in 1 .. m : g[r] = h[r]
        BY <3>6
      <4> QED BY <4>1 DEF Is
    <3> QED BY <3>2, <3>7
  <2> DEFINE fl[r \in 1 .. Len(ss)] == IF r = 1 THEN ss[r] ELSE fl[r - 1] \o ss[r]
  <2>2. FlattenSeq(ss) = fl[Len(ss)]
    BY <1>2 DEF FlattenSeq, N
  <2>3. Is(fl, N)
    BY <2>1 DEF N
  <2> HIDE DEF fl
  <2>4. ASSUME NEW r \in 1 .. N PROVE fl[r] = IF r = 1 THEN ss[r] ELSE fl[r - 1] \o ss[r]
    BY <2>3
  <2>5. \A r \in 1 .. N : fl[r] \in Seq(S)
    <3> DEFINE A == {n \in 1 .. N : fl[n] \notin Seq(S)}
    <3>1. SUFFICES ASSUME A # {} PROVE FALSE
      OBVIOUS
    <3>2. PICK m \in A : \A x \in A : m <= x
      <4>1. A \in SUBSET Nat
        BY <1>0
      <4> HIDE DEF A
      <4> QED BY <3>1, <4>1, SmallestOf
    <3>3. CASE m = 1
      BY <1>0, <2>4, <3>2, <3>3
    <3>4. CASE m # 1
      <4>1. m \in 1 .. N /\ m - 1 \in 1 .. N /\ m - 1 \notin A
        BY <1>0, <3>2, <3>4
      <4>2. fl[m] = fl[m - 1] \o ss[m]
        BY <2>4, <3>4, <4>1
      <4>3. fl[m - 1] \in Seq(S) /\ ss[m] \in Seq(S)
        BY <1>0, <4>1
      <4>4. fl[m - 1] \o ss[m] \in Seq(S)
        BY <4>3, ConcatProperties
      <4> QED BY <3>2, <4>2, <4>4
    <3> QED BY <3>3, <3>4
  <2>6. \A r \in 1 .. N : Listed(fl[r]) = UNION {Listed(ss[q]) : q \in 1 .. r}
    <3> DEFINE A == {n \in 1 .. N : Listed(fl[n]) # UNION {Listed(ss[q]) : q \in 1 .. n}}
    <3>1. SUFFICES ASSUME A # {} PROVE FALSE
      OBVIOUS
    <3>2. PICK m \in A : \A x \in A : m <= x
      <4>1. A \in SUBSET Nat
        BY <1>0
      <4> HIDE DEF A
      <4> QED BY <3>1, <4>1, SmallestOf
    <3>3. CASE m = 1
      <4>1. fl[m] = ss[1]
        BY <1>0, <2>4, <3>2, <3>3
      <4>2. 1 .. m = {1}
        BY <3>3
      <4>3. Listed(fl[m]) = UNION {Listed(ss[q]) : q \in 1 .. m}
        <5>1. UNION {Listed(ss[q]) : q \in 1 .. m} = Listed(ss[1])
          <6>1. \A x : x \in UNION {Listed(ss[q]) : q \in 1 .. m} <=> \E q \in {1} : x \in Listed(ss[q])
            BY <4>2
          <6> QED BY <6>1
        <5> QED BY <4>1, <5>1
      <4> QED BY <3>2, <4>3
    <3>4. CASE m # 1
      <4>1. m \in 1 .. N /\ m - 1 \in 1 .. N /\ m - 1 \notin A
        <5>1. m \in 1 .. N
          OBVIOUS
        <5> HIDE DEF A
        <5> QED BY <1>0, <3>2, <3>4, <5>1
      <4>2. fl[m] = fl[m - 1] \o ss[m]
        BY <2>4, <3>4, <4>1
      <4>3. fl[m - 1] \in Seq(S) /\ ss[m] \in Seq(S)
        BY <1>0, <2>5, <4>1
      <4>4. Listed(fl[m]) = Listed(fl[m - 1]) \cup Listed(ss[m])
        BY <4>2, <4>3, ConcatLists
      <4>5. 1 .. m = (1 .. m - 1) \cup {m}
        BY <1>0, <4>1
      <4>6. Listed(fl[m - 1]) = UNION {Listed(ss[q]) : q \in 1 .. m - 1}
        BY <4>1
      <4>7. Listed(fl[m]) = UNION {Listed(ss[q]) : q \in 1 .. m}
        <5>1. \A x : x \in UNION {Listed(ss[q]) : q \in 1 .. m} <=> \E q \in 1 .. m : x \in Listed(ss[q])
          OBVIOUS
        <5>2. \A x : x \in Listed(fl[m - 1]) <=> \E q \in 1 .. m - 1 : x \in Listed(ss[q])
          BY <4>6
        <5>3. \A x : x \in UNION {Listed(ss[q]) : q \in 1 .. m} <=> x \in Listed(fl[m])
          BY <4>4, <4>5, <5>1, <5>2
        <5> QED BY <5>3
      <4> QED BY <3>2, <4>7
    <3> QED BY <3>3, <3>4
  <2>7. N \in 1 .. N
    BY <1>0, <1>2
  <2>8. FlattenSeq(ss) \in Seq(S) /\ Listed(FlattenSeq(ss)) = UNION {Listed(ss[q]) : q \in 1 .. N}
    BY <2>2, <2>5, <2>6, <2>7 DEF N
  <2> QED BY <2>8 DEF N
<1> QED BY <1>1, <1>2

-----------------------------------------------------------------------------
(***************************************************************************)
(* Facts about a topology t: its devices, router ids and the walk over the *)
(* devices of a channel.                                                   *)
(***************************************************************************)
(* A device is a pair of a node and an interface index, and what the       *)
(* interface holds has its type.                                           *)
LEMMA DeviceFacts ==
    ASSUME NEW t, WellFormedTopology(t), NEW d \in Devices(t)
    PROVE  /\ d = <<d[1], d[2]>>
           /\ d[1] \in t.nodes /\ d[1] \in Nat
           /\ d[2] \in DOMAIN t.ifs[d[1]] /\ d[2] \in Nat \ {0}
           /\ Interface(t, d).ch \in DOMAIN t.kind
           /\ t.kind[Interface(t, d).ch] \in {"p2p", "lan"}
           /\ Interface(t, d).addr \in Nat /\ Interface(t, d).addr < BroadcastAddress
           /\ Interface(t, d).metric \in Nat
           /\ Interface(t, d).up \in BOOLEAN /\ Interface(t, d).fwd \in BOOLEAN
<1>1. PICK n \in t.nodes : d \in {n} \X DOMAIN t.ifs[n]
  BY DEF Devices
<1>2. d = <<d[1], d[2]>> /\ d[1] = n /\ d[2] \in DOMAIN t.ifs[n]
  BY <1>1
<1>3. t.ifs[n] \in Seq(InterfaceType(t))
  BY DEF WellFormedTopology
<1>4. d[2] \in Nat \ {0} /\ t.ifs[n][d[2]] \in InterfaceType(t)
  BY <1>2, <1>3
<1>5. Interface(t, d) \in InterfaceType(t)
  BY <1>2, <1>4 DEF Interface
<1>6. /\ Interface(t, d).ch \in DOMAIN t.kind
      /\ Interface(t, d).addr \in Cardinality(t.routers) .. BroadcastAddress - 1
      /\ Interface(t, d).metric \in Nat
      /\ Interface(t, d).up \in BOOLEAN /\ Interface(t, d).fwd \in BOOLEAN
  BY <1>5 DEF InterfaceType
<1>7. Cardinality(t.routers) \in Nat
  BY FS_Subset, FS_CardinalityType DEF WellFormedTopology
<1>8. Interface(t, d).addr \in Nat /\ Interface(t, d).addr < BroadcastAddress
  BY <1>6, <1>7 DEF BroadcastAddress
<1>9. t.kind[Interface(t, d).ch] \in {"p2p", "lan"} /\ n \in Nat
  BY <1>6 DEF WellFormedTopology
<1> QED BY <1>2, <1>4, <1>6, <1>8, <1>9

(* Every interface of a node is a device.                                  *)
LEMMA DeviceOf ==
    ASSUME NEW t, NEW n \in t.nodes, NEW j \in DOMAIN t.ifs[n]
    PROVE  <<n, j>> \in Devices(t)
BY DEF Devices

(* AllocateRouterId gives every router an id of its own, and no interface  *)
(* has a router id for its address.                                        *)
LEMMA RouterIdFacts ==
    ASSUME NEW t, WellFormedTopology(t)
    PROVE  /\ \A n \in t.routers : RouterId(t, n) \in Nat
           /\ \A m, n \in t.routers : RouterId(t, m) = RouterId(t, n) => m = n
           /\ \A n \in t.routers : \A d \in Devices(t) : RouterId(t, n) < Interface(t, d).addr
           /\ IsFiniteSet(t.routers) /\ Cardinality(t.routers) \in Nat
           /\ \A n \in t.routers : RouterId(t, n) < Cardinality(t.routers)
<1>1. IsFiniteSet(t.routers) /\ t.routers \subseteq Nat /\ Cardinality(t.routers) \in Nat
  BY FS_Subset, FS_CardinalityType DEF WellFormedTopology
<1> DEFINE Below(n) == {m \in t.routers : m < n}
<1>2. ASSUME NEW n \in t.routers
      PROVE  /\ RouterId(t, n) = Cardinality(Below(n)) /\ IsFiniteSet(Below(n))
             /\ Cardinality(Below(n)) \in Nat /\ Cardinality(Below(n)) < Cardinality(t.routers)
  <2>1. Below(n) \in SUBSET t.routers /\ n \notin Below(n)
    BY <1>1
  <2>2. IsFiniteSet(Below(n)) /\ Cardinality(Below(n)) <= Cardinality(t.routers)
        /\ Cardinality(Below(n)) # Cardinality(t.routers) 
    BY <1>1, <2>1, FS_Subset
  <2>3. Cardinality(Below(n)) \in Nat
    BY <2>2, FS_CardinalityType
  <2>4. RouterId(t, n) = Cardinality(Below(n))
    BY DEF RouterId
  <2> HIDE DEF Below
  <2> QED BY <1>1, <2>2, <2>3, <2>4
<1>3. ASSUME NEW m \in t.routers, NEW n \in t.routers, m < n
      PROVE  RouterId(t, m) # RouterId(t, n)
  <2>1. Below(m) \in SUBSET Below(n) /\ m \in Below(n) /\ m \notin Below(m)
    BY <1>1, <1>3
  <2>2. Cardinality(Below(m)) # Cardinality(Below(n))
    BY <1>2, <2>1, FS_Subset
  <2> QED BY <1>2, <2>2
<1>4. ASSUME NEW d \in Devices(t)
      PROVE  /\ Cardinality(t.routers) <= Interface(t, d).addr
             /\ Interface(t, d).addr < BroadcastAddress /\ Interface(t, d).addr \in Nat
  <2>1. t.ifs[d[1]] \in Seq(InterfaceType(t)) /\ d[2] \in DOMAIN t.ifs[d[1]]
    BY DeviceFacts DEF WellFormedTopology
  <2>2. Interface(t, d) \in InterfaceType(t)
    BY <2>1 DEF Interface
  <2>3. Interface(t, d).addr \in Cardinality(t.routers) .. BroadcastAddress - 1
    BY <2>2 DEF InterfaceType
  <2> QED BY <1>1, <2>3, DeviceFacts
<1> HIDE DEF Below
<1>5. \A m, n \in t.routers : RouterId(t, m) = RouterId(t, n) => m = n
  <2> SUFFICES ASSUME NEW m \in t.routers, NEW n \in t.routers, RouterId(t, m) = RouterId(t, n)
               PROVE  m = n
    OBVIOUS
  <2>1. m \in Nat /\ n \in Nat /\ ~(m < n) /\ ~(n < m)
    BY <1>1, <1>3
  <2> QED BY <2>1
<1>6. \A n \in t.routers : RouterId(t, n) \in Nat /\ RouterId(t, n) < Cardinality(t.routers)
  BY <1>2
<1>7. \A n \in t.routers : \A d \in Devices(t) : RouterId(t, n) < Interface(t, d).addr
  BY <1>1, <1>4, <1>6
<1> QED BY <1>1, <1>5, <1>6, <1>7

(* There are finitely many devices: each has an address of its own.        *)
LEMMA DevicesFinite ==
    ASSUME NEW t, WellFormedTopology(t)
    PROVE  IsFiniteSet(Devices(t))
<1> DEFINE f == [d \in Devices(t) |-> Interface(t, d).addr]
           T == 0 .. BroadcastAddress
<1>0. BroadcastAddress \in Nat
  BY DEF BroadcastAddress
<1>1. f \in [Devices(t) -> T]
  <2>1. \A d \in Devices(t) : Interface(t, d).addr \in T
    BY <1>0, DeviceFacts
  <2> QED BY <2>1
<1>2. \A d, e \in Devices(t) : f[d] = f[e] => d = e
  BY DEF WellFormedTopology
<1>3. f \in Injection(Devices(t), T)
  BY <1>1, <1>2 DEF Injection, IsInjective
<1>4. IsFiniteSet(T)
  BY <1>0, FS_Interval
<1> HIDE DEF f, T
<1> QED BY <1>3, <1>4, FS_Injection

(* DeviceOrder is a strict total order of the devices.                     *)
LEMMA DeviceOrderIsTotal ==
    ASSUME NEW t, WellFormedTopology(t),
           NEW d \in Devices(t), NEW e \in Devices(t), NEW f \in Devices(t)
    PROVE  /\ ~DeviceOrder(d, d)
           /\ d # e => DeviceOrder(d, e) \/ DeviceOrder(e, d)
           /\ DeviceOrder(d, e) /\ DeviceOrder(e, f) => DeviceOrder(d, f)
<1>1. /\ d[1] \in Nat /\ d[2] \in Nat /\ d = <<d[1], d[2]>>
      /\ e[1] \in Nat /\ e[2] \in Nat /\ e = <<e[1], e[2]>>
      /\ f[1] \in Nat /\ f[2] \in Nat
  BY DeviceFacts
<1>2. d # e => d[1] # e[1] \/ d[2] # e[2]
  BY <1>1
<1> QED BY <1>1, <1>2 DEF DeviceOrder

(* InOrder, the walk over the devices of a channel, visits each of them.   *)
LEMMA InOrderLists ==
    ASSUME NEW t, WellFormedTopology(t), NEW S \in SUBSET Devices(t)
    PROVE  InOrder(S) \in Seq(S) /\ Listed(InOrder(S)) = S
<1> DEFINE Before(d) == {e \in S : DeviceOrder(e, d)}
           f == [d \in S |-> Cardinality(Before(d)) + 1]
           N == Cardinality(S)
<1>1. IsFiniteSet(S) /\ N \in Nat
  BY DevicesFinite, FS_Subset, FS_CardinalityType
<1>2. ASSUME NEW d \in S
      PROVE  IsFiniteSet(Before(d)) /\ Cardinality(Before(d)) \in Nat /\ Cardinality(Before(d)) < N
  <2>1. Before(d) \in SUBSET S /\ d \notin Before(d)
    BY DeviceOrderIsTotal
  <2>2. /\ IsFiniteSet(Before(d)) /\ Cardinality(Before(d)) <= N
        /\ Cardinality(Before(d)) # N
    BY <1>1, <2>1, FS_Subset
  <2>3. Cardinality(Before(d)) \in Nat
    BY <2>2, FS_CardinalityType
  <2> HIDE DEF Before, N
  <2> QED BY <1>1, <2>2, <2>3
<1>3. ASSUME NEW d \in S, NEW e \in S, DeviceOrder(d, e)
      PROVE  Cardinality(Before(d)) # Cardinality(Before(e))
  <2>1. Before(d) \in SUBSET Before(e) /\ d \in Before(e) /\ d \notin Before(d)
    BY <1>3, DeviceOrderIsTotal
  <2> QED BY <1>2, <2>1, FS_Subset
<1>4. \A d, e \in S : f[d] = f[e] => d = e
  <2> SUFFICES ASSUME NEW d \in S, NEW e \in S, f[d] = f[e], d # e PROVE FALSE
    OBVIOUS
  <2>1. DeviceOrder(d, e) \/ DeviceOrder(e, d)
    BY DeviceOrderIsTotal
  <2>2. Cardinality(Before(d)) = Cardinality(Before(e))
    <3>1. Cardinality(Before(d)) \in Nat /\ Cardinality(Before(e)) \in Nat
      BY <1>2
    <3>2. Cardinality(Before(d)) + 1 = Cardinality(Before(e)) + 1
      OBVIOUS
    <3> HIDE DEF Before
    <3> QED BY <3>1, <3>2
  <2> QED BY <1>3, <2>1, <2>2
<1>5. f \in Injection(S, 1 .. N)
  <2>1. \A d \in S : Cardinality(Before(d)) + 1 \in 1 .. N
    <3> HIDE DEF Before, N
    <3> QED BY <1>1, <1>2
  <2>2. f \in [S -> 1 .. N]
    BY <2>1
  <2> QED BY <1>4, <2>2 DEF Injection, IsInjective
<1>6. IsFiniteSet(1 .. N) /\ Cardinality(1 .. N) = N
  <2>1. IsFiniteSet(1 .. N) /\ Cardinality(1 .. N) = IF 1 > N THEN 0 ELSE N - 1 + 1
    BY <1>1, FS_Interval
  <2> HIDE DEF N
  <2> QED BY <1>1, <2>1
<1>7. f \in Surjection(S, 1 .. N)
  BY <1>5, <1>6, FS_Injection
<1>8. ASSUME NEW k \in 1 .. N
      PROVE  \E d \in S : Cardinality(Before(d)) = k - 1
  <2>1. PICK d \in S : f[d] = k
    BY <1>7 DEF Surjection
  <2>2. Cardinality(Before(d)) \in Nat /\ Cardinality(Before(d)) + 1 = k
    BY <1>2, <2>1
  <2>3. Cardinality(Before(d)) = k - 1
    <3> HIDE DEF Before
    <3> QED BY <2>2
  <2> QED BY <2>3
<1> DEFINE At(k) == CHOOSE d \in S : Cardinality(Before(d)) = k - 1
<1>9. InOrder(S) = [k \in 1 .. N |-> At(k)]
  BY DEF InOrder
<1>10. ASSUME NEW k \in 1 .. N PROVE At(k) \in S /\ Cardinality(Before(At(k))) = k - 1
  BY <1>8
<1>11. ASSUME NEW d \in S
       PROVE  \E k \in 1 .. N : At(k) = d
  <2>1. PICK k \in 1 .. N : k = Cardinality(Before(d)) + 1
    BY <1>5 DEF Injection
  <2>2. At(k) \in S /\ Cardinality(Before(At(k))) = k - 1
    BY <1>10
  <2>3. Cardinality(Before(At(k))) = Cardinality(Before(d))
    <3>1. Cardinality(Before(d)) \in Nat
      BY <1>2
    <3> HIDE DEF Before, At
    <3> QED BY <2>1, <2>2, <3>1
  <2> HIDE DEF At
  <2>4. f[At(k)] = f[d]
    BY <2>2, <2>3
  <2> QED BY <1>4, <2>2, <2>4
<1> HIDE DEF At, f, Before, N
<1>12. InOrder(S) \in Seq(S) /\ Len(InOrder(S)) = N
  BY <1>1, <1>9, <1>10
<1>13. \A k \in 1 .. N : InOrder(S)[k] = At(k)
  BY <1>9
<1> QED BY <1>10, <1>11, <1>12, <1>13 DEF Listed

(* A point-to-point channel has two ends, and GetAdjacent leads from each  *)
(* to the other.                                                           *)
LEMMA AdjacentFacts ==
    ASSUME NEW t, WellFormedTopology(t), NEW d \in Devices(t),
           t.kind[Interface(t, d).ch] = "p2p"
    PROVE  LET e == GetAdjacent(t, d) IN
           /\ e \in Devices(t) /\ e # d /\ Interface(t, e).ch = Interface(t, d).ch
           /\ GetAdjacent(t, e) = d
<1> DEFINE C == OnChannel(t, Interface(t, d).ch)
<1>1. PICK e \in Devices(t) : e # d /\ C = {d, e}
  BY DEF WellFormedTopology
<1>2. Interface(t, e).ch = Interface(t, d).ch
  BY <1>1 DEF OnChannel
<1>3. GetAdjacent(t, d) = e
  BY <1>1 DEF GetAdjacent
<1>4. GetAdjacent(t, e) = d
  BY <1>1, <1>2 DEF GetAdjacent
<1> QED BY <1>1, <1>2, <1>3, <1>4

(* FindDesignatedRouterForLink returns the lowest address of a router that *)
(* is up, the broadcast address if there is none.                          *)
LEMMA DesignatedFacts ==
    ASSUME NEW t, WellFormedTopology(t), NEW d \in Devices(t)
    PROVE  LET r == FindDesignatedRouterForLink(t, d)
               U == {e \in OnChannel(t, Interface(t, d).ch) : UpRouterDevice(t, e)}
           IN  /\ r \in Nat
               /\ U = {} => r = BroadcastAddress
               /\ U # {} => \E e \in U : r = Interface(t, e).addr
               /\ \A e \in U : r <= Interface(t, e).addr
<1> DEFINE U == {e \in OnChannel(t, Interface(t, d).ch) : UpRouterDevice(t, e)}
           A == {BroadcastAddress} \cup {Interface(t, e).addr : e \in U}
           r == FindDesignatedRouterForLink(t, d)
<1>1. U \subseteq Devices(t)
  BY DEF OnChannel
<1>2. \A e \in U : Interface(t, e).addr \in Nat /\ Interface(t, e).addr < BroadcastAddress
  BY <1>1, DeviceFacts
<1>3. r = Min(A)
  BY DEF FindDesignatedRouterForLink
<1> HIDE DEF U, r
<1>4. A \in SUBSET Nat /\ A # {}
  BY <1>2 DEF BroadcastAddress
<1>5. \E m \in A : \A x \in A : m <= x
  BY <1>4, SmallestOf
<1>6. r \in A /\ \A x \in A : r <= x
  BY <1>3, <1>5 DEF Min
<1>7. r \in Nat /\ \A e \in U : r <= Interface(t, e).addr
  BY <1>4, <1>6
<1>8. U = {} => r = BroadcastAddress
  BY <1>6
<1>9. U # {} => r # BroadcastAddress
  BY <1>2, <1>7 DEF BroadcastAddress
<1>10. U # {} => \E e \in U : r = Interface(t, e).addr
  BY <1>6, <1>9
<1> QED BY <1>7, <1>8, <1>10 DEF U, r
-----------------------------------------------------------------------------
(***************************************************************************)
(* What DiscoverLSAs puts into the advertisements, whatever the topology.  *)
(***************************************************************************)
(* The transit record of a router's interface on a LAN with other routers. *)
TransitRecord(t, d) ==
    LinkRecord("TransitNetwork", FindDesignatedRouterForLink(t, d),
               Interface(t, d).addr, Interface(t, d).metric)

(* The record for the router at the other end of a point-to-point link.    *)
RouterRecord(t, d) ==
    LinkRecord("PointToPoint", RouterId(t, GetAdjacent(t, d)[1]),
               Interface(t, d).addr, Interface(t, d).metric)

(* The interface has such a record.                                        *)
OnTransit(t, d) ==
    Advertised(t, d) /\ t.kind[Interface(t, d).ch] = "lan" /\ AnotherRouterOnLink(t, d)

LinksRouters(t, d) ==
    /\ Advertised(t, d) /\ t.kind[Interface(t, d).ch] = "p2p"
    /\ GetAdjacent(t, d)[1] \in t.routers /\ Interface(t, GetAdjacent(t, d)).up

(* An interface gives typed records: a transit record, a record for the    *)
(* router across the link, and otherwise stub records.                     *)
LEMMA LinkRecordsFacts ==
    ASSUME NEW t, WellFormedTopology(t), NEW d \in Devices(t)
    PROVE  /\ LinkRecords(t, d) \in Seq(LinkRecordType)
           /\ OnTransit(t, d) => TransitRecord(t, d) \in Listed(LinkRecords(t, d))
           /\ LinksRouters(t, d) => RouterRecord(t, d) \in Listed(LinkRecords(t, d))
           /\ \A l \in Listed(LinkRecords(t, d)) :
                 \/ l.type = "StubNetwork" /\ l.linkData = SubnetMask
                 \/ OnTransit(t, d) /\ l = TransitRecord(t, d)
                 \/ LinksRouters(t, d) /\ l = RouterRecord(t, d)
<1>0. \A x : Listed(<< x >>) = {x}
  BY DEF Listed
<1>1. Listed(<< >>) = {} /\ << >> \in Seq(LinkRecordType)
  BY DEF Listed
<1>2. /\ Interface(t, d).addr \in Nat /\ Interface(t, d).metric \in Nat
      /\ t.kind[Interface(t, d).ch] \in {"p2p", "lan"}
  BY DeviceFacts
<1>3. CASE ~Advertised(t, d)
  BY <1>1, <1>3 DEF LinkRecords, OnTransit, LinksRouters
<1>4. CASE Advertised(t, d) /\ t.kind[Interface(t, d).ch] = "lan"
  <2>1. CASE AnotherRouterOnLink(t, d)
    <3>1. LinkRecords(t, d) = << TransitRecord(t, d) >>
      BY <1>4, <2>1 DEF LinkRecords, ProcessSingleBroadcastLink, TransitRecord
    <3>2. FindDesignatedRouterForLink(t, d) \in Nat
      BY DesignatedFacts
    <3>3. TransitRecord(t, d) \in LinkRecordType
      BY <1>2, <3>2 DEF TransitRecord, LinkRecord, LinkRecordType
    <3>4. OnTransit(t, d) /\ ~LinksRouters(t, d)
      BY <1>4, <2>1 DEF OnTransit, LinksRouters
    <3> QED BY <1>0, <3>1, <3>3, <3>4
  <2>2. CASE ~AnotherRouterOnLink(t, d)
    <3> DEFINE l == LinkRecord("StubNetwork", CombineMask(Interface(t, d).addr, SubnetMask),
                               SubnetMask, Interface(t, d).metric)
    <3>1. LinkRecords(t, d) = << l >>
      BY <1>4, <2>2 DEF LinkRecords, ProcessSingleBroadcastLink
    <3>2. CombineMask(Interface(t, d).addr, SubnetMask) \in Nat
      BY <1>2, CombineMaskType DEF SubnetMask
    <3>3. l \in LinkRecordType /\ l.type = "StubNetwork" /\ l.linkData = SubnetMask
      BY <1>2, <3>2 DEF LinkRecord, LinkRecordType, SubnetMask
    <3>4. ~OnTransit(t, d) /\ ~LinksRouters(t, d)
      BY <1>4, <2>2 DEF OnTransit, LinksRouters
    <3> HIDE DEF l
    <3> QED BY <1>0, <3>1, <3>3, <3>4
  <2> QED BY <2>1, <2>2
<1>5. CASE Advertised(t, d) /\ t.kind[Interface(t, d).ch] = "p2p"
  <2> DEFINE e == GetAdjacent(t, d)
             l == LinkRecord("StubNetwork", Interface(t, e).addr, SubnetMask, Interface(t, d).metric)
  <2>1. LinkRecords(t, d) = IF e[1] \notin t.routers THEN << >>
                            ELSE IF Interface(t, e).up THEN << RouterRecord(t, d), l >> ELSE << l >>
    BY <1>5 DEF LinkRecords, ProcessPointToPointLink, RouterRecord
  <2>2. e \in Devices(t)
    BY <1>5, AdjacentFacts
  <2>3. Interface(t, e).addr \in Nat
    BY <2>2, DeviceFacts
  <2>4. l \in LinkRecordType /\ l.type = "StubNetwork" /\ l.linkData = SubnetMask
    BY <1>2, <2>3 DEF LinkRecord, LinkRecordType, SubnetMask
  <2>5. ~OnTransit(t, d)
    BY <1>5 DEF OnTransit
  <2>6. LinksRouters(t, d) <=> e[1] \in t.routers /\ Interface(t, e).up
    BY <1>5 DEF LinksRouters
  <2> HIDE DEF l
  <2>7. CASE e[1] \notin t.routers
    <3>1. LinkRecords(t, d) = << >>
      BY <2>1, <2>7
    <3> QED BY <1>1, <2>5, <2>6, <2>7, <3>1
  <2>8. CASE e[1] \in t.routers /\ ~Interface(t, e).up
    <3>1. LinkRecords(t, d) = << l >>
      BY <2>1, <2>8
    <3> QED BY <1>0, <2>4, <2>5, <2>6, <2>8, <3>1
  <2>9. CASE e[1] \in t.routers /\ Interface(t, e).up
    <3>1. LinkRecords(t, d) = << RouterRecord(t, d), l >>
      BY <2>1, <2>9
    <3>2. RouterId(t, e[1]) \in Nat
      BY <2>9, RouterIdFacts
    <3>3. RouterRecord(t, d) \in LinkRecordType
      BY <1>2, <3>2 DEF RouterRecord, LinkRecord, LinkRecordType
    <3>4. \A x, y : Listed(<< x, y >>) = {x, y}
      BY DEF Listed
    <3> QED BY <2>4, <2>5, <2>6, <2>9, <3>1, <3>3, <3>4
  <2> QED BY <2>7, <2>8, <2>9
<1> QED BY <1>2, <1>3, <1>4, <1>5

(* The records of a Router-LSA are those of the router's interfaces.       *)
LEMMA RouterLSAFacts ==
    ASSUME NEW t, WellFormedTopology(t), NEW n \in t.routers
    PROVE  /\ RouterLSA(t, n) \in LSAType
           /\ RouterLSA(t, n).type = "RouterLSA" /\ RouterLSA(t, n).id = RouterId(t, n)
           /\ \A j \in DOMAIN t.ifs[n] : <<n, j>> \in Devices(t)
           /\ Listed(RouterLSA(t, n).links)
                 = UNION {Listed(LinkRecords(t, <<n, j>>)) : j \in DOMAIN t.ifs[n]}
<1> DEFINE ss == [j \in DOMAIN t.ifs[n] |-> LinkRecords(t, <<n, j>>)]
<1>1. n \in t.nodes /\ n \in Nat /\ t.ifs[n] \in Seq(InterfaceType(t))
  BY DEF WellFormedTopology
<1>2. \A j \in DOMAIN t.ifs[n] : <<n, j>> \in Devices(t)
  BY <1>1, DeviceOf
<1>3. \A j \in DOMAIN t.ifs[n] : ss[j] \in Seq(LinkRecordType)
  BY <1>2, LinkRecordsFacts
<1>4. DOMAIN t.ifs[n] = 1 .. Len(t.ifs[n]) /\ Len(t.ifs[n]) \in Nat
  BY <1>1
<1>5. ss \in Seq(Seq(LinkRecordType)) /\ Len(ss) = Len(t.ifs[n])
  <2>1. ss = [j \in 1 .. Len(t.ifs[n]) |-> LinkRecords(t, <<n, j>>)]
    BY <1>4
  <2>2. \A j \in 1 .. Len(t.ifs[n]) : LinkRecords(t, <<n, j>>) \in Seq(LinkRecordType)
    BY <1>3, <1>4
  <2> HIDE DEF ss
  <2> QED BY <1>4, <2>1, <2>2
<1>6. /\ FlattenSeq(ss) \in Seq(LinkRecordType)
      /\ Listed(FlattenSeq(ss)) = UNION {Listed(ss[q]) : q \in 1 .. Len(ss)}
  BY <1>5, FlattenLists
<1>7. UNION {Listed(ss[q]) : q \in 1 .. Len(ss)}
        = UNION {Listed(LinkRecords(t, <<n, j>>)) : j \in DOMAIN t.ifs[n]}
  <2>1. \A j \in DOMAIN t.ifs[n] : ss[j] = LinkRecords(t, <<n, j>>)
    OBVIOUS
  <2> HIDE DEF ss
  <2> QED BY <1>4, <1>5, <2>1
<1>8. RouterId(t, n) \in Nat
  BY RouterIdFacts
<1>9. RouterLSA(t, n) = [type |-> "RouterLSA", id |-> RouterId(t, n), node |-> n,
                         attached |-> << >>, links |-> FlattenSeq(ss)]
  BY DEF RouterLSA
<1> HIDE DEF ss
<1>10. RouterLSA(t, n) \in LSAType
  <2>1. << >> \in Seq(Nat)
    OBVIOUS
  <2> QED BY <1>1, <1>6, <1>8, <1>9, <2>1 DEF LSAType
<1>11. /\ RouterLSA(t, n).type = "RouterLSA" /\ RouterLSA(t, n).id = RouterId(t, n)
       /\ RouterLSA(t, n).links = FlattenSeq(ss)
  BY <1>9
<1> QED BY <1>2, <1>6, <1>7, <1>10, <1>11

(* What a Router-LSA says apart from stub networks, by devices.            *)
LEMMA RouterRecords ==
    ASSUME NEW t, WellFormedTopology(t), NEW n \in t.routers
    PROVE  /\ \A l \in Listed(RouterLSA(t, n).links) :
                 \/ l.type = "StubNetwork" /\ l.linkData = SubnetMask
                 \/ \E d \in Devices(t) : /\ d[1] = n
                                          /\ \/ OnTransit(t, d) /\ l = TransitRecord(t, d)
                                             \/ LinksRouters(t, d) /\ l = RouterRecord(t, d)
           /\ \A d \in Devices(t) : d[1] = n =>
                 /\ OnTransit(t, d) => TransitRecord(t, d) \in Listed(RouterLSA(t, n).links)
                 /\ LinksRouters(t, d) => RouterRecord(t, d) \in Listed(RouterLSA(t, n).links)
<1>1. \A j \in DOMAIN t.ifs[n] : <<n, j>> \in Devices(t)
  BY RouterLSAFacts
<1>2. \A l : l \in Listed(RouterLSA(t, n).links)
               <=> \E j \in DOMAIN t.ifs[n] : l \in Listed(LinkRecords(t, <<n, j>>))
  <2>1. Listed(RouterLSA(t, n).links)
            = UNION {Listed(LinkRecords(t, <<n, j>>)) : j \in DOMAIN t.ifs[n]}
    BY RouterLSAFacts
  <2> QED BY <2>1
<1>3. ASSUME NEW l \in Listed(RouterLSA(t, n).links)
      PROVE  \/ l.type = "StubNetwork" /\ l.linkData = SubnetMask
             \/ \E d \in Devices(t) : /\ d[1] = n
                                      /\ \/ OnTransit(t, d) /\ l = TransitRecord(t, d)
                                         \/ LinksRouters(t, d) /\ l = RouterRecord(t, d)
  <2>1. PICK j \in DOMAIN t.ifs[n] : l \in Listed(LinkRecords(t, <<n, j>>))
    BY <1>2
  <2>2. PICK d \in Devices(t) : d = <<n, j>>
    BY <1>1
  <2>3. d[1] = n /\ l \in Listed(LinkRecords(t, d))
    BY <2>1, <2>2
  <2>4. \/ l.type = "StubNetwork" /\ l.linkData = SubnetMask
        \/ OnTransit(t, d) /\ l = TransitRecord(t, d)
        \/ LinksRouters(t, d) /\ l = RouterRecord(t, d)
    BY <2>3, LinkRecordsFacts
  <2> QED BY <2>3, <2>4
<1>4. ASSUME NEW d \in Devices(t), d[1] = n
      PROVE  /\ OnTransit(t, d) => TransitRecord(t, d) \in Listed(RouterLSA(t, n).links)
             /\ LinksRouters(t, d) => RouterRecord(t, d) \in Listed(RouterLSA(t, n).links)
  <2>1. d = <<n, d[2]>> /\ d[2] \in DOMAIN t.ifs[n]
    BY <1>4, DeviceFacts
  <2>2. \A l \in Listed(LinkRecords(t, d)) : l \in Listed(RouterLSA(t, n).links)
    BY <1>2, <2>1
  <2> QED BY <2>2, LinkRecordsFacts
<1> QED BY <1>3, <1>4

(* A Network-LSA lists the addresses of the routers that are up on the     *)
(* link, and of the device it is for.                                      *)
LEMMA NetworkLSAFacts ==
    ASSUME NEW t, WellFormedTopology(t), NEW d \in Devices(t)
    PROVE  /\ NetworkLSA(t, d) \in LSAType
           /\ NetworkLSA(t, d).type = "NetworkLSA" /\ NetworkLSA(t, d).id = Interface(t, d).addr
           /\ NetworkLSA(t, d).links = << >>
           /\ Listed(NetworkLSA(t, d).attached)
                 = {Interface(t, e).addr : e \in {f \in OnChannel(t, Interface(t, d).ch) :
                                                     f = d \/ UpRouterDevice(t, f)}}
<1> DEFINE S == {f \in OnChannel(t, Interface(t, d).ch) : f = d \/ UpRouterDevice(t, f)}
           s == InOrder(S)
           a == [k \in DOMAIN s |-> Interface(t, s[k]).addr]
<1>1. S \in SUBSET Devices(t)
  BY DEF OnChannel
<1>2. NetworkLSA(t, d) = [type |-> "NetworkLSA", id |-> Interface(t, d).addr, node |-> d[1],
                          links |-> << >>, attached |-> a]
  BY DEF NetworkLSA
<1> HIDE DEF S
<1>3. s \in Seq(S) /\ Listed(s) = S
  BY <1>1, InOrderLists
<1>4. DOMAIN s = 1 .. Len(s) /\ Len(s) \in Nat /\ \A k \in 1 .. Len(s) : s[k] \in S
  BY <1>3
<1>5. \A k \in 1 .. Len(s) : Interface(t, s[k]).addr \in Nat
  BY <1>1, <1>4, DeviceFacts
<1> HIDE DEF s
<1>6. a = [k \in 1 .. Len(s) |-> Interface(t, s[k]).addr]
  BY <1>4
<1>7. a \in Seq(Nat) /\ Len(a) = Len(s)
  BY <1>4, <1>5, <1>6
<1>8. Listed(a) = {Interface(t, e).addr : e \in S}
  <2>1. Listed(a) = {Interface(t, s[k]).addr : k \in 1 .. Len(s)}
    BY <1>6, <1>7 DEF Listed
  <2>2. S = {s[k] : k \in 1 .. Len(s)}
    BY <1>3 DEF Listed
  <2> QED BY <2>1, <2>2
<1>9. Interface(t, d).addr \in Nat /\ d[1] \in Nat
  BY DeviceFacts
<1> HIDE DEF a
<1>10. NetworkLSA(t, d) \in LSAType
  BY <1>2, <1>7, <1>9 DEF LSAType
<1> QED BY <1>2, <1>8, <1>10 DEF S

-----------------------------------------------------------------------------
(***************************************************************************)
(* The database that BuildGlobalRoutingDatabase makes.                     *)
(***************************************************************************)
Database(t) == BuildDatabase(t, << >>)

(* The device is the one a Network-LSA is made for.                        *)
IsDesignated(t, d) ==
    /\ d[1] \in t.routers /\ OnTransit(t, d)
    /\ FindDesignatedRouterForLink(t, d) = Interface(t, d).addr

(* Every LSA is a Router-LSA or the Network-LSA of a designated device.    *)
LEMMA DiscoveredFacts ==
    ASSUME NEW t, WellFormedTopology(t)
    PROVE  \A l : l \in DiscoveredLSAs(t) <=>
              \/ \E n \in t.routers : l = RouterLSA(t, n)
              \/ \E d \in Devices(t) : IsDesignated(t, d) /\ l = NetworkLSA(t, d)
<1>1. ASSUME NEW n \in t.routers, NEW d \in DesignatedDevices(t, n)
      PROVE  d \in Devices(t) /\ IsDesignated(t, d)
  <2>1. d \in {n} \X DOMAIN t.ifs[n] /\ n \in t.nodes
    BY DEF DesignatedDevices, WellFormedTopology
  <2>2. d \in Devices(t) /\ d[1] = n
    BY <2>1 DEF Devices
  <2> QED BY <2>2 DEF DesignatedDevices, IsDesignated, OnTransit
<1>2. ASSUME NEW d \in Devices(t), IsDesignated(t, d)
      PROVE  d[1] \in t.routers /\ d \in DesignatedDevices(t, d[1])
  <2>1. d = <<d[1], d[2]>> /\ d[2] \in DOMAIN t.ifs[d[1]]
    BY DeviceFacts
  <2>2. d \in {d[1]} \X DOMAIN t.ifs[d[1]]
    BY <2>1
  <2> QED BY <1>2, <2>2 DEF DesignatedDevices, IsDesignated, OnTransit
<1>3. \A l : l \in DiscoveredLSAs(t) <=>
              \E n \in t.routers : \/ l = RouterLSA(t, n)
                                   \/ \E d \in DesignatedDevices(t, n) : l = NetworkLSA(t, d)
  BY DEF DiscoveredLSAs, DiscoverLSAs
<1> QED BY <1>1, <1>2, <1>3

(* No two LSAs have the same id, so the std::map drops none.               *)
LEMMA DistinctIds ==
    ASSUME NEW t, WellFormedTopology(t),
           NEW k \in DiscoveredLSAs(t), NEW l \in DiscoveredLSAs(t), k.id = l.id
    PROVE  k = l
<1>1. ASSUME NEW m \in t.routers, NEW d \in Devices(t)
      PROVE  RouterLSA(t, m).id # NetworkLSA(t, d).id
  <2>1. RouterLSA(t, m).id = RouterId(t, m) /\ NetworkLSA(t, d).id = Interface(t, d).addr
    BY RouterLSAFacts, NetworkLSAFacts
  <2>2. RouterId(t, m) \in Nat /\ Interface(t, d).addr \in Nat /\ RouterId(t, m) < Interface(t, d).addr
    BY RouterIdFacts, DeviceFacts
  <2> QED BY <2>1, <2>2
<1>2. ASSUME NEW m \in t.routers, NEW n \in t.routers, RouterLSA(t, m).id = RouterLSA(t, n).id
      PROVE  m = n
  <2>1. RouterId(t, m) = RouterId(t, n)
    BY <1>2, RouterLSAFacts
  <2> QED BY <2>1, RouterIdFacts
<1>3. ASSUME NEW d \in Devices(t), NEW e \in Devices(t), NetworkLSA(t, d).id = NetworkLSA(t, e).id
      PROVE  d = e
  <2>1. Interface(t, d).addr = Interface(t, e).addr
    BY <1>3, NetworkLSAFacts
  <2> QED BY <2>1 DEF WellFormedTopology
<1>4. \/ \E n \in t.routers : k = RouterLSA(t, n)
      \/ \E d \in Devices(t) : k = NetworkLSA(t, d)
  BY DiscoveredFacts
<1>5. \/ \E n \in t.routers : l = RouterLSA(t, n)
      \/ \E d \in Devices(t) : l = NetworkLSA(t, d)
  BY DiscoveredFacts
<1> QED BY <1>1, <1>2, <1>3, <1>4, <1>5

(* The database holds every LSA that was discovered, by its id.            *)
LEMMA DatabaseFacts ==
    ASSUME NEW t, WellFormedTopology(t)
    PROVE  /\ \A id \in DOMAIN Database(t) : Database(t)[id] \in DiscoveredLSAs(t) /\ Database(t)[id].id = id
           /\ \A l \in DiscoveredLSAs(t) : l.id \in DOMAIN Database(t) /\ Database(t)[l.id] = l
<1> DEFINE D == DiscoveredLSAs(t)
<1>1. DOMAIN (<< >>) = {}
  OBVIOUS
<1>2. Database(t) = [id \in {l.id : l \in D} |-> CHOOSE l \in D : l.id = id]
  BY <1>1 DEF Database, BuildDatabase, InsertLSAs
<1> HIDE DEF D
<1>3. ASSUME NEW id \in DOMAIN Database(t) PROVE Database(t)[id] \in D /\ Database(t)[id].id = id
  <2>1. \E l \in D : l.id = id
    BY <1>2
  <2> QED BY <1>2, <2>1
<1>4. ASSUME NEW l \in D PROVE l.id \in DOMAIN Database(t) /\ Database(t)[l.id] = l
  <2>1. l.id \in DOMAIN Database(t)
    BY <1>2
  <2>2. Database(t)[l.id] \in D /\ Database(t)[l.id].id = l.id
    BY <1>3, <2>1
  <2> QED BY <2>1, <2>2, DistinctIds DEF D
<1> QED BY <1>3, <1>4 DEF D

(* The same, by routers and devices.                                       *)
LEMMA DatabaseHolds ==
    ASSUME NEW t, WellFormedTopology(t)
    PROVE  /\ \A n \in t.routers : /\ RouterId(t, n) \in DOMAIN Database(t)
                                   /\ Database(t)[RouterId(t, n)] = RouterLSA(t, n)
           /\ \A d \in Devices(t) : IsDesignated(t, d) =>
                 /\ Interface(t, d).addr \in DOMAIN Database(t)
                 /\ Database(t)[Interface(t, d).addr] = NetworkLSA(t, d)
           /\ \A id \in DOMAIN Database(t) :
                 \/ \E n \in t.routers : id = RouterId(t, n) /\ Database(t)[id] = RouterLSA(t, n)
                 \/ \E d \in Devices(t) : /\ IsDesignated(t, d) /\ id = Interface(t, d).addr
                                          /\ Database(t)[id] = NetworkLSA(t, d)
<1>1. ASSUME NEW n \in t.routers
      PROVE  RouterId(t, n) \in DOMAIN Database(t) /\ Database(t)[RouterId(t, n)] = RouterLSA(t, n)
  <2>1. RouterLSA(t, n) \in DiscoveredLSAs(t) /\ RouterLSA(t, n).id = RouterId(t, n)
    BY DiscoveredFacts, RouterLSAFacts
  <2> QED BY <2>1, DatabaseFacts
<1>2. ASSUME NEW d \in Devices(t), IsDesignated(t, d)
      PROVE  /\ Interface(t, d).addr \in DOMAIN Database(t)
             /\ Database(t)[Interface(t, d).addr] = NetworkLSA(t, d)
  <2>1. NetworkLSA(t, d) \in DiscoveredLSAs(t) /\ NetworkLSA(t, d).id = Interface(t, d).addr
    BY <1>2, DiscoveredFacts, NetworkLSAFacts
  <2> QED BY <2>1, DatabaseFacts
<1>3. ASSUME NEW id \in DOMAIN Database(t)
      PROVE  \/ \E n \in t.routers : id = RouterId(t, n) /\ Database(t)[id] = RouterLSA(t, n)
             \/ \E d \in Devices(t) : /\ IsDesignated(t, d) /\ id = Interface(t, d).addr
                                      /\ Database(t)[id] = NetworkLSA(t, d)
  <2>1. Database(t)[id] \in DiscoveredLSAs(t) /\ Database(t)[id].id = id
    BY DatabaseFacts
  <2>2. \/ \E n \in t.routers : Database(t)[id] = RouterLSA(t, n)
        \/ \E d \in Devices(t) : IsDesignated(t, d) /\ Database(t)[id] = NetworkLSA(t, d)
    BY <2>1, DiscoveredFacts
  <2> QED BY <2>1, <2>2, RouterLSAFacts, NetworkLSAFacts
<1> QED BY <1>1, <1>2, <1>3

(* The calculation may take for granted what WellFormedDatabase says.      *)
LEMMA DatabaseWellFormed ==
    ASSUME NEW t, WellFormedTopology(t)
    PROVE  WellFormedDatabase(t, BuildDatabase(t, << >>))
<1> DEFINE db == Database(t)
<1>1. ASSUME NEW id \in DOMAIN db PROVE db[id] \in LSAType /\ id \in Nat /\ id <= BroadcastAddress + Cardinality(t.routers)
  <2>0. Cardinality(t.routers) \in Nat /\ BroadcastAddress \in Nat
    BY RouterIdFacts DEF BroadcastAddress
  <2>1. CASE \E n \in t.routers : id = RouterId(t, n) /\ db[id] = RouterLSA(t, n)
    <3>1. PICK n \in t.routers : id = RouterId(t, n) /\ db[id] = RouterLSA(t, n)
      BY <2>1
    <3>2. id \in Nat /\ id < Cardinality(t.routers)
      BY <3>1, RouterIdFacts
    <3>3. db[id] \in LSAType
      BY <3>1, RouterLSAFacts
    <3> HIDE DEF db
    <3> QED BY <2>0, <3>2, <3>3
  <2>2. CASE \E d \in Devices(t) : id = Interface(t, d).addr /\ db[id] = NetworkLSA(t, d)
    <3>1. PICK d \in Devices(t) : id = Interface(t, d).addr /\ db[id] = NetworkLSA(t, d)
      BY <2>2
    <3>2. id \in Nat /\ id < BroadcastAddress
      BY <3>1, DeviceFacts
    <3>3. db[id] \in LSAType
      BY <3>1, NetworkLSAFacts
    <3> HIDE DEF db
    <3> QED BY <2>0, <3>2, <3>3
  <2> QED BY <2>1, <2>2, DatabaseHolds
<1>2. DOMAIN db \subseteq Nat /\ IsFiniteSet(DOMAIN db)
  <2>1. BroadcastAddress + Cardinality(t.routers) \in Nat
    BY RouterIdFacts DEF BroadcastAddress
  <2>2. DOMAIN db \in SUBSET Nat /\ \A id \in DOMAIN db : id <= BroadcastAddress + Cardinality(t.routers)
    BY <1>1
  <2> HIDE DEF db
  <2> QED BY <2>1, <2>2, FS_BoundedSetOfNaturals
<1>3. ASSUME NEW n \in t.routers
      PROVE  RouterId(t, n) \in DOMAIN db /\ db[RouterId(t, n)].type = "RouterLSA"
  BY DatabaseHolds, RouterLSAFacts
<1>4. ASSUME NEW id \in DOMAIN db, NEW k \in DOMAIN db[id].links
      PROVE  LET l == db[id].links[k] IN
             /\ l.type = "PointToPoint" => l.linkId \in DOMAIN db /\ db[l.linkId].type = "RouterLSA"
             /\ l.type = "StubNetwork" => l.linkData # 0
  <2> DEFINE l == db[id].links[k]
  <2>1. CASE \E n \in t.routers : db[id] = RouterLSA(t, n)
    <3>1. PICK n \in t.routers : db[id] = RouterLSA(t, n)
      BY <2>1
    <3>2. db[id].links \in Seq(LinkRecordType)
      BY <1>1 DEF LSAType
    <3>3. l \in Listed(RouterLSA(t, n).links)
      <4>1. k \in 1 .. Len(db[id].links)
        BY <3>2
      <4> QED BY <3>1, <4>1 DEF Listed
    <3>4. \/ l.type = "StubNetwork" /\ l.linkData = SubnetMask
          \/ \E d \in Devices(t) : \/ l = TransitRecord(t, d)
                                   \/ LinksRouters(t, d) /\ l = RouterRecord(t, d)
      <4> HIDE DEF l
      <4> QED BY <3>3, RouterRecords
    <3>5. \A d : TransitRecord(t, d).type = "TransitNetwork"
      BY DEF TransitRecord, LinkRecord
    <3>6. \A d : /\ RouterRecord(t, d).type = "PointToPoint"
                 /\ RouterRecord(t, d).linkId = RouterId(t, GetAdjacent(t, d)[1])
      BY DEF RouterRecord, LinkRecord
    <3>7. \A d : LinksRouters(t, d) => GetAdjacent(t, d)[1] \in t.routers
      BY DEF LinksRouters
    <3> HIDE DEF l, db
    <3>9. l.type = "PointToPoint" => l.linkId \in DOMAIN db /\ db[l.linkId].type = "RouterLSA"
      BY <1>3, <3>4, <3>5, <3>6, <3>7
    <3>10. l.type = "StubNetwork" => l.linkData # 0
      BY <3>4, <3>5, <3>6 DEF SubnetMask
    <3> QED BY <3>9, <3>10 DEF l
  <2>2. CASE \E d \in Devices(t) : db[id] = NetworkLSA(t, d)
    <3>1. db[id].links = << >>
      BY <2>2, NetworkLSAFacts
    <3> QED BY <3>1
  <2> QED BY <2>1, <2>2, DatabaseHolds
<1>5. ASSUME NEW id \in DOMAIN db, db[id].type = "NetworkLSA" PROVE db[id].links = << >>
  <2>1. \A n \in t.routers : db[id] # RouterLSA(t, n)
    BY <1>5, RouterLSAFacts
  <2>2. \E d \in Devices(t) : db[id] = NetworkLSA(t, d)
    BY <2>1, DatabaseHolds
  <2> QED BY <2>2, NetworkLSAFacts
<1>6. db = BuildDatabase(t, << >>)
  BY DEF Database
<1> HIDE DEF db
<1>7. WellFormedDatabase(t, db)
  BY <1>1, <1>2, <1>3, <1>4, <1>5 DEF WellFormedDatabase
<1> QED BY <1>6, <1>7

(* The external LSAs have their types.                                     *)
LEMMA ExternalsWellFormed ==
    ASSUME NEW t, WellFormedTopology(t)
    PROVE  BuildExtDatabase(t, << >>) \in Seq(ASExternalLSAType)
<1> DEFINE N == Cardinality(t.nodes)
           ss == [k \in 1 .. N |-> DiscoverExternalLSAs(t, k - 1)]
<1>1. N \in Nat
  BY FS_CardinalityType DEF WellFormedTopology
<1>2. ASSUME NEW k \in 1 .. N PROVE DiscoverExternalLSAs(t, k - 1) \in Seq(ASExternalLSAType)
  <2>1. CASE k - 1 \notin t.routers
    BY <2>1 DEF DiscoverExternalLSAs
  <2>2. CASE k - 1 \in t.routers
    <3> DEFINE n == k - 1
    <3>1. t.injected[n] \in Seq(Nat)
      BY <2>2 DEF WellFormedTopology
    <3>2. RouterId(t, n) \in Nat
      BY <2>2, RouterIdFacts
    <3>3. DiscoverExternalLSAs(t, n) =
            [x \in DOMAIN t.injected[n] |->
                [id |-> t.injected[n][x], mask |-> SubnetMask, advertisingRouter |-> RouterId(t, n)]]
      BY <2>2 DEF DiscoverExternalLSAs, ASExternalLSAs
    <3> HIDE DEF n
    <3>4. DOMAIN t.injected[n] = 1 .. Len(t.injected[n]) /\ Len(t.injected[n]) \in Nat
      BY <3>1
    <3>5. \A x \in 1 .. Len(t.injected[n]) :
            [id |-> t.injected[n][x], mask |-> SubnetMask, advertisingRouter |-> RouterId(t, n)]
               \in ASExternalLSAType
      BY <3>1, <3>2 DEF ASExternalLSAType, SubnetMask
    <3>6. DiscoverExternalLSAs(t, n) \in Seq(ASExternalLSAType)
      <4> DEFINE E(x) == [id |-> t.injected[n][x], mask |-> SubnetMask,
                          advertisingRouter |-> RouterId(t, n)]
      <4>1. DiscoverExternalLSAs(t, n) = [x \in 1 .. Len(t.injected[n]) |-> E(x)]
        BY <3>3, <3>4
      <4>2. \A x \in 1 .. Len(t.injected[n]) : E(x) \in ASExternalLSAType
        BY <3>5
      <4> HIDE DEF E
      <4> QED BY <3>4, <4>1, <4>2
    <3> QED BY <3>6 DEF n
  <2> QED BY <2>1, <2>2
<1>3. ss \in Seq(Seq(ASExternalLSAType))
  BY <1>1, <1>2
<1>4. FlattenSeq(ss) \in Seq(ASExternalLSAType)
  BY <1>3, FlattenLists
<1>5. BuildExtDatabase(t, << >>) = << >> \o FlattenSeq(ss)
  BY DEF BuildExtDatabase
<1> HIDE DEF ss
<1>6. << >> \o FlattenSeq(ss) = FlattenSeq(ss)
  BY <1>4, ConcatEmptySeq
<1> QED BY <1>4, <1>5, <1>6

(* A next hop and an interface make a set of exits.                        *)
LEMMA OneExit ==
    ASSUME NEW x \in Nat, NEW y \in Int
    PROVE  {<<x, y>>} \in SUBSET (Nat \X Int)
OBVIOUS

(* FindOutgoingInterfaceId returns an interface or -1.                     *)
LEMMA FindOutgoingInterfaceIdType ==
    ASSUME TypeOK, node \in net.routers, NEW a, NEW mask
    PROVE  FindOutgoingInterfaceId(a, mask) \in Int
<1> DEFINE matches == {j \in DOMAIN net.ifs[node] :
                CombineMask(net.ifs[node][j].addr, mask) = CombineMask(a, mask)}
<1>1. matches \in SUBSET Nat
  BY DEF TypeOK, WellFormed, WellFormedTopology
<1>2. CASE matches = {}
  BY <1>2 DEF FindOutgoingInterfaceId
<1>3. CASE matches # {}
  <2>1. \E j \in matches : \A k \in matches : j <= k
    BY <1>1, <1>3, SmallestOf
  <2>2. (CHOOSE j \in matches : \A k \in matches : j <= k) \in matches
    BY <2>1
  <2>3. FindOutgoingInterfaceId(a, mask) = CHOOSE j \in matches : \A k \in matches : j <= k
    BY <1>3 DEF FindOutgoingInterfaceId
  <2>4. FindOutgoingInterfaceId(a, mask) \in matches
    BY <2>2, <2>3, Zenon
  <2>5. \A x \in matches : x \in Int
    BY <1>1
  <2> QED BY <2>4, <2>5, Zenon
<1> QED BY <1>2, <1>3

(* Fields of the records of an LSA. *)
LEMMA RecordFields ==
    ASSUME TypeOK, NEW u \in Ids, NEW k \in DOMAIN lsdb[u].links
    PROVE  /\ lsdb[u].links[k].linkId \in Nat
           /\ lsdb[u].links[k].linkData \in Nat
           /\ lsdb[u].links[k].metric \in Nat
           /\ lsdb[u].links[k].type = "StubNetwork"
                => lsdb[u].links[k].linkData \in Nat \ {0}
           /\ lsdb[u].links[k].type = "PointToPoint"
                => lsdb[u].links[k].linkId \in Ids
<1>1. lsdb[u] \in LSAType
  BY DEF TypeOK, WellFormed, WellFormedDatabase, Ids
<1>2. lsdb[u].links \in Seq(LinkRecordType)
  BY <1>1 DEF LSAType
<1>3. lsdb[u].links[k] \in LinkRecordType
  BY <1>2
<1>4. /\ lsdb[u].links[k].type = "StubNetwork" => lsdb[u].links[k].linkData # 0
      /\ lsdb[u].links[k].type = "PointToPoint" => lsdb[u].links[k].linkId \in DOMAIN lsdb
  BY DEF TypeOK, WellFormed, WellFormedDatabase, Ids
<1> QED BY <1>3, <1>4 DEF LinkRecordType, Ids

(* SPFGetNextLink returns null or a record of the vertex.                  *)
LEMMA NextLinkType ==
    ASSUME TypeOK, NEW u \in Ids, NEW w, NEW hasPrev \in BOOLEAN,
           SPFGetNextLink(u, w, hasPrev) # 0
    PROVE  SPFGetNextLink(u, w, hasPrev) \in DOMAIN lsdb[u].links
BY DEF SPFGetNextLink, NthLink, NthLinks

(* GetRootExitDirection returns an interface when there is one exit.       *)
LEMMA OutIfType ==
    ASSUME TypeOK, NEW u \in Ids, Cardinality(exits[u]) = 1
    PROVE  OutIf(u) \in Int
<1>1. exits[u] # {}
  BY FS_EmptySet
<1>2. exits[u] \subseteq Nat \X Int
  BY DEF TypeOK
<1>3. (CHOOSE e \in exits[u] : TRUE) \in exits[u]
  BY <1>1
<1> QED BY <1>2, <1>3 DEF OutIf

(* A next hop calculation that comes back gives exits of the right type.   *)
LEMMA NexthopExitsType ==
    ASSUME TypeOK, pc = "spf", NEW w \in Ids, ~NexthopFault(w),
           NEW old \in SUBSET (Nat \X Int)
    PROVE  NexthopExits(w, old) \in SUBSET (Nat \X Int)
<1> DEFINE back == SPFGetNextLink(w, v, FALSE)
<1>0. v \in Ids /\ node \in net.routers
  BY DEF TypeOK, Building
<1>1. back # 0 => lsdb[w].links[back].linkData \in Nat
  BY NextLinkType, RecordFields
<1>2. CASE FromRootToRouter(w)
  <2>1. back # 0
    BY <1>2 DEF NexthopFault, MissingBackLink
  <2>2. FindOutgoingInterfaceId(lsdb[v].links[i].linkData, HostMask) \in Int
    BY <1>0, FindOutgoingInterfaceIdType
  <2>3. NexthopExits(w, old) =
            {<< lsdb[w].links[back].linkData,
                FindOutgoingInterfaceId(lsdb[v].links[i].linkData, HostMask) >>}
    BY <1>2 DEF NexthopExits
  <2> QED BY <1>1, <2>1, <2>2, <2>3, OneExit, Zenon
<1>3. CASE ~FromRootToRouter(w) /\ FromRootToNetwork(w)
  <2>1. FindOutgoingInterfaceId(w, SubnetMask) \in Int
    BY <1>0, FindOutgoingInterfaceIdType
  <2> QED BY <1>3, <2>1 DEF NexthopExits, ZeroAddress
<1>4. CASE ~FromRootToRouter(w) /\ ~FromRootToNetwork(w) /\ AcrossFirstNetwork
  <2>1. CASE back = 0
    BY <1>4, <2>1 DEF NexthopExits
  <2>2. CASE back # 0
    <3>1. Cardinality(exits[v]) = 1
      BY <1>4, <2>2 DEF NexthopFault, SeveralExits
    <3>2. OutIf(v) \in Int
      BY <1>0, <3>1, OutIfType
    <3>3. NexthopExits(w, old) = {<< lsdb[w].links[back].linkData, OutIf(v) >>}
      BY <1>4, <2>2 DEF NexthopExits
    <3> QED BY <1>1, <2>2, <3>2, <3>3, OneExit, Zenon
  <2> QED BY <2>1, <2>2
<1>5. CASE ~FromRootToRouter(w) /\ ~FromRootToNetwork(w) /\ ~AcrossFirstNetwork
  BY <1>0, <1>5 DEF NexthopExits, TypeOK
<1> QED BY <1>2, <1>3, <1>4, <1>5

(* The distance SPFNext computes for a neighbour is a length.              *)
LEMMA DistanceType ==
    ASSUME TypeOK, Examining
    PROVE  Distance \in Nat
<1>1. v \in Ids /\ dist[v] \in Nat /\ i \in Nat \ {0}
  BY DEF TypeOK, Examining, Building
<1>2. lsdb[v].links \in Seq(LinkRecordType)
  BY <1>1 DEF TypeOK, WellFormed, WellFormedDatabase, Ids, LSAType
<1>3. CASE v \in NetworkVertices
  BY <1>1, <1>3 DEF Distance, Cost
<1>4. CASE v \notin NetworkVertices
  <2>1. i \in DOMAIN lsdb[v].links
    BY <1>1, <1>2, <1>4 DEF Examining, NumRecords
  <2> QED BY <1>1, <1>4, <2>1, RecordFields DEF Distance, Cost
<1> QED BY <1>3, <1>4

(***************************************************************************)
(* Routes.                                                                 *)
(***************************************************************************)
LEMMA RouteType ==
    ASSUME NEW dest \in Nat, NEW mask \in Nat, NEW x \in Nat, NEW y \in Int
    PROVE  Route(dest, mask, <<x, y>>) \in RouteEntry
BY DEF Route, RouteEntry

(* Routes over the exits of a vertex are table entries.                    *)
LEMMA RoutesViaType ==
    ASSUME TypeOK, NEW u \in Ids, NEW dest \in Nat, NEW mask \in Nat \ {0}
    PROVE  RoutesVia(u, dest, mask) \subseteq RouteEntry
<1>1. exits[u] \subseteq Nat \X Int
  BY DEF TypeOK
<1>2. CombineMask(dest, mask) \in Nat
  BY CombineMaskType
<1>3. ASSUME NEW e \in exits[u]
      PROVE  Route(CombineMask(dest, mask), mask, e) \in RouteEntry
  <2>1. e[1] \in Nat /\ e[2] \in Int
    BY <1>1
  <2> QED BY <1>2, <2>1 DEF Route, RouteEntry
<1> QED BY <1>3 DEF RoutesVia

(* SPFIntraAddRouter adds table entries.                                   *)
LEMMA SPFIntraAddRouterType ==
    ASSUME TypeOK, NEW u \in Ids
    PROVE  SPFIntraAddRouter(u) \subseteq RouteEntry
<1>1. ASSUME NEW l \in Records(u, "PointToPoint")
      PROVE  RoutesVia(u, l.linkData, HostMask) \subseteq RouteEntry
  <2>1. l.linkData \in Nat
    BY RecordFields DEF Records
  <2> QED BY <2>1, RoutesViaType DEF HostMask
<1> QED BY <1>1 DEF SPFIntraAddRouter

(* SPFIntraAddTransit adds table entries.                                  *)
LEMMA SPFIntraAddTransitType ==
    ASSUME TypeOK, NEW u \in Ids
    PROVE  SPFIntraAddTransit(u) \subseteq RouteEntry
<1>1. u \in Nat
  BY DEF TypeOK, WellFormed, WellFormedDatabase, Ids
<1> QED BY <1>1, RoutesViaType DEF SPFIntraAddTransit, SubnetMask

(* SPFIntraAddStub adds table entries.                                     *)
LEMMA SPFIntraAddStubType ==
    ASSUME TypeOK, NEW u \in Ids
    PROVE  SPFIntraAddStub(u) \subseteq RouteEntry
<1>1. ASSUME NEW l \in Records(u, "StubNetwork")
      PROVE  RoutesVia(u, l.linkId, l.linkData) \subseteq RouteEntry
  <2>1. l.linkId \in Nat /\ l.linkData \in Nat \ {0}
    BY RecordFields DEF Records
  <2> QED BY <2>1, RoutesViaType
<1> QED BY <1>1 DEF SPFIntraAddStub

(* SPFAddASExternal adds table entries.                                    *)
LEMMA SPFAddASExternalType ==
    ASSUME TypeOK, NEW u \in Ids, NEW p \in 1 .. Len(extdb)
    PROVE  SPFAddASExternal(u, extdb[p]) \subseteq RouteEntry
<1>1. extdb[p] \in ASExternalLSAType
  BY DEF TypeOK, WellFormed
<1>2. extdb[p].id \in Nat /\ extdb[p].mask \in Nat \ {0}
  BY <1>1 DEF ASExternalLSAType
<1>3. RoutesVia(u, extdb[p].id, extdb[p].mask) \subseteq RouteEntry
  BY <1>2, RoutesViaType
<1> QED BY <1>3 DEF SPFAddASExternal

(* A vertex that a walk enters adds table entries.                         *)
LEMMA VisitRoutesType ==
    ASSUME TypeOK, NEW u \in Ids, NEW p \in 0 .. Len(extdb)
    PROVE  VisitRoutes(u, p) \subseteq RouteEntry
<1>1. CASE p = 0
  BY <1>1, SPFIntraAddStubType DEF VisitRoutes
<1>2. CASE p # 0
  <2>1. p \in 1 .. Len(extdb)
    BY <1>2 DEF TypeOK, WellFormed
  <2> QED BY <1>2, <2>1, SPFAddASExternalType DEF VisitRoutes
<1> QED BY <1>1, <1>2

(* CheckForStubNode adds table entries.                                    *)
LEMMA DefaultRoutesType ==
    ASSUME TypeOK, NEW u \in Ids, CheckForStubNode(u), node \in net.routers
    PROVE  DefaultRoutes(u) \subseteq RouteEntry
<1>1. CASE TransitLinks(u) = {}
  BY <1>1 DEF DefaultRoutes
<1>2. CASE TransitLinks(u) # {}
  <2> DEFINE l    == lsdb[u].links[CHOOSE k \in TransitLinks(u) : TRUE]
             back == BackLinks(u, l.linkId)
             m    == CHOOSE k \in back : \A n \in back : k <= n
             lr   == lsdb[l.linkId].links[m]
  <2>1. PICK k \in TransitLinks(u) :
            /\ TransitLinks(u) = {k}
            /\ lsdb[u].links[k].type = "PointToPoint"
            /\ BackLinks(u, lsdb[u].links[k].linkId) # {}
    BY <1>2 DEF CheckForStubNode, HasDefaultLink
  <2>2. (CHOOSE j \in TransitLinks(u) : TRUE) = k
    BY <2>1
  <2>3. l.linkId \in Ids /\ back # {}
    BY <2>1, <2>2, RecordFields DEF TransitLinks
  <2> HIDE DEF l
  <2>4. back \in SUBSET Nat /\ back \subseteq DOMAIN lsdb[l.linkId].links
    <3>1. lsdb[l.linkId].links \in Seq(LinkRecordType)
      BY <2>3 DEF TypeOK, WellFormed, WellFormedDatabase, Ids, LSAType
    <3> QED BY <3>1 DEF BackLinks
  <2>5. m \in back
    <3>1. \E k1 \in back : \A n \in back : k1 <= n
      BY <2>3, <2>4, SmallestOf
    <3> QED BY <3>1, Zenon
  <2> HIDE DEF m, back
  <2>6. lr.linkData \in Nat
    BY <2>3, <2>4, <2>5, RecordFields
  <2>7. FindOutgoingInterfaceId(l.linkData, HostMask) \in Int
    BY FindOutgoingInterfaceIdType
  <2>8. DefaultRoutes(u) =
            {Route(ZeroAddress, ZeroMask,
                   <<lr.linkData, FindOutgoingInterfaceId(l.linkData, HostMask)>>)}
    BY <1>2, Zenon DEF DefaultRoutes, l, back, m
  <2>9. Route(ZeroAddress, ZeroMask,
              <<lr.linkData, FindOutgoingInterfaceId(l.linkData, HostMask)>>) \in RouteEntry
    BY <2>6, <2>7, RouteType DEF ZeroAddress, ZeroMask
  <2> QED BY <2>8, <2>9, Zenon
<1> QED BY <1>1, <1>2

(* Adding entries to one table of one node. *)
LEMMA AddRoutesType ==
    ASSUME TypeOK, NEW table \in {"host", "network", "external"},
           node \in net.routers, NEW new \in SUBSET RouteEntry,
           AddRoutes(table, new)
    PROVE  routes' \in [net.nodes -> Tables]
<1>1. node \in net.nodes /\ routes \in [net.nodes -> Tables]
  BY DEF TypeOK, WellFormed, WellFormedTopology
<1>2. [routes[node] EXCEPT ![table] = @ \cup new] \in Tables
  BY <1>1 DEF Tables
<1> QED BY <1>1, <1>2 DEF AddRoutes

-----------------------------------------------------------------------------
(***************************************************************************)
(* Type correctness.                                                       *)
(***************************************************************************)
LEMMA InitTyped == Init => TypeOK
<1> SUFFICES ASSUME Init PROVE TypeOK
  OBVIOUS
<1>1. WellFormed(net, lsdb, extdb)
  BY NetworksAssumption, DatabaseWellFormed, ExternalsWellFormed DEF Init, WellFormed
<1>2. EmptyTables \in Tables
  BY DEF EmptyTables, Tables
<1>3. Len(extdb) \in Nat
  BY <1>1 DEF WellFormed
<1>4. Ids = DOMAIN lsdb
  BY DEF Ids
<1> QED BY <1>1, <1>2, <1>3 DEF Init, TypeOK, Building

(* The router under the iterator has an LSA. *)
LEMMA RootHasLSA ==
    ASSUME TypeOK, node \in net.routers
    PROVE  RouterId(net, node) \in Ids
BY DEF TypeOK, WellFormed, WellFormedDatabase, Ids

(* Sequences whose last elements change, as the walks' stack. *)
LEMMA StackOperations ==
    ASSUME NEW F, NEW s \in Seq(F), NEW x \in F, s # << >>
    PROVE  /\ s[Len(s)] \in F
           /\ Append(s, x) \in Seq(F) /\ Append(s, x) # << >>
           /\ [s EXCEPT ![Len(s)] = x] \in Seq(F) /\ [s EXCEPT ![Len(s)] = x] # << >>
           /\ Len(s) > 1 =>
                /\ s[Len(s) - 1] \in F
                /\ Append(SubSeq(s, 1, Len(s) - 2), x) \in Seq(F)
                /\ Append(SubSeq(s, 1, Len(s) - 2), x) # << >>
<1>1. Len(s) \in Nat \ {0} /\ s[Len(s)] \in F
  OBVIOUS
<1>2. Append(s, x) \in Seq(F) /\ Append(s, x) # << >>
  OBVIOUS
<1>3. [s EXCEPT ![Len(s)] = x] \in Seq(F) /\ Len([s EXCEPT ![Len(s)] = x]) = Len(s)
  BY <1>1
<1>4. ASSUME Len(s) > 1
      PROVE  /\ s[Len(s) - 1] \in F
             /\ Append(SubSeq(s, 1, Len(s) - 2), x) \in Seq(F)
             /\ Append(SubSeq(s, 1, Len(s) - 2), x) # << >>
  <2>1. SubSeq(s, 1, Len(s) - 2) \in Seq(F)
    BY <1>1, <1>4
  <2>2. s[Len(s) - 1] \in F
    BY <1>1, <1>4
  <2>3. \A t \in Seq(F) : Append(t, x) \in Seq(F) /\ Append(t, x) # << >>
    OBVIOUS
  <2> QED BY <2>1, <2>2, <2>3
<1>5. [s EXCEPT ![Len(s)] = x] # << >>
  BY <1>1, <1>3
<1> QED BY <1>1, <1>2, <1>3, <1>4, <1>5

(* Where a walk is. *)
LEMMA WalkPosition ==
    ASSUME TypeOK, pc = "walk"
    PROVE  /\ stack \in Seq(Frame) /\ stack # << >>
           /\ node \in net.routers /\ root \in Ids
           /\ Here \in Ids /\ Child \in Nat \ {0}
<1>1. stack \in Seq(Frame) /\ stack # << >> /\ node \in net.routers /\ root \in Ids
  BY DEF TypeOK, Building
<1>2. stack[Len(stack)] \in Frame
  BY <1>1
<1> QED BY <1>1, <1>2 DEF Here, Child, Frame

(* Every step of InitializeRoutes keeps the types.                         *)
LEMMA TypeInductive == TypeOK /\ [Next]_vars => TypeOK'
<1> SUFFICES ASSUME TypeOK, [Next]_vars PROVE TypeOK'
  OBVIOUS
<1> USE DEF topology, vertices, walk
<1>1. CASE SkipNode
  BY <1>1 DEF SkipNode, TypeOK, Building, Ids, Frame
<1>2. CASE TruncateForStubNode
  <2>1. RouterId(net, node) \in Ids
    BY <1>2, RootHasLSA DEF TruncateForStubNode
  <2>2. routes' \in [net.nodes -> Tables]
    BY <1>2, <2>1, DefaultRoutesType, AddRoutesType DEF TruncateForStubNode
  <2>3. status' \in [Ids -> {"NotExplored", "Candidate", "InSpfTree"}]
    BY <1>2 DEF TruncateForStubNode, InitialStatus
  <2> QED BY <1>2, <2>2, <2>3 DEF TruncateForStubNode, TypeOK, Building, Ids, Frame
<1>3. CASE StartCalculation
  <2>1. RouterId(net, node) \in Ids
    BY <1>3, RootHasLSA DEF StartCalculation
  <2>2. status' \in [Ids -> {"NotExplored", "Candidate", "InSpfTree"}]
    BY <1>3 DEF StartCalculation, InitialStatus
  <2> QED BY <1>3, <2>1, <2>2 DEF StartCalculation, TypeOK, Building, Ids, Frame
<1>4. CASE FinishRoutes
  BY <1>4 DEF FinishRoutes, TypeOK, Building, Ids, Frame
<1>5. CASE MissingLSA
  BY <1>5 DEF MissingLSA, TypeOK, Building, Ids, Frame
<1>6. CASE SkipRecord
  <2>1. i' \in Nat \ {0}
    BY <1>6 DEF SkipRecord, NextRecord, TypeOK
  <2> QED BY <1>6, <2>1 DEF SkipRecord, NextRecord, TypeOK, Building, Ids, Frame
<1>7. ASSUME NEW w \in Ids, SkipInTree(w) PROVE TypeOK'
  <2>1. i' \in Nat \ {0}
    BY <1>7 DEF SkipInTree, NextRecord, TypeOK
  <2> QED BY <1>7, <2>1 DEF SkipInTree, NextRecord, TypeOK, Building, Ids, Frame
<1>8. ASSUME NEW w \in Ids, SkipLongerPath(w) PROVE TypeOK'
  <2>1. i' \in Nat \ {0}
    BY <1>8 DEF SkipLongerPath, NextRecord, TypeOK
  <2> QED BY <1>8, <2>1 DEF SkipLongerPath, NextRecord, TypeOK, Building, Ids, Frame
<1>9. ASSUME NEW w \in Ids, NewCandidate(w) PROVE TypeOK'
  <2>1. pc = "spf" /\ Examining /\ v \in Ids /\ Distance \in Nat
    BY <1>9, DistanceType DEF NewCandidate, LeadsTo, Examining, TypeOK, Building
  <2>2. NexthopExits(w, {}) \in SUBSET (Nat \X Int)
    BY <1>9, <2>1, NexthopExitsType DEF NewCandidate
  <2>3. exits' \in [Ids -> SUBSET (Nat \X Int)]
    BY <1>9, <2>2 DEF NewCandidate, TypeOK
  <2>4. [dist EXCEPT ![w] = Distance] \in [Ids -> Nat]
    BY <2>1 DEF TypeOK
  <2>5. queue' \in Seq(Ids)
    BY <1>9, <2>4, PushAdds DEF NewCandidate, TypeOK
  <2>6. /\ status' \in [Ids -> {"NotExplored", "Candidate", "InSpfTree"}]
        /\ parents' \in [Ids -> SUBSET Ids] /\ first' \in [Ids -> Ids]
    BY <1>9, <2>1 DEF NewCandidate, TypeOK
  <2>7. i' \in Nat \ {0}
    BY <1>9 DEF NewCandidate, NextRecord, TypeOK
  <2> QED BY <1>9, <2>3, <2>4, <2>5, <2>6, <2>7 DEF NewCandidate, NextRecord, TypeOK, Building, Ids, Frame
<1>10. ASSUME NEW w \in Ids, EqualCostPath(w) PROVE TypeOK'
  <2>1. pc = "spf" /\ v \in Ids
    BY <1>10 DEF EqualCostPath, LeadsTo, Examining, TypeOK, Building
  <2>2. NexthopExits(w, {}) \in SUBSET (Nat \X Int)
    BY <1>10, <2>1, NexthopExitsType DEF EqualCostPath
  <2>3. exits' \in [Ids -> SUBSET (Nat \X Int)]
    BY <1>10, <2>2 DEF EqualCostPath, TypeOK
  <2>4. parents' \in [Ids -> SUBSET Ids] /\ first' \in [Ids -> Ids]
    BY <1>10, <2>1 DEF EqualCostPath, TypeOK
  <2>7. i' \in Nat \ {0}
    BY <1>10 DEF EqualCostPath, NextRecord, TypeOK
  <2> QED BY <1>10, <2>3, <2>4, <2>7 DEF EqualCostPath, NextRecord, TypeOK, Building, Ids, Frame
<1>11. ASSUME NEW w \in Ids, ShorterPath(w) PROVE TypeOK'
  <2>1. pc = "spf" /\ Examining /\ v \in Ids /\ Distance \in Nat
    BY <1>11, DistanceType DEF ShorterPath, LeadsTo, Examining, TypeOK, Building
  <2>2. NexthopExits(w, exits[w]) \in SUBSET (Nat \X Int)
    BY <1>11, <2>1, NexthopExitsType DEF ShorterPath, TypeOK
  <2>3. exits' \in [Ids -> SUBSET (Nat \X Int)]
    BY <1>11, <2>2 DEF ShorterPath, TypeOK
  <2>4. [dist EXCEPT ![w] = Distance] \in [Ids -> Nat]
    BY <2>1 DEF TypeOK
  <2>5. queue' \in Seq(Ids)
    BY <1>11, <2>4, ReorderSorts DEF ShorterPath, TypeOK
  <2>6. parents' \in [Ids -> SUBSET Ids] /\ first' \in [Ids -> Ids]
    BY <1>11, <2>1 DEF ShorterPath, TypeOK
  <2>7. i' \in Nat \ {0}
    BY <1>11 DEF ShorterPath, NextRecord, TypeOK
  <2> QED BY <1>11, <2>3, <2>4, <2>5, <2>6, <2>7 DEF ShorterPath, NextRecord, TypeOK, Building, Ids, Frame
<1>12. ASSUME NEW w \in Ids, NexthopFails(w) PROVE TypeOK'
  BY <1>12 DEF NexthopFails, TypeOK, Building, Ids, Frame
<1>13. CASE AddToTree
  <2>1. /\ pc = "spf" /\ node \in net.routers
        /\ Top(queue) \in Ids /\ queue' \in Seq(Ids)
    BY <1>13 DEF AddToTree, TypeOK, Building, Top, Pop
  <2>2. routes' \in [net.nodes -> Tables]
    <3>1. CASE Top(queue) \in NetworkVertices
      <4>1. AddRoutes("network", SPFIntraAddTransit(Top(queue)))
        BY <1>13, <3>1 DEF AddToTree
      <4>2. SPFIntraAddTransit(Top(queue)) \subseteq RouteEntry
        BY <2>1, SPFIntraAddTransitType
      <4> QED BY <2>1, <4>1, <4>2, AddRoutesType
    <3>2. CASE Top(queue) \notin NetworkVertices
      <4>1. AddRoutes("host", SPFIntraAddRouter(Top(queue)))
        BY <1>13, <3>2 DEF AddToTree
      <4>2. SPFIntraAddRouter(Top(queue)) \subseteq RouteEntry
        BY <2>1, SPFIntraAddRouterType
      <4> QED BY <2>1, <4>1, <4>2, AddRoutesType
    <3> QED BY <3>1, <3>2
  <2>3. children' \in [Ids -> Seq(Ids)]
    BY <1>13, <2>1 DEF AddToTree, SPFVertexAddParent, TypeOK
  <2>4. status' \in [Ids -> {"NotExplored", "Candidate", "InSpfTree"}]
    BY <1>13, <2>1 DEF AddToTree, TypeOK
  <2>5. v' \in Ids /\ i' = 1 /\ UNCHANGED <<topology, pc, node, root, vertices, walk>>
    BY <1>13, <2>1 DEF AddToTree
  <2>6. Ids' = Ids /\ Frame' = Frame /\ WellFormed(net, lsdb, extdb)'
    BY <2>5 DEF Ids, Frame, TypeOK
  <2>7. /\ (pc \in {"idle", "spf", "walk", "done", "abort", "spin"})'
        /\ (node \in Nat /\ i \in Nat \ {0} /\ pass \in 0 .. Len(extdb))'
        /\ (Building => root \in Ids /\ v \in Ids /\ node \in net.routers)'
        /\ (stack \in Seq(Frame) /\ processed \subseteq Ids)'
        /\ (pc = "walk" => stack # << >>)'
    BY <2>1, <2>5, <2>6 DEF TypeOK, Building
  <2>8. /\ (dist \in [Ids -> Nat] /\ exits \in [Ids -> SUBSET (Nat \X Int)])'
        /\ (parents \in [Ids -> SUBSET Ids] /\ first \in [Ids -> Ids])'
    BY <2>5, <2>6 DEF TypeOK
  <2>9. /\ status' \in [Ids' -> {"NotExplored", "Candidate", "InSpfTree"}]
        /\ children' \in [Ids' -> Seq(Ids')] /\ queue' \in Seq(Ids')
        /\ routes' \in [net'.nodes -> Tables]
    BY <2>1, <2>2, <2>3, <2>4, <2>5, <2>6
  <2> HIDE DEF topology, vertices, walk
  <2> QED BY <2>6, <2>7, <2>8, <2>9 DEF TypeOK
<1>14. CASE StartStubs
  <2>1. pc = "spf" /\ node \in net.routers /\ root \in Ids /\ 0 \in 0 .. Len(extdb)
    BY <1>14 DEF StartStubs, TypeOK, Building, WellFormed
  <2>2. routes' \in [net.nodes -> Tables]
    BY <1>14, <2>1, AddRoutesType, VisitRoutesType DEF StartStubs, VisitTable
  <2>3. << <<root, 1>> >> \in Seq(Frame)
    BY <2>1 DEF Frame
  <2> QED BY <1>14, <2>1, <2>2, <2>3 DEF StartStubs, TypeOK, Building, Ids, Frame
<1>15. CASE EnterChild
  <2>1. /\ stack \in Seq(Frame) /\ stack # << >> /\ node \in net.routers
        /\ Here \in Ids /\ Child \in Nat \ {0}
    BY <1>15, WalkPosition DEF EnterChild, AtChild
  <2>2. children[Here][Child] \in Ids
    BY <1>15, <2>1 DEF EnterChild, AtChild, TypeOK
  <2>3. VisitRoutes(children[Here][Child], pass) \subseteq RouteEntry
    BY <2>2, VisitRoutesType DEF TypeOK
  <2>4. routes' \in [net.nodes -> Tables]
    BY <1>15, <2>1, <2>3, AddRoutesType DEF EnterChild, VisitTable
  <2>5. <<children[Here][Child], 1>> \in Frame
    BY <2>2 DEF Frame
  <2>6. stack' \in Seq(Frame) /\ stack' # << >>
    BY <1>15, <2>1, <2>5, StackOperations DEF EnterChild
  <2> QED BY <1>15, <2>4, <2>6 DEF EnterChild, TypeOK, Building, Ids, Frame
<1>16. CASE SkipChild
  <2>1. /\ stack \in Seq(Frame) /\ stack # << >>
        /\ Here \in Ids /\ Child \in Nat \ {0}
    BY <1>16, WalkPosition DEF SkipChild, AtChild
  <2>2. <<Here, Child + 1>> \in Frame
    BY <2>1 DEF Frame
  <2>3. stack' \in Seq(Frame) /\ stack' # << >>
    BY <1>16, <2>1, <2>2, StackOperations DEF SkipChild
  <2> QED BY <1>16, <2>3 DEF SkipChild, TypeOK, Building, Ids, Frame
<1>17. CASE LeaveChild
  <2> DEFINE below == stack[Len(stack) - 1]
  <2>1. stack \in Seq(Frame) /\ stack # << >> /\ Len(stack) > 1 /\ Here \in Ids
    BY <1>17, WalkPosition DEF LeaveChild, AtEnd
  <2>2. below \in Frame
    BY <2>1
  <2>3. <<below[1], below[2] + 1>> \in Frame
    BY <2>2 DEF Frame
  <2>4. stack' = Append(SubSeq(stack, 1, Len(stack) - 2), <<below[1], below[2] + 1>>)
    BY <1>17 DEF LeaveChild
  <2>5. stack' \in Seq(Frame) /\ stack' # << >>
    BY <2>1, <2>3, <2>4, StackOperations
  <2> QED BY <1>17, <2>1, <2>5 DEF LeaveChild, TypeOK, Building, Ids, Frame
<1>18. CASE NextExternal
  <2>1. node \in net.routers /\ root \in Ids
    BY <1>18, WalkPosition DEF NextExternal, AtEnd
  <2>2. pass + 1 \in 1 .. Len(extdb)
    BY <1>18 DEF NextExternal, TypeOK, WellFormed
  <2>3. VisitRoutes(root, pass + 1) \subseteq RouteEntry
    BY <2>1, <2>2, VisitRoutesType
  <2>4. routes' \in [net.nodes -> Tables]
    BY <1>18, <2>1, <2>3, AddRoutesType DEF NextExternal, VisitTable
  <2>5. << <<root, 1>> >> \in Seq(Frame)
    BY <2>1 DEF Frame
  <2> QED BY <1>18, <2>1, <2>2, <2>4, <2>5 DEF NextExternal, TypeOK, Building, Ids, Frame
<1>19. CASE FinishCalculation
  <2>1. node' \in Nat
    BY <1>19 DEF FinishCalculation, TypeOK
  <2>2. stack' \in Seq(Frame)
    BY <1>19 DEF FinishCalculation
  <2> QED BY <1>19, <2>1, <2>2 DEF FinishCalculation, TypeOK, Building, Ids, Frame
<1>20. CASE UNCHANGED vars
  BY <1>20 DEF vars, TypeOK, Building, Ids, Frame
<1> QED
  BY <1>1, <1>2, <1>3, <1>4, <1>5, <1>6, <1>7, <1>8, <1>9, <1>10, <1>11, <1>12,
     <1>13, <1>14, <1>15, <1>16, <1>17, <1>18, <1>19, <1>20 DEF Next, Step, Stopped

(* The variables keep their types through every calculation: positions in  *)
(* records, in the tree and in the recursion of the walks stay valid, and  *)
(* every exit and every route is made of an address and an interface id.   *)
THEOREM TypeCorrect == Spec => []TypeOK
BY InitTyped, TypeInductive, PTL DEF Spec

-----------------------------------------------------------------------------
(***************************************************************************)
(* The candidate list.  With the types it is inductive as it stands: an    *)
(* LSA that is not explored is not in the list, so that Push cannot list   *)
(* it twice; a changed distance is followed by Reorder in the same step.   *)
(***************************************************************************)
LEMMA QueueInductive ==
    TypeOK /\ QueueAgreesWithStatus /\ [Next]_vars => QueueAgreesWithStatus'
<1> SUFFICES ASSUME TypeOK, QueueAgreesWithStatus, [Next]_vars
             PROVE  QueueAgreesWithStatus'
  OBVIOUS
<1> USE DEF topology, vertices, walk
<1>1. CASE pc' # "spf"
  BY <1>1 DEF QueueAgreesWithStatus
<1>2. CASE StartCalculation
  <2>1. queue' = << >> /\ \A w \in Ids' : status'[w] # "Candidate"
    BY <1>2 DEF StartCalculation, InitialStatus, Ids
  <2> QED BY <2>1 DEF QueueAgreesWithStatus, Listed, NoDuplicates, Sorted
<1>3. ASSUME NEW w \in Ids, NewCandidate(w) PROVE QueueAgreesWithStatus'
  <2> DEFINE D == [dist EXCEPT ![w] = Distance]
  <2>1. /\ pc = "spf" /\ status[w] = "NotExplored" /\ dist' = D /\ UNCHANGED lsdb
        /\ queue' = Push(D, NetworkVertices, queue, w)
        /\ status' = [status EXCEPT ![w] = "Candidate"]
    BY <1>3 DEF NewCandidate, LeadsTo, Examining, NextRecord
  <2>2. Distance \in Nat
    BY <1>3, DistanceType DEF NewCandidate, LeadsTo
  <2>3. queue \in Seq(Ids) /\ D \in [Ids -> Nat]
    BY <2>2 DEF TypeOK
  <2>4. /\ Listed(queue) = {x \in Ids : status[x] = "Candidate"}
        /\ NoDuplicates(queue) /\ Sorted(dist, NetworkVertices, queue)
    BY <2>1 DEF QueueAgreesWithStatus
  <2>5. w \notin Listed(queue) /\ \A x \in Listed(queue) : D[x] = dist[x]
    BY <2>1, <2>4 DEF TypeOK
  <2> HIDE DEF D
  <2>6. Sorted(D, NetworkVertices, queue)
    BY <2>4, <2>5, SortedAgrees
  <2>7. Sorted(D, NetworkVertices, queue')
    BY <2>1, <2>3, <2>6, PushSorts
  <2>8. Listed(queue') = Listed(queue) \cup {w} /\ NoDuplicates(queue')
    <3>1. NoDuplicates(queue)
      BY <2>4
    <3>2. /\ Listed(Push(D, NetworkVertices, queue, w)) = Listed(queue) \cup {w}
          /\ NoDuplicates(Push(D, NetworkVertices, queue, w))
      BY <2>3, <2>5, <3>1, PushLists
    <3> QED BY <2>1, <3>2, Zenon
  <2>9. Listed(queue') = {x \in Ids : status'[x] = "Candidate"}
    BY <2>1, <2>4, <2>8 DEF TypeOK
  <2> QED BY <2>1, <2>7, <2>8, <2>9 DEF QueueAgreesWithStatus, Ids, NetworkVertices
<1>4. ASSUME NEW w \in Ids, ShorterPath(w) PROVE QueueAgreesWithStatus'
  <2> DEFINE D == [dist EXCEPT ![w] = Distance]
  <2>1. /\ pc = "spf" /\ dist' = D /\ UNCHANGED <<lsdb, status>>
        /\ queue' = Reorder(D, NetworkVertices, queue)
    BY <1>4 DEF ShorterPath, LeadsTo, Examining, NextRecord
  <2>2. Distance \in Nat
    BY <1>4, DistanceType DEF ShorterPath, LeadsTo
  <2>3. queue \in Seq(Ids) /\ D \in [Ids -> Nat]
    BY <2>2 DEF TypeOK
  <2>4. Listed(queue) = {x \in Ids : status[x] = "Candidate"} /\ NoDuplicates(queue)
    BY <2>1 DEF QueueAgreesWithStatus
  <2> HIDE DEF D
  <2>5. /\ Listed(queue') = Listed(queue) /\ NoDuplicates(queue')
        /\ Sorted(D, NetworkVertices, queue')
    BY <2>1, <2>3, <2>4, ReorderSorts
  <2> QED BY <2>1, <2>4, <2>5 DEF QueueAgreesWithStatus, Ids, NetworkVertices
<1>5. CASE AddToTree
  <2>1. /\ pc = "spf" /\ queue # << >> /\ queue' = Pop(queue) /\ UNCHANGED <<lsdb, dist>>
        /\ status' = [status EXCEPT ![Top(queue)] = "InSpfTree"]
    BY <1>5 DEF AddToTree
  <2>2. queue \in Seq(Ids) /\ dist \in [Ids -> Nat]
    BY DEF TypeOK
  <2>3. /\ Listed(queue) = {x \in Ids : status[x] = "Candidate"}
        /\ NoDuplicates(queue) /\ Sorted(dist, NetworkVertices, queue)
    BY <2>1 DEF QueueAgreesWithStatus
  <2>4. /\ Listed(queue') = Listed(queue) \ {Top(queue)}
        /\ NoDuplicates(queue') /\ Sorted(dist, NetworkVertices, queue')
    BY <2>1, <2>2, <2>3, PopTakesClosest
  <2>5. Listed(queue') = {x \in Ids : status'[x] = "Candidate"}
    BY <2>1, <2>3, <2>4 DEF TypeOK
  <2> QED BY <2>1, <2>4, <2>5 DEF QueueAgreesWithStatus, Ids, NetworkVertices
<1>6. CASE UNCHANGED <<pc, lsdb, status, dist, queue>>
  BY <1>6 DEF QueueAgreesWithStatus, Ids, NetworkVertices
<1>7. CASE SkipRecord \/ \E w \in Ids : SkipInTree(w) \/ SkipLongerPath(w) \/ EqualCostPath(w)
  BY <1>6, <1>7 DEF SkipRecord, SkipInTree, SkipLongerPath, EqualCostPath, NextRecord
<1>8. CASE SkipNode \/ TruncateForStubNode \/ FinishRoutes \/ FinishCalculation \/ MissingLSA
           \/ \E w \in Ids : NexthopFails(w)
  BY <1>1, <1>8
     DEF SkipNode, TruncateForStubNode, FinishRoutes, FinishCalculation, MissingLSA, NexthopFails
<1>9. CASE StartStubs \/ EnterChild \/ SkipChild \/ LeaveChild \/ NextExternal
  BY <1>1, <1>9 DEF StartStubs, EnterChild, SkipChild, LeaveChild, NextExternal, AtChild, AtEnd
<1>10. CASE UNCHANGED vars
  BY <1>6, <1>10 DEF vars
<1> QED
  BY <1>2, <1>3, <1>4, <1>5, <1>7, <1>8, <1>9, <1>10 DEF Next, Step, Stopped

(* The candidate list and the status fields agree and the list is sorted   *)
(* at every step of SPFNext, in every topology: Find never fails and Pop   *)
(* always takes a closest candidate.                                       *)
THEOREM QueueAgrees == Spec => []QueueAgreesWithStatus
<1>1. Init => QueueAgreesWithStatus
  BY DEF Init, QueueAgreesWithStatus
<1> QED BY <1>1, TypeCorrect, QueueInductive, PTL DEF Spec

-----------------------------------------------------------------------------
(***************************************************************************)
(* The tree.  A candidate is never in the tree, so a step that changes a   *)
(* candidate leaves the tree alone.                                        *)
(***************************************************************************)
LEMMA TopIsCandidate ==
    ASSUME TypeOK, QueueAgreesWithStatus, AddToTree
    PROVE  Top(queue) \in Ids /\ status[Top(queue)] = "Candidate"
<1>1. pc = "spf" /\ queue # << >> /\ queue \in Seq(Ids)
  BY DEF AddToTree, TypeOK
<1>2. Top(queue) \in Listed(queue)
  BY <1>1 DEF Top, Listed
<1> QED BY <1>1, <1>2 DEF QueueAgreesWithStatus

(* A vertex in the tree is settled: no later step of the calculation       *)
(* changes its distance, parents or exits.                                 *)
THEOREM TreeSettled == Spec => TreeIsSettled
<1> DEFINE Settled == pc = "spf" /\ pc' = "spf" =>
                        \A w \in InTree : /\ w \in InTree'
                                          /\ dist'[w] = dist[w]
                                          /\ parents'[w] = parents[w]
                                          /\ exits'[w] = exits[w]
<1>1. TypeOK /\ QueueAgreesWithStatus /\ [Next]_vars => [Settled]_vars
  <2> SUFFICES ASSUME TypeOK, QueueAgreesWithStatus, Next, pc = "spf", pc' = "spf",
                      NEW x \in InTree
               PROVE  /\ x \in InTree' /\ dist'[x] = dist[x]
                      /\ parents'[x] = parents[x] /\ exits'[x] = exits[x]
    OBVIOUS
  <2> USE DEF topology, vertices, walk
  <2>0. x \in Ids /\ status[x] = "InSpfTree"
    BY DEF InTree
  <2>1. ASSUME UNCHANGED <<lsdb, status, dist, parents, exits>>
        PROVE  /\ x \in InTree' /\ dist'[x] = dist[x]
               /\ parents'[x] = parents[x] /\ exits'[x] = exits[x]
    BY <2>0, <2>1 DEF InTree, Ids
  <2>2. ASSUME NEW w \in Ids, NewCandidate(w) \/ EqualCostPath(w) \/ ShorterPath(w)
        PROVE  /\ x \in InTree' /\ dist'[x] = dist[x]
               /\ parents'[x] = parents[x] /\ exits'[x] = exits[x]
    BY <2>0, <2>2 DEF NewCandidate, EqualCostPath, ShorterPath, NextRecord, TypeOK, InTree, Ids
  <2>3. CASE AddToTree
    BY <2>0, <2>3 DEF AddToTree, TypeOK, InTree, Ids
  <2>4. CASE SkipRecord \/ \E w \in Ids : SkipInTree(w) \/ SkipLongerPath(w)
    BY <2>1, <2>4 DEF SkipRecord, SkipInTree, SkipLongerPath, NextRecord
  <2>5. CASE UNCHANGED vars
    BY <2>1, <2>5 DEF vars
  <2> QED
    BY <2>2, <2>3, <2>4, <2>5
       DEF Next, Step, Stopped, SkipNode, TruncateForStubNode, StartCalculation, FinishRoutes,
           FinishCalculation, MissingLSA, NexthopFails, StartStubs, EnterChild, SkipChild,
           LeaveChild, NextExternal, AtChild, AtEnd
<1> QED BY <1>1, TypeCorrect, QueueAgrees, PTL DEF Spec, TreeIsSettled

(* Why the links of the tree match: while it is built, a vertex is listed  *)
(* by exactly its parents, from the moment it enters the tree.             *)
ChildrenFollowParents ==
    Building =>
        /\ \A u \in Ids : NoDuplicates(children[u])
        /\ \A u, w \in Ids :
              w \in Listed(children[u]) <=> status[w] = "InSpfTree" /\ u \in parents[w]

(* What is listed after push_back.                                         *)
LEMMA AppendLists ==
    ASSUME NEW S, NEW s \in Seq(S), NEW x \in S
    PROVE  /\ Listed(Append(s, x)) = Listed(s) \cup {x}
           /\ NoDuplicates(s) /\ x \notin Listed(s) => NoDuplicates(Append(s, x))
<1>1. /\ Len(Append(s, x)) = Len(s) + 1 /\ Len(s) \in Nat
      /\ \A k \in 1 .. Len(s) : Append(s, x)[k] = s[k]
      /\ Append(s, x)[Len(s) + 1] = x
  OBVIOUS
<1>2. 1 .. Len(s) + 1 = 1 .. Len(s) \cup {Len(s) + 1}
  BY <1>1
<1>3. Listed(Append(s, x)) = Listed(s) \cup {x}
  BY <1>1, <1>2 DEF Listed
<1>4. ASSUME NoDuplicates(s), x \notin Listed(s)
      PROVE  NoDuplicates(Append(s, x))
  <2>1. \A k \in 1 .. Len(s) : s[k] # x
    BY <1>4 DEF Listed
  <2> QED BY <1>1, <1>2, <1>4, <2>1 DEF NoDuplicates
<1> QED BY <1>3, <1>4

(* SPFVertexAddParent, and no other step, changes children, and does so    *)
(* when the parents of the vertex are final.                               *)
LEMMA ChildrenInductive ==
    TypeOK /\ QueueAgreesWithStatus /\ ChildrenFollowParents /\ [Next]_vars
        => ChildrenFollowParents'
<1> SUFFICES ASSUME TypeOK, QueueAgreesWithStatus, ChildrenFollowParents, [Next]_vars
             PROVE  ChildrenFollowParents'
  OBVIOUS
<1> USE DEF topology, vertices, walk
<1>1. CASE ~Building'
  BY <1>1 DEF ChildrenFollowParents
<1>2. CASE Building /\ UNCHANGED <<lsdb, status, parents, children>>
  BY <1>2 DEF ChildrenFollowParents, Ids
<1>3. CASE StartCalculation
  <2>1. /\ children' = [u \in Ids |-> << >>] /\ parents' = [u \in Ids |-> {}]
        /\ UNCHANGED lsdb
    BY <1>3 DEF StartCalculation
  <2>2. Listed(<< >>) = {} /\ NoDuplicates(<< >>)
    BY DEF Listed, NoDuplicates
  <2> QED BY <2>1, <2>2 DEF ChildrenFollowParents, Ids
<1>4. ASSUME NEW w \in Ids, NewCandidate(w) \/ EqualCostPath(w) \/ ShorterPath(w)
      PROVE  ChildrenFollowParents'
  <2>1. /\ Building /\ UNCHANGED <<lsdb, children>> /\ status[w] # "InSpfTree"
        /\ status' \in {status, [status EXCEPT ![w] = "Candidate"]}
        /\ \A x \in Ids \ {w} : parents'[x] = parents[x]
    BY <1>4 DEF NewCandidate, EqualCostPath, ShorterPath, LeadsTo, Examining, Building,
                NextRecord, TypeOK
  <2>2. status'[w] # "InSpfTree" /\ \A x \in Ids \ {w} : status'[x] = status[x]
    BY <2>1 DEF TypeOK
  <2> QED BY <2>1, <2>2 DEF ChildrenFollowParents, Ids
<1>5. CASE AddToTree
  <2> DEFINE w == Top(queue)
  <2>1. /\ Building /\ UNCHANGED <<lsdb, parents>>
        /\ status' = [status EXCEPT ![w] = "InSpfTree"]
        /\ children' = SPFVertexAddParent(w)
    BY <1>5 DEF AddToTree, Building
  <2>2. w \in Ids /\ status[w] = "Candidate"
    BY <1>5, TopIsCandidate
  <2> HIDE DEF w
  <2>3. \A u \in Ids : w \notin Listed(children[u]) /\ NoDuplicates(children[u])
    BY <2>1, <2>2 DEF ChildrenFollowParents
  <2>4. ASSUME NEW u \in Ids
        PROVE  /\ NoDuplicates(children'[u])
               /\ Listed(children'[u]) =
                    Listed(children[u]) \cup (IF u \in parents[w] THEN {w} ELSE {})
    <3>1. children[u] \in Seq(Ids)
      BY DEF TypeOK
    <3>2. CASE u \in parents[w]
      <4>1. children'[u] = Append(children[u], w)
        BY <2>1, <3>2 DEF SPFVertexAddParent
      <4> QED BY <2>2, <2>3, <3>1, <3>2, <4>1, AppendLists
    <3>3. CASE u \notin parents[w]
      <4>1. children'[u] = children[u]
        BY <2>1, <3>3 DEF SPFVertexAddParent
      <4> QED BY <2>3, <3>3, <4>1
    <3> QED BY <3>2, <3>3
  <2>5. ASSUME NEW u \in Ids, NEW x \in Ids
        PROVE  x \in Listed(children'[u]) <=> status'[x] = "InSpfTree" /\ u \in parents'[x]
    <3>1. x \in Listed(children[u]) <=> status[x] = "InSpfTree" /\ u \in parents[x]
      BY <2>1 DEF ChildrenFollowParents
    <3>2. CASE x = w
      BY <2>1, <2>2, <2>3, <2>4, <3>2 DEF TypeOK
    <3>3. CASE x # w
      BY <2>1, <2>2, <2>4, <3>1, <3>3 DEF TypeOK
    <3> QED BY <3>2, <3>3
  <2> QED BY <2>1, <2>4, <2>5 DEF ChildrenFollowParents, Ids
<1>6. CASE SkipRecord \/ \E w \in Ids : SkipInTree(w) \/ SkipLongerPath(w)
  BY <1>2, <1>6 DEF SkipRecord, SkipInTree, SkipLongerPath, LeadsTo, Examining, Building, NextRecord
<1>7. CASE StartStubs \/ EnterChild \/ SkipChild \/ LeaveChild \/ NextExternal
  BY <1>2, <1>7
     DEF StartStubs, EnterChild, SkipChild, LeaveChild, NextExternal, AtChild, AtEnd, Building
<1>8. CASE SkipNode \/ TruncateForStubNode \/ FinishRoutes \/ FinishCalculation \/ MissingLSA
           \/ \E w \in Ids : NexthopFails(w)
  BY <1>1, <1>8
     DEF SkipNode, TruncateForStubNode, FinishRoutes, FinishCalculation, MissingLSA,
         NexthopFails, Building
<1>9. CASE UNCHANGED vars
  BY <1>1, <1>2, <1>9 DEF vars, Building
<1> QED
  BY <1>3, <1>4, <1>5, <1>6, <1>7, <1>8, <1>9 DEF Next, Step, Stopped

(* When the second stage begins and while it runs, parents and children    *)
(* are linked both ways and no child is listed twice, as ~SPFVertex        *)
(* asserts when the tree is deleted.                                       *)
THEOREM TreeLinked == Spec => []TreeIsLinked
<1>1. Init => ChildrenFollowParents
  BY DEF Init, ChildrenFollowParents, Building
<1>2. ChildrenFollowParents => TreeIsLinked
  BY DEF ChildrenFollowParents, TreeIsLinked, Building, InTree
<1> QED
  BY <1>1, <1>2, TypeCorrect, QueueAgrees, ChildrenInductive, PTL DEF Spec
-----------------------------------------------------------------------------
(***************************************************************************)
(* Dijkstra's argument.  A record of a vertex in the tree has been         *)
(* examined unless it is still ahead of SPFNext in the current vertex.     *)
(***************************************************************************)
Edge(u, k, w) ==
    /\ k \in 1 .. NumRecords(u) /\ ~IsStubRecord(u, k)
    /\ Neighbours(u, k) # {} /\ w = Neighbour(u, k)

Explored(u, k) == status[u] = "InSpfTree" /\ (u = v => k < i)

Known(w) == status[w] # "NotExplored"

(* Where the calculation is: the current vertex and the root are in the    *)
(* tree, and when the walks begin nothing is left to examine.              *)
Progress ==
    /\ status[v] = "InSpfTree" /\ status[root] = "InSpfTree"
    /\ dist[root] = 0 /\ parents[root] = {}
    /\ v = root => InTree = {root}
    /\ pc = "walk" => i > NumRecords(v) /\ \A x \in Ids : status[x] # "Candidate"

(* The current vertex is the last of the tree and before every candidate.  *)
Frontier ==
    \A x \in Ids : /\ status[x] = "InSpfTree" => dist[x] <= dist[v]
                   /\ status[x] = "Candidate" => dist[v] <= dist[x]

(* An examined record leads to a known vertex, no farther than through it. *)
Relaxed ==
    \A u, w \in Ids : \A k \in 1 .. NumRecords(u) :
        Edge(u, k, w) /\ Explored(u, k) => Known(w) /\ dist[w] <= dist[u] + Cost(u, k)

(* A known vertex has a parent, and each was examined on a shortest way.   *)
ParentsAreTight ==
    \A w \in Ids \ {root} :
        Known(w) =>
            /\ parents[w] # {}
            /\ \A u \in parents[w] : \E k \in 1 .. NumRecords(u) :
                  Edge(u, k, w) /\ Explored(u, k) /\ dist[w] = dist[u] + Cost(u, k)

(* The distance of a vertex is that of a path no longer than the tree is   *)
(* large.                                                                  *)
PathsAreShort ==
    LET D == DistancesWithin(Edges, root)
        c == Cardinality(InTree)
    IN  \A x \in Ids :
          /\ status[x] = "InSpfTree" => x \in DOMAIN D[c - 1] /\ D[c - 1][x] <= dist[x]
          /\ status[x] = "Candidate" => x \in DOMAIN D[c] /\ D[c][x] <= dist[x]

(* The tree is reached from its root along parents.                        *)
TreeIsConnected ==
    \A S \in SUBSET Ids :
        /\ root \in S
        /\ \A w \in InTree \ {root} : parents[w] \cap S # {} => w \in S
        => InTree \subseteq S

Dijkstra ==
    Building => /\ Progress /\ Frontier /\ Relaxed /\ ParentsAreTight
                /\ PathsAreShort /\ TreeIsConnected

(* Links between routers cost something (the default metric is 1).         *)
PositiveMetrics ==
    \A u \in Ids \ NetworkVertices : \A k \in 1 .. NumRecords(u) :
        ~IsStubRecord(u, k) => Cost(u, k) > 0

(* The order of the candidate list, not only of distances: nothing of the  *)
(* tree but the root ranks behind the current vertex.                      *)
RankedFrontier ==
    \A x \in Ids \ {root} :
        /\ status[x] = "InSpfTree" => ~CompareSPFVertex(dist, NetworkVertices, v, x)
        /\ status[x] = "Candidate" /\ v # root
              => ~CompareSPFVertex(dist, NetworkVertices, x, v)

(* No examined record on a shortest way was left out. *)
ParentsAreAll ==
    \A u, w \in Ids : \A k \in 1 .. NumRecords(u) :
        /\ Edge(u, k, w) /\ Explored(u, k) /\ w # root
        /\ dist[w] = dist[u] + Cost(u, k)
        => u \in parents[w]

EqualCost == Building /\ PositiveMetrics => RankedFrontier /\ ParentsAreAll

(* Where the walk is, with the calls s and the vertices p done with: each  *)
(* call is for a child of the one below, whose earlier children are done.  *)
Calls(s, p) ==
    /\ s[1][1] = root
    /\ \A m \in 1 .. Len(s) :
          /\ s[m][1] \in InTree
          /\ \A c \in 1 .. s[m][2] - 1 :
                c \in 1 .. Len(children[s[m][1]]) => children[s[m][1]][c] \in p
    /\ \A m \in 2 .. Len(s) :
          /\ s[m - 1][2] \in 1 .. Len(children[s[m - 1][1]])
          /\ s[m][1] = children[s[m - 1][1]][s[m - 1][2]]

(* With a vertex its children are done. *)
Done(p) ==
    /\ p \subseteq InTree \ {root}
    /\ \A x \in p : Listed(children[x]) \subseteq p

(* The vertices visited so far have their routes. *)
Entered(s, p) == p \cup {s[m][1] : m \in 1 .. Len(s)}

WalkInvariant ==
    pc = "walk" =>
        /\ Calls(stack, processed) /\ Done(processed)
        /\ pass = 0 => \A u \in Entered(stack, processed) \ NetworkVertices :
                            SPFIntraAddStub(u) \subseteq routes[node].network

-----------------------------------------------------------------------------
(***************************************************************************)
(* The graph of the database.                                              *)
(***************************************************************************)
(* A record leads to an LSA, at a natural cost.                            *)
LEMMA EdgeType ==
    ASSUME TypeOK, NEW u \in Ids
    PROVE  /\ NumRecords(u) \in Nat
           /\ \A k \in 1 .. NumRecords(u) : Cost(u, k) \in Nat
           /\ \A k, w : Edge(u, k, w) => w \in Ids
<1>1. lsdb[u] \in LSAType /\ Ids \subseteq Nat
  BY DEF TypeOK, WellFormed, WellFormedDatabase, Ids
<1>2. lsdb[u].links \in Seq(LinkRecordType) /\ lsdb[u].attached \in Seq(Nat)
  BY <1>1 DEF LSAType
<1>3. NumRecords(u) \in Nat
  BY <1>2 DEF NumRecords
<1>4. ASSUME NEW k \in 1 .. NumRecords(u) PROVE Cost(u, k) \in Nat
  <2>1. CASE u \in NetworkVertices
    BY <2>1 DEF Cost
  <2>2. CASE u \notin NetworkVertices
    <3>1. k \in DOMAIN lsdb[u].links
      BY <1>2, <2>2 DEF NumRecords
    <3> QED BY <2>2, <3>1, RecordFields DEF Cost
  <2> QED BY <2>1, <2>2
<1>5. ASSUME NEW k, NEW w, Edge(u, k, w) PROVE w \in Ids
  <2>1. Neighbours(u, k) \in SUBSET Ids
    BY DEF Neighbours, LSAsByLinkData, Ids
  <2>2. Neighbours(u, k) \in SUBSET Nat /\ Neighbours(u, k) # {}
    BY <1>1, <1>5, <2>1 DEF Edge
  <2>3. \E m \in Neighbours(u, k) : \A x \in Neighbours(u, k) : m <= x
    BY <2>2, SmallestOf
  <2>4. Neighbour(u, k) \in Neighbours(u, k)
    BY <2>3 DEF Neighbour
  <2> QED BY <1>5, <2>1, <2>4 DEF Edge
<1> QED BY <1>3, <1>4, <1>5

(* The edges of the reference graph are those of the records.              *)
LEMMA EdgesAreRecords ==
    /\ \A u \in Ids : \A k, w : Edge(u, k, w) => <<u, w, Cost(u, k)>> \in Edges
    /\ \A e \in Edges : \E u \in Ids : \E k, w : Edge(u, k, w) /\ e = <<u, w, Cost(u, k)>>
<1>1. ASSUME NEW u \in Ids, NEW k, NEW w, Edge(u, k, w)
      PROVE  <<u, w, Cost(u, k)>> \in Edges
  BY <1>1 DEF Edge, Edges
<1>2. ASSUME NEW e \in Edges
      PROVE  \E u \in Ids : \E k, w : Edge(u, k, w) /\ e = <<u, w, Cost(u, k)>>
  BY <1>2 DEF Edge, Edges
<1> QED BY <1>1, <1>2

(* The graph depends on the database only.                                 *)
LEMMA GraphUnchanged ==
    ASSUME UNCHANGED lsdb
    PROVE  /\ Ids' = Ids /\ NetworkVertices' = NetworkVertices
           /\ \A u : NumRecords(u)' = NumRecords(u)
           /\ \A u, k : Cost(u, k)' = Cost(u, k)
           /\ \A u, k, w : Edge(u, k, w)' <=> Edge(u, k, w)
           /\ Edges' = Edges
           /\ PositiveMetrics' <=> PositiveMetrics
<1>1. Ids' = Ids
  BY DEF Ids
<1>2. NetworkVertices' = NetworkVertices
  BY <1>1 DEF NetworkVertices
<1>3. \A u : NumRecords(u)' = NumRecords(u)
  BY <1>2 DEF NumRecords
<1>4. \A u, k : Cost(u, k)' = Cost(u, k)
  BY <1>2 DEF Cost
<1>5. \A u, k : IsStubRecord(u, k)' <=> IsStubRecord(u, k)
  BY <1>2 DEF IsStubRecord
<1>6. \A u, k : Neighbours(u, k)' = Neighbours(u, k)
  BY <1>1, <1>2, Zenon DEF Neighbours
<1>7. \A u, k : Neighbour(u, k)' = Neighbour(u, k)
  BY <1>6, Zenon DEF Neighbour
<1>8. \A u, k, w : Edge(u, k, w)' <=> Edge(u, k, w)
  BY <1>3, <1>5, <1>6, <1>7, Zenon DEF Edge
<1>9. Edges' = Edges
  BY <1>1, <1>3, <1>4, <1>5, <1>6, <1>7 DEF Edges
<1>10. PositiveMetrics' <=> PositiveMetrics
  BY <1>1, <1>2, <1>3, <1>4, <1>5, Zenon DEF PositiveMetrics
<1> QED BY <1>1, <1>2, <1>3, <1>4, <1>8, <1>9, <1>10

(* The recursion that defines the distances has a solution, and so they    *)
(* satisfy it.                                                             *)
LEMMA DistancesRecursion ==
    ASSUME NEW edges, NEW r
    PROVE  /\ DistancesWithin(edges, r)[0] = [w \in {r} |-> 0]
           /\ \A n \in Nat : DistancesWithin(edges, r)[n + 1] =
                            Relax(edges, DistancesWithin(edges, r)[n])
<1> DEFINE D == DistancesWithin(edges, r)
           zero == [w \in {r} |-> 0]
           Is(f, m) == f = [k \in 0 .. m |->
                IF k = 0 THEN zero ELSE Relax(edges, f[k - 1])]
           h == [n \in Nat |-> (CHOOSE f : Is(f, n))[n]]
<1> HIDE DEF zero, D
<1>1. ASSUME NEW n \in Nat PROVE \E f : Is(f, n)
  <2> DEFINE A == {m \in Nat : ~\E f : Is(f, m)}
  <2> HIDE DEF Is
  <2>1. SUFFICES ASSUME A # {} PROVE FALSE
    OBVIOUS
  <2>2. PICK m \in A : \A x \in A : m <= x
    BY <2>1, SmallestOf
  <2>3. m # 0
    <3>1. Is([k \in 0 .. 0 |-> zero], 0)
      BY DEF Is
    <3> QED BY <2>2, <3>1
  <2>4. m - 1 \in Nat /\ m - 1 \notin A
    BY <2>2, <2>3
  <2>5. PICK f : Is(f, m - 1)
    BY <2>4
  <2> DEFINE g == [k \in 0 .. m |-> IF k = m THEN Relax(edges, f[m - 1]) ELSE f[k]]
             e == [k \in 0 .. m |-> IF k = 0 THEN zero ELSE Relax(edges, g[k - 1])]
  <2>6. ASSUME NEW k \in 0 .. m PROVE g[k] = e[k]
    <3>1. CASE k = m
      BY <2>2, <2>3, <3>1
    <3>2. CASE k # m
      <4>0. k \in 0 .. m - 1
        BY <2>2, <3>2
      <4>1. f[k] = IF k = 0 THEN zero ELSE Relax(edges, f[k - 1])
        BY <2>5, <4>0 DEF Is
      <4>2. k # 0 => g[k - 1] = f[k - 1]
        BY <2>2, <3>2
      <4> QED BY <3>2, <4>1, <4>2
    <3> QED BY <3>1, <3>2
  <2>7. g = e
    BY <2>6
  <2> QED BY <2>2, <2>7 DEF Is
<1>2. ASSUME NEW m \in Nat, NEW n \in Nat, NEW f, NEW g, Is(f, m), Is(g, n)
      PROVE  \A k \in Nat : k <= m /\ k <= n => f[k] = g[k]
  <2> DEFINE A == {k \in Nat : k <= m /\ k <= n /\ f[k] # g[k]}
  <2>1. SUFFICES ASSUME A # {} PROVE FALSE
    OBVIOUS
  <2>2. PICK k \in A : \A x \in A : k <= x
    <3> HIDE DEF A
    <3>1. A \in SUBSET Nat
      BY DEF A
    <3> QED BY <2>1, <3>1, SmallestOf
  <2>3. /\ f[k] = IF k = 0 THEN zero ELSE Relax(edges, f[k - 1])
        /\ g[k] = IF k = 0 THEN zero ELSE Relax(edges, g[k - 1])
    BY <1>2, <2>2
  <2>4. k # 0
    BY <2>2, <2>3
  <2>5. k - 1 \in Nat /\ k - 1 \notin A /\ k - 1 <= m /\ k - 1 <= n
    BY <2>2, <2>4
  <2>6. f[k - 1] = g[k - 1]
    BY <2>5
  <2> QED BY <2>2, <2>3, <2>4, <2>6
<1>3. ASSUME NEW n \in Nat
      PROVE  h[n] = IF n = 0 THEN zero ELSE Relax(edges, h[n - 1])
  <2> DEFINE f == CHOOSE x : Is(x, n)
             g == CHOOSE x : Is(x, n - 1)
  <2> HIDE DEF Is
  <2>1. Is(f, n)
    BY <1>1
  <2>2. n # 0 => Is(g, n - 1)
    BY <1>1
  <2>3. h[n] = f[n] /\ (n # 0 => h[n - 1] = g[n - 1])
    OBVIOUS
  <2> HIDE DEF f, g, h
  <2>4. n # 0 => f[n - 1] = g[n - 1]
    <3> SUFFICES ASSUME n # 0 PROVE f[n - 1] = g[n - 1]
      OBVIOUS
    <3>1. n - 1 \in Nat /\ n - 1 <= n /\ n - 1 <= n - 1
      OBVIOUS
    <3> QED BY <1>2, <2>1, <2>2, <3>1
  <2>5. f[n] = IF n = 0 THEN zero ELSE Relax(edges, f[n - 1])
    BY <2>1 DEF Is
  <2> QED BY <2>3, <2>4, <2>5
<1> DEFINE E == [n \in Nat |-> IF n = 0 THEN zero ELSE Relax(edges, h[n - 1])]
<1>4. h = E
  <2> HIDE DEF Is
  <2>1. \A n \in Nat : h[n] = E[n]
    <3> HIDE DEF h
    <3> QED BY <1>3
  <2> QED BY <2>1
<1> DEFINE F[n \in Nat] == IF n = 0 THEN zero ELSE Relax(edges, F[n - 1])
<1>5. F = [n \in Nat |-> IF n = 0 THEN zero ELSE Relax(edges, F[n - 1])]
  <2> HIDE DEF h
  <2>1. \E f : f = [n \in Nat |-> IF n = 0 THEN zero ELSE Relax(edges, f[n - 1])]
    BY <1>4
  <2> QED BY <2>1
<1>6. D = F
  BY Zenon DEF DistancesWithin, zero, D
<1> HIDE DEF F
<1>7. D[0] = zero /\ \A n \in Nat : D[n + 1] = Relax(edges, D[n])
  <2>1. D[0] = zero
    BY <1>5, <1>6
  <2>2. ASSUME NEW n \in Nat PROVE D[n + 1] = Relax(edges, D[n])
    <3>1. n + 1 \in Nat /\ n + 1 # 0 /\ (n + 1) - 1 = n
      OBVIOUS
    <3> QED BY <1>5, <1>6, <3>1
  <2> QED BY <2>1, <2>2
<1> QED BY <1>7 DEF zero, D

(* Graphs over a set S of vertices, and distances of some of them. *)
Graphs(S) == SUBSET (S \X S \X Nat)

DistancesOf(S) == UNION {[A -> Nat] : A \in SUBSET S}

(* A round keeps what is known or improves on it, uses every edge from a   *)
(* known vertex, and uses nothing else.                                    *)
Round(edges, known, new) ==
    /\ \A x \in DOMAIN known : x \in DOMAIN new /\ new[x] <= known[x]
    /\ \A e \in edges : e[1] \in DOMAIN known =>
          e[2] \in DOMAIN new /\ new[e[2]] <= known[e[1]] + e[3]
    /\ \A w \in DOMAIN new :
          \/ w \in DOMAIN known /\ new[w] = known[w]
          \/ \E e \in edges : /\ e[1] \in DOMAIN known /\ e[2] = w
                              /\ new[w] = known[e[1]] + e[3]

(* Distances are functions from vertices to natural numbers.               *)
LEMMA DistancesOfIs ==
    ASSUME NEW S, NEW D
    PROVE  D \in DistancesOf(S) <=> DOMAIN D \subseteq S /\ D \in [DOMAIN D -> Nat]
<1>1. ASSUME D \in DistancesOf(S) PROVE DOMAIN D \subseteq S /\ D \in [DOMAIN D -> Nat]
  <2>1. PICK A \in SUBSET S : D \in [A -> Nat]
    BY <1>1 DEF DistancesOf
  <2> QED BY <2>1
<1>2. ASSUME DOMAIN D \subseteq S, D \in [DOMAIN D -> Nat] PROVE D \in DistancesOf(S)
  BY <1>2 DEF DistancesOf
<1> QED BY <1>1, <1>2

(* Relax makes such a round.                                               *)
LEMMA RelaxRound ==
    ASSUME NEW S, NEW edges \in Graphs(S), NEW known \in DistancesOf(S)
    PROVE  /\ Relax(edges, known) \in DistancesOf(S)
           /\ Round(edges, known, Relax(edges, known))
<1> DEFINE R == Relax(edges, known)
           A == DOMAIN known
           B == A \cup {e[2] : e \in {f \in edges : f[1] \in A}}
<1>0. /\ \A e \in edges : e[1] \in S /\ e[2] \in S /\ e[3] \in Nat
      /\ A \subseteq S /\ known \in [A -> Nat]
  BY DistancesOfIs DEF Graphs
<1>1. R = [w \in B |-> Min(Ways(edges, known, w))]
  BY DEF Relax
<1> HIDE DEF R, A
<1>2. ASSUME NEW w, NEW n
      PROVE  n \in Ways(edges, known, w) <=>
                \/ w \in A /\ n = known[w]
                \/ \E e \in edges : e[1] \in A /\ e[2] = w /\ n = known[e[1]] + e[3]
  BY DEF Ways, A
<1>3. ASSUME NEW w \in B
      PROVE  /\ R[w] \in Nat /\ R[w] \in Ways(edges, known, w)
             /\ \A n \in Ways(edges, known, w) : R[w] <= n
  <2> DEFINE W == Ways(edges, known, w)
  <2>1. W \in SUBSET Nat
    <3> SUFFICES ASSUME NEW n \in W PROVE n \in Nat
      OBVIOUS
    <3>1. CASE w \in A /\ n = known[w]
      BY <1>0, <3>1
    <3>2. ASSUME NEW e \in edges, e[1] \in A, n = known[e[1]] + e[3] PROVE n \in Nat
      BY <1>0, <3>2
    <3> QED BY <1>2, <3>1, <3>2
  <2>2. W # {}
    <3>1. CASE w \in A
      BY <1>2, <3>1
    <3>2. CASE w \notin A
      <4>1. PICK e \in edges : e[1] \in A /\ e[2] = w
        BY <3>2
      <4> QED BY <1>2, <4>1
    <3> QED BY <3>1, <3>2
  <2> HIDE DEF W
  <2>3. PICK m \in W : \A x \in W : m <= x
    BY <2>1, <2>2, SmallestOf
  <2>4. Min(W) \in W /\ \A x \in W : Min(W) <= x
    BY <2>3 DEF Min
  <2> QED BY <1>1, <2>1, <2>4 DEF W
<1>4. DOMAIN R = B
  BY <1>1
<1>5. R \in DistancesOf(S)
  <2>1. B \subseteq S
    BY <1>0
  <2>2. R \in [B -> Nat]
    <3> HIDE DEF B
    <3> QED BY <1>1, <1>3
  <2> QED BY <1>4, <2>1, <2>2, DistancesOfIs
<1>6. \A x \in A : x \in DOMAIN R /\ R[x] <= known[x]
  BY <1>2, <1>3, <1>4
<1>7. \A e \in edges : e[1] \in A => e[2] \in DOMAIN R /\ R[e[2]] <= known[e[1]] + e[3]
  BY <1>2, <1>3, <1>4
<1>8. \A w \in DOMAIN R :
                 \/ w \in A /\ R[w] = known[w]
                 \/ \E e \in edges : e[1] \in A /\ e[2] = w /\ R[w] = known[e[1]] + e[3]
  BY <1>2, <1>3, <1>4
<1> QED BY <1>5, <1>6, <1>7, <1>8 DEF R, A, Round

(* What n rounds give are distances, and one more round improves on them.  *)
LEMMA DistancesRound ==
    ASSUME NEW S, NEW edges \in Graphs(S), NEW r \in S, NEW n \in Nat
    PROVE  /\ DistancesWithin(edges, r)[n] \in DistancesOf(S)
           /\ Round(edges, DistancesWithin(edges, r)[n], DistancesWithin(edges, r)[n + 1])
<1> DEFINE D == DistancesWithin(edges, r)
           A == {k \in Nat : D[k] \notin DistancesOf(S)}
<1>1. D[0] = [w \in {r} |-> 0] /\ \A k \in Nat : D[k + 1] = Relax(edges, D[k])
  BY DistancesRecursion
<1> HIDE DEF D
<1>2. A = {}
  <2>1. SUFFICES ASSUME A # {} PROVE FALSE
    OBVIOUS
  <2>2. PICK k \in A : \A x \in A : k <= x
    <3> HIDE DEF A
    <3>1. A \in SUBSET Nat
      BY DEF A
    <3> QED BY <2>1, <3>1, SmallestOf
  <2>3. k # 0
    BY <1>1, <2>2, DistancesOfIs
  <2>4. k - 1 \in Nat /\ k - 1 \notin A /\ (k - 1) + 1 = k
    BY <2>2, <2>3
  <2>5. D[k - 1] \in DistancesOf(S) /\ D[k] = Relax(edges, D[k - 1])
    <3>1. D[(k - 1) + 1] = Relax(edges, D[k - 1])
      BY <1>1, <2>4
    <3> QED BY <2>4, <3>1
  <2>6. D[k] \in DistancesOf(S)
    BY <2>5, RelaxRound
  <2> QED BY <2>2, <2>6
<1>3. D[n] \in DistancesOf(S)
  BY <1>2
<1>4. Round(edges, D[n], D[n + 1])
  BY <1>1, <1>3, RelaxRound
<1> QED BY <1>3, <1>4 DEF D

(* More rounds never make a distance longer.                               *)
LEMMA DistancesShrink ==
    ASSUME NEW S, NEW edges \in Graphs(S), NEW r \in S,
           NEW m \in Nat, NEW n \in Nat, m <= n,
           NEW x \in DOMAIN DistancesWithin(edges, r)[m]
    PROVE  /\ x \in DOMAIN DistancesWithin(edges, r)[n]
           /\ DistancesWithin(edges, r)[n][x] <= DistancesWithin(edges, r)[m][x]
<1> DEFINE D == DistancesWithin(edges, r)
           Shrunk(k) == x \in DOMAIN D[k] /\ D[k][x] <= D[m][x]
           A == {k \in Nat : m <= k /\ ~Shrunk(k)}
<1>1. \A k \in Nat : D[k] \in DistancesOf(S) /\ Round(edges, D[k], D[k + 1])
  BY DistancesRound
<1>2. \A k \in Nat : D[k] \in [DOMAIN D[k] -> Nat]
  <2> HIDE DEF D
  <2> QED BY <1>1, DistancesOfIs
<1>3. x \in DOMAIN D[m]
  OBVIOUS
<1> HIDE DEF D
<1>4. SUFFICES ASSUME A # {} PROVE FALSE
  BY DEF D
<1>5. PICK k \in A : \A y \in A : k <= y
  <2> HIDE DEF A
  <2>1. A \in SUBSET Nat
    BY DEF A
  <2> QED BY <1>4, <2>1, SmallestOf
<1>6. Shrunk(m)
  BY <1>2, <1>3
<1>7. k # m
  BY <1>5, <1>6
<1>8. k - 1 \in Nat /\ m <= k - 1 /\ k - 1 \notin A /\ (k - 1) + 1 = k
  BY <1>5, <1>7
<1>9. Shrunk(k - 1)
  BY <1>8
<1>10. x \in DOMAIN D[k] /\ D[k][x] <= D[k - 1][x]
  <2>1. Round(edges, D[k - 1], D[(k - 1) + 1])
    BY <1>1, <1>8
  <2> QED BY <1>8, <1>9, <2>1 DEF Round
<1>11. D[m][x] \in Nat /\ D[k - 1][x] \in Nat /\ D[k][x] \in Nat
  BY <1>2, <1>3, <1>5, <1>8, <1>9, <1>10
<1> QED BY <1>5, <1>9, <1>10, <1>11

(* The edges are a graph over the LSAs.                                    *)
LEMMA EdgesAreGraph ==
    ASSUME TypeOK
    PROVE  Edges \in Graphs(Ids)
<1> SUFFICES ASSUME NEW e \in Edges PROVE e \in Ids \X Ids \X Nat
  BY DEF Graphs
<1>1. PICK u, k, w : u \in Ids /\ Edge(u, k, w) /\ e = <<u, w, Cost(u, k)>>
  BY EdgesAreRecords
<1>2. w \in Ids /\ Cost(u, k) \in Nat
  <2>1. k \in 1 .. NumRecords(u)
    BY <1>1 DEF Edge
  <2> QED BY <1>1, <2>1, EdgeType
<1> QED BY <1>1, <1>2

(* What PathsAreShort says of one vertex, and how it grows.                *)
LEMMA LongerPaths ==
    ASSUME TypeOK, root \in Ids, NEW n \in Nat, NEW x \in Ids,
           x \in DOMAIN DistancesWithin(Edges, root)[n],
           DistancesWithin(Edges, root)[n][x] <= dist[x]
    PROVE  /\ x \in DOMAIN DistancesWithin(Edges, root)[n + 1]
           /\ DistancesWithin(Edges, root)[n + 1][x] <= dist[x]
           /\ \A k, w : Edge(x, k, w) =>
                 /\ w \in DOMAIN DistancesWithin(Edges, root)[n + 1]
                 /\ DistancesWithin(Edges, root)[n + 1][w] <= dist[x] + Cost(x, k)
<1> DEFINE D == DistancesWithin(Edges, root)
<1>1. Edges \in Graphs(Ids) /\ n + 1 \in Nat
  BY EdgesAreGraph
<1>2. /\ D[n] \in DistancesOf(Ids) /\ D[n + 1] \in DistancesOf(Ids)
      /\ Round(Edges, D[n], D[n + 1])
  BY <1>1, DistancesRound
<1> HIDE DEF D
<1>3. D[n] \in [DOMAIN D[n] -> Nat] /\ D[n + 1] \in [DOMAIN D[n + 1] -> Nat]
  BY <1>2, DistancesOfIs
<1>4. x \in DOMAIN D[n] /\ D[n][x] <= dist[x] /\ dist[x] \in Nat
  BY DEF D, TypeOK
<1>5. x \in DOMAIN D[n + 1] /\ D[n + 1][x] <= dist[x]
  <2>1. x \in DOMAIN D[n + 1] /\ D[n + 1][x] <= D[n][x]
    BY <1>2, <1>4 DEF Round
  <2>2. D[n + 1][x] \in Nat /\ D[n][x] \in Nat
    BY <1>3, <1>4, <2>1
  <2> QED BY <1>4, <2>1, <2>2
<1>6. ASSUME NEW k, NEW w, Edge(x, k, w)
      PROVE  w \in DOMAIN D[n + 1] /\ D[n + 1][w] <= dist[x] + Cost(x, k)
  <2> DEFINE e == <<x, w, Cost(x, k)>>
  <2>1. e \in Edges
    BY <1>6, EdgesAreRecords
  <2>2. e[1] = x /\ e[2] = w /\ e[3] = Cost(x, k)
    OBVIOUS
  <2> HIDE DEF e
  <2>3. e[2] \in DOMAIN D[n + 1] /\ D[n + 1][e[2]] <= D[n][e[1]] + e[3]
    BY <1>2, <1>4, <2>1, <2>2 DEF Round
  <2>4. Cost(x, k) \in Nat
    BY <1>6, EdgeType DEF Edge
  <2>5. D[n + 1][w] \in Nat /\ D[n][x] \in Nat
    BY <1>3, <1>4, <2>2, <2>3
  <2> QED BY <1>4, <2>2, <2>3, <2>4, <2>5
<1> QED BY <1>5, <1>6 DEF D

(* The size of the tree.                                                   *)
LEMMA TreeSize ==
    ASSUME TypeOK
    PROVE  /\ IsFiniteSet(Ids) /\ IsFiniteSet(InTree)
           /\ Cardinality(InTree) \in Nat /\ Cardinality(Ids) \in Nat
           /\ Cardinality(InTree) <= Cardinality(Ids)
           /\ InTree # {} => Cardinality(InTree) - 1 \in Nat
<1>1. IsFiniteSet(Ids) /\ InTree \subseteq Ids
  BY DEF TypeOK, WellFormed, WellFormedDatabase, Ids, InTree
<1>2. /\ IsFiniteSet(InTree) /\ Cardinality(InTree) \in Nat /\ Cardinality(Ids) \in Nat
      /\ Cardinality(InTree) <= Cardinality(Ids)
  BY <1>1, FS_Subset, FS_CardinalityType
<1>3. InTree # {} => Cardinality(InTree) # 0
  BY <1>2, FS_EmptySet
<1> QED BY <1>1, <1>2, <1>3

-----------------------------------------------------------------------------
(***************************************************************************)
(* Dijkstra's invariant is kept by each kind of step.                      *)
(***************************************************************************)
(* The root alone is in the tree.                                          *)
LEMMA DijkstraStart ==
    ASSUME TypeOK, TypeOK', StartCalculation
    PROVE  Dijkstra'
<1> DEFINE r == RouterId(net, node)
<1>1. /\ UNCHANGED lsdb /\ pc' = "spf" /\ root' = r /\ v' = r /\ i' = 1
      /\ status' = [id \in Ids |-> IF id = r THEN "InSpfTree" ELSE "NotExplored"]
      /\ dist' = [id \in Ids |-> 0] /\ parents' = [id \in Ids |-> {}]
  BY DEF StartCalculation, InitialStatus, topology
<1>2. r \in Ids
  BY RootHasLSA DEF StartCalculation
<1> HIDE DEF r
<1>3. Ids' = Ids /\ Edges' = Edges
  BY <1>1, GraphUnchanged
<1>4. InTree' = {r}
  BY <1>1, <1>2, <1>3 DEF InTree
<1>5. Progress'
  BY <1>1, <1>2, <1>4 DEF Progress
<1>6. Frontier'
  BY <1>1, <1>2, <1>3 DEF Frontier
<1>7. Relaxed'
  <2>1. \A u \in Ids', k \in Nat : k >= 1 => ~Explored(u, k)'
    BY <1>1, <1>3 DEF Explored
  <2>2. \A u \in Ids' : \A k \in 1 .. NumRecords(u)' : k \in Nat /\ k >= 1
    OBVIOUS
  <2> QED BY <2>1, <2>2 DEF Relaxed
<1>8. ParentsAreTight'
  BY <1>1, <1>3 DEF ParentsAreTight, Known
<1>9. PathsAreShort'
  <2> DEFINE D == DistancesWithin(Edges, r)
  <2>1. D[0] = [w \in {r} |-> 0]
    BY DistancesRecursion
  <2>2. DistancesWithin(Edges, root)' = D
    BY <1>1, <1>3
  <2>3. Cardinality(InTree') - 1 = 0
    BY <1>4, FS_Singleton
  <2> HIDE DEF D
  <2>4. ASSUME NEW x \in Ids
        PROVE  /\ status'[x] = "InSpfTree" => x \in DOMAIN D[0] /\ D[0][x] <= dist'[x]
               /\ status'[x] # "Candidate"
    BY <1>1, <2>1
  <2> QED BY <1>3, <2>2, <2>3, <2>4 DEF PathsAreShort
<1>10. TreeIsConnected'
  BY <1>1, <1>4 DEF TreeIsConnected
<1> QED BY <1>5, <1>6, <1>7, <1>8, <1>9, <1>10 DEF Dijkstra

(* The next record is examined and changes nothing.                        *)
LEMMA DijkstraSkip ==
    ASSUME TypeOK, Dijkstra, Examining, i' = i + 1,
           UNCHANGED <<lsdb, pc, root, v, status, dist, parents>>,
           \A w \in Ids : Edge(v, i, w) => Known(w) /\ dist[w] <= dist[v] + Cost(v, i)
    PROVE  Dijkstra'
<1>0. pc = "spf" /\ Building /\ Building' /\ v \in Ids /\ root \in Ids
  BY DEF Examining, Building, TypeOK
<1>1. /\ Progress /\ Frontier /\ Relaxed /\ ParentsAreTight /\ PathsAreShort
      /\ TreeIsConnected
  BY <1>0 DEF Dijkstra
<1>2. /\ Ids' = Ids /\ Edges' = Edges /\ InTree' = InTree
      /\ \A u : NumRecords(u)' = NumRecords(u)
      /\ \A u, k : Cost(u, k)' = Cost(u, k)
      /\ \A u, k, w : Edge(u, k, w)' <=> Edge(u, k, w)
  <2>1. InTree' = InTree
    BY DEF InTree, Ids
  <2> QED BY <2>1, GraphUnchanged
<1>3. Progress'
  BY <1>0, <1>1, <1>2 DEF Progress
<1>4. Frontier'
  BY <1>1, <1>2 DEF Frontier
<1>5. i \in Nat /\ \A u \in Ids : NumRecords(u) \in Nat
  BY EdgeType DEF TypeOK
<1>6. ASSUME NEW u \in Ids, NEW k \in 1 .. NumRecords(u)
      PROVE  Explored(u, k)' <=> Explored(u, k) \/ (u = v /\ k = i)
  <2>1. k \in Nat /\ status[v] = "InSpfTree"
    BY <1>1, <1>5 DEF Progress
  <2> QED BY <1>5, <2>1 DEF Explored
<1>7. Relaxed'
  <2> SUFFICES ASSUME NEW u \in Ids, NEW w \in Ids, NEW k \in 1 .. NumRecords(u),
                      Edge(u, k, w), Explored(u, k)'
               PROVE  Known(w) /\ dist[w] <= dist[u] + Cost(u, k)
    BY <1>2 DEF Relaxed, Known
  <2> QED BY <1>1, <1>6 DEF Relaxed
<1>8. ParentsAreTight'
  <2> SUFFICES ASSUME NEW w \in Ids \ {root}, Known(w)
               PROVE  /\ parents[w] # {}
                      /\ \A u \in parents[w] : \E k \in 1 .. NumRecords(u) :
                            Edge(u, k, w) /\ Explored(u, k)' /\ dist[w] = dist[u] + Cost(u, k)
    BY <1>2 DEF ParentsAreTight, Known
  <2>1. parents[w] # {} /\ parents[w] \subseteq Ids
    BY <1>1 DEF ParentsAreTight, TypeOK
  <2>2. ASSUME NEW u \in parents[w]
        PROVE  \E k \in 1 .. NumRecords(u) :
                  Edge(u, k, w) /\ Explored(u, k)' /\ dist[w] = dist[u] + Cost(u, k)
    <3>1. PICK k \in 1 .. NumRecords(u) :
                  Edge(u, k, w) /\ Explored(u, k) /\ dist[w] = dist[u] + Cost(u, k)
      BY <1>1 DEF ParentsAreTight
    <3> QED BY <1>6, <2>1, <3>1
  <2> QED BY <2>1, <2>2
<1>9. PathsAreShort'
  BY <1>1, <1>2 DEF PathsAreShort
<1>10. TreeIsConnected'
  BY <1>1, <1>2 DEF TreeIsConnected
<1> QED BY <1>3, <1>4, <1>7, <1>8, <1>9, <1>10 DEF Dijkstra

(* The next record puts w on the list, at the distance through v, or finds *)
(* it there at a distance no smaller.                                      *)
Improved(w) ==
    /\ LeadsTo(w) /\ status[w] # "InSpfTree" /\ i' = i + 1
    /\ UNCHANGED <<lsdb, pc, root, v>>
    /\ status' = [status EXCEPT ![w] = "Candidate"]
    /\ dist' = [dist EXCEPT ![w] = Distance]
    /\ \/ /\ status[w] = "NotExplored" \/ Distance < dist[w]
          /\ parents' = [parents EXCEPT ![w] = {v}]
       \/ /\ status[w] = "Candidate" /\ Distance = dist[w]
          /\ parents' = [parents EXCEPT ![w] = @ \cup {v}]

(* The three actions that change a candidate do so.                        *)
LEMMA RecordImproves ==
    ASSUME TypeOK, NEW w \in Ids, NewCandidate(w) \/ EqualCostPath(w) \/ ShorterPath(w)
    PROVE  Improved(w)
<1> USE DEF topology, vertices, NextRecord
<1>1. CASE NewCandidate(w)
  BY <1>1 DEF NewCandidate, Improved
<1>2. CASE EqualCostPath(w)
  <2>1. status = [status EXCEPT ![w] = "Candidate"] /\ dist = [dist EXCEPT ![w] = Distance]
    BY <1>2 DEF EqualCostPath, TypeOK
  <2> QED BY <1>2, <2>1 DEF EqualCostPath, Improved
<1>3. CASE ShorterPath(w)
  <2>1. status = [status EXCEPT ![w] = "Candidate"]
    BY <1>3 DEF ShorterPath, TypeOK
  <2>2. Distance \in Nat /\ dist[w] \in Nat
    BY <1>3, DistanceType DEF ShorterPath, LeadsTo, TypeOK
  <2>3. Distance < dist[w]
    BY <1>3, <2>2 DEF ShorterPath
  <2> QED BY <1>3, <2>1, <2>3 DEF ShorterPath, Improved
<1> QED BY <1>1, <1>2, <1>3

(* Facts about such a step that the proofs below share.                    *)
LEMMA ImprovedFacts ==
    ASSUME TypeOK, Dijkstra, NEW w \in Ids, Improved(w)
    PROVE  /\ pc = "spf" /\ Building /\ Building' /\ v \in Ids /\ root \in Ids
           /\ i \in 1 .. NumRecords(v) /\ Edge(v, i, w) /\ v # w /\ w # root
           /\ Distance = dist[v] + Cost(v, i) /\ Distance \in Nat
           /\ \A x \in Ids \ {w} : dist'[x] = dist[x] /\ status'[x] = status[x]
           /\ \A x \in Ids \ {w} : parents'[x] = parents[x]
           /\ dist'[w] = Distance /\ status'[w] = "Candidate"
           /\ status[w] # "NotExplored" => Distance <= dist[w]
           /\ v \in parents'[w]
           /\ \A u \in Ids, k \in Nat :
                 Explored(u, k)' <=> Explored(u, k) \/ (u = v /\ k = i)
           /\ \A k \in Nat : ~Explored(w, k) /\ ~Explored(w, k)'
<1>0. pc = "spf" /\ Building /\ Building' /\ v \in Ids /\ root \in Ids
  BY DEF Improved, LeadsTo, Examining, Building, TypeOK
<1>1. status[v] = "InSpfTree" /\ status[root] = "InSpfTree"
  BY <1>0 DEF Dijkstra, Progress
<1>2. i \in 1 .. NumRecords(v) /\ Edge(v, i, w)
  <2>1. i \in Nat \ {0} /\ NumRecords(v) \in Nat
    BY <1>0, EdgeType DEF TypeOK
  <2> QED BY <2>1 DEF Improved, LeadsTo, Examining, Edge
<1>3. v # w /\ w # root
  BY <1>1 DEF Improved
<1>4. Distance = dist[v] + Cost(v, i) /\ Distance \in Nat
  BY DistanceType DEF Improved, LeadsTo, Distance
<1>5. /\ \A x \in Ids \ {w} : dist'[x] = dist[x] /\ status'[x] = status[x]
      /\ \A x \in Ids \ {w} : parents'[x] = parents[x]
      /\ dist'[w] = Distance /\ status'[w] = "Candidate" /\ v \in parents'[w]
  BY DEF Improved, TypeOK
<1>6. status[w] # "NotExplored" => Distance <= dist[w]
  BY <1>4 DEF Improved, TypeOK
<1>7. ASSUME NEW u \in Ids, NEW k \in Nat
      PROVE  Explored(u, k)' <=> Explored(u, k) \/ (u = v /\ k = i)
  <2>1. i' = i + 1 /\ v' = v /\ i \in Nat
    BY DEF Improved, TypeOK
  <2>2. status'[u] = "InSpfTree" <=> status[u] = "InSpfTree"
    BY <1>5 DEF Improved
  <2> QED BY <1>1, <2>1, <2>2 DEF Explored
<1>8. \A k \in Nat : ~Explored(w, k) /\ ~Explored(w, k)'
  BY <1>5 DEF Explored, Improved
<1> QED BY <1>0, <1>2, <1>3, <1>4, <1>5, <1>6, <1>7, <1>8

(* A candidate is changed.                                                 *)
LEMMA DijkstraCandidate ==
    ASSUME TypeOK, Dijkstra, NEW w \in Ids, Improved(w)
    PROVE  Dijkstra'
<1>0. /\ pc = "spf" /\ Building /\ Building' /\ v \in Ids /\ root \in Ids
      /\ i \in 1 .. NumRecords(v) /\ Edge(v, i, w) /\ v # w /\ w # root
      /\ Distance = dist[v] + Cost(v, i) /\ Distance \in Nat
      /\ \A x \in Ids \ {w} : dist'[x] = dist[x] /\ status'[x] = status[x]
      /\ \A x \in Ids \ {w} : parents'[x] = parents[x]
      /\ dist'[w] = Distance /\ status'[w] = "Candidate"
      /\ status[w] # "NotExplored" => Distance <= dist[w]
      /\ v \in parents'[w]
      /\ \A u \in Ids, k \in Nat :
            Explored(u, k)' <=> Explored(u, k) \/ (u = v /\ k = i)
      /\ \A k \in Nat : ~Explored(w, k) /\ ~Explored(w, k)'
  BY ImprovedFacts
<1>1. /\ Progress /\ Frontier /\ Relaxed /\ ParentsAreTight /\ PathsAreShort
      /\ TreeIsConnected
  BY <1>0 DEF Dijkstra
<1>2. /\ UNCHANGED lsdb /\ v' = v /\ root' = root /\ pc' = pc /\ i' = i + 1
      /\ status[w] # "InSpfTree"
  BY DEF Improved
<1>3. /\ Ids' = Ids /\ Edges' = Edges
      /\ \A u : NumRecords(u)' = NumRecords(u)
      /\ \A u, k : Cost(u, k)' = Cost(u, k)
      /\ \A u, k, x : Edge(u, k, x)' <=> Edge(u, k, x)
  BY <1>2, GraphUnchanged
<1>4. InTree' = InTree
  BY <1>0, <1>2, <1>3 DEF InTree
<1>5. dist \in [Ids -> Nat] /\ Cost(v, i) \in Nat
  BY <1>0, EdgeType DEF TypeOK
<1>6. \A u \in Ids : NumRecords(u) \in Nat
  BY EdgeType
<1>7. Progress'
  BY <1>0, <1>1, <1>2, <1>4 DEF Progress
<1>8. Frontier'
  <2> SUFFICES ASSUME NEW x \in Ids
               PROVE  /\ status'[x] = "InSpfTree" => dist'[x] <= dist[v]
                      /\ status'[x] = "Candidate" => dist[v] <= dist'[x]
    BY <1>0, <1>2, <1>3 DEF Frontier
  <2> QED BY <1>0, <1>1, <1>5 DEF Frontier
<1>9. Relaxed'
  <2> SUFFICES ASSUME NEW u \in Ids, NEW x \in Ids, NEW k \in 1 .. NumRecords(u),
                      Edge(u, k, x), Explored(u, k)'
               PROVE  Known(x)' /\ dist'[x] <= dist'[u] + Cost(u, k)
    BY <1>3 DEF Relaxed
  <2>0. k \in Nat /\ Cost(u, k) \in Nat
    BY <1>6, EdgeType
  <2>1. CASE u = v /\ k = i
    <3>1. x = w
      BY <1>0, <2>1 DEF Edge
    <3> QED BY <1>0, <1>5, <2>1, <3>1 DEF Known
  <2>2. CASE Explored(u, k)
    <3>1. u # w /\ dist'[u] = dist[u] /\ Known(x) /\ dist[x] <= dist[u] + Cost(u, k)
      BY <1>0, <1>1, <2>0, <2>2 DEF Relaxed
    <3>2. CASE x = w
      BY <1>0, <1>5, <2>0, <3>1, <3>2 DEF Known
    <3>3. CASE x # w
      BY <1>0, <3>1, <3>3 DEF Known
    <3> QED BY <3>2, <3>3
  <2> QED BY <1>0, <2>0, <2>1, <2>2
<1>10. ParentsAreTight'
  <2> DEFINE Tight(u, x) == \E k \in 1 .. NumRecords(u) :
                Edge(u, k, x) /\ Explored(u, k) /\ dist[x] = dist[u] + Cost(u, k)
             TightNow(u, x) == \E k \in 1 .. NumRecords(u) :
                Edge(u, k, x) /\ Explored(u, k)' /\ dist'[x] = dist'[u] + Cost(u, k)
  <2>1. SUFFICES ASSUME NEW x \in Ids \ {root}, Known(x)'
                 PROVE  parents'[x] # {} /\ \A u \in parents'[x] : TightNow(u, x)
    BY <1>2, <1>3 DEF ParentsAreTight
  <2>2. ASSUME NEW u \in Ids, NEW y \in Ids, Tight(u, y), dist'[y] = dist[y]
        PROVE  TightNow(u, y)
    <3>1. PICK k \in 1 .. NumRecords(u) :
                Edge(u, k, y) /\ Explored(u, k) /\ dist[y] = dist[u] + Cost(u, k)
      BY <2>2
    <3>2. k \in Nat
      BY <1>6
    <3>3. u # w /\ Explored(u, k)'
      BY <1>0, <3>1, <3>2
    <3> QED BY <1>0, <2>2, <3>1, <3>3
  <2>3. \A u \in Ids : u = v => TightNow(u, w)
    <3> SUFFICES ASSUME NEW u \in Ids, u = v PROVE TightNow(u, w)
      OBVIOUS
    <3>1. PICK j \in 1 .. NumRecords(u) : j = i
      BY <1>0
    <3>2. j \in Nat
      BY <1>6, <3>1
    <3>3. Explored(u, j)' /\ Edge(u, j, w)
      BY <1>0, <3>1, <3>2
    <3>4. dist'[w] = dist'[u] + Cost(u, j)
      BY <1>0, <3>1
    <3> QED BY <3>3, <3>4
  <2>4. \A y \in Ids \ {root} : Known(y) =>
            parents[y] # {} /\ parents[y] \subseteq Ids /\ \A u \in parents[y] : Tight(u, y)
    BY <1>1 DEF ParentsAreTight, TypeOK
  <2> HIDE DEF Tight, TightNow
  <2>5. CASE x # w
    <3>1. Known(x) /\ parents'[x] = parents[x] /\ dist'[x] = dist[x]
      BY <1>0, <2>1, <2>5 DEF Known
    <3> QED BY <2>2, <2>4, <3>1
  <2>6. CASE x = w
    <3>1. CASE parents'[w] = {v}
      BY <1>0, <2>3, <2>6, <3>1
    <3>2. CASE status[w] = "Candidate" /\ Distance = dist[w] /\ parents'[w] = parents[w] \cup {v}
      <4>1. Known(w) /\ dist'[w] = dist[w]
        BY <1>0, <3>2 DEF Known
      <4> QED BY <1>0, <2>2, <2>3, <2>4, <2>6, <3>2, <4>1
    <3> QED BY <3>1, <3>2 DEF Improved, TypeOK
  <2> QED BY <2>5, <2>6
<1>11. PathsAreShort'
  <2> DEFINE D == DistancesWithin(Edges, root)
             c == Cardinality(InTree)
  <2>1. DistancesWithin(Edges, root)' = D /\ Cardinality(InTree') = c
    BY <1>2, <1>3, <1>4
  <2>2. v \in InTree
    BY <1>0, <1>1 DEF Progress, InTree
  <2>3. c - 1 \in Nat /\ (c - 1) + 1 = c
    BY <2>2, TreeSize
  <2>4. v \in DOMAIN D[c - 1] /\ D[c - 1][v] <= dist[v]
    BY <1>1, <2>2 DEF PathsAreShort, InTree
  <2>5. w \in DOMAIN D[(c - 1) + 1] /\ D[(c - 1) + 1][w] <= dist[v] + Cost(v, i)
    <3> DEFINE n == c - 1
    <3>1. n \in Nat /\ v \in DOMAIN D[n] /\ D[n][v] <= dist[v]
      BY <2>3, <2>4
    <3> HIDE DEF n
    <3>2. w \in DOMAIN D[n + 1] /\ D[n + 1][w] <= dist[v] + Cost(v, i)
      BY <1>0, <3>1, LongerPaths
    <3> QED BY <3>2 DEF n
  <2>6. \A x \in Ids :
          /\ status[x] = "InSpfTree" => x \in DOMAIN D[c - 1] /\ D[c - 1][x] <= dist[x]
          /\ status[x] = "Candidate" => x \in DOMAIN D[c] /\ D[c][x] <= dist[x]
    BY <1>1 DEF PathsAreShort
  <2> HIDE DEF D, c
  <2>7. ASSUME NEW x \in Ids
        PROVE  /\ status'[x] = "InSpfTree" => x \in DOMAIN D[c - 1] /\ D[c - 1][x] <= dist'[x]
               /\ status'[x] = "Candidate" => x \in DOMAIN D[c] /\ D[c][x] <= dist'[x]
    BY <1>0, <2>3, <2>5, <2>6
  <2> QED BY <1>3, <2>1, <2>7 DEF PathsAreShort
<1>12. TreeIsConnected'
  <2>1. \A x \in InTree : parents'[x] = parents[x]
    BY <1>0, <1>2 DEF InTree
  <2> QED BY <1>1, <1>2, <1>3, <1>4, <2>1 DEF TreeIsConnected
<1> QED BY <1>7, <1>8, <1>9, <1>10, <1>11, <1>12 DEF Dijkstra

(* What AddToTree does to the tree, for the proofs below.                  *)
LEMMA AddToTreeFacts ==
    ASSUME TypeOK, QueueAgreesWithStatus, Dijkstra, AddToTree,
           NEW w, w = Top(queue)
    PROVE  /\ pc = "spf" /\ Building /\ Building' /\ v \in Ids /\ root \in Ids /\ w \in Ids
           /\ status[w] = "Candidate" /\ w # v /\ w # root
           /\ UNCHANGED <<lsdb, pc, root, dist, parents>> /\ v' = w /\ i' = 1
           /\ status'[w] = "InSpfTree" /\ \A x \in Ids \ {w} : status'[x] = status[x]
           /\ \A x \in Ids : status[x] = "Candidate" =>
                 /\ ~CompareSPFVertex(dist, NetworkVertices, x, w)
                 /\ dist[w] <= dist[x]
           /\ \A u \in Ids : \A k \in 1 .. NumRecords(u) : Explored(u, k)' <=> Explored(u, k)
           /\ InTree' = InTree \cup {w} /\ w \notin InTree
<1>0. pc = "spf" /\ Building /\ Building' /\ v \in Ids /\ root \in Ids /\ i > NumRecords(v)
  BY DEF AddToTree, Building, TypeOK
<1>1. w \in Ids /\ status[w] = "Candidate"
  BY TopIsCandidate
<1>2. status[v] = "InSpfTree" /\ status[root] = "InSpfTree"
  BY <1>0 DEF Dijkstra, Progress
<1>3. /\ UNCHANGED <<lsdb, pc, root, dist, parents>> /\ v' = w /\ i' = 1
      /\ status' = [status EXCEPT ![w] = "InSpfTree"]
  BY DEF AddToTree, topology, vertices
<1>4. status'[w] = "InSpfTree" /\ \A x \in Ids \ {w} : status'[x] = status[x]
  BY <1>1, <1>3 DEF TypeOK
<1>5. ASSUME NEW x \in Ids, status[x] = "Candidate"
      PROVE  ~CompareSPFVertex(dist, NetworkVertices, x, w) /\ dist[w] <= dist[x]
  <2>1. Sorted(dist, NetworkVertices, queue) /\ x \in Listed(queue) /\ queue \in Seq(Ids)
    BY <1>0, <1>5 DEF QueueAgreesWithStatus, TypeOK
  <2>2. PICK p \in 1 .. Len(queue) : x = queue[p]
    BY <2>1 DEF Listed
  <2>3. Len(queue) \in Nat /\ 1 \in 1 .. Len(queue) /\ w = queue[1]
    BY <2>1, <2>2 DEF Top
  <2>4. ~CompareSPFVertex(dist, NetworkVertices, x, w)
    <3>1. CASE p = 1
      BY <2>2, <2>3, <3>1, <1>1 DEF CompareSPFVertex, TypeOK
    <3>2. CASE p # 1
      BY <2>1, <2>2, <2>3, <3>2 DEF Sorted
    <3> QED BY <3>1, <3>2
  <2>5. dist[x] \in Nat /\ dist[w] \in Nat
    BY <1>1 DEF TypeOK
  <2> QED BY <2>4, <2>5 DEF CompareSPFVertex
<1>6. ASSUME NEW u \in Ids, NEW k \in 1 .. NumRecords(u)
      PROVE  Explored(u, k)' <=> Explored(u, k)
  <2>1. NumRecords(u) \in Nat /\ NumRecords(v) \in Nat /\ i \in Nat
    BY <1>0, EdgeType DEF TypeOK
  <2>2. k \in Nat /\ k >= 1 /\ (u = v => k < i)
    BY <1>0, <2>1
  <2>3. CASE u = w
    BY <1>1, <1>3, <2>2, <2>3 DEF Explored
  <2>4. CASE u # w
    BY <1>3, <1>4, <2>2, <2>4 DEF Explored
  <2> QED BY <2>3, <2>4
<1>7. InTree' = InTree \cup {w} /\ w \notin InTree
  BY <1>1, <1>3, <1>4 DEF InTree, Ids
<1> QED BY <1>0, <1>1, <1>2, <1>3, <1>4, <1>5, <1>6, <1>7

(* The closest candidate goes into the tree.                               *)
LEMMA DijkstraTree ==
    ASSUME TypeOK, QueueAgreesWithStatus, Dijkstra, AddToTree
    PROVE  Dijkstra'
<1> DEFINE t == Top(queue)
<1>a. PICK w : w = t
  OBVIOUS
<1> HIDE DEF t
<1>0. /\ pc = "spf" /\ Building /\ Building' /\ v \in Ids /\ root \in Ids /\ w \in Ids
      /\ status[w] = "Candidate" /\ w # v /\ w # root
      /\ UNCHANGED <<lsdb, pc, root, dist, parents>> /\ v' = w /\ i' = 1
      /\ status'[w] = "InSpfTree" /\ \A x \in Ids \ {w} : status'[x] = status[x]
      /\ \A x \in Ids : status[x] = "Candidate" =>
            /\ ~CompareSPFVertex(dist, NetworkVertices, x, w)
            /\ dist[w] <= dist[x]
      /\ \A u \in Ids : \A k \in 1 .. NumRecords(u) : Explored(u, k)' <=> Explored(u, k)
      /\ InTree' = InTree \cup {w} /\ w \notin InTree
  BY <1>a, AddToTreeFacts DEF t
<1>1. /\ Progress /\ Frontier /\ Relaxed /\ ParentsAreTight /\ PathsAreShort
      /\ TreeIsConnected
  BY <1>0 DEF Dijkstra
<1>2. /\ Ids' = Ids /\ Edges' = Edges
      /\ \A u : NumRecords(u)' = NumRecords(u)
      /\ \A u, k : Cost(u, k)' = Cost(u, k)
      /\ \A u, k, x : Edge(u, k, x)' <=> Edge(u, k, x)
  BY <1>0, GraphUnchanged
<1>3. dist \in [Ids -> Nat]
  BY DEF TypeOK
<1>4. \A x \in Ids : Known(x)' <=> Known(x)
  BY <1>0 DEF Known
<1>5. Progress'
  <2>1. status[root] = "InSpfTree" /\ dist[root] = 0 /\ parents[root] = {}
    BY <1>1 DEF Progress
  <2> QED BY <1>0, <2>1 DEF Progress
<1>6. Frontier'
  <2> SUFFICES ASSUME NEW x \in Ids
               PROVE  /\ status'[x] = "InSpfTree" => dist[x] <= dist[w]
                      /\ status'[x] = "Candidate" => dist[w] <= dist[x]
    BY <1>0, <1>2 DEF Frontier
  <2>1. dist[v] <= dist[w]
    BY <1>0, <1>1 DEF Frontier
  <2>2. CASE x = w
    BY <1>0, <1>3, <2>2
  <2>3. CASE x # w
    BY <1>0, <1>1, <1>3, <2>1, <2>3 DEF Frontier
  <2> QED BY <2>2, <2>3
<1>7. Relaxed'
  BY <1>0, <1>1, <1>2, <1>4 DEF Relaxed
<1>8. ParentsAreTight'
  <2> SUFFICES ASSUME NEW x \in Ids \ {root}, Known(x)
               PROVE  /\ parents[x] # {}
                      /\ \A u \in parents[x] : \E k \in 1 .. NumRecords(u) :
                            Edge(u, k, x) /\ Explored(u, k)' /\ dist[x] = dist[u] + Cost(u, k)
    BY <1>0, <1>2, <1>4 DEF ParentsAreTight
  <2>1. parents[x] # {} /\ parents[x] \subseteq Ids
    BY <1>1 DEF ParentsAreTight, TypeOK
  <2>2. ASSUME NEW u \in parents[x]
        PROVE  \E k \in 1 .. NumRecords(u) :
                  Edge(u, k, x) /\ Explored(u, k)' /\ dist[x] = dist[u] + Cost(u, k)
    <3>1. PICK k \in 1 .. NumRecords(u) :
                  Edge(u, k, x) /\ Explored(u, k) /\ dist[x] = dist[u] + Cost(u, k)
      BY <1>1 DEF ParentsAreTight
    <3> QED BY <1>0, <2>1, <3>1
  <2> QED BY <2>1, <2>2
<1>9. PathsAreShort'
  <2> DEFINE D == DistancesWithin(Edges, root)
             c == Cardinality(InTree)
  <2>1. c \in Nat /\ c - 1 \in Nat /\ (c - 1) + 1 = c /\ (c + 1) - 1 = c
    <3>1. v \in InTree
      BY <1>0, <1>1 DEF Progress, InTree
    <3> QED BY <3>1, TreeSize
  <2>2. DistancesWithin(Edges, root)' = D /\ Cardinality(InTree') = c + 1
    <3>1. Cardinality(InTree \cup {w}) = c + 1
      BY <1>0, TreeSize, FS_AddElement
    <3> QED BY <1>0, <1>2, <3>1
  <2>3. \A x \in Ids :
          /\ status[x] = "InSpfTree" => x \in DOMAIN D[c - 1] /\ D[c - 1][x] <= dist[x]
          /\ status[x] = "Candidate" => x \in DOMAIN D[c] /\ D[c][x] <= dist[x]
    BY <1>1 DEF PathsAreShort
  <2> HIDE DEF c
  <2>4. \A n \in Nat, x \in Ids :
            x \in DOMAIN D[n] /\ D[n][x] <= dist[x]
            => x \in DOMAIN D[n + 1] /\ D[n + 1][x] <= dist[x]
    BY <1>0, LongerPaths
  <2> HIDE DEF D
  <2>5. ASSUME NEW x \in Ids
        PROVE  /\ status'[x] = "InSpfTree" => x \in DOMAIN D[c] /\ D[c][x] <= dist[x]
               /\ status'[x] = "Candidate" => x \in DOMAIN D[c + 1] /\ D[c + 1][x] <= dist[x]
    <3>1. CASE x = w
      BY <1>0, <2>3, <3>1
    <3>2. CASE x # w /\ status[x] = "InSpfTree"
      <4>1. x \in DOMAIN D[(c - 1) + 1] /\ D[(c - 1) + 1][x] <= dist[x]
        BY <2>1, <2>3, <2>4, <3>2
      <4> QED BY <1>0, <2>1, <3>2, <4>1
    <3>3. CASE x # w /\ status[x] = "Candidate"
      BY <1>0, <2>1, <2>3, <2>4, <3>3
    <3>4. CASE x # w /\ status[x] = "NotExplored"
      BY <1>0, <3>4
    <3> QED BY <3>1, <3>2, <3>3, <3>4 DEF TypeOK
  <2> QED BY <1>0, <1>2, <2>1, <2>2, <2>5 DEF PathsAreShort
<1>10. TreeIsConnected'
  <2> SUFFICES ASSUME NEW S \in SUBSET Ids, root \in S,
                      \A x \in InTree' \ {root} : parents[x] \cap S # {} => x \in S
               PROVE  InTree' \subseteq S
    BY <1>0, <1>2 DEF TreeIsConnected
  <2>1. InTree \subseteq S
    BY <1>0, <1>1 DEF TreeIsConnected
  <2>2. PICK u \in parents[w] : status[u] = "InSpfTree"
    BY <1>0, <1>1 DEF ParentsAreTight, Known, Explored
  <2>3. u \in S
    BY <1>0, <2>1, <2>2 DEF InTree, TypeOK
  <2> QED BY <1>0, <2>1, <2>2, <2>3
<1> QED BY <1>5, <1>6, <1>7, <1>8, <1>9, <1>10 DEF Dijkstra

(* The walks leave the finished tree alone.                                *)
LEMMA DijkstraWalk ==
    ASSUME TypeOK, QueueAgreesWithStatus, Dijkstra, Building,
           UNCHANGED <<lsdb, root, v, i, status, dist, parents>>,
           pc' = pc \/ (pc' = "walk" /\ i > NumRecords(v) /\ queue = << >>)
    PROVE  Dijkstra'
<1>1. /\ Progress /\ Frontier /\ Relaxed /\ ParentsAreTight /\ PathsAreShort
      /\ TreeIsConnected
  BY DEF Dijkstra
<1>2. /\ Ids' = Ids /\ Edges' = Edges /\ InTree' = InTree
      /\ \A u : NumRecords(u)' = NumRecords(u)
      /\ \A u, k : Cost(u, k)' = Cost(u, k)
      /\ \A u, k, w : Edge(u, k, w)' <=> Edge(u, k, w)
  <2>1. InTree' = InTree
    BY DEF InTree, Ids
  <2> QED BY <2>1, GraphUnchanged
<1>3. pc' = "walk" => i > NumRecords(v) /\ \A x \in Ids : status[x] # "Candidate"
  <2>1. CASE pc = "walk"
    BY <1>1, <2>1 DEF Progress
  <2>2. CASE pc # "walk" /\ pc' = "walk"
    <3>1. Listed(queue) = {x \in Ids : status[x] = "Candidate"} /\ Listed(queue) = {}
      BY <2>2 DEF QueueAgreesWithStatus, Building, Listed
    <3> QED BY <2>2, <3>1
  <2> QED BY <2>1, <2>2
<1>4. Progress'
  BY <1>1, <1>2, <1>3 DEF Progress
<1>5. Frontier'
  BY <1>1, <1>2 DEF Frontier
<1>6. Relaxed'
  BY <1>1, <1>2 DEF Relaxed, Explored, Known
<1>7. ParentsAreTight'
  BY <1>1, <1>2 DEF ParentsAreTight, Explored, Known
<1>8. PathsAreShort'
  BY <1>1, <1>2 DEF PathsAreShort
<1>9. TreeIsConnected'
  BY <1>1, <1>2 DEF TreeIsConnected
<1> QED BY <1>4, <1>5, <1>6, <1>7, <1>8, <1>9 DEF Dijkstra

(* Dijkstra's invariant is inductive, given the types and the list.        *)
LEMMA DijkstraInductive ==
    TypeOK /\ TypeOK' /\ QueueAgreesWithStatus /\ Dijkstra /\ [Next]_vars => Dijkstra'
<1> SUFFICES ASSUME TypeOK, TypeOK', QueueAgreesWithStatus, Dijkstra, [Next]_vars
             PROVE  Dijkstra'
  OBVIOUS
<1> USE DEF topology, vertices, walk
<1>1. CASE ~Building'
  BY <1>1 DEF Dijkstra
<1>2. CASE StartCalculation
  BY <1>2, DijkstraStart
<1>3. ASSUME NEW w \in Ids, NewCandidate(w) \/ EqualCostPath(w) \/ ShorterPath(w)
      PROVE  Dijkstra'
  BY <1>3, RecordImproves, DijkstraCandidate
<1>4. CASE AddToTree
  BY <1>4, DijkstraTree
<1>5. CASE SkipRecord
  <2>1. /\ Examining /\ i' = i + 1 /\ UNCHANGED <<lsdb, pc, root, v, status, dist, parents>>
        /\ \A w \in Ids : ~Edge(v, i, w)
    BY <1>5 DEF SkipRecord, NextRecord, Edge
  <2> QED BY <2>1, DijkstraSkip
<1>6. ASSUME NEW w \in Ids, SkipInTree(w) \/ SkipLongerPath(w) PROVE Dijkstra'
  <2>1. /\ Examining /\ i' = i + 1 /\ UNCHANGED <<lsdb, pc, root, v, status, dist, parents>>
        /\ w = Neighbour(v, i)
    BY <1>6 DEF SkipInTree, SkipLongerPath, LeadsTo, NextRecord
  <2>2. v \in Ids /\ pc = "spf" /\ Distance \in Nat /\ dist \in [Ids -> Nat] /\ i \in Nat \ {0}
    BY <2>1, DistanceType DEF Examining, TypeOK, Building
  <2>3. i \in 1 .. NumRecords(v)
    BY <2>1, <2>2, EdgeType DEF Examining
  <2>4. Cost(v, i) \in Nat /\ Distance = dist[v] + Cost(v, i)
    BY <2>2, <2>3, EdgeType DEF Distance
  <2>5. Known(w) /\ dist[w] <= dist[v] + Cost(v, i)
    <3>1. CASE SkipInTree(w)
      <4>1. status[w] = "InSpfTree"
        BY <3>1 DEF SkipInTree
      <4>2. dist[w] <= dist[v]
        BY <2>2, <4>1 DEF Dijkstra, Building, Frontier
      <4> QED BY <2>2, <2>4, <4>1, <4>2 DEF Known
    <3>2. CASE SkipLongerPath(w)
      BY <2>2, <2>4, <3>2 DEF SkipLongerPath, Known
    <3> QED BY <1>6, <3>1, <3>2
  <2>6. \A x \in Ids : Edge(v, i, x) => Known(x) /\ dist[x] <= dist[v] + Cost(v, i)
    BY <2>1, <2>5 DEF Edge
  <2> QED BY <2>1, <2>6, DijkstraSkip
<1>7. CASE StartStubs \/ EnterChild \/ SkipChild \/ LeaveChild \/ NextExternal
  <2>1. /\ Building /\ UNCHANGED <<lsdb, root, v, i, status, dist, parents>>
        /\ pc' = pc \/ (pc' = "walk" /\ i > NumRecords(v) /\ queue = << >>)
    BY <1>7 DEF StartStubs, EnterChild, SkipChild, LeaveChild, NextExternal, AtChild, AtEnd,
                Building
  <2> QED BY <2>1, DijkstraWalk
<1>8. CASE SkipNode \/ TruncateForStubNode \/ FinishRoutes \/ FinishCalculation \/ MissingLSA
           \/ \E w \in Ids : NexthopFails(w)
  BY <1>1, <1>8
     DEF SkipNode, TruncateForStubNode, FinishRoutes, FinishCalculation, MissingLSA,
         NexthopFails, Building
<1>9. CASE UNCHANGED vars
  <2>1. UNCHANGED <<lsdb, root, v, i, status, dist, parents, pc>>
    BY <1>9 DEF vars
  <2>2. CASE Building
    BY <2>1, <2>2, DijkstraWalk
  <2> QED BY <1>1, <2>1, <2>2 DEF Building
<1> QED
  BY <1>2, <1>3, <1>4, <1>5, <1>6, <1>7, <1>8, <1>9 DEF Next, Step, Stopped

(* It holds from the start on.                                             *)
LEMMA DijkstraHolds == Spec => []Dijkstra
<1>1. Init => Dijkstra
  BY DEF Init, Dijkstra, Building
<1> QED BY <1>1, TypeCorrect, QueueAgrees, DijkstraInductive, PTL DEF Spec

(* No path of any length is shorter than the distance in the tree, once    *)
(* everything is examined.                                                 *)
LEMMA NoShorterPath ==
    ASSUME TypeOK, Dijkstra, pc = "walk", NEW n \in Nat,
           NEW w \in DOMAIN DistancesWithin(Edges, root)[n]
    PROVE  w \in InTree /\ dist[w] <= DistancesWithin(Edges, root)[n][w]
<1> DEFINE D == DistancesWithin(Edges, root)
           Bounded(k) == \A x \in DOMAIN D[k] : x \in InTree /\ dist[x] <= D[k][x]
           A == {k \in Nat : ~Bounded(k)}
<1>0. Building /\ root \in Ids /\ v \in Ids /\ Edges \in Graphs(Ids)
  BY EdgesAreGraph DEF Building, TypeOK
<1>1. Progress /\ Relaxed
  BY <1>0 DEF Dijkstra
<1>2. D[0] = [x \in {root} |-> 0]
  BY DistancesRecursion
<1>3. \A k \in Nat : D[k] \in DistancesOf(Ids) /\ Round(Edges, D[k], D[k + 1])
  BY <1>0, DistancesRound
<1>4. w \in DOMAIN D[n]
  OBVIOUS
<1> HIDE DEF D
<1>5. SUFFICES ASSUME A # {} PROVE FALSE
  BY <1>4 DEF D
<1>6. PICK k \in A : \A y \in A : k <= y
  <2> HIDE DEF A
  <2>1. A \in SUBSET Nat
    BY DEF A
  <2> QED BY <1>5, <2>1, SmallestOf
<1>7. Bounded(0)
  BY <1>0, <1>1, <1>2 DEF Progress, InTree
<1>8. k - 1 \in Nat /\ k - 1 \notin A /\ (k - 1) + 1 = k
  BY <1>6, <1>7
<1>9. Bounded(k - 1)
  BY <1>8
<1>10. /\ D[k - 1] \in [DOMAIN D[k - 1] -> Nat] /\ DOMAIN D[k - 1] \subseteq Ids
       /\ Round(Edges, D[k - 1], D[k])
  <2>1. D[k - 1] \in DistancesOf(Ids) /\ Round(Edges, D[k - 1], D[(k - 1) + 1])
    BY <1>3, <1>8
  <2> QED BY <1>8, <2>1, DistancesOfIs
<1>11. ASSUME NEW x \in DOMAIN D[k] PROVE x \in InTree /\ dist[x] <= D[k][x]
  <2>1. CASE x \in DOMAIN D[k - 1] /\ D[k][x] = D[k - 1][x]
    BY <1>9, <2>1
  <2>2. ASSUME NEW e \in Edges, e[1] \in DOMAIN D[k - 1], e[2] = x,
               D[k][x] = D[k - 1][e[1]] + e[3]
        PROVE  x \in InTree /\ dist[x] <= D[k][x]
    <3>1. PICK u, m, y : u \in Ids /\ Edge(u, m, y) /\ e = <<u, y, Cost(u, m)>>
      BY EdgesAreRecords
    <3>2. u = e[1] /\ y = x /\ e[3] = Cost(u, m)
      BY <2>2, <3>1
    <3>3. u \in InTree /\ dist[u] <= D[k - 1][u] /\ x \in Ids
      BY <1>9, <2>2, <3>1, <3>2, EdgeType
    <3>4. m \in 1 .. NumRecords(u) /\ Cost(u, m) \in Nat
      BY <3>1, EdgeType DEF Edge
    <3>5. Explored(u, m)
      <4>1. u = v => m < i
        <5>1. i > NumRecords(v) /\ i \in Nat /\ NumRecords(u) \in Nat
          BY <1>0, <1>1, <3>1, EdgeType DEF Progress, TypeOK
        <5> QED BY <3>4, <5>1
      <4> QED BY <3>3, <4>1 DEF Explored, InTree
    <3>6. Known(x) /\ dist[x] <= dist[u] + Cost(u, m)
      BY <1>1, <3>1, <3>2, <3>3, <3>4, <3>5 DEF Relaxed
    <3>7. x \in InTree
      BY <1>1, <3>3, <3>6 DEF Progress, Known, InTree, TypeOK
    <3>8. dist[x] \in Nat /\ dist[u] \in Nat /\ D[k - 1][u] \in Nat
      BY <1>10, <2>2, <3>2, <3>3 DEF TypeOK
    <3> QED BY <2>2, <3>2, <3>3, <3>4, <3>6, <3>7, <3>8
  <2> QED BY <1>10, <2>1, <2>2 DEF Round
<1> QED BY <1>6, <1>11

(* The tree, once nothing is left to examine, is the shortest path tree.   *)
LEMMA WalkShortest ==
    ASSUME TypeOK, Dijkstra, pc = "walk"
    PROVE  DistancesFrom(root) = [w \in InTree |-> dist[w]]
<1> DEFINE D == DistancesWithin(Edges, root)
           c == Cardinality(InTree)
           N == Cardinality(Ids)
<1>0. pc = "walk" /\ Building /\ root \in Ids /\ Edges \in Graphs(Ids)
  BY EdgesAreGraph DEF Building, TypeOK
<1>1. c - 1 \in Nat /\ N \in Nat /\ c - 1 <= N
  <2>1. root \in InTree
    BY <1>0 DEF Dijkstra, Progress, InTree
  <2> QED BY <2>1, TreeSize
<1>2. \A w \in DOMAIN D[N] : w \in InTree /\ dist[w] <= D[N][w]
  BY <1>0, <1>1, NoShorterPath
<1>3. \A w \in InTree : w \in DOMAIN D[c - 1] /\ D[c - 1][w] <= dist[w]
  BY <1>0 DEF Dijkstra, PathsAreShort, InTree
<1> HIDE DEF c, N
<1>4. ASSUME NEW n \in Nat, n <= N, NEW x \in DOMAIN D[n]
      PROVE  x \in DOMAIN D[N] /\ D[N][x] <= D[n][x]
  BY <1>0, <1>1, <1>4, DistancesShrink
<1>5. \A n \in Nat : D[n] \in DistancesOf(Ids)
  BY <1>0, DistancesRound
<1> HIDE DEF D
<1>6. \A n \in Nat : D[n] \in [DOMAIN D[n] -> Nat]
  BY <1>5, DistancesOfIs
<1>7. ASSUME NEW w \in InTree PROVE w \in DOMAIN D[N] /\ D[N][w] = dist[w]
  <2>1. w \in DOMAIN D[c - 1] /\ D[c - 1][w] <= dist[w]
    BY <1>3
  <2>2. w \in DOMAIN D[N] /\ D[N][w] <= D[c - 1][w]
    BY <1>1, <1>4, <2>1
  <2>3. D[N][w] \in Nat /\ D[c - 1][w] \in Nat /\ dist[w] \in Nat
    BY <1>1, <1>6, <2>1, <2>2 DEF TypeOK, InTree
  <2> QED BY <1>2, <2>1, <2>2, <2>3
<1>8. D[N] = [w \in InTree |-> dist[w]]
  <2>1. DOMAIN D[N] = InTree
    BY <1>2, <1>7
  <2> QED BY <1>1, <1>6, <1>7, <2>1
<1> QED BY <1>8 DEF DistancesFrom, D, N

(* The finished tree holds exactly the vertices that can be reached from   *)
(* the root, each at the length of a shortest path, in every topology: a   *)
(* candidate whose distance shrank in the list is never passed over.       *)
THEOREM TreeShortest == Spec => []TreeIsShortest
<1>1. TypeOK /\ Dijkstra => TreeIsShortest
  BY WalkShortest DEF TreeIsShortest, TreeBuilt
<1> QED BY <1>1, TypeCorrect, DijkstraHolds, PTL

-----------------------------------------------------------------------------
(***************************************************************************)
(* Equal-cost paths.  Where links between routers cost something, a record *)
(* that is examined too late, when the vertex it leads to is in the tree   *)
(* already, is not on a shortest path: networks, whose records cost        *)
(* nothing, go into the tree before routers at the same distance.          *)
(***************************************************************************)
(* The records of a network lead to routers, and a record that costs       *)
(* nothing is a network's.                                                 *)
LEMMA NetworkRecords ==
    ASSUME TypeOK, NEW u \in Ids, NEW k, NEW w, Edge(u, k, w)
    PROVE  /\ u \in NetworkVertices => w \notin NetworkVertices
           /\ PositiveMetrics /\ Cost(u, k) = 0 => u \in NetworkVertices
<1>1. ASSUME u \in NetworkVertices PROVE w \notin NetworkVertices
  <2>1. Neighbours(u, k) \in SUBSET Nat /\ Neighbours(u, k) # {}
    BY DEF Neighbours, LSAsByLinkData, Ids, Edge, TypeOK, WellFormed, WellFormedDatabase
  <2>2. \E m \in Neighbours(u, k) : \A x \in Neighbours(u, k) : m <= x
    BY <2>1, SmallestOf
  <2>3. w \in Neighbours(u, k)
    BY <2>2 DEF Neighbour, Edge
  <2>4. w \in Ids /\ HasTransitRecord(lsdb[w], lsdb[u].attached[k])
    BY <1>1, <2>3 DEF Neighbours, LSAsByLinkData, Ids
  <2>5. DOMAIN lsdb[w].links # {}
    BY <2>4 DEF HasTransitRecord
  <2>6. lsdb[w].type # "NetworkLSA"
    BY <2>4, <2>5 DEF TypeOK, WellFormed, WellFormedDatabase, Ids
  <2> QED BY <2>6 DEF NetworkVertices
<1>2. ASSUME PositiveMetrics, Cost(u, k) = 0 PROVE u \in NetworkVertices
  BY <1>2 DEF PositiveMetrics, Edge
<1> QED BY <1>1, <1>2

(* The root alone is in the tree.                                          *)
LEMMA EqualCostStart ==
    ASSUME TypeOK, TypeOK', StartCalculation
    PROVE  EqualCost'
<1> DEFINE r == RouterId(net, node)
<1>1. /\ UNCHANGED lsdb /\ root' = r /\ v' = r /\ i' = 1
      /\ status' = [id \in Ids |-> IF id = r THEN "InSpfTree" ELSE "NotExplored"]
  BY DEF StartCalculation, InitialStatus, topology
<1> HIDE DEF r
<1>2. Ids' = Ids
  BY <1>1 DEF Ids
<1>3. RankedFrontier'
  BY <1>1, <1>2 DEF RankedFrontier
<1>4. ParentsAreAll'
  <2>1. \A u \in Ids', k \in Nat : k >= 1 => ~Explored(u, k)'
    BY <1>1, <1>2 DEF Explored
  <2>2. \A u \in Ids' : \A k \in 1 .. NumRecords(u)' : k \in Nat /\ k >= 1
    OBVIOUS
  <2> QED BY <2>1, <2>2 DEF ParentsAreAll
<1> QED BY <1>3, <1>4 DEF EqualCost

(* The next record is examined and changes nothing.                        *)
LEMMA EqualCostSkip ==
    ASSUME TypeOK, Dijkstra, EqualCost, Examining, i' = i + 1,
           UNCHANGED <<lsdb, pc, root, v, status, dist, parents>>,
           PositiveMetrics => \A w \in Ids \ {root} :
              Edge(v, i, w) /\ dist[w] = dist[v] + Cost(v, i) => v \in parents[w]
    PROVE  EqualCost'
<1>0. pc = "spf" /\ Building /\ v \in Ids /\ root \in Ids /\ status[v] = "InSpfTree"
  BY DEF Examining, Building, TypeOK, Dijkstra, Progress
<1>1. /\ Ids' = Ids /\ NetworkVertices' = NetworkVertices
      /\ \A u : NumRecords(u)' = NumRecords(u)
      /\ \A u, k : Cost(u, k)' = Cost(u, k)
      /\ \A u, k, w : Edge(u, k, w)' <=> Edge(u, k, w)
      /\ PositiveMetrics' <=> PositiveMetrics
  BY GraphUnchanged
<1> SUFFICES ASSUME PositiveMetrics PROVE RankedFrontier' /\ ParentsAreAll'
  BY <1>1 DEF EqualCost
<1>2. RankedFrontier /\ ParentsAreAll
  BY <1>0 DEF EqualCost
<1>3. RankedFrontier'
  BY <1>1, <1>2 DEF RankedFrontier, CompareSPFVertex
<1>4. ParentsAreAll'
  <2> SUFFICES ASSUME NEW u \in Ids, NEW w \in Ids, NEW k \in 1 .. NumRecords(u),
                      Edge(u, k, w), Explored(u, k)', w # root,
                      dist[w] = dist[u] + Cost(u, k)
               PROVE  u \in parents[w]
    BY <1>1 DEF ParentsAreAll
  <2>1. k \in Nat /\ i \in Nat
    BY EdgeType DEF TypeOK
  <2>2. Explored(u, k) \/ (u = v /\ k = i)
    BY <1>0, <2>1 DEF Explored
  <2> QED BY <1>2, <2>2 DEF ParentsAreAll
<1> QED BY <1>3, <1>4

(* A candidate is changed.                                                 *)
LEMMA EqualCostCandidate ==
    ASSUME TypeOK, Dijkstra, EqualCost, NEW w \in Ids, Improved(w)
    PROVE  EqualCost'
<1>0. /\ pc = "spf" /\ Building /\ Building' /\ v \in Ids /\ root \in Ids
      /\ i \in 1 .. NumRecords(v) /\ Edge(v, i, w) /\ v # w /\ w # root
      /\ Distance = dist[v] + Cost(v, i) /\ Distance \in Nat
      /\ \A x \in Ids \ {w} : dist'[x] = dist[x] /\ status'[x] = status[x]
      /\ \A x \in Ids \ {w} : parents'[x] = parents[x]
      /\ dist'[w] = Distance /\ status'[w] = "Candidate"
      /\ status[w] # "NotExplored" => Distance <= dist[w]
      /\ v \in parents'[w]
      /\ \A u \in Ids, k \in Nat :
            Explored(u, k)' <=> Explored(u, k) \/ (u = v /\ k = i)
      /\ \A k \in Nat : ~Explored(w, k) /\ ~Explored(w, k)'
  BY ImprovedFacts
<1>1. UNCHANGED lsdb /\ v' = v /\ root' = root /\ status[w] # "InSpfTree"
  BY DEF Improved
<1>2. /\ Ids' = Ids /\ NetworkVertices' = NetworkVertices
      /\ \A u : NumRecords(u)' = NumRecords(u)
      /\ \A u, k : Cost(u, k)' = Cost(u, k)
      /\ \A u, k, x : Edge(u, k, x)' <=> Edge(u, k, x)
      /\ PositiveMetrics' <=> PositiveMetrics
  BY <1>1, GraphUnchanged
<1> SUFFICES ASSUME PositiveMetrics PROVE RankedFrontier' /\ ParentsAreAll'
  BY <1>2 DEF EqualCost
<1>3. RankedFrontier /\ ParentsAreAll /\ Relaxed
  BY <1>0 DEF EqualCost, Dijkstra
<1>4. dist \in [Ids -> Nat] /\ Cost(v, i) \in Nat
  BY <1>0, EdgeType DEF TypeOK
<1>5. RankedFrontier'
  <2> SUFFICES ASSUME NEW x \in Ids \ {root}
               PROVE  /\ status'[x] = "InSpfTree"
                            => ~CompareSPFVertex(dist', NetworkVertices, v, x)
                      /\ status'[x] = "Candidate" /\ v # root
                            => ~CompareSPFVertex(dist', NetworkVertices, x, v)
    BY <1>1, <1>2 DEF RankedFrontier, CompareSPFVertex
  <2>1. CASE x = w
    <3>1. dist'[w] = dist[v] + Cost(v, i) /\ dist'[v] = dist[v] /\ dist[v] \in Nat
      BY <1>0, <1>4
    <3>2. Cost(v, i) = 0 => v \in NetworkVertices
      BY <1>0, NetworkRecords
    <3>3. ~CompareSPFVertex(dist', NetworkVertices, w, v)
      BY <1>4, <3>1, <3>2 DEF CompareSPFVertex
    <3> QED BY <1>0, <2>1, <3>3
  <2>2. CASE x # w
    BY <1>0, <1>3, <2>2 DEF RankedFrontier, CompareSPFVertex
  <2> QED BY <2>1, <2>2
<1>6. ParentsAreAll'
  <2> SUFFICES ASSUME NEW u \in Ids, NEW x \in Ids, NEW k \in 1 .. NumRecords(u),
                      Edge(u, k, x), Explored(u, k)', x # root,
                      dist'[x] = dist'[u] + Cost(u, k)
               PROVE  u \in parents'[x]
    BY <1>1, <1>2 DEF ParentsAreAll
  <2>0. k \in Nat /\ Cost(u, k) \in Nat
    BY EdgeType
  <2>1. CASE u = v /\ k = i
    <3>1. x = w
      BY <1>0, <2>1 DEF Edge
    <3> QED BY <1>0, <2>1, <3>1
  <2>2. CASE Explored(u, k)
    <3>1. u # w /\ dist'[u] = dist[u] /\ Known(x) /\ dist[x] <= dist[u] + Cost(u, k)
      BY <1>0, <1>3, <2>0, <2>2 DEF Relaxed
    <3>2. CASE x = w
      <4>1. Distance = dist[u] + Cost(u, k) /\ Distance <= dist[w]
        BY <1>0, <3>1, <3>2 DEF Known
      <4>2. dist[w] = Distance /\ ~(Distance < dist[w]) /\ status[w] # "NotExplored"
        BY <1>0, <1>4, <3>1, <3>2, <4>1 DEF Known
      <4>3. u \in parents[w]
        BY <1>3, <2>2, <3>2, <4>1, <4>2 DEF ParentsAreAll
      <4>4. parents'[w] = parents[w] \cup {v}
        BY <4>2 DEF Improved, TypeOK
      <4> QED BY <3>2, <4>3, <4>4
    <3>3. CASE x # w
      BY <1>0, <1>3, <2>2, <3>1, <3>3 DEF ParentsAreAll
    <3> QED BY <3>2, <3>3
  <2> QED BY <1>0, <2>0, <2>1, <2>2
<1> QED BY <1>5, <1>6

(* The closest candidate goes into the tree.                               *)
LEMMA EqualCostTree ==
    ASSUME TypeOK, QueueAgreesWithStatus, Dijkstra, EqualCost, AddToTree
    PROVE  EqualCost'
<1> DEFINE t == Top(queue)
<1>a. PICK w : w = t
  OBVIOUS
<1> HIDE DEF t
<1>0. /\ pc = "spf" /\ Building /\ Building' /\ v \in Ids /\ root \in Ids /\ w \in Ids
      /\ status[w] = "Candidate" /\ w # v /\ w # root
      /\ UNCHANGED <<lsdb, pc, root, dist, parents>> /\ v' = w /\ i' = 1
      /\ status'[w] = "InSpfTree" /\ \A x \in Ids \ {w} : status'[x] = status[x]
      /\ \A x \in Ids : status[x] = "Candidate" =>
            /\ ~CompareSPFVertex(dist, NetworkVertices, x, w)
            /\ dist[w] <= dist[x]
      /\ \A u \in Ids : \A k \in 1 .. NumRecords(u) : Explored(u, k)' <=> Explored(u, k)
      /\ InTree' = InTree \cup {w} /\ w \notin InTree
  BY <1>a, AddToTreeFacts DEF t
<1>1. /\ Ids' = Ids /\ NetworkVertices' = NetworkVertices
      /\ \A u : NumRecords(u)' = NumRecords(u)
      /\ \A u, k : Cost(u, k)' = Cost(u, k)
      /\ \A u, k, x : Edge(u, k, x)' <=> Edge(u, k, x)
      /\ PositiveMetrics' <=> PositiveMetrics
  BY <1>0, GraphUnchanged
<1> SUFFICES ASSUME PositiveMetrics PROVE RankedFrontier' /\ ParentsAreAll'
  BY <1>1 DEF EqualCost
<1>2. RankedFrontier /\ ParentsAreAll /\ Progress
  BY <1>0 DEF EqualCost, Dijkstra
<1>3. dist \in [Ids -> Nat]
  BY DEF TypeOK
<1>4. RankedFrontier'
  <2> SUFFICES ASSUME NEW x \in Ids \ {root}
               PROVE  /\ status'[x] = "InSpfTree"
                            => ~CompareSPFVertex(dist, NetworkVertices, w, x)
                      /\ status'[x] = "Candidate"
                            => ~CompareSPFVertex(dist, NetworkVertices, x, w)
    BY <1>0, <1>1 DEF RankedFrontier, CompareSPFVertex
  <2>1. CASE x = w
    BY <1>0, <1>3, <2>1 DEF CompareSPFVertex
  <2>2. CASE x # w /\ status[x] = "InSpfTree"
    <3>1. v # root
      BY <1>2, <2>2 DEF Progress, InTree
    <3>2. /\ ~CompareSPFVertex(dist, NetworkVertices, w, v)
          /\ ~CompareSPFVertex(dist, NetworkVertices, v, x)
      BY <1>0, <1>2, <2>2, <3>1 DEF RankedFrontier
    <3>3. ~CompareSPFVertex(dist, NetworkVertices, w, x)
      BY <1>0, <1>3, <3>2, CompareIsStrictWeakOrder
    <3> QED BY <1>0, <2>2, <3>3
  <2>3. CASE x # w /\ status[x] # "InSpfTree"
    BY <1>0, <2>3
  <2> QED BY <2>1, <2>2, <2>3
<1>5. ParentsAreAll'
  BY <1>0, <1>1, <1>2 DEF ParentsAreAll
<1> QED BY <1>4, <1>5

(* The walks leave the finished tree alone.                                *)
LEMMA EqualCostWalk ==
    ASSUME EqualCost, Building, UNCHANGED <<lsdb, root, v, i, status, dist, parents>>
    PROVE  EqualCost'
<1>1. /\ Ids' = Ids /\ NetworkVertices' = NetworkVertices
      /\ \A u : NumRecords(u)' = NumRecords(u)
      /\ \A u, k : Cost(u, k)' = Cost(u, k)
      /\ \A u, k, w : Edge(u, k, w)' <=> Edge(u, k, w)
      /\ PositiveMetrics' <=> PositiveMetrics
  BY GraphUnchanged
<1> SUFFICES ASSUME PositiveMetrics PROVE RankedFrontier' /\ ParentsAreAll'
  BY <1>1 DEF EqualCost
<1>2. RankedFrontier /\ ParentsAreAll
  BY DEF EqualCost
<1>3. RankedFrontier'
  BY <1>1, <1>2 DEF RankedFrontier, CompareSPFVertex
<1>4. ParentsAreAll'
  BY <1>1, <1>2 DEF ParentsAreAll, Explored
<1> QED BY <1>3, <1>4

(* The invariant about equal-cost paths is inductive, given the others.    *)
LEMMA EqualCostInductive ==
    TypeOK /\ TypeOK' /\ QueueAgreesWithStatus /\ Dijkstra /\ EqualCost /\ [Next]_vars
        => EqualCost'
<1> SUFFICES ASSUME TypeOK, TypeOK', QueueAgreesWithStatus, Dijkstra, EqualCost, [Next]_vars
             PROVE  EqualCost'
  OBVIOUS
<1> USE DEF topology, vertices, walk
<1>1. CASE ~Building'
  BY <1>1 DEF EqualCost
<1>2. CASE StartCalculation
  BY <1>2, EqualCostStart
<1>3. ASSUME NEW w \in Ids, NewCandidate(w) \/ EqualCostPath(w) \/ ShorterPath(w)
      PROVE  EqualCost'
  BY <1>3, RecordImproves, EqualCostCandidate
<1>4. CASE AddToTree
  BY <1>4, EqualCostTree
<1>5. CASE SkipRecord
  <2>1. /\ Examining /\ i' = i + 1 /\ UNCHANGED <<lsdb, pc, root, v, status, dist, parents>>
        /\ \A w \in Ids : ~Edge(v, i, w)
    BY <1>5 DEF SkipRecord, NextRecord, Edge
  <2> QED BY <2>1, EqualCostSkip
<1>6. ASSUME NEW w \in Ids, SkipInTree(w) \/ SkipLongerPath(w) PROVE EqualCost'
  <2>1. /\ Examining /\ i' = i + 1 /\ UNCHANGED <<lsdb, pc, root, v, status, dist, parents>>
        /\ w = Neighbour(v, i) /\ pc = "spf" /\ Building
    BY <1>6 DEF SkipInTree, SkipLongerPath, LeadsTo, Examining, NextRecord, Building
  <2>2. v \in Ids /\ Distance \in Nat /\ dist \in [Ids -> Nat] /\ i \in Nat \ {0}
    BY <2>1, DistanceType DEF TypeOK
  <2>3. i \in 1 .. NumRecords(v)
    BY <2>1, <2>2, EdgeType DEF Examining
  <2>4. Cost(v, i) \in Nat /\ Distance = dist[v] + Cost(v, i)
    BY <2>2, <2>3, EdgeType DEF Distance
  <2>5. ASSUME PositiveMetrics, w # root, Edge(v, i, w), dist[w] = dist[v] + Cost(v, i)
        PROVE  FALSE
    <3>1. CASE SkipLongerPath(w)
      BY <2>2, <2>4, <2>5, <3>1 DEF SkipLongerPath
    <3>2. CASE SkipInTree(w)
      <4>1. status[w] = "InSpfTree"
        BY <3>2 DEF SkipInTree
      <4>2. dist[w] <= dist[v]
        BY <2>1, <4>1 DEF Dijkstra, Frontier
      <4>3. Cost(v, i) = 0 /\ dist[w] = dist[v]
        BY <2>2, <2>4, <2>5, <4>2
      <4>4. v \in NetworkVertices /\ w \notin NetworkVertices
        BY <2>2, <2>5, <4>3, NetworkRecords
      <4>5. ~CompareSPFVertex(dist, NetworkVertices, v, w)
        BY <2>1, <2>5, <4>1 DEF EqualCost, RankedFrontier
      <4> QED BY <4>3, <4>4, <4>5 DEF CompareSPFVertex
    <3> QED BY <1>6, <3>1, <3>2
  <2>6. PositiveMetrics => \A x \in Ids \ {root} :
            Edge(v, i, x) /\ dist[x] = dist[v] + Cost(v, i) => v \in parents[x]
    BY <2>1, <2>5 DEF Edge
  <2> QED BY <2>1, <2>6, EqualCostSkip
<1>7. CASE StartStubs \/ EnterChild \/ SkipChild \/ LeaveChild \/ NextExternal
  <2>1. Building /\ UNCHANGED <<lsdb, root, v, i, status, dist, parents>>
    BY <1>7 DEF StartStubs, EnterChild, SkipChild, LeaveChild, NextExternal, AtChild, AtEnd,
                Building
  <2> QED BY <2>1, EqualCostWalk
<1>8. CASE SkipNode \/ TruncateForStubNode \/ FinishRoutes \/ FinishCalculation \/ MissingLSA
           \/ \E w \in Ids : NexthopFails(w)
  BY <1>1, <1>8
     DEF SkipNode, TruncateForStubNode, FinishRoutes, FinishCalculation, MissingLSA,
         NexthopFails, Building
<1>9. CASE UNCHANGED vars
  <2>1. UNCHANGED <<lsdb, root, v, i, status, dist, parents, pc>>
    BY <1>9 DEF vars
  <2>2. CASE Building
    BY <2>1, <2>2, EqualCostWalk
  <2> QED BY <1>1, <2>1, <2>2 DEF Building
<1> QED
  BY <1>2, <1>3, <1>4, <1>5, <1>6, <1>7, <1>8, <1>9 DEF Next, Step, Stopped

(* The invariant of equal-cost paths holds.                                *)
LEMMA EqualCostHolds == Spec => []EqualCost
<1>1. Init => EqualCost
  BY DEF Init, EqualCost, Building
<1> QED BY <1>1, TypeCorrect, QueueAgrees, DijkstraHolds, EqualCostInductive, PTL DEF Spec

(* The parents in this tree are the predecessors on shortest paths.        *)
LEMMA WalkParents ==
    ASSUME TypeOK, Dijkstra, EqualCost, PositiveMetrics, pc = "walk",
           NEW w \in InTree \ {root}
    PROVE  parents[w] = {e[1] : e \in {f \in Edges :
                            f[2] = w /\ f[1] \in InTree /\ dist[f[1]] + f[3] = dist[w]}}
<1>0. Building /\ v \in Ids /\ w \in Ids /\ Known(w)
  BY DEF Building, TypeOK, InTree, Known
<1>1. Progress /\ ParentsAreTight /\ ParentsAreAll /\ pc = "walk"
  BY <1>0 DEF Dijkstra, EqualCost
<1>2. ASSUME NEW u \in parents[w]
      PROVE  \E f \in Edges : f[1] = u /\ f[2] = w /\ f[1] \in InTree
                              /\ dist[f[1]] + f[3] = dist[w]
  <2>1. PICK k \in 1 .. NumRecords(u) :
              Edge(u, k, w) /\ Explored(u, k) /\ dist[w] = dist[u] + Cost(u, k)
    BY <1>0, <1>1 DEF ParentsAreTight
  <2>2. u \in InTree /\ u \in Ids
    BY <1>0, <2>1 DEF Explored, InTree, TypeOK
  <2>3. <<u, w, Cost(u, k)>> \in Edges
    BY <2>1, <2>2, EdgesAreRecords
  <2> QED BY <2>1, <2>2, <2>3
<1>3. ASSUME NEW f \in Edges, f[2] = w, f[1] \in InTree, dist[f[1]] + f[3] = dist[w]
      PROVE  f[1] \in parents[w]
  <2>1. PICK u, k, y : u \in Ids /\ Edge(u, k, y) /\ f = <<u, y, Cost(u, k)>>
    BY EdgesAreRecords
  <2>2. f[1] = u /\ y = w /\ f[3] = Cost(u, k)
    BY <1>3, <2>1
  <2>3. k \in 1 .. NumRecords(u)
    BY <2>1 DEF Edge
  <2>4. Explored(u, k)
    <3>1. u = v => k < i
      <4>1. i > NumRecords(v) /\ i \in Nat /\ NumRecords(u) \in Nat
        BY <1>0, <1>1, <2>1, EdgeType DEF Progress, TypeOK
      <4> QED BY <2>3, <4>1
    <3> QED BY <1>3, <2>2, <3>1 DEF Explored, InTree
  <2> QED BY <1>0, <1>1, <1>3, <2>1, <2>2, <2>3, <2>4 DEF ParentsAreAll
<1> QED BY <1>2, <1>3

(* Where links between routers cost something, the tree has all equal-cost *)
(* paths: the parents of a vertex are exactly its predecessors on shortest *)
(* paths.  CompareSPFVertex puts networks first for this; with metric 0 it *)
(* is not enough, and a parent found late is left out.                     *)
THEOREM AllParents == Spec => [](PositiveMetrics => AllEqualCostParents)
<1>1. TypeOK /\ Dijkstra /\ EqualCost => (PositiveMetrics => AllEqualCostParents)
  BY WalkParents DEF AllEqualCostParents, TreeBuilt
<1> QED BY <1>1, TypeCorrect, DijkstraHolds, EqualCostHolds, PTL

-----------------------------------------------------------------------------
(***************************************************************************)
(* The walk.                                                               *)
(***************************************************************************)
(* The positions of the stack after a call, a step and a return.           *)
LEMMA StackPositions ==
    ASSUME NEW F, NEW s \in Seq(F), NEW x \in F, s # << >>
    PROVE  /\ Len(s) \in Nat \ {0}
           /\ Len(Append(s, x)) = Len(s) + 1
           /\ \A m \in 1 .. Len(s) : Append(s, x)[m] = s[m]
           /\ Append(s, x)[Len(s) + 1] = x
           /\ Len([s EXCEPT ![Len(s)] = x]) = Len(s)
           /\ \A m \in 1 .. Len(s) - 1 : [s EXCEPT ![Len(s)] = x][m] = s[m]
           /\ [s EXCEPT ![Len(s)] = x][Len(s)] = x
           /\ Len(s) > 1 =>
                LET t == Append(SubSeq(s, 1, Len(s) - 2), x) IN
                /\ Len(t) = Len(s) - 1
                /\ \A m \in 1 .. Len(s) - 2 : t[m] = s[m]
                /\ t[Len(s) - 1] = x
<1>1. Len(s) \in Nat \ {0}
  OBVIOUS
<1>2. /\ Len(Append(s, x)) = Len(s) + 1
      /\ \A m \in 1 .. Len(s) : Append(s, x)[m] = s[m]
      /\ Append(s, x)[Len(s) + 1] = x
  OBVIOUS
<1>3. /\ Len([s EXCEPT ![Len(s)] = x]) = Len(s)
      /\ \A m \in 1 .. Len(s) - 1 : [s EXCEPT ![Len(s)] = x][m] = s[m]
      /\ [s EXCEPT ![Len(s)] = x][Len(s)] = x
  BY <1>1
<1>4. ASSUME Len(s) > 1
      PROVE  LET t == Append(SubSeq(s, 1, Len(s) - 2), x) IN
             /\ Len(t) = Len(s) - 1
             /\ \A m \in 1 .. Len(s) - 2 : t[m] = s[m]
             /\ t[Len(s) - 1] = x
  <2> DEFINE p == SubSeq(s, 1, Len(s) - 2)
  <2>0. 1 \in 1 .. Len(s) + 1 /\ Len(s) - 2 \in 0 .. Len(s)
    BY <1>1, <1>4
  <2>1. p \in Seq(F) /\ Len(p) = Len(s) - 2 /\ \A m \in 1 .. Len(s) - 2 : p[m] = s[m]
    <3>1. p \in Seq(F)
      BY <2>0
    <3>2. Len(p) = Len(s) - 2
      <4> DEFINE n == Len(s) - 2
      <4>1. n \in Int /\ 1 \in Int /\ \A m \in 1 .. n : s[m] \in F
        BY <1>1, <2>0
      <4>2. n \in Nat /\ n - 1 + 1 = n
        BY <1>1, <2>0
      <4> HIDE DEF n
      <4>3. Len(SubSeq(s, 1, n)) = IF 1 <= n THEN n - 1 + 1 ELSE 0
        BY <4>1, SubSeqProperties
      <4>4. Len(SubSeq(s, 1, n)) = n
        BY <4>2, <4>3
      <4> QED BY <4>4 DEF n
    <3>3. \A m \in 1 .. Len(s) - 2 : p[m] = s[m]
      BY <1>1, <2>0
    <3> QED BY <3>1, <3>2, <3>3
  <2> HIDE DEF p
  <2>2. /\ Len(Append(p, x)) = Len(p) + 1
        /\ \A m \in 1 .. Len(p) : Append(p, x)[m] = p[m]
        /\ Append(p, x)[Len(p) + 1] = x
    BY <2>1
  <2>3. Len(p) + 1 = Len(s) - 1
    BY <1>1, <2>1
  <2> QED BY <2>1, <2>2, <2>3 DEF p
<1> QED BY <1>1, <1>2, <1>3, <1>4

(* Routes of a table are added, those of the node are kept.                *)
LEMMA AddRoutesAdds ==
    ASSUME TypeOK, node \in net.routers, NEW table \in {"host", "network", "external"},
           NEW new, AddRoutes(table, new)
    PROVE  /\ routes[node].network \subseteq routes'[node].network
           /\ table = "network" => new \subseteq routes'[node].network
<1>1. node \in net.nodes /\ routes \in [net.nodes -> Tables]
  BY DEF TypeOK, WellFormed, WellFormedTopology
<1>2. routes'[node] = [routes[node] EXCEPT ![table] = @ \cup new]
  BY <1>1 DEF AddRoutes
<1>3. routes[node] \in Tables
  BY <1>1
<1>4. CASE table = "network"
  BY <1>2, <1>3, <1>4 DEF Tables
<1>5. CASE table # "network"
  BY <1>2, <1>3, <1>5 DEF Tables
<1> QED BY <1>4, <1>5

(* What a walk looks at does not change during the walk.                   *)
LEMMA WalkReads ==
    ASSUME UNCHANGED <<lsdb, root, exits, status>>
    PROVE  /\ Ids' = Ids /\ NetworkVertices' = NetworkVertices /\ InTree' = InTree
           /\ \A u : SPFIntraAddStub(u)' = SPFIntraAddStub(u)
<1>1. Ids' = Ids /\ NetworkVertices' = NetworkVertices /\ InTree' = InTree
  BY DEF Ids, NetworkVertices, InTree
<1>2. \A u, a, m : RoutesVia(u, a, m)' = RoutesVia(u, a, m)
  BY DEF RoutesVia
<1>3. \A u, type : Records(u, type)' = Records(u, type)
  BY DEF Records
<1>4. \A u : SPFIntraAddStub(u)' = SPFIntraAddStub(u)
  BY <1>2, <1>3 DEF SPFIntraAddStub
<1> QED BY <1>1, <1>4

(* The walk starts at the root, and again for every external LSA.          *)
LEMMA WalkStarts ==
    ASSUME TypeOK, Dijkstra, Building, ChildrenFollowParents,
           NEW s, s = << <<root, 1>> >>
    PROVE  Calls(s, {}) /\ Done({}) /\ Entered(s, {}) = {root}
<1>1. root \in InTree
  BY DEF Dijkstra, Progress, InTree, TypeOK
<1>2. Len(s) = 1 /\ s[1] = <<root, 1>>
  OBVIOUS
<1>3. Calls(s, {})
  BY <1>1, <1>2 DEF Calls
<1>4. Entered(s, {}) = {root}
  BY <1>2 DEF Entered
<1> QED BY <1>3, <1>4 DEF Done

(* The walk calls itself for a child.                                      *)
LEMMA WalkEnters ==
    ASSUME TypeOK, Dijkstra, ChildrenFollowParents, pc = "walk",
           Calls(stack, processed), Child <= Len(children[Here]),
           NEW x, x = children[Here][Child], NEW s, s = Append(stack, <<x, 1>>)
    PROVE  Calls(s, processed) /\ Entered(s, processed) = Entered(stack, processed) \cup {x}
<1>1. /\ stack \in Seq(Frame) /\ stack # << >> /\ Here \in Ids /\ Child \in Nat \ {0}
  BY WalkPosition
<1>2. Child \in 1 .. Len(children[Here]) /\ children[Here] \in Seq(Ids)
  BY <1>1 DEF TypeOK
<1>3. x \in Ids /\ x \in Listed(children[Here])
  BY <1>2 DEF Listed
<1>4. x \in InTree
  BY <1>1, <1>3 DEF ChildrenFollowParents, Building, InTree
<1>5. <<x, 1>> \in Frame
  BY <1>3 DEF Frame
<1>6. /\ Len(stack) \in Nat \ {0} /\ Len(s) = Len(stack) + 1
      /\ \A m \in 1 .. Len(stack) : s[m] = stack[m]
      /\ s[Len(stack) + 1] = <<x, 1>>
  BY <1>1, <1>5, StackPositions
<1>7. s[1][1] = root
  BY <1>6 DEF Calls
<1>8. ASSUME NEW m \in 1 .. Len(s)
      PROVE  /\ s[m][1] \in InTree
             /\ \A c \in 1 .. s[m][2] - 1 :
                   c \in 1 .. Len(children[s[m][1]]) => children[s[m][1]][c] \in processed
  <2>1. CASE m \in 1 .. Len(stack)
    BY <1>6, <2>1 DEF Calls
  <2>2. CASE m = Len(stack) + 1
    <3>1. s[m][1] = x /\ s[m][2] = 1
      BY <1>6, <2>2
    <3> QED BY <1>4, <3>1
  <2> QED BY <1>6, <2>1, <2>2
<1>9. ASSUME NEW m \in 2 .. Len(s)
      PROVE  /\ s[m - 1][2] \in 1 .. Len(children[s[m - 1][1]])
             /\ s[m][1] = children[s[m - 1][1]][s[m - 1][2]]
  <2>1. CASE m \in 2 .. Len(stack)
    <3>1. m \in 1 .. Len(stack) /\ m - 1 \in 1 .. Len(stack)
      BY <1>6, <2>1
    <3>2. s[m] = stack[m] /\ s[m - 1] = stack[m - 1]
      BY <1>6, <3>1
    <3> QED BY <2>1, <3>2 DEF Calls
  <2>2. CASE m = Len(stack) + 1
    <3>1. m - 1 = Len(stack) /\ Len(stack) \in 1 .. Len(stack)
      BY <1>6, <2>2
    <3>2. s[m - 1][1] = Here /\ s[m - 1][2] = Child /\ s[m][1] = x
      BY <1>6, <2>2, <3>1 DEF Here, Child
    <3> QED BY <1>2, <3>2
  <2> QED BY <1>6, <2>1, <2>2
<1>10. Entered(s, processed) = Entered(stack, processed) \cup {x}
  <2>1. {s[m][1] : m \in 1 .. Len(s)} = {stack[m][1] : m \in 1 .. Len(stack)} \cup {x}
    <3>1. 1 .. Len(s) = 1 .. Len(stack) \cup {Len(stack) + 1}
      BY <1>6
    <3>2. s[Len(stack) + 1][1] = x
      BY <1>6
    <3> QED BY <1>6, <3>1, <3>2
  <2> QED BY <2>1 DEF Entered
<1> QED BY <1>7, <1>8, <1>9, <1>10 DEF Calls

(* A child that is done with is passed by.                                 *)
LEMMA WalkPasses ==
    ASSUME TypeOK, pc = "walk", Calls(stack, processed), Child <= Len(children[Here]),
           children[Here][Child] \in processed,
           NEW s, s = [stack EXCEPT ![Len(stack)] = <<Here, Child + 1>>]
    PROVE  Calls(s, processed) /\ Entered(s, processed) = Entered(stack, processed)
<1> DEFINE n == Len(stack)
           here == Here
           child == Child
<1>1. /\ stack \in Seq(Frame) /\ stack # << >> /\ here \in Ids /\ child \in Nat \ {0}
  BY WalkPosition
<1>2. <<here, child + 1>> \in Frame
  BY <1>1 DEF Frame
<1>3. /\ n \in Nat \ {0} /\ Len(s) = n
      /\ \A m \in 1 .. n - 1 : s[m] = stack[m]
      /\ s[n] = <<here, child + 1>>
  BY <1>1, <1>2, StackPositions
<1>4. stack[n][1] = here /\ stack[n][2] = child /\ children[here][child] \in processed
  BY DEF Here, Child
<1>5. /\ stack[1][1] = root
      /\ \A m \in 1 .. n : stack[m][1] \in InTree
      /\ \A m \in 1 .. n : \A c \in 1 .. stack[m][2] - 1 :
            c \in 1 .. Len(children[stack[m][1]]) => children[stack[m][1]][c] \in processed
      /\ \A m \in 2 .. n :
            /\ stack[m - 1][2] \in 1 .. Len(children[stack[m - 1][1]])
            /\ stack[m][1] = children[stack[m - 1][1]][stack[m - 1][2]]
  BY DEF Calls
<1>6. SUFFICES Calls(s, processed) /\ Entered(s, processed) = Entered(stack, processed)
  OBVIOUS
<1> HIDE DEF n, here, child
<1>7. ASSUME NEW t, t = s
      PROVE  /\ Calls(t, processed)
             /\ \A m \in 1 .. n : t[m][1] = stack[m][1]
  <2>1. /\ Len(t) = n /\ \A m \in 1 .. n - 1 : t[m] = stack[m]
        /\ t[n] = <<here, child + 1>>
    BY <1>3, <1>7
  <2>2. ASSUME NEW m \in 1 .. n PROVE t[m][1] = stack[m][1]
    <3>1. CASE m = n
      BY <1>4, <2>1, <3>1
    <3>2. CASE m \in 1 .. n - 1
      BY <2>1, <3>2
    <3> QED BY <1>3, <3>1, <3>2
  <2>3. t[1][1] = root
    <3>1. 1 \in 1 .. n
      BY <1>3
    <3> QED BY <1>5, <2>2, <3>1
  <2>4. \A m \in 1 .. n : t[m][1] \in InTree
    BY <1>5, <2>2
  <2>5. ASSUME NEW m \in 1 .. n, NEW c \in 1 .. t[m][2] - 1, c \in 1 .. Len(children[t[m][1]])
        PROVE  children[t[m][1]][c] \in processed
    <3>1. CASE m \in 1 .. n - 1
      <4>1. t[m] = stack[m]
        BY <2>1, <3>1
      <4> QED BY <1>5, <2>5, <4>1
    <3>2. CASE m = n
      <4>1. t[m][1] = here /\ t[m][2] = child + 1
        BY <2>1, <3>2
      <4>2. c \in 1 .. child - 1 \/ c = child
        BY <1>1, <2>5, <4>1
      <4> QED BY <1>4, <1>5, <2>5, <3>2, <4>1, <4>2
    <3> QED BY <1>3, <3>1, <3>2
  <2>6. ASSUME NEW m \in 2 .. n
        PROVE  /\ t[m - 1][2] \in 1 .. Len(children[t[m - 1][1]])
               /\ t[m][1] = children[t[m - 1][1]][t[m - 1][2]]
    <3>1. m \in 1 .. n /\ m - 1 \in 1 .. n - 1
      BY <1>3
    <3>2. t[m - 1] = stack[m - 1] /\ t[m][1] = stack[m][1]
      BY <2>1, <2>2, <3>1
    <3> QED BY <1>5, <3>2
  <2>7. Calls(t, processed)
    BY <2>1, <2>3, <2>4, <2>5, <2>6 DEF Calls
  <2> QED BY <2>2, <2>7
<1>8. Calls(s, processed) /\ \A m \in 1 .. n : s[m][1] = stack[m][1]
  BY <1>7
<1>9. {s[m][1] : m \in 1 .. Len(s)} = {stack[m][1] : m \in 1 .. n}
  BY <1>3, <1>8
<1> QED BY <1>8, <1>9 DEF Entered, n

(* The call for a child returns.                                           *)
LEMMA WalkReturns ==
    ASSUME TypeOK, Dijkstra, ChildrenFollowParents, pc = "walk",
           Calls(stack, processed), Done(processed),
           Child > Len(children[Here]), Len(stack) > 1,
           NEW below, below = stack[Len(stack) - 1],
           NEW p, p = processed \cup {Here},
           NEW s, s = Append(SubSeq(stack, 1, Len(stack) - 2), <<below[1], below[2] + 1>>)
    PROVE  Calls(s, p) /\ Done(p) /\ Entered(s, p) = Entered(stack, processed)
<1> DEFINE n == Len(stack)
<1>1. /\ stack \in Seq(Frame) /\ stack # << >> /\ Here \in Ids /\ Child \in Nat \ {0}
  BY WalkPosition
<1>2. n \in Nat /\ n > 1 /\ n - 1 \in 1 .. n /\ n \in 2 .. n /\ n \in 1 .. n
  BY <1>1
<1>3. below \in Frame /\ below[1] \in Ids /\ below[2] \in Nat \ {0}
  BY <1>1, <1>2 DEF Frame
<1>4. <<below[1], below[2] + 1>> \in Frame
  BY <1>3 DEF Frame
<1>5. /\ Len(s) = n - 1 /\ \A m \in 1 .. n - 2 : s[m] = stack[m]
      /\ s[n - 1] = <<below[1], below[2] + 1>>
  BY <1>1, <1>2, <1>4, StackPositions
<1>6. /\ below[2] \in 1 .. Len(children[below[1]])
      /\ Here = children[below[1]][below[2]] /\ Here \in InTree
  BY <1>2 DEF Calls, Here
<1>7. Here # root
  <2>1. Here \in Listed(children[below[1]])
    BY <1>6 DEF Listed
  <2>2. below[1] \in parents[Here]
    BY <1>1, <1>3, <2>1 DEF ChildrenFollowParents, Building
  <2>3. parents[root] = {}
    BY DEF Dijkstra, Building, Progress
  <2> QED BY <2>2, <2>3
<1>8. Listed(children[Here]) \subseteq processed
  <2> SUFFICES ASSUME NEW c \in 1 .. Len(children[Here]) PROVE children[Here][c] \in processed
    BY DEF Listed
  <2>1. Len(children[Here]) \in Nat
    BY <1>1 DEF TypeOK
  <2>2. c \in 1 .. stack[n][2] - 1 /\ stack[n][1] = Here
    BY <1>1, <2>1 DEF Child, Here
  <2> QED BY <1>2, <2>2 DEF Calls
<1> HIDE DEF n
<1>9. Done(p)
  BY <1>6, <1>7, <1>8 DEF Done
<1>10. \A m \in 1 .. n - 1 : s[m][1] = stack[m][1]
  <2>1. ASSUME NEW m \in 1 .. n - 1 PROVE s[m][1] = stack[m][1]
    <3>1. CASE m = n - 1
      BY <1>5, <3>1 DEF n
    <3>2. CASE m # n - 1
      <4>1. m \in 1 .. n - 2
        BY <1>2, <3>2
      <4> QED BY <1>5, <4>1
    <3> QED BY <3>1, <3>2
  <2> QED BY <2>1
<1>11. s[1][1] = root
  BY <1>2, <1>10 DEF Calls
<1>12. ASSUME NEW m \in 1 .. Len(s)
       PROVE  /\ s[m][1] \in InTree
              /\ \A c \in 1 .. s[m][2] - 1 :
                    c \in 1 .. Len(children[s[m][1]]) => children[s[m][1]][c] \in p
  <2>0. m \in 1 .. n - 1 /\ m \in 1 .. n
    BY <1>2, <1>5
  <2>1. CASE m # n - 1
    <3>1. m \in 1 .. n - 2 /\ s[m] = stack[m]
      BY <1>2, <1>5, <2>0, <2>1
    <3> QED BY <2>0, <3>1 DEF Calls, n
  <2>2. CASE m = n - 1
    <3>1. s[m][1] = below[1] /\ s[m][2] - 1 = below[2] /\ stack[m] = below
      BY <1>3, <1>5, <2>2 DEF n
    <3>2. below[1] \in InTree /\ \A c \in 1 .. below[2] - 1 :
                c \in 1 .. Len(children[below[1]]) => children[below[1]][c] \in processed
      BY <2>0, <3>1 DEF Calls, n
    <3>3. \A c \in 1 .. below[2] : c \in 1 .. below[2] - 1 \/ c = below[2]
      BY <1>3
    <3> QED BY <1>6, <3>1, <3>2, <3>3
  <2> QED BY <2>1, <2>2
<1>13. ASSUME NEW m \in 2 .. Len(s)
       PROVE  /\ s[m - 1][2] \in 1 .. Len(children[s[m - 1][1]])
              /\ s[m][1] = children[s[m - 1][1]][s[m - 1][2]]
  <2>1. m \in 2 .. n /\ m \in 1 .. n - 1 /\ m - 1 \in 1 .. n - 2
    BY <1>2, <1>5
  <2>2. s[m - 1] = stack[m - 1] /\ s[m][1] = stack[m][1]
    BY <1>5, <1>10, <2>1
  <2> QED BY <2>1, <2>2 DEF Calls, n
<1>14. Entered(s, p) = Entered(stack, processed)
  <2>1. 1 .. n = 1 .. n - 1 \cup {n} /\ stack[n][1] = Here
    BY <1>2 DEF Here, n
  <2>2. {stack[m][1] : m \in 1 .. n} = {s[m][1] : m \in 1 .. n - 1} \cup {Here}
    <3>1. ASSUME NEW m \in 1 .. n
          PROVE  stack[m][1] \in {s[c][1] : c \in 1 .. n - 1} \cup {Here}
      <4>1. CASE m \in 1 .. n - 1
        <5>1. s[m][1] = stack[m][1]
          BY <1>10, <4>1
        <5> QED BY <4>1, <5>1
      <4>2. CASE m = n
        BY <2>1, <4>2
      <4> QED BY <2>1, <4>1, <4>2
    <3>2. ASSUME NEW c \in 1 .. n - 1
          PROVE  s[c][1] \in {stack[m][1] : m \in 1 .. n}
      <4>1. c \in 1 .. n /\ s[c][1] = stack[c][1]
        BY <1>10, <2>1
      <4> QED BY <4>1
    <3>3. Here \in {stack[m][1] : m \in 1 .. n}
      BY <1>2, <2>1
    <3> QED BY <3>1, <3>2, <3>3
  <2>3. Len(stack) = n /\ Len(s) = n - 1
    BY <1>5 DEF n
  <2>4. {stack[m][1] : m \in 1 .. Len(stack)} = {s[m][1] : m \in 1 .. Len(s)} \cup {Here}
    BY <2>2, <2>3, Zenon
  <2> QED BY <2>4 DEF Entered
<1> QED BY <1>9, <1>11, <1>12, <1>13, <1>14 DEF Calls

(* A step of the walk keeps the invariant when it holds of the new stack.  *)
LEMMA WalkStep ==
    ASSUME UNCHANGED <<lsdb, root, exits, status, children>>,
           NEW s, s = stack', NEW p, p = processed', Calls(s, p), Done(p),
           pass' = 0 => \A u \in Entered(s, p) \ NetworkVertices :
                            SPFIntraAddStub(u) \subseteq routes'[node'].network
    PROVE  WalkInvariant'
<1>1. /\ NetworkVertices' = NetworkVertices /\ InTree' = InTree
      /\ \A u : SPFIntraAddStub(u)' = SPFIntraAddStub(u)
  BY WalkReads
<1>2. Calls(stack, processed)'
  BY <1>1 DEF Calls
<1>3. Done(processed)'
  BY <1>1 DEF Done, Listed
<1>4. Entered(stack, processed)' = Entered(s, p)
  BY DEF Entered
<1>5. (pass = 0 => \A u \in Entered(stack, processed) \ NetworkVertices :
                        SPFIntraAddStub(u) \subseteq routes[node].network)'
  <2> SUFFICES ASSUME pass' = 0, NEW u \in Entered(s, p) \ NetworkVertices
               PROVE  SPFIntraAddStub(u) \subseteq routes'[node'].network
    BY <1>1, <1>4
  <2> QED OBVIOUS
<1> QED BY <1>2, <1>3, <1>5 DEF WalkInvariant

(* The invariant of the walk is inductive, given those of the tree.        *)
LEMMA WalkInductive ==
    TypeOK /\ Dijkstra /\ ChildrenFollowParents /\ WalkInvariant /\ [Next]_vars
        => WalkInvariant'
<1> SUFFICES ASSUME TypeOK, Dijkstra, ChildrenFollowParents, WalkInvariant, [Next]_vars
             PROVE  WalkInvariant'
  OBVIOUS
<1> USE DEF topology, vertices, walk
<1>0. ASSUME pc = "walk"
      PROVE  /\ Calls(stack, processed) /\ Done(processed) /\ Building
             /\ pass = 0 => \A u \in Entered(stack, processed) \ NetworkVertices :
                                SPFIntraAddStub(u) \subseteq routes[node].network
  BY <1>0 DEF WalkInvariant, Building
<1>1. CASE pc' # "walk"
  BY <1>1 DEF WalkInvariant
<1>2. CASE StartStubs
  <2>1. /\ Building /\ UNCHANGED <<lsdb, root, exits, status, children, node>>
        /\ stack' = << <<root, 1>> >> /\ processed' = {} /\ pass' = 0
        /\ AddRoutes(VisitTable(0), VisitRoutes(root, 0))
    BY <1>2 DEF StartStubs, Building
  <2>2. PICK s : s = stack'
    OBVIOUS
  <2>3. Calls(s, {}) /\ Done({}) /\ Entered(s, {}) = {root}
    BY <2>1, <2>2, WalkStarts
  <2>4. VisitRoutes(root, 0) \subseteq routes'[node].network
    <3>1. node \in net.routers /\ VisitTable(0) = "network"
      BY <2>1 DEF TypeOK, VisitTable
    <3> QED BY <2>1, <3>1, AddRoutesAdds
  <2>5. \A u \in Entered(s, {}) \ NetworkVertices :
            SPFIntraAddStub(u) \subseteq routes'[node'].network
    BY <2>1, <2>3, <2>4 DEF VisitRoutes
  <2> QED BY <2>1, <2>2, <2>3, <2>5, WalkStep
<1>3. CASE EnterChild
  <2> DEFINE x == children[Here][Child]
  <2>1. /\ pc = "walk" /\ UNCHANGED <<lsdb, root, exits, status, children, node>>
        /\ Child <= Len(children[Here]) /\ stack' = Append(stack, <<x, 1>>)
        /\ processed' = processed /\ pass' = pass
        /\ AddRoutes(VisitTable(pass), VisitRoutes(x, pass))
    BY <1>3 DEF EnterChild, AtChild
  <2>2. PICK s : s = stack'
    OBVIOUS
  <2>3. Calls(s, processed) /\ Entered(s, processed) = Entered(stack, processed) \cup {x}
    BY <1>0, <2>1, <2>2, WalkEnters
  <2>4. /\ routes[node].network \subseteq routes'[node].network
        /\ pass = 0 => VisitRoutes(x, 0) \subseteq routes'[node].network
    <3>1. node \in net.routers /\ VisitTable(pass) \in {"host", "network", "external"}
      BY <2>1, WalkPosition DEF VisitTable
    <3>2. pass = 0 => VisitTable(pass) = "network"
      BY DEF VisitTable
    <3> QED BY <2>1, <3>1, <3>2, AddRoutesAdds
  <2> HIDE DEF x
  <2>5. pass' = 0 => \A u \in Entered(s, processed) \ NetworkVertices :
            SPFIntraAddStub(u) \subseteq routes'[node'].network
    <3> SUFFICES ASSUME pass' = 0, NEW u \in Entered(s, processed) \ NetworkVertices
                 PROVE  SPFIntraAddStub(u) \subseteq routes'[node'].network
      OBVIOUS
    <3>1. CASE u = x
      BY <2>1, <2>4, <3>1 DEF VisitRoutes
    <3>2. CASE u # x
      BY <1>0, <2>1, <2>3, <2>4, <3>2
    <3> QED BY <3>1, <3>2
  <2> QED BY <1>0, <2>1, <2>2, <2>3, <2>5, WalkStep
<1>4. CASE SkipChild
  <2>1. /\ pc = "walk" /\ UNCHANGED <<lsdb, root, exits, status, children, node, routes>>
        /\ Child <= Len(children[Here]) /\ children[Here][Child] \in processed
        /\ stack' = [stack EXCEPT ![Len(stack)] = <<Here, Child + 1>>]
        /\ processed' = processed /\ pass' = pass
    BY <1>4 DEF SkipChild, AtChild
  <2>2. PICK s : s = stack'
    OBVIOUS
  <2>3. Calls(s, processed) /\ Entered(s, processed) = Entered(stack, processed)
    BY <1>0, <2>1, <2>2, WalkPasses
  <2>4. pass' = 0 => \A u \in Entered(s, processed) \ NetworkVertices :
            SPFIntraAddStub(u) \subseteq routes'[node'].network
    BY <1>0, <2>1, <2>3
  <2> QED BY <1>0, <2>1, <2>2, <2>3, <2>4, WalkStep
<1>5. CASE LeaveChild
  <2> DEFINE below == stack[Len(stack) - 1]
  <2>1. /\ pc = "walk" /\ UNCHANGED <<lsdb, root, exits, status, children, node, routes>>
        /\ Child > Len(children[Here]) /\ Len(stack) > 1
        /\ stack' = Append(SubSeq(stack, 1, Len(stack) - 2), <<below[1], below[2] + 1>>)
        /\ processed' = processed \cup {Here} /\ pass' = pass
    BY <1>5 DEF LeaveChild, AtEnd
  <2>2. PICK s : s = stack'
    OBVIOUS
  <2>3. PICK p : p = processed'
    OBVIOUS
  <2>4. Calls(s, p) /\ Done(p) /\ Entered(s, p) = Entered(stack, processed)
    BY <1>0, <2>1, <2>2, <2>3, WalkReturns
  <2>5. pass' = 0 => \A u \in Entered(s, p) \ NetworkVertices :
            SPFIntraAddStub(u) \subseteq routes'[node'].network
    BY <1>0, <2>1, <2>4
  <2> QED BY <2>1, <2>2, <2>3, <2>4, <2>5, WalkStep
<1>6. CASE NextExternal
  <2>1. /\ pc = "walk" /\ UNCHANGED <<lsdb, root, exits, status, children>>
        /\ stack' = << <<root, 1>> >> /\ processed' = {} /\ pass' = pass + 1
    BY <1>6 DEF NextExternal, AtEnd
  <2>2. PICK s : s = stack'
    OBVIOUS
  <2>3. Calls(s, {}) /\ Done({})
    BY <1>0, <2>1, <2>2, WalkStarts
  <2>4. pass' # 0
    BY <2>1 DEF TypeOK
  <2> QED BY <2>1, <2>2, <2>3, <2>4, WalkStep
<1>7. CASE \/ SkipNode \/ TruncateForStubNode \/ StartCalculation \/ FinishRoutes
           \/ FinishCalculation \/ MissingLSA \/ SkipRecord \/ AddToTree
  BY <1>1, <1>7
     DEF SkipNode, TruncateForStubNode, StartCalculation, FinishRoutes, FinishCalculation,
         MissingLSA, SkipRecord, Examining, NextRecord, AddToTree
<1>8. ASSUME NEW w \in Ids,
             \/ SkipInTree(w) \/ SkipLongerPath(w) \/ NewCandidate(w) \/ EqualCostPath(w)
             \/ ShorterPath(w) \/ NexthopFails(w)
      PROVE  WalkInvariant'
  BY <1>1, <1>8
     DEF SkipInTree, SkipLongerPath, NewCandidate, EqualCostPath, ShorterPath, NexthopFails,
         LeadsTo, Examining, NextRecord
<1>9. CASE UNCHANGED vars
  <2>1. UNCHANGED <<lsdb, root, exits, status, children, node, routes, stack, processed, pass, pc>>
    BY <1>9 DEF vars
  <2>2. CASE pc = "walk"
    BY <1>0, <2>1, <2>2, WalkStep
  <2> QED BY <1>1, <2>1, <2>2
<1> QED
  BY <1>2, <1>3, <1>4, <1>5, <1>6, <1>7, <1>8, <1>9 DEF Next, Step, Stopped

(* When a walk is back at the root with no child left, it has been         *)
(* everywhere.                                                             *)
LEMMA WalkEnds ==
    ASSUME TypeOK, Dijkstra, ChildrenFollowParents, WalkInvariant,
           pc = "walk", Len(stack) = 1, AtEnd
    PROVE  Entered(stack, processed) = InTree /\ processed = InTree \ {root}
<1> DEFINE S == processed \cup {root}
<1>1. Calls(stack, processed) /\ Done(processed)
  BY DEF WalkInvariant
<1>2. Here = root /\ root \in Ids /\ Child \in Nat \ {0} /\ Child > Len(children[root])
  BY <1>1, WalkPosition DEF Calls, Here, AtEnd
<1>3. Entered(stack, processed) = S
  BY <1>2 DEF Entered, Here
<1>4. Listed(children[root]) \subseteq processed
  <2> SUFFICES ASSUME NEW c \in 1 .. Len(children[root]) PROVE children[root][c] \in processed
    BY DEF Listed
  <2>1. Len(children[root]) \in Nat
    BY <1>2 DEF TypeOK
  <2>2. c \in 1 .. stack[1][2] - 1 /\ stack[1][1] = root /\ 1 \in 1 .. Len(stack)
    BY <1>2, <2>1 DEF Child, Here
  <2> QED BY <1>1, <2>2 DEF Calls
<1>5. ASSUME NEW w \in InTree \ {root}, parents[w] \cap S # {} PROVE w \in S
  <2>1. PICK u \in S : u \in parents[w]
    BY <1>5
  <2>2. u \in Ids /\ w \in Ids /\ status[w] = "InSpfTree"
    BY <1>1, <1>2 DEF Done, InTree
  <2>3. w \in Listed(children[u])
    BY <2>1, <2>2 DEF ChildrenFollowParents, Building
  <2> QED BY <1>1, <1>4, <2>1, <2>3 DEF Done
<1>6. S \in SUBSET Ids /\ root \in S
  BY <1>1, <1>2 DEF Done, InTree
<1>7. InTree \subseteq S
  <2> HIDE DEF S
  <2> QED BY <1>5, <1>6 DEF Dijkstra, Building, TreeIsConnected
<1>8. root \in InTree
  BY <1>2 DEF Dijkstra, Building, Progress, InTree
<1> QED BY <1>1, <1>3, <1>7, <1>8 DEF Done

(* The walk that installs stub routes reaches every vertex of the tree and *)
(* installs the routes of its stub networks (SPFProcessStubs): in any      *)
(* database, however many parents share a child.                           *)
THEOREM StubsInstalled == Spec => []StubsAreInstalled
<1>1. Init => WalkInvariant /\ ChildrenFollowParents
  BY DEF Init, WalkInvariant, ChildrenFollowParents, Building
<1>2. TypeOK /\ Dijkstra /\ ChildrenFollowParents /\ WalkInvariant => StubsAreInstalled
  <2> SUFFICES ASSUME TypeOK, Dijkstra, ChildrenFollowParents, WalkInvariant,
                      pc = "walk", pass = 0, Len(stack) = 1, AtEnd
               PROVE  /\ processed = InTree \ {root}
                      /\ \A u \in InTree \ NetworkVertices :
                            SPFIntraAddStub(u) \subseteq routes[node].network
    BY DEF StubsAreInstalled
  <2>1. \A u \in Entered(stack, processed) \ NetworkVertices :
            SPFIntraAddStub(u) \subseteq routes[node].network
    BY DEF WalkInvariant
  <2>2. Entered(stack, processed) = InTree /\ processed = InTree \ {root}
    BY WalkEnds
  <2> QED BY <2>1, <2>2
<1> QED
  BY <1>1, <1>2, TypeCorrect, QueueAgrees, DijkstraHolds, ChildrenInductive, WalkInductive, PTL
     DEF Spec
=============================================================================
