--------------------------- MODULE CandidateQueue ---------------------------
(***************************************************************************)
(* The candidate list of the SPF calculation                               *)
(* (src/internet/model/candidate-queue.cc): a list of vertices ordered by  *)
(* their distance from the root, networks before routers on a tie.         *)
(*                                                                         *)
(* A queue q is a sequence of vertex identifiers.  The two attributes the  *)
(* order looks at live in the vertices, not in the list, and so are        *)
(* parameters: D maps a vertex to its distance from the root and N is the  *)
(* set of the vertices of type VertexNetwork.  As in the code, changing D  *)
(* under a queue does not move anything until Reorder is called.           *)
(***************************************************************************)
EXTENDS Naturals, Sequences, FiniteSets

(***************************************************************************)
(* CandidateQueue::CompareSPFVertex: a is ranked strictly before b.        *)
(***************************************************************************)
CompareByDistance(D, N, a, b) == D[a] < D[b]   \* mutant: no tie-break

CompareSPFVertex(D, N, a, b) ==
    \/ D[a] < D[b]
    \/ D[a] = D[b] /\ a \in N /\ b \notin N

(***************************************************************************)
(* std::upper_bound on a sorted list: the first position whose element is  *)
(* ranked strictly after w, or the end.                                    *)
(***************************************************************************)
UpperBound(D, N, q, w) ==
    CHOOSE p \in 1 .. Len(q) + 1 :
        /\ \A k \in 1 .. p - 1 : ~CompareSPFVertex(D, N, w, q[k])
        /\ p <= Len(q) => CompareSPFVertex(D, N, w, q[p])

(***************************************************************************)
(* CandidateQueue::Push and Pop; the element Pop returns is Top.           *)
(***************************************************************************)
InsertBefore(q, p, w) ==
    [k \in 1 .. Len(q) + 1 |->
        IF k < p THEN q[k] ELSE IF k = p THEN w ELSE q[k - 1]]

Push(D, N, q, w) == InsertBefore(q, UpperBound(D, N, q, w), w)

Top(q) == q[1]

Pop(q) == Tail(q)

(***************************************************************************)
(* CandidateQueue::Reorder: std::list::sort, which is stable.  Position k  *)
(* goes to the rank it has in the order "ranked before, or equally ranked  *)
(* and listed earlier".                                                    *)
(***************************************************************************)
SortsBefore(D, N, q, j, k) ==
    \/ CompareSPFVertex(D, N, q[j], q[k])
    \/ ~CompareSPFVertex(D, N, q[k], q[j]) /\ j < k

Rank(D, N, q, k) ==
    1 + Cardinality({j \in 1 .. Len(q) : SortsBefore(D, N, q, j, k)})

KeepOrder(D, N, q) == q   \* mutant: the list is not re-sorted

Reorder(D, N, q) ==
    [r \in 1 .. Len(q) |->
        q[CHOOSE k \in 1 .. Len(q) : Rank(D, N, q, k) = r]]

(***************************************************************************)
(* What the list promises its user.                                        *)
(***************************************************************************)
Sorted(D, N, q) ==
    \A j, k \in 1 .. Len(q) : j < k => ~CompareSPFVertex(D, N, q[k], q[j])

Listed(q) == {q[k] : k \in 1 .. Len(q)}

NoDuplicates(q) == \A j, k \in 1 .. Len(q) : j # k => q[j] # q[k]
=============================================================================
