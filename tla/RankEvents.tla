------------------------------ MODULE RankEvents ------------------------------
(***************************************************************************)
(* What the two parallel simulators (src/mpi) share: the event list of a   *)
(* rank as the sequence of its events in the order of their keys.  An      *)
(* event goes behind those of the same time, its uid being the largest.    *)
(***************************************************************************)
EXTENDS Integers, Sequences, FiniteSetsExt

Event(ts, kind, arg) == [ts |-> ts, kind |-> kind, arg |-> arg]

(* The first position with a later event. *)
Position(list, e) ==
    Min({k \in 1 .. Len(list) + 1 : k <= Len(list) => list[k].ts > e.ts})

Insert(list, e) ==
    LET p == Position(list, e) IN
    [k \in 1 .. Len(list) + 1 |->
        IF k < p THEN list[k] ELSE IF k = p THEN e ELSE list[k - 1]]

(* A point-to-point channel between two ranks, as two links. *)
Both(a, b, delay, tx) ==
    {[from |-> a, to |-> b, delay |-> delay, tx |-> tx],
     [from |-> b, to |-> a, delay |-> delay, tx |-> tx]}
=============================================================================
