---------------------------- MODULE PathReference ----------------------------
(***************************************************************************)
(* The walks and the accepting paths of a captured machine, said once and  *)
(* for all: what the path cursor yields and answers is held against them.  *)
(* A walk is a sequence of hops.                                           *)
(***************************************************************************)
EXTENDS CapturedMachine

(* Where a walk has come to, taking its hops in turn from the start.       *)
EndOf(m, w) == IF w = << >> THEN m.start ELSE Taken(m, w[Len(w)]).target

IsWalk(m, w) ==
    \A i \in 1..Len(w) :
        w[i].from = IF i = 1 THEN m.start ELSE Taken(m, w[i - 1]).target

Accepts(m, w) == m.data[EndOf(m, w)].final

WalksOf(m, n) == {w \in [1..n -> Hops(m)] : IsWalk(m, w)}
WalksWithin(m, n) == UNION {WalksOf(m, k) : k \in 0..n}

WeightOf(m, w) ==
    LET sum[i \in 0..Len(w)] == IF i = 0 THEN 0 ELSE sum[i - 1] + Taken(m, w[i]).weight
    IN sum[Len(w)]

PathOf(m, w) ==
    [hops |-> w,
     steps |-> [i \in 1..Len(w) |-> [from |-> w[i].from, arc |-> Taken(m, w[i])]],
     final |-> EndOf(m, w),
     weight |-> WeightOf(m, w) + m.data[EndOf(m, w)].weight]

PathsWithin(m, n) == {PathOf(m, w) : w \in {v \in WalksWithin(m, n) : Accepts(m, v)}}

(* Depth first, by the order of each state's arcs: a walk comes before     *)
(* those that go on from it, and before those that leave it by a later arc. *)
Before(v, w) ==
    \E i \in 1..Len(w) :
        /\ Len(v) >= i - 1
        /\ \A j \in 1..(i - 1) : v[j] = w[j]
        /\ Len(v) >= i => v[i].via < w[i].via

(* The states within reach.                                                *)
Reach(m, n) == {EndOf(m, w) : w \in WalksWithin(m, n)}
=============================================================================
