--------------------------- MODULE CapturedMachine ---------------------------
(***************************************************************************)
(* What can be said of a captured machine without walking it.              *)
(*                                                                         *)
(* A machine has a start and data; data[s] is [valid, final, weight, arcs], *)
(* and an arc has a target and a weight.  A hop is one arc of a state,     *)
(* named by its place among them, for two arcs of a state may be equal.    *)
(***************************************************************************)
EXTENDS Naturals, FiniteSets, Sequences

HopsOf(m, s) == {[from |-> s, via |-> i] : i \in 1..Len(m.data[s].arcs)}
Hops(m) == UNION {HopsOf(m, s) : s \in DOMAIN m.data}

Taken(m, h) == m.data[h.from].arcs[h.via]

(* The hops that leave a set of states.                                    *)
Leaving(m, S) == {h \in Hops(m) : h.from \in S}

(* The states that can be found from the start: those in every set that    *)
(* holds the start and that no hop leads out of.                           *)
Found(m) ==
    LET closed == {S \in SUBSET DOMAIN m.data :
                      m.start \in S /\ \A h \in Leaving(m, S) : Taken(m, h).target \in S}
    IN {s \in DOMAIN m.data : \A S \in closed : s \in S}

(* Whether a budget is enough for a set.                                   *)
FewEnough(S, budget) == IsFiniteSet(S) /\ Cardinality(S) <= budget
=============================================================================
