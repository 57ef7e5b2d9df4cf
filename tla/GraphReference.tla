--------------------------- MODULE GraphReference ---------------------------
(***************************************************************************)
(* What a captured machine holds, by definition: its walks, their order,   *)
(* and the sums over them.  A walk is the sequence of its arc numbers.     *)
(***************************************************************************)
EXTENDS Integers, FiniteSets, Sequences, SequencesExt, FiniteSetsExt

CONSTANTS Top,   \* the tropical weight of no walk
          Whole  \* the parts of a mass of one

Raws(m) == DOMAIN m.data

(* The state after a walk from s, and after its first i arcs.              *)
EndAt(m, s, walk) == FoldLeft(LAMBDA at, k : m.data[at].arcs[k].target, s, walk)
PointAt(m, s, walk, i) == EndAt(m, s, SubSeq(walk, 1, i))
ArcOf(m, s, walk, i) == m.data[PointAt(m, s, walk, i - 1)].arcs[walk[i]]

(* All walks of at most n arcs.                                            *)
Walks(m, s, n) ==
    LET of[i \in 0..n] ==
          IF i = 0 THEN {<< >>}
          ELSE UNION {{Append(w, k) : k \in DOMAIN m.data[EndAt(m, s, w)].arcs} : w \in of[i - 1]}
    IN UNION {of[i] : i \in 0..n}

Accepting(m, s, n) == {w \in Walks(m, s, n) : m.data[EndAt(m, s, w)].final}

-----------------------------------------------------------------------------
(* Order                                                                   *)

Lexically(v, w) ==
    \E i \in DOMAIN v : i \in DOMAIN w /\ v[i] < w[i] /\ \A j \in 1..(i - 1) : v[j] = w[j]
Shorter(v, w) == Len(v) < Len(w) \/ (Len(v) = Len(w) /\ Lexically(v, w))

(* A set as a sequence, by a total order on it.                            *)
InOrder(S, Before(_, _)) ==
    [i \in 1..Cardinality(S) |->
        CHOOSE x \in S : Cardinality({y \in S : Before(y, x)}) = i - 1]

(* The states that some walk from the start comes to.                      *)
Reachable(m) == {EndAt(m, m.start, w) : w \in Walks(m, m.start, Cardinality(Raws(m)) - 1)}

-----------------------------------------------------------------------------
(* Sums                                                                    *)

(* The weights along a walk, and with the weight of ending there.          *)
WeightsOf(m, s, w) == [i \in DOMAIN w |-> ArcOf(m, s, w, i).weight]
FullWeights(m, s, w) == Append(WeightsOf(m, s, w), m.data[EndAt(m, s, w)].weight)

Added(values) == FoldLeft(LAMBDA a, b : a + b, 0, values)
Multiplied(values) == FoldLeft(LAMBDA a, b : a * b, 1, values)
BinaryLog(v) == CHOOSE n \in 0..v : 2 ^ n = v

Combined(domain, values) ==
    CASE domain = "count" -> Multiplied(values)
      [] domain = "tropical" -> IF Top \in Range(values) THEN Top ELSE Added(values)
      [] OTHER -> (Multiplied(values) * Whole) \div Whole ^ Len(values)

(* What a walk costs when walks are compared one by one.                   *)
Cost(domain, values) ==
    IF domain = "tropical" THEN Combined(domain, values)
    ELSE IF 0 \in Range(values) THEN Top
    ELSE IF domain = "count" THEN BinaryLog(Multiplied(values))
    ELSE Len(values) * BinaryLog(Whole) - BinaryLog(Multiplied(values))

(* value, over a set of walks, summed in the domain.                       *)
Over(domain, walks, value(_)) ==
    IF domain # "tropical" THEN MapThenSumSet(value, walks)
    ELSE LET costs == {value(w) : w \in walks} \ {Top}
         IN IF costs = {} THEN Top ELSE Min(costs)

(* The accepting walks of at most n arcs that cost anything finite, the    *)
(* cheapest first, then the shortest, then in the order of arcs.           *)
Ranking(m, n) ==
    LET cost[w \in Accepting(m, m.start, n)] == Cost(m.domain, FullWeights(m, m.start, w))
        Before(v, w) == cost[v] < cost[w] \/ (cost[v] = cost[w] /\ Shorter(v, w))
    IN InOrder({w \in DOMAIN cost : cost[w] # Top}, Before)

(* A closed walk that costs less than nothing.                             *)
NegativeCycle(m) ==
    \E s \in Reachable(m) : \E w \in Walks(m, s, Cardinality(Raws(m))) :
       /\ EndAt(m, s, w) = s
       /\ Cost(m.domain, WeightsOf(m, s, w)) # Top
       /\ Cost(m.domain, WeightsOf(m, s, w)) < 0

Cyclic(m) ==
    \E s \in Reachable(m) : \E w \in Walks(m, s, Cardinality(Raws(m))) \ {<< >>} :
       EndAt(m, s, w) = s
=============================================================================
