-------------------------- MODULE ShortestDistance --------------------------
(***************************************************************************)
(* Generic shortest distances (src/src/algorithms/shortest_distance.rs)    *)
(* under the three queue disciplines (src/src/algorithms/queue.rs), for    *)
(* the tropical semiring over integers and for counts that saturate.  A    *)
(* step is one turn of the loop: a state is popped and all its arcs are    *)
(* relaxed, or a pivot is eliminated.  Weights compare exactly.            *)
(***************************************************************************)
EXTENDS GraphReference

CONSTANTS Requests,   \* [fst, task, discipline, limit]: what is asked for
          Unlimited,  \* no max_iterations
          MostCount   \* the greatest count, u64::MAX

ASSUME RequestAssumption ==
    \A r \in Requests :
       /\ r.task \in {"forward", "reverse", "pairs"} /\ r.limit \in Nat \cup {Unlimited}
       /\ r.discipline \in {"fifo", "shortest", "topological", "auto"}
       /\ r.fst.domain \in {"tropical", "count"}
       /\ r.task = "pairs" => r.fst.domain = "tropical"   \* counts have no star

VARIABLES request,
          distance,   \* by state, or by pair of states
          remainder,  \* by state, what is still to be propagated
          queue,
          turns,      \* states popped, or pivots eliminated
          outcome     \* "some" for the distances as they are, "none", or "running"

distanceVars == <<request, distance, remainder, queue, turns, outcome>>

fst == request.fst
Nodes == DOMAIN fst.data
Size == Cardinality(Nodes)
Ascending == [i \in 1..Size |-> i - 1]

-----------------------------------------------------------------------------
(* The semirings                                                           *)

Least(a, b) == IF a < b THEN a ELSE b
Zero == IF fst.domain = "count" THEN 0 ELSE Top
One == IF fst.domain = "count" THEN 1 ELSE 0
NaturalLess(a, b) == a # Top /\ (b = Top \/ a < b)
Plus(a, b) ==
    IF fst.domain = "count" THEN Least(MostCount, a + b)
    ELSE IF NaturalLess(a, b) THEN a ELSE b
Times(a, b) ==
    IF fst.domain = "count" THEN Least(MostCount, a * b)
    ELSE IF Top \in {a, b} THEN Top ELSE a + b
StarDiverges(a) == NaturalLess(a, One)   \* else the star of a is One

-----------------------------------------------------------------------------
(* Arcs, forward and reversed; an arc to no state is passed over.          *)

Proper(s) == SelectSeq(fst.data[s].arcs, LAMBDA a : a.target \in Nodes)
Into(s) ==
    FlattenSeq([i \in DOMAIN Ascending |->
        LET arcs == SelectSeq(Proper(Ascending[i]), LAMBDA a : a.target = s)
        IN [k \in DOMAIN arcs |-> [target |-> Ascending[i], weight |-> arcs[k].weight]]])
Edges(s) == IF request.task = "reverse" THEN Into(s) ELSE Proper(s)

(* Kahn's algorithm, its queue being a stack; shorter than Size when the   *)
(* automaton has a cycle.                                                  *)
KahnVisit(k, arc) ==
    [k EXCEPT !.degree[arc.target] = @ - 1,
              !.stack = IF k.degree[arc.target] = 1 THEN Append(@, arc.target) ELSE @]
KahnPop(k) ==
    IF k.stack = << >> THEN k
    ELSE FoldLeft(KahnVisit, [k EXCEPT !.stack = Front(@), !.order = Append(@, Last(k.stack))],
                  Proper(Last(k.stack)))
TopologicalOrder ==
    LET degree == [s \in Nodes |-> Len(Into(s))]
        begin == [degree |-> degree, order |-> << >>,
                  stack |-> SelectSeq(Ascending, LAMBDA s : degree[s] = 0)]
    IN FoldLeft(LAMBDA k, i : KahnPop(k), begin, Ascending).order

-----------------------------------------------------------------------------
(* Queues                                                                  *)

FifoQueue == [kind |-> "fifo", line |-> << >>]
TopologicalQueue(order) ==
    [kind |-> "topological", order |-> order, position |-> 1, enqueued |-> {}]
ShortestFirstQueue ==
    [kind |-> "shortest", heap |-> {}, inQueue |-> {}, next |-> 0,
     distances |-> [s \in Nodes |-> Zero]]

QueueFor(discipline) ==
    CASE discipline = "fifo" -> FifoQueue
      [] discipline = "shortest" -> ShortestFirstQueue
      [] OTHER -> IF Len(TopologicalOrder) = Size THEN TopologicalQueue(TopologicalOrder)
                                                  ELSE FifoQueue

Position(q, s) == CHOOSE i \in DOMAIN q.order : q.order[i] = s

(* A state enters, or is told its new distance; insert and update agree.   *)
SetDistance(q, s, d) ==
    IF d = Zero \/ (s \in q.inQueue /\ q.distances[s] = d) THEN q
    ELSE [q EXCEPT !.distances[s] = d, !.next = @ + 1, !.inQueue = @ \cup {s},
                   !.heap = @ \cup {[state |-> s, distance |-> d, sequence |-> q.next]}]
Insert(q, s, d) ==
    CASE q.kind = "fifo" ->
           IF s \in Range(q.line) THEN q ELSE [q EXCEPT !.line = Append(@, s)]
      [] q.kind = "topological" ->
           IF Position(q, s) < q.position THEN q ELSE [q EXCEPT !.enqueued = @ \cup {s}]
      [] q.kind = "shortest" -> SetDistance(q, s, d)

(* Entries of the heap that the queue still stands by, and their order.    *)
Live(q) == {e \in q.heap : e.state \in q.inQueue /\ e.distance = q.distances[e.state]}
Ahead(e, f) ==
    \/ NaturalLess(e.distance, f.distance)
    \/ ~NaturalLess(f.distance, e.distance) /\ e.sequence < f.sequence
Foremost(q) == CHOOSE e \in Live(q) : \A f \in Live(q) \ {e} : Ahead(e, f)

Waiting(q) ==
    CASE q.kind = "fifo" -> Range(q.line)
      [] q.kind = "topological" -> q.enqueued
      [] q.kind = "shortest" -> {e.state : e \in Live(q)}
FirstOf(q) ==
    CASE q.kind = "fifo" -> Head(q.line)
      [] q.kind = "topological" ->
           CHOOSE s \in q.enqueued : \A t \in q.enqueued : Position(q, s) <= Position(q, t)
      [] q.kind = "shortest" -> Foremost(q).state
PopOf(q) ==
    CASE q.kind = "fifo" -> [q EXCEPT !.line = Tail(@)]
      [] q.kind = "topological" ->
           [q EXCEPT !.enqueued = @ \ {FirstOf(q)}, !.position = Position(q, FirstOf(q)) + 1]
      [] q.kind = "shortest" ->
           [q EXCEPT !.heap = {e \in @ : Ahead(Foremost(q), e)},
                     !.inQueue = @ \ {FirstOf(q)}]

-----------------------------------------------------------------------------
(* A distance in either direction                                          *)

HasStart == fst.start \in Nodes
Finals == SelectSeq(Ascending, LAMBDA s : fst.data[s].final)
Origin ==
    IF request.task = "reverse"
    THEN [s \in Nodes |-> IF fst.data[s].final THEN fst.data[s].weight ELSE Zero]
    ELSE [s \in Nodes |-> IF s = fst.start THEN One ELSE Zero]
FirstQueue ==
    IF request.task = "reverse"
    THEN FoldLeft(LAMBDA q, s : Insert(q, s, Origin[s]), FifoQueue, Finals)
    ELSE IF HasStart THEN Insert(QueueFor(request.discipline), fst.start, One) ELSE FifoQueue

(* Mutant of Relaxed: what was still to be propagated is overwritten.      *)
Relaxed_Overwrites(v, arc, r) ==
    LET carried == Times(r, arc.weight)
        sum == Plus(v.distance[arc.target], carried)
    IN IF sum = v.distance[arc.target] THEN v
       ELSE [distance |-> [v.distance EXCEPT ![arc.target] = sum],
             remainder |-> [v.remainder EXCEPT ![arc.target] = carried],
             queue |-> Insert(v.queue, arc.target, sum)]

(* One arc, on which r is carried over.                                    *)
Relaxed(v, arc, r) ==
    LET carried == Times(r, arc.weight)
        sum == Plus(v.distance[arc.target], carried)
    IN IF sum = v.distance[arc.target] THEN v
       ELSE [distance |-> [v.distance EXCEPT ![arc.target] = sum],
             remainder |-> [v.remainder EXCEPT ![arc.target] = Plus(@, carried)],
             queue |-> Insert(v.queue, arc.target, sum)]

Exceeded == request.limit # Unlimited /\ turns >= request.limit

OneSource == request.task # "pairs" /\ outcome = "running" /\ UNCHANGED request

Propagate ==
    /\ OneSource /\ Waiting(queue) # {} /\ ~Exceeded
    /\ LET s == FirstOf(queue)
           cleared == [distance |-> distance, queue |-> PopOf(queue),
                       remainder |-> [remainder EXCEPT ![s] = Zero]]
           after == IF remainder[s] = Zero THEN cleared
                    ELSE FoldLeft(LAMBDA v, arc : Relaxed(v, arc, remainder[s]), cleared, Edges(s))
       IN /\ distance' = after.distance
          /\ remainder' = after.remainder
          /\ queue' = after.queue
    /\ turns' = turns + 1
    /\ UNCHANGED outcome

NotConverged ==
    /\ OneSource /\ Waiting(queue) # {} /\ Exceeded
    /\ outcome' = "none"
    /\ UNCHANGED <<distance, remainder, queue, turns>>

Settled ==
    /\ OneSource /\ Waiting(queue) = {}
    /\ outcome' = "some"
    /\ UNCHANGED <<distance, remainder, queue, turns>>

(* The total over all paths to a final state.                              *)
TotalToFinal(distances) ==
    FoldLeft(LAMBDA t, s : Plus(t, Times(distances[s], fst.data[s].weight)), Zero, Finals)

-----------------------------------------------------------------------------
(* All pairs                                                               *)

Pairs == Nodes \X Nodes
DirectArcs ==
    [e \in Pairs |-> FoldLeft(LAMBDA d, a : IF a.target = e[2] THEN Plus(d, a.weight) ELSE d,
                              Zero, Proper(e[1]))]
RowMajor == FlattenSeq([i \in 1..Size |-> [j \in 1..Size |-> <<i - 1, j - 1>>]])

(* The matrix is updated in place, row by row.                             *)
Through(d, e, k) ==
    IF Zero \in {d[<<e[1], k>>], d[<<k, e[2]>>]} THEN d
    ELSE [d EXCEPT ![e] = Plus(@, Times(d[<<e[1], k>>], d[<<k, e[2]>>]))]

AllPairs == request.task = "pairs" /\ outcome = "running" /\ UNCHANGED <<request, remainder, queue>>

Eliminate ==
    /\ AllPairs /\ turns < Size /\ ~StarDiverges(distance[<<turns, turns>>])
    /\ distance' = FoldLeft(LAMBDA d, e : Through(d, e, turns), distance, RowMajor)
    /\ turns' = turns + 1
    /\ UNCHANGED outcome

StarFails ==
    /\ AllPairs /\ turns < Size /\ StarDiverges(distance[<<turns, turns>>])
    /\ outcome' = "none"
    /\ UNCHANGED <<distance, turns>>

AddEmptyPaths ==
    /\ AllPairs /\ turns = Size
    /\ distance' = [e \in Pairs |-> IF e[1] = e[2] THEN Plus(distance[e], One) ELSE distance[e]]
    /\ outcome' = "some"
    /\ UNCHANGED turns

-----------------------------------------------------------------------------

DistanceInit ==
    /\ request \in Requests
    /\ distance = IF request.task = "pairs" THEN DirectArcs ELSE Origin
    /\ remainder = Origin
    /\ queue = IF request.task = "pairs" THEN FifoQueue ELSE FirstQueue
    /\ turns = 0 /\ outcome = "running"

(* The call has returned.                                                  *)
Returned == outcome # "running" /\ UNCHANGED distanceVars

DistanceNext ==
    \/ Propagate \/ NotConverged \/ Settled
    \/ Eliminate \/ StarFails \/ AddEmptyPaths
    \/ Returned

DistanceSpec == DistanceInit /\ [][DistanceNext]_distanceVars

-----------------------------------------------------------------------------
(* By definition                                                           *)

Saturated(domain, v) == IF domain = "count" THEN Least(MostCount, v) ELSE v

(* The automaton without the arcs that lead nowhere, and how many arcs a   *)
(* walk needs before nothing can change any more: a cycle counts once per  *)
(* turn until the count is full.                                           *)
Pruned(m) ==
    [m EXCEPT !.data = [s \in Raws(m) |->
        [m.data[s] EXCEPT !.arcs = SelectSeq(@, LAMBDA a : a.target \in Raws(m))]]]
Horizon(m) == Cardinality(Raws(m)) * (IF m.domain = "count" THEN MostCount ELSE 1)

(* The walks from s to t that take at least one arc, and by state in       *)
(* between only states below k.                                            *)
WalksBetween(m, s, t) == {w \in Walks(m, s, Horizon(m)) : w # << >> /\ EndAt(m, s, w) = t}
Via(m, s, walks, k) == {w \in walks : \A i \in 1..(Len(w) - 1) : PointAt(m, s, w, i) < k}
SumOver(m, s, walks) ==
    Saturated(m.domain,
              Over(m.domain, walks, LAMBDA w : Combined(m.domain, WeightsOf(m, s, w))))

(* For every automaton and pair of states, the sums for k = 0, 1, ...      *)
Sums ==
    [m \in {r.fst : r \in Requests} |->
        LET p == Pruned(m) IN
        [e \in Raws(m) \X Raws(m) |->
            LET walks == WalksBetween(p, e[1], e[2])
            IN [k \in 0..Cardinality(Raws(m)) |-> SumOver(p, e[1], Via(p, e[1], walks, k))]]]
Sum(e) == Sums[fst][e][Size]

(* The states of closed walks below nothing, and the pairs of states with  *)
(* a walk from the first to the second.                                    *)
Falls ==
    [m \in {r.fst : r \in Requests} |->
        LET p == Pruned(m) IN
        {s \in Raws(p) : p.domain = "tropical" /\
            \E w \in Walks(p, s, Cardinality(Raws(p))) :
               EndAt(p, s, w) = s /\ Combined(p.domain, WeightsOf(p, s, w)) < 0}]
Joined ==
    [m \in {r.fst : r \in Requests} |->
        UNION {{s} \X Reachable([Pruned(m) EXCEPT !.start = s]) : s \in Raws(m)}]

(* Such a walk on the way from the start, on the way to an end, or         *)
(* anywhere, as the request asks for.                                      *)
Descends ==
    \E s \in Falls[fst] :
       CASE request.task = "forward" -> <<fst.start, s>> \in Joined[fst]
         [] request.task = "reverse" -> \E t \in Range(Finals) : <<s, t>> \in Joined[fst]
         [] request.task = "pairs" -> TRUE
NothingLowers ==
    fst.domain = "tropical" /\ \A s \in Nodes : \A a \in Range(fst.data[s].arcs) : a.weight >= 0
PlusAll(S, value(_)) == FoldSet(LAMBDA s, t : Plus(value(s), t), Zero, S)

Total(q) ==
    IF request.task = "reverse"
    THEN Plus(Origin[q], PlusAll(Nodes, LAMBDA p : Times(Sum(<<q, p>>), Origin[p])))
    ELSE Plus(Origin[q], PlusAll(Nodes, LAMBDA p : Times(Origin[p], Sum(<<p, q>>))))
Pending(q) ==
    PlusAll(Nodes, LAMBDA p : Times(remainder[p], Sum(IF request.task = "reverse" THEN <<q, p>>
                                                                                ELSE <<p, q>>)))

(* Between any two turns, what a state has been given and what is still    *)
(* under way to it make up the sum over all its paths; after k pivots, an  *)
(* entry of the matrix is the sum over the paths through states below k.   *)
(* What is returned is therefore the sum over all paths, also when counts  *)
(* are full; nothing is returned only for a limit that was reached or a    *)
(* cycle on the way that lowers its own weight, and never for a limit of   *)
(* one turn per state when the order of states was chosen to need no more. *)
PathsAreAccounted ==
    /\ ~Descends /\ outcome = "running" =>
         IF request.task = "pairs"
         THEN \A e \in Pairs : distance[e] = Sums[fst][e][turns]
         ELSE \A q \in Nodes : Plus(distance[q], Pending(q)) = Total(q)
    /\ outcome = "some" =>
         /\ ~Descends
         /\ request.task = "pairs" =>
              \A e \in Pairs : distance[e] = (IF e[1] = e[2] THEN Plus(One, Sum(e)) ELSE Sum(e))
         /\ request.task # "pairs" => \A q \in Nodes : distance[q] = Total(q)
         /\ request.task = "forward" =>
              TotalToFinal(distance)
                 = PlusAll(Range(Finals), LAMBDA s : Times(Total(s), fst.data[s].weight))
    /\ outcome = "none" => Descends \/ Exceeded
    /\ queue.kind = "topological" \/ (queue.kind = "shortest" /\ NothingLowers) => turns <= Size
=============================================================================
