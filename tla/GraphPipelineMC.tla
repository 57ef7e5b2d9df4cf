--------------------------- MODULE GraphPipelineMC ---------------------------
(***************************************************************************)
(* Instances of GraphPipeline for TLC, and its properties.                 *)
(***************************************************************************)
EXTENDS GraphPipeline, GraphReference, TLC

Arc(t, w) == [target |-> t, weight |-> w]
Ending(w, arcs) == [valid |-> TRUE, final |-> TRUE, weight |-> w, arcs |-> arcs]
Inner(arcs) == [valid |-> TRUE, final |-> FALSE, weight |-> Inf, arcs |-> arcs]
InnerCount(arcs) == [valid |-> TRUE, final |-> FALSE, weight |-> 0, arcs |-> arcs]
Absent == [valid |-> FALSE, final |-> FALSE, weight |-> Inf, arcs |-> << >>]

(* Two arcs to one state, a tie in cost, a path that is found late.        *)
Ties ==
    [start |-> "b", domain |-> "tropical",
     data |-> [b |-> Inner(<<Arc("d", 1), Arc("a", 0), Arc("d", 1)>>),
               a |-> Inner(<<Arc("d", 1), Arc("c", Inf)>>),
               d |-> Ending(1, <<Arc("c", 0)>>),
               c |-> Ending(0, << >>)]]

(* Two branches of two levels, found level by level.                       *)
Broad ==
    [start |-> "c", domain |-> "tropical",
     data |-> [a |-> Ending(1, << >>),
               b |-> Inner(<<Arc("a", 1), Arc("d", 0)>>),
               c |-> Inner(<<Arc("e", 0), Arc("b", 0)>>),
               d |-> Ending(2, << >>),
               e |-> Inner(<<Arc("f", 2)>>),
               f |-> Ending(0, << >>)]]

(* A free loop, a dead end and an arc back to the start.                   *)
Loops ==
    [start |-> "a", domain |-> "tropical",
     data |-> [a |-> Inner(<<Arc("a", 0), Arc("d", 0), Arc("b", 2)>>),
               b |-> Ending(0, <<Arc("a", 0 - 1)>>),
               d |-> Inner(<< >>)]]

(* Going round makes it cheaper for ever.                                  *)
Descent ==
    [start |-> "a", domain |-> "tropical",
     data |-> [a |-> Inner(<<Arc("b", 0 - 1), Arc("c", 1)>>),
               b |-> Inner(<<Arc("a", 0)>>),
               c |-> Ending(0, << >>)]]

(* Counts, with an arc of no paths and a dead end.                         *)
Counts ==
    [start |-> "a", domain |-> "count",
     data |-> [a |-> InnerCount(<<Arc("b", 2), Arc("d", 4), Arc("c", 1), Arc("e", 0)>>),
               b |-> Ending(1, <<Arc("c", 2)>>),
               c |-> Ending(2, <<Arc("e", 1)>>),
               d |-> InnerCount(<< >>),
               e |-> Ending(1, << >>)]]

(* More paths than can be counted.                                         *)
Many ==
    [start |-> "a", domain |-> "count",
     data |-> [a |-> InnerCount(<<Arc("b", 4), Arc("b", 1)>>),
               b |-> InnerCount(<<Arc("c", 4)>>),
               c |-> Ending(1, << >>)]]

(* More than can be counted, seen from the end only.                       *)
Endings ==
    [start |-> "a", domain |-> "count",
     data |-> [a |-> InnerCount(<<Arc("b", 4)>>),
               b |-> Ending(1, <<Arc("c", 4)>>),
               c |-> Ending(2, << >>)]]

(* Counts around a cycle.                                                  *)
Rounds ==
    [start |-> "a", domain |-> "count",
     data |-> [a |-> Ending(1, <<Arc("b", 2)>>),
               b |-> InnerCount(<<Arc("a", 1)>>)]]

(* A state the provider does not know.                                     *)
Dangling ==
    [start |-> "a", domain |-> "tropical",
     data |-> [a |-> Inner(<<Arc("b", 0), Arc("c", 0)>>),
               b |-> Ending(0, << >>),
               c |-> Absent]]

(* More than can be counted, seen from the start only: no way on.          *)
DeadEnds ==
    [start |-> "a", domain |-> "count",
     data |-> [a |-> Ending(1, <<Arc("b", 4)>>),
               b |-> InnerCount(<<Arc("c", 4)>>),
               c |-> InnerCount(<<Arc("d", 4)>>),
               d |-> InnerCount(<< >>)]]

(* There are ways to the end, and all of them are worth nothing.           *)
Worthless ==
    [start |-> "a", domain |-> "count",
     data |-> [a |-> InnerCount(<<Arc("b", 0), Arc("c", 2)>>),
               b |-> Ending(1, << >>),
               c |-> Ending(0, << >>)]]

(* Masses, in quarters.  They add up to one at every state ...             *)
Stochastic(domain) ==
    [start |-> "a", domain |-> domain,
     data |-> [a |-> InnerCount(<<Arc("b", 2), Arc("c", 2)>>),
               b |-> Ending(2, <<Arc("c", 2)>>),
               c |-> Ending(4, << >>)]]

(* ... to more than one at some, with a dead end and an arc of no mass ... *)
Weighted(domain) ==
    [start |-> "a", domain |-> domain,
     data |-> [a |-> InnerCount(<<Arc("d", 1), Arc("b", 2), Arc("c", 0), Arc("c", 1)>>),
               b |-> Ending(2, <<Arc("c", 2)>>),
               c |-> Ending(8, << >>),
               d |-> InnerCount(<< >>)]]

(* ... and one of two options is hardly worth anything.                    *)
Faded(domain) ==
    [start |-> "a", domain |-> domain,
     data |-> [a |-> InnerCount(<<Arc("c", 1), Arc("b", 8)>>),
               b |-> Ending(4, << >>),
               c |-> Ending(4, << >>)]]

(* The mass of one way vanishes, seen from the start or from the end.      *)
Fading(first, last) ==
    [start |-> "a", domain |-> "probability",
     data |-> [a |-> InnerCount(<<Arc("b", first), Arc("c", 4)>>),
               b |-> InnerCount(<<Arc("c", 1)>>),
               c |-> Ending(last, << >>)]]

(* More mass than is representable.                                        *)
Heavy ==
    [start |-> "a", domain |-> "probability",
     data |-> [a |-> InnerCount(<<Arc("b", 16)>>),
               b |-> InnerCount(<<Arc("c", 16), Arc("c", 4)>>),
               c |-> Ending(4, << >>)]]

(* No way to the end.                                                      *)
Barren ==
    [start |-> "a", domain |-> "count",
     data |-> [a |-> InnerCount(<<Arc("b", 1)>>),
               b |-> InnerCount(<< >>)]]

AllMachines ==
    {Ties, Broad, Loops, Descent, Counts, Many, Endings, DeadEnds, Worthless, Rounds, Dangling,
     Barren, Fading(1, 4), Fading(4, 1), Heavy}
    \cup UNION {{Stochastic(d), Weighted(d), Faded(d)} : d \in {"probability", "log"}}
Bounds(states, arcs, life, call) ==
    [maxStates |-> states, maxArcs |-> arcs, maxWork |-> life, workPerCall |-> call]
CaptureConfigs == {Bounds(6, 8, 30, 30), Bounds(6, 8, 30, 2), Bounds(3, 8, 30, 30),
                   Bounds(6, 4, 30, 30), Bounds(6, 8, 5, 3)}

Use(kind, w, c, more) == [kind |-> kind, work |-> w, call |-> c, more |-> more]
Search3(depth, paths, size) == [depth |-> depth, paths |-> paths, frontier |-> size]
Quota(depth, samples) == [depth |-> depth, samples |-> samples]
AllUses ==
    {Use("distances", 200, 200, 0), Use("distances", 200, 7, 0), Use("distances", 30, 200, 0),
     Use("ranked", 200, 200, Search3(3, 9, 9)), Use("ranked", 200, 3, Search3(3, 2, 9)),
     Use("ranked", 60, 200, Search3(2, 9, 9)), Use("ranked", 200, 200, Search3(4, 9, 2)),
     Use("uniform", 200, 200, Quota(4, 1)), Use("uniform", 60, 3, Quota(1, 2)),
     Use("proportional", 200, 200, Quota(4, 1)), Use("proportional", 200, 3, Quota(1, 2))}

(* What can be found is what some walk comes to.                           *)
ASSUME FoundIsReachable == \A m \in AllMachines : Found(m) = Reachable(m)

-----------------------------------------------------------------------------
(* The distances                                                           *)

Count == Cardinality(Raws(machine))
RawOf(k) == g.states[k].raw
Value(w, s) ==
    CASE mode = "semiring" -> Combined(g.domain, FullWeights(machine, s, w))
      [] mode = "viterbi" -> Cost(g.domain, FullWeights(machine, s, w))
      [] mode = "uniform" -> 1

WaysOut(s) == Over(D, Accepting(machine, s, Count - 1), LAMBDA w : Value(w, s))
WaysIn(s) ==
    Over(D, {w \in Walks(machine, machine.start, Count - 1) : EndAt(machine, machine.start, w) = s},
         LAMBDA w : Combined(g.domain, WeightsOf(machine, machine.start, w)))

(* The accepting paths that take the k-th arc of s, and that end in s.     *)
AllAccepting == Accepting(machine, machine.start, Count - 1)
Taking(s, k) ==
    {w \in AllAccepting :
        \E i \in DOMAIN w : w[i] = k /\ PointAt(machine, machine.start, w, i - 1) = s}
EndingIn(s) == {w \in AllAccepting : EndAt(machine, machine.start, w) = s}
Mass(walks) == Over("count", walks, LAMBDA w : Value(w, machine.start))

(* A share that floating point cannot hold is not given.                   *)
Given(mass) == IF Faint(D, mass, Mass(AllAccepting)) THEN Null ELSE mass

(* A sum or a product of the ways from the start or to the end that is not *)
(* representable.                                                          *)
Unfit(v) == v # Zero(D) /\ ~Fits(D, v)
Vanishes(v, w) == D = "probability" /\ v # 0 /\ w # 0 /\ v * w < Unit
SumsFail ==
    \E k \in Nodes :
       \/ Unfit(WaysOut(RawOf(k))) \/ Unfit(WaysIn(RawOf(k)))
       \/ \E a \in Range(ArcsOf(k)) :
             Vanishes(WaysIn(RawOf(k)), a.weight) \/ Vanishes(a.weight, WaysOut(RawOf(a.target)))

(* A completed analysis has summed every way to the end of every state     *)
(* and, if it was asked to, every way from the start, so that the shares   *)
(* read off it are those of the accepting paths; and an analysis that      *)
(* gives up has met what it says: a sum that cannot be represented may be  *)
(* of ways from the start that lead nowhere.                               *)
DistancesAreExact ==
    outcome # Null =>
       /\ outcome = "complete" =>
             \A k \in Nodes :
                /\ backward[k] = WaysOut(RawOf(k))
                /\ mode = "semiring" => forward[k] = WaysIn(RawOf(k))
                /\ mode = "semiring" /\ D # "tropical" /\ backward[1] # 0 =>
                      /\ FinalPosterior(k) = Given(Mass(EndingIn(RawOf(k))))
                      /\ \A i \in DOMAIN ArcsOf(k) :
                            ArcPosterior(k, i) = Given(Mass(Taking(RawOf(k), i)))
       /\ outcome = "unsupported" => Cyclic(machine) /\ D # "tropical"
       /\ outcome = "nonconvergent" => NegativeCycle(machine)
       /\ outcome = "numeric" => SumsFail
       /\ outcome = "work" => steps = maxWork

-----------------------------------------------------------------------------
(* The ranked paths                                                        *)

Depths == {u.more.depth : u \in {v \in Uses : v.kind = "ranked"}}
RankingOf == [m \in Machines |-> [n \in Depths |-> Ranking(m, n)]]
Arcs(path) == [i \in DOMAIN path |-> path[i][2]]

(* The paths come in the order of their cost, none is left out and none    *)
(* comes twice; the search says it is exhausted only when no path is left, *)
(* and that it was cut short only when one is.                             *)
RankedAreExact ==
    IsOpen /\ callSpent = Null =>
       LET all == RankingOf[machine][bounds.depth]
           given == [i \in DOMAIN ranked |-> Arcs(ranked[i].steps)]
           deeper == Ranking(machine, bounds.depth + Count)
       IN /\ IsPrefix(given, all)
          /\ \A i \in DOMAIN given :
                /\ ranked[i].weight
                      = Combined(g.domain, FullWeights(machine, machine.start, given[i]))
                /\ RawOf(ranked[i].final) = EndAt(machine, machine.start, given[i])
          /\ result = "exhausted" => given = deeper
          /\ result = "truncated" => Len(given) < Len(deeper)

-----------------------------------------------------------------------------
(* The sampled paths                                                       *)

(* By definition: what the accepting paths from s weigh that go on with    *)
(* option o; a share that floating point cannot hold is lost.              *)
Options(s) == 0..Len(machine.data[s].arcs)
MassOf(s, o) ==
    IF o = 0 THEN IF machine.data[s].final THEN Value(<< >>, s) ELSE 0
    ELSE Over("count", {w \in Accepting(machine, s, Count - 1) : w # << >> /\ w[1] = o},
              LAMBDA w : Value(w, s))
Lost(s, o) == Faint(D, MassOf(s, o), WaysOut(s))
ShareOf(s, o) == IF Lost(s, o) THEN 0 ELSE MassOf(s, o)
ShareBefore(s, o) == MapThenSumSet(LAMBDA p : ShareOf(s, p), 0..(o - 1))

(* The option is the one in whose share the threshold falls; beyond the    *)
(* last share it is the last one that has any.                             *)
IsFair(c) ==
    LET s == RawOf(c.state) IN
    /\ ShareOf(s, c.option) > 0
    /\ ShareBefore(s, c.option) <= c.threshold
    /\ \/ c.threshold < ShareBefore(s, c.option + 1)
       \/ \A o \in Options(s) : o > c.option => ShareOf(s, o) = 0

(* A way whose weight is not representable, once its arcs are multiplied   *)
(* one after the other.                                                    *)
Unweighable(values) ==
    \E i \in DOMAIN values :
       LET upTo == SubSeq(values, 1, i) IN
       /\ 0 \notin Range(upTo)
       /\ g.domain # "tropical" /\ ~Fits(g.domain, Combined(g.domain, upTo))

=============================================================================
