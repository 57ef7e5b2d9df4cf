---------------------------- MODULE GraphDistances ----------------------------
(***************************************************************************)
(* GraphDistanceCursor (src/src/bindings/graph_analysis.rs): the weight of *)
(* all paths from the start to each state and from each state to the end,  *)
(* of a complete graph, one arc or one state per unit of work.  It sorts   *)
(* the graph topologically; an acyclic graph it sums in that order, a      *)
(* cyclic one it relaxes pass by pass until nothing changes.               *)
(*                                                                         *)
(* Four of the scalar domains are modelled: "tropical" (least sum, with    *)
(* negative weights), "count" (number of paths), and "probability" and     *)
(* "log", two writings of a mass: as it is, and as its negative logarithm. *)
(* A mass is counted in parts, Unit of which are the mass one, for both.   *)
(* The other domains sum and combine as one of these do.                   *)
(***************************************************************************)
EXTENDS Integers, Sequences

CONSTANTS Inf,       \* the tropical weight of no path
          MaxCount,  \* the largest count or probability that is representable
          Unit,      \* the parts of a mass of one
          Faintest,  \* a share of less than 1 / Faintest is not representable
          Null       \* absent

Modes == {"semiring", "viterbi", "uniform"}
Stages == {"indegrees", "seeds", "topology", "forwardDag", "backwardDag",
           "forwardCyclic", "backwardCyclic", "complete"}

VARIABLES g,         \* the graph: [domain, states], NULL while not opened
          mode,      \* what is summed
          maxWork,   \* the steps the cursor may take
          perCall,   \* the steps one call may take
          stage,     \* what the steps do
          at,        \* the state and the arc the next step looks at
          indegree,  \* the arcs not yet accounted for, by target
          ready,     \* states all of whose predecessors are in order
          order,     \* the topological order found so far
          active,    \* the state whose arcs are being accounted for
          pass,      \* the passes made over a cyclic graph
          changed,   \* whether this pass improved anything
          forward,   \* by state, the weight of the paths from the start
          backward,  \* by state, the weight of the paths to the end
          steps,     \* the steps taken
          callSteps, \* the steps of the running call, Null between calls
          outcome,   \* the outcome, once there is one
          said       \* what the last call answered

sorting == <<indegree, ready, order, active>>
relaxing == <<pass, changed>>
sums == <<forward, backward>>
setup == <<g, mode, maxWork, perCall>>
distanceVars == <<setup, stage, at, sorting, relaxing, sums, steps, callSteps, outcome, said>>

-----------------------------------------------------------------------------
(* The scalars                                                             *)

Domain(graph, m) == CASE m = "viterbi" -> "tropical" [] m = "uniform" -> "count"
                      [] OTHER -> graph.domain

IsMass(domain) == domain \in {"probability", "log"}

Zero(domain) == IF domain = "tropical" THEN Inf ELSE 0
One(domain) ==
    CASE domain = "tropical" -> 0 [] domain = "count" -> 1 [] OTHER -> Unit

(* rank_cost: what an arc costs on the way to the best path.  Counts and   *)
(* masses are powers of two, and the logarithm is to that base.            *)
Log2(v) == CHOOSE n \in 0..v : 2 ^ n = v
RankCost(domain, v) ==
    IF domain = "tropical" THEN v
    ELSE IF v = 0 THEN Inf
    ELSE IF domain = "count" THEN Log2(v) ELSE Log2(Unit) - Log2(v)

Weight(graph, m, v) == CASE m = "viterbi" -> RankCost(graph.domain, v)
                         [] m = "uniform" -> 1
                         [] OTHER -> v

(* Whether a sum or a product of weights other than zero is representable: *)
(* counts and probabilities may be too large, and a probability may vanish.*)
Fits(domain, v) ==
    /\ domain \in {"count", "probability"} => v <= MaxCount * One(domain)
    /\ domain = "probability" => v > 0

(* Null stands for a result that is not representable.                     *)
Times(domain, v, w) ==
    LET product == IF IsMass(domain) THEN (v * w) \div Unit ELSE v * w
    IN IF v = Zero(domain) \/ w = Zero(domain) THEN Zero(domain)
       ELSE IF domain = "tropical" THEN v + w
       ELSE IF Fits(domain, product) THEN product ELSE Null

Plus(domain, v, w) ==
    IF v = Zero(domain) THEN w
    ELSE IF w = Zero(domain) THEN v
    ELSE IF domain = "tropical" THEN IF v < w THEN v ELSE w
    ELSE IF Fits(domain, v + w) THEN v + w ELSE Null

(* The quotient of two masses is 0 in floating point.                      *)
Faint(domain, part, whole) == IsMass(domain) /\ part # 0 /\ part * Faintest < whole

-----------------------------------------------------------------------------
(* A call                                                                  *)

D == Domain(g, mode)
Nodes == DOMAIN g.states
Size == Len(g.states)
ArcsOf(s) == g.states[s].arcs
W(v) == Weight(g, mode, v)

(* The cursor is opened; its arrays start at zero.                         *)
Open(graph, m, work, call) ==
    /\ g' = graph /\ mode' = m /\ maxWork' = work /\ perCall' = call
    /\ stage' = "indegrees" /\ at' = <<1, 1>>
    /\ indegree' = [s \in DOMAIN graph.states |-> 0]
    /\ ready' = << >> /\ order' = << >> /\ active' = Null
    /\ pass' = 0 /\ changed' = FALSE
    /\ forward' = [s \in DOMAIN graph.states |-> Zero(Domain(graph, m))]
    /\ backward' = forward'
    /\ steps' = 0 /\ callSteps' = Null /\ outcome' = Null /\ said' = Null

Closed ==
    /\ g = Null /\ mode = Null /\ maxWork = 0 /\ perCall = 0
    /\ stage = Null /\ at = <<1, 1>> /\ indegree = << >>
    /\ ready = << >> /\ order = << >> /\ active = Null
    /\ pass = 0 /\ changed = FALSE /\ forward = << >> /\ backward = << >>
    /\ steps = 0 /\ callSteps = Null /\ outcome = Null /\ said = Null

Running == g # Null /\ callSteps # Null
Say(answer) == callSteps' = Null /\ said' = answer
Settle(o) == outcome' = o /\ Say(o)

Ask ==
    /\ g # Null /\ callSteps = Null
    /\ IF outcome # Null
       THEN Say(outcome)
       ELSE callSteps' = 0 /\ UNCHANGED said
    /\ UNCHANGED <<setup, stage, at, sorting, relaxing, sums, steps, outcome>>

Stop ==
    /\ Running /\ callSteps < perCall
    /\ Settle("cancelled")
    /\ UNCHANGED <<setup, stage, at, sorting, relaxing, sums, steps>>

Conclude ==
    /\ Running /\ stage = "complete"
    /\ Settle("complete")
    /\ UNCHANGED <<setup, stage, at, sorting, relaxing, sums, steps>>

Suspend ==
    /\ Running /\ stage # "complete" /\ callSteps >= perCall
    /\ Say("pending")
    /\ UNCHANGED <<setup, stage, at, sorting, relaxing, sums, steps, outcome>>

Overspend ==
    /\ Running /\ stage # "complete" /\ callSteps < perCall /\ steps = maxWork
    /\ Settle("work")
    /\ UNCHANGED <<setup, stage, at, sorting, relaxing, sums, steps>>

-----------------------------------------------------------------------------
(* One step                                                                *)

In(s) ==
    /\ Running /\ stage = s /\ callSteps < perCall /\ steps < maxWork
    /\ steps' = steps + 1
    /\ UNCHANGED setup
Proceed == callSteps' = callSteps + 1 /\ UNCHANGED <<outcome, said>>

Enter(s) == stage' = s /\ at' = <<1, 1>>
Here == at[1]
Done == at[1] > Size
NextArc == at' = <<at[1], at[2] + 1>>
NextState == at' = <<at[1] + 1, 1>>

(* Indegrees: count the arcs into each state.                              *)
CountArc ==
    /\ In("indegrees") /\ ~Done /\ at[2] <= Len(ArcsOf(Here))
    /\ indegree' = [indegree EXCEPT ![ArcsOf(Here)[at[2]].target] = @ + 1]
    /\ NextArc /\ Proceed
    /\ UNCHANGED <<stage, ready, order, active, relaxing, sums>>

CountNext ==
    /\ In("indegrees")
    /\ IF Done THEN Enter("seeds") ELSE at[2] > Len(ArcsOf(Here)) /\ NextState /\ UNCHANGED stage
    /\ Proceed
    /\ UNCHANGED <<sorting, relaxing, sums>>

(* QueueSeeds: the states without predecessors are ready.                  *)
Seed ==
    /\ In("seeds")
    /\ IF Done THEN Enter("topology") /\ UNCHANGED ready
       ELSE /\ ready' = IF indegree[Here] = 0 THEN Append(ready, Here) ELSE ready
            /\ NextState /\ UNCHANGED stage
    /\ Proceed
    /\ UNCHANGED <<indegree, order, active, relaxing, sums>>

(* Topology: the ready states are put in order one by one, and with each   *)
(* its arcs are taken off.                                                 *)
Sort ==
    /\ In("topology") /\ active = Null /\ ready # << >>
    /\ order' = Append(order, Head(ready)) /\ ready' = Tail(ready)
    /\ active' = Head(ready) /\ at' = <<Head(ready), 1>>
    /\ Proceed
    /\ UNCHANGED <<stage, indegree, relaxing, sums>>

SortArc ==
    /\ In("topology") /\ active # Null /\ at[2] <= Len(ArcsOf(active))
    /\ LET t == ArcsOf(active)[at[2]].target IN
       /\ indegree' = [indegree EXCEPT ![t] = @ - 1]
       /\ ready' = IF indegree[t] = 1 THEN Append(ready, t) ELSE ready
    /\ NextArc /\ Proceed
    /\ UNCHANGED <<stage, order, active, relaxing, sums>>

Sorted ==
    /\ In("topology") /\ active # Null /\ at[2] > Len(ArcsOf(active))
    /\ active' = Null
    /\ Proceed
    /\ UNCHANGED <<stage, at, indegree, ready, order, relaxing, sums>>

AllSorted == active = Null /\ ready = << >> /\ Len(order) = Size
Stuck == active = Null /\ ready = << >> /\ Len(order) # Size

Started == IF mode = "semiring" THEN [forward EXCEPT ![1] = One(D)] ELSE forward

StartDag ==
    /\ In("topology") /\ AllSorted
    /\ Enter(IF mode = "semiring" THEN "forwardDag" ELSE "backwardDag")
    /\ forward' = Started
    /\ Proceed
    /\ UNCHANGED <<sorting, relaxing, backward>>

(* A cycle: only the least sum may be relaxed.                             *)
StartCyclic ==
    /\ In("topology") /\ Stuck /\ D = "tropical"
    /\ Enter(IF mode = "semiring" THEN "forwardCyclic" ELSE "backwardCyclic")
    /\ forward' = Started
    /\ backward' = [s \in Nodes |-> IF g.states[s].final THEN W(g.states[s].weight) ELSE Inf]
    /\ Proceed
    /\ UNCHANGED <<sorting, relaxing>>

Unsupported ==
    /\ In("topology") /\ Stuck /\ D # "tropical"
    /\ Settle("unsupported")
    /\ UNCHANGED <<stage, at, sorting, relaxing, sums>>

-----------------------------------------------------------------------------
(* The sums of an acyclic graph                                            *)

ForwardState == order[at[1]]
BackwardState == order[Size + 1 - at[1]]
CurrentArc(s) == ArcsOf(s)[at[2]]

ForwardSum ==
    LET a == CurrentArc(ForwardState)
        v == Times(D, forward[ForwardState], W(a.weight))
    IN IF v = Null THEN Null ELSE Plus(D, forward[a.target], v)

ForwardArc ==
    /\ In("forwardDag") /\ ~Done /\ at[2] <= Len(ArcsOf(ForwardState))
    /\ IF ForwardSum = Null
       THEN Settle("numeric") /\ UNCHANGED <<forward, at>>
       ELSE /\ forward' = [forward EXCEPT ![CurrentArc(ForwardState).target] = ForwardSum]
            /\ NextArc /\ Proceed
    /\ UNCHANGED <<stage, sorting, relaxing, backward>>

ForwardNext ==
    /\ In("forwardDag")
    /\ IF Done THEN Enter("backwardDag")
       ELSE at[2] > Len(ArcsOf(ForwardState)) /\ NextState /\ UNCHANGED stage
    /\ Proceed
    /\ UNCHANGED <<sorting, relaxing, sums>>

(* The weight of ending here is added with the first arc, when there is    *)
(* nothing else yet.                                                       *)
WithFinal(s) ==
    IF at[2] = 1 /\ g.states[s].final THEN Plus(D, backward[s], W(g.states[s].weight))
    ELSE backward[s]

(* Mutant of BackwardSum: ending here is forgotten where arcs lead on.     *)
BackwardSum_NoFinal ==
    LET s == BackwardState
        a == CurrentArc(s)
        v == Times(D, W(a.weight), backward[a.target])
    IN IF v = Null THEN Null ELSE Plus(D, backward[s], v)

BackwardSum ==
    LET s == BackwardState
        a == CurrentArc(s)
        v == Times(D, W(a.weight), backward[a.target])
    IN IF v = Null THEN Null ELSE Plus(D, WithFinal(s), v)

BackwardArc ==
    /\ In("backwardDag") /\ ~Done /\ at[2] <= Len(ArcsOf(BackwardState))
    /\ IF BackwardSum = Null
       THEN Settle("numeric") /\ UNCHANGED <<backward, at>>
       ELSE /\ backward' = [backward EXCEPT ![BackwardState] = BackwardSum]
            /\ NextArc /\ Proceed
    /\ UNCHANGED <<stage, sorting, relaxing, forward>>

BackwardNext ==
    /\ In("backwardDag") /\ ~Done /\ at[2] > Len(ArcsOf(BackwardState))
    /\ backward' = [backward EXCEPT ![BackwardState] = WithFinal(BackwardState)]
    /\ NextState /\ Proceed
    /\ UNCHANGED <<stage, sorting, relaxing, forward>>

BackwardDone ==
    /\ In("backwardDag") /\ Done
    /\ stage' = "complete"
    /\ Proceed
    /\ UNCHANGED <<at, sorting, relaxing, sums>>

-----------------------------------------------------------------------------
(* The least sums of a cyclic graph                                        *)

InCyclic == In("forwardCyclic") \/ In("backwardCyclic")
OnWayOut == stage = "forwardCyclic"

Relaxed(distance, from, to, w) ==
    [distance EXCEPT ![to] = Plus("tropical", @, Times("tropical", distance[from], w))]

Relax ==
    /\ InCyclic /\ ~Done /\ at[2] <= Len(ArcsOf(Here))
    /\ LET a == ArcsOf(Here)[at[2]] IN
       /\ forward' = IF OnWayOut THEN Relaxed(forward, Here, a.target, W(a.weight)) ELSE forward
       /\ backward' = IF OnWayOut THEN backward ELSE Relaxed(backward, a.target, Here, W(a.weight))
    /\ changed' = (changed \/ sums # sums')
    /\ NextArc /\ Proceed
    /\ UNCHANGED <<stage, sorting, pass>>

RelaxNext ==
    /\ InCyclic /\ ~Done /\ at[2] > Len(ArcsOf(Here))
    /\ NextState /\ Proceed
    /\ UNCHANGED <<stage, sorting, relaxing, sums>>

(* Mutant of GivesUp: one pass too few.                                    *)
GivesUp_Early == changed /\ pass + 2 >= Size

GivesUp == changed /\ pass + 1 >= Size

PassEnds ==
    /\ InCyclic /\ Done /\ ~GivesUp
    /\ IF changed THEN stage' = stage /\ pass' = pass + 1
       ELSE IF OnWayOut THEN stage' = "backwardCyclic" /\ pass' = 0
       ELSE stage' = "complete" /\ pass' = pass + 1
    /\ changed' = FALSE /\ at' = <<1, 1>>
    /\ Proceed
    /\ UNCHANGED <<sorting, sums>>

Diverges ==
    /\ InCyclic /\ Done /\ GivesUp
    /\ Settle("nonconvergent")
    /\ UNCHANGED <<stage, at, sorting, relaxing, sums>>

Step ==
    \/ CountArc \/ CountNext \/ Seed
    \/ Sort \/ SortArc \/ Sorted \/ StartDag \/ StartCyclic \/ Unsupported
    \/ ForwardArc \/ ForwardNext \/ BackwardArc \/ BackwardNext \/ BackwardDone
    \/ Relax \/ RelaxNext \/ PassEnds \/ Diverges

-----------------------------------------------------------------------------
(* What is read off a complete analysis                                    *)

(* posterior_factor, in parts of the total, where weights add up: Null     *)
(* when there is no accepting path or the factor is not representable.     *)
PosteriorFactor(before, weight, after) ==
    LET product == before * weight * after
        parts == One(D) * One(D)
    IN IF \/ backward[1] = 0
          \/ D = "count" /\ ~Fits(D, product)
          \/ Faint(D, product, parts * backward[1])
       THEN Null
       ELSE product \div parts

(* The share of the accepting paths that take the k-th arc of s, and of    *)
(* those that end in s.                                                    *)
ArcPosterior(s, k) ==
    PosteriorFactor(forward[s], ArcsOf(s)[k].weight, backward[ArcsOf(s)[k].target])
FinalPosterior(s) ==
    IF g.states[s].final THEN PosteriorFactor(forward[s], g.states[s].weight, One(D)) ELSE 0

Measure == Ask \/ Stop \/ Conclude \/ Suspend \/ Overspend \/ Step
=============================================================================
