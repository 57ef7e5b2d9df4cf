----------------------------- MODULE SamplePaths -----------------------------
(***************************************************************************)
(* SamplePathCursor (src/src/bindings/sample_path.rs): random accepting    *)
(* paths of a complete graph, either each path as likely as every other    *)
(* one or each in proportion to its weight.  A distance cursor prepares    *)
(* the weight of the ways to the end; a draw then walks from the start,    *)
(* with one random threshold per state, looking at one option per unit of  *)
(* work: first to end here, then the arcs in order.                        *)
(*                                                                         *)
(* A share of the unit interval is counted in parts of one over the weight *)
(* of all the ways to the end, which makes it a whole number; the largest  *)
(* threshold stands for one that rounding puts beyond the last share.      *)
(***************************************************************************)
EXTENDS GraphDistances

VARIABLES quota,     \* [depth, samples], Null while not opened
          drawing,   \* whether the preparation is over
          walker,    \* the state the draw has come to
          walked,    \* its arcs, as pairs of a state and an arc
          walkMass,  \* its weight
          threshold, \* the random number of this state, Null before it
          passed,    \* the shares of the options seen, added up
          option,    \* the next option: 0 to end here, k for the arc k
          fallback,  \* the last option with a share, Null for none
          drawWork,  \* the work of the preparation and the draws
          drawCall,  \* the work of the running call, Null between calls
          drawEnd,   \* the outcome of the draws, once there is one
          drawn,     \* how many paths have been yielded
          sample,    \* the path that was yielded last
          choices    \* history: the choices of the draw, [state, threshold, option]

choosing == <<threshold, passed, option, fallback>>
walk == <<walker, walked, walkMass>>
yields == <<drawn, sample, choices>>
sampleVars == <<quota, drawing, walk, choosing, drawWork, drawCall, drawEnd, yields>>

SampleClosed ==
    /\ quota = Null /\ drawing = FALSE
    /\ walker = 1 /\ walked = << >> /\ walkMass = 1
    /\ threshold = Null /\ passed = 0 /\ option = 0 /\ fallback = Null
    /\ drawWork = 0 /\ drawCall = Null /\ drawEnd = Null
    /\ drawn = 0 /\ sample = Null /\ choices = << >>

(* Only a domain in which weights add up can be sampled in proportion.     *)
Samples(graph, uniform) == uniform \/ graph.domain \in {"count", "probability", "log"}

SampleOpen(graph, uniform, work, call, q) ==
    /\ Samples(graph, uniform)
    /\ Open(graph, IF uniform THEN "uniform" ELSE "semiring", work, call)
    /\ quota' = q /\ drawing' = FALSE
    /\ walker' = 1 /\ walked' = << >> /\ walkMass' = One(graph.domain)
    /\ threshold' = Null /\ passed' = 0 /\ option' = 0 /\ fallback' = Null
    /\ drawWork' = 0 /\ drawCall' = Null /\ drawEnd' = Null
    /\ drawn' = 0 /\ sample' = Null /\ choices' = << >>

-----------------------------------------------------------------------------
(* A call                                                                  *)

Sampling == quota # Null
DrawCalling == drawCall # Null
DrawSettle(o) == drawEnd' = o /\ drawCall' = Null

PrepareDraws ==
    /\ Sampling /\ ~drawing /\ outcome = Null
    /\ Measure
    /\ UNCHANGED sampleVars

(* The total is tested against 0.0 and infinity whatever the domain: one   *)
(* of them is its zero, and as a logarithm 0.0 is the mass one.            *)
SeemsEmpty(total) == total = Zero(D) \/ (D = "log" /\ total = One(D))

(* The call that finds the preparation over ends with it.                  *)
BeginDraws ==
    /\ Sampling /\ ~drawing /\ outcome # Null
    /\ drawing' = TRUE
    /\ drawWork' = steps
    /\ drawEnd' = IF outcome # "complete" THEN outcome
                  ELSE IF SeemsEmpty(backward[1]) THEN "exhausted" ELSE Null
    /\ UNCHANGED <<distanceVars, quota, walk, choosing, drawCall, yields>>

DrawAsk ==
    /\ drawing /\ ~DrawCalling
    /\ IF drawEnd = Null THEN drawCall' = 0 ELSE UNCHANGED drawCall
    /\ UNCHANGED <<distanceVars, quota, drawing, walk, choosing, drawWork, drawEnd, yields>>

DrawCancel ==
    /\ DrawCalling /\ drawCall < perCall
    /\ DrawSettle("cancelled")
    /\ UNCHANGED <<distanceVars, quota, drawing, walk, choosing, drawWork, yields>>

DrawnEnough ==
    /\ DrawCalling /\ drawCall < perCall /\ drawn = quota.samples
    /\ DrawSettle("truncated")
    /\ UNCHANGED <<distanceVars, quota, drawing, walk, choosing, drawWork, yields>>

DrawOverspend ==
    /\ DrawCalling /\ drawCall < perCall /\ drawn < quota.samples /\ drawWork = maxWork
    /\ DrawSettle("work")
    /\ UNCHANGED <<distanceVars, quota, drawing, walk, choosing, drawWork, yields>>

DrawPause ==
    /\ DrawCalling /\ drawCall >= perCall
    /\ drawCall' = Null
    /\ UNCHANGED <<distanceVars, quota, drawing, walk, choosing, drawWork, drawEnd, yields>>

-----------------------------------------------------------------------------
(* One unit of work                                                        *)

Drawing ==
    /\ DrawCalling /\ drawCall < perCall /\ drawn < quota.samples /\ drawWork < maxWork
    /\ drawWork' = drawWork + 1
    /\ UNCHANGED <<distanceVars, quota, drawing>>
DrawOn == drawCall' = drawCall + 1 /\ UNCHANGED drawEnd

(* StableRng::unit                                                         *)
DrawThreshold ==
    /\ Drawing /\ threshold = Null
    /\ threshold' \in 0..backward[walker]
    /\ DrawOn
    /\ UNCHANGED <<walk, passed, option, fallback, yields>>

WalkState == g.states[walker]
OptionArc == WalkState.arcs[option]

(* conditional_mass: the share of the next option, 0 when it leads         *)
(* nowhere.  One that is too small counts as none when masses are divided, *)
(* and is an error (Null) when logarithms are subtracted.                  *)
OptionMass ==
    IF option = 0
    THEN IF WalkState.final THEN W(WalkState.weight) ELSE 0
    ELSE Times(D, W(OptionArc.weight), backward[OptionArc.target])
Share ==
    IF ~Faint(D, OptionMass, backward[walker]) THEN OptionMass
    ELSE IF D = "log" THEN Null ELSE 0

Selected == Share > 0 /\ threshold < passed + Share
LastOption == option = Len(WalkState.arcs)
FallbackNow == IF Share > 0 THEN option ELSE fallback


ResetChoice ==
    threshold' = Null /\ passed' = 0 /\ option' = 0 /\ fallback' = Null

Chosen(o) == Append(choices, [state |-> walker, threshold |-> threshold, option |-> o])
DrawFails(o) == DrawSettle(o) /\ UNCHANGED <<walk, choosing, yields>>

(* select: to end here yields the path, and the next draw begins.          *)
SelectFinal(weight) ==
    /\ sample' = [steps |-> walked, final |-> walker, weight |-> weight, choices |-> Chosen(0)]
    /\ drawn' = drawn + 1 /\ choices' = << >>
    /\ walker' = 1 /\ walked' = << >> /\ walkMass' = One(g.domain)
    /\ ResetChoice
    /\ drawCall' = Null /\ UNCHANGED drawEnd

SelectArc(k, weight) ==
    /\ walker' = WalkState.arcs[k].target /\ walked' = Append(walked, <<walker, k>>)
    /\ walkMass' = weight /\ choices' = Chosen(k)
    /\ ResetChoice
    /\ DrawOn
    /\ UNCHANGED <<drawn, sample>>

Select(o) ==
    LET weight == Times(g.domain, walkMass,
                        IF o = 0 THEN WalkState.weight ELSE WalkState.arcs[o].weight)
    IN IF o # 0 /\ Len(walked) = quota.depth THEN DrawFails("truncated")
       ELSE IF weight = Null THEN DrawFails("numeric")
       ELSE IF o = 0 THEN SelectFinal(weight) ELSE SelectArc(o, weight)

Examine ==
    /\ Drawing /\ threshold # Null /\ Share # Null
    /\ ~Selected /\ ~LastOption
    /\ passed' = passed + Share /\ option' = option + 1 /\ fallback' = FallbackNow
    /\ DrawOn
    /\ UNCHANGED <<walk, threshold, yields>>

Choose ==
    /\ Drawing /\ threshold # Null /\ Share # Null
    /\ \/ Selected /\ Select(option)
       \/ /\ ~Selected /\ LastOption
          /\ IF FallbackNow = Null THEN DrawFails("numeric") ELSE Select(FallbackNow)

ShareIsLost ==
    /\ Drawing /\ threshold # Null /\ Share = Null
    /\ DrawFails("numeric")

Draw ==
    \/ DrawAsk \/ DrawCancel \/ DrawnEnough \/ DrawOverspend \/ DrawPause
    \/ DrawThreshold \/ Examine \/ Choose \/ ShareIsLost

Sample == PrepareDraws \/ BeginDraws \/ Draw
=============================================================================
