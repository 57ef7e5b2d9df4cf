----------------------------- MODULE RankedPaths -----------------------------
(***************************************************************************)
(* RankedPathCursor (src/src/bindings/ranked_path.rs): the accepting paths *)
(* of a complete graph, the cheapest first.  Each poll first drives a      *)
(* distance cursor, which finds what the best way to the end costs from    *)
(* every state; then the search extends the most promising prefix, one     *)
(* arc per unit of work.                                                   *)
(***************************************************************************)
EXTENDS GraphDistances, FiniteSets

VARIABLES bounds,     \* [depth, paths, frontier]
          searching,  \* whether the preparation is over
          frontier,   \* the heap of candidates
          prefix,     \* the candidate that is being extended, Null for none
          cut,        \* whether the depth bound has stopped a prefix
          spent,      \* the work of the preparation and the search
          callSpent,  \* the work of the running call, Null between calls
          result,     \* the outcome of the search, once there is one
          ranked      \* history: the paths yielded so far

searchVars == <<bounds, searching, frontier, prefix, cut, spent, callSpent, result, ranked>>

(* A candidate is [state, steps, raw, cost, estimate, terminal]: a prefix  *)
(* of a path, or a complete path when it is terminal.                      *)

RankedClosed ==
    /\ bounds = Null /\ searching = FALSE /\ frontier = {} /\ prefix = Null
    /\ cut = FALSE /\ spent = 0 /\ callSpent = Null /\ result = Null /\ ranked = << >>

RankedOpen(graph, work, call, b) ==
    /\ Open(graph, "viterbi", work, call)
    /\ bounds' = b /\ searching' = FALSE /\ frontier' = {} /\ prefix' = Null
    /\ cut' = FALSE /\ spent' = 0 /\ callSpent' = Null /\ result' = Null /\ ranked' = << >>

IsOpen == bounds # Null

-----------------------------------------------------------------------------
(* The order of the heap                                                   *)

(* Arc sequences of one length, by their first difference.                 *)
ComesBefore(s, t) ==
    \E i \in DOMAIN s :
        /\ \A j \in 1..(i - 1) : s[j] = t[j]
        /\ \/ s[i][1] < t[i][1]
           \/ s[i][1] = t[i][1] /\ s[i][2] < t[i][2]

(* Mutant of Better: of two equal estimates the longer prefix goes first.  *)
Better_Deeper(c, d) ==
    \/ c.estimate < d.estimate
    \/ /\ c.estimate = d.estimate
       /\ \/ Len(c.steps) > Len(d.steps)
          \/ /\ Len(c.steps) = Len(d.steps)
             /\ \/ ComesBefore(c.steps, d.steps)
                \/ c.steps = d.steps /\ c.terminal /\ ~d.terminal

(* Candidate::cmp: the lower estimate, then the shorter prefix, then the   *)
(* provider's order of arcs; a path goes before its own extensions.        *)
Better(c, d) ==
    \/ c.estimate < d.estimate
    \/ /\ c.estimate = d.estimate
       /\ \/ Len(c.steps) < Len(d.steps)
          \/ /\ Len(c.steps) = Len(d.steps)
             /\ \/ ComesBefore(c.steps, d.steps)
                \/ c.steps = d.steps /\ c.terminal /\ ~d.terminal

Best == CHOOSE c \in frontier : \A d \in frontier \ {c} : Better(c, d)

-----------------------------------------------------------------------------
(* A call                                                                  *)

RankedCalling == callSpent # Null
RankedEnd(o) == result' = o /\ callSpent' = Null

(* Preparation: a call runs the distance cursor, and takes its result over *)
(* as soon as there is one.                                                *)
Prepare ==
    /\ IsOpen /\ ~searching /\ result = Null /\ outcome = Null
    /\ Measure
    /\ UNCHANGED searchVars

TakeOver ==
    /\ IsOpen /\ ~searching /\ result = Null /\ outcome # Null
    /\ searching' = TRUE
    /\ spent' = steps
    /\ IF outcome = "complete" /\ backward[1] # Inf
       THEN /\ frontier' = {[state |-> 1, steps |-> << >>, raw |-> One(g.domain), cost |-> 0,
                             estimate |-> backward[1], terminal |-> FALSE]}
            /\ UNCHANGED result
       ELSE /\ result' = IF outcome = "complete" THEN "exhausted" ELSE outcome
            /\ UNCHANGED frontier
    /\ UNCHANGED <<distanceVars, bounds, prefix, cut, callSpent, ranked>>

RankedAsk ==
    /\ searching /\ ~RankedCalling
    /\ IF result = Null THEN callSpent' = 0 ELSE UNCHANGED callSpent
    /\ UNCHANGED <<distanceVars, bounds, searching, frontier, prefix, cut, spent, result, ranked>>

RankedCancel ==
    /\ RankedCalling /\ callSpent < perCall
    /\ RankedEnd("cancelled")
    /\ UNCHANGED <<distanceVars, bounds, searching, frontier, prefix, cut, spent, ranked>>

Pending == prefix # Null \/ frontier # {}

(* Mutant of Ends: a prefix that was cut short is forgotten.               *)
Ends_Exhausted == "exhausted"

Ends == IF cut THEN "truncated" ELSE "exhausted"

RankedFinish ==
    /\ RankedCalling /\ callSpent < perCall /\ ~Pending
    /\ RankedEnd(Ends)
    /\ UNCHANGED <<distanceVars, bounds, searching, frontier, prefix, cut, spent, ranked>>

RankedPause ==
    /\ RankedCalling /\ callSpent >= perCall
    /\ callSpent' = Null
    /\ UNCHANGED <<distanceVars, bounds, searching, frontier, prefix, cut, spent, result, ranked>>

RankedOverspend ==
    /\ RankedCalling /\ callSpent < perCall /\ Pending /\ spent = maxWork
    /\ RankedEnd("work")
    /\ UNCHANGED <<distanceVars, bounds, searching, frontier, prefix, cut, spent, ranked>>

-----------------------------------------------------------------------------
(* One unit of work                                                        *)

Seeking ==
    /\ RankedCalling /\ callSpent < perCall /\ Pending /\ spent < maxWork
    /\ spent' = spent + 1
    /\ UNCHANGED <<distanceVars, bounds, searching>>
SeekOn == callSpent' = callSpent + 1 /\ UNCHANGED result

(* The best candidate is a complete path.                                  *)
Yield ==
    /\ Seeking /\ prefix = Null /\ Best.terminal /\ Len(ranked) < bounds.paths
    /\ frontier' = frontier \ {Best}
    /\ ranked' = Append(ranked, [steps |-> Best.steps, final |-> Best.state, weight |-> Best.raw])
    /\ callSpent' = Null
    /\ UNCHANGED <<prefix, cut, result>>

YieldTooMany ==
    /\ Seeking /\ prefix = Null /\ Best.terminal /\ Len(ranked) = bounds.paths
    /\ frontier' = frontier \ {Best}
    /\ RankedEnd("truncated")
    /\ UNCHANGED <<prefix, cut, ranked>>

Extend ==
    /\ Seeking /\ prefix = Null /\ ~Best.terminal
    /\ frontier' = frontier \ {Best}
    /\ prefix' = [of |-> Best, checked |-> FALSE, next |-> 1]
    /\ SeekOn
    /\ UNCHANGED <<cut, ranked>>

(* A candidate enters the heap, unless that is full or a weight of the     *)
(* candidate is not representable.                                         *)
Enters(c) ==
    IF c.raw = Null THEN RankedEnd("numeric") /\ UNCHANGED frontier
    ELSE IF Cardinality(frontier) >= bounds.frontier
    THEN RankedEnd("frontier") /\ UNCHANGED frontier
    ELSE SeekOn /\ frontier' = frontier \cup {c}

Node == g.states[prefix.of.state]

CheckFinal ==
    /\ Seeking /\ prefix # Null /\ ~prefix.checked
    /\ prefix' = [prefix EXCEPT !.checked = TRUE]
    /\ LET cost == RankCost(g.domain, Node.weight)
           total == Times("tropical", prefix.of.cost, cost)
       IN IF Node.final /\ cost # Inf
          THEN Enters([prefix.of EXCEPT !.raw = Times(g.domain, @, Node.weight),
                                        !.cost = total, !.estimate = total, !.terminal = TRUE])
          ELSE SeekOn /\ UNCHANGED frontier
    /\ UNCHANGED <<cut, ranked>>

NextOf == Node.arcs[prefix.next]
Leads == /\ RankCost(g.domain, NextOf.weight) # Inf
         /\ backward[NextOf.target] # Inf

(* An arc from which the end can be reached.                               *)
TryArc ==
    /\ Seeking /\ prefix # Null /\ prefix.checked /\ prefix.next <= Len(Node.arcs)
    /\ prefix' = [prefix EXCEPT !.next = @ + 1]
    /\ LET c == prefix.of
           cost == Times("tropical", c.cost, RankCost(g.domain, NextOf.weight))
       IN IF ~Leads THEN SeekOn /\ UNCHANGED <<frontier, cut>>
          ELSE IF Len(c.steps) = bounds.depth THEN SeekOn /\ cut' = TRUE /\ UNCHANGED frontier
          ELSE /\ Enters([state |-> NextOf.target,
                          steps |-> Append(c.steps, <<c.state, prefix.next>>),
                          raw |-> Times(g.domain, c.raw, NextOf.weight),
                          cost |-> cost,
                          estimate |-> Times("tropical", cost, backward[NextOf.target]),
                          terminal |-> FALSE])
               /\ UNCHANGED cut
    /\ UNCHANGED ranked

Leave ==
    /\ Seeking /\ prefix # Null /\ prefix.checked /\ prefix.next > Len(Node.arcs)
    /\ prefix' = Null
    /\ SeekOn
    /\ UNCHANGED <<frontier, cut, ranked>>

Search ==
    \/ RankedAsk \/ RankedCancel \/ RankedFinish \/ RankedPause \/ RankedOverspend
    \/ Yield \/ YieldTooMany \/ Extend \/ CheckFinal \/ TryArc \/ Leave

Rank == Prepare \/ TakeOver \/ Search
=============================================================================
