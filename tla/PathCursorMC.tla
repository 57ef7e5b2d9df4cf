----------------------------- MODULE PathCursorMC -----------------------------
(***************************************************************************)
(* Path cursors over a few small machines.                                 *)
(***************************************************************************)
EXTENDS PathCursor

Arc_(label, target, weight) == [label |-> label, target |-> target, weight |-> weight]
Inner(arcs) == [valid |-> TRUE, final |-> FALSE, weight |-> 0, arcs |-> arcs]
Accepting(weight, arcs) == [valid |-> TRUE, final |-> TRUE, weight |-> weight, arcs |-> arcs]
Hole == [valid |-> FALSE, final |-> FALSE, weight |-> 0, arcs |-> << >>]

(* Two ways to one state, and an accepting start.                          *)
Diamond == [start |-> 1, data |->
    << Accepting(1, << Arc_("a", 2, 1), Arc_("b", 3, 1), Arc_("a", 3, 0) >>),
       Inner(<< Arc_("c", 3, 1), Arc_("c", 4, 0) >>),
       Accepting(0, << >>), Inner(<< >>) >>]

(* A cycle through an accepting state, and one that accepts nothing.       *)
Cycle == [start |-> 1, data |->
    << Inner(<< Arc_("a", 2, 0), Arc_("b", 3, 0) >>),
       Accepting(0, << Arc_("a", 1, 0) >>),
       Inner(<< Arc_("b", 3, 0) >>) >>]

(* A path that is too heavy after one that is not.                         *)
Heavy == [start |-> 1, data |->
    << Inner(<< Arc_("a", 2, 1), Arc_("b", 2, 2), Arc_("c", 3, 3) >>),
       Accepting(1, << >>), Accepting(1, << >>) >>]

(* A state its provider does not know.                                     *)
Broken == [start |-> 1, data |->
    << Inner(<< Arc_("a", 2, 0), Arc_("b", 3, 0) >>), Accepting(0, << >>), Hole >>]

MCMachines == {Diamond, Cycle, Heavy, Broken}

MCConfigs ==
    [maxStates : {2, 4}, maxArcs : {3, 5}, maxWork : {7, 40},
     workPerCall : {1, 3}, maxDepth : {1, 3}, maxPaths : {2, 9}]

-----------------------------------------------------------------------------
(* Polled again and again, the cursor comes to an outcome, on a cyclic     *)
(* machine too, unless it is cancelled: then it has one already.           *)
PollingEnds == <>(reply \in Outcomes)
=============================================================================
