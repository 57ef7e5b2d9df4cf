--------------------------- MODULE SmallMachinesMC ---------------------------
(***************************************************************************)
(* Four small components, each explored on its own: the LRU storage under  *)
(* one caller, the two components that share a single atomic word between  *)
(* threads, the callback gate of a dynamic capability and the token        *)
(* recombination buffer, and generic shortest distances.  A behaviour is   *)
(* of one of them; the others stay as they began.                          *)
(***************************************************************************)
EXTENDS LruMachine, CallbackGate, TokenRecombination, ShortestDistance, TLC

VARIABLE subject   \* the component that moves

TokenSymmetry == Permutations(Workers) \cup Permutations(Destinations)

Contents(text, size) == [text |-> text, size |-> size]
GrowingValues ==
    {Contents("a", 0), Contents("b", 1), Contents("c", 1), Contents("d", 2), Contents("e", 3)}


(* Automata for shortest distances; states are numbered from 0.            *)
Arc(t, w) == [target |-> t, weight |-> w]
Automaton(domain, start, states) ==
    [domain |-> domain, start |-> start, data |-> [s \in 0..(Len(states) - 1) |-> states[s + 1]]]
Ending(w, arcs) == [final |-> TRUE, weight |-> w, arcs |-> arcs]
Inner(arcs) == [final |-> FALSE, weight |-> 0, arcs |-> arcs]

(* A cycle, parallel arcs, a shorter way that is found late, and an arc to *)
(* no state.                                                               *)
Detour ==
    Automaton("tropical", 0,
        << Ending(4, <<Arc(1, 3), Arc(2, 1)>>), Inner(<<Arc(3, 2), Arc(3, 1)>>),
           Inner(<<Arc(7, 0), Arc(1, 0)>>), Ending(1, <<Arc(1, 0), Arc(2, 0)>>) >>)
(* Arcs that lower a distance, numbered against their order.               *)
Lowering ==
    Automaton("tropical", 2,
        << Ending(0, << >>), Inner(<<Arc(0, 1), Arc(3, 0 - 3)>>),
           Inner(<<Arc(3, 1), Arc(1, 2)>>), Inner(<<Arc(0, 1)>>) >>)
(* A cycle that is below nothing.                                          *)
Falling ==
    Automaton("tropical", 0,
        << Inner(<<Arc(1, 1), Arc(2, 0)>>), Ending(0, <<Arc(0, 0 - 2)>>), Ending(1, << >>) >>)
(* Such a cycle where the start does not lead, and one that leads to no    *)
(* end.                                                                    *)
Aside ==
    Automaton("tropical", 0,
        << Inner(<<Arc(1, 1)>>), Ending(0, << >>), Inner(<<Arc(3, 1), Arc(1, 2)>>),
           Inner(<<Arc(2, 0 - 2)>>) >>)
Astray ==
    Automaton("tropical", 0,
        << Ending(1, <<Arc(1, 2)>>), Inner(<<Arc(2, 1)>>), Inner(<<Arc(1, 0 - 2)>>) >>)
(* Counts that come together by ways of different lengths.                 *)
Branching ==
    Automaton("count", 0,
        << Inner(<<Arc(2, 1), Arc(1, 2)>>), Inner(<<Arc(2, 1), Arc(3, 0)>>),
           Inner(<<Arc(3, 1), Arc(3, 1)>>), Ending(1, << >>) >>)
(* Counts around a cycle, until they are full.                             *)
Turning == Automaton("count", 0, << Inner(<<Arc(1, 1)>>), Ending(1, <<Arc(0, 1)>>) >>)
Startless == Automaton("count", 5, << Ending(1, <<Arc(0, 2)>>) >>)
Empty == Automaton("count", 0, << >>)

Asked(fsts, limits) ==
    [fst : fsts, task : {"forward"}, limit : limits,
     discipline : {"fifo", "shortest", "topological", "auto"}]
    \cup [fst : fsts, task : {"reverse"}, limit : limits, discipline : {"auto"}]
AllRequests ==
    Asked({Detour, Lowering, Branching, Turning, Startless, Empty}, {Unlimited, 4})
    \cup Asked({Falling, Aside, Astray}, {6})
    \cup [fst : {Detour, Lowering, Falling, Aside}, task : {"pairs"}, limit : {Unlimited},
          discipline : {"auto"}]
NoRequest ==
    [fst |-> Empty, task |-> "forward", limit |-> Unlimited, discipline |-> "fifo"]

Init ==
    /\ LruInit /\ GateInit /\ TokenInit /\ DistanceInit
    /\ subject \in {"storage", "gate", "tokens", "distances"}
    /\ subject # "storage" => storage.capacity = 1
    /\ subject # "gate" => policy = "parallel" /\ value = Contents("a", 0)
    /\ subject # "distances" => request = NoRequest

Next ==
    \/ subject = "storage" /\ LruNext /\ UNCHANGED <<gateVars, tokenVars, distanceVars, subject>>
    \/ subject = "gate" /\ GateNext /\ UNCHANGED <<lruVars, tokenVars, distanceVars, subject>>
    \/ subject = "tokens" /\ TokenNext /\ UNCHANGED <<lruVars, gateVars, distanceVars, subject>>
    \/ subject = "distances" /\ DistanceNext /\ UNCHANGED <<lruVars, gateVars, tokenVars, subject>>

Spec == Init /\ [][Next]_<<lruVars, gateVars, tokenVars, distanceVars, subject>>
=============================================================================
