---------------------------- MODULE CompositionMC ----------------------------
(***************************************************************************)
(* Pairs of small machines for Composition, and its language on them.      *)
(***************************************************************************)
EXTENDS Composition, FiniteSets, TLC

Arc(in, out, to) == [in |-> in, out |-> out, to |-> to, big |-> FALSE]
BigArc(in, out, to) == [Arc(in, out, to) EXCEPT !.big = TRUE]
Inner(out) == [valid |-> TRUE, final |-> FALSE, big |-> FALSE, arcs |-> out]
Accepting(out) == [Inner(out) EXCEPT !.final = TRUE]
BigFinal == [Accepting(<< >>) EXCEPT !.big = TRUE]
Machine(data) == [start |-> 1, data |-> data]

(* Both operands move alone before they match.                             *)
EpsilonRuns ==
    << Machine(<< {Inner(<< Arc("p", Eps, 2) >>)}, {Inner(<< Arc("q", "a", 3) >>)},
                  {Accepting(<< >>)} >>),
       Machine(<< {Inner(<< Arc(Eps, "u", 2) >>)}, {Inner(<< Arc("a", "v", 3) >>)},
                  {Accepting(<< >>)} >>) >>

(* Every state may move alone or match, so that runs and matches mix.      *)
Mixed ==
    << Machine(<< {Inner(<< Arc("p", "a", 2), Arc("p", Eps, 2) >>)},
                  {Accepting(<< Arc("q", Eps, 3) >>)}, {Accepting(<< >>)} >>),
       Machine(<< {Accepting(<< Arc("a", "u", 2), Arc(Eps, "u", 2) >>)},
                  {Accepting(<< >>)} >>) >>

(* Parallel arcs that match, and epsilons after the match.                 *)
ParallelArcs ==
    << Machine(<< {Inner(<< Arc("p", "a", 2), Arc("q", "a", 2) >>)},
                  {Accepting(<< Arc("p", Eps, 3) >>)}, {Accepting(<< >>)} >>),
       Machine(<< {Inner(<< Arc("a", "u", 2), Arc("a", "u", 2) >>)},
                  {Accepting(<< Arc(Eps, "u", 3) >>)}, {Accepting(<< >>)} >>) >>

(* Providers that contradict themselves between two callbacks.             *)
Unstable ==
    << Machine(<< {Inner(<< Arc("p", "a", 2) >>), Inner(<< Arc("p", Eps, 2) >>), Invalid},
                  {Accepting(<< >>)} >>),
       Machine(<< {Inner(<< Arc("a", "u", 2) >>), Accepting(<< >>)}, {Accepting(<< >>)} >>) >>

(* The second of three moves is not representable; nor is a final weight.  *)
Overflowing ==
    << Machine(<< {Inner(<< BigArc("p", "a", 2), Arc("q", Eps, 3), Arc("q", "a", 3) >>)},
                  {BigFinal}, {BigFinal} >>),
       Machine(<< {Inner(<< BigArc("a", "u", 2) >>)}, {BigFinal} >>) >>

(* Arcs to states that the provider calls invalid.                         *)
Dangling ==
    << Machine(<< {Inner(<< Arc("p", "a", 9), Arc("p", "a", 2) >>)}, {BigFinal} >>),
       Machine(<< {Inner(<< Arc("a", "u", 2) >>)}, {Accepting(<< >>)} >>) >>

OperandPairs == {EpsilonRuns, Mixed, ParallelArcs, Unstable, Overflowing, Dangling}
Interchangeable == Permutations(Threads)

-----------------------------------------------------------------------------
(* The accepting paths of an acyclic graph of StateData, as sequences of   *)
(* arcs with their places.                                                 *)
RECURSIVE PathsFrom(_, _)
PathsFrom(graph, s) ==
    IF s \notin DOMAIN graph THEN {}
    ELSE (IF graph[s].final THEN {<< >>} ELSE {})
         \cup UNION {{<< [arc |-> graph[s].arcs[i], place |-> i] >> \o rest :
                        rest \in PathsFrom(graph, graph[s].arcs[i].to)} :
                     i \in DOMAIN graph[s].arcs}

Labels(string) == SelectSeq(string, LAMBDA x : x # Eps)
Inputs(path)  == Labels([i \in DOMAIN path |-> path[i].arc.in])
Outputs(path) == Labels([i \in DOMAIN path |-> path[i].arc.out])

Explored == {a[1] : a \in answered} = 0..(Len(states) - 1)

(* Once every product met was answered for, each pair of an accepting path *)
(* of the left operand and one of the right that agree on the labels in    *)
(* between is exactly one accepting path of the composition, wherever the  *)
(* epsilons stand: the filter loses none and repeats none.                 *)
OnePathPerPair == Explored =>
    LET graph == [id \in 0..(Len(states) - 1) |-> (CHOOSE a \in answered : a[1] = id)[2]]
        pairs == {<<l, r>> \in PathsFrom(sides[1], operands[1].start)
                               \X PathsFrom(sides[2], operands[2].start) :
                    Outputs(l) = Inputs(r)}
        paths == PathsFrom(graph, 0)
    IN  \A io \in {<<Inputs(c), Outputs(c)>> : c \in paths}
                  \cup {<<Inputs(m[1]), Outputs(m[2])>> : m \in pairs} :
            Cardinality({c \in paths : <<Inputs(c), Outputs(c)>> = io})
              = Cardinality({m \in pairs : <<Inputs(m[1]), Outputs(m[2])>> = io})
=============================================================================
