------------------------------ MODULE PathCursor ------------------------------
(***************************************************************************)
(* ScalarPathCursor (src/src/bindings/path.rs): a client polls the         *)
(* accepting paths of a captured machine, depth first and one at a time,   *)
(* under bounds on states, arcs, work, depth and paths.                    *)
(*                                                                         *)
(* A step is one turn of the loop in poll.  The captured machine never     *)
(* changes (module SharedStateCache and its context), so it is read here   *)
(* as a function; its provider may still fail, and a cancellation token    *)
(* may read as set at any turn.  A weight is a natural number, a path's    *)
(* weight the sum of its arcs' and its last state's, and a sum over        *)
(* MaxWeight is one that is not representable.                             *)
(***************************************************************************)
EXTENDS PathReference

CONSTANTS Machines,   \* the machines a cursor may capture
          Configs,    \* the bounds a client may ask for
          MaxWeight,  \* the largest weight that is representable
          NULL

Completions == {"exhausted", "truncated", "cancelled"}
Errors == {"states", "arcs", "work", "weight", "invalid", "provider"}
Outcomes == Completions \cup Errors

ASSUME NullAssumption == NULL \notin Nat /\ NULL \notin Outcomes

ASSUME MachinesAssumption ==
    \A m \in Machines :
        /\ m.start \in DOMAIN m.data
        /\ \A s \in DOMAIN m.data :
               /\ Len(m.data[s].arcs) \in Nat
               /\ \A i \in 1..Len(m.data[s].arcs) :
                      /\ m.data[s].arcs[i].target \in DOMAIN m.data
                      /\ m.data[s].arcs[i].weight \in Nat

(* ScalarPathConfig::validate                                              *)
ASSUME ConfigsAssumption ==
    \A c \in Configs :
        /\ c.maxStates \in Nat \ {0} /\ c.maxWork \in Nat \ {0}
        /\ c.workPerCall \in Nat \ {0}
        /\ c.maxArcs \in Nat /\ c.maxDepth \in Nat /\ c.maxPaths \in Nat

VARIABLES machine,    \* the captured machine
          config,     \* the cursor's bounds
          frames,     \* the states of the current walk
          steps,      \* the arcs of the current walk
          seen,       \* the states that count against the budget
          expanded,   \* the arcs that count against the budget
          work,       \* the turns taken over the cursor's life
          truncated,  \* whether the depth bound has cut a walk short
          started,
          terminal,   \* the outcome, once there is one
          callWork,   \* the turns of the running call, NULL between calls
          reply,      \* what the last call answered
          paths       \* history: the paths yielded so far, and their hops

budget == <<seen, expanded>>
walk == <<frames, steps>>
vars == <<machine, config, walk, budget, work, truncated, started, terminal,
          callWork, reply, paths>>

Calling == callWork # NULL
Finished == frames = << >> /\ started
Data(s) == machine.data[s]
Top == frames[Len(frames)]
Pop(s) == SubSeq(s, 1, Len(s) - 1)

Init ==
    /\ machine \in Machines /\ config \in Configs
    /\ frames = << >> /\ steps = << >>
    /\ seen = {} /\ expanded = 0
    /\ work = 0
    /\ truncated = FALSE /\ started = FALSE
    /\ terminal = NULL /\ callWork = NULL /\ reply = NULL
    /\ paths = << >>

Answer(r) == callWork' = NULL /\ reply' = r

End(outcome) == terminal' = outcome /\ Answer(outcome)

(* Mutant of Fail: the error is returned and not remembered.               *)
Fail_Forgets(error) == UNCHANGED terminal /\ Answer(error)

Fail(error) == End(error)

-----------------------------------------------------------------------------
(* The beginning and the end of a call                                     *)

AskAgain ==
    /\ ~Calling /\ terminal # NULL
    /\ Answer(terminal)
    /\ UNCHANGED <<machine, config, walk, budget, work, truncated, started, terminal, paths>>

EnoughPaths ==
    /\ ~Calling /\ terminal = NULL /\ Len(paths) >= config.maxPaths
    /\ End("truncated")
    /\ UNCHANGED <<machine, config, walk, budget, work, truncated, started, paths>>

Call ==
    /\ ~Calling /\ terminal = NULL /\ Len(paths) < config.maxPaths
    /\ callWork' = 0
    /\ UNCHANGED <<machine, config, walk, budget, work, truncated, started, terminal, reply, paths>>

Cancel ==
    /\ Calling
    /\ End("cancelled")
    /\ UNCHANGED <<machine, config, walk, budget, work, truncated, started, paths>>

Finish ==
    /\ Calling /\ Finished
    /\ End(IF truncated THEN "truncated" ELSE "exhausted")
    /\ UNCHANGED <<machine, config, walk, budget, work, truncated, started, paths>>

(* Mutant of Pause: the last unit of a call is held back.                  *)
Pause_Early ==
    /\ Calling /\ ~Finished /\ callWork + 1 >= config.workPerCall
    /\ Answer("pending")
    /\ UNCHANGED <<machine, config, walk, budget, work, truncated, started, terminal, paths>>

Pause ==
    /\ Calling /\ ~Finished /\ callWork >= config.workPerCall
    /\ Answer("pending")
    /\ UNCHANGED <<machine, config, walk, budget, work, truncated, started, terminal, paths>>

OutOfWork ==
    /\ Calling /\ ~Finished /\ callWork < config.workPerCall /\ work >= config.maxWork
    /\ Fail("work")
    /\ UNCHANGED <<machine, config, walk, budget, work, truncated, started, paths>>

-----------------------------------------------------------------------------
(* One unit of work                                                        *)

Working ==
    /\ Calling /\ ~Finished
    /\ callWork < config.workPerCall /\ work < config.maxWork
    /\ work' = work + 1
    /\ UNCHANGED <<machine, config>>

GoOn == callWork' = callWork + 1 /\ UNCHANGED <<terminal, reply>>

Frame(s, w) == [state |-> s, next |-> 1, emitted |-> FALSE, weight |-> w]

(* What keeps push_state from entering a state.                            *)
Obstacle(s) ==
    IF s \notin seen /\ Cardinality(seen) >= config.maxStates THEN "states"
    ELSE IF s \notin seen /\ expanded + Len(Data(s).arcs) > config.maxArcs THEN "arcs"
    ELSE IF ~Data(s).valid THEN "invalid"
    ELSE NULL

(* Mutant of Count: a state counts each time it is entered.                *)
Count_Again(s) ==
    /\ seen' = seen \cup {s}
    /\ expanded' = expanded + Len(Data(s).arcs)

(* A state counts when it is entered for the first time.                   *)
Count(s) ==
    /\ seen' = seen \cup {s}
    /\ expanded' = IF s \in seen THEN expanded ELSE expanded + Len(Data(s).arcs)

(* The provider is asked, and may fail, only for a state not seen before.  *)
Refusals(s) ==
    (IF Obstacle(s) = NULL THEN {} ELSE {Obstacle(s)})
    \cup (IF s \in seen \/ Obstacle(s) = "states" THEN {} ELSE {"provider"})

Begin ==
    /\ Working /\ frames = << >>
    /\ Obstacle(machine.start) = NULL
    /\ frames' = << Frame(machine.start, 0) >>
    /\ Count(machine.start)
    /\ started' = TRUE
    /\ GoOn
    /\ UNCHANGED <<steps, truncated, paths>>

BeginFails ==
    /\ Working /\ frames = << >>
    /\ started' = TRUE
    /\ \E error \in Refusals(machine.start) : Fail(error)
    /\ UNCHANGED <<walk, budget, truncated, paths>>

(* The path to an accepting state is yielded once, on its first turn.      *)
Yields == frames # << >> /\ ~Top.emitted /\ Data(Top.state).final
Marked == [frames EXCEPT ![Len(frames)].emitted = TRUE]

(* History: the hops that have led to the top frame.                       *)
Trail == [i \in 1..Len(steps) |-> [from |-> frames[i].state, via |-> frames[i].next - 1]]

Emit ==
    /\ Working /\ Yields
    /\ Top.weight + Data(Top.state).weight <= MaxWeight
    /\ frames' = Marked
    /\ paths' = Append(paths, [hops |-> Trail, steps |-> steps, final |-> Top.state,
                               weight |-> Top.weight + Data(Top.state).weight])
    /\ Answer("path")
    /\ UNCHANGED <<steps, budget, truncated, started, terminal>>

EmitFails ==
    /\ Working /\ Yields
    /\ Top.weight + Data(Top.state).weight > MaxWeight
    /\ frames' = Marked
    /\ Fail("weight")
    /\ UNCHANGED <<steps, budget, truncated, started, paths>>

HasArc == frames # << >> /\ ~Yields /\ Top.next <= Len(Data(Top.state).arcs)
Arc == Data(Top.state).arcs[Top.next]
Moved == [Marked EXCEPT ![Len(frames)].next = @ + 1]

(* Mutant of Advance: the walk keeps the weight it had.                    *)
Advance_LosesWeight ==
    /\ Working /\ HasArc /\ Len(steps) < config.maxDepth
    /\ Top.weight + Arc.weight <= MaxWeight
    /\ Obstacle(Arc.target) = NULL
    /\ frames' = Append(Moved, Frame(Arc.target, Arc.weight))
    /\ steps' = Append(steps, [from |-> Top.state, arc |-> Arc])
    /\ Count(Arc.target)
    /\ GoOn
    /\ UNCHANGED <<truncated, started, paths>>

Advance ==
    /\ Working /\ HasArc /\ Len(steps) < config.maxDepth
    /\ Top.weight + Arc.weight <= MaxWeight
    /\ Obstacle(Arc.target) = NULL
    /\ frames' = Append(Moved, Frame(Arc.target, Top.weight + Arc.weight))
    /\ steps' = Append(steps, [from |-> Top.state, arc |-> Arc])
    /\ Count(Arc.target)
    /\ GoOn
    /\ UNCHANGED <<truncated, started, paths>>

AdvanceFails ==
    /\ Working /\ HasArc /\ Len(steps) < config.maxDepth
    /\ frames' = Moved
    /\ \E error \in IF Top.weight + Arc.weight > MaxWeight THEN {"weight"}
                    ELSE Refusals(Arc.target) : Fail(error)
    /\ UNCHANGED <<steps, budget, truncated, started, paths>>

(* Mutant of Retreat: the first arc of a walk that returns is kept.        *)
Retreat_KeepsStep ==
    /\ Working /\ frames # << >> /\ ~Yields
    /\ ~HasArc \/ Len(steps) >= config.maxDepth
    /\ frames' = Pop(frames)
    /\ steps' = IF Len(frames) <= 2 THEN steps ELSE Pop(steps)
    /\ truncated' = (truncated \/ HasArc)
    /\ GoOn
    /\ UNCHANGED <<budget, started, paths>>

(* The state has no arc left, or the depth bound cuts those it has.        *)
Retreat ==
    /\ Working /\ frames # << >> /\ ~Yields
    /\ ~HasArc \/ Len(steps) >= config.maxDepth
    /\ frames' = Pop(frames)
    /\ steps' = IF Len(frames) = 1 THEN steps ELSE Pop(steps)
    /\ truncated' = (truncated \/ HasArc)
    /\ GoOn
    /\ UNCHANGED <<budget, started, paths>>

Poll == AskAgain \/ EnoughPaths \/ Call

Turn ==
    \/ Finish \/ Pause \/ OutOfWork
    \/ Begin \/ BeginFails
    \/ Emit \/ EmitFails
    \/ Advance \/ AdvanceFails \/ Retreat

Next == Poll \/ Cancel \/ Turn

(* A running call goes on, and the client calls again until it has an      *)
(* outcome.                                                                *)
Spec == Init /\ [][Next]_vars /\ WF_vars(Turn) /\ WF_vars(Call \/ EnoughPaths)

-----------------------------------------------------------------------------
(* Properties                                                              *)

States == DOMAIN machine.data
Arcs == UNION {{Data(s).arcs[i] : i \in 1..Len(Data(s).arcs)} : s \in States}

TypeOK ==
    /\ machine \in Machines /\ config \in Configs
    /\ frames \in Seq([state : States, next : Nat \ {0}, emitted : BOOLEAN, weight : Nat])
    /\ steps \in Seq([from : States, arc : Arcs])
    /\ seen \subseteq States /\ IsFiniteSet(seen)
    /\ expanded \in Nat /\ work \in Nat
    /\ truncated \in BOOLEAN /\ started \in BOOLEAN
    /\ terminal \in Outcomes \cup {NULL} /\ callWork \in Nat \cup {NULL}
    /\ reply \in Outcomes \cup {"path", "pending", NULL}

(* The steps are the arcs between the frames, taken from the start, each   *)
(* the one its frame went past last, and a frame's weight is theirs.       *)
WalkIsCoherent ==
    /\ Len(steps) = IF frames = << >> THEN 0 ELSE Len(frames) - 1
    /\ frames # << >> => frames[1].state = machine.start /\ frames[1].weight = 0
    /\ \A i \in 1..Len(steps) :
           /\ steps[i].from = frames[i].state
           /\ frames[i].next - 1 \in 1..Len(Data(frames[i].state).arcs)
           /\ steps[i].arc = Data(frames[i].state).arcs[frames[i].next - 1]
           /\ frames[i + 1].state = steps[i].arc.target
           /\ frames[i + 1].weight = frames[i].weight + steps[i].arc.weight

WithinBounds ==
    /\ Cardinality(seen) <= config.maxStates /\ expanded <= config.maxArcs
    /\ work <= config.maxWork
    /\ Len(steps) <= config.maxDepth
    /\ \A i \in 1..Len(frames) : frames[i].state \in seen /\ Data(frames[i].state).valid

(* A walk is open only once begun, and an outcome ends the calls.          *)
OutcomeIsKept ==
    /\ frames # << >> => started
    /\ Calling => terminal = NULL
    /\ reply \in Outcomes => terminal = reply

(* What a call leaves behind: the frames and steps of one walk of the      *)
(* machine from its start, within every bound that was asked for, and an   *)
(* outcome only where none is still being worked on (ScalarPathCursor).    *)
CursorInv == TypeOK /\ WalkIsCoherent /\ WithinBounds /\ OutcomeIsKept

(* However the calls are cut, the paths yielded are accepting paths within *)
(* the depth bound, with the arcs and the weights of their walks, each one *)
(* once and in depth-first order, and none is passed over: every path that *)
(* comes before one already yielded has been yielded as well               *)
(* (ScalarPathCursor::poll).                                               *)
Yielded(p) == \E k \in DOMAIN paths : paths[k] = p

YieldsInOrder ==
    LET wanted == PathsWithin(machine, config.maxDepth) IN
    /\ \A k \in DOMAIN paths : paths[k] \in wanted
    /\ \A j, k \in DOMAIN paths : j < k => Before(paths[j].hops, paths[k].hops)
    /\ \A p \in wanted, k \in DOMAIN paths : Before(p.hops, paths[k].hops) => Yielded(p)

(* An outcome says what it claims: exhausted, that no walk goes beyond the *)
(* depth bound and every accepting path has been yielded; truncated, that  *)
(* the bound on paths was met, or that walks do go beyond the depth bound  *)
(* and every accepting path within it has been yielded; an error, that a   *)
(* walk within the depth bound meets an invalid state, weighs too much, or *)
(* that such walks together need more states or arcs than there are.       *)
AllYielded == \A p \in PathsWithin(machine, config.maxDepth) : Yielded(p)
GoesDeeper == WalksOf(machine, config.maxDepth + 1) # {}
Weighs(w) == \/ WeightOf(machine, w) > MaxWeight
             \/ Accepts(machine, w) /\ PathOf(machine, w).weight > MaxWeight

OutcomeIsHonest ==
    LET reach == Reach(machine, config.maxDepth) IN
    /\ terminal = "exhausted" => AllYielded /\ ~GoesDeeper
    /\ terminal = "truncated" => Len(paths) = config.maxPaths \/ (AllYielded /\ GoesDeeper)
    /\ terminal = "states" => ~FewEnough(reach, config.maxStates)
    /\ terminal = "arcs" => ~FewEnough(Leaving(machine, reach), config.maxArcs)
    /\ terminal = "work" => work = config.maxWork
    /\ terminal = "invalid" => \E s \in reach : ~Data(s).valid
    /\ terminal = "weight" => \E w \in WalksWithin(machine, config.maxDepth) : Weighs(w)

(* Once a call has answered with an outcome, every later call answers the  *)
(* same and yields nothing (the contract of lling_path_cursor_next).       *)
OutcomeIsSticky == [][(reply \in Outcomes) => reply' = reply /\ paths' = paths]_vars
=============================================================================
