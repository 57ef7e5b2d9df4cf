----------------------------- MODULE GraphCursor -----------------------------
(***************************************************************************)
(* CapturedGraphCursor (src/src/bindings/graph.rs): a client polls the     *)
(* copy of everything that is reachable in a captured machine, breadth     *)
(* first, one provider callback per unit of work: the header of a state,   *)
(* then its arcs in pages whose size the provider chooses.                 *)
(*                                                                         *)
(* A step is one turn of the loop in poll.  The machine does not change    *)
(* while it is captured; its provider may fail, answer pages that do not   *)
(* fit together, or know nothing of a state that an arc leads to.          *)
(***************************************************************************)
EXTENDS CapturedMachine, SequencesExt

CONSTANTS Machines,  \* the machines a cursor may capture
          Configs,   \* the bounds a client may ask for
          PageSize,  \* VT_RECOMMENDED_ARC_BATCH
          NULL

(* A machine is [start, domain, data], and an arc is [target, weight].     *)
IsGraph(m) ==
    /\ m.start \in DOMAIN m.data
    /\ \A s \in DOMAIN m.data :
          LET arcs == m.data[s].arcs IN
          arcs \in Seq([target : DOMAIN m.data, weight : {arc.weight : arc \in Range(arcs)}])

ASSUME GraphMachines == \A m \in Machines : IsGraph(m)

ASSUME GraphConfigs ==
    /\ PageSize \in Nat \ {0}
    /\ \A c \in Configs :
          c.maxStates \in Nat \ {0} /\ c.maxArcs \in Nat /\ c.maxWork \in Nat /\ c.workPerCall \in Nat

VARIABLES machine,   \* the captured machine
          config,    \* the cursor's bounds, NULL once it is consumed
          captured,    \* the states of the graph, by local id
          queue,     \* the local ids that wait for their data
          current,   \* the state that is being read, NULL for none
          reserved,  \* the arcs that count against the budget
          work,      \* the callbacks made over the cursor's life
          terminal,  \* the outcome, once there is one
          callWork,  \* the callbacks of the running call, NULL between calls
          reply,     \* what the last call answered
          graph      \* the graph that was taken, NULL before

(* A state that is being read: how far, and how many arcs it is said to    *)
(* have once the first page has come.                                      *)
PendingState == [id : Nat, header : BOOLEAN, total : Nat \cup {NULL}, offset : Nat]

counts == <<reserved, work>>
cursorVars == <<machine, config, captured, queue, current, counts, terminal, callWork, reply, graph>>

Outcomes == {"complete", "cancelled", "states", "arcs", "work", "invalid", "provider"}

ASSUME GraphNull ==
    NULL \notin Outcomes /\ NULL \notin Configs /\ NULL \notin PendingState /\ NULL \notin Nat

Least(m, n) == IF m < n THEN m ELSE n
Calling == callWork # NULL
Empty(raw) == [raw |-> raw, final |-> FALSE, weight |-> NULL, arcs |-> << >>]
RawIds == {captured[k].raw : k \in DOMAIN captured}

Opened(m) ==
    /\ machine = m
    /\ captured = << Empty(m.start) >> /\ queue = << 1 >> /\ current = NULL
    /\ reserved = 0 /\ work = 0
    /\ terminal = NULL /\ callWork = NULL /\ reply = NULL /\ graph = NULL

CaptureInit == config \in Configs /\ \E m \in Machines : Opened(m)

Answer(r) == callWork' = NULL /\ reply' = r
End(outcome) == terminal' = outcome /\ Answer(outcome)
GoOn == callWork' = callWork + 1 /\ UNCHANGED <<terminal, reply>>

-----------------------------------------------------------------------------
(* The beginning and the end of a call                                     *)

AskAgain ==
    /\ ~Calling /\ config # NULL /\ terminal # NULL
    /\ Answer(terminal)
    /\ UNCHANGED <<machine, config, captured, queue, current, counts, terminal, graph>>

Call ==
    /\ ~Calling /\ config # NULL /\ terminal = NULL
    /\ callWork' = 0
    /\ UNCHANGED <<machine, config, captured, queue, current, counts, terminal, reply, graph>>

Cancel ==
    /\ Calling
    /\ End("cancelled")
    /\ UNCHANGED <<machine, config, captured, queue, current, counts, graph>>

(* A turn takes up the next state of the queue when none is being read.    *)
Idle == current = NULL /\ queue # << >>
Now == IF Idle THEN [id |-> Head(queue), header |-> FALSE, total |-> NULL, offset |-> 0]
       ELSE current
Waiting == IF Idle THEN Tail(queue) ELSE queue
Raw == captured[Now.id].raw
Read == machine.data[Raw]

Complete ==
    /\ Calling /\ current = NULL /\ queue = << >>
    /\ End("complete")
    /\ UNCHANGED <<machine, config, captured, queue, current, counts, graph>>

Pause ==
    /\ Calling /\ Now # NULL /\ callWork >= config.workPerCall
    /\ Answer("pending")
    /\ current' = Now /\ queue' = Waiting
    /\ UNCHANGED <<machine, config, captured, counts, terminal, graph>>

OutOfWork ==
    /\ Calling /\ Now # NULL
    /\ callWork < config.workPerCall /\ work >= config.maxWork
    /\ End("work")
    /\ current' = Now /\ queue' = Waiting
    /\ UNCHANGED <<machine, config, captured, counts, graph>>

-----------------------------------------------------------------------------
(* One provider callback                                                   *)

Working ==
    /\ Calling /\ Now # NULL
    /\ callWork < config.workPerCall /\ work < config.maxWork
    /\ work' = work + 1
    /\ UNCHANGED <<machine, config, graph>>

Header ==
    /\ Working /\ ~Now.header /\ Read.valid
    /\ captured' = [captured EXCEPT ![Now.id].final = Read.final,
                                ![Now.id].weight = Read.weight]
    /\ current' = [Now EXCEPT !.header = TRUE]
    /\ queue' = Waiting /\ GoOn
    /\ UNCHANGED reserved

HeaderFails ==
    /\ Working /\ ~Now.header
    /\ \/ End("provider")
       \/ ~Read.valid /\ End("invalid")
    /\ current' = Now /\ queue' = Waiting
    /\ UNCHANGED <<captured, reserved>>

Total == Len(Read.arcs)
Left == Total - Now.offset

(* The sizes a provider may give the next page: no page before the last is *)
(* empty.                                                                  *)
Pages == IF Left = 0 THEN {0} ELSE 1..Least(PageSize, Left)

(* Mutant of Reserved: every page reserves the arcs of its state.          *)
Reserved_EachPage == reserved + Total

Reserved == IF Now.total = NULL THEN reserved + Total ELSE reserved

WithPage(n) ==
    [captured EXCEPT ![Now.id].arcs = @ \o SubSeq(Read.arcs, Now.offset + 1, Now.offset + n)]

Page(n) ==
    /\ Working /\ Now.header /\ Reserved <= config.maxArcs
    /\ n < Left
    /\ reserved' = Reserved
    /\ captured' = WithPage(n)
    /\ current' = [Now EXCEPT !.total = Total, !.offset = @ + n]
    /\ queue' = Waiting /\ GoOn

(* The arcs of the completed state that are the first to lead to a state,  *)
(* and those states in the order of these arcs.                            *)
Meetings ==
    {i \in 1..Total : /\ Read.arcs[i].target \notin RawIds
                      /\ \A j \in 1..(i - 1) : Read.arcs[j].target # Read.arcs[i].target}
Nth(S, k) == CHOOSE i \in S : Cardinality({j \in S : j <= i}) = k
NewTargets == [k \in 1..Cardinality(Meetings) |-> Read.arcs[Nth(Meetings, k)].target]
Room == config.maxStates - Len(captured)

(* Mutant of Discovered: the newest state is read first.                   *)
Discovered_LastFirst(n, fresh) == Reverse([k \in DOMAIN fresh |-> n + k])

(* The local ids of fresh states.                                          *)
Discovered(n, fresh) == [k \in DOMAIN fresh |-> n + k]

(* The last page: the state is complete, and its targets are numbered as   *)
(* far as there is room.                                                   *)
LastPage(n) ==
    /\ Working /\ Now.header /\ Reserved <= config.maxArcs
    /\ n = Left
    /\ LET fresh == SubSeq(NewTargets, 1, Least(Room, Len(NewTargets))) IN
       /\ captured' = WithPage(n) \o [k \in DOMAIN fresh |-> Empty(fresh[k])]
       /\ queue' = Waiting \o Discovered(Len(captured), fresh)
    /\ reserved' = Reserved
    /\ IF Len(NewTargets) > Room
       THEN End("states") /\ current' = Now
       ELSE GoOn /\ current' = NULL

(* "provider" stands for a callback that fails and for pages that do not   *)
(* fit together.                                                           *)
PageFails ==
    /\ Working /\ Now.header
    /\ \/ End("provider")
       \/ Reserved > config.maxArcs /\ End("arcs")
    /\ current' = Now /\ queue' = Waiting
    /\ UNCHANGED <<captured, reserved>>

-----------------------------------------------------------------------------
(* Taking the graph                                                        *)

LocalId(raw) == CHOOSE k \in DOMAIN captured : captured[k].raw = raw

(* The graph as its users read it, each target under its local id.         *)
IntoGraph ==
    [domain |-> machine.domain,
     states |-> [k \in DOMAIN captured |->
        [raw |-> captured[k].raw, final |-> captured[k].final, weight |-> captured[k].weight,
         arcs |-> [i \in DOMAIN captured[k].arcs |->
            [captured[k].arcs[i] EXCEPT !.target = LocalId(captured[k].arcs[i].target)]]]]]

(* The cursor is consumed with its graph.                                  *)
Consumed ==
    /\ captured' = << >> /\ queue' = << >> /\ current' = NULL
    /\ reserved' = 0 /\ work' = 0
    /\ terminal' = NULL /\ callWork' = NULL /\ reply' = NULL
    /\ config' = NULL /\ UNCHANGED machine

(* Only a complete capture yields its graph, and it does so once.          *)
Take ==
    /\ ~Calling /\ config # NULL /\ terminal = "complete"
    /\ graph' = IntoGraph
    /\ Consumed

Turn ==
    \/ Complete \/ Pause \/ OutOfWork
    \/ Header \/ HeaderFails
    \/ Now # NULL /\ \E n \in Pages : (Page(n) \/ LastPage(n))
    \/ PageFails

Capture == AskAgain \/ Call \/ Cancel \/ (Calling /\ Turn) \/ Take

CaptureSpec == CaptureInit /\ [][Capture]_cursorVars

-----------------------------------------------------------------------------
(* Properties                                                              *)

(* A graph that was taken holds every state that can be found from the     *)
(* start, once, valid, with its own weight and all its arcs in the         *)
(* provider's order, however the pages were cut; and local ids are given   *)
(* in reading order: of the arcs that lead to a state, each comes after    *)
(* one that leads to the state before it.                                  *)
CaptureIsExact ==
    graph # NULL =>
        LET states == graph.states
            leads(p, i, k) == i \in DOMAIN states[p].arcs /\ states[p].arcs[i].target = k
        IN
        /\ {states[k].raw : k \in DOMAIN states} = Found(machine)
        /\ \A j, k \in DOMAIN states : states[j].raw = states[k].raw => j = k
        /\ states[1].raw = machine.start
        /\ \A k \in DOMAIN states :
              LET original == machine.data[states[k].raw] IN
              /\ original.valid
              /\ states[k].final = original.final /\ states[k].weight = original.weight
              /\ DOMAIN states[k].arcs = DOMAIN original.arcs
              /\ \A i \in DOMAIN original.arcs :
                    /\ states[k].arcs[i].target \in DOMAIN states
                    /\ states[states[k].arcs[i].target].raw = original.arcs[i].target
                    /\ states[k].arcs[i].weight = original.arcs[i].weight
        /\ \A q \in DOMAIN states, k \in 3..Len(states) : \A l \in DOMAIN states[q].arcs :
              leads(q, l, k) =>
                 \E p \in 1..q : \E i \in DOMAIN states[p].arcs :
                    leads(p, i, k - 1) /\ (p < q \/ i < l)

(* A capture that ends for a reason ends for a reason that is true of the  *)
(* machine and the bounds.                                                 *)
CaptureIsHonest ==
    terminal # NULL =>
        LET found == Found(machine)
            arcs == Leaving(machine, found)
        IN
        /\ terminal = "states" => ~FewEnough(found, config.maxStates)
        /\ terminal = "arcs" => ~FewEnough(arcs, config.maxArcs)
        /\ terminal = "work" => work = config.maxWork
        /\ terminal = "invalid" => \E s \in found : ~machine.data[s].valid
        /\ terminal = "complete" =>
              /\ FewEnough(found, config.maxStates) /\ work <= config.maxWork
              /\ FewEnough(arcs, config.maxArcs) /\ reserved = Cardinality(arcs)
=============================================================================
