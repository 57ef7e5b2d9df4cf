----------------------------- MODULE Composition -----------------------------
(***************************************************************************)
(* CompositionResource with its ProductRegistry, and the state caches of   *)
(* the two CapturedWfst operands it reads (src/src/bindings.rs).  Threads  *)
(* ask for composed states by id; ids are handed out as product states are *)
(* met, so an id means something only through the registry.                *)
(*                                                                         *)
(* A step is one acquisition of a lock with what is done under it, one     *)
(* provider callback, or one turn of the interning loop.  The callback     *)
(* gates are the subject of SerialGate.  Of a weight only this is kept:    *)
(* the product of two "big" ones is not representable.                     *)
(***************************************************************************)
EXTENDS Naturals, Sequences, EpsilonFilter

CONSTANTS Threads,   \* the threads that ask for states
          Operands,  \* pairs of machines to compose
          Eps,       \* the absent label
          NULL

ASSUME ThreadsAssumption == NULL \notin Threads

(* A machine is [start, data]: data[s] is the set of StateData that its    *)
(* provider may answer for s, a singleton when the provider keeps the      *)
(* promise that a captured resource does not change.                       *)
ASSUME OperandsAssumption ==
    \A o \in Operands : \A k \in 1..2 :
        \A s \in DOMAIN o[k].data : \A d \in o[k].data[s] : DOMAIN d.arcs = 1..Len(d.arcs)

VARIABLES operands,  \* the two machines
          ids,       \* ProductRegistry::ids
          states,    \* ProductRegistry::states
          writer,    \* the holder of the registry's write lock
          cache,     \* CompositionResource::cache
          sides,     \* CapturedWfst::states of the left and right operand
          pc,        \* where each thread stands
          asked,     \* the id it was asked for
          product,   \* the product state behind that id
          got,       \* the operands' data it holds so far
          fresh,     \* what its callback returned
          todo,      \* the moves it has still to intern
          arcs,      \* the arcs it has built
          answered   \* history: every id answered for, with the answer

registry == <<ids, states, writer>>
job == <<asked, product, got, fresh, todo, arcs>>
vars == <<operands, registry, cache, sides, pc, job, answered>>

Invalid == [valid |-> FALSE, final |-> FALSE, big |-> FALSE, arcs |-> << >>]

With(f, k, v) == [x \in DOMAIN f \cup {k} |-> IF x = k THEN v ELSE f[x]]

(* Mutant of Adopted: the last writer wins.                                *)
Adopted_LastWins(f, k, v) == With(f, k, v)

(* entry(k).or_insert(v): the first writer wins.                           *)
Adopted(f, k, v) == IF k \in DOMAIN f THEN f ELSE With(f, k, v)

At(t, label) == pc[t] = label
Goto(t, label) == pc' = [pc EXCEPT ![t] = label]

Init ==
    /\ operands \in Operands
    /\ states = << [left |-> operands[1].start, right |-> operands[2].start,
                    filter |-> "None"] >>
    /\ ids = [p \in {states[1]} |-> 0]
    /\ writer = NULL
    /\ cache = << >>
    /\ sides = << << >>, << >> >>
    /\ pc = [t \in Threads |-> "idle"]
    /\ asked = [t \in Threads |-> NULL]
    /\ product = [t \in Threads |-> NULL]
    /\ got = [t \in Threads |-> << >>]
    /\ fresh = [t \in Threads |-> NULL]
    /\ todo = [t \in Threads |-> {}]
    /\ arcs = [t \in Threads |-> << >>]
    /\ answered = {}

(* state returns, and what the call held is dropped.                       *)
Return(t) ==
    /\ Goto(t, "idle")
    /\ asked' = [asked EXCEPT ![t] = NULL]
    /\ product' = [product EXCEPT ![t] = NULL]
    /\ got' = [got EXCEPT ![t] = << >>]
    /\ fresh' = [fresh EXCEPT ![t] = NULL]
    /\ todo' = [todo EXCEPT ![t] = {}]
    /\ arcs' = [arcs EXCEPT ![t] = << >>]

Answer(t, id, data) == Return(t) /\ answered' = answered \cup {<<id, data>>}

Fail(t) == Return(t) /\ UNCHANGED answered

-----------------------------------------------------------------------------
(* Locating the product state                                              *)

CacheHit(t, id) ==
    /\ At(t, "idle") /\ id \in DOMAIN cache
    /\ Answer(t, id, cache[id])
    /\ UNCHANGED <<operands, registry, cache, sides>>

CacheMiss(t, id) ==
    /\ At(t, "idle") /\ id \notin DOMAIN cache
    /\ asked' = [asked EXCEPT ![t] = id]
    /\ Goto(t, "locate")
    /\ UNCHANGED <<operands, registry, cache, sides, product, got, fresh, todo, arcs, answered>>

Locate(t) ==
    /\ At(t, "locate") /\ writer = NULL /\ asked[t] < Len(states)
    /\ product' = [product EXCEPT ![t] = states[asked[t] + 1]]
    /\ Goto(t, "operand")
    /\ UNCHANGED <<operands, registry, cache, sides, asked, got, fresh, todo, arcs, answered>>

Unknown(t) ==
    /\ At(t, "locate") /\ writer = NULL /\ asked[t] >= Len(states)
    /\ Fail(t)
    /\ UNCHANGED <<operands, registry, cache, sides>>

-----------------------------------------------------------------------------
(* Reading the operands: the left one, then the right one                  *)

Side(t) == Len(got[t]) + 1
Wanted(t) == IF Side(t) = 1 THEN product[t].left ELSE product[t].right
Supplied(k, s) == IF s \in DOMAIN operands[k].data THEN operands[k].data[s] ELSE {Invalid}

Take(t, data) ==
    /\ got' = [got EXCEPT ![t] = Append(@, data)]
    /\ Goto(t, IF Side(t) = 1 THEN "operand" ELSE "combine")

OperandHit(t) ==
    /\ At(t, "operand") /\ Wanted(t) \in DOMAIN sides[Side(t)]
    /\ Take(t, sides[Side(t)][Wanted(t)])
    /\ UNCHANGED <<operands, registry, cache, sides, asked, product, fresh, todo, arcs, answered>>

OperandMiss(t) ==
    /\ At(t, "operand") /\ Wanted(t) \notin DOMAIN sides[Side(t)]
    /\ Goto(t, "expand")
    /\ UNCHANGED <<operands, registry, cache, sides, job, answered>>

Expand(t) ==
    /\ At(t, "expand")
    /\ \E data \in Supplied(Side(t), Wanted(t)) : fresh' = [fresh EXCEPT ![t] = data]
    /\ Goto(t, "adopt")
    /\ UNCHANGED <<operands, registry, cache, sides, asked, product, got, todo, arcs, answered>>

(* The provider fails, its gate refuses, or its output is malformed.       *)
ExpandFails(t) ==
    /\ At(t, "expand")
    /\ Fail(t)
    /\ UNCHANGED <<operands, registry, cache, sides>>

(* Mutant of Adopt: the loser of a race goes on with its own copy.         *)
Adopt_OwnCopy(t) ==
    /\ At(t, "adopt")
    /\ sides' = [sides EXCEPT ![Side(t)] = Adopted(@, Wanted(t), fresh[t])]
    /\ Take(t, fresh[t])
    /\ fresh' = [fresh EXCEPT ![t] = NULL]
    /\ UNCHANGED <<operands, registry, cache, asked, product, todo, arcs, answered>>

Adopt(t) ==
    /\ At(t, "adopt")
    /\ sides' = [sides EXCEPT ![Side(t)] = Adopted(@, Wanted(t), fresh[t])]
    /\ Take(t, sides'[Side(t)][Wanted(t)])
    /\ fresh' = [fresh EXCEPT ![t] = NULL]
    /\ UNCHANGED <<operands, registry, cache, asked, product, todo, arcs, answered>>

-----------------------------------------------------------------------------
(* Combining them                                                          *)

LeftOf(t)  == got[t][1]
RightOf(t) == got[t][2]

(* A composed state over an invalid one is invalid, and is not cached.     *)
Reject(t) ==
    /\ At(t, "combine") /\ ~(LeftOf(t).valid /\ RightOf(t).valid)
    /\ Answer(t, asked[t], Invalid)
    /\ UNCHANGED <<operands, registry, cache, sides>>

Final(t) == LeftOf(t).final /\ RightOf(t).final
FinalOverflows(t) == Final(t) /\ LeftOf(t).big /\ RightOf(t).big

RejectFinal(t) ==
    /\ At(t, "combine") /\ LeftOf(t).valid /\ RightOf(t).valid /\ FinalOverflows(t)
    /\ Fail(t)
    /\ UNCHANGED <<operands, registry, cache, sides>>

(* A move is <<i, j>>: arc i of the left and arc j of the right operand, 0 *)
(* for an operand that stays.                                              *)
LeftMoves(t)  == {i \in DOMAIN LeftOf(t).arcs : LeftOf(t).arcs[i].out = Eps} \X {0}
RightMoves(t) == {0} \X {j \in DOMAIN RightOf(t).arcs : RightOf(t).arcs[j].in = Eps}
Matches(t) ==
    {m \in (DOMAIN LeftOf(t).arcs) \X (DOMAIN RightOf(t).arcs) :
        /\ LeftOf(t).arcs[m[1]].out # Eps
        /\ RightOf(t).arcs[m[2]].in = LeftOf(t).arcs[m[1]].out}

Moves(t) == LET f == product[t].filter IN
    (IF MayMoveLeft(f) THEN LeftMoves(t) ELSE {})
    \cup (IF MayMoveRight(f) THEN RightMoves(t) ELSE {})
    \cup (IF MayMatch(f) THEN Matches(t) ELSE {})

(* The order of the three loops.                                           *)
Loop(m) == IF m[2] = 0 THEN 1 ELSE IF m[1] = 0 THEN 2 ELSE 3
Precedes(m, n) ==
    \/ Loop(m) < Loop(n)
    \/ Loop(m) = Loop(n) /\ (m[1] < n[1] \/ (m[1] = n[1] /\ m[2] <= n[2]))
Current(t) == CHOOSE m \in todo[t] : \A n \in todo[t] : Precedes(m, n)

TargetOf(t, m) ==
    [left   |-> IF m[1] = 0 THEN product[t].left ELSE LeftOf(t).arcs[m[1]].to,
     right  |-> IF m[2] = 0 THEN product[t].right ELSE RightOf(t).arcs[m[2]].to,
     filter |-> CASE Loop(m) = 1 -> AfterLeft
                  [] Loop(m) = 2 -> AfterRight
                  [] Loop(m) = 3 -> AfterMatch]

(* Only a match multiplies two weights.                                    *)
Overflows(t, m) ==
    Loop(m) = 3 /\ LeftOf(t).arcs[m[1]].big /\ RightOf(t).arcs[m[2]].big

ArcOf(t, m, target) ==
    [in  |-> IF m[1] = 0 THEN Eps ELSE LeftOf(t).arcs[m[1]].in,
     out |-> IF m[2] = 0 THEN Eps ELSE RightOf(t).arcs[m[2]].out,
     big |-> \/ m[1] # 0 /\ LeftOf(t).arcs[m[1]].big
             \/ m[2] # 0 /\ RightOf(t).arcs[m[2]].big,
     to  |-> target]

Lock(t) ==
    /\ At(t, "combine") /\ LeftOf(t).valid /\ RightOf(t).valid /\ ~FinalOverflows(t)
    /\ writer = NULL
    /\ writer' = t
    /\ todo' = [todo EXCEPT ![t] = Moves(t)]
    /\ Goto(t, "intern")
    /\ UNCHANGED <<operands, ids, states, cache, sides, asked, product, got, fresh, arcs, answered>>

(* Mutant of Register: a product is interned each time it is met.          *)
Register_Always(p) == ids' = With(ids, p, Len(states)) /\ states' = Append(states, p)

(* ProductRegistry::register                                               *)
Register(p) ==
    IF p \in DOMAIN ids
    THEN UNCHANGED <<ids, states>>
    ELSE ids' = With(ids, p, Len(states)) /\ states' = Append(states, p)

Intern(t) ==
    /\ At(t, "intern") /\ todo[t] # {}
    /\ LET m == Current(t)
           p == TargetOf(t, m)
       IN  /\ ~Overflows(t, m)
           /\ Register(p)
           /\ arcs' = [arcs EXCEPT ![t] = Append(@, ArcOf(t, m, ids'[p]))]
           /\ todo' = [todo EXCEPT ![t] = @ \ {m}]
    /\ UNCHANGED <<operands, writer, cache, sides, pc, asked, product, got, fresh, answered>>

(* The target of the move is registered before its weight is multiplied;   *)
(* the products registered so far stay, and the lock is released.          *)
InternFails(t) ==
    /\ At(t, "intern") /\ todo[t] # {}
    /\ Overflows(t, Current(t))
    /\ Register(TargetOf(t, Current(t)))
    /\ writer' = NULL
    /\ Fail(t)
    /\ UNCHANGED <<operands, cache, sides>>

Unlock(t) ==
    /\ At(t, "intern") /\ todo[t] = {}
    /\ writer' = NULL
    /\ Goto(t, "publish")
    /\ UNCHANGED <<operands, ids, states, cache, sides, job, answered>>

(* What the thread has built.                                              *)
Built(t) == [valid |-> TRUE, final |-> Final(t),
             big |-> Final(t) /\ (LeftOf(t).big \/ RightOf(t).big), arcs |-> arcs[t]]

Publish(t) ==
    /\ At(t, "publish")
    /\ cache' = Adopted(cache, asked[t], Built(t))
    /\ Answer(t, asked[t], cache'[asked[t]])
    /\ UNCHANGED <<operands, registry, sides>>

-----------------------------------------------------------------------------
(* An id of a product met so far, or one that nothing has met.             *)
Ask(t) == \E id \in 0..Len(states) : CacheHit(t, id) \/ CacheMiss(t, id)

(* What a thread does once it was asked.                                   *)
Step(t) ==
    \/ Locate(t) \/ Unknown(t)
    \/ OperandHit(t) \/ OperandMiss(t) \/ Expand(t) \/ ExpandFails(t) \/ Adopt(t)
    \/ Reject(t) \/ RejectFinal(t) \/ Lock(t)
    \/ Intern(t) \/ InternFails(t) \/ Unlock(t) \/ Publish(t)

Next == \E t \in Threads : Ask(t) \/ Step(t)

Spec == Init /\ [][Next]_vars

-----------------------------------------------------------------------------
TypeOK ==
    /\ operands \in Operands
    /\ writer \in Threads \cup {NULL}
    /\ \A t \in Threads :
        /\ writer = t <=> At(t, "intern")
        /\ asked[t] = NULL <=> At(t, "idle")
        /\ Len(got[t]) <= 2
        /\ pc[t] \in {"combine", "intern", "publish"} <=> Len(got[t]) = 2
        /\ fresh[t] # NULL <=> At(t, "adopt")

(* Ids are dense and mean one product each, whichever threads met it, in   *)
(* whatever order and however many times.                                  *)
RegistryIsExact ==
    /\ DOMAIN ids = {states[k] : k \in DOMAIN states}
    /\ \A k \in DOMAIN states : ids[states[k]] = k - 1

(* Every answer for an id is the same answer, also when several threads    *)
(* expand it at once or the provider contradicts itself.                   *)
AnswersAgree == \A a, b \in answered : a[1] = b[1] => a[2] = b[2]

(* What a valid answer says, in products instead of ids.                   *)
Decoded(data) ==
    {[in |-> a.in, out |-> a.out, to |-> states[a.to + 1]] :
        a \in {data.arcs[i] : i \in DOMAIN data.arcs}}

(* The composition of two states, as a set.                                *)
Composed(p, left, right) ==
    LET leftArcs == {left.arcs[i] : i \in DOMAIN left.arcs}
        rightArcs == {right.arcs[j] : j \in DOMAIN right.arcs}
        pairs == {m \in leftArcs \X rightArcs : m[1].out = m[2].in /\ m[1].out # Eps}
    IN {[in |-> a.in, out |-> Eps, to |-> [left |-> a.to, right |-> p.right, filter |-> "Eps1"]] :
            a \in {x \in leftArcs : x.out = Eps /\ p.filter # "Eps2"}}
       \cup
       {[in |-> Eps, out |-> b.out, to |-> [left |-> p.left, right |-> b.to, filter |-> "Eps2"]] :
            b \in {x \in rightArcs : x.in = Eps}}
       \cup
       {[in |-> m[1].in, out |-> m[2].out,
         to |-> [left |-> m[1].to, right |-> m[2].to, filter |-> "None"]] : m \in pairs}

(* Every target of a cached state is registered, and read through the      *)
(* registry the state is the composition of what the operands' caches hold *)
(* for its product: after failed attempts, lost races and interning by     *)
(* others.  Its arcs are compared as a set.                                *)
CacheComposes ==
    \A id \in DOMAIN cache :
        LET p == states[id + 1]
            left == sides[1][p.left]
            right == sides[2][p.right]
        IN  /\ \A i \in DOMAIN cache[id].arcs : cache[id].arcs[i].to < Len(states)
            /\ cache[id].final <=> (left.final /\ right.final)
            /\ Decoded(cache[id]) = Composed(p, left, right)
==============================================================================
