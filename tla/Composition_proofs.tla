------------------------- MODULE Composition_proofs -------------------------
(***************************************************************************)
(* The registry of products is exact, and an id is always answered for in  *)
(* the same way: for any threads, any operands and any providers.          *)
(*                                                                         *)
(* Nothing is assumed of the providers, so the argument cannot be that a   *)
(* recomputation gives the same result.  It is that the first StateData    *)
(* adopted for each operand state decides whether the composed state is    *)
(* valid, and that the first composed state published is the one answered. *)
(*                                                                         *)
(* That a cached state is a composition at all follows the interning loop: *)
(* the arcs built so far, read through the registry, are the moves made so *)
(* far (Accounted), and all the moves together are the composition         *)
(* (MovesCompose).                                                         *)
(***************************************************************************)
EXTENDS Composition, WellFoundedInduction, TLAPS

Labels == {"idle", "locate", "operand", "expand", "adopt", "combine", "intern", "publish"}
Combining == {"combine", "intern", "publish"}

(* Registry and operand caches as an argument: the same facts are needed   *)
(* before and after a step.                                                *)
Left(id, st)  == st[id + 1].left
Right(id, st) == st[id + 1].right

(* The id is a product's, and both operand states behind it are cached.    *)
Settled(id, st, sd) ==
    /\ id \in Nat /\ id < Len(st)
    /\ Left(id, st) \in DOMAIN sd[1]
    /\ Right(id, st) \in DOMAIN sd[2]

BothValid(id, st, sd) == sd[1][Left(id, st)].valid /\ sd[2][Right(id, st)].valid

RegistryInv ==
    /\ \E S : states \in Seq(S)
    /\ DOMAIN sides = 1..2
    /\ RegistryIsExact

CacheInv == \A id \in DOMAIN cache : Settled(id, states, sides) /\ BothValid(id, states, sides)

AnswerInv ==
    \A a \in answered :
        /\ Settled(a[1], states, sides)
        /\ IF BothValid(a[1], states, sides) THEN a[1] \in DOMAIN cache /\ a[2] = cache[a[1]]
                                             ELSE a[2] = Invalid

(* What a thread holds is what the registry and the operands' caches say.  *)
Holds(t, st, sd) ==
    /\ pc[t] \in Labels
    /\ \E S : got[t] \in Seq(S)
    /\ Len(got[t]) <= 2
    /\ pc[t] # "idle" => asked[t] \in Nat
    /\ pc[t] \in {"idle", "locate"} => Len(got[t]) = 0
    /\ pc[t] \notin {"idle", "locate"} => asked[t] < Len(st) /\ product[t] = st[asked[t] + 1]
    /\ pc[t] \in {"operand", "expand", "adopt"} => Len(got[t]) < 2
    /\ pc[t] \in Combining => Len(got[t]) = 2
    /\ Len(got[t]) >= 1 =>
        product[t].left \in DOMAIN sd[1] /\ got[t][1] = sd[1][product[t].left]
    /\ Len(got[t]) = 2 =>
        product[t].right \in DOMAIN sd[2] /\ got[t][2] = sd[2][product[t].right]
    /\ pc[t] \in {"intern", "publish"} => got[t][1].valid /\ got[t][2].valid

ThreadInv ==
    /\ pc = [t \in Threads |-> pc[t]] /\ asked = [t \in Threads |-> asked[t]]
    /\ product = [t \in Threads |-> product[t]] /\ got = [t \in Threads |-> got[t]]
    /\ \A t \in Threads : Holds(t, states, sides)

IInv == RegistryInv /\ CacheInv /\ AnswerInv /\ ThreadInv

(* Products keep their ids and cached operand states their data.           *)
Grows(st, sd) ==
    /\ Len(states) <= Len(st)
    /\ \A k \in 1..Len(states) : st[k] = states[k]
    /\ \A k \in 1..2 : \A s \in DOMAIN sides[k] : s \in DOMAIN sd[k] /\ sd[k][s] = sides[k][s]

-----------------------------------------------------------------------------
(* Appending to a sequence of whatever elements.                           *)
LEMMA Appended ==
    ASSUME NEW S, NEW s \in Seq(S), NEW e
    PROVE  /\ \E T : Append(s, e) \in Seq(T)
           /\ Len(Append(s, e)) = Len(s) + 1
           /\ \A k \in 1..Len(s) : Append(s, e)[k] = s[k]
           /\ Append(s, e)[Len(s) + 1] = e
<1>1. s \in Seq(S \cup {e}) /\ e \in S \cup {e}
  OBVIOUS
<1>2. Append(s, e) \in Seq(S \cup {e})
  BY <1>1
<1> QED
  BY <1>1, <1>2

LEMMA LengthIsNat == ASSUME NEW s, \E S : s \in Seq(S) PROVE Len(s) \in Nat
  OBVIOUS

(* Registering keeps the registry exact, wherever the product comes from.  *)
LEMMA Registers ==
    ASSUME RegistryInv, NEW p, Register(p)
    PROVE  /\ \E S : states' \in Seq(S)
           /\ RegistryIsExact'
           /\ Len(states) <= Len(states')
           /\ \A k \in 1..Len(states) : states'[k] = states[k]
<1>1. PICK S : states \in Seq(S)
  BY DEF RegistryInv
<1>2. CASE p \in DOMAIN ids
  BY <1>1, <1>2 DEF Register, RegistryInv, RegistryIsExact
<1>3. CASE p \notin DOMAIN ids
  <2>1. states' = Append(states, p) /\ ids' = With(ids, p, Len(states))
    BY <1>3 DEF Register
  <2>2. /\ \E T : states' \in Seq(T)
        /\ Len(states') = Len(states) + 1
        /\ \A k \in 1..Len(states) : states'[k] = states[k]
        /\ states'[Len(states) + 1] = p
    <3>1. /\ \E T : Append(states, p) \in Seq(T)
          /\ Len(Append(states, p)) = Len(states) + 1
          /\ \A k \in 1..Len(states) : Append(states, p)[k] = states[k]
          /\ Append(states, p)[Len(states) + 1] = p
      BY ONLY <1>1, Appended
    <3> QED
      BY ONLY <2>1, <3>1
  <2>3. Len(states) \in Nat /\ DOMAIN states = 1..Len(states) /\ DOMAIN states' = 1..(Len(states) + 1)
    <3>1. PICK T : states' \in Seq(T)
      BY ONLY <2>2
    <3>2. DOMAIN states' = 1..Len(states')
      BY ONLY <3>1
    <3> QED
      BY ONLY <1>1, <2>2, <3>2
  <2>4. DOMAIN ids' = DOMAIN ids \cup {p} /\ ids'[p] = Len(states)
        /\ \A q \in DOMAIN ids : ids'[q] = ids[q]
    <3>1. ids' = [x \in DOMAIN ids \cup {p} |-> IF x = p THEN Len(states) ELSE ids[x]]
      BY ONLY <2>1 DEF With
    <3> QED
      BY ONLY <3>1, <1>3
  <2>5. DOMAIN ids' = {states'[k] : k \in DOMAIN states'}
    <3>1. ASSUME NEW q \in DOMAIN ids' PROVE \E k \in DOMAIN states' : states'[k] = q
      <4>1. CASE q = p
        BY <4>1, <2>2, <2>3
      <4>2. CASE q \in DOMAIN ids
        <5>1. PICK k \in 1..Len(states) : states[k] = q
          BY <4>2, <2>3 DEF RegistryInv, RegistryIsExact
        <5> QED
          BY <5>1, <2>2, <2>3
      <4> QED
        BY <4>1, <4>2, <2>4
    <3>2. ASSUME NEW k \in DOMAIN states' PROVE states'[k] \in DOMAIN ids'
      <4>1. CASE k = Len(states) + 1
        BY <4>1, <2>2, <2>4
      <4>2. CASE k \in 1..Len(states)
        BY <4>2, <2>2, <2>3, <2>4 DEF RegistryInv, RegistryIsExact
      <4> QED
        BY <4>1, <4>2, <2>3
    <3> QED
      BY <3>1, <3>2
  <2>6. ASSUME NEW k \in DOMAIN states' PROVE ids'[states'[k]] = k - 1
    <3>1. CASE k = Len(states) + 1
      BY <3>1, <2>2, <2>3, <2>4
    <3>2. CASE k \in 1..Len(states)
      <4>1. states[k] \in DOMAIN ids /\ ids[states[k]] = k - 1
        BY <3>2, <2>3 DEF RegistryInv, RegistryIsExact
      <4> QED
        BY <3>2, <4>1, <2>2, <2>4
    <3> QED
      BY <3>1, <3>2, <2>3
  <2> QED
    BY <2>2, <2>3, <2>5, <2>6 DEF RegistryIsExact
<1> QED
  BY <1>2, <1>3

-----------------------------------------------------------------------------
(* What growth preserves.                                                  *)
LEMMA SettledStays ==
    ASSUME RegistryInv, NEW st, NEW sd, Grows(st, sd), Len(st) \in Nat,
           NEW id, Settled(id, states, sides)
    PROVE  /\ Settled(id, st, sd)
           /\ BothValid(id, st, sd) <=> BothValid(id, states, sides)
<1>1. Len(states) \in Nat
  BY LengthIsNat DEF RegistryInv
<1>2. id + 1 \in 1..Len(states) /\ id < Len(st)
  BY <1>1 DEF Settled, Grows
<1>3. st[id + 1] = states[id + 1]
  BY <1>2 DEF Grows
<1> QED
  BY <1>2, <1>3 DEF Settled, BothValid, Grows, Left, Right

LEMMA HoldsStays ==
    ASSUME RegistryInv, NEW st, NEW sd, Grows(st, sd), Len(st) \in Nat,
           NEW t \in Threads, Holds(t, states, sides)
    PROVE  Holds(t, st, sd)
<1>1. Len(states) \in Nat
  BY LengthIsNat DEF RegistryInv
<1>2. ASSUME pc[t] \notin {"idle", "locate"}
      PROVE  asked[t] < Len(st) /\ product[t] = st[asked[t] + 1]
  <2>1. asked[t] \in Nat /\ asked[t] < Len(states) /\ product[t] = states[asked[t] + 1]
    BY <1>2 DEF Holds, Labels
  <2>2. asked[t] + 1 \in 1..Len(states) /\ Len(states) <= Len(st)
    BY <2>1, <1>1 DEF Grows
  <2> QED
    BY <2>1, <2>2, <1>1 DEF Grows
<1>3. \A s \in DOMAIN sides[1] : s \in DOMAIN sd[1] /\ sd[1][s] = sides[1][s]
  BY DEF Grows
<1>4. \A s \in DOMAIN sides[2] : s \in DOMAIN sd[2] /\ sd[2][s] = sides[2][s]
  BY DEF Grows
<1> QED
  BY <1>2, <1>3, <1>4 DEF Holds
-----------------------------------------------------------------------------
(* A step that leaves registry and operand caches alone, or grows them.    *)

(* The steps of other threads do not touch what a thread holds.            *)
LEMMA OthersHold ==
    ASSUME IInv, NEW t \in Threads, RegistryInv', Grows(states', sides'),
           NEW label \in Labels, pc' = [pc EXCEPT ![t] = label],
           \A u \in Threads \ {t} :
               asked'[u] = asked[u] /\ product'[u] = product[u] /\ got'[u] = got[u],
           asked' = [u \in Threads |-> asked'[u]],
           product' = [u \in Threads |-> product'[u]],
           got' = [u \in Threads |-> got'[u]],
           Holds(t, states, sides)'
    PROVE  ThreadInv'
<1>1. \A u \in Threads \ {t} : pc'[u] = pc[u]
  BY DEF IInv, ThreadInv
<1>2. pc' = [u \in Threads |-> pc'[u]]
  BY DEF IInv, ThreadInv
<1>3. Len(states') \in Nat
  BY DEF RegistryInv
<1>4. ASSUME NEW u \in Threads, u # t PROVE Holds(u, states, sides)'
  <2>1. Holds(u, states, sides)
    BY DEF IInv, ThreadInv
  <2>2. Holds(u, states', sides')
    BY <1>3, <2>1, HoldsStays DEF IInv
  <2> QED
    BY <1>1, <1>4, <2>2 DEF Holds
<1> QED
  BY <1>1, <1>2, <1>4 DEF ThreadInv

(* Unchanged registry and operand caches.                                  *)
LEMMA NoGrowth ==
    ASSUME RegistryInv, UNCHANGED <<ids, states, sides>>
    PROVE  RegistryInv' /\ Grows(states', sides')
<1>1. Len(states) \in Nat
  BY DEF RegistryInv
<1> QED
  BY <1>1 DEF RegistryInv, RegistryIsExact, Grows

(* Cached entries and answers stay right when only the rest grows.         *)
LEMMA CacheStays ==
    ASSUME IInv, RegistryInv', Grows(states', sides'), UNCHANGED cache
    PROVE  CacheInv'
<1>1. Len(states') \in Nat
  BY DEF RegistryInv
<1>2. ASSUME NEW id \in DOMAIN cache
      PROVE  Settled(id, states', sides') /\ BothValid(id, states', sides')
  <2>1. Settled(id, states, sides) /\ BothValid(id, states, sides)
    BY DEF IInv, CacheInv
  <2> QED
    BY <1>1, <2>1, SettledStays DEF IInv
<1> QED
  BY <1>2 DEF CacheInv

LEMMA AnswersStay ==
    ASSUME IInv, RegistryInv', Grows(states', sides'), NEW a \in answered,
           \A id \in DOMAIN cache : id \in DOMAIN cache' /\ cache'[id] = cache[id]
    PROVE  /\ Settled(a[1], states', sides')
           /\ IF BothValid(a[1], states', sides')
              THEN a[1] \in DOMAIN cache' /\ a[2] = cache'[a[1]]
              ELSE a[2] = Invalid
<1>1. Len(states') \in Nat
  BY DEF RegistryInv
<1>2. /\ Settled(a[1], states, sides)
      /\ IF BothValid(a[1], states, sides) THEN a[1] \in DOMAIN cache /\ a[2] = cache[a[1]]
                                           ELSE a[2] = Invalid
  BY DEF IInv, AnswerInv
<1>3. /\ Settled(a[1], states', sides')
      /\ BothValid(a[1], states', sides') <=> BothValid(a[1], states, sides)
  BY <1>1, <1>2, SettledStays DEF IInv
<1> QED
  BY <1>2, <1>3
LEMMA Quiet ==
    ASSUME IInv, RegistryInv', Grows(states', sides'), UNCHANGED <<cache, answered>>
    PROVE  CacheInv' /\ AnswerInv'
<1>1. CacheInv'
  BY CacheStays
<1>2. AnswerInv'
  BY AnswersStay DEF AnswerInv
<1> QED
  BY <1>1, <1>2

(* A call that returns holds nothing any more.                             *)
LEMMA Returning ==
    ASSUME IInv, NEW t \in Threads, Return(t), RegistryInv', Grows(states', sides')
    PROVE  ThreadInv'
<1>1. pc' = [pc EXCEPT ![t] = "idle"] /\ "idle" \in Labels
  BY DEF Return, Goto, Labels
<1>2. /\ asked' = [u \in Threads |-> asked'[u]] /\ product' = [u \in Threads |-> product'[u]]
      /\ got' = [u \in Threads |-> got'[u]]
      /\ \A u \in Threads \ {t} :
            asked'[u] = asked[u] /\ product'[u] = product[u] /\ got'[u] = got[u]
  BY DEF Return, IInv, ThreadInv
<1>3. pc'[t] = "idle" /\ got'[t] = << >>
  BY DEF Return, Goto, IInv, ThreadInv
<1>4. Holds(t, states, sides)'
  <2>1. Len(got'[t]) = 0 /\ got'[t] \in Seq({})
    BY <1>3
  <2> QED
    BY <1>3, <2>1 DEF Holds, Labels, Combining
<1> QED
  BY <1>1, <1>2, <1>4, OthersHold

-----------------------------------------------------------------------------
(* The steps                                                               *)

LEMMA InitHolds == Init => IInv
<1> SUFFICES ASSUME Init PROVE IInv
  OBVIOUS
<1>1. RegistryInv
  <2>1. Len(states) = 1 /\ DOMAIN states = {1} /\ states \in Seq({states[1]})
    BY DEF Init
  <2>2. DOMAIN sides = 1..2
    BY DEF Init
  <2>3. RegistryIsExact
    BY <2>1 DEF Init, RegistryIsExact
  <2> QED
    BY ONLY <2>1, <2>2, <2>3 DEF RegistryInv
<1>2. CacheInv /\ AnswerInv
  <2>1. DOMAIN cache = {} /\ answered = {}
    BY DEF Init
  <2> QED
    BY <2>1 DEF CacheInv, AnswerInv
<1>3. ThreadInv
  <2>1. ASSUME NEW t \in Threads PROVE Holds(t, states, sides)
    <3>1. pc[t] = "idle" /\ got[t] = << >> /\ got[t] \in Seq({}) /\ Len(got[t]) = 0
      BY DEF Init
    <3> QED
      BY <3>1 DEF Holds, Labels, Combining
  <2> QED
    BY <2>1 DEF Init, ThreadInv
<1> QED
  BY <1>1, <1>2, <1>3 DEF IInv

LEMMA CacheHitStep ==
    ASSUME IInv, NEW t \in Threads, NEW id \in 0..Len(states), CacheHit(t, id)
    PROVE  IInv'
<1>1. RegistryInv' /\ Grows(states', sides')
  BY NoGrowth DEF IInv, CacheHit, registry
<1>2. ThreadInv'
  BY <1>1, Returning DEF CacheHit, Answer
<1>3. CacheInv'
  BY <1>1, CacheStays DEF CacheHit
<1>4. AnswerInv'
  <2>1. ASSUME NEW a \in answered'
        PROVE  /\ Settled(a[1], states', sides')
               /\ IF BothValid(a[1], states', sides')
                  THEN a[1] \in DOMAIN cache' /\ a[2] = cache'[a[1]]
                  ELSE a[2] = Invalid
    <3>1. CASE a \in answered
      BY <3>1, <1>1, AnswersStay DEF CacheHit
    <3>2. CASE a = <<id, cache[id]>>
      <4>1. id \in DOMAIN cache' /\ cache' = cache
        BY DEF CacheHit
      <4> QED
        BY <3>2, <4>1, <1>3 DEF CacheInv
    <3> QED
      BY <3>1, <3>2 DEF CacheHit, Answer
  <2> QED
    BY <2>1 DEF AnswerInv
<1> QED
  BY <1>1, <1>2, <1>3, <1>4 DEF IInv

(* A thread that moves on without registering, adopting or answering.      *)
LEMMA LocalStep ==
    ASSUME IInv, NEW t \in Threads, NEW label \in Labels, Goto(t, label),
           UNCHANGED <<ids, states, sides, cache, answered>>,
           \/ /\ UNCHANGED <<product, got>>
              /\ \E id : asked' = [asked EXCEPT ![t] = id]
           \/ /\ UNCHANGED <<asked, got>>
              /\ \E q : product' = [product EXCEPT ![t] = q]
           \/ /\ UNCHANGED <<asked, product>>
              /\ \E g : got' = [got EXCEPT ![t] = g]
           \/ UNCHANGED <<asked, product, got>>,
           Holds(t, states, sides)'
    PROVE  IInv'
<1>1. RegistryInv' /\ Grows(states', sides')
  BY NoGrowth DEF IInv
<1>2. /\ asked' = [u \in Threads |-> asked'[u]] /\ product' = [u \in Threads |-> product'[u]]
      /\ got' = [u \in Threads |-> got'[u]]
      /\ \A u \in Threads \ {t} :
            asked'[u] = asked[u] /\ product'[u] = product[u] /\ got'[u] = got[u]
  BY DEF IInv, ThreadInv
<1>3. ThreadInv'
  BY <1>1, <1>2, OthersHold DEF Goto
<1> QED
  BY <1>1, <1>3, Quiet DEF IInv
LEMMA CacheMissStep ==
    ASSUME IInv, NEW t \in Threads, NEW id \in 0..Len(states), CacheMiss(t, id)
    PROVE  IInv'
<1>1. Len(states) \in Nat /\ id \in Nat
  BY DEF IInv, RegistryInv
<1>2. pc'[t] = "locate" /\ asked'[t] = id /\ got'[t] = got[t] /\ Len(got[t]) = 0
      /\ \E S : got[t] \in Seq(S)
  BY DEF CacheMiss, At, Goto, IInv, ThreadInv, Holds
<1>3. Holds(t, states, sides)'
  BY <1>1, <1>2 DEF Holds, Labels, Combining
<1> QED
  BY <1>3, LocalStep DEF CacheMiss, Goto, Labels, registry

LEMMA LocateStep ==
    ASSUME IInv, NEW t \in Threads, Locate(t)
    PROVE  IInv'
<1>1. /\ Holds(t, states, sides) /\ pc[t] = "locate" /\ asked[t] < Len(states)
      /\ pc'[t] = "operand" /\ product'[t] = states[asked[t] + 1]
  BY DEF Locate, At, Goto, IInv, ThreadInv
<1>2. Len(got[t]) = 0 /\ asked[t] \in Nat /\ \E S : got[t] \in Seq(S)
  BY <1>1 DEF Holds
<1>3. Holds(t, states, sides)'
  BY <1>1, <1>2 DEF Holds, Locate, registry, Labels, Combining
<1> QED
  BY <1>3, LocalStep DEF Locate, Goto, Labels, registry

(* A call that gives up without an answer.                                 *)
LEMMA FailStep ==
    ASSUME IInv, NEW t \in Threads, Fail(t), UNCHANGED <<registry, cache, sides>>
    PROVE  IInv'
<1>1. RegistryInv' /\ Grows(states', sides')
  BY NoGrowth DEF IInv, registry
<1>2. ThreadInv'
  BY <1>1, Returning DEF Fail
<1> QED
  BY <1>1, <1>2, Quiet DEF IInv, Fail

(* The operand's data that a thread takes is the cached one.               *)
LEMMA Taken ==
    ASSUME IInv, NEW t \in Threads, NEW data, Take(t, data),
           pc[t] \in {"operand", "adopt"},
           UNCHANGED <<states, asked, product>>, RegistryInv', Grows(states', sides'),
           Wanted(t) \in DOMAIN sides'[Side(t)], data = sides'[Side(t)][Wanted(t)]
    PROVE  ThreadInv'
<1>1. Holds(t, states, sides) /\ Holds(t, states', sides')
  <2>1. Holds(t, states, sides)
    BY DEF IInv, ThreadInv
  <2>2. Len(states') \in Nat
    BY DEF RegistryInv
  <2> QED
    BY <2>1, <2>2, HoldsStays DEF IInv
<1>2. PICK S : got[t] \in Seq(S)
  BY <1>1 DEF Holds
<1>3. got'[t] = Append(got[t], data) /\ pc'[t] = (IF Side(t) = 1 THEN "operand" ELSE "combine")
  BY DEF Take, Goto, IInv, ThreadInv
<1>4. Len(got[t]) \in {0, 1} /\ Side(t) = Len(got[t]) + 1
  <2>1. Len(got[t]) < 2
    BY <1>1 DEF Holds
  <2>2. Len(got[t]) \in Nat
    BY ONLY <1>2, LengthIsNat
  <2>3. \A n \in Nat : n < 2 => n \in {0, 1}
    OBVIOUS
  <2>4. Side(t) = Len(got[t]) + 1
    BY DEF Side
  <2> QED
    BY ONLY <2>1, <2>2, <2>3, <2>4, Zenon
<1>5. /\ \E T : got'[t] \in Seq(T)
      /\ Len(got'[t]) = Side(t)
      /\ got'[t][Side(t)] = data
      /\ Side(t) = 2 => got'[t][1] = got[t][1]
  <2>1. /\ \E T : Append(got[t], data) \in Seq(T)
        /\ Len(Append(got[t], data)) = Len(got[t]) + 1
        /\ \A k \in 1..Len(got[t]) : Append(got[t], data)[k] = got[t][k]
        /\ Append(got[t], data)[Len(got[t]) + 1] = data
    BY ONLY <1>2, Appended
  <2>2. Side(t) = 2 => 1 \in 1..Len(got[t])
    BY <1>4
  <2> QED
    BY <2>1, <2>2, <1>3, <1>4
<1>6. asked'[t] \in Nat /\ asked'[t] < Len(states') /\ product'[t] = states'[asked'[t] + 1]
  <2>1. pc[t] # "idle" /\ pc[t] \notin {"idle", "locate"}
    OBVIOUS
  <2>2. asked[t] \in Nat
    BY <1>1, <2>1 DEF Holds
  <2>3. asked[t] < Len(states) /\ product[t] = states[asked[t] + 1]
    BY <1>1, <2>1 DEF Holds
  <2> QED
    BY <2>2, <2>3
<1>7. Holds(t, states, sides)'
  <2>1. CASE Side(t) = 1
    <3>1. product'[t].left \in DOMAIN sides'[1] /\ got'[t][1] = sides'[1][product'[t].left]
      BY <2>1, <1>5 DEF Wanted
    <3>2. pc'[t] = "operand" /\ Len(got'[t]) = 1
      BY <2>1, <1>3, <1>5
    <3> QED
      BY <3>1, <3>2, <1>5, <1>6 DEF Holds, Labels, Combining
  <2>2. CASE Side(t) = 2
    <3>1. product[t].left \in DOMAIN sides'[1] /\ got[t][1] = sides'[1][product[t].left]
      BY <2>2, <1>1, <1>4 DEF Holds
    <3>2. product[t].right \in DOMAIN sides'[2] /\ data = sides'[2][product[t].right]
      BY <2>2 DEF Wanted
    <3> QED
      <4>1. got'[t][1] = got[t][1] /\ got'[t][2] = data /\ Len(got'[t]) = 2
        BY <2>2, <1>5
      <4>2. pc'[t] = "combine" /\ product'[t] = product[t]
        BY <2>2, <1>3
      <4>3. /\ product'[t].left \in DOMAIN sides'[1] /\ got'[t][1] = sides'[1][product'[t].left]
            /\ product'[t].right \in DOMAIN sides'[2] /\ got'[t][2] = sides'[2][product'[t].right]
        BY <4>1, <4>2, <3>1, <3>2
      <4> QED
        BY ONLY <4>1, <4>2, <4>3, <1>5, <1>6 DEF Holds, Labels, Combining
  <2>3. Side(t) = 1 \/ Side(t) = 2
    <3>1. \A n \in {0, 1} : n + 1 = 1 \/ n + 1 = 2
      OBVIOUS
    <3> QED
      BY ONLY <3>1, <1>4, Zenon
  <2> QED
    BY ONLY <2>1, <2>2, <2>3, Zenon
<1>8. got' = [u \in Threads |-> got'[u]] /\ \A u \in Threads \ {t} : got'[u] = got[u]
  BY DEF Take, IInv, ThreadInv
<1>9. \E label \in Labels : pc' = [pc EXCEPT ![t] = label]
  BY DEF Take, Goto, Labels
<1> QED
  BY <1>7, <1>8, <1>9, OthersHold DEF IInv, ThreadInv

LEMMA OperandHitStep ==
    ASSUME IInv, NEW t \in Threads, OperandHit(t)
    PROVE  IInv'
<1>1. RegistryInv' /\ Grows(states', sides')
  BY NoGrowth DEF IInv, OperandHit, registry
<1>2. ThreadInv'
  BY <1>1, Taken DEF OperandHit, At, registry
<1> QED
  BY <1>1, <1>2, Quiet DEF IInv, OperandHit

LEMMA OperandMissStep ==
    ASSUME IInv, NEW t \in Threads, OperandMiss(t)
    PROVE  IInv'
<1>1. Holds(t, states, sides) /\ pc[t] = "operand" /\ pc'[t] = "expand"
  BY DEF OperandMiss, At, Goto, IInv, ThreadInv
<1>2. Holds(t, states, sides)'
  BY <1>1 DEF Holds, OperandMiss, registry, job, Labels, Combining
<1> QED
  BY <1>2, LocalStep DEF OperandMiss, Goto, Labels, registry, job

LEMMA ExpandStep ==
    ASSUME IInv, NEW t \in Threads, Expand(t)
    PROVE  IInv'
<1>1. Holds(t, states, sides) /\ pc[t] = "expand" /\ pc'[t] = "adopt"
  BY DEF Expand, At, Goto, IInv, ThreadInv
<1>2. Holds(t, states, sides)'
  BY <1>1 DEF Holds, Expand, registry, Labels, Combining
<1> QED
  BY <1>2, LocalStep DEF Expand, Goto, Labels, registry
(* Adopting only adds to one operand's cache.                              *)
LEMMA AdoptGrows ==
    ASSUME IInv, NEW t \in Threads, Adopt(t)
    PROVE  /\ RegistryInv' /\ Grows(states', sides')
           /\ Side(t) \in 1..2 /\ Wanted(t) \in DOMAIN sides'[Side(t)]
<1>1. Side(t) \in 1..2
  <2>1. Holds(t, states, sides) /\ pc[t] = "adopt"
    BY DEF Adopt, At, IInv, ThreadInv
  <2>2. Len(got[t]) < 2 /\ \E S : got[t] \in Seq(S)
    BY <2>1 DEF Holds
  <2>3. Len(got[t]) \in Nat
    BY ONLY <2>2, LengthIsNat
  <2>4. \A n \in Nat : n < 2 => n + 1 \in 1..2
    OBVIOUS
  <2> QED
    BY ONLY <2>2, <2>3, <2>4, Zenon DEF Side
<1> DEFINE k == Side(t)
           w == Wanted(t)
<1>2. /\ DOMAIN sides = 1..2 /\ DOMAIN sides' = 1..2
      /\ sides'[k] = Adopted(sides[k], w, fresh[t])
      /\ \A j \in 1..2 : j # k => sides'[j] = sides[j]
  BY <1>1 DEF Adopt, IInv, RegistryInv
<1>3. /\ DOMAIN sides'[k] = DOMAIN sides[k] \cup {w}
      /\ \A x \in DOMAIN sides[k] : sides'[k][x] = sides[k][x]
  <2> HIDE DEF k, w
  <2>1. /\ DOMAIN Adopted(sides[k], w, fresh[t]) = DOMAIN sides[k] \cup {w}
        /\ \A x \in DOMAIN sides[k] : Adopted(sides[k], w, fresh[t])[x] = sides[k][x]
    BY DEF Adopted, With
  <2>2. sides'[k] = Adopted(sides[k], w, fresh[t])
    BY <1>2
  <2> QED
    BY ONLY <2>1, <2>2
<1>4. Len(states) \in Nat
  BY DEF IInv, RegistryInv
<1>5. \A j \in 1..2 : \A s \in DOMAIN sides[j] : s \in DOMAIN sides'[j] /\ sides'[j][s] = sides[j][s]
  BY <1>2, <1>3
<1>6. RegistryInv' /\ Grows(states', sides')
  <2>1. UNCHANGED <<ids, states>>
    BY DEF Adopt, registry
  <2>2. RegistryInv'
    BY <1>2, <2>1 DEF IInv, RegistryInv, RegistryIsExact
  <2> QED
    BY <1>4, <1>5, <2>1, <2>2 DEF Grows
<1> QED
  BY <1>1, <1>3, <1>6

LEMMA AdoptStep ==
    ASSUME IInv, NEW t \in Threads, Adopt(t)
    PROVE  IInv'
<1>1. RegistryInv' /\ Grows(states', sides') /\ Wanted(t) \in DOMAIN sides'[Side(t)]
  BY AdoptGrows
<1>2. ThreadInv'
  <2>1. Take(t, sides'[Side(t)][Wanted(t)]) /\ pc[t] \in {"operand", "adopt"}
    BY DEF Adopt, At
  <2>2. UNCHANGED <<states, asked, product>>
    BY DEF Adopt, registry
  <2> QED
    BY <1>1, <2>1, <2>2, Taken
<1> QED
  BY <1>1, <1>2, Quiet DEF IInv, Adopt

(* What a thread that combines holds, in terms of the id it was asked for. *)
LEMMA HeldIsSettled ==
    ASSUME IInv, NEW t \in Threads, pc[t] \in Combining
    PROVE  /\ Settled(asked[t], states, sides)
           /\ LeftOf(t) = sides[1][Left(asked[t], states)]
           /\ RightOf(t) = sides[2][Right(asked[t], states)]
<1>1. Holds(t, states, sides) /\ Len(got[t]) = 2
  BY DEF IInv, ThreadInv, Holds
<1>2. pc[t] # "idle" /\ pc[t] \notin {"idle", "locate"}
  BY DEF Combining
<1>3. asked[t] \in Nat /\ asked[t] < Len(states) /\ product[t] = states[asked[t] + 1]
  BY <1>1, <1>2 DEF Holds
<1>4. product[t].left \in DOMAIN sides[1] /\ got[t][1] = sides[1][product[t].left]
  BY <1>1 DEF Holds
<1>5. product[t].right \in DOMAIN sides[2] /\ got[t][2] = sides[2][product[t].right]
  BY <1>1 DEF Holds
<1> QED
  BY <1>3, <1>4, <1>5 DEF Settled, LeftOf, RightOf, Left, Right

LEMMA RejectStep ==
    ASSUME IInv, NEW t \in Threads, Reject(t)
    PROVE  IInv'
<1>1. RegistryInv' /\ Grows(states', sides')
  BY NoGrowth DEF IInv, Reject, registry
<1>2. ThreadInv'
  BY <1>1, Returning DEF Reject, Answer
<1>3. CacheInv'
  BY <1>1, CacheStays DEF Reject
<1>4. AnswerInv'
  <2>1. ASSUME NEW a \in answered'
        PROVE  /\ Settled(a[1], states', sides')
               /\ IF BothValid(a[1], states', sides')
                  THEN a[1] \in DOMAIN cache' /\ a[2] = cache'[a[1]]
                  ELSE a[2] = Invalid
    <3>1. CASE a \in answered
      BY <3>1, <1>1, AnswersStay DEF Reject
    <3>2. CASE a = <<asked[t], Invalid>>
      <4>1. Settled(asked[t], states, sides) /\ ~BothValid(asked[t], states, sides)
        BY HeldIsSettled DEF Reject, At, Combining, BothValid
      <4> QED
        BY <3>2, <4>1 DEF Reject, registry
    <3> QED
      BY <3>1, <3>2 DEF Reject, Answer
  <2> QED
    BY <2>1 DEF AnswerInv
<1> QED
  BY <1>1, <1>2, <1>3, <1>4 DEF IInv

LEMMA LockStep ==
    ASSUME IInv, NEW t \in Threads, Lock(t)
    PROVE  IInv'
<1>1. /\ Holds(t, states, sides) /\ pc[t] = "combine" /\ pc'[t] = "intern"
      /\ got[t][1].valid /\ got[t][2].valid
  BY DEF Lock, At, Goto, IInv, ThreadInv, LeftOf, RightOf
<1>2. Holds(t, states, sides)'
  BY <1>1 DEF Holds, Lock, Labels, Combining
<1> QED
  BY <1>2, LocalStep DEF Lock, Goto, Labels

LEMMA InternStep ==
    ASSUME IInv, NEW t \in Threads, Intern(t)
    PROVE  IInv'
<1> DEFINE p == TargetOf(t, Current(t))
<1>1. Register(p) /\ UNCHANGED <<cache, sides, pc, asked, product, got, answered>>
  BY DEF Intern
<1> HIDE DEF p
<1>2. /\ \E S : states' \in Seq(S)
      /\ RegistryIsExact'
      /\ Len(states) <= Len(states')
      /\ \A k \in 1..Len(states) : states'[k] = states[k]
  BY <1>1, Registers DEF IInv
<1>3. RegistryInv' /\ Grows(states', sides')
  BY <1>1, <1>2 DEF IInv, RegistryInv, Grows
<1>4. ThreadInv'
  <2>1. Len(states') \in Nat
    BY <1>3 DEF RegistryInv
  <2>2. ASSUME NEW u \in Threads PROVE Holds(u, states, sides)'
    <3>1. Holds(u, states', sides')
      BY <1>3, <2>1, HoldsStays DEF IInv, ThreadInv
    <3> QED
      BY <1>1, <3>1 DEF Holds
  <2> QED
    BY <1>1, <2>2 DEF IInv, ThreadInv
<1> QED
  BY <1>1, <1>3, <1>4, Quiet DEF IInv

LEMMA InternFailsStep ==
    ASSUME IInv, NEW t \in Threads, InternFails(t)
    PROVE  IInv'
<1> DEFINE p == TargetOf(t, Current(t))
<1>1. Register(p) /\ Fail(t) /\ UNCHANGED <<cache, sides>>
  BY DEF InternFails
<1> HIDE DEF p
<1>2. /\ \E S : states' \in Seq(S)
      /\ RegistryIsExact'
      /\ Len(states) <= Len(states')
      /\ \A k \in 1..Len(states) : states'[k] = states[k]
  BY <1>1, Registers DEF IInv
<1>3. RegistryInv' /\ Grows(states', sides')
  BY <1>1, <1>2 DEF IInv, RegistryInv, Grows
<1>4. ThreadInv'
  BY <1>1, <1>3, Returning DEF Fail
<1> QED
  BY <1>1, <1>3, <1>4, Quiet DEF IInv, Fail

LEMMA UnlockStep ==
    ASSUME IInv, NEW t \in Threads, Unlock(t)
    PROVE  IInv'
<1>1. Holds(t, states, sides) /\ pc[t] = "intern" /\ pc'[t] = "publish"
  BY DEF Unlock, At, Goto, IInv, ThreadInv
<1>2. Holds(t, states, sides)'
  BY <1>1 DEF Holds, Unlock, job, Labels, Combining
<1> QED
  BY <1>2, LocalStep DEF Unlock, Goto, Labels, job

LEMMA PublishStep ==
    ASSUME IInv, NEW t \in Threads, Publish(t)
    PROVE  IInv'
<1> DEFINE id == asked[t]
<1>1. RegistryInv' /\ Grows(states', sides')
  BY NoGrowth DEF IInv, Publish, registry
<1>2. ThreadInv'
  BY <1>1, Returning DEF Publish, Answer
<1>3. /\ DOMAIN cache' = DOMAIN cache \cup {id}
      /\ \A x \in DOMAIN cache : cache'[x] = cache[x]
  <2>1. cache' = Adopted(cache, id, Built(t))
    BY DEF Publish
  <2>2. /\ DOMAIN Adopted(cache, id, Built(t)) = DOMAIN cache \cup {id}
        /\ \A x \in DOMAIN cache : Adopted(cache, id, Built(t))[x] = cache[x]
    BY DEF Adopted, With
  <2> QED
    BY ONLY <2>1, <2>2
<1>4. Settled(id, states, sides) /\ BothValid(id, states, sides)
  <2>1. got[t][1].valid /\ got[t][2].valid
    BY DEF Publish, At, IInv, ThreadInv, Holds
  <2> QED
    BY <2>1, HeldIsSettled DEF Publish, At, Combining, BothValid, LeftOf, RightOf
<1>5. UNCHANGED <<states, sides>>
  BY DEF Publish, registry
<1>6. CacheInv'
  BY <1>3, <1>4, <1>5 DEF IInv, CacheInv
<1>7. AnswerInv'
  <2>1. ASSUME NEW a \in answered'
        PROVE  /\ Settled(a[1], states', sides')
               /\ IF BothValid(a[1], states', sides')
                  THEN a[1] \in DOMAIN cache' /\ a[2] = cache'[a[1]]
                  ELSE a[2] = Invalid
    <3>1. CASE a \in answered
      BY <3>1, <1>1, <1>3, AnswersStay
    <3>2. CASE a = <<id, cache'[id]>>
      BY <3>2, <1>3, <1>4, <1>5
    <3> QED
      BY <3>1, <3>2 DEF Publish, Answer
  <2> QED
    BY <2>1 DEF AnswerInv
<1> QED
  BY <1>1, <1>2, <1>6, <1>7 DEF IInv

LEMMA NextHolds == IInv /\ [Next]_vars => IInv'
<1> SUFFICES ASSUME IInv, [Next]_vars PROVE IInv'
  OBVIOUS
<1>1. CASE UNCHANGED vars
  <2>1. UNCHANGED <<ids, states, sides, cache, pc, asked, product, got, answered>>
    BY <1>1 DEF vars, registry, job
  <2>2. RegistryInv' /\ Grows(states', sides')
    BY <2>1, NoGrowth DEF IInv
  <2>3. ThreadInv'
    BY <2>1 DEF IInv, ThreadInv, Holds
  <2> QED
    BY <2>1, <2>2, <2>3, Quiet DEF IInv
<1>2. ASSUME NEW t \in Threads, Ask(t) PROVE IInv'
  BY <1>2, CacheHitStep, CacheMissStep DEF Ask
<1>3. ASSUME NEW t \in Threads, Step(t) PROVE IInv'
  <2>1. CASE Locate(t)
    BY <2>1, LocateStep
  <2>2. CASE Unknown(t) \/ ExpandFails(t) \/ RejectFinal(t)
    BY <2>2, FailStep DEF Unknown, ExpandFails, RejectFinal
  <2>3. CASE OperandHit(t) \/ OperandMiss(t) \/ Expand(t) \/ Adopt(t)
    BY <2>3, OperandHitStep, OperandMissStep, ExpandStep, AdoptStep
  <2>4. CASE Reject(t) \/ Lock(t) \/ Unlock(t) \/ Publish(t)
    BY <2>4, RejectStep, LockStep, UnlockStep, PublishStep
  <2>5. CASE Intern(t) \/ InternFails(t)
    BY <2>5, InternStep, InternFailsStep
  <2> QED
    BY <1>3, <2>1, <2>2, <2>3, <2>4, <2>5 DEF Step
<1> QED
  BY <1>1, <1>2, <1>3 DEF Next

-----------------------------------------------------------------------------
(* The inductive invariant holds in every reachable state.                 *)
THEOREM CompositionInvariant == Spec => []IInv
BY InitHolds, NextHolds, PTL DEF Spec

(* Product states and ids stay in a dense one-to-one correspondence under  *)
(* concurrent register calls, failed ones included.                        *)
THEOREM IdsMeanOneProduct == Spec => []RegistryIsExact
<1>1. IInv => RegistryIsExact
  BY DEF IInv, RegistryInv
<1> QED
  BY <1>1, CompositionInvariant, PTL

(* state answers an id the same way every time, whatever the providers     *)
(* return to the threads that race for it.                                 *)
THEOREM AnswersNeverDiffer == Spec => []AnswersAgree
<1>1. IInv => AnswersAgree
  BY DEF IInv, AnswerInv, AnswersAgree
<1> QED
  BY <1>1, CompositionInvariant, PTL

-----------------------------------------------------------------------------
(* The composed states in the cache                                       *)

(* A set of numbers has a least one.                                       *)
LEMMA LeastNumber ==
    ASSUME NEW T, T \subseteq Nat, T # {}
    PROVE  \E m \in T : \A n \in T : m <= n
<1> DEFINE R == OpToRel(<, Nat)
<1>1. IsWellFoundedOn(R, Nat)
  BY NatLessThanWellFounded
<1>2. \A m, n \in Nat : <<n, m>> \in R <=> n < m
  BY DEF OpToRel
<1> HIDE DEF R
<1>3. PICK m \in T : \A n \in T : ~ (<<n, m>> \in R)
  BY <1>1, WFMin
<1>4. ASSUME NEW n \in T PROVE m <= n
  <2>1. m \in Nat /\ n \in Nat /\ ~(n < m)
    BY <1>2, <1>3
  <2> QED BY <2>1
<1> QED BY <1>3, <1>4

IsMoves(S) == \A m \in S : m = <<m[1], m[2]>> /\ m[1] \in Nat /\ m[2] \in Nat

(* The order of the loops has a first move to make, whatever is left.      *)
LEMMA FirstMove ==
    ASSUME NEW S, IsMoves(S), S # {}
    PROVE  \E m \in S : \A n \in S : Precedes(m, n)
<1>1. \A m \in S : Loop(m) \in Nat /\ m[1] \in Nat /\ m[2] \in Nat
  BY DEF Loop, IsMoves
<1> DEFINE loops == {Loop(m) : m \in S}
<1>2. PICK l \in loops : \A k \in loops : l <= k
  <2>1. loops \subseteq Nat /\ loops # {}
    BY <1>1
  <2> HIDE DEF loops
  <2> QED BY <2>1, LeastNumber
<1> DEFINE S1 == {m \in S : Loop(m) = l}
           firsts == {m[1] : m \in S1}
<1>3. PICK i \in firsts : \A k \in firsts : i <= k
  <2>1. firsts \subseteq Nat /\ firsts # {}
    BY <1>1, <1>2
  <2> HIDE DEF firsts
  <2> QED BY <2>1, LeastNumber
<1> DEFINE S2 == {m \in S1 : m[1] = i}
           seconds == {m[2] : m \in S2}
<1>4. PICK j \in seconds : \A k \in seconds : j <= k
  <2>1. seconds \subseteq Nat /\ seconds # {}
    BY <1>1, <1>3
  <2> HIDE DEF seconds
  <2> QED BY <2>1, LeastNumber
<1>5. PICK m \in S : Loop(m) = l /\ m[1] = i /\ m[2] = j
  BY <1>4
<1>6. ASSUME NEW n \in S PROVE Precedes(m, n)
  <2>1. l \in Nat /\ i \in Nat /\ j \in Nat /\ Loop(n) \in Nat /\ n[1] \in Nat /\ n[2] \in Nat
    BY <1>1, <1>5
  <2>2. l <= Loop(n)
    BY <1>2
  <2>3. Loop(n) = l => i <= n[1]
    BY <1>3
  <2>4. Loop(n) = l /\ n[1] = i => j <= n[2]
    BY <1>4
  <2>5. l < Loop(n) \/ Loop(n) = l
    BY <2>1, <2>2
  <2>6. CASE Loop(n) = l
    <3>1. i < n[1] \/ (i = n[1] /\ j <= n[2])
      BY <2>1, <2>3, <2>4, <2>6
    <3> QED BY <1>5, <2>6, <3>1 DEF Precedes
  <2> QED BY <1>5, <2>5, <2>6 DEF Precedes
<1> QED BY <1>6

(* What a move means: the arc it makes, with its target as a product.      *)
Meant(t, m) ==
    [in  |-> IF m[1] = 0 THEN Eps ELSE LeftOf(t).arcs[m[1]].in,
     out |-> IF m[2] = 0 THEN Eps ELSE RightOf(t).arcs[m[2]].out,
     to  |-> TargetOf(t, m)]

(* What an arc that was built says, read through the registry.             *)
Read(a, st) == [in |-> a.in, out |-> a.out, to |-> st[a.to + 1]]

HasArcs(d) == DOMAIN d.arcs = 1..Len(d.arcs)

LEMMA ArcNumbers ==
    ASSUME NEW d, HasArcs(d), NEW i \in DOMAIN d.arcs
    PROVE  i \in Nat /\ i # 0
  BY DEF HasArcs

(* The moves of a thread that combines, and what they mean together: the   *)
(* composition of the two states.                                          *)
LEMMA MovesAreMoves ==
    ASSUME NEW t, HasArcs(LeftOf(t)), HasArcs(RightOf(t))
    PROVE  IsMoves(Moves(t))
<1>1. \A i \in DOMAIN LeftOf(t).arcs : i \in Nat
  BY ArcNumbers
<1>2. \A j \in DOMAIN RightOf(t).arcs : j \in Nat
  BY ArcNumbers
<1> QED BY <1>1, <1>2 DEF IsMoves, Moves, LeftMoves, RightMoves, Matches

LEMMA MovesCompose ==
    ASSUME NEW t, HasArcs(LeftOf(t)), HasArcs(RightOf(t)), product[t].filter \in FilterStates
    PROVE  {Meant(t, m) : m \in Moves(t)} = Composed(product[t], LeftOf(t), RightOf(t))
<1> DEFINE p == product[t]
           L == LeftOf(t)
           R == RightOf(t)
           lefts == {L.arcs[i] : i \in DOMAIN L.arcs}
           rights == {R.arcs[j] : j \in DOMAIN R.arcs}
           byLeft(a) == [in |-> a.in, out |-> Eps,
                         to |-> [left |-> a.to, right |-> p.right, filter |-> "Eps1"]]
           byRight(b) == [in |-> Eps, out |-> b.out,
                          to |-> [left |-> p.left, right |-> b.to, filter |-> "Eps2"]]
           byBoth(a, b) == [in |-> a.in, out |-> b.out,
                            to |-> [left |-> a.to, right |-> b.to, filter |-> "None"]]
<1>1. \A i \in DOMAIN L.arcs : i \in Nat /\ i # 0
  BY ArcNumbers
<1>2. \A j \in DOMAIN R.arcs : j \in Nat /\ j # 0
  BY ArcNumbers
<1>3. \A i \in DOMAIN L.arcs : Meant(t, <<i, 0>>) = byLeft(L.arcs[i])
  BY <1>1 DEF Meant, TargetOf, Loop, AfterLeft
<1>4. \A j \in DOMAIN R.arcs : Meant(t, <<0, j>>) = byRight(R.arcs[j])
  BY <1>2 DEF Meant, TargetOf, Loop, AfterRight
<1>5. \A i \in DOMAIN L.arcs, j \in DOMAIN R.arcs :
         Meant(t, <<i, j>>) = byBoth(L.arcs[i], R.arcs[j])
  BY <1>1, <1>2 DEF Meant, TargetOf, Loop, AfterMatch
<1>6. \A m : m \in Moves(t) <=>
               \/ \E i \in DOMAIN L.arcs : /\ m = <<i, 0>> /\ L.arcs[i].out = Eps
                                           /\ p.filter # "Eps2"
               \/ \E j \in DOMAIN R.arcs : m = <<0, j>> /\ R.arcs[j].in = Eps
               \/ \E i \in DOMAIN L.arcs, j \in DOMAIN R.arcs :
                     m = <<i, j>> /\ L.arcs[i].out # Eps /\ R.arcs[j].in = L.arcs[i].out
  <2>1. \A m : m \in LeftMoves(t) <=> \E i \in DOMAIN L.arcs : m = <<i, 0>> /\ L.arcs[i].out = Eps
    BY DEF LeftMoves
  <2>2. \A m : m \in RightMoves(t) <=> \E j \in DOMAIN R.arcs : m = <<0, j>> /\ R.arcs[j].in = Eps
    BY DEF RightMoves
  <2>3. \A m : m \in Matches(t) <=>
                  \E i \in DOMAIN L.arcs, j \in DOMAIN R.arcs :
                     m = <<i, j>> /\ L.arcs[i].out # Eps /\ R.arcs[j].in = L.arcs[i].out
    BY DEF Matches
  <2>4. \A m : m \in Moves(t) <=> (m \in LeftMoves(t) /\ p.filter # "Eps2")
                                  \/ m \in RightMoves(t) \/ m \in Matches(t)
    BY DEF Moves, MayMoveLeft, MayMoveRight, MayMatch
  <2> QED BY <2>1, <2>2, <2>3, <2>4
<1>7. \A x : x \in Composed(p, L, R) <=>
               \/ \E a \in lefts : x = byLeft(a) /\ a.out = Eps /\ p.filter # "Eps2"
               \/ \E b \in rights : x = byRight(b) /\ b.in = Eps
               \/ \E a \in lefts, b \in rights : x = byBoth(a, b) /\ a.out = b.in /\ a.out # Eps
  <2> DEFINE S1 == {byLeft(a) : a \in {x \in lefts : x.out = Eps /\ p.filter # "Eps2"}}
             S2 == {byRight(b) : b \in {x \in rights : x.in = Eps}}
             pairs == {m \in lefts \X rights : m[1].out = m[2].in /\ m[1].out # Eps}
             S3 == {byBoth(m[1], m[2]) : m \in pairs}
  <2>1. Composed(p, L, R) = S1 \cup S2 \cup S3
    BY DEF Composed
  <2> HIDE DEF byLeft, byRight, byBoth, lefts, rights
  <2>2. \A x : x \in S1 <=> \E a \in lefts : x = byLeft(a) /\ a.out = Eps /\ p.filter # "Eps2"
    OBVIOUS
  <2>3. \A x : x \in S2 <=> \E b \in rights : x = byRight(b) /\ b.in = Eps
    OBVIOUS
  <2>4. \A x : x \in S3 <=> \E a \in lefts, b \in rights : x = byBoth(a, b) /\ a.out = b.in /\ a.out # Eps
    <3>1. \A a \in lefts, b \in rights : <<a, b>> \in pairs <=> a.out = b.in /\ a.out # Eps
      OBVIOUS
    <3>2. \A m \in pairs : m[1] \in lefts /\ m[2] \in rights /\ m[1].out = m[2].in /\ m[1].out # Eps
      OBVIOUS
    <3>3. \A a, b : <<a, b>>[1] = a /\ <<a, b>>[2] = b
      OBVIOUS
    <3>4. \A x : x \in S3 <=> \E m \in pairs : x = byBoth(m[1], m[2])
      OBVIOUS
    <3> HIDE DEF pairs, S3
    <3>5. ASSUME NEW x, x \in S3
          PROVE  \E a \in lefts, b \in rights : x = byBoth(a, b) /\ a.out = b.in /\ a.out # Eps
      BY <3>2, <3>4, <3>5
    <3>6. ASSUME NEW a \in lefts, NEW b \in rights, a.out = b.in, a.out # Eps
          PROVE  byBoth(a, b) \in S3
      <4>1. <<a, b>> \in pairs
        BY <3>1, <3>6
      <4> QED BY <3>3, <3>4, <4>1
    <3> QED BY <3>5, <3>6
  <2> QED BY <2>1, <2>2, <2>3, <2>4
<1> HIDE DEF byLeft, byRight, byBoth, p, L, R
<1>8. ASSUME NEW m \in Moves(t) PROVE Meant(t, m) \in Composed(p, L, R)
  <2>1. CASE \E i \in DOMAIN L.arcs : m = <<i, 0>> /\ L.arcs[i].out = Eps /\ p.filter # "Eps2"
    BY <1>3, <1>7, <2>1
  <2>2. CASE \E j \in DOMAIN R.arcs : m = <<0, j>> /\ R.arcs[j].in = Eps
    BY <1>4, <1>7, <2>2
  <2>3. CASE \E i \in DOMAIN L.arcs, j \in DOMAIN R.arcs :
                m = <<i, j>> /\ L.arcs[i].out # Eps /\ R.arcs[j].in = L.arcs[i].out
    BY <1>5, <1>7, <2>3
  <2> QED BY <1>6, <2>1, <2>2, <2>3
<1>9. ASSUME NEW x \in Composed(p, L, R) PROVE \E m \in Moves(t) : Meant(t, m) = x
  <2>1. CASE \E a \in lefts : x = byLeft(a) /\ a.out = Eps /\ p.filter # "Eps2"
    <3>1. PICK i \in DOMAIN L.arcs : x = byLeft(L.arcs[i]) /\ L.arcs[i].out = Eps /\ p.filter # "Eps2"
      BY <2>1
    <3>2. <<i, 0>> \in Moves(t)
      BY <1>6, <3>1
    <3> QED BY <1>3, <3>1, <3>2
  <2>2. CASE \E b \in rights : x = byRight(b) /\ b.in = Eps
    <3>1. PICK j \in DOMAIN R.arcs : x = byRight(R.arcs[j]) /\ R.arcs[j].in = Eps
      BY <2>2
    <3>2. <<0, j>> \in Moves(t)
      BY <1>6, <3>1
    <3> QED BY <1>4, <3>1, <3>2
  <2>3. CASE \E a \in lefts, b \in rights : x = byBoth(a, b) /\ a.out = b.in /\ a.out # Eps
    <3>1. PICK i \in DOMAIN L.arcs, j \in DOMAIN R.arcs :
             x = byBoth(L.arcs[i], R.arcs[j]) /\ L.arcs[i].out = R.arcs[j].in /\ L.arcs[i].out # Eps
      BY <2>3
    <3>2. <<i, j>> \in Moves(t)
      BY <1>6, <3>1
    <3> QED BY <1>5, <3>1, <3>2
  <2> QED BY <1>7, <2>1, <2>2, <2>3
<1> QED BY <1>8, <1>9 DEF p, L, R

-----------------------------------------------------------------------------
(* The invariant of what is built.                                         *)

(* Only well-formed data is taken from a provider.                         *)
DataInv ==
    /\ operands \in Operands
    /\ fresh = [t \in Threads |-> fresh[t]]
    /\ \A k \in 1..2 : \A s \in DOMAIN sides[k] : HasArcs(sides[k][s])
    /\ \A t \in Threads : pc[t] = "adopt" => HasArcs(fresh[t])

FilterInv == \A k \in 1..Len(states) : states[k].filter \in FilterStates

(* The arcs a thread has built are those of the moves it has made.         *)
Accounted(t, st) ==
    /\ \E S : arcs[t] \in Seq(S)
    /\ todo[t] \subseteq Moves(t)
    /\ \A i \in 1..Len(arcs[t]) :
          /\ arcs[t][i].to \in Nat /\ arcs[t][i].to < Len(st)
          /\ \E m \in Moves(t) \ todo[t] : Read(arcs[t][i], st) = Meant(t, m)
    /\ \A m \in Moves(t) \ todo[t] :
          \E i \in 1..Len(arcs[t]) : Read(arcs[t][i], st) = Meant(t, m)

Works(t, st) ==
    /\ pc[t] \notin {"intern", "publish"} => arcs[t] = << >>
    /\ pc[t] \in {"intern", "publish"} => Accounted(t, st)
    /\ pc[t] = "publish" => todo[t] = {}

WorkInv ==
    /\ arcs = [t \in Threads |-> arcs[t]] /\ todo = [t \in Threads |-> todo[t]]
    /\ \A t \in Threads : Works(t, states)

(* A cached state is the composition of the data behind its product.       *)
Composes(id, data, st, sd) ==
    /\ \A i \in DOMAIN data.arcs : data.arcs[i].to \in Nat /\ data.arcs[i].to < Len(st)
    /\ data.final <=> (sd[1][Left(id, st)].final /\ sd[2][Right(id, st)].final)
    /\ {Read(data.arcs[i], st) : i \in DOMAIN data.arcs} =
          Composed(st[id + 1], sd[1][Left(id, st)], sd[2][Right(id, st)])

ComposesInv == \A id \in DOMAIN cache : Composes(id, cache[id], states, sides)

FullInv == IInv /\ DataInv /\ FilterInv /\ WorkInv /\ ComposesInv

-----------------------------------------------------------------------------
(* Growth of the registry changes neither.                                 *)
LEMMA ReadStays ==
    ASSUME RegistryInv, NEW st, NEW sd, Grows(st, sd), NEW a, a.to \in Nat, a.to < Len(states)
    PROVE  Read(a, st) = Read(a, states)
<1>1. a.to + 1 \in 1..Len(states)
  BY LengthIsNat DEF RegistryInv
<1> QED BY <1>1 DEF Read, Grows

LEMMA ComposesStays ==
    ASSUME RegistryInv, NEW st, NEW sd, Grows(st, sd), Len(st) \in Nat, NEW id, NEW data,
           Settled(id, states, sides), Composes(id, data, states, sides)
    PROVE  Composes(id, data, st, sd)
<1>1. Len(states) \in Nat
  BY LengthIsNat DEF RegistryInv
<1>2. id + 1 \in 1..Len(states)
  BY <1>1 DEF Settled
<1>3. st[id + 1] = states[id + 1]
  BY <1>2 DEF Grows
<1>4. Left(id, st) = Left(id, states) /\ Right(id, st) = Right(id, states)
  BY <1>3 DEF Left, Right
<1>5. /\ sd[1][Left(id, st)] = sides[1][Left(id, states)]
      /\ sd[2][Right(id, st)] = sides[2][Right(id, states)]
  BY <1>4 DEF Settled, Grows
<1>6. \A i \in DOMAIN data.arcs : data.arcs[i].to \in Nat /\ data.arcs[i].to < Len(states)
  BY DEF Composes
<1>7. \A i \in DOMAIN data.arcs : Read(data.arcs[i], st) = Read(data.arcs[i], states)
  BY <1>6, ReadStays
<1>8. Len(states) <= Len(st)
  BY DEF Grows
<1>9. {Read(data.arcs[i], st) : i \in DOMAIN data.arcs} = {Read(data.arcs[i], states) : i \in DOMAIN data.arcs}
  BY <1>7
<1>10. \A i \in DOMAIN data.arcs : data.arcs[i].to < Len(st)
  BY <1>1, <1>6, <1>8
<1> QED BY <1>3, <1>5, <1>6, <1>9, <1>10 DEF Composes

LEMMA SameMeaning ==
    ASSUME NEW t, product'[t] = product[t], got'[t] = got[t]
    PROVE  Moves(t)' = Moves(t) /\ \A m : Meant(t, m)' = Meant(t, m)
<1>1. LeftOf(t)' = LeftOf(t) /\ RightOf(t)' = RightOf(t)
  BY DEF LeftOf, RightOf
<1>2. Moves(t)' = Moves(t)
  BY <1>1 DEF Moves, LeftMoves, RightMoves, Matches
<1>3. \A m : Meant(t, m)' = Meant(t, m)
  BY <1>1 DEF Meant, TargetOf
<1> QED BY <1>2, <1>3

LEMMA WorksStays ==
    ASSUME RegistryInv, RegistryInv', Grows(states', sides'), NEW t, Works(t, states),
           pc'[t] = pc[t], product'[t] = product[t], got'[t] = got[t],
           todo'[t] = todo[t], arcs'[t] = arcs[t]
    PROVE  Works(t, states)'
<1>1. CASE pc[t] \notin {"intern", "publish"}
  BY <1>1 DEF Works
<1>2. CASE pc[t] \in {"intern", "publish"}
  <2>1. Accounted(t, states)
    BY <1>2 DEF Works
  <2>2. Moves(t)' = Moves(t) /\ \A m : Meant(t, m)' = Meant(t, m)
    BY SameMeaning
  <2>3. Len(states) \in Nat /\ Len(states') \in Nat /\ Len(states) <= Len(states')
    BY LengthIsNat DEF RegistryInv, Grows
  <2>4. \A i \in 1..Len(arcs[t]) : arcs[t][i].to \in Nat /\ arcs[t][i].to < Len(states)
    BY <2>1 DEF Accounted
  <2>5. \A i \in 1..Len(arcs[t]) : Read(arcs[t][i], states') = Read(arcs[t][i], states)
    BY <2>4, ReadStays
  <2>6. \A i \in 1..Len(arcs[t]) : arcs[t][i].to < Len(states')
    BY <2>3, <2>4
  <2>7. Accounted(t, states)'
    BY <2>1, <2>2, <2>4, <2>5, <2>6 DEF Accounted
  <2> QED BY <1>2, <2>7 DEF Works
<1> QED BY <1>1, <1>2

LEMMA SideInRange ==
    ASSUME IInv, NEW t \in Threads, pc[t] \in {"operand", "expand", "adopt"}
    PROVE  Side(t) \in 1..2
<1>1. Len(got[t]) < 2 /\ \E S : got[t] \in Seq(S)
  BY DEF IInv, ThreadInv, Holds
<1>2. Len(got[t]) \in Nat
  BY ONLY <1>1, LengthIsNat
<1>3. \A n \in Nat : n < 2 => n + 1 \in 1..2
  OBVIOUS
<1> QED
  BY ONLY <1>1, <1>2, <1>3, Zenon DEF Side

LEMMA RegisterGrows ==
    ASSUME IInv, NEW p, Register(p), UNCHANGED sides
    PROVE  Grows(states', sides')
<1>1. Len(states) <= Len(states') /\ \A k \in 1..Len(states) : states'[k] = states[k]
  BY Registers DEF IInv
<1> QED
  BY <1>1 DEF Grows

(* Every step grows the registry and the operands' caches, if anything.    *)
LEMMA StepGrows ==
    ASSUME IInv, NEW t \in Threads, Ask(t) \/ Step(t)
    PROVE  Grows(states', sides')
<1>1. CASE UNCHANGED <<ids, states, sides>>
  BY <1>1, NoGrowth DEF IInv
<1>2. CASE Adopt(t)
  BY <1>2, AdoptGrows
<1>3. CASE Intern(t) \/ InternFails(t)
  <2> DEFINE p == TargetOf(t, Current(t))
  <2>1. Register(p) /\ UNCHANGED sides
    BY <1>3 DEF Intern, InternFails
  <2> HIDE DEF p
  <2> QED
    BY <2>1, RegisterGrows
<1>4. CASE Ask(t) \/ Reject(t) \/ RejectFinal(t) \/ Publish(t) \/ Unknown(t) \/ ExpandFails(t)
  BY <1>1, <1>4 DEF Ask, CacheHit, CacheMiss, Reject, RejectFinal, Publish, Unknown, ExpandFails, registry
<1>5. CASE Locate(t) \/ OperandHit(t) \/ OperandMiss(t) \/ Expand(t) \/ Lock(t) \/ Unlock(t)
  BY <1>1, <1>5 DEF Locate, OperandHit, OperandMiss, Expand, Lock, Unlock, registry
<1> QED
  BY <1>2, <1>3, <1>4, <1>5 DEF Step

-----------------------------------------------------------------------------
(* Only filter states are registered.                                      *)
LEMMA TargetFilter ==
    ASSUME NEW t, NEW m, Loop(m) \in 1..3
    PROVE  TargetOf(t, m).filter \in FilterStates
  BY DEF TargetOf, FilterStates, AfterLeft, AfterRight, AfterMatch

LEMMA RegisterFilter ==
    ASSUME IInv, FilterInv, NEW p, p.filter \in FilterStates, Register(p)
    PROVE  FilterInv'
<1>1. \E S : states \in Seq(S)
  BY DEF IInv, RegistryInv
<1>2. CASE UNCHANGED states
  BY <1>2 DEF FilterInv
<1>3. CASE states' = Append(states, p)
  <2>1. /\ Len(Append(states, p)) = Len(states) + 1
        /\ \A k \in 1..Len(states) : Append(states, p)[k] = states[k]
        /\ Append(states, p)[Len(states) + 1] = p
    BY ONLY <1>1, Appended
  <2>2. Len(states) \in Nat
    BY ONLY <1>1, LengthIsNat
  <2>3. ASSUME NEW k \in 1..Len(states') PROVE states'[k].filter \in FilterStates
    <3>1. k \in 1..Len(states) \/ k = Len(states) + 1
      BY <1>3, <2>1, <2>2
    <3> QED
      BY <1>3, <2>1, <3>1 DEF FilterInv
  <2> QED
    BY <2>3 DEF FilterInv
<1> QED
  BY <1>2, <1>3 DEF Register

LEMMA LoopOf == \A m : Loop(m) \in 1..3
  BY DEF Loop

LEMMA FilterStep ==
    ASSUME FullInv, NEW t \in Threads, Ask(t) \/ Step(t)
    PROVE  FilterInv'
<1>1. CASE UNCHANGED states
  BY <1>1 DEF FullInv, FilterInv
<1>2. CASE Intern(t) \/ InternFails(t)
  <2> DEFINE p == TargetOf(t, Current(t))
  <2>1. Register(p)
    BY <1>2 DEF Intern, InternFails
  <2>2. p.filter \in FilterStates
    BY LoopOf, TargetFilter
  <2> HIDE DEF p
  <2> QED
    BY <2>1, <2>2, RegisterFilter DEF FullInv
<1>3. CASE Ask(t) \/ Reject(t) \/ RejectFinal(t) \/ Publish(t) \/ Unknown(t) \/ ExpandFails(t)
  BY <1>1, <1>3 DEF Ask, CacheHit, CacheMiss, Reject, RejectFinal, Publish, Unknown, ExpandFails, registry
<1>4. CASE Locate(t) \/ OperandHit(t) \/ OperandMiss(t) \/ Expand(t) \/ Adopt(t) \/ Lock(t) \/ Unlock(t)
  BY <1>1, <1>4 DEF Locate, OperandHit, OperandMiss, Expand, Adopt, Lock, Unlock, registry
<1> QED
  BY <1>2, <1>3, <1>4 DEF Step

-----------------------------------------------------------------------------
(* Only well-formed data reaches the operands' caches.                     *)
LEMMA SuppliedHasArcs ==
    ASSUME operands \in Operands, NEW k \in 1..2, NEW s, NEW d \in Supplied(k, s)
    PROVE  HasArcs(d)
<1>1. HasArcs(Invalid)
  BY DEF HasArcs, Invalid
<1>2. CASE s \in DOMAIN operands[k].data
  <2>1. d \in operands[k].data[s]
    BY <1>2 DEF Supplied
  <2> QED
    BY <1>2, <2>1, OperandsAssumption DEF HasArcs
<1>3. CASE s \notin DOMAIN operands[k].data
  BY <1>1, <1>3 DEF Supplied
<1> QED
  BY <1>2, <1>3

LEMMA AdoptedHasArcs ==
    ASSUME NEW f, NEW w, NEW d, HasArcs(d), \A s \in DOMAIN f : HasArcs(f[s])
    PROVE  \A s \in DOMAIN Adopted(f, w, d) : HasArcs(Adopted(f, w, d)[s])
<1>1. \A s \in DOMAIN With(f, w, d) : With(f, w, d)[s] = IF s = w THEN d ELSE f[s]
  BY DEF With
<1>2. DOMAIN With(f, w, d) = DOMAIN f \cup {w}
  BY DEF With
<1>3. ASSUME NEW s \in DOMAIN With(f, w, d) PROVE HasArcs(With(f, w, d)[s])
  <2>1. CASE s = w
    BY <1>1, <2>1
  <2>2. CASE s # w
    BY <1>1, <1>2, <2>2
  <2> QED
    BY <2>1, <2>2
<1> QED
  BY <1>3 DEF Adopted

LEMMA DataStep ==
    ASSUME FullInv, NEW t \in Threads, Ask(t) \/ Step(t)
    PROVE  DataInv'
<1> USE DEF FullInv
<1>1. pc = [u \in Threads |-> pc[u]]
  BY DEF IInv, ThreadInv
<1>2. ASSUME UNCHANGED <<operands, sides, fresh>>,
             NEW label, label # "adopt", pc' = pc \/ pc' = [pc EXCEPT ![t] = label]
      PROVE  DataInv'
  <2>1. \A u \in Threads : pc'[u] = "adopt" => pc[u] = "adopt"
    BY <1>1, <1>2
  <2> QED
    BY <1>2, <2>1 DEF DataInv
<1>3. ASSUME Return(t), UNCHANGED <<operands, sides>>
      PROVE  DataInv'
  <2>1. /\ fresh' = [u \in Threads |-> fresh'[u]]
        /\ \A u \in Threads \ {t} : fresh'[u] = fresh[u] /\ pc'[u] = pc[u]
        /\ pc'[t] = "idle"
    BY <1>1, <1>3 DEF Return, Goto, DataInv
  <2> QED
    BY <1>3, <2>1 DEF DataInv
<1>4. CASE Expand(t)
  <2>1. Side(t) \in 1..2
    BY <1>4, SideInRange DEF Expand, At
  <2>2. PICK d \in Supplied(Side(t), Wanted(t)) : fresh' = [fresh EXCEPT ![t] = d]
    BY <1>4 DEF Expand
  <2>3. HasArcs(d)
    BY <2>1, <2>2, SuppliedHasArcs DEF DataInv
  <2>4. /\ fresh' = [u \in Threads |-> fresh'[u]] /\ fresh'[t] = d
        /\ \A u \in Threads \ {t} : fresh'[u] = fresh[u] /\ pc'[u] = pc[u]
    BY <1>1, <1>4, <2>2 DEF Expand, Goto, DataInv
  <2> QED
    BY <1>4, <2>3, <2>4 DEF Expand, DataInv
<1>5. CASE Adopt(t)
  <2>1. Side(t) \in 1..2 /\ pc[t] = "adopt"
    BY <1>5, SideInRange DEF Adopt, At
  <2>2. /\ DOMAIN sides = 1..2
        /\ sides' = [sides EXCEPT ![Side(t)] = Adopted(@, Wanted(t), fresh[t])]
    BY <1>5 DEF Adopt, IInv, RegistryInv
  <2> DEFINE k == Side(t)
             w == Wanted(t)
  <2>3. /\ sides'[k] = Adopted(sides[k], w, fresh[t])
        /\ \A j \in 1..2 : j # k => sides'[j] = sides[j]
    BY <2>1, <2>2
  <2>4. HasArcs(fresh[t])
    BY <2>1 DEF DataInv
  <2> HIDE DEF k, w
  <2>5. \A s \in DOMAIN sides'[k] : HasArcs(sides'[k][s])
    BY <2>1, <2>3, <2>4, AdoptedHasArcs DEF DataInv, k
  <2>6. \A j \in 1..2 : \A s \in DOMAIN sides'[j] : HasArcs(sides'[j][s])
    BY <2>3, <2>5 DEF DataInv
  <2>7. /\ fresh' = [u \in Threads |-> fresh'[u]]
        /\ \A u \in Threads \ {t} : fresh'[u] = fresh[u] /\ pc'[u] = pc[u]
        /\ pc'[t] # "adopt"
    BY <1>1, <1>5 DEF Adopt, Take, Goto, DataInv
  <2>8. operands' = operands
    BY <1>5 DEF Adopt
  <2> QED
    BY <2>6, <2>7, <2>8 DEF DataInv
<1>6. CASE Ask(t)
  <2>1. PICK id : CacheHit(t, id) \/ CacheMiss(t, id)
    BY <1>6 DEF Ask
  <2>2. CASE CacheHit(t, id)
    BY <1>3, <2>2 DEF CacheHit, Answer
  <2>3. CASE CacheMiss(t, id)
    BY <1>2, <2>3 DEF CacheMiss, Goto
  <2> QED
    BY <2>1, <2>2, <2>3
<1>7. CASE Reject(t) \/ RejectFinal(t) \/ Publish(t) \/ Unknown(t) \/ ExpandFails(t) \/ InternFails(t)
  BY <1>3, <1>7 DEF Reject, RejectFinal, Publish, Unknown, ExpandFails, InternFails, Answer, Fail
<1>8. CASE Locate(t) \/ OperandHit(t) \/ Lock(t)
  BY <1>2, <1>8 DEF Locate, OperandHit, Lock, Take, Goto
<1>9. CASE Intern(t)
  <2>1. UNCHANGED <<operands, sides, fresh, pc>> /\ "idle" # "adopt"
    BY <1>9 DEF Intern
  <2> QED
    BY <1>2, <2>1
<1>10. CASE OperandMiss(t)
  BY <1>2, <1>10 DEF OperandMiss, Goto, job
<1>11. CASE Unlock(t)
  BY <1>2, <1>11 DEF Unlock, Goto, job
<1> QED
  BY <1>4, <1>5, <1>6, <1>7, <1>8, <1>9, <1>10, <1>11 DEF Step

(* The other threads' arcs keep their meaning.                             *)
LEMMA OthersWork ==
    ASSUME FullInv, IInv', Grows(states', sides'), NEW t \in Threads,
           arcs' = [u \in Threads |-> arcs'[u]], todo' = [u \in Threads |-> todo'[u]],
           \A u \in Threads \ {t} :
              /\ pc'[u] = pc[u] /\ product'[u] = product[u] /\ got'[u] = got[u]
              /\ todo'[u] = todo[u] /\ arcs'[u] = arcs[u],
           Works(t, states)'
    PROVE  WorkInv'
<1>1. ASSUME NEW u \in Threads, u # t PROVE Works(u, states)'
  <2>1. Works(u, states)
    BY DEF FullInv, WorkInv
  <2> QED
    BY <1>1, <2>1, WorksStays DEF FullInv, IInv
<1>2. \A u \in Threads : Works(u, states)'
  BY <1>1
<1> QED
  BY <1>2 DEF WorkInv

(* A call that returns has built nothing any more.                         *)
LEMMA ReturnWorks ==
    ASSUME FullInv, IInv', Grows(states', sides'), NEW t \in Threads, Return(t)
    PROVE  WorkInv'
<1>1. /\ pc = [u \in Threads |-> pc[u]] /\ product = [u \in Threads |-> product[u]]
      /\ got = [u \in Threads |-> got[u]]
      /\ arcs = [u \in Threads |-> arcs[u]] /\ todo = [u \in Threads |-> todo[u]]
  BY DEF FullInv, IInv, ThreadInv, WorkInv
<1>2. /\ arcs' = [u \in Threads |-> arcs'[u]] /\ todo' = [u \in Threads |-> todo'[u]]
      /\ arcs'[t] = << >> /\ pc'[t] = "idle"
  BY <1>1 DEF Return, Goto
<1>3. \A u \in Threads \ {t} :
              /\ pc'[u] = pc[u] /\ product'[u] = product[u] /\ got'[u] = got[u]
              /\ todo'[u] = todo[u] /\ arcs'[u] = arcs[u]
  BY <1>1 DEF Return, Goto
<1>4. Works(t, states)'
  BY <1>2 DEF Works
<1> QED
  BY <1>2, <1>3, <1>4, OthersWork

(* Before the interning loop nothing is built.                             *)
LEMMA EarlierWorks ==
    ASSUME FullInv, IInv', Grows(states', sides'), NEW t \in Threads,
           pc[t] \notin {"intern", "publish"}, pc'[t] \notin {"intern", "publish"},
           \A u \in Threads \ {t} : pc'[u] = pc[u] /\ product'[u] = product[u] /\ got'[u] = got[u],
           UNCHANGED <<todo, arcs>>
    PROVE  WorkInv'
<1>1. arcs = [u \in Threads |-> arcs[u]] /\ todo = [u \in Threads |-> todo[u]]
  BY DEF FullInv, WorkInv
<1>2. Works(t, states)
  BY DEF FullInv, WorkInv
<1>3. arcs[t] = << >>
  BY <1>2 DEF Works
<1>4. Works(t, states)'
  BY <1>3 DEF Works
<1> QED
  BY <1>1, <1>4, OthersWork

LEMMA LockWorks ==
    ASSUME FullInv, IInv', NEW t \in Threads, Lock(t)
    PROVE  WorkInv'
<1>1. Grows(states', sides')
  BY StepGrows DEF FullInv, Step
<1>2. /\ pc = [u \in Threads |-> pc[u]]
      /\ arcs = [u \in Threads |-> arcs[u]] /\ todo = [u \in Threads |-> todo[u]]
  BY DEF FullInv, IInv, ThreadInv, WorkInv
<1>3. Works(t, states) /\ pc[t] = "combine"
  BY DEF Lock, At, FullInv, WorkInv
<1>4. arcs[t] = << >>
  BY <1>3 DEF Works
<1>5. Moves(t)' = Moves(t)
  BY SameMeaning DEF Lock
<1>6. /\ pc'[t] = "intern" /\ arcs' = arcs /\ todo'[t] = Moves(t)
      /\ todo' = [u \in Threads |-> todo'[u]]
      /\ \A u \in Threads \ {t} : pc'[u] = pc[u] /\ todo'[u] = todo[u]
  BY <1>2 DEF Lock, Goto
<1>7. Accounted(t, states)'
  <2>1. arcs'[t] = << >>
    BY <1>4, <1>6
  <2>2. << >> \in Seq({}) /\ Len(<< >>) = 0
    OBVIOUS
  <2>3. (Moves(t) \ todo[t])' = {} /\ todo'[t] \subseteq Moves(t)'
    BY <1>5, <1>6
  <2> QED
    BY <2>1, <2>2, <2>3 DEF Accounted
<1>8. Works(t, states)'
  BY <1>6, <1>7 DEF Works
<1> QED
  BY <1>1, <1>2, <1>6, <1>8, OthersWork DEF Lock

LEMMA UnlockWorks ==
    ASSUME FullInv, IInv', NEW t \in Threads, Unlock(t)
    PROVE  WorkInv'
<1>1. Grows(states', sides')
  BY StepGrows DEF FullInv, Step
<1>2. /\ pc = [u \in Threads |-> pc[u]]
      /\ arcs = [u \in Threads |-> arcs[u]] /\ todo = [u \in Threads |-> todo[u]]
  BY DEF FullInv, IInv, ThreadInv, WorkInv
<1>3. /\ Works(t, states) /\ pc[t] = "intern" /\ todo[t] = {}
      /\ UNCHANGED <<states, product, got, todo, arcs>>
  BY DEF Unlock, At, job, FullInv, WorkInv
<1>4. pc'[t] = "publish" /\ \A u \in Threads \ {t} : pc'[u] = pc[u]
  BY <1>2 DEF Unlock, Goto
<1>5. Moves(t)' = Moves(t) /\ \A m : Meant(t, m)' = Meant(t, m)
  BY <1>3, SameMeaning
<1>6. Accounted(t, states)
  BY <1>3 DEF Works
<1>7. Accounted(t, states)'
  BY <1>3, <1>5, <1>6 DEF Accounted
<1>8. Works(t, states)'
  BY <1>3, <1>4, <1>7 DEF Works
<1> QED
  BY <1>1, <1>2, <1>3, <1>4, <1>8, OthersWork

-----------------------------------------------------------------------------
(* One turn of the interning loop.                                         *)

LEMMA HeldHasArcs ==
    ASSUME FullInv, NEW t \in Threads, pc[t] \in Combining
    PROVE  /\ HasArcs(LeftOf(t)) /\ HasArcs(RightOf(t))
           /\ product[t].filter \in FilterStates
<1>1. /\ Settled(asked[t], states, sides)
      /\ LeftOf(t) = sides[1][Left(asked[t], states)]
      /\ RightOf(t) = sides[2][Right(asked[t], states)]
  BY HeldIsSettled DEF FullInv
<1>2. HasArcs(LeftOf(t)) /\ HasArcs(RightOf(t))
  BY <1>1 DEF FullInv, DataInv, Settled
<1>3. asked[t] \in Nat /\ asked[t] < Len(states)
  BY <1>1 DEF Settled
<1>4. Holds(t, states, sides)
  BY DEF FullInv, IInv, ThreadInv
<1>5. product[t] = states[asked[t] + 1]
  BY <1>4 DEF Holds, Combining
<1>6. Len(states) \in Nat
  BY LengthIsNat DEF FullInv, IInv, RegistryInv
<1>7. asked[t] + 1 \in 1..Len(states)
  BY <1>3, <1>6
<1> QED
  BY <1>2, <1>5, <1>7 DEF FullInv, FilterInv

LEMMA CurrentIsMove ==
    ASSUME FullInv, NEW t \in Threads, At(t, "intern"), todo[t] # {}
    PROVE  Current(t) \in todo[t] /\ Current(t) \in Moves(t)
<1>1. Works(t, states) /\ pc[t] = "intern"
  BY DEF At, FullInv, WorkInv
<1>2. todo[t] \subseteq Moves(t)
  BY <1>1 DEF Works, Accounted
<1>3. IsMoves(Moves(t))
  BY <1>1, HeldHasArcs, MovesAreMoves DEF Combining
<1>4. IsMoves(todo[t])
  BY <1>2, <1>3 DEF IsMoves
<1>5. \E m \in todo[t] : \A n \in todo[t] : Precedes(m, n)
  BY <1>4, FirstMove
<1>6. Current(t) \in todo[t]
  BY <1>5 DEF Current
<1> QED
  BY <1>2, <1>6

(* The id that is put into the arc is the target's.                        *)
LEMMA RegisteredId ==
    ASSUME RegistryInv', NEW p, p \in DOMAIN ids'
    PROVE  ids'[p] \in Nat /\ ids'[p] < Len(states') /\ states'[ids'[p] + 1] = p
<1>1. PICK k \in DOMAIN states' : states'[k] = p
  BY DEF RegistryInv, RegistryIsExact
<1>2. DOMAIN states' = 1..Len(states') /\ Len(states') \in Nat
  BY DEF RegistryInv
<1>3. ids'[p] = k - 1
  BY <1>1 DEF RegistryInv, RegistryIsExact
<1>4. k - 1 \in Nat /\ k - 1 < Len(states') /\ (k - 1) + 1 = k
  BY <1>1, <1>2
<1> QED
  BY <1>1, <1>3, <1>4

LEMMA RegisteredIn ==
    ASSUME NEW p, Register(p)
    PROVE  p \in DOMAIN ids'
<1>1. p \in DOMAIN With(ids, p, Len(states))
  BY DEF With
<1> QED
  BY <1>1 DEF Register

LEMMA InternWorks ==
    ASSUME FullInv, IInv', NEW t \in Threads, Intern(t)
    PROVE  WorkInv'
<1> DEFINE m == Current(t)
           p == TargetOf(t, m)
           a == ArcOf(t, m, ids'[p])
<1>1. /\ pc[t] = "intern" /\ todo[t] # {} /\ Register(p)
      /\ arcs' = [arcs EXCEPT ![t] = Append(@, a)]
      /\ todo' = [todo EXCEPT ![t] = @ \ {m}]
      /\ UNCHANGED <<pc, product, got>>
  BY DEF Intern, At
<1>2. m \in todo[t] /\ m \in Moves(t)
  BY <1>1, CurrentIsMove DEF Intern
<1>3. ids'[p] \in Nat /\ ids'[p] < Len(states') /\ states'[ids'[p] + 1] = p
  <2> HIDE DEF p
  <2> QED
    BY <1>1, RegisteredIn, RegisteredId DEF IInv
<1>4. a.to = ids'[p] /\ Read(a, states') = Meant(t, m)
  <2>1. /\ a.to = ids'[p]
        /\ a.in = IF m[1] = 0 THEN Eps ELSE LeftOf(t).arcs[m[1]].in
        /\ a.out = IF m[2] = 0 THEN Eps ELSE RightOf(t).arcs[m[2]].out
    BY DEF ArcOf
  <2> HIDE DEF a, m
  <2> QED
    BY <1>3, <2>1 DEF Read, Meant
<1>5. Grows(states', sides')
  BY StepGrows DEF FullInv, Step
<1>6. arcs = [u \in Threads |-> arcs[u]] /\ todo = [u \in Threads |-> todo[u]]
  BY DEF FullInv, WorkInv
<1> HIDE DEF a, p, m
<1>7. arcs'[t] = Append(arcs[t], a) /\ todo'[t] = todo[t] \ {m}
  BY <1>1, <1>6
<1>8. Works(t, states)
  BY DEF FullInv, WorkInv
<1>9. Accounted(t, states)
  BY <1>1, <1>8 DEF Works
<1>10. Moves(t)' = Moves(t) /\ \A n : Meant(t, n)' = Meant(t, n)
  BY <1>1, SameMeaning
<1>11. /\ \E T : Append(arcs[t], a) \in Seq(T)
       /\ Len(Append(arcs[t], a)) = Len(arcs[t]) + 1
       /\ \A k \in 1..Len(arcs[t]) : Append(arcs[t], a)[k] = arcs[t][k]
       /\ Append(arcs[t], a)[Len(arcs[t]) + 1] = a
  BY <1>9, Appended DEF Accounted
<1>12. Len(arcs[t]) \in Nat
  BY <1>9, LengthIsNat DEF Accounted
<1>13. \A i \in 1..Len(arcs[t]) :
          /\ arcs[t][i].to \in Nat /\ arcs[t][i].to < Len(states)
          /\ Read(arcs[t][i], states') = Read(arcs[t][i], states)
  <2>1. \A i \in 1..Len(arcs[t]) : arcs[t][i].to \in Nat /\ arcs[t][i].to < Len(states)
    BY <1>9 DEF Accounted
  <2> QED
    BY <1>5, <2>1, ReadStays DEF FullInv, IInv
<1>14. Len(states) \in Nat /\ Len(states') \in Nat /\ Len(states) <= Len(states')
  BY <1>5, LengthIsNat DEF FullInv, IInv, RegistryInv, Grows
<1>15. ASSUME NEW i \in 1..Len(arcs'[t])
       PROVE  /\ arcs'[t][i].to \in Nat /\ arcs'[t][i].to < Len(states')
              /\ \E n \in Moves(t) \ todo'[t] : Read(arcs'[t][i], states') = Meant(t, n)
  <2>1. i \in 1..Len(arcs[t]) \/ i = Len(arcs[t]) + 1
    BY <1>7, <1>11, <1>12
  <2>2. CASE i \in 1..Len(arcs[t])
    <3>1. arcs'[t][i] = arcs[t][i]
      BY <1>7, <1>11, <2>2
    <3>2. PICK n \in Moves(t) \ todo[t] : Read(arcs[t][i], states) = Meant(t, n)
      BY <1>9, <2>2 DEF Accounted
    <3>3. n \in Moves(t) \ todo'[t]
      BY <1>7, <3>2
    <3>4. arcs[t][i].to \in Nat /\ arcs[t][i].to < Len(states')
      BY <1>13, <1>14, <2>2
    <3>5. Read(arcs[t][i], states') = Meant(t, n)
      BY <1>13, <2>2, <3>2
    <3> QED
      BY <3>1, <3>3, <3>4, <3>5
  <2>3. CASE i = Len(arcs[t]) + 1
    <3>1. arcs'[t][i] = a
      BY <1>7, <1>11, <2>3
    <3>2. m \in Moves(t) \ todo'[t]
      BY <1>2, <1>7
    <3> QED
      BY <1>3, <1>4, <3>1, <3>2
  <2> QED
    BY <2>1, <2>2, <2>3
<1>16. ASSUME NEW n \in Moves(t) \ todo'[t]
       PROVE  \E i \in 1..Len(arcs'[t]) : Read(arcs'[t][i], states') = Meant(t, n)
  <2>1. CASE n = m
    <3>1. Len(arcs[t]) + 1 \in 1..Len(arcs'[t]) /\ arcs'[t][Len(arcs[t]) + 1] = a
      BY <1>7, <1>11, <1>12
    <3> QED
      BY <1>4, <2>1, <3>1
  <2>2. CASE n # m
    <3>1. n \in Moves(t) \ todo[t]
      BY <1>7, <2>2
    <3>2. PICK i \in 1..Len(arcs[t]) : Read(arcs[t][i], states) = Meant(t, n)
      BY <1>9, <3>1 DEF Accounted
    <3>3. i \in 1..Len(arcs'[t]) /\ arcs'[t][i] = arcs[t][i]
      BY <1>7, <1>11, <1>12
    <3> QED
      BY <1>13, <3>2, <3>3
  <2> QED
    BY <2>1, <2>2
<1>17. \E S : arcs'[t] \in Seq(S)
  BY <1>7, <1>11
<1>18. todo'[t] \subseteq Moves(t)
  BY <1>7, <1>9 DEF Accounted
<1>19. Accounted(t, states)'
  BY <1>10, <1>15, <1>16, <1>17, <1>18 DEF Accounted
<1>20. Works(t, states)'
  BY <1>1, <1>19 DEF Works
<1>21. /\ arcs' = [u \in Threads |-> arcs'[u]] /\ todo' = [u \in Threads |-> todo'[u]]
       /\ \A u \in Threads \ {t} : todo'[u] = todo[u] /\ arcs'[u] = arcs[u]
  BY <1>1, <1>6
<1> QED
  BY <1>1, <1>5, <1>20, <1>21, OthersWork

LEMMA WorkStep ==
    ASSUME FullInv, IInv', NEW t \in Threads, Ask(t) \/ Step(t)
    PROVE  WorkInv'
<1>1. Grows(states', sides')
  BY StepGrows DEF FullInv
<1>2. /\ pc = [u \in Threads |-> pc[u]] /\ product = [u \in Threads |-> product[u]]
      /\ got = [u \in Threads |-> got[u]]
  BY DEF FullInv, IInv, ThreadInv
<1>3. CASE Ask(t)
  <2>1. PICK id : CacheHit(t, id) \/ CacheMiss(t, id)
    BY <1>3 DEF Ask
  <2>2. CASE CacheHit(t, id)
    BY <1>1, <2>2, ReturnWorks DEF CacheHit, Answer
  <2>3. CASE CacheMiss(t, id)
    <3>1. pc[t] = "idle" /\ pc'[t] = "locate" /\ \A u \in Threads \ {t} : pc'[u] = pc[u]
      BY <1>2, <2>3 DEF CacheMiss, At, Goto
    <3> QED
      BY <1>1, <2>3, <3>1, EarlierWorks DEF CacheMiss
  <2> QED
    BY <2>1, <2>2, <2>3
<1>4. CASE Reject(t) \/ RejectFinal(t) \/ Publish(t) \/ Unknown(t) \/ ExpandFails(t) \/ InternFails(t)
  <2>1. Return(t)
    BY <1>4 DEF Reject, RejectFinal, Publish, Unknown, ExpandFails, InternFails, Answer, Fail
  <2> QED
    BY <1>1, <2>1, ReturnWorks
<1>5. CASE Locate(t) \/ OperandMiss(t) \/ Expand(t)
  <2>1. /\ pc[t] \notin {"intern", "publish"} /\ pc'[t] \notin {"intern", "publish"}
        /\ \A u \in Threads \ {t} : pc'[u] = pc[u]
    BY <1>2, <1>5 DEF Locate, OperandMiss, Expand, At, Goto
  <2>2. /\ \A u \in Threads \ {t} : product'[u] = product[u] /\ got'[u] = got[u]
        /\ UNCHANGED <<todo, arcs>>
    BY <1>2, <1>5 DEF Locate, OperandMiss, Expand, job
  <2> QED
    BY <1>1, <2>1, <2>2, EarlierWorks
<1>6. CASE OperandHit(t) \/ Adopt(t)
  <2>1. PICK data : Take(t, data)
    BY <1>6 DEF OperandHit, Adopt
  <2>2. /\ pc[t] \notin {"intern", "publish"} /\ pc'[t] \notin {"intern", "publish"}
        /\ \A u \in Threads \ {t} : pc'[u] = pc[u] /\ got'[u] = got[u]
    BY <1>2, <1>6, <2>1 DEF OperandHit, Adopt, Take, At, Goto
  <2>3. UNCHANGED <<product, todo, arcs>>
    BY <1>6 DEF OperandHit, Adopt
  <2> QED
    BY <1>1, <2>2, <2>3, EarlierWorks
<1>7. CASE Lock(t)
  BY <1>7, LockWorks
<1>8. CASE Unlock(t)
  BY <1>8, UnlockWorks
<1>9. CASE Intern(t)
  BY <1>9, InternWorks
<1> QED
  BY <1>3, <1>4, <1>5, <1>6, <1>7, <1>8, <1>9 DEF Step

-----------------------------------------------------------------------------
(* What is published composes what it was computed from.                   *)
LEMMA BuiltComposes ==
    ASSUME FullInv, NEW t \in Threads, Publish(t)
    PROVE  Composes(asked[t], Built(t), states, sides)
<1>1. pc[t] = "publish" /\ Works(t, states)
  BY DEF Publish, At, FullInv, WorkInv
<1>2. Accounted(t, states) /\ todo[t] = {}
  BY <1>1 DEF Works
<1>3. PICK S : arcs[t] \in Seq(S)
  BY <1>2 DEF Accounted
<1>4. DOMAIN arcs[t] = 1..Len(arcs[t])
  BY <1>3
<1>5. /\ Settled(asked[t], states, sides)
      /\ LeftOf(t) = sides[1][Left(asked[t], states)]
      /\ RightOf(t) = sides[2][Right(asked[t], states)]
  BY <1>1, HeldIsSettled DEF FullInv, Combining
<1>6. HasArcs(LeftOf(t)) /\ HasArcs(RightOf(t)) /\ product[t].filter \in FilterStates
  BY <1>1, HeldHasArcs DEF Combining
<1>7. {Meant(t, m) : m \in Moves(t)} = Composed(product[t], LeftOf(t), RightOf(t))
  BY <1>6, MovesCompose
<1>8. /\ \A i \in DOMAIN arcs[t] : arcs[t][i].to \in Nat /\ arcs[t][i].to < Len(states)
      /\ \A i \in DOMAIN arcs[t] : \E m \in Moves(t) : Read(arcs[t][i], states) = Meant(t, m)
      /\ \A m \in Moves(t) : \E i \in DOMAIN arcs[t] : Read(arcs[t][i], states) = Meant(t, m)
  BY <1>2, <1>4 DEF Accounted
<1>9. {Read(arcs[t][i], states) : i \in DOMAIN arcs[t]} = {Meant(t, m) : m \in Moves(t)}
  BY <1>8
<1>10. product[t] = states[asked[t] + 1]
  BY <1>1 DEF FullInv, IInv, ThreadInv, Holds
<1>11. Built(t).arcs = arcs[t] /\ Built(t).final = (LeftOf(t).final /\ RightOf(t).final)
  BY DEF Built, Final
<1> HIDE DEF Built
<1>12. /\ \A i \in DOMAIN Built(t).arcs : /\ Built(t).arcs[i].to \in Nat
                                       /\ Built(t).arcs[i].to < Len(states)
       /\ {Read(Built(t).arcs[i], states) : i \in DOMAIN Built(t).arcs} =
             {Meant(t, m) : m \in Moves(t)}
  BY ONLY <1>8, <1>9, <1>11
<1>13. Built(t).final <=> /\ sides[1][Left(asked[t], states)].final
                          /\ sides[2][Right(asked[t], states)].final
  BY ONLY <1>5, <1>11
<1>14. {Meant(t, m) : m \in Moves(t)} =
          Composed(states[asked[t] + 1], sides[1][Left(asked[t], states)],
                   sides[2][Right(asked[t], states)])
  BY ONLY <1>5, <1>7, <1>10
<1> QED
  BY ONLY <1>12, <1>13, <1>14 DEF Composes

LEMMA ComposesStep ==
    ASSUME FullInv, IInv', NEW t \in Threads, Ask(t) \/ Step(t)
    PROVE  ComposesInv'
<1>1. Grows(states', sides')
  BY StepGrows DEF FullInv
<1>2. Len(states') \in Nat
  BY LengthIsNat DEF IInv, RegistryInv
<1>3. ASSUME NEW id, NEW data, Settled(id, states, sides), Composes(id, data, states, sides)
      PROVE  Composes(id, data, states', sides')
  BY <1>1, <1>2, <1>3, ComposesStays DEF FullInv, IInv
<1>4. \A id \in DOMAIN cache : Composes(id, cache[id], states', sides')
  BY <1>3 DEF FullInv, ComposesInv, IInv, CacheInv
<1>5. CASE Publish(t)
  <2> DEFINE data == Built(t)
  <2>1. cache' = Adopted(cache, asked[t], data)
    BY <1>5 DEF Publish
  <2>2. pc[t] \in Combining
    BY <1>5 DEF Publish, At, Combining
  <2>3. Composes(asked[t], data, states', sides')
    BY <1>3, <1>5, <2>2, BuiltComposes, HeldIsSettled DEF FullInv
  <2> HIDE DEF data
  <2>4. ASSUME NEW id \in DOMAIN cache' PROVE Composes(id, cache'[id], states', sides')
    <3>1. CASE id \in DOMAIN cache
      <4>1. cache'[id] = cache[id]
        BY <2>1, <3>1 DEF Adopted, With
      <4> QED
        BY <1>4, <3>1, <4>1
    <3>2. CASE id \notin DOMAIN cache
      <4>1. id = asked[t] /\ cache'[id] = data
        BY <2>1, <2>4, <3>2 DEF Adopted, With
      <4> QED
        BY <2>3, <4>1
    <3> QED
      BY <3>1, <3>2
  <2> QED
    BY <2>4 DEF ComposesInv
<1>6. CASE UNCHANGED cache
  BY <1>4, <1>6 DEF ComposesInv
<1>7. CASE Ask(t) \/ Reject(t) \/ RejectFinal(t) \/ Unknown(t) \/ ExpandFails(t) \/ InternFails(t)
  BY <1>6, <1>7 DEF Ask, CacheHit, CacheMiss, Reject, RejectFinal, Unknown, ExpandFails, InternFails
<1>8. CASE Locate(t) \/ OperandHit(t) \/ OperandMiss(t) \/ Expand(t) \/ Adopt(t) \/ Lock(t)
           \/ Intern(t) \/ Unlock(t)
  BY <1>6, <1>8 DEF Locate, OperandHit, OperandMiss, Expand, Adopt, Lock, Intern, Unlock
<1> QED
  BY <1>5, <1>7, <1>8 DEF Step

LEMMA FullInit == Init => FullInv
<1> SUFFICES ASSUME Init PROVE FullInv
  OBVIOUS
<1>1. DataInv
  BY DEF Init, DataInv
<1>2. FilterInv
  <2>1. Len(states) = 1 /\ states[1].filter = "None"
    BY DEF Init
  <2>2. \A k \in 1..1 : k = 1
    OBVIOUS
  <2> QED
    BY <2>1, <2>2 DEF FilterInv, FilterStates
<1>3. WorkInv
  BY DEF Init, WorkInv, Works
<1>4. ComposesInv
  <2>1. DOMAIN cache = {}
    BY DEF Init
  <2> QED
    BY <2>1 DEF ComposesInv
<1> QED
  BY <1>1, <1>2, <1>3, <1>4, InitHolds DEF FullInv

LEMMA FullNext == FullInv /\ [Next]_vars => FullInv'
<1> SUFFICES ASSUME FullInv, [Next]_vars PROVE FullInv'
  OBVIOUS
<1>1. IInv'
  BY NextHolds DEF FullInv
<1>2. CASE UNCHANGED vars
  <2>1. UNCHANGED <<operands, ids, states, cache, sides, pc, product, got, fresh, todo, arcs>>
    BY <1>2 DEF vars, registry, job
  <2>2. DataInv' /\ FilterInv' /\ ComposesInv'
    BY <2>1 DEF FullInv, DataInv, FilterInv, ComposesInv
  <2>3. ASSUME NEW t \in Threads PROVE Works(t, states)'
    <3>1. Grows(states', sides')
      BY <2>1, NoGrowth DEF FullInv, IInv
    <3>2. Works(t, states)
      BY DEF FullInv, WorkInv
    <3> QED
      BY <1>1, <2>1, <3>1, <3>2, WorksStays DEF FullInv, IInv
  <2>4. WorkInv'
    BY <2>1, <2>3 DEF FullInv, WorkInv
  <2> QED
    BY <1>1, <2>2, <2>4 DEF FullInv
<1>3. ASSUME NEW t \in Threads, Ask(t) \/ Step(t) PROVE FullInv'
  BY <1>1, <1>3, DataStep, FilterStep, WorkStep, ComposesStep DEF FullInv
<1> QED
  BY <1>2, <1>3 DEF Next

LEMMA ComposesMeans == FullInv => CacheComposes
<1> SUFFICES ASSUME FullInv, NEW id \in DOMAIN cache
             PROVE  LET p == states[id + 1]
                        left == sides[1][p.left]
                        right == sides[2][p.right]
                    IN  /\ \A i \in DOMAIN cache[id].arcs : cache[id].arcs[i].to < Len(states)
                        /\ cache[id].final <=> (left.final /\ right.final)
                        /\ Decoded(cache[id]) = Composed(p, left, right)
  BY DEF CacheComposes
<1> DEFINE data == cache[id]
<1>1. Composes(id, data, states, sides)
  BY DEF FullInv, ComposesInv
<1>2. Decoded(data) = {Read(data.arcs[i], states) : i \in DOMAIN data.arcs}
  BY DEF Decoded, Read
<1> QED
  BY <1>1, <1>2 DEF Composes, Left, Right

(* A cached state is, read through the registry, the composition of the    *)
(* data that the operands' caches hold for its product, its arcs being     *)
(* compared as a set: interning by others, failed attempts and lost races  *)
(* add no arc to it and take none away.                                    *)
THEOREM CacheIsComposition == Spec => []CacheComposes
BY FullInit, FullNext, ComposesMeans, PTL DEF Spec
=============================================================================
