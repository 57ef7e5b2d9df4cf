-------------------------- MODULE SerialGate_proofs --------------------------
(***************************************************************************)
(* Proofs about SerialGate, for any finite set of threads and any set of   *)
(* gates: mutual exclusion, no waiting while holding, and no lost wakeup.  *)
(***************************************************************************)
EXTENDS SerialGate, FiniteSetTheorems, SequenceTheorems, TLAPS

Elements(s) == {s[i] : i \in 1..Len(s)}
Distinct(s) == \A i, j \in 1..Len(s) : s[i] = s[j] => i = j

(* A thread is inside a gate at most once.                                 *)
StackInv == \A t \in Threads : Distinct(stack[t])

(* Contenders and new owners are outside every other callback.             *)
OutsideInv == \A t \in Threads : pc[t] \in Waiting \cup Admitted => stack[t] = << >>

(* The mutex is owned exactly where the code holds its guard.              *)
ParkingInv ==
    \A t \in Threads, g \in Gates :
        parking[g] = t <=> gate[t] = g /\ pc[t] \in Parking

(* The wait set is exactly the threads asleep at the gate.                 *)
SleepersInv ==
    \A t \in Threads, g \in Gates :
        t \in sleepers[g] <=> gate[t] = g /\ pc[t] = "asleep"

(* The counter counts exactly the announced contenders.                    *)
Contenders(g) == {t \in Threads : gate[t] = g /\ pc[t] \in Announced}
CountInv == \A g \in Gates : waiters[g] = Cardinality(Contenders(g))

(* Whenever somebody sleeps at the gate, it is held or a waker is on its   *)
(* way: the per-gate form of NoLostWakeup.                                 *)
Wakers(g) == {u \in Threads : /\ gate[u] = g
                              /\ pc[u] \in {"released", "lock", "notify", "park", "check"}}
Sleepy(g) == {u \in Threads : gate[u] = g /\ pc[u] \in {"sleep", "asleep"}}
WakeupInv == \A g \in Gates : Sleepy(g) # {} => active[g] \/ Wakers(g) # {}

GateInv ==
    /\ TypeOK
    /\ StackInv
    /\ OutsideInv
    /\ MutualExclusion
    /\ ParkingInv
    /\ SleepersInv
    /\ CountInv
    /\ WakeupInv

-----------------------------------------------------------------------------
(* Pushing a gate not inside keeps the stack distinct and adds just it.    *)
LEMMA PushFacts ==
    ASSUME NEW s \in Seq(Gates), Distinct(s), NEW g \in Gates, g \notin Elements(s)
    PROVE  /\ Append(s, g) \in Seq(Gates)
           /\ Distinct(Append(s, g))
           /\ Elements(Append(s, g)) = Elements(s) \cup {g}
           /\ Append(s, g) # << >>
PROOF
<1>1. Append(s, g) \in Seq(Gates) /\ Append(s, g) # << >>
  BY AppendProperties
<1>2. /\ Len(Append(s, g)) = Len(s) + 1 /\ Append(s, g)[Len(s) + 1] = g
      /\ \A i \in 1..Len(s) : Append(s, g)[i] = s[i]
  BY AppendProperties
<1>3. Distinct(Append(s, g))
  BY <1>2 DEF Distinct, Elements
<1>4. Elements(Append(s, g)) = Elements(s) \cup {g}
  BY <1>2 DEF Elements
<1> QED BY <1>1, <1>3, <1>4

(* Popping removes exactly the last gate.                                  *)
LEMMA PopFacts ==
    ASSUME NEW s \in Seq(Gates), Distinct(s), s # << >>
    PROVE  LET r == SubSeq(s, 1, Len(s) - 1) IN
           /\ r \in Seq(Gates)
           /\ Distinct(r)
           /\ s[Len(s)] \in Gates
           /\ s[Len(s)] \in Elements(s)
           /\ Elements(r) = Elements(s) \ {s[Len(s)]}
PROOF
<1> DEFINE r == SubSeq(s, 1, Len(s) - 1)
<1>1. Len(s) \in Nat /\ Len(s) > 0
  OBVIOUS
<1>2. r \in Seq(Gates) /\ Len(r) = Len(s) - 1 /\ \A i \in 1..Len(r) : r[i] = s[i]
  <2>1. PICK n \in Nat : Len(s) = n + 1
    BY <1>1
  <2>2. n = Len(s) - 1 /\ n - 1 + 1 = n /\ r = SubSeq(s, 1, n)
    BY <1>1, <2>1
  <2>3. \A i \in 1..n : s[i] \in Gates
    BY <2>1
  <2>4. /\ SubSeq(s, 1, n) \in Seq(Gates)
        /\ Len(SubSeq(s, 1, n)) = IF 1 <= n THEN n - 1 + 1 ELSE 0
        /\ \A i \in 1..(n - 1 + 1) : SubSeq(s, 1, n)[i] = s[1 + i - 1]
    BY <2>1, <2>3, SubSeqProperties
  <2> HIDE DEF r
  <2>5. r \in Seq(Gates) /\ Len(r) = n
    BY <2>1, <2>2, <2>4
  <2>6. \A i \in 1..n : r[i] = s[i]
    <3> SUFFICES ASSUME NEW i \in 1..n PROVE r[i] = s[i]
      OBVIOUS
    <3>1. 1 + i - 1 = i
      OBVIOUS
    <3> QED BY <2>2, <2>4, <3>1
  <2> QED BY <2>2, <2>5, <2>6
<1>3. s[Len(s)] \in Gates /\ s[Len(s)] \in Elements(s)
  BY <1>1 DEF Elements
<1>4. Distinct(r)
  BY <1>1, <1>2 DEF Distinct
<1>5. Elements(r) = Elements(s) \ {s[Len(s)]}
  BY <1>1, <1>2 DEF Elements, Distinct
<1> QED BY <1>2, <1>3, <1>4, <1>5

-----------------------------------------------------------------------------
(* Types.                                                                  *)

LEMMA TypeStep ==
    ASSUME GateInv, Next
    PROVE  TypeOK'
PROOF
<1> USE DEF TypeOK, Labels, At, Goto, GateInv
<1>1. PICK t \in Threads : Call(t) \/ Proceed(t) \/ SpuriousWakeup(t)
  BY DEF Next
<1>2. ASSUME NEW g \in Gates, Enter(t, g) PROVE TypeOK'
  <2>1. Append(stack[t], g) \in Seq(Gates)
    OBVIOUS
  <2> QED BY <1>2, <2>1 DEF Enter
<1>3. ASSUME NEW g \in Gates, Contend(t, g) PROVE TypeOK'
  BY <1>3, GateAssumption DEF Contend
<1>4. ASSUME NEW g \in Gates, Refuse(t, g) PROVE TypeOK'
  BY <1>4 DEF Refuse
<1>5. CASE Handle(t)
  BY <1>5 DEF Handle
<1>6. CASE Announce(t)
  <2>1. gate[t] \in Gates
    BY <1>6, GateAssumption DEF Announce
  <2> QED BY <1>6, <2>1 DEF Announce
<1>7. CASE Park(t)
  BY <1>7 DEF Park
<1>8. CASE FoundFree(t)
  BY <1>8 DEF FoundFree
<1>9. CASE FoundBusy(t)
  BY <1>9 DEF FoundBusy
<1>10. CASE Sleep(t)
  BY <1>10 DEF Sleep
<1>11. CASE SpuriousWakeup(t)
  BY <1>11 DEF SpuriousWakeup
<1>12. CASE Withdraw(t)
  <2>1. gate[t] \in Gates /\ t \in Contenders(gate[t])
    BY <1>12, GateAssumption DEF Withdraw, Contenders, Announced
  <2>2. waiters[gate[t]] # 0
    <3>1. IsFiniteSet(Contenders(gate[t]))
      BY ThreadAssumption, FS_Subset DEF Contenders
    <3>2. waiters[gate[t]] = Cardinality(Contenders(gate[t]))
      BY <2>1 DEF CountInv
    <3> QED BY <2>1, <3>1, <3>2, FS_EmptySet
  <2> QED BY <1>12, <2>1, <2>2 DEF Withdraw
<1>13. CASE Register(t)
  <2>1. gate[t] \in Gates
    BY <1>13, GateAssumption DEF Register
  <2>2. Append(stack[t], gate[t]) \in Seq(Gates)
    BY <2>1
  <2> QED BY <1>13, <2>1, <2>2 DEF Register
<1>14. CASE Leave(t)
  <2>1. stack[t] \in Seq(Gates) /\ stack[t] # << >> /\ Distinct(stack[t])
    BY <1>14 DEF Leave, Nested, StackInv
  <2>2. /\ SubSeq(stack[t], 1, Len(stack[t]) - 1) \in Seq(Gates)
        /\ stack[t][Len(stack[t])] \in Gates
    BY <2>1, PopFacts
  <2> QED BY <1>14, <2>2, GateAssumption DEF Leave
<1>15. CASE NobodyWaits(t)
  BY <1>15 DEF NobodyWaits
<1>16. CASE SomebodyWaits(t)
  BY <1>16 DEF SomebodyWaits
<1>17. CASE LockParking(t)
  BY <1>17 DEF LockParking
<1>18. CASE NotifyNobody(t)
  BY <1>18 DEF NotifyNobody
<1>19. ASSUME NEW u \in Threads, NotifyOne(t, u) PROVE TypeOK'
  <2>1. gate[t] \in Gates
    BY <1>19, GateAssumption DEF NotifyOne
  <2>2. gate[u] = gate[t] /\ pc[u] = "asleep" /\ u # t
    BY <1>19, <2>1 DEF NotifyOne, SleepersInv
  <2> QED BY <1>19, <2>1, <2>2, GateAssumption DEF NotifyOne
<1> QED
  BY <1>1, <1>2, <1>3, <1>4, <1>5, <1>6, <1>7, <1>8, <1>9, <1>10, <1>11, <1>12,
     <1>13, <1>14, <1>15, <1>16, <1>17, <1>18, <1>19 DEF Call, Proceed

-----------------------------------------------------------------------------
(* Executing a gate's code names the gate.                                 *)
LEMMA GateOf ==
    ASSUME TypeOK, NEW t \in Threads, pc[t] \notin {"customer", "refused"}
    PROVE  gate[t] \in Gates
PROOF
BY GateAssumption DEF TypeOK

(* Steps that neither enter nor leave a callback keep every stack.         *)
LEMMA StackKept ==
    ASSUME NEW t \in Threads, Call(t) \/ Proceed(t) \/ SpuriousWakeup(t),
           ~Register(t), ~Leave(t), \A g \in Gates : ~Enter(t, g)
    PROVE  stack' = stack
PROOF
BY DEF Call, Proceed, Contend, Refuse, Handle, Announce, Park, FoundFree, FoundBusy,
       Sleep, SpuriousWakeup, Withdraw, NobodyWaits, SomebodyWaits, LockParking,
       NotifyNobody, NotifyOne

LEMMA StackStep ==
    ASSUME GateInv, Next
    PROVE  StackInv' /\ OutsideInv'
PROOF
<1> USE DEF GateInv, At, Goto, Waiting, Admitted
<1>1. PICK t \in Threads : Call(t) \/ Proceed(t) \/ SpuriousWakeup(t)
  BY DEF Next
<1>2. ASSUME NEW g \in Gates, Enter(t, g) PROVE StackInv' /\ OutsideInv'
  <2>1. /\ stack[t] \in Seq(Gates) /\ Distinct(stack[t]) /\ g \notin Elements(stack[t])
        /\ stack' = [stack EXCEPT ![t] = Append(stack[t], g)]
    BY <1>2 DEF TypeOK, Enter, StackInv, Inside, Elements
  <2>2. Distinct(Append(stack[t], g))
    BY <2>1, PushFacts
  <2>3. StackInv'
    BY <2>1, <2>2 DEF StackInv, TypeOK
  <2>4. OutsideInv'
    BY <1>2 DEF OutsideInv, Enter, TypeOK
  <2> QED BY <2>3, <2>4
<1>3. CASE Register(t)
  <2>1. stack[t] = << >> /\ gate[t] \in Gates
    BY <1>3, GateOf DEF OutsideInv, Register
  <2>2. /\ stack[t] \in Seq(Gates) /\ Distinct(stack[t]) /\ gate[t] \notin Elements(stack[t])
        /\ stack' = [stack EXCEPT ![t] = Append(stack[t], gate[t])]
    BY <1>3, <2>1 DEF TypeOK, Register, StackInv, Elements
  <2>3. Distinct(Append(stack[t], gate[t]))
    BY <2>1, <2>2, PushFacts
  <2>4. StackInv'
    BY <2>2, <2>3 DEF StackInv, TypeOK
  <2>5. OutsideInv'
    BY <1>3 DEF OutsideInv, Register, TypeOK
  <2> QED BY <2>4, <2>5
<1>4. CASE Leave(t)
  <2>1. /\ stack[t] \in Seq(Gates) /\ stack[t] # << >> /\ Distinct(stack[t])
        /\ stack' = [stack EXCEPT ![t] = SubSeq(stack[t], 1, Len(stack[t]) - 1)]
    BY <1>4 DEF TypeOK, Leave, Nested, StackInv
  <2>2. Distinct(SubSeq(stack[t], 1, Len(stack[t]) - 1))
    BY <2>1, PopFacts
  <2>3. StackInv'
    BY <2>1, <2>2 DEF StackInv, TypeOK
  <2>4. OutsideInv'
    BY <1>4 DEF OutsideInv, Leave, TypeOK
  <2> QED BY <2>3, <2>4
<1>5. ASSUME ~Register(t), ~Leave(t), \A g \in Gates : ~Enter(t, g)
      PROVE  StackInv' /\ OutsideInv'
  <2>1. stack' = stack
    BY <1>1, <1>5, StackKept
  <2>2. StackInv'
    BY <2>1 DEF StackInv
  <2>3. \A v \in Threads : pc'[v] \in Waiting \cup Admitted =>
            \/ pc[v] \in Waiting \cup Admitted
            \/ \E g \in Gates : v = t /\ Contend(t, g)
    <3>1. ASSUME NEW u \in Threads, NotifyOne(t, u)
          PROVE  /\ pc[u] \in Waiting
                 /\ pc' = [pc EXCEPT ![t] = "customer", ![u] = "park"]
      BY <3>1, GateOf DEF NotifyOne, SleepersInv
    <3>2. ASSUME NEW u \in Threads, NotifyOne(t, u), NEW v \in Threads,
                 pc'[v] \in Waiting \cup Admitted
          PROVE  pc[v] \in Waiting \cup Admitted
      BY <3>1, <3>2 DEF TypeOK
    <3>3. ASSUME NEW g \in Gates, Contend(t, g), NEW v \in Threads, v # t
          PROVE  pc'[v] = pc[v]
      BY <3>3 DEF TypeOK, Contend
    <3>4. ASSUME NEW g \in Gates, Refuse(t, g), NEW v \in Threads,
                 pc'[v] \in Waiting \cup Admitted
          PROVE  pc[v] \in Waiting \cup Admitted
      BY <3>4 DEF TypeOK, Refuse
    <3>5. ASSUME \A u \in Threads : ~NotifyOne(t, u), Proceed(t) \/ SpuriousWakeup(t),
                 NEW v \in Threads, pc'[v] \in Waiting \cup Admitted
          PROVE  pc[v] \in Waiting \cup Admitted
      BY <1>5, <3>5
      DEF TypeOK, Proceed, Handle, Announce, Park, FoundFree, FoundBusy, Sleep,
          SpuriousWakeup, Withdraw, NobodyWaits, SomebodyWaits, LockParking, NotifyNobody
    <3> QED
      BY <1>1, <1>5, <3>2, <3>3, <3>4, <3>5 DEF Call
  <2>4. \A g \in Gates : Contend(t, g) => stack[t] = << >>
    BY DEF Contend, Refused, Nested
  <2>5. OutsideInv'
    BY <2>1, <2>3, <2>4 DEF OutsideInv
  <2> QED BY <2>2, <2>5
<1> QED BY <1>1, <1>2, <1>3, <1>4, <1>5

-----------------------------------------------------------------------------
(* Mutual exclusion: how a step changes who owns which gate.               *)

LEMMA OwnershipKept ==
    ASSUME MutualExclusion, TypeOK, active' = active,
           \A t \in Threads, g \in Gates : Owns(t, g)' <=> Owns(t, g)
    PROVE  MutualExclusion'
PROOF
BY DEF MutualExclusion

LEMMA OwnershipGained ==
    ASSUME MutualExclusion, TypeOK, NEW t \in Threads, NEW g \in Gates,
           ~active[g], active' = [active EXCEPT ![g] = TRUE],
           \A u \in Threads, h \in Gates :
               Owns(u, h)' <=> Owns(u, h) \/ (u = t /\ h = g)
    PROVE  MutualExclusion'
PROOF
<1>1. \A h \in Gates : active'[h] <=> active[h] \/ h = g
  BY DEF TypeOK
<1>2. \A u \in Threads : ~Owns(u, g)
  BY DEF MutualExclusion
<1>3. \A h \in Gates : active'[h] <=> \E u \in Threads : Owns(u, h)'
  BY <1>1 DEF MutualExclusion
<1>4. \A h \in Gates, u, v \in Threads : Owns(u, h)' /\ Owns(v, h)' => u = v
  BY <1>2 DEF MutualExclusion
<1> QED BY <1>3, <1>4 DEF MutualExclusion

LEMMA OwnershipLost ==
    ASSUME MutualExclusion, TypeOK, NEW t \in Threads, NEW g \in Gates,
           Owns(t, g), active' = [active EXCEPT ![g] = FALSE],
           \A u \in Threads, h \in Gates :
               Owns(u, h)' <=> Owns(u, h) /\ ~(u = t /\ h = g)
    PROVE  MutualExclusion'
PROOF
<1>1. \A h \in Gates : active'[h] <=> active[h] /\ h # g
  BY DEF TypeOK
<1>2. \A u \in Threads : Owns(u, g) => u = t
  BY DEF MutualExclusion
<1>3. \A h \in Gates : active'[h] <=> \E u \in Threads : Owns(u, h)'
  BY <1>1, <1>2 DEF MutualExclusion
<1>4. \A h \in Gates, u, v \in Threads : Owns(u, h)' /\ Owns(v, h)' => u = v
  BY DEF MutualExclusion
<1> QED BY <1>3, <1>4 DEF MutualExclusion

LEMMA ExclusionStep ==
    ASSUME GateInv, Next
    PROVE  MutualExclusion'
PROOF
<1> USE DEF GateInv, At, Goto
<1>1. PICK t \in Threads : Call(t) \/ Proceed(t) \/ SpuriousWakeup(t)
  BY DEF Next
<1>2. ASSUME NEW g \in Gates, Enter(t, g) PROVE MutualExclusion'
  <2>1. /\ stack[t] \in Seq(Gates) /\ Distinct(stack[t]) /\ g \notin Elements(stack[t])
        /\ stack' = [stack EXCEPT ![t] = Append(stack[t], g)]
        /\ pc' = pc /\ gate' = gate
    BY <1>2 DEF TypeOK, Enter, StackInv, Inside, Elements
  <2>2. Elements(Append(stack[t], g)) = Elements(stack[t]) \cup {g}
    BY <2>1, PushFacts
  <2>3. \A u \in Threads : Inside(u)' = IF u = t THEN Inside(u) \cup {g} ELSE Inside(u)
    <3>1. \A u \in Threads : stack'[u] = IF u = t THEN Append(stack[t], g) ELSE stack[u]
      BY <2>1 DEF TypeOK
    <3>2. \A u \in Threads : Inside(u) = Elements(stack[u]) /\ Inside(u)' = Elements(stack'[u])
      BY DEF Inside, Elements
    <3> HIDE DEF Elements
    <3> QED BY ONLY <2>2, <3>1, <3>2
  <2>4. \A u \in Threads, h \in Gates : Owns(u, h)' <=> Owns(u, h) \/ (u = t /\ h = g)
    BY <2>1, <2>3 DEF Owns
  <2> QED BY <1>2, <2>4, OwnershipGained DEF Enter
<1>3. CASE FoundFree(t)
  <2>1. gate[t] \in Gates /\ stack' = stack /\ gate' = gate
    BY <1>3, GateOf DEF FoundFree
  <2>2. pc' = [pc EXCEPT ![t] = "admitted"] /\ pc[t] = "check"
    BY <1>3 DEF FoundFree
  <2>3. \A u \in Threads : Inside(u)' = Inside(u)
    BY <2>1 DEF Inside
  <2>4. \A u \in Threads, h \in Gates : Owns(u, h)' <=> Owns(u, h) \/ (u = t /\ h = gate[t])
    BY <2>1, <2>2, <2>3 DEF Owns, Admitted, TypeOK
  <2> QED BY <1>3, <2>1, <2>4, OwnershipGained DEF FoundFree
<1>4. CASE Register(t)
  <2>1. /\ stack[t] = << >> /\ gate[t] \in Gates
        /\ stack[t] \in Seq(Gates) /\ Distinct(stack[t])
        /\ stack' = [stack EXCEPT ![t] = Append(stack[t], gate[t])]
    BY <1>4, GateOf DEF OutsideInv, Register, Admitted, StackInv, TypeOK
  <2>2. gate[t] \notin Elements(stack[t])
    BY <2>1 DEF Elements
  <2>3. Elements(Append(stack[t], gate[t])) = Elements(stack[t]) \cup {gate[t]}
    BY <2>1, <2>2, PushFacts
  <2>4. \A u \in Threads :
            Inside(u)' = IF u = t THEN Inside(u) \cup {gate[t]} ELSE Inside(u)
    BY <2>1, <2>3 DEF Inside, Elements, TypeOK
  <2>5. /\ pc[t] = "register" /\ pc' = [pc EXCEPT ![t] = "customer"]
        /\ gate' = [gate EXCEPT ![t] = NULL] /\ active' = active
    BY <1>4 DEF Register
  <2>6. \A u \in Threads, h \in Gates : Owns(u, h)' <=> Owns(u, h)
    BY <2>4, <2>5 DEF Owns, Admitted, TypeOK
  <2> QED BY <2>5, <2>6, OwnershipKept
<1>5. CASE Leave(t)
  <2> DEFINE g == stack[t][Len(stack[t])]
  <2>1. /\ stack[t] \in Seq(Gates) /\ stack[t] # << >> /\ Distinct(stack[t])
        /\ stack' = [stack EXCEPT ![t] = SubSeq(stack[t], 1, Len(stack[t]) - 1)]
        /\ pc[t] = "customer" /\ pc' = [pc EXCEPT ![t] = "released"]
        /\ gate' = [gate EXCEPT ![t] = g] /\ active' = [active EXCEPT ![g] = FALSE]
    BY <1>5 DEF TypeOK, Leave, Nested, StackInv
  <2>2. /\ g \in Gates /\ g \in Elements(stack[t])
        /\ Elements(SubSeq(stack[t], 1, Len(stack[t]) - 1)) = Elements(stack[t]) \ {g}
    BY <2>1, PopFacts
  <2> HIDE DEF g
  <2>3. \A u \in Threads : /\ Inside(u) = Elements(stack[u])
                            /\ Inside(u)' = Elements(stack'[u])
    BY DEF Inside, Elements
  <2>4. \A u \in Threads : Inside(u)' = IF u = t THEN Inside(u) \ {g} ELSE Inside(u)
    BY <2>1, <2>2, <2>3 DEF TypeOK
  <2>5. Owns(t, g)
    BY <2>2, <2>3 DEF Owns
  <2>6. \A u \in Threads, h \in Gates : Owns(u, h)' <=> Owns(u, h) /\ ~(u = t /\ h = g)
    BY <2>1, <2>4 DEF Owns, Admitted, TypeOK
  <2>7. g \in Gates /\ active' = [active EXCEPT ![g] = FALSE]
    BY <2>1, <2>2
  <2> QED BY <2>5, <2>6, <2>7, OwnershipLost
<1>6. ASSUME ~Register(t), ~Leave(t), ~FoundFree(t), \A g \in Gates : ~Enter(t, g)
      PROVE  MutualExclusion'
  <2>1. stack' = stack
    BY <1>1, <1>6, StackKept
  <2>2. active' = active
    BY <1>1, <1>6
    DEF Call, Proceed, Contend, Refuse, Handle, Announce, Park, FoundBusy, Sleep,
        SpuriousWakeup, Withdraw, NobodyWaits, SomebodyWaits, LockParking,
        NotifyNobody, NotifyOne
  <2>3. \A u \in Threads : Inside(u)' = Inside(u)
    BY <2>1 DEF Inside
  <2>4. \A u \in Threads :
            /\ pc[u] \in Admitted <=> pc'[u] \in Admitted
            /\ pc[u] \in Admitted => gate'[u] = gate[u]
    <3>1. CASE Call(t)
      BY <1>6, <3>1 DEF Call, Contend, Refuse, TypeOK, Admitted
    <3>2. ASSUME NEW u \in Threads, NotifyOne(t, u)
          PROVE  /\ pc[u] = "asleep" /\ pc[t] = "notify"
                 /\ pc' = [pc EXCEPT ![t] = "customer", ![u] = "park"]
                 /\ gate' = [gate EXCEPT ![t] = NULL]
      BY <3>2, GateOf DEF NotifyOne, SleepersInv
    <3>3. ASSUME NEW u \in Threads, NotifyOne(t, u), NEW v \in Threads
          PROVE  /\ pc[v] \in Admitted <=> pc'[v] \in Admitted
                 /\ pc[v] \in Admitted => gate'[v] = gate[v]
      BY <3>2, <3>3 DEF TypeOK, Admitted
    <3>4. CASE /\ \A u \in Threads : ~NotifyOne(t, u)
               /\ Proceed(t) \/ SpuriousWakeup(t)
      BY <1>6, <3>4
      DEF TypeOK, Admitted, Proceed, Handle, Announce, Park, FoundBusy, Sleep,
          SpuriousWakeup, Withdraw, NobodyWaits, SomebodyWaits, LockParking, NotifyNobody
    <3> QED BY <1>1, <3>1, <3>3, <3>4
  <2>5. \A u \in Threads, h \in Gates : Owns(u, h)' <=> Owns(u, h)
    BY <2>3, <2>4 DEF Owns
  <2> QED BY <2>2, <2>5, OwnershipKept
<1> QED BY <1>1, <1>2, <1>3, <1>4, <1>5, <1>6

-----------------------------------------------------------------------------
(* The mutex has the owner the program counters say it has.                *)
LEMMA ParkingStep ==
    ASSUME GateInv, Next
    PROVE  ParkingInv'
PROOF
<1> USE DEF GateInv, At, Goto, TypeOK, ParkingInv, Parking
<1>1. PICK t \in Threads : Call(t) \/ Proceed(t) \/ SpuriousWakeup(t)
  BY DEF Next
<1>2. ASSUME NEW g \in Gates, Enter(t, g) PROVE ParkingInv'
  BY <1>2, GateAssumption DEF Enter
<1>3. ASSUME NEW g \in Gates, Contend(t, g) PROVE ParkingInv'
  BY <1>3, GateAssumption DEF Contend
<1>4. ASSUME NEW g \in Gates, Refuse(t, g) PROVE ParkingInv'
  BY <1>4, GateAssumption DEF Refuse
<1>5. CASE Handle(t)
  BY <1>5, GateOf, ThreadAssumption, GateAssumption DEF Handle
<1>6. CASE Announce(t)
  BY <1>6, GateOf, ThreadAssumption, GateAssumption DEF Announce
<1>7. CASE Park(t)
  BY <1>7, GateOf, ThreadAssumption, GateAssumption DEF Park
<1>8. CASE FoundFree(t)
  BY <1>8, GateOf, ThreadAssumption, GateAssumption DEF FoundFree
<1>9. CASE FoundBusy(t)
  BY <1>9, GateOf, ThreadAssumption, GateAssumption DEF FoundBusy
<1>10. CASE Sleep(t)
  BY <1>10, GateOf, ThreadAssumption, GateAssumption DEF Sleep
<1>11. CASE SpuriousWakeup(t)
  BY <1>11, GateOf, ThreadAssumption, GateAssumption DEF SpuriousWakeup
<1>12. CASE Withdraw(t)
  BY <1>12, GateOf, ThreadAssumption, GateAssumption DEF Withdraw
<1>13. CASE Register(t)
  BY <1>13, GateOf, ThreadAssumption, GateAssumption DEF Register
<1>14. CASE Leave(t)
  BY <1>14, GateOf, ThreadAssumption, GateAssumption DEF Leave
<1>15. CASE NobodyWaits(t)
  BY <1>15, GateOf, ThreadAssumption, GateAssumption DEF NobodyWaits
<1>16. CASE SomebodyWaits(t)
  BY <1>16, GateOf, ThreadAssumption, GateAssumption DEF SomebodyWaits
<1>17. CASE LockParking(t)
  BY <1>17, GateOf, ThreadAssumption, GateAssumption DEF LockParking
<1>18. CASE NotifyNobody(t)
  BY <1>18, GateOf, ThreadAssumption, GateAssumption DEF NotifyNobody
<1>19. ASSUME NEW u \in Threads, NotifyOne(t, u) PROVE ParkingInv'
  <2>1. gate[t] \in Gates /\ gate[u] = gate[t] /\ pc[u] = "asleep" /\ u # t
    BY <1>19, GateOf DEF NotifyOne, SleepersInv
  <2> QED BY <1>19, <2>1, ThreadAssumption, GateAssumption DEF NotifyOne
<1> QED
  BY <1>1, <1>2, <1>3, <1>4, <1>5, <1>6, <1>7, <1>8, <1>9, <1>10,
     <1>11, <1>12, <1>13, <1>14, <1>15, <1>16, <1>17, <1>18, <1>19
  DEF Call, Proceed

(* The wait set is what the program counters say it is.                    *)
LEMMA SleepersStep ==
    ASSUME GateInv, Next
    PROVE  SleepersInv'
PROOF
<1> USE DEF GateInv, At, Goto, TypeOK, SleepersInv
<1>1. PICK t \in Threads : Call(t) \/ Proceed(t) \/ SpuriousWakeup(t)
  BY DEF Next
<1>2. ASSUME NEW g \in Gates, Enter(t, g) PROVE SleepersInv'
  BY <1>2, GateAssumption DEF Enter
<1>3. ASSUME NEW g \in Gates, Contend(t, g) PROVE SleepersInv'
  BY <1>3, GateAssumption DEF Contend
<1>4. ASSUME NEW g \in Gates, Refuse(t, g) PROVE SleepersInv'
  BY <1>4, GateAssumption DEF Refuse
<1>5. CASE Handle(t)
  BY <1>5, GateOf, ThreadAssumption, GateAssumption DEF Handle
<1>6. CASE Announce(t)
  BY <1>6, GateOf, ThreadAssumption, GateAssumption DEF Announce
<1>7. CASE Park(t)
  BY <1>7, GateOf, ThreadAssumption, GateAssumption DEF Park
<1>8. CASE FoundFree(t)
  BY <1>8, GateOf, ThreadAssumption, GateAssumption DEF FoundFree
<1>9. CASE FoundBusy(t)
  BY <1>9, GateOf, ThreadAssumption, GateAssumption DEF FoundBusy
<1>10. CASE Sleep(t)
  BY <1>10, GateOf, ThreadAssumption, GateAssumption DEF Sleep
<1>11. CASE SpuriousWakeup(t)
  BY <1>11, GateOf, ThreadAssumption, GateAssumption DEF SpuriousWakeup
<1>12. CASE Withdraw(t)
  BY <1>12, GateOf, ThreadAssumption, GateAssumption DEF Withdraw
<1>13. CASE Register(t)
  BY <1>13, GateOf, ThreadAssumption, GateAssumption DEF Register
<1>14. CASE Leave(t)
  BY <1>14, GateOf, ThreadAssumption, GateAssumption DEF Leave
<1>15. CASE NobodyWaits(t)
  BY <1>15, GateOf, ThreadAssumption, GateAssumption DEF NobodyWaits
<1>16. CASE SomebodyWaits(t)
  BY <1>16, GateOf, ThreadAssumption, GateAssumption DEF SomebodyWaits
<1>17. CASE LockParking(t)
  BY <1>17, GateOf, ThreadAssumption, GateAssumption DEF LockParking
<1>18. CASE NotifyNobody(t)
  BY <1>18, GateOf, ThreadAssumption, GateAssumption DEF NotifyNobody
<1>19. ASSUME NEW u \in Threads, NotifyOne(t, u) PROVE SleepersInv'
  <2>1. gate[t] \in Gates /\ gate[u] = gate[t] /\ pc[u] = "asleep" /\ u # t
    BY <1>19, GateOf DEF NotifyOne, SleepersInv
  <2> QED BY <1>19, <2>1, ThreadAssumption, GateAssumption DEF NotifyOne
<1> QED
  BY <1>1, <1>2, <1>3, <1>4, <1>5, <1>6, <1>7, <1>8, <1>9, <1>10,
     <1>11, <1>12, <1>13, <1>14, <1>15, <1>16, <1>17, <1>18, <1>19
  DEF Call, Proceed

-----------------------------------------------------------------------------
(* The counter: only Announce and Withdraw change it, and the set.         *)

LEMMA ContendersKept ==
    ASSUME GateInv, NEW t \in Threads, Call(t) \/ Proceed(t) \/ SpuriousWakeup(t),
           ~Announce(t), ~Withdraw(t)
    PROVE  waiters' = waiters /\ \A g \in Gates : Contenders(g)' = Contenders(g)
PROOF
<1> USE DEF GateInv, At, Goto, TypeOK
<1>1. waiters' = waiters
  BY DEF Call, Proceed, Enter, Contend, Refuse, Handle, Park, FoundFree, FoundBusy,
         Sleep, SpuriousWakeup, Register, Leave, NobodyWaits, SomebodyWaits,
         LockParking, NotifyNobody, NotifyOne
<1>2. ASSUME \A v \in Threads :
                 /\ pc[v] \in Announced <=> pc'[v] \in Announced
                 /\ pc[v] \in Announced => gate'[v] = gate[v]
      PROVE  \A g \in Gates : Contenders(g)' = Contenders(g)
  BY <1>2 DEF Contenders
<1>3. CASE Call(t)
  BY <1>2, <1>3 DEF Call, Enter, Contend, Refuse, Announced
<1>4. ASSUME NEW u \in Threads, NotifyOne(t, u)
      PROVE  \A g \in Gates : Contenders(g)' = Contenders(g)
  <2>1. /\ pc[u] = "asleep" /\ pc[t] = "notify"
        /\ pc' = [pc EXCEPT ![t] = "customer", ![u] = "park"]
        /\ gate' = [gate EXCEPT ![t] = NULL]
    BY <1>4, GateOf DEF NotifyOne, SleepersInv
  <2> QED BY <1>2, <2>1 DEF Announced
<1>5. CASE SpuriousWakeup(t) \/ Handle(t) \/ Park(t) \/ FoundFree(t) \/ FoundBusy(t) \/ Sleep(t)
  BY <1>2, <1>5 DEF SpuriousWakeup, Handle, Park, FoundFree, FoundBusy, Sleep, Announced
<1>6. CASE \/ Register(t) \/ Leave(t) \/ NobodyWaits(t) \/ SomebodyWaits(t)
           \/ LockParking(t) \/ NotifyNobody(t)
  BY <1>2, <1>6
  DEF Register, Leave, NobodyWaits, SomebodyWaits, LockParking, NotifyNobody, Announced
<1> QED BY <1>1, <1>3, <1>4, <1>5, <1>6 DEF Proceed

LEMMA CountStep ==
    ASSUME GateInv, Next
    PROVE  CountInv'
PROOF
<1> USE DEF GateInv, At, Goto
<1>1. PICK t \in Threads : Call(t) \/ Proceed(t) \/ SpuriousWakeup(t)
  BY DEF Next
<1>2. \A g \in Gates : IsFiniteSet(Contenders(g))
  BY ThreadAssumption, FS_Subset DEF Contenders
<1>3. CASE Announce(t)
  <2>1. /\ gate[t] \in Gates /\ pc[t] = "announce" /\ gate' = gate
        /\ pc' = [pc EXCEPT ![t] = "park"]
        /\ waiters' = [waiters EXCEPT ![gate[t]] = @ + 1]
    BY <1>3, GateOf DEF Announce
  <2>2. \A g \in Gates : Contenders(g)' =
            IF g = gate[t] THEN Contenders(g) \cup {t} ELSE Contenders(g)
    BY <2>1 DEF Contenders, Announced, TypeOK
  <2>3. t \notin Contenders(gate[t])
    BY <2>1 DEF Contenders, Announced
  <2>4. Cardinality(Contenders(gate[t]) \cup {t}) = Cardinality(Contenders(gate[t])) + 1
    BY <1>2, <2>1, <2>3, FS_AddElement
  <2>5. \A g \in Gates : waiters'[g] = IF g = gate[t] THEN waiters[g] + 1 ELSE waiters[g]
    BY <2>1 DEF TypeOK
  <2> QED BY <2>1, <2>2, <2>4, <2>5 DEF CountInv
<1>4. CASE Withdraw(t)
  <2>1. /\ gate[t] \in Gates /\ pc[t] = "admitted" /\ gate' = gate
        /\ pc' = [pc EXCEPT ![t] = "register"]
        /\ waiters' = [waiters EXCEPT ![gate[t]] = @ - 1]
    BY <1>4, GateOf DEF Withdraw
  <2>2. \A g \in Gates : Contenders(g)' =
            IF g = gate[t] THEN Contenders(g) \ {t} ELSE Contenders(g)
    BY <2>1 DEF Contenders, Announced, TypeOK
  <2>3. t \in Contenders(gate[t])
    BY <2>1 DEF Contenders, Announced
  <2>4. Cardinality(Contenders(gate[t]) \ {t}) = Cardinality(Contenders(gate[t])) - 1
    BY <1>2, <2>1, <2>3, FS_RemoveElement
  <2>5. \A g \in Gates : waiters'[g] = IF g = gate[t] THEN waiters[g] - 1 ELSE waiters[g]
    BY <2>1 DEF TypeOK
  <2> QED BY <2>1, <2>2, <2>4, <2>5 DEF CountInv
<1>5. CASE ~Announce(t) /\ ~Withdraw(t)
  BY <1>1, <1>5, ContendersKept DEF CountInv
<1> QED BY <1>3, <1>4, <1>5

-----------------------------------------------------------------------------
(* No lost wakeup.                                                         *)

(* The step keeps g held, keeps every waker of g and adds no sleeper.      *)
KeepsWaking(g) ==
    /\ active[g] => active'[g]
    /\ \A u \in Threads :
          /\ gate[u] = g /\ pc[u] \in {"released", "lock", "notify", "park", "check"}
                => gate'[u] = g /\ pc'[u] \in {"released", "lock", "notify", "park", "check"}
          /\ gate'[u] = g /\ pc'[u] \in {"sleep", "asleep"}
                => gate[u] = g /\ pc[u] \in {"sleep", "asleep"}

LEMMA WakeupKept ==
    ASSUME GateInv, NEW g \in Gates, KeepsWaking(g), Sleepy(g)' # {}
    PROVE  active'[g] \/ Wakers(g)' # {}
PROOF
<1>1. Sleepy(g) # {}
  BY DEF Sleepy, KeepsWaking
<1>2. active[g] \/ Wakers(g) # {}
  BY <1>1 DEF GateInv, WakeupInv
<1> QED BY <1>2 DEF Wakers, KeepsWaking

LEMMA WakeupStep ==
    ASSUME GateInv, Next
    PROVE  WakeupInv'
PROOF
<1> USE DEF At, Goto
<1>1. PICK t \in Threads : Call(t) \/ Proceed(t) \/ SpuriousWakeup(t)
  BY DEF Next
<1>2. SUFFICES ASSUME NEW g \in Gates, Sleepy(g)' # {}
               PROVE  active'[g] \/ Wakers(g)' # {}
  BY DEF WakeupInv
<1>3. TypeOK /\ TypeOK'
  BY TypeStep DEF GateInv
<1>4. CASE \E h \in Gates : Enter(t, h) \/ Contend(t, h) \/ Refuse(t, h)
  <2>1. KeepsWaking(g)
    BY <1>3, <1>4 DEF TypeOK, Enter, Contend, Refuse, KeepsWaking
  <2> QED BY <1>2, <2>1, WakeupKept
<1>5. CASE Handle(t) \/ Announce(t) \/ Park(t)
  <2>1. KeepsWaking(g)
    BY <1>3, <1>5 DEF TypeOK, Handle, Announce, Park, KeepsWaking
  <2> QED BY <1>2, <2>1, WakeupKept
<1>6. CASE Sleep(t) \/ SpuriousWakeup(t) \/ Withdraw(t) \/ Register(t)
  <2>1. KeepsWaking(g)
    BY <1>3, <1>6 DEF TypeOK, Sleep, SpuriousWakeup, Withdraw, Register, KeepsWaking
  <2> QED BY <1>2, <2>1, WakeupKept
<1>7. CASE SomebodyWaits(t) \/ LockParking(t)
  <2>1. KeepsWaking(g)
    BY <1>3, <1>7 DEF TypeOK, SomebodyWaits, LockParking, KeepsWaking
  <2> QED BY <1>2, <2>1, WakeupKept
<1>8. CASE FoundFree(t)
  <2>1. CASE g = gate[t]
    BY <1>3, <1>8, <2>1 DEF FoundFree, TypeOK
  <2>2. CASE g # gate[t]
    <3>1. KeepsWaking(g)
      BY <1>3, <1>8, <2>2 DEF FoundFree, TypeOK, KeepsWaking
    <3> QED BY <1>2, <3>1, WakeupKept
  <2> QED BY <2>1, <2>2
<1>9. CASE FoundBusy(t)
  <2>1. CASE g = gate[t]
    BY <1>3, <1>9, <2>1 DEF FoundBusy, TypeOK
  <2>2. CASE g # gate[t]
    <3>1. KeepsWaking(g)
      BY <1>3, <1>9, <2>2 DEF FoundBusy, TypeOK, KeepsWaking
    <3> QED BY <1>2, <3>1, WakeupKept
  <2> QED BY <2>1, <2>2
<1>10. CASE Leave(t)
  <2> DEFINE h == stack[t][Len(stack[t])]
  <2>1. /\ stack[t] \in Seq(Gates) /\ stack[t] # << >> /\ Distinct(stack[t])
        /\ pc[t] = "customer" /\ pc' = [pc EXCEPT ![t] = "released"]
        /\ gate' = [gate EXCEPT ![t] = h] /\ active' = [active EXCEPT ![h] = FALSE]
    BY <1>10 DEF GateInv, TypeOK, Leave, Nested, StackInv
  <2>2. h \in Gates
    BY <2>1, PopFacts
  <2> HIDE DEF h
  <2>3. CASE g = h
    BY <1>3, <2>1, <2>3 DEF TypeOK, Wakers
  <2>4. CASE g # h
    <3>1. KeepsWaking(g)
      BY <1>3, <2>1, <2>2, <2>4 DEF TypeOK, KeepsWaking
    <3> QED BY <1>2, <3>1, WakeupKept
  <2> QED BY <2>3, <2>4
<1>11. CASE NobodyWaits(t)
  <2>1. CASE g = gate[t]
    <3>1. Sleepy(g) \subseteq Contenders(g) /\ IsFiniteSet(Contenders(g))
      BY ThreadAssumption, FS_Subset DEF Sleepy, Contenders, Announced
    <3>2. Contenders(g) = {}
      BY <1>11, <2>1, <3>1, FS_EmptySet DEF GateInv, CountInv, NobodyWaits
    <3>3. Sleepy(g)' = {}
      BY <1>3, <1>11, <3>1, <3>2 DEF NobodyWaits, Sleepy, TypeOK
    <3> QED BY <1>2, <3>3
  <2>2. CASE g # gate[t]
    <3>1. KeepsWaking(g)
      BY <1>3, <1>11, <2>2 DEF NobodyWaits, TypeOK, KeepsWaking
    <3> QED BY <1>2, <3>1, WakeupKept
  <2> QED BY <2>1, <2>2
<1>12. CASE NotifyNobody(t)
  <2>1. CASE g = gate[t]
    <3>1. parking[g] = t
      BY <1>12, <2>1 DEF GateInv, ParkingInv, Parking, NotifyNobody
    <3>2. \A u \in Threads : u \in Sleepy(g) => u = t
      BY <1>12, <2>1, <3>1
      DEF GateInv, ParkingInv, SleepersInv, Parking, NotifyNobody, Sleepy
    <3>3. Sleepy(g)' = {}
      BY <1>3, <1>12, <3>2 DEF NotifyNobody, Sleepy, TypeOK
    <3> QED BY <1>2, <3>3
  <2>2. CASE g # gate[t]
    <3>1. KeepsWaking(g)
      BY <1>3, <1>12, <2>2 DEF NotifyNobody, TypeOK, KeepsWaking
    <3> QED BY <1>2, <3>1, WakeupKept
  <2> QED BY <2>1, <2>2
<1>13. ASSUME NEW u \in Threads, NotifyOne(t, u) PROVE active'[g] \/ Wakers(g)' # {}
  <2>1. /\ gate[t] \in Gates /\ gate[u] = gate[t] /\ pc[u] = "asleep" /\ pc[t] = "notify"
        /\ pc' = [pc EXCEPT ![t] = "customer", ![u] = "park"]
        /\ gate' = [gate EXCEPT ![t] = NULL] /\ active' = active
    BY <1>3, <1>13, GateOf DEF NotifyOne, GateInv, SleepersInv
  <2>2. CASE g = gate[t]
    BY <1>3, <2>1, <2>2 DEF TypeOK, Wakers
  <2>3. CASE g # gate[t]
    <3>1. KeepsWaking(g)
      BY <1>3, <2>1, <2>3 DEF TypeOK, KeepsWaking
    <3> QED BY <1>2, <3>1, WakeupKept
  <2> QED BY <2>2, <2>3
<1> QED
  BY <1>1, <1>4, <1>5, <1>6, <1>7, <1>8, <1>9, <1>10, <1>11, <1>12, <1>13
  DEF Call, Proceed

-----------------------------------------------------------------------------
(* The inductive invariant, and what follows from it.                      *)

LEMMA GateInvInit == Init => GateInv
PROOF
<1> SUFFICES ASSUME Init PROVE GateInv
  OBVIOUS
<1> USE DEF Init
<1>1. TypeOK
  BY DEF TypeOK, Labels
<1>2. StackInv /\ OutsideInv
  BY DEF StackInv, Distinct, OutsideInv
<1>3. MutualExclusion
  BY DEF MutualExclusion, Owns, Inside, Admitted
<1>4. ParkingInv /\ SleepersInv
  BY ThreadAssumption, GateAssumption DEF ParkingInv, SleepersInv
<1>5. CountInv
  <2>1. \A g \in Gates : Contenders(g) = {}
    BY GateAssumption DEF Contenders
  <2> QED BY <2>1, FS_EmptySet DEF CountInv
<1>6. WakeupInv
  BY GateAssumption DEF WakeupInv, Sleepy
<1> QED BY <1>1, <1>2, <1>3, <1>4, <1>5, <1>6 DEF GateInv

(* The inductive invariant holds of every reachable state.                 *)
THEOREM GateInvariant == Spec => []GateInv
PROOF
<1>1. GateInv /\ [Next]_vars => GateInv'
  <2>1. ASSUME GateInv, Next PROVE GateInv'
    <3>1. TypeOK'
      BY <2>1, TypeStep
    <3>2. StackInv' /\ OutsideInv'
      BY <2>1, StackStep
    <3>3. MutualExclusion' /\ ParkingInv' /\ SleepersInv'
      BY <2>1, ExclusionStep, ParkingStep, SleepersStep
    <3>4. CountInv' /\ WakeupInv'
      BY <2>1, CountStep, WakeupStep
    <3> QED BY <3>1, <3>2, <3>3, <3>4 DEF GateInv
  <2>2. ASSUME GateInv, UNCHANGED vars PROVE GateInv'
    <3> USE <2>2 DEF GateInv, vars
    <3>1. TypeOK'
      BY DEF TypeOK
    <3>2. StackInv' /\ OutsideInv'
      BY DEF StackInv, OutsideInv
    <3>3. MutualExclusion'
      BY DEF MutualExclusion, Owns, Inside
    <3>4. ParkingInv' /\ SleepersInv'
      BY DEF ParkingInv, SleepersInv
    <3>5. CountInv' /\ WakeupInv'
      BY DEF CountInv, Contenders, WakeupInv, Sleepy, Wakers
    <3> QED BY <3>1, <3>2, <3>3, <3>4, <3>5
  <2> QED BY <2>1, <2>2
<1> QED BY <1>1, GateInvInit, PTL DEF Spec

(* Every reachable state is well typed: the counter of contenders never    *)
(* goes below zero, whatever the number of threads.                        *)
THEOREM GateTypes == Spec => []TypeOK
PROOF
<1>1. GateInv => TypeOK
  BY DEF GateInv
<1> QED BY <1>1, GateInvariant, PTL

(* A serial provider's callbacks never overlap, for any number of threads  *)
(* and providers, nested calls included.                                   *)
THEOREM CallbacksExclude == Spec => []MutualExclusion
PROOF
<1>1. GateInv => MutualExclusion
  BY DEF GateInv
<1> QED BY <1>1, GateInvariant, PTL

(* No thread waits for a gate from inside another, so no cycle of waiting  *)
(* threads exists however many providers call each other.                  *)
THEOREM NoCyclicWait == Spec => []WaitersHoldNothing
PROOF
<1>1. GateInv => WaitersHoldNothing
  BY DEF GateInv, OutsideInv, WaitersHoldNothing
<1> QED BY <1>1, GateInvariant, PTL

(* The release/check-to-sleep window loses no wakeup.                      *)
THEOREM WakeupsAreNotLost == Spec => []NoLostWakeup
PROOF
<1>1. GateInv => NoLostWakeup
  <2> SUFFICES ASSUME GateInv, NEW t \in Threads, pc[t] \in {"sleep", "asleep"}
               PROVE  \/ active[gate[t]]
                      \/ \E u \in Threads :
                            /\ gate[u] = gate[t]
                            /\ pc[u] \in {"released", "lock", "notify", "park", "check"}
    BY DEF NoLostWakeup
  <2>1. gate[t] \in Gates /\ t \in Sleepy(gate[t])
    BY GateOf DEF GateInv, Sleepy
  <2>2. active[gate[t]] \/ Wakers(gate[t]) # {}
    BY <2>1 DEF GateInv, WakeupInv
  <2> QED BY <2>2 DEF Wakers
<1> QED BY <1>1, GateInvariant, PTL

=============================================================================
