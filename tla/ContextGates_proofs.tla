------------------------- MODULE ContextGates_proofs -------------------------
(***************************************************************************)
(* Proofs about ContextGates, for any threads, contexts and gates: one     *)
(* gate per context, and no overlap of a serial provider's callbacks.      *)
(***************************************************************************)
EXTENDS ContextGates, TLAPS

(* Inside a capture or a callback, past for_resource.                      *)
Using == {"pin", "retain", "retaining", "discover", "discovering", "configure",
          "ready", "calling"}
Dropping == {"drop", "unregister", "unpin", "dropped"}

TypeInv ==
    /\ claims \in [Contexts -> Claims]
    /\ registry \in [Contexts -> Gates \cup {NULL}]
    /\ context \in [Gates -> Contexts \cup {NULL}]
    /\ parallel \in [Gates -> SUBSET BOOLEAN]
    /\ turnstile \in [Gates -> Threads \cup {NULL}]
    /\ pc \in [Threads -> Using \cup Dropping \cup {"idle", "lookup"}]
    /\ stage \in [Threads -> {"live", "snapshot"}]
    /\ base \in [Threads -> Contexts \cup {NULL}]
    /\ snap \in [Threads -> Contexts \cup {NULL}]
    /\ liveGate \in [Threads -> Gates \cup {NULL}]
    /\ snapGate \in [Threads -> Gates \cup {NULL}]
    /\ dying \in [Threads -> Gates \cup {NULL}]
    /\ closing \in [Threads -> BOOLEAN]

(* A held gate is the one its context is registered with.                  *)
RegistryInv ==
    \A g \in Gates : Live(g) => context[g] \in Contexts /\ registry[context[g]] = g

(* A gate being dropped is held by nobody and dropped by one thread, which *)
(* takes its entry away before it frees it.                                *)
DyingInv ==
    \A t \in Threads : dying[t] # NULL =>
        /\ pc[t] \in {"unregister", "unpin"}
        /\ ~Live(dying[t]) /\ context[dying[t]] \in Contexts
        /\ \A u \in Threads : dying[u] = dying[t] => u = t
        /\ pc[t] = "unpin" => registry[context[dying[t]]] # dying[t]

(* A thread looks up a context it retains, and works with that context's   *)
(* gate until the capture is closed.                                       *)
CaptureInv ==
    \A t \in Threads :
        /\ pc[t] = "idle" => stage[t] = "live"
        /\ pc[t] = "lookup" => Target(t) \in Contexts
        /\ pc[t] \in Dropping /\ ~closing[t] => stage[t] = "snapshot"
        /\ pc[t] \in Using \/ (pc[t] \in Dropping /\ ~closing[t]) =>
               /\ GateOf(t) \in Gates /\ Target(t) \in Contexts
               /\ context[GateOf(t)] = Target(t)

(* A thread looks up with no gate of that stage in hand, and has dropped   *)
(* everything when it is done.                                             *)
TeardownInv ==
    \A t \in Threads :
        /\ stage[t] = "live" \/ snap[t] = NULL => snapGate[t] = NULL
        /\ stage[t] = "live" => snap[t] = NULL
        /\ pc[t] = "idle" => stage[t] = "live"
        /\ pc[t] \in {"idle", "lookup"} => GateOf(t) = NULL
        /\ pc[t] \in {"unregister", "unpin", "dropped"} /\ closing[t] =>
               snapGate[t] = NULL /\ (snap[t] = NULL => liveGate[t] = NULL)

(* Customer code runs inside the turnstile, or through a parallel claim.   *)
AdmissionInv ==
    \A t \in Threads :
        /\ pc[t] \in {"retaining", "discovering"} => turnstile[GateOf(t)] = t
        /\ pc[t] = "calling" =>
               turnstile[GateOf(t)] = t \/ parallel[GateOf(t)] = {TRUE}

GatesInv ==
    /\ TypeInv /\ RegistryInv /\ RegistryIsTight /\ DyingInv
    /\ CaptureInv /\ TeardownInv /\ AdmissionInv

-----------------------------------------------------------------------------
(* The steps that take no argument but the thread.                         *)
ThreadStep(t) ==
    \/ Upgrade(t) \/ CheckPin(t) \/ BeginBaseCall(t) \/ Retain(t) \/ Discover(t)
    \/ Configure(t) \/ BeginCall(t) \/ CallFails(t) \/ CallReturns(t)
    \/ ReleaseBase(t) \/ Close(t)
    \/ DropSnapGate(t) \/ DropLiveGate(t) \/ Unregister(t) \/ Unpin(t)
    \/ CaptureReturned(t) \/ ReleaseSnapshot(t) \/ Finish(t)

(* Types.                                                                  *)
LEMMA TypeStep ==
    ASSUME GatesInv, Next
    PROVE  TypeInv'
PROOF
<1> USE DEF GatesInv, At, Goto, TypeInv, gates, held, Using, Dropping, GateOf, Target, CaptureInv
<1>1. PICK t \in Threads :
        \/ \E a \in Contexts : Obtain(t, a) \/ Snapshot(t, a)
        \/ \E g \in Gates : NewGate(t, g)
        \/ ThreadStep(t)
  BY DEF Next, ThreadStep
<1>a. TypeInv
  OBVIOUS
<1>c. t \in Threads
  OBVIOUS
<1>b. pc[t] \in Using => GateOf(t) \in Gates /\ Target(t) \in Contexts
  OBVIOUS
<1>2. ASSUME NEW a \in Contexts, Obtain(t, a) PROVE TypeInv'
  BY <1>2, NullAssumption DEF Obtain
<1>3. ASSUME NEW a \in Contexts, Snapshot(t, a) PROVE TypeInv'
  BY <1>3, NullAssumption DEF Snapshot, Dismiss
<1>4. ASSUME NEW g \in Gates, NewGate(t, g) PROVE TypeInv'
  BY <1>4, NullAssumption DEF NewGate, Hold
<1>5. CASE Upgrade(t)
  BY <1>5, NullAssumption DEF Upgrade, Hold
<1>6. CASE CheckPin(t)
  BY <1>6, NullAssumption DEF CheckPin
<1>7. CASE BeginBaseCall(t)
  BY <1>7, NullAssumption DEF BeginBaseCall, Admit
<1>8. CASE Retain(t)
  BY <1>8, NullAssumption DEF Retain, Dismiss
<1>9. CASE Discover(t)
  BY ONLY <1>9, <1>a, <1>b DEF Discover, Dismiss, At, Goto, TypeInv, gates, Using, Dropping
<1>10. CASE Configure(t)
  <2>1. parallel' \in [Gates -> SUBSET BOOLEAN]
    <3>1. \A flag \in claims[Target(t)] : flag \in BOOLEAN
      BY <1>10, ClaimsAssumption DEF Configure
    <3>2. PICK flag \in claims[Target(t)] :
              parallel' = [parallel EXCEPT ![GateOf(t)] = IF @ = {} THEN {flag} ELSE @]
      BY <1>10 DEF Configure
    <3>3. {flag} \in SUBSET BOOLEAN
      BY <3>1
    <3> HIDE DEF GateOf, Target
    <3> QED BY <3>2, <3>3
  <2>2. pc' \in [Threads -> Using \cup Dropping \cup {"idle", "lookup"}]
    BY ONLY <1>10, <1>a DEF Configure, Goto, TypeInv, Using, Dropping
  <2>3. closing' \in [Threads -> BOOLEAN]
    BY ONLY <1>10, <1>a DEF Configure, TypeInv
  <2> QED BY ONLY <1>10, <1>a, <2>1, <2>2, <2>3 DEF Configure, TypeInv
<1>11. CASE BeginCall(t)
  <2>1. turnstile' \in [Gates -> Threads \cup {NULL}]
    <3> HIDE DEF GateOf
    <3>1. CASE UNCHANGED turnstile
      BY ONLY <3>1, <1>a DEF TypeInv
    <3>2. CASE Admit(t)
      BY ONLY <3>2, <1>a, <1>c DEF Admit, TypeInv
    <3> QED BY ONLY <1>11, <3>1, <3>2 DEF BeginCall
  <2>2. pc' \in [Threads -> Using \cup Dropping \cup {"idle", "lookup"}]
    BY ONLY <1>11, <1>a DEF BeginCall, Goto, TypeInv, Using, Dropping
  <2> QED BY ONLY <1>11, <1>a, <2>1, <2>2 DEF BeginCall, TypeInv, gates, held
<1>12. CASE CallFails(t)
  BY ONLY <1>12, <1>a, <1>b DEF CallFails, Dismiss, At, Goto, TypeInv, gates, Using, Dropping
<1>13. CASE CallReturns(t)
  BY <1>13, NullAssumption DEF CallReturns, Dismiss
<1>14. CASE ReleaseBase(t)
  BY <1>14, NullAssumption DEF ReleaseBase
<1>15. CASE Close(t)
  BY <1>15, NullAssumption DEF Close
<1>16. CASE DropSnapGate(t)
  BY <1>16, NullAssumption DEF DropSnapGate
<1>17. CASE DropLiveGate(t)
  BY <1>17, NullAssumption DEF DropLiveGate
<1>18. CASE Unregister(t)
  BY <1>18, NullAssumption DEF Unregister
<1>19. CASE Unpin(t)
  BY <1>19, NullAssumption DEF Unpin
<1>20. CASE CaptureReturned(t)
  BY <1>20, NullAssumption DEF CaptureReturned
<1>21. CASE ReleaseSnapshot(t)
  BY <1>21, NullAssumption DEF ReleaseSnapshot
<1>22. CASE Finish(t)
  BY <1>22, NullAssumption DEF Finish
<1> QED
  BY <1>1, <1>2, <1>3, <1>4, <1>5, <1>6, <1>7, <1>8, <1>9, <1>10, <1>11, <1>12,
     <1>13, <1>14, <1>15, <1>16, <1>17, <1>18, <1>19, <1>20, <1>21, <1>22
  DEF ThreadStep

(* Only a gate nobody holds loses its entry.                               *)
LEMMA RegistryStep ==
    ASSUME GatesInv, Next
    PROVE  RegistryInv'
PROOF
<1> USE DEF GatesInv, At, Goto, TypeInv, gates, held, Live, RegistryInv, DyingInv, LastHolder
<1>1. PICK t \in Threads :
        \/ \E a \in Contexts : Obtain(t, a) \/ Snapshot(t, a)
        \/ \E g \in Gates : NewGate(t, g)
        \/ ThreadStep(t)
  BY DEF Next, ThreadStep
<1>2. ASSUME NEW a \in Contexts, Obtain(t, a) PROVE RegistryInv'
  BY <1>2, NullAssumption DEF Obtain
<1>3. ASSUME NEW a \in Contexts, Snapshot(t, a) PROVE RegistryInv'
  BY <1>3, NullAssumption DEF Snapshot, Dismiss
<1>4. ASSUME NEW g \in Gates, NewGate(t, g) PROVE RegistryInv'
  <2>1. Target(t) \in Contexts
    BY <1>4 DEF NewGate, CaptureInv
  <2>2. \A h \in Gates : Live(h)' => Live(h) \/ h = g
    BY <1>4 DEF NewGate, Hold
  <2>3. \A h \in Gates : Live(h) => h # g /\ context[h] # Target(t)
    BY <1>4, NullAssumption DEF NewGate
  <2>4. /\ context' = [context EXCEPT ![g] = Target(t)]
        /\ registry' = [registry EXCEPT ![Target(t)] = g]
    BY <1>4 DEF NewGate
  <2> HIDE DEF Live
  <2> QED BY <2>1, <2>2, <2>3, <2>4
<1>5. CASE Upgrade(t)
  BY <1>5, NullAssumption DEF Upgrade, Hold
<1>6. CASE CheckPin(t)
  BY <1>6, NullAssumption DEF CheckPin
<1>7. CASE BeginBaseCall(t)
  BY <1>7, NullAssumption DEF BeginBaseCall, Admit
<1>8. CASE Retain(t)
  BY <1>8, NullAssumption DEF Retain, Dismiss
<1>9. CASE Discover(t)
  BY <1>9, NullAssumption DEF Discover, Dismiss
<1>10. CASE Configure(t)
  BY <1>10, NullAssumption DEF Configure
<1>11. CASE BeginCall(t)
  BY <1>11, NullAssumption DEF BeginCall, Admit
<1>12. CASE CallFails(t)
  BY <1>12, NullAssumption DEF CallFails, Dismiss
<1>13. CASE CallReturns(t)
  BY <1>13, NullAssumption DEF CallReturns, Dismiss
<1>14. CASE ReleaseBase(t)
  BY <1>14, NullAssumption DEF ReleaseBase
<1>15. CASE Close(t)
  BY <1>15, NullAssumption DEF Close
<1>16. CASE DropSnapGate(t)
  BY <1>16, NullAssumption DEF DropSnapGate
<1>17. CASE DropLiveGate(t)
  BY <1>17, NullAssumption DEF DropLiveGate
<1>18. CASE Unregister(t)
  BY <1>18, NullAssumption DEF Unregister
<1>19. CASE Unpin(t)
  BY <1>19, NullAssumption DEF Unpin
<1>20. CASE CaptureReturned(t)
  BY <1>20, NullAssumption DEF CaptureReturned
<1>21. CASE ReleaseSnapshot(t)
  BY <1>21, NullAssumption DEF ReleaseSnapshot
<1>22. CASE Finish(t)
  BY <1>22, NullAssumption DEF Finish
<1> QED
  BY <1>1, <1>2, <1>3, <1>4, <1>5, <1>6, <1>7, <1>8, <1>9, <1>10, <1>11, <1>12,
     <1>13, <1>14, <1>15, <1>16, <1>17, <1>18, <1>19, <1>20, <1>21, <1>22
  DEF ThreadStep

(* An entry goes with the last holder of the gate it names.                *)
LEMMA TightStep ==
    ASSUME GatesInv, Next
    PROVE  RegistryIsTight'
PROOF
<1> USE DEF GatesInv, At, Goto, TypeInv, gates, held, Live, RegistryInv, DyingInv, RegistryIsTight, LastHolder
<1>1. PICK t \in Threads :
        \/ \E a \in Contexts : Obtain(t, a) \/ Snapshot(t, a)
        \/ \E g \in Gates : NewGate(t, g)
        \/ ThreadStep(t)
  BY DEF Next, ThreadStep
<1>2. ASSUME NEW a \in Contexts, Obtain(t, a) PROVE RegistryIsTight'
  BY <1>2, NullAssumption DEF Obtain
<1>3. ASSUME NEW a \in Contexts, Snapshot(t, a) PROVE RegistryIsTight'
  BY <1>3, NullAssumption DEF Snapshot, Dismiss
<1>4. ASSUME NEW g \in Gates, NewGate(t, g) PROVE RegistryIsTight'
  <2>1. Target(t) \in Contexts /\ GateOf(t) = NULL
    BY <1>4 DEF NewGate, CaptureInv, TeardownInv
  <2>2. /\ context' = [context EXCEPT ![g] = Target(t)] /\ context[g] = NULL
        /\ registry' = [registry EXCEPT ![Target(t)] = g] /\ dying' = dying
    BY <1>4 DEF NewGate
  <2>3. \A h \in Gates : Live(h) \/ h = g => Live(h)'
    BY <1>4, <2>1, NullAssumption DEF NewGate, Hold, GateOf
  <2> HIDE DEF Live
  <2> QED BY <2>1, <2>2, <2>3, NullAssumption
<1>5. CASE Upgrade(t)
  <2>1. GateOf(t) = NULL
    BY <1>5 DEF Upgrade, TeardownInv
  <2>2. \A h \in Gates : Live(h) => Live(h)'
    BY <1>5, <2>1, NullAssumption DEF Upgrade, Hold, GateOf
  <2>3. registry' = registry /\ context' = context /\ dying' = dying
    BY <1>5 DEF Upgrade
  <2> HIDE DEF Live
  <2> QED BY <2>2, <2>3
<1>6. CASE CheckPin(t)
  BY <1>6, NullAssumption DEF CheckPin
<1>7. CASE BeginBaseCall(t)
  BY <1>7, NullAssumption DEF BeginBaseCall, Admit
<1>8. CASE Retain(t)
  BY <1>8, NullAssumption DEF Retain, Dismiss
<1>9. CASE Discover(t)
  BY <1>9, NullAssumption DEF Discover, Dismiss
<1>10. CASE Configure(t)
  BY <1>10, NullAssumption DEF Configure
<1>11. CASE BeginCall(t)
  BY <1>11, NullAssumption DEF BeginCall, Admit
<1>12. CASE CallFails(t)
  BY <1>12, NullAssumption DEF CallFails, Dismiss
<1>13. CASE CallReturns(t)
  BY <1>13, NullAssumption DEF CallReturns, Dismiss
<1>14. CASE ReleaseBase(t)
  BY <1>14, NullAssumption DEF ReleaseBase
<1>15. CASE Close(t)
  BY <1>15, NullAssumption DEF Close
<1>16. CASE DropSnapGate(t)
  BY <1>16, NullAssumption DEF DropSnapGate
<1>17. CASE DropLiveGate(t)
  BY <1>17, NullAssumption DEF DropLiveGate
<1>18. CASE Unregister(t)
  BY <1>18, NullAssumption DEF Unregister
<1>19. CASE Unpin(t)
  BY <1>19, NullAssumption DEF Unpin
<1>20. CASE CaptureReturned(t)
  BY <1>20, NullAssumption DEF CaptureReturned
<1>21. CASE ReleaseSnapshot(t)
  BY <1>21, NullAssumption DEF ReleaseSnapshot
<1>22. CASE Finish(t)
  BY <1>22, NullAssumption DEF Finish
<1> QED
  BY <1>1, <1>2, <1>3, <1>4, <1>5, <1>6, <1>7, <1>8, <1>9, <1>10, <1>11, <1>12,
     <1>13, <1>14, <1>15, <1>16, <1>17, <1>18, <1>19, <1>20, <1>21, <1>22
  DEF ThreadStep

(* What a thread still holds when it looks up or is done.                  *)
LEMMA TeardownStep ==
    ASSUME GatesInv, Next
    PROVE  TeardownInv'
PROOF
<1> USE DEF GatesInv, At, Goto, TypeInv, gates, held, Using, Dropping, TeardownInv, GateOf
<1>1. PICK t \in Threads :
        \/ \E a \in Contexts : Obtain(t, a) \/ Snapshot(t, a)
        \/ \E g \in Gates : NewGate(t, g)
        \/ ThreadStep(t)
  BY DEF Next, ThreadStep
<1>2. ASSUME NEW a \in Contexts, Obtain(t, a) PROVE TeardownInv'
  BY <1>2, NullAssumption DEF Obtain
<1>3. ASSUME NEW a \in Contexts, Snapshot(t, a) PROVE TeardownInv'
  BY <1>3, NullAssumption DEF Snapshot, Dismiss
<1>4. ASSUME NEW g \in Gates, NewGate(t, g) PROVE TeardownInv'
  BY <1>4, NullAssumption DEF NewGate, Hold, CaptureInv, Target
<1>5. CASE Upgrade(t)
  BY <1>5, NullAssumption DEF Upgrade, Hold, CaptureInv, Target
<1>6. CASE CheckPin(t)
  BY <1>6, NullAssumption DEF CheckPin
<1>7. CASE BeginBaseCall(t)
  BY <1>7, NullAssumption DEF BeginBaseCall, Admit
<1>8. CASE Retain(t)
  BY <1>8, NullAssumption DEF Retain, Dismiss
<1>9. CASE Discover(t)
  BY <1>9, NullAssumption DEF Discover, Dismiss
<1>10. CASE Configure(t)
  BY <1>10, NullAssumption DEF Configure
<1>11. CASE BeginCall(t)
  BY <1>11, NullAssumption DEF BeginCall, Admit
<1>12. CASE CallFails(t)
  BY <1>12, NullAssumption DEF CallFails, Dismiss
<1>13. CASE CallReturns(t)
  BY <1>13, NullAssumption DEF CallReturns, Dismiss
<1>14. CASE ReleaseBase(t)
  BY <1>14, NullAssumption DEF ReleaseBase
<1>15. CASE Close(t)
  BY <1>15, NullAssumption DEF Close
<1>16. CASE DropSnapGate(t)
  BY <1>16, NullAssumption DEF DropSnapGate
<1>17. CASE DropLiveGate(t)
  BY <1>17, NullAssumption DEF DropLiveGate
<1>18. CASE Unregister(t)
  BY <1>18, NullAssumption DEF Unregister
<1>19. CASE Unpin(t)
  BY <1>19, NullAssumption DEF Unpin
<1>20. CASE CaptureReturned(t)
  BY <1>20, NullAssumption DEF CaptureReturned
<1>21. CASE ReleaseSnapshot(t)
  BY <1>21, NullAssumption DEF ReleaseSnapshot
<1>22. CASE Finish(t)
  BY <1>22, NullAssumption DEF Finish
<1> QED
  BY <1>1, <1>2, <1>3, <1>4, <1>5, <1>6, <1>7, <1>8, <1>9, <1>10, <1>11, <1>12,
     <1>13, <1>14, <1>15, <1>16, <1>17, <1>18, <1>19, <1>20, <1>21, <1>22
  DEF ThreadStep

(* The last holder, and it alone, drops the gate.                          *)
LEMMA DyingStep ==
    ASSUME GatesInv, Next
    PROVE  DyingInv'
PROOF
<1> USE DEF GatesInv, At, Goto, TypeInv, gates, held, Live, RegistryInv, DyingInv, LastHolder
<1>1. PICK t \in Threads :
        \/ \E a \in Contexts : Obtain(t, a) \/ Snapshot(t, a)
        \/ \E g \in Gates : NewGate(t, g)
        \/ ThreadStep(t)
  BY DEF Next, ThreadStep
<1>2. ASSUME NEW a \in Contexts, Obtain(t, a) PROVE DyingInv'
  BY <1>2, NullAssumption DEF Obtain
<1>3. ASSUME NEW a \in Contexts, Snapshot(t, a) PROVE DyingInv'
  BY <1>3, NullAssumption DEF Snapshot, Dismiss
<1>4. ASSUME NEW g \in Gates, NewGate(t, g) PROVE DyingInv'
  BY <1>4, NullAssumption DEF NewGate, Hold
<1>5. CASE Upgrade(t)
  BY <1>5, NullAssumption DEF Upgrade, Hold
<1>6. CASE CheckPin(t)
  BY <1>6, NullAssumption DEF CheckPin
<1>7. CASE BeginBaseCall(t)
  BY <1>7, NullAssumption DEF BeginBaseCall, Admit
<1>8. CASE Retain(t)
  BY <1>8, NullAssumption DEF Retain, Dismiss
<1>9. CASE Discover(t)
  BY <1>9, NullAssumption DEF Discover, Dismiss
<1>10. CASE Configure(t)
  BY <1>10, NullAssumption DEF Configure
<1>11. CASE BeginCall(t)
  BY <1>11, NullAssumption DEF BeginCall, Admit
<1>12. CASE CallFails(t)
  BY <1>12, NullAssumption DEF CallFails, Dismiss
<1>13. CASE CallReturns(t)
  BY <1>13, NullAssumption DEF CallReturns, Dismiss
<1>14. CASE ReleaseBase(t)
  BY <1>14, NullAssumption DEF ReleaseBase
<1>15. CASE Close(t)
  BY <1>15, NullAssumption DEF Close
<1>16. CASE DropSnapGate(t)
  BY <1>16, NullAssumption DEF DropSnapGate
<1>17. CASE DropLiveGate(t)
  BY <1>17, NullAssumption DEF DropLiveGate
<1>18. CASE Unregister(t)
  BY <1>18, NullAssumption DEF Unregister
<1>19. CASE Unpin(t)
  BY <1>19, NullAssumption DEF Unpin
<1>20. CASE CaptureReturned(t)
  BY <1>20, NullAssumption DEF CaptureReturned
<1>21. CASE ReleaseSnapshot(t)
  BY <1>21, NullAssumption DEF ReleaseSnapshot
<1>22. CASE Finish(t)
  BY <1>22, NullAssumption DEF Finish
<1> QED
  BY <1>1, <1>2, <1>3, <1>4, <1>5, <1>6, <1>7, <1>8, <1>9, <1>10, <1>11, <1>12,
     <1>13, <1>14, <1>15, <1>16, <1>17, <1>18, <1>19, <1>20, <1>21, <1>22
  DEF ThreadStep

(* A thread keeps the gate of the context it works with.                   *)
LEMMA CaptureStep ==
    ASSUME GatesInv, Next
    PROVE  CaptureInv'
PROOF
<1> USE DEF GatesInv, At, Goto, TypeInv, gates, held, Using, Dropping, Live, RegistryInv, DyingInv, CaptureInv, GateOf, Target
<1>1. PICK t \in Threads :
        \/ \E a \in Contexts : Obtain(t, a) \/ Snapshot(t, a)
        \/ \E g \in Gates : NewGate(t, g)
        \/ ThreadStep(t)
  BY DEF Next, ThreadStep
<1>2. ASSUME NEW a \in Contexts, Obtain(t, a) PROVE CaptureInv'
  BY <1>2, NullAssumption DEF Obtain
<1>3. ASSUME NEW a \in Contexts, Snapshot(t, a) PROVE CaptureInv'
  BY <1>3, NullAssumption DEF Snapshot, Dismiss
<1>4. ASSUME NEW g \in Gates, NewGate(t, g) PROVE CaptureInv'
  BY <1>4, NullAssumption DEF NewGate, Hold
<1>5. CASE Upgrade(t)
  <2>1. /\ Target(t) \in Contexts /\ registry[Target(t)] \in Gates
        /\ context[registry[Target(t)]] = Target(t)
    <3>1. Target(t) \in Contexts /\ Live(registry[Target(t)])
      BY <1>5 DEF Upgrade
    <3> QED BY <1>5, <3>1 DEF Upgrade, RegistryIsTight
  <2> QED BY <1>5, <2>1 DEF Upgrade, Hold
<1>6. CASE CheckPin(t)
  BY <1>6, NullAssumption DEF CheckPin
<1>7. CASE BeginBaseCall(t)
  BY <1>7, NullAssumption DEF BeginBaseCall, Admit
<1>8. CASE Retain(t)
  BY <1>8, NullAssumption DEF Retain, Dismiss
<1>9. CASE Discover(t)
  BY <1>9, NullAssumption DEF Discover, Dismiss
<1>10. CASE Configure(t)
  BY <1>10, NullAssumption DEF Configure
<1>11. CASE BeginCall(t)
  BY <1>11, NullAssumption DEF BeginCall, Admit
<1>12. CASE CallFails(t)
  BY <1>12, NullAssumption DEF CallFails, Dismiss
<1>13. CASE CallReturns(t)
  BY <1>13, NullAssumption DEF CallReturns, Dismiss
<1>14. CASE ReleaseBase(t)
  BY <1>14, NullAssumption DEF ReleaseBase
<1>15. CASE Close(t)
  BY <1>15, NullAssumption DEF Close
<1>16. CASE DropSnapGate(t)
  BY <1>16, NullAssumption DEF DropSnapGate
<1>17. CASE DropLiveGate(t)
  BY <1>17, NullAssumption DEF DropLiveGate
<1>18. CASE Unregister(t)
  BY <1>18, NullAssumption DEF Unregister
<1>19. CASE Unpin(t)
  BY <1>19, NullAssumption DEF Unpin
<1>20. CASE CaptureReturned(t)
  BY <1>20, NullAssumption DEF CaptureReturned
<1>21. CASE ReleaseSnapshot(t)
  BY <1>21, NullAssumption DEF ReleaseSnapshot
<1>22. CASE Finish(t)
  BY <1>22, NullAssumption DEF Finish
<1> QED
  BY <1>1, <1>2, <1>3, <1>4, <1>5, <1>6, <1>7, <1>8, <1>9, <1>10, <1>11, <1>12,
     <1>13, <1>14, <1>15, <1>16, <1>17, <1>18, <1>19, <1>20, <1>21, <1>22
  DEF ThreadStep

(* A step of one thread leaves the others where they are.                  *)
LEMMA OthersStay ==
    ASSUME GatesInv, NEW t \in Threads,
           \/ \E a \in Contexts : Obtain(t, a) \/ Snapshot(t, a)
           \/ \E g \in Gates : NewGate(t, g)
           \/ ThreadStep(t),
           NEW u \in Threads, u # t
    PROVE  pc'[u] = pc[u] /\ GateOf(u)' = GateOf(u)
PROOF
<1> USE DEF GatesInv, TypeInv, At, Goto, held, GateOf
<1>1. CASE \E a \in Contexts : Obtain(t, a) \/ Snapshot(t, a)
  BY <1>1 DEF Obtain, Snapshot
<1>2. CASE \E g \in Gates : NewGate(t, g)
  BY <1>2 DEF NewGate, Hold
<1>3. CASE ThreadStep(t)
  <2>1. CASE Upgrade(t)
    BY <2>1 DEF Upgrade, Hold
  <2>2. CASE CheckPin(t) \/ BeginBaseCall(t) \/ Retain(t) \/ Discover(t)
    BY <2>2 DEF CheckPin, BeginBaseCall, Retain, Discover
  <2>3. CASE Configure(t) \/ BeginCall(t) \/ CallFails(t) \/ CallReturns(t)
    BY <2>3 DEF Configure, BeginCall, CallFails, CallReturns
  <2>4. CASE ReleaseBase(t) \/ Close(t) \/ DropSnapGate(t) \/ DropLiveGate(t)
    BY <2>4 DEF ReleaseBase, Close, DropSnapGate, DropLiveGate
  <2>5. CASE Unregister(t) \/ Unpin(t) \/ CaptureReturned(t)
    BY <2>5 DEF Unregister, Unpin, CaptureReturned
  <2>6. CASE ReleaseSnapshot(t) \/ Finish(t)
    BY <2>6 DEF ReleaseSnapshot, Finish
  <2> QED BY <1>3, <2>1, <2>2, <2>3, <2>4, <2>5, <2>6 DEF ThreadStep
<1> QED BY <1>1, <1>2, <1>3

(* Admission after a step of t, from what the step does to t and to the    *)
(* gates of the others.                                                    *)
Executes == {"retaining", "discovering", "calling"}

LEMMA AdmissionKept ==
    ASSUME AdmissionInv, NEW t \in Threads,
           \A u \in Threads : u # t => pc'[u] = pc[u] /\ GateOf(u)' = GateOf(u),
           \A u \in Threads : u # t /\ pc[u] \in Executes =>
               /\ turnstile[GateOf(u)] = u => turnstile'[GateOf(u)] = u
               /\ parallel[GateOf(u)] = {TRUE} => parallel'[GateOf(u)] = {TRUE},
           pc'[t] \in {"retaining", "discovering"} => turnstile'[GateOf(t)'] = t,
           pc'[t] = "calling" =>
               turnstile'[GateOf(t)'] = t \/ parallel'[GateOf(t)'] = {TRUE}
    PROVE  AdmissionInv'
PROOF
<1> SUFFICES ASSUME NEW u \in Threads
             PROVE  /\ pc'[u] \in {"retaining", "discovering"} => turnstile'[GateOf(u)'] = u
                    /\ pc'[u] = "calling" =>
                          turnstile'[GateOf(u)'] = u \/ parallel'[GateOf(u)'] = {TRUE}
  BY DEF AdmissionInv
<1>1. CASE u = t
  BY <1>1
<1>2. CASE u # t
  BY <1>2 DEF AdmissionInv, Executes
<1> QED BY <1>1, <1>2

(* Admission lasts as long as the customer code runs.                      *)
LEMMA AdmissionStep ==
    ASSUME GatesInv, Next
    PROVE  AdmissionInv'
PROOF
<1> USE DEF GatesInv, At, Goto, held, gates
<1>1. PICK t \in Threads :
        \/ \E a \in Contexts : Obtain(t, a) \/ Snapshot(t, a)
        \/ \E g \in Gates : NewGate(t, g)
        \/ ThreadStep(t)
  BY DEF Next, ThreadStep
<1>2. \A u \in Threads : u # t => pc'[u] = pc[u] /\ GateOf(u)' = GateOf(u)
  BY <1>1, OthersStay
<1>3. \A u \in Threads : pc[u] \in Executes =>
          GateOf(u) \in Gates /\ Live(GateOf(u))
  <2>1. \A u \in Threads : pc[u] \in Executes => GateOf(u) \in Gates
    BY DEF CaptureInv, Executes, Using
  <2> QED BY <2>1 DEF GateOf, Live
<1>4. ASSUME parallel' = parallel, turnstile' = turnstile, pc'[t] \notin Executes
      PROVE  AdmissionInv'
  BY <1>2, <1>4, AdmissionKept DEF Executes
<1>5. ASSUME parallel' = parallel, Dismiss(t), pc'[t] \notin Executes
      PROVE  AdmissionInv'
  <2>1. \A u \in Threads : u # t /\ pc[u] \in Executes /\ turnstile[GateOf(u)] = u
            => turnstile'[GateOf(u)] = u
    BY <1>3, <1>5 DEF Dismiss, TypeInv
  <2> QED BY <1>2, <1>5, <2>1, AdmissionKept DEF Executes
<1>6. ASSUME parallel' = parallel, Admit(t), pc[t] \in Using, GateOf(t)' = GateOf(t)
      PROVE  AdmissionInv'
  <2>1. \A u \in Threads : pc[u] \in Executes /\ turnstile[GateOf(u)] = u
            => turnstile'[GateOf(u)] = u
    BY <1>3, <1>6, NullAssumption DEF Admit, TypeInv
  <2>2. turnstile'[GateOf(t)'] = t
    BY <1>6 DEF Admit, TypeInv, CaptureInv
  <2> QED BY <1>2, <1>6, <2>1, <2>2, AdmissionKept
<1>7. CASE \E a \in Contexts : Obtain(t, a)
  BY <1>4, <1>7 DEF Obtain, TypeInv, Executes
<1>8. CASE \E a \in Contexts : Snapshot(t, a)
  BY <1>5, <1>8 DEF Snapshot, TypeInv, Executes
<1>9. CASE \E g \in Gates : NewGate(t, g)
  BY <1>4, <1>9 DEF NewGate, TypeInv, Executes
<1>10. CASE Upgrade(t) \/ CheckPin(t) \/ ReleaseBase(t) \/ Close(t)
  BY <1>4, <1>10 DEF Upgrade, CheckPin, ReleaseBase, Close, TypeInv, Executes
<1>11. CASE DropSnapGate(t) \/ DropLiveGate(t) \/ Unregister(t)
  BY <1>4, <1>11 DEF DropSnapGate, DropLiveGate, Unregister, TypeInv, Executes
<1>12. CASE CaptureReturned(t) \/ ReleaseSnapshot(t) \/ Finish(t)
  BY <1>4, <1>12 DEF CaptureReturned, ReleaseSnapshot, Finish, TypeInv, Executes
<1>13. CASE Retain(t) \/ Discover(t)
  BY <1>5, <1>13 DEF Retain, Discover, TypeInv, Executes
<1>14. CASE CallFails(t) \/ CallReturns(t)
  BY <1>5, <1>14 DEF CallFails, CallReturns, TypeInv, Executes
<1>15. CASE BeginBaseCall(t)
  BY <1>6, <1>15 DEF BeginBaseCall, GateOf, Using
<1>16. CASE BeginCall(t)
  <2>1. CASE parallel[GateOf(t)] = {TRUE}
    <3>1. turnstile' = turnstile /\ parallel' = parallel /\ GateOf(t)' = GateOf(t)
      BY <1>16, <2>1 DEF BeginCall, GateOf
    <3>2. pc'[t] = "calling"
      BY <1>16 DEF BeginCall, TypeInv
    <3> QED BY <1>2, <2>1, <3>1, <3>2, AdmissionKept
  <2>2. CASE parallel[GateOf(t)] # {TRUE}
    BY <1>6, <1>16, <2>2 DEF BeginCall, GateOf, Using
  <2> QED BY <2>1, <2>2
<1>17. CASE Configure(t)
  <2>1. pc'[t] \notin Executes /\ turnstile' = turnstile
    BY <1>17 DEF Configure, TypeInv, Executes
  <2>2. \A g \in Gates : parallel[g] = {TRUE} => parallel'[g] = {TRUE}
    BY <1>17 DEF Configure, TypeInv
  <2> QED BY <1>2, <1>3, <2>1, <2>2, AdmissionKept DEF Executes
<1>18. CASE Unpin(t)
  <2>1. pc'[t] \notin Executes /\ turnstile' = turnstile
    BY <1>18 DEF Unpin, TypeInv, Executes
  <2>2. \A g \in Gates : Live(g) => g # dying[t]
    BY NullAssumption DEF DyingInv
  <2>3. \A g \in Gates : Live(g) => parallel'[g] = parallel[g]
    BY <1>18, <2>2 DEF Unpin, TypeInv
  <2> QED BY <1>2, <1>3, <2>1, <2>3, AdmissionKept DEF Executes
<1> QED
  BY <1>1, <1>7, <1>8, <1>9, <1>10, <1>11, <1>12, <1>13, <1>14, <1>15, <1>16, <1>17, <1>18
  DEF ThreadStep

-----------------------------------------------------------------------------
LEMMA GatesInvInit == Init => GatesInv
PROOF
<1> SUFFICES ASSUME Init PROVE GatesInv
  OBVIOUS
<1> USE NullAssumption DEF Init, None
<1>1. TypeInv
  BY DEF TypeInv
<1>2. RegistryInv /\ RegistryIsTight /\ DyingInv
  BY DEF RegistryInv, RegistryIsTight, DyingInv, Live
<1>3. CaptureInv /\ TeardownInv /\ AdmissionInv
  BY DEF CaptureInv, TeardownInv, AdmissionInv, Using, Dropping, GateOf
<1> QED BY <1>1, <1>2, <1>3 DEF GatesInv

(* The inductive invariant holds of every reachable state.                 *)
THEOREM GatesInvariant == Spec => []GatesInv
PROOF
<1>1. GatesInv /\ [Next]_vars => GatesInv'
  <2>1. ASSUME GatesInv, Next PROVE GatesInv'
    <3>1. TypeInv' /\ RegistryInv' /\ RegistryIsTight' /\ DyingInv'
      BY <2>1, TypeStep, RegistryStep, TightStep, DyingStep
    <3>2. CaptureInv' /\ TeardownInv' /\ AdmissionInv'
      BY <2>1, CaptureStep, TeardownStep, AdmissionStep
    <3> QED BY <3>1, <3>2 DEF GatesInv
  <2>2. ASSUME GatesInv, UNCHANGED vars PROVE GatesInv'
    <3> USE <2>2 DEF GatesInv, vars, gates, held
    <3>1. TypeInv'
      BY DEF TypeInv
    <3>2. RegistryInv' /\ RegistryIsTight' /\ DyingInv'
      BY DEF RegistryInv, RegistryIsTight, DyingInv, Live
    <3>3. CaptureInv' /\ TeardownInv' /\ AdmissionInv'
      BY DEF CaptureInv, TeardownInv, AdmissionInv, GateOf, Target
    <3> QED BY <3>1, <3>2, <3>3
  <2> QED BY <2>1, <2>2
<1> QED BY <1>1, GatesInvInit, PTL DEF Spec

(* However lookups, captures and last drops interleave, the threads that   *)
(* hold a gate for one context hold the same gate.                         *)
THEOREM CapturesShareTheGate == Spec => []OneGatePerContext
PROOF
<1>1. GatesInv => OneGatePerContext
  BY DEF GatesInv, RegistryInv, OneGatePerContext
<1> QED BY <1>1, GatesInvariant, PTL

(* The registry holds no entry for a context nobody captures.              *)
THEOREM RegistryForgets == Spec => []RegistryIsTight
PROOF
<1>1. GatesInv => RegistryIsTight
  BY DEF GatesInv
<1> QED BY <1>1, GatesInvariant, PTL

(* Customer code of a context that never claimed to be parallel does not   *)
(* overlap, with claims that contradict each other included.               *)
THEOREM CallbacksAreAdmitted == Spec => []SerialCallbacksExclude
PROOF
<1>1. GatesInv => SerialCallbacksExclude
  <2> SUFFICES ASSUME GatesInv, NEW t \in Threads, NEW u \in Threads, NEW a \in Contexts,
                      t # u, Executing(t, a), Executing(u, a)
               PROVE  \E v \in {t, u} : pc[v] = "calling" /\ parallel[GateOf(v)] = {TRUE}
    BY DEF SerialCallbacksExclude
  <2>1. \A v \in {t, u} : /\ GateOf(v) \in Gates /\ context[GateOf(v)] = a
                          /\ Live(GateOf(v))
    <3>1. \A v \in {t, u} : GateOf(v) \in Gates /\ context[GateOf(v)] = a
      BY DEF GatesInv, CaptureInv, Executing, Using
    <3> QED BY <3>1 DEF GateOf, Live
  <2>2. GateOf(t) = GateOf(u)
    BY <2>1 DEF GatesInv, RegistryInv
  <2>3. PICK v \in {t, u} : turnstile[GateOf(v)] # v
    BY <2>2
  <2>4. pc[v] = "calling" /\ parallel[GateOf(v)] = {TRUE}
    BY <2>3 DEF GatesInv, AdmissionInv, Executing
  <2> QED BY <2>4
<1> QED BY <1>1, GatesInvariant, PTL

=============================================================================
