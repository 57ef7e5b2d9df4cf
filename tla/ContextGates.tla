----------------------------- MODULE ContextGates -----------------------------
(***************************************************************************)
(* ContextProviderCallGate and CapturedWfst::capture (src/src/bindings.rs):*)
(* one callback gate per opaque provider context, found through a registry *)
(* of weak references keyed by the context's address.                      *)
(*                                                                         *)
(* Each thread captures a resource it holds, uses the capture and drops    *)
(* it.  A context exists while somebody retains it; once nobody does, its  *)
(* address may be allocated again, by another provider.  A Weak upgrade    *)
(* succeeds while some Arc exists; a gate's memory is reused once it is    *)
(* dropped and its registry entry is gone.  The turnstile of a gate is     *)
(* SerialGate seen from outside: at most one thread in it.  Captures made  *)
(* from within a callback, which a turnstile refuses, are left to          *)
(* SerialGate.                                                             *)
(***************************************************************************)
EXTENDS FiniteSets

CONSTANTS Threads, Contexts, Gates,
          Claims,    \* what a provider may claim: sets of parallel flags, a
                     \* faulty one claims both by turns
          NULL

ASSUME ClaimsAssumption == Claims \subseteq (SUBSET BOOLEAN) \ {{}}
ASSUME NullAssumption == NULL \notin Threads \cup Contexts \cup Gates

VARIABLES claims,      \* the flags the provider at a context advertises
          registry,    \* CONTEXT_GATES: the gate a context's Weak names
          context,     \* the context of a gate; NULL: not allocated
          parallel,    \* its OnceLock<bool>: {} or the one flag set
          pinned,      \* whether it retains its context
          turnstile,   \* the thread inside its serial gate
          pc, stage,   \* where each thread stands, capturing which resource
          base, snap,  \* the contexts it retains: its resource, the snapshot
          liveGate, snapGate,  \* the Arcs it holds
          dying,       \* the gate it is dropping
          closing      \* whether it drops everything, or only returns

gates == <<registry, context, parallel, pinned>>
held == <<base, snap, liveGate, snapGate, dying, closing>>
vars == <<claims, gates, turnstile, pc, stage, held>>

None == [t \in Threads |-> NULL]

Init ==
    /\ claims \in [Contexts -> Claims]
    /\ registry = [a \in Contexts |-> NULL]
    /\ context = [g \in Gates |-> NULL]
    /\ parallel = [g \in Gates |-> {}]
    /\ pinned = [g \in Gates |-> FALSE]
    /\ turnstile = [g \in Gates |-> NULL]
    /\ pc = [t \in Threads |-> "idle"]
    /\ stage = [t \in Threads |-> "live"]
    /\ base = None /\ snap = None
    /\ liveGate = None /\ snapGate = None /\ dying = None
    /\ closing = [t \in Threads |-> FALSE]

At(t, label) == pc[t] = label
Goto(t, label) == pc' = [pc EXCEPT ![t] = label]

Target(t) == IF stage[t] = "live" THEN base[t] ELSE snap[t]
GateOf(t) == IF stage[t] = "live" THEN liveGate[t] ELSE snapGate[t]
Live(g) == \E t \in Threads : g \in {liveGate[t], snapGate[t]}
HeldBy(t, a) == a \in {base[t], snap[t]}
Free(a) == /\ \A t \in Threads : ~HeldBy(t, a)
           /\ \A g \in Gates : ~(pinned[g] /\ context[g] = a)

-----------------------------------------------------------------------------
(* The host hands the thread a resource: a new context at a free address,  *)
(* or another reference to one in use.                                     *)
Obtain(t, a) ==
    /\ At(t, "idle")
    /\ \/ Free(a) /\ \E c \in Claims : claims' = [claims EXCEPT ![a] = c]
       \/ (\E u \in Threads : HeldBy(u, a)) /\ UNCHANGED claims
    /\ base' = [base EXCEPT ![t] = a]
    /\ Goto(t, "lookup")
    /\ UNCHANGED <<gates, turnstile, stage, snap, liveGate, snapGate, dying, closing>>

(* for_resource, under the registry mutex: upgrade the entry or replace it.*)
Hold(t, g) ==
    IF stage[t] = "live" THEN liveGate' = [liveGate EXCEPT ![t] = g] /\ UNCHANGED snapGate
                         ELSE snapGate' = [snapGate EXCEPT ![t] = g] /\ UNCHANGED liveGate

Upgrade(t) ==
    /\ At(t, "lookup")
    /\ registry[Target(t)] # NULL /\ Live(registry[Target(t)])
    /\ Hold(t, registry[Target(t)])
    /\ Goto(t, "pin")
    /\ UNCHANGED <<claims, gates, turnstile, stage, base, snap, dying, closing>>

NewGate(t, g) ==
    /\ At(t, "lookup")
    /\ ~(registry[Target(t)] # NULL /\ Live(registry[Target(t)]))
    /\ context[g] = NULL
    /\ context' = [context EXCEPT ![g] = Target(t)]
    /\ registry' = [registry EXCEPT ![Target(t)] = g]
    /\ Hold(t, g)
    /\ Goto(t, "pin")
    /\ UNCHANGED <<claims, parallel, pinned, turnstile, stage, base, snap, dying, closing>>

CheckPin(t) ==
    /\ At(t, "pin")
    /\ Goto(t, IF pinned[GateOf(t)] THEN "discover" ELSE "retain")
    /\ UNCHANGED <<claims, gates, turnstile, stage, held>>

(* base_call: retain and query_interface run inside the turnstile.         *)
Admit(t) ==
    /\ turnstile[GateOf(t)] = NULL
    /\ turnstile' = [turnstile EXCEPT ![GateOf(t)] = t]

Dismiss(t) == turnstile' = [turnstile EXCEPT ![GateOf(t)] = IF @ = t THEN NULL ELSE @]

BeginBaseCall(t) ==
    /\ pc[t] \in {"retain", "discover"}
    /\ Admit(t)
    /\ Goto(t, IF At(t, "retain") THEN "retaining" ELSE "discovering")
    /\ UNCHANGED <<claims, gates, stage, held>>

Retain(t) ==
    /\ At(t, "retaining")
    /\ pinned' = [pinned EXCEPT ![GateOf(t)] = TRUE]
    /\ Dismiss(t)
    /\ Goto(t, "discover")
    /\ UNCHANGED <<claims, registry, context, parallel, stage, held>>

(* discover_wfst succeeds, or the capture fails.                           *)
Discover(t) ==
    /\ At(t, "discovering")
    /\ Dismiss(t)
    /\ \/ Goto(t, "configure") /\ UNCHANGED closing
       \/ Goto(t, "drop") /\ closing' = [closing EXCEPT ![t] = TRUE]
    /\ UNCHANGED <<claims, gates, stage, base, snap, liveGate, snapGate, dying>>

(* Mutant of Configure: the last claim wins.                               *)
Configure_LastClaim(t) ==
    /\ At(t, "configure")
    /\ \E flag \in claims[Target(t)] :
          parallel' = [parallel EXCEPT ![GateOf(t)] = {flag}]
    /\ Goto(t, "ready")
    /\ UNCHANGED <<claims, registry, context, pinned, turnstile, stage, held>>

Configure(t) ==
    /\ At(t, "configure")
    /\ \E flag \in claims[Target(t)] :
          /\ parallel' = [parallel EXCEPT ![GateOf(t)] = IF @ = {} THEN {flag} ELSE @]
          /\ IF parallel'[GateOf(t)] = {flag}
             THEN Goto(t, "ready") /\ UNCHANGED closing
             ELSE Goto(t, "drop") /\ closing' = [closing EXCEPT ![t] = TRUE]
    /\ UNCHANGED <<claims, registry, context, pinned, turnstile, stage,
                   base, snap, liveGate, snapGate, dying>>

(* call: snapshot while capturing the live resource, then start, then any  *)
(* number of callbacks of the capture.                                     *)
BeginCall(t) ==
    /\ At(t, "ready")
    /\ IF parallel[GateOf(t)] = {TRUE} THEN UNCHANGED turnstile ELSE Admit(t)
    /\ Goto(t, "calling")
    /\ UNCHANGED <<claims, gates, stage, held>>

(* The snapshot retains the very same context, one in use or a new one.    *)
Snapshot(t, a) ==
    /\ At(t, "calling") /\ stage[t] = "live"
    /\ \/ (\E u \in Threads : HeldBy(u, a)) /\ UNCHANGED claims
       \/ Free(a) /\ \E c \in Claims : claims' = [claims EXCEPT ![a] = c]
    /\ snap' = [snap EXCEPT ![t] = a]
    /\ stage' = [stage EXCEPT ![t] = "snapshot"]
    /\ Dismiss(t)
    /\ Goto(t, "lookup")
    /\ UNCHANGED <<gates, base, liveGate, snapGate, dying, closing>>

(* A callback fails, and with it the capture when it is under way.         *)
CallFails(t) ==
    /\ At(t, "calling")
    /\ Dismiss(t)
    /\ IF liveGate[t] # NULL
       THEN Goto(t, "drop") /\ closing' = [closing EXCEPT ![t] = TRUE]
       ELSE Goto(t, "ready") /\ UNCHANGED closing
    /\ UNCHANGED <<claims, gates, stage, base, snap, liveGate, snapGate, dying>>

(* The first call of the snapshot ends the capture: its local live_gate    *)
(* is dropped.                                                             *)
CallReturns(t) ==
    /\ At(t, "calling") /\ stage[t] = "snapshot"
    /\ Dismiss(t)
    /\ Goto(t, IF liveGate[t] # NULL THEN "drop" ELSE "ready")
    /\ UNCHANGED <<claims, gates, stage, held>>

ReleaseBase(t) ==
    /\ At(t, "ready") /\ stage[t] = "snapshot" /\ liveGate[t] = NULL
    /\ base[t] # NULL
    /\ base' = [base EXCEPT ![t] = NULL]
    /\ UNCHANGED <<claims, gates, turnstile, pc, stage, snap, liveGate, snapGate, dying, closing>>

Close(t) ==
    /\ At(t, "ready") /\ stage[t] = "snapshot" /\ liveGate[t] = NULL
    /\ closing' = [closing EXCEPT ![t] = TRUE]
    /\ Goto(t, "drop")
    /\ UNCHANGED <<claims, gates, turnstile, stage, base, snap, liveGate, snapGate, dying>>

-----------------------------------------------------------------------------
(* Dropping an Arc: the gate of a capture goes before its snapshot, and    *)
(* before the live gate when both go.  The last Arc runs Drop.             *)
LastHolder(t, g) ==
    \A u \in Threads \ {t} : g \notin {liveGate[u], snapGate[u]}

DropSnapGate(t) ==
    /\ At(t, "drop") /\ closing[t] /\ snapGate[t] # NULL
    /\ snapGate' = [snapGate EXCEPT ![t] = NULL]
    /\ IF LastHolder(t, snapGate[t]) /\ liveGate[t] # snapGate[t]
       THEN dying' = [dying EXCEPT ![t] = snapGate[t]] /\ Goto(t, "unregister")
       ELSE UNCHANGED dying /\ Goto(t, "dropped")
    /\ UNCHANGED <<claims, gates, turnstile, stage, base, snap, liveGate, closing>>

DropLiveGate(t) ==
    /\ At(t, "drop") /\ (closing[t] => snapGate[t] = NULL)
    /\ liveGate' = [liveGate EXCEPT ![t] = NULL]
    /\ IF LastHolder(t, liveGate[t]) /\ liveGate[t] # snapGate[t]
       THEN dying' = [dying EXCEPT ![t] = liveGate[t]] /\ Goto(t, "unregister")
       ELSE UNCHANGED dying /\ Goto(t, "dropped")
    /\ UNCHANGED <<claims, gates, turnstile, stage, base, snap, snapGate, closing>>

(* Mutants of Unregister: no comparison with the entry; no removal.        *)
Unregister_AnyEntry(t) ==
    /\ At(t, "unregister")
    /\ registry' = [registry EXCEPT ![context[dying[t]]] = NULL]
    /\ Goto(t, "unpin")
    /\ UNCHANGED <<claims, context, parallel, pinned, turnstile, stage, held>>

Unregister_Keeps(t) ==
    /\ At(t, "unregister")
    /\ Goto(t, "unpin")
    /\ UNCHANGED <<claims, gates, turnstile, stage, held>>

Unregister(t) ==
    /\ At(t, "unregister")
    /\ registry' = [registry EXCEPT ![context[dying[t]]] = IF @ = dying[t] THEN NULL ELSE @]
    /\ Goto(t, "unpin")
    /\ UNCHANGED <<claims, context, parallel, pinned, turnstile, stage, held>>

Unpin(t) ==
    /\ At(t, "unpin")
    /\ pinned' = [pinned EXCEPT ![dying[t]] = FALSE]
    /\ parallel' = [parallel EXCEPT ![dying[t]] = {}]
    /\ context' = [context EXCEPT ![dying[t]] = NULL]
    /\ dying' = [dying EXCEPT ![t] = NULL]
    /\ Goto(t, "dropped")
    /\ UNCHANGED <<claims, registry, turnstile, stage, base, snap, liveGate, snapGate, closing>>

(* What follows a dropped gate: the capture is returned; or the snapshot   *)
(* is released, the live gate dropped, and the caller's resource released. *)
CaptureReturned(t) ==
    /\ At(t, "dropped") /\ ~closing[t]
    /\ Goto(t, "ready")
    /\ UNCHANGED <<claims, gates, turnstile, stage, held>>

ReleaseSnapshot(t) ==
    /\ At(t, "dropped") /\ closing[t] /\ snap[t] # NULL
    /\ snap' = [snap EXCEPT ![t] = NULL]
    /\ Goto(t, IF liveGate[t] # NULL THEN "drop" ELSE "dropped")
    /\ UNCHANGED <<claims, gates, turnstile, stage, base, liveGate, snapGate, dying, closing>>

Finish(t) ==
    /\ At(t, "dropped") /\ closing[t] /\ snap[t] = NULL
    /\ base' = [base EXCEPT ![t] = NULL]
    /\ stage' = [stage EXCEPT ![t] = "live"]
    /\ closing' = [closing EXCEPT ![t] = FALSE]
    /\ Goto(t, "idle")
    /\ UNCHANGED <<claims, gates, turnstile, snap, liveGate, snapGate, dying>>

Next ==
    \E t \in Threads :
        \/ \E a \in Contexts : Obtain(t, a) \/ Snapshot(t, a)
        \/ \E g \in Gates : NewGate(t, g)
        \/ Upgrade(t) \/ CheckPin(t) \/ BeginBaseCall(t) \/ Retain(t) \/ Discover(t)
        \/ Configure(t) \/ BeginCall(t) \/ CallFails(t) \/ CallReturns(t)
        \/ ReleaseBase(t) \/ Close(t)
        \/ DropSnapGate(t) \/ DropLiveGate(t) \/ Unregister(t) \/ Unpin(t)
        \/ CaptureReturned(t) \/ ReleaseSnapshot(t) \/ Finish(t)

Spec == Init /\ [][Next]_vars

-----------------------------------------------------------------------------
(* Correctness                                                             *)

(* The thread executes customer code of the context.                       *)
Executing(t, a) ==
    pc[t] \in {"retaining", "discovering", "calling"} /\ Target(t) = a

(* Two captures of one context share one gate, however their lookups and   *)
(* drops interleave (the comment on ContextProviderCallGate).              *)
OneGatePerContext ==
    \A g, h \in Gates :
        Live(g) /\ Live(h) /\ context[g] = context[h] => g = h

(* Customer code of one context overlaps only through an interface that    *)
(* claimed it may, discovery included.                                     *)
SerialCallbacksExclude ==
    \A t, u \in Threads, a \in Contexts :
        t # u /\ Executing(t, a) /\ Executing(u, a) =>
            \E v \in {t, u} : pc[v] = "calling" /\ parallel[GateOf(v)] = {TRUE}

(* The registry only names gates that are held or being dropped: it does   *)
(* not grow with the contexts ever captured, and no entry dangles.         *)
RegistryIsTight ==
    \A a \in Contexts :
        registry[a] # NULL =>
            /\ context[registry[a]] = a
            /\ Live(registry[a]) \/ \E t \in Threads : dying[t] = registry[a]
=============================================================================
