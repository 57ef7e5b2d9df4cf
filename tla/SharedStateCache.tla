------------------------- MODULE SharedStateCache -------------------------
(***************************************************************************)
(* SharedStateCache<T> (src/src/wfst/shared_cache.rs): one atomically      *)
(* replaced root, an immutable snapshot holding the generation marker and  *)
(* the residency storage, shared by any number of threads.                 *)
(*                                                                         *)
(* A step of a worker is one access to shared memory with the local        *)
(* computation around it: a root load, a compare-and-swap, a store, or the *)
(* update of one statistics counter.  The computation a miss runs outside  *)
(* the cache is the gap between two steps.  A reentrant call from that     *)
(* computation is, to the cache, a call of another worker.                 *)
(*                                                                         *)
(* Heap identity is explicit.  Roots and generation markers are compared   *)
(* by Arc pointer, and an address is reused once nobody holds it, so both  *)
(* come from finite sets and a new one is any address not held.            *)
(***************************************************************************)
EXTENDS LruStorage, Sequences

CONSTANTS Workers,      \* the calling threads; also the identity of a computed value
          Ids,          \* state identifiers
          Policies,     \* the policies in use: [kind, capacity]
          Addresses,    \* heap addresses, of roots and of generation markers
          CounterMax,   \* the value a counter saturates at (u64::MAX)
          NULL          \* Option::None

Kinds == {"CacheAll", "NoCache", "Lru"}

ASSUME PolicyAssumption ==
    /\ Policies \subseteq [kind : Kinds, capacity : Nat]
    /\ \A p \in Policies : p.kind = "Lru" => p.capacity > 0
ASSUME NullAssumption == NULL \notin Workers \cup Ids \cup Addresses
ASSUME CounterAssumption == CounterMax \in Nat

VARIABLES root,         \* the published snapshot
          pc,           \* where each worker stands
          id,           \* the id it asked for
          value,        \* the value it holds, and finally returns
          generation,   \* the generation marker it retains across computation
          cold,         \* whether it publishes a computed value (or a hit)
          current,      \* the snapshot its last load guards
          owed,         \* the counters it has still to increment, in order
          counters,     \* the statistics
          overtaken     \* history: a flush replaced the generation it retains

vars == <<root, pc, id, value, generation, cold, current, owed, counters, overtaken>>
locals == <<pc, id, value, generation, cold, current, owed, overtaken>>

CounterNames == {"hits", "misses", "faults", "uncacheable_results", "insertions",
                 "evictions", "raced_publications", "clears"}

-----------------------------------------------------------------------------
(* Snapshots                                                               *)

Snapshot(at, gen, p) ==
    [at |-> at, generation |-> gen, policy |-> p, storage |-> EmptyStorage(p.capacity)]

Holds(snapshot, i) ==
    snapshot.policy.kind # "NoCache" /\ i \in Residents(snapshot.storage)

(* CacheAll hits never touch; an Lru hit touches unless already the tail.  *)
Touch(snapshot, i) ==
    IF snapshot.policy.kind = "Lru" THEN TouchOf(snapshot.storage, i) ELSE NoSlot

ValueOf(snapshot, i) == snapshot.storage.entries[i].value

(* record: the storage after publishing access i, resolved in snapshot.    *)
Recorded(snapshot, i, v, touch) ==
    IF snapshot.policy.kind = "CacheAll"
    THEN [snapshot.storage EXCEPT !.entries = WithEntry(@, {}, i, NoSlot, v)]
    ELSE IF touch # NoSlot THEN TouchSlot(snapshot.storage, touch)
                           ELSE InsertId(snapshot.storage, i, v)

Evicts(snapshot, i) ==
    snapshot.policy.kind = "Lru" /\ ~Holds(snapshot, i) /\ Full(snapshot.storage)

(* Addresses some root pointer or some retained marker still names.        *)
Guarding == {w \in Workers : pc[w] \in {"swap", "clear"}}
HeldRoots == {root.at} \cup {current[w].at : w \in Guarding}
(* Mutant of HeldGenerations: workers compare markers without retaining    *)
(* them.                                                                   *)
HeldGenerations_RootOnly == {root.generation}

HeldGenerations ==
    {root.generation} \cup {generation[w] : w \in Workers}
        \cup {current[w].generation : w \in Guarding}

-----------------------------------------------------------------------------
Init ==
    /\ \E at, gen \in Addresses, p \in Policies : root = Snapshot(at, gen, p)
    /\ pc = [w \in Workers |-> "idle"]
    /\ id = [w \in Workers |-> NULL]
    /\ value = [w \in Workers |-> NULL]
    /\ generation = [w \in Workers |-> NULL]
    /\ cold = [w \in Workers |-> FALSE]
    /\ current = [w \in Workers |-> NULL]
    /\ owed = [w \in Workers |-> << >>]
    /\ counters = [c \in CounterNames |-> 0]
    /\ overtaken = [w \in Workers |-> FALSE]

At(w, label) == pc[w] = label /\ owed[w] = << >>
Goto(w, label) == pc' = [pc EXCEPT ![w] = label]
Owe(w, list) == owed' = [owed EXCEPT ![w] = list]

(* A worker that leaves the protocol drops the marker and the guard.       *)
Release(w) ==
    /\ generation' = [generation EXCEPT ![w] = NULL]
    /\ current' = [current EXCEPT ![w] = NULL]
    /\ cold' = [cold EXCEPT ![w] = FALSE]
    /\ overtaken' = [overtaken EXCEPT ![w] = FALSE]

Answer(w, v) ==
    /\ Goto(w, "return")
    /\ value' = [value EXCEPT ![w] = v]
    /\ Release(w)

(* get_or_try_insert_with: the first lookup.                               *)
HitInPlace(w, i) ==
    /\ At(w, "idle")
    /\ Holds(root, i) /\ Touch(root, i) = NoSlot
    /\ id' = [id EXCEPT ![w] = i]
    /\ Answer(w, ValueOf(root, i))
    /\ Owe(w, <<"hits">>)
    /\ UNCHANGED <<root, counters>>

HitToTouch(w, i) ==
    /\ At(w, "idle")
    /\ Holds(root, i) /\ Touch(root, i) # NoSlot
    /\ id' = [id EXCEPT ![w] = i]
    /\ value' = [value EXCEPT ![w] = ValueOf(root, i)]
    /\ generation' = [generation EXCEPT ![w] = root.generation]
    /\ Owe(w, <<"hits">>)
    /\ Goto(w, "publish")
    /\ UNCHANGED <<root, cold, current, counters, overtaken>>

Miss(w, i) ==
    /\ At(w, "idle")
    /\ ~Holds(root, i)
    /\ id' = [id EXCEPT ![w] = i]
    /\ generation' = [generation EXCEPT ![w] =
                         IF root.policy.kind = "NoCache" THEN NULL ELSE root.generation]
    /\ Owe(w, <<"misses">>)
    /\ Goto(w, "compute")
    /\ UNCHANGED <<root, value, cold, current, counters, overtaken>>

(* The outcomes of the caller's compute and admit.                         *)
Fault(w) ==
    /\ At(w, "compute")
    /\ Answer(w, NULL)
    /\ Owe(w, <<"faults">>)
    /\ UNCHANGED <<root, id, counters>>

Uncacheable(w) ==
    /\ At(w, "compute")
    /\ Answer(w, w)
    /\ Owe(w, <<"uncacheable_results">>)
    /\ UNCHANGED <<root, id, counters>>

Bypass(w) ==
    /\ At(w, "compute") /\ generation[w] = NULL
    /\ Answer(w, w)
    /\ UNCHANGED <<root, id, owed, counters>>

Computed(w) ==
    /\ At(w, "compute") /\ generation[w] # NULL
    /\ value' = [value EXCEPT ![w] = w]
    /\ cold' = [cold EXCEPT ![w] = TRUE]
    /\ Goto(w, "publish")
    /\ UNCHANGED <<root, id, generation, current, owed, counters, overtaken>>

(* A panic in compute unwinds through the call; no guard is held.          *)
Unwind(w) ==
    /\ At(w, "compute")
    /\ Goto(w, "idle")
    /\ id' = [id EXCEPT ![w] = NULL]
    /\ Release(w)
    /\ UNCHANGED <<root, value, owed, counters>>

(* publish, from the load of the root to the staged successor.             *)
PublishStale(w) ==
    /\ At(w, "publish")
    /\ root.generation # generation[w] \/ root.policy.kind = "NoCache"
    /\ Answer(w, value[w])
    /\ UNCHANGED <<root, id, owed, counters>>

(* Mutant of PublishNothing: a lost race returns the caller's own value.   *)
PublishNothing_OwnValue(w) ==
    /\ At(w, "publish")
    /\ root.generation = generation[w]
    /\ Holds(root, id[w]) /\ Touch(root, id[w]) = NoSlot
    /\ Answer(w, value[w])
    /\ Owe(w, IF cold[w] THEN <<"raced_publications">> ELSE << >>)
    /\ UNCHANGED <<root, id, counters>>

PublishNothing(w) ==
    /\ At(w, "publish")
    /\ root.generation = generation[w]
    /\ Holds(root, id[w]) /\ Touch(root, id[w]) = NoSlot
    /\ Answer(w, ValueOf(root, id[w]))
    /\ Owe(w, IF cold[w] THEN <<"raced_publications">> ELSE << >>)
    /\ UNCHANGED <<root, id, counters>>

(* Mutant of Stage: the generation is not compared.                        *)
Stage_AnyGeneration(w) ==
    /\ At(w, "publish")
    /\ root.policy.kind # "NoCache"
    /\ ~(Holds(root, id[w]) /\ Touch(root, id[w]) = NoSlot)
    /\ current' = [current EXCEPT ![w] = root]
    /\ Goto(w, "swap")
    /\ UNCHANGED <<root, id, value, generation, cold, owed, counters, overtaken>>

Stage(w) ==
    /\ At(w, "publish")
    /\ root.generation = generation[w] /\ root.policy.kind # "NoCache"
    /\ ~(Holds(root, id[w]) /\ Touch(root, id[w]) = NoSlot)
    /\ current' = [current EXCEPT ![w] = root]
    /\ Goto(w, "swap")
    /\ UNCHANGED <<root, id, value, generation, cold, owed, counters, overtaken>>

Canonical(w) ==
    IF Holds(current[w], id[w]) THEN ValueOf(current[w], id[w]) ELSE value[w]

Staged(w) ==
    LET touch == IF Holds(current[w], id[w]) THEN Touch(current[w], id[w]) ELSE NoSlot
    IN  Recorded(current[w], id[w], Canonical(w), touch)

(* Mutants of PublicationCounts: a hit's reinsertion is not counted; every *)
(* touch counts as a race.                                                 *)
PublicationCounts_ColdOnly(w) ==
    LET inserted == ~Holds(current[w], id[w]) IN
    (IF inserted /\ cold[w] THEN <<"insertions">> ELSE << >>)
        \o (IF Evicts(current[w], id[w]) THEN <<"evictions">> ELSE << >>)
        \o (IF cold[w] /\ ~inserted THEN <<"raced_publications">> ELSE << >>)

PublicationCounts_AnyTouch(w) ==
    LET inserted == ~Holds(current[w], id[w]) IN
    (IF inserted THEN <<"insertions">> ELSE << >>)
        \o (IF Evicts(current[w], id[w]) THEN <<"evictions">> ELSE << >>)
        \o (IF ~inserted THEN <<"raced_publications">> ELSE << >>)

PublicationCounts(w) ==
    LET inserted == ~Holds(current[w], id[w]) IN
    (IF inserted THEN <<"insertions">> ELSE << >>)
        \o (IF Evicts(current[w], id[w]) THEN <<"evictions">> ELSE << >>)
        \o (IF cold[w] /\ ~inserted THEN <<"raced_publications">> ELSE << >>)

(* Mutant of CasSucceeds: any root of the same generation will do.         *)
CasSucceeds_SameGeneration(w) == root.generation = current[w].generation

(* compare_and_swap replaces the root only if it is the very one loaded.   *)
CasSucceeds(w) == root.at = current[w].at

Publish(w) ==
    /\ At(w, "swap") /\ CasSucceeds(w)
    /\ \E at \in Addresses \ HeldRoots :
          root' = [current[w] EXCEPT !.at = at, !.storage = Staged(w)]
    /\ Answer(w, Canonical(w))
    /\ Owe(w, PublicationCounts(w))
    /\ UNCHANGED <<id, counters>>

(* Mutant of Retry: swap again without a reload.                           *)
Retry_SameGuard(w) ==
    /\ At(w, "swap") /\ ~CasSucceeds(w)
    /\ UNCHANGED vars

Retry(w) ==
    /\ At(w, "swap") /\ ~CasSucceeds(w)
    /\ current' = [current EXCEPT ![w] = NULL]
    /\ Goto(w, "publish")
    /\ UNCHANGED <<root, id, value, generation, cold, owed, counters, overtaken>>

(* A new generation overtakes every worker that retains the old one.       *)
Replacement(p) ==
    /\ \E at \in Addresses \ HeldRoots, gen \in Addresses \ HeldGenerations :
          root' = Snapshot(at, gen, p)
    /\ overtaken' = [w \in Workers |-> overtaken[w] \/ generation[w] # NULL]

ClearLoad(w) ==
    /\ At(w, "idle")
    /\ current' = [current EXCEPT ![w] = root]
    /\ Goto(w, "clear")
    /\ UNCHANGED <<root, id, value, generation, cold, owed, counters, overtaken>>

Clear(w) ==
    /\ At(w, "clear") /\ CasSucceeds(w)
    /\ Replacement(current[w].policy)
    /\ current' = [current EXCEPT ![w] = NULL]
    /\ Owe(w, <<"clears">>)
    /\ Goto(w, "cleared")
    /\ UNCHANGED <<id, value, generation, cold, counters>>

(* Mutant of ClearRetry: every attempt counts as a clear.                  *)
ClearRetry_Counts(w) ==
    /\ At(w, "clear") /\ ~CasSucceeds(w)
    /\ current' = [current EXCEPT ![w] = root]
    /\ Owe(w, <<"clears">>)
    /\ UNCHANGED <<root, pc, id, value, generation, cold, counters, overtaken>>

ClearRetry(w) ==
    /\ At(w, "clear") /\ ~CasSucceeds(w)
    /\ current' = [current EXCEPT ![w] = root]
    /\ UNCHANGED <<root, pc, id, value, generation, cold, owed, counters, overtaken>>

SetPolicy(w, p) ==
    /\ At(w, "idle")
    /\ Replacement(p)
    /\ Owe(w, <<"clears">>)
    /\ Goto(w, "cleared")
    /\ UNCHANGED <<id, value, generation, cold, current, counters>>

(* increment: one saturating update.                                       *)
Count(w) ==
    /\ owed[w] # << >>
    /\ LET c == Head(owed[w]) IN
       counters' = [counters EXCEPT ![c] = IF @ < CounterMax THEN @ + 1 ELSE @]
    /\ Owe(w, Tail(owed[w]))
    /\ UNCHANGED <<root, pc, id, value, generation, cold, current, overtaken>>

Return(w) ==
    /\ At(w, "return") \/ At(w, "cleared")
    /\ Goto(w, "idle")
    /\ id' = [id EXCEPT ![w] = NULL]
    /\ value' = [value EXCEPT ![w] = NULL]
    /\ UNCHANGED <<root, generation, cold, current, owed, counters, overtaken>>

-----------------------------------------------------------------------------
(* Starting an operation, and continuing one.                              *)
Start(w) == \/ \E i \in Ids : HitInPlace(w, i) \/ HitToTouch(w, i) \/ Miss(w, i)
            \/ ClearLoad(w)
            \/ \E p \in Policies : SetPolicy(w, p)

Continue(w) == \/ Fault(w) \/ Uncacheable(w) \/ Bypass(w) \/ Computed(w) \/ Unwind(w)
               \/ PublishStale(w) \/ PublishNothing(w) \/ Stage(w)
               \/ Publish(w) \/ Retry(w)
               \/ Clear(w) \/ ClearRetry(w)
               \/ Count(w) \/ Return(w)

Next == \E w \in Workers : Start(w) \/ Continue(w)

Spec == Init /\ [][Next]_vars

(* Every thread keeps running inside an operation, and the computations    *)
(* its callers supply end; nobody is obliged to start another operation.   *)
FairSpec == Spec /\ \A w \in Workers : WF_vars(Continue(w))

-----------------------------------------------------------------------------
(* Correctness                                                             *)

Labels == {"idle", "compute", "publish", "swap", "return", "clear", "cleared"}

IsSnapshot(r) ==
    /\ r \in [at : Addresses, generation : Addresses, policy : Policies,
              storage : {r.storage}]
    /\ IsStorage(r.storage, Ids, Workers)
    /\ r.storage.capacity = r.policy.capacity

(* Every variable stays in its type, a worker retains a marker exactly     *)
(* while it is inside a cacheable request and a guard exactly between its  *)
(* load and its swap.                                                      *)
TypeOK ==
    /\ IsSnapshot(root)
    /\ pc \in [Workers -> Labels]
    /\ id \in [Workers -> Ids \cup {NULL}]
    /\ value \in [Workers -> Workers \cup {NULL}]
    /\ generation \in [Workers -> Addresses \cup {NULL}]
    /\ cold \in [Workers -> BOOLEAN]
    /\ overtaken \in [Workers -> BOOLEAN]
    /\ owed \in [Workers -> Seq(CounterNames)]
    /\ counters \in [CounterNames -> 0..CounterMax]
    /\ current \in [Workers -> {current[w] : w \in Workers}]
    /\ \A w \in Workers :
          /\ pc[w] \in {"swap", "clear"} => IsSnapshot(current[w])
          /\ pc[w] \notin {"swap", "clear"} => current[w] = NULL
          /\ pc[w] \in {"compute", "publish", "swap"} => id[w] \in Ids
          /\ pc[w] \in {"publish", "swap"} => value[w] \in Workers /\ generation[w] # NULL
          /\ pc[w] \notin {"compute", "publish", "swap"} => generation[w] = NULL

(* checked_order holds of the published Lru storage in every state, not    *)
(* only in the quiescent ones where the tests call it.                     *)
RecencyIndexCoherent ==
    root.policy.kind = "Lru" => CheckedOrder(root.storage)

(* The retained marker identifies a generation: by comparing addresses     *)
(* that the allocator recycles, a worker still learns exactly whether a    *)
(* clear or a policy change came between (get_or_try_insert_with's         *)
(* `generation`, publish's ptr_eq).                                        *)
MarkerIdentifiesGeneration ==
    \A w \in Workers :
        generation[w] # NULL => (overtaken[w] <=> generation[w] # root.generation)

(* A computation in flight across a clear or a policy change never         *)
(* repopulates the cache: only a worker of the present generation replaces *)
(* the storage without flushing it (clear's doc comment).                  *)
NoStaleAdmission ==
    [][root.generation = root'.generation /\ root.storage # root'.storage
         => \E w \in Workers : /\ pc[w] = "swap" /\ pc'[w] = "return"
                               /\ ~overtaken[w]]_vars

(* Publication selects one canonical value: whoever returns from publish   *)
(* without having been overtaken returns the value resident at that        *)
(* instant, as the most recent entry.                                      *)
AnswerIsCanonical ==
    [][\A w \in Workers :
         pc[w] \in {"publish", "swap"} /\ pc'[w] = "return" /\ ~overtaken[w]
            => /\ Holds(root', id[w]) /\ value'[w] = ValueOf(root', id[w])
               /\ Touch(root', id[w]) = NoSlot]_vars

(* Synchronization is lock-free (the cache's doc comment): as long as some *)
(* worker is inside an operation, operations keep completing, though one   *)
(* worker's swap may lose every time.                                      *)
LockFree ==
    \/ []<>(\A w \in Workers : pc[w] = "idle")
    \/ []<><<\E w \in Workers : pc[w] # "idle" /\ pc'[w] = "idle">>_vars
=============================================================================
