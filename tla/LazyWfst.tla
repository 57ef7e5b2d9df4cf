------------------------------ MODULE LazyWfst ------------------------------
(***************************************************************************)
(* LazyWfstWrapper and the StateSource behind it (src/src/wfst/lazy.rs).   *)
(*                                                                         *)
(* One owner calls the wrapper through `&mut self`; an expansion leaves it *)
(* for the source and comes back.  Meanwhile, or between calls, others may *)
(* change what the source computes and may cancel the token of the call.   *)
(* Each step reads the source's snapshot or the token at most once.        *)
(*                                                                         *)
(* A record is [phase, retry, attempt, from]: `from` is the source a       *)
(* result was computed by, and is history.  Weights and transitions are    *)
(* abstracted to whether there are any; which reason cancelled a call, and *)
(* computed_count, which moves with the attempts, are left out; so is      *)
(* start(), which is not guarded by the snapshot.                          *)
(***************************************************************************)
EXTENDS LazyCache

CONSTANTS Sources,      \* what a source may compute: languages and weights
          Digest,       \* the snapshot each of them reports
          Recurring,    \* whether a snapshot once left may be reported again
          Policies,     \* the cache policies in use: [kind, max]
          MaxAttempts   \* where the attempt counter saturates

ASSUME DigestAssumption == Digest \in [Sources -> Nat]
ASSUME RecurringAssumption == Recurring \in BOOLEAN
ASSUME AttemptsAssumption == MaxAttempts \in Nat
ASSUME PolicyAssumption ==
    Policies \subseteq [kind : {"CacheAll", "NoCache", "Lru"}, max : Nat]

VARIABLES source,      \* what the source computes now
          snapshot,    \* current_snapshot
          cache,       \* cache, lru_head and lru_tail
          lifecycle,   \* expanding, failed and cancelled records
          transient,   \* transient_state: at most one completed record
          policy,      \* the cache policy
          attempts,    \* total_attempts
          pc,          \* where the expansion under way stands
          state, mode, \* its arguments
          token,       \* whether its token is cancelled
          outcome      \* what the source returned

store == <<cache, lifecycle, transient>>
call == <<pc, state, mode, token, outcome>>
vars == <<source, snapshot, store, policy, attempts, call>>

Completed == {"empty", "nonempty"}
Failures  == {"failed", "cancelled"}

Record(phase, retry, attempt, from) ==
    [phase |-> phase, retry |-> retry, attempt |-> attempt, from |-> from]
Cancelled(attempt) == Record("cancelled", FALSE, attempt, NULL)
Unexpanded == Record("unexpanded", FALSE, 0, NULL)

Persistent(p) == p.kind # "NoCache" /\ ~(p.kind = "Lru" /\ p.max = 0)

(* state_entry: the cache, then the transient state, then the lifecycle.   *)
EntryOf(s) ==
    IF s \in Cached(cache) THEN cache.entries[s].record
    ELSE IF s \in DOMAIN transient THEN transient[s]
    ELSE IF s \in DOMAIN lifecycle THEN lifecycle[s] ELSE Unexpanded

Init ==
    /\ source \in Sources /\ snapshot = Digest[source]
    /\ cache = EmptyCache /\ lifecycle = << >> /\ transient = << >>
    /\ policy \in Policies
    /\ attempts = 0
    /\ pc = "idle" /\ state = NULL /\ mode = NULL /\ token = FALSE /\ outcome = NULL

At(label) == pc = label
Fresh == Digest[source] = snapshot
Return == pc' = "idle" /\ state' = NULL /\ mode' = NULL /\ token' = FALSE /\ outcome' = NULL

StoreLifecycle(s, record) ==
    /\ lifecycle' = With(lifecycle, s, record)
    /\ UNCHANGED <<cache, transient>>

ClearAllStates == cache' = EmptyCache /\ lifecycle' = << >> /\ transient' = << >>

Rebind(observed) ==
    /\ ClearAllStates
    /\ snapshot' = observed
    /\ attempts' = 0

ClearState(s) ==
    /\ cache' = RemoveCached(cache, s)
    /\ lifecycle' = Without(lifecycle, s)
    /\ transient' = Without(transient, s)

-----------------------------------------------------------------------------
(* The source and the holders of the token.                                *)

(* A source whose semantics change reports another snapshot.               *)
SourceChanges(new) ==
    /\ IF Recurring THEN Digest[new] # Digest[source] ELSE Digest[new] > Digest[source]
    /\ source' = new
    /\ UNCHANGED <<snapshot, store, policy, attempts, call>>

Cancel ==
    /\ ~At("idle") /\ ~token
    /\ token' = TRUE
    /\ UNCHANGED <<source, snapshot, store, policy, attempts, pc, state, mode, outcome>>

-----------------------------------------------------------------------------
(* expand_mode.  A stale snapshot is an error that changes nothing.        *)

Hit(s) ==
    /\ At("idle") /\ Fresh
    /\ EntryOf(s).phase \in Completed
    /\ cache' = IF policy.kind = "Lru" THEN TouchLru(cache, s) ELSE cache
    /\ UNCHANGED <<source, snapshot, lifecycle, transient, policy, attempts, call>>

Check(s, m, cancelled) ==
    /\ At("idle") /\ Fresh
    /\ EntryOf(s).phase \notin Completed
    /\ pc' = "checked" /\ state' = s /\ mode' = m /\ token' = cancelled
    /\ UNCHANGED <<source, snapshot, store, policy, attempts, outcome>>

(* Mutant of Authorized: a retry needs no retryable failure.               *)
Authorized_AnyFailure ==
    \/ mode = "Normal" /\ EntryOf(state).phase = "unexpanded"
    \/ mode = "ExplicitRetry" /\ EntryOf(state).phase = "failed"

(* authorizes_status                                                       *)
Authorized ==
    \/ mode = "Normal" /\ EntryOf(state).phase = "unexpanded"
    \/ mode = "ExplicitRetry" /\ EntryOf(state).phase = "failed" /\ EntryOf(state).retry

Precancel ==
    /\ At("checked") /\ token /\ Authorized
    /\ StoreLifecycle(state, Cancelled(attempts))
    /\ Return
    /\ UNCHANGED <<source, snapshot, policy, attempts>>

Refuse ==
    /\ At("checked") /\ ~Authorized
    /\ Return
    /\ UNCHANGED <<source, snapshot, store, policy, attempts>>

Begin ==
    /\ At("checked") /\ ~token /\ Authorized
    /\ attempts' = IF attempts = MaxAttempts THEN attempts ELSE attempts + 1
    /\ StoreLifecycle(state, Record("expanding", FALSE, attempts', NULL))
    /\ pc' = "invoking"
    /\ UNCHANGED <<source, snapshot, policy, state, mode, token, outcome>>

(* compute_state observes the source at some instant of the call, and      *)
(* completes, fails, cancels itself, or panics.                            *)
Compute(phase, retry) ==
    /\ At("invoking")
    /\ outcome' = Record(phase, retry, attempts, source)
    /\ pc' = "returned"
    /\ UNCHANGED <<source, snapshot, store, policy, attempts, state, mode, token>>

Panic ==
    /\ At("invoking")
    /\ pc' = "unwinding"
    /\ UNCHANGED <<source, snapshot, store, policy, attempts, state, mode, token, outcome>>

(* Mutant of Unwind: the owner's record is left behind.                    *)
Unwind_KeepsOwner ==
    /\ At("unwinding")
    /\ IF Fresh THEN UNCHANGED <<store, snapshot, attempts>>
                ELSE Rebind(Digest[source])
    /\ Return
    /\ UNCHANGED <<source, policy>>

Unwind ==
    /\ At("unwinding")
    /\ IF Fresh THEN ClearState(state) /\ UNCHANGED <<snapshot, attempts>>
                ELSE Rebind(Digest[source])
    /\ Return
    /\ UNCHANGED <<source, policy>>

Reject ==
    /\ At("returned") /\ ~Fresh
    /\ Rebind(Digest[source])
    /\ Return
    /\ UNCHANGED <<source, policy>>

(* Mutant of Accept: no comparison after the call.                         *)
Accept_Unchecked ==
    /\ At("returned")
    /\ pc' = "accepted"
    /\ UNCHANGED <<source, snapshot, store, policy, attempts, state, mode, token, outcome>>

Accept ==
    /\ At("returned") /\ Fresh
    /\ pc' = "accepted"
    /\ UNCHANGED <<source, snapshot, store, policy, attempts, state, mode, token, outcome>>

CancelWins ==
    /\ At("accepted") /\ token
    /\ StoreLifecycle(state, Cancelled(attempts))
    /\ Return
    /\ UNCHANGED <<source, snapshot, policy, attempts>>

Fail ==
    /\ At("accepted") /\ ~token /\ outcome.phase \in Failures
    /\ StoreLifecycle(state, outcome)
    /\ Return
    /\ UNCHANGED <<source, snapshot, policy, attempts>>

InsertCompleted(s, record) ==
    /\ lifecycle' = Without(lifecycle, s)
    /\ IF Persistent(policy)
       THEN /\ cache' = IF policy.kind = "Lru" THEN InsertRecent(cache, s, record, policy.max)
                                               ELSE InsertUnlinked(cache, s, record)
            /\ transient' = << >>
       ELSE transient' = With(<< >>, s, record) /\ UNCHANGED cache

Complete ==
    /\ At("accepted") /\ ~token /\ outcome.phase \in Completed
    /\ InsertCompleted(state, outcome)
    /\ Return
    /\ UNCHANGED <<source, snapshot, policy, attempts>>

-----------------------------------------------------------------------------
(* The other operations.                                                   *)

(* Mutant of Reset: the attempt is given back.                             *)
Reset_GivesBack(s) ==
    /\ At("idle") /\ Fresh /\ EntryOf(s).phase \in Failures
    /\ ClearState(s)
    /\ attempts' = IF attempts = 0 THEN 0 ELSE attempts - 1
    /\ UNCHANGED <<source, snapshot, policy, call>>

(* reset_failed and reset_cancelled.                                       *)
Reset(s) ==
    /\ At("idle") /\ Fresh /\ EntryOf(s).phase \in Failures
    /\ ClearState(s)
    /\ UNCHANGED <<source, snapshot, policy, attempts, call>>

Forget(s) ==
    /\ At("idle")
    /\ ClearState(s)
    /\ UNCHANGED <<source, snapshot, policy, attempts, call>>

ClearCache ==
    /\ At("idle")
    /\ ClearAllStates
    /\ UNCHANGED <<source, snapshot, policy, attempts, call>>

RefreshSnapshot ==
    /\ At("idle") /\ ~Fresh
    /\ Rebind(Digest[source])
    /\ UNCHANGED <<source, policy, call>>

(* The new source may report the old one's snapshot and compute otherwise. *)
ReplaceSource(new) ==
    /\ At("idle")
    /\ source' = new
    /\ Rebind(Digest[new])
    /\ UNCHANGED <<policy, call>>

(* Mutant of SetCachePolicy: the transient state survives.                 *)
SetCachePolicy_KeepsTransient(p) ==
    /\ At("idle")
    /\ policy' = p
    /\ cache' = IF ~Persistent(p) THEN EmptyCache
                ELSE IF p.kind = "Lru" THEN Rebound(cache, p.max) ELSE Unlinked(cache)
    /\ UNCHANGED <<source, snapshot, transient, lifecycle, attempts, call>>

(* Every arm drops the transient state; failures and cancellations stay.   *)
SetCachePolicy(p) ==
    /\ At("idle")
    /\ policy' = p
    /\ cache' = IF ~Persistent(p) THEN EmptyCache
                ELSE IF p.kind = "Lru" THEN Rebound(cache, p.max) ELSE Unlinked(cache)
    /\ transient' = << >>
    /\ UNCHANGED <<source, snapshot, lifecycle, attempts, call>>

-----------------------------------------------------------------------------
Expansion ==
    \/ \E s \in States :
          Hit(s) \/ \E m \in {"Normal", "ExplicitRetry"}, c \in BOOLEAN : Check(s, m, c)
    \/ Precancel \/ Refuse \/ Begin
    \/ \E phase \in Completed \cup {"cancelled"} : Compute(phase, FALSE)
    \/ \E retry \in BOOLEAN : Compute("failed", retry)
    \/ Panic \/ Unwind \/ Reject \/ Accept \/ CancelWins \/ Fail \/ Complete

Maintenance ==
    \/ \E s \in States : Reset(s) \/ Forget(s)
    \/ ClearCache \/ RefreshSnapshot
    \/ \E new \in Sources : ReplaceSource(new)
    \/ \E p \in Policies : SetCachePolicy(p)

Next ==
    \/ Expansion \/ Maintenance
    \/ Cancel
    \/ \E new \in Sources : SourceChanges(new)

Spec == Init /\ [][Next]_vars

-----------------------------------------------------------------------------
(* Correctness                                                             *)

Records(phases, froms) ==
    [phase : phases, retry : BOOLEAN, attempt : 0..MaxAttempts, from : froms]
Results == Records(Completed \cup Failures, Sources)
Labels == {"idle", "checked", "invoking", "unwinding", "returned", "accepted"}
Invoking == {"invoking", "unwinding", "returned", "accepted"}

(* Every variable keeps its type: only completed results are cached or     *)
(* transient, and the call's arguments exist while it runs.                *)
TypeOK ==
    /\ source \in Sources /\ snapshot \in Nat /\ policy \in Policies
    /\ attempts \in 0..MaxAttempts
    /\ Cached(cache) \subseteq States
    /\ \A s \in Cached(cache) : cache.entries[s].record \in Records(Completed, Sources)
    /\ DOMAIN transient \subseteq States
    /\ \A s \in DOMAIN transient : transient[s] \in Records(Completed, Sources)
    /\ DOMAIN lifecycle \subseteq States
    /\ \A s \in DOMAIN lifecycle :
          lifecycle[s] \in Records({"expanding"} \cup Failures, Sources \cup {NULL})
    /\ pc \in Labels /\ token \in BOOLEAN
    /\ IF At("idle") THEN state = NULL /\ mode = NULL
                     ELSE state \in States /\ mode \in {"Normal", "ExplicitRetry"}
    /\ IF pc \in {"returned", "accepted"} THEN outcome \in Results ELSE outcome = NULL

Retained == {EntryOf(s) : s \in States}

(* Every retained result was computed by a source that reports the         *)
(* wrapper's snapshot, and while the wrapper is fresh by the present one,  *)
(* whatever changed while the expansion was away                           *)
(* (docs/architecture/lazy-wfst-lifecycle.md: the loop invariant, and "a   *)
(* stale source result is never published").                               *)
RetainedIsFresh ==
    \A r \in Retained :
        r.phase \in Completed \cup {"failed"} =>
            Digest[r.from] = snapshot /\ (Fresh => r.from = source)

(* The lifecycle holds an Expanding record exactly for the state of the    *)
(* call that is at the source: a panic, a stale result or a cancellation   *)
(* leaves no state owned for ever.                                         *)
SoleOwner ==
    {s \in States : EntryOf(s).phase = "expanding"} = IF pc \in Invoking THEN {state} ELSE {}

(* A state has one record, and completed results are kept where the policy *)
(* wants them (the assertions of store_lifecycle).                         *)
OneRecordEach ==
    /\ Cached(cache) \cap DOMAIN lifecycle = {}
    /\ DOMAIN transient \cap (Cached(cache) \cup DOMAIN lifecycle) = {}
    /\ Cardinality(DOMAIN transient) <= 1
    /\ IF Persistent(policy) THEN DOMAIN transient = {} ELSE Cached(cache) = {}

(* Below saturation an attempt number names one retained attempt; a        *)
(* cancellation may carry the number of the attempt before it.             *)
AttemptsIdentify ==
    /\ \A r \in Retained : r.attempt <= attempts
    /\ \A s, t \in States :
          /\ {EntryOf(s).phase, EntryOf(t).phase} \cap {"unexpanded", "cancelled"} = {}
          /\ EntryOf(s).attempt = EntryOf(t).attempt
          /\ EntryOf(s).attempt < MaxAttempts
          => s = t

(* The intrusive list is coherent under Lru, absent otherwise, and the     *)
(* bound of the policy is kept.                                            *)
LinksCoherent ==
    IF policy.kind = "Lru"
    THEN Coherent(cache) /\ Cardinality(Cached(cache)) <= policy.max
    ELSE cache = Unlinked(cache)
=============================================================================
