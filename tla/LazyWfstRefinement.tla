------------------------- MODULE LazyWfstRefinement -------------------------
(***************************************************************************)
(* LazyWfst implements ExpansionLifecycle: the phase of a state is read    *)
(* off its record, and under Lru the order of access off the links.        *)
(***************************************************************************)
EXTENDS LazyWfst

PhaseOf(record) ==
    IF record.phase # "failed" THEN record.phase
    ELSE IF record.retry THEN "retryable" ELSE "permanent"

Phases == [s \in States |-> PhaseOf(EntryOf(s))]

LinkedOrder == IF policy.kind = "Lru" THEN AccessOrder(cache) ELSE << >>

Lifecycle == INSTANCE ExpansionLifecycle WITH phase <- Phases, order <- LinkedOrder

(* Every step of the wrapper is one the lifecycle allows: the source is    *)
(* never invoked for a completed, cancelled or permanently failed state,   *)
(* and the links carry the exact order of access                           *)
(* (docs/architecture/lazy-wfst-lifecycle.md, "Lifecycle").                *)
ImplementsLifecycle == Lifecycle!Spec
=============================================================================
