-------------------- MODULE SharedStateCacheRefinement --------------------
(***************************************************************************)
(* SharedStateCache implements ExactResidency.  The residents, their order *)
(* and their values are read off the published root by walking the links;  *)
(* a call is open from its first lookup to its last root access.           *)
(***************************************************************************)
EXTENDS SharedStateCache

ResidentValues == [i \in Residents(root.storage) |-> ValueOf(root, i)]

PublishedOrder ==
    IF root.policy.kind = "Lru" THEN RecencyOrder(root.storage) ELSE << >>

AbstractCall(w) ==
    CASE pc[w] \in {"compute", "publish", "swap"} ->
            [phase |-> "open", id |-> id[w], offer |-> value[w],
             lost |-> generation[w] # root.generation]
      [] pc[w] = "return" ->
            [phase |-> "answered", id |-> id[w], offer |-> value[w], lost |-> FALSE]
      [] OTHER -> [phase |-> "idle", id |-> NULL, offer |-> NULL, lost |-> FALSE]

Calls == [w \in Workers |-> AbstractCall(w)]

Abstract == INSTANCE ExactResidency
                WITH policy <- root.policy,
                     value <- ResidentValues,
                     order <- PublishedOrder,
                     call <- Calls

(* Every step of the concurrent cache is an exact least-recently-used      *)
(* access, a flush, or invisible: no retry, reused slot or recycled marker *)
(* shows (docs/architecture/shared-state-cache.md, "linearization").       *)
ImplementsExactResidency == Abstract!Spec
=============================================================================
