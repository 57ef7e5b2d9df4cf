------------------------- MODULE ExpansionLifecycle -------------------------
(***************************************************************************)
(* What LazyWfstWrapper promises about each state, with no stores, links,  *)
(* snapshots or tokens (docs/architecture/lazy-wfst-lifecycle.md and       *)
(* src/src/wfst/lazy.rs):                                                  *)
(*                                                                         *)
(*  - the source is invoked for one state at a time, and only for a state  *)
(*    that is unexpanded, or whose failure may be retried;                 *)
(*  - an attempt ends in one result, or leaves its state unexpanded;       *)
(*  - a completed state is forgotten only to make room, by request, by a   *)
(*    policy that does not keep it, or with every other record;            *)
(*  - under Lru room is made in exact order of access, and a policy change *)
(*    starts that order anew, by id.                                       *)
(***************************************************************************)
EXTENDS Naturals, FiniteSets, Sequences, SequencesExt

CONSTANTS States, Policies

VARIABLES phase,   \* the lifecycle phase of each state
          order,   \* under Lru, the completed states in order of access
          policy

lifecycleVars == <<phase, order, policy>>

CompletedPhases == {"empty", "nonempty"}
FailedPhases == {"retryable", "permanent", "cancelled"}

Exact(p) == p.kind = "Lru" /\ p.max # 0
Keeps(p) == p.kind # "NoCache" /\ (p.kind = "Lru" => Exact(p))

Held == {s \in States : phase[s] \in CompletedPhases}

(* Completed states that lost their place are unexpanded again.            *)
Retaining(kept) ==
    [s \in States |-> IF s \in Held \ kept THEN "unexpanded" ELSE phase[s]]

Init == /\ phase = [s \in States |-> "unexpanded"]
        /\ order = << >>
        /\ policy \in Policies

Begin(s) ==
    /\ phase[s] \in {"unexpanded", "retryable"}
    /\ \A t \in States : phase[t] # "expanding"
    /\ \E p \in {"expanding", "cancelled"} : phase' = [phase EXCEPT ![s] = p]
    /\ UNCHANGED <<order, policy>>

Fail(s) ==
    /\ phase[s] = "expanding"
    /\ \E p \in FailedPhases \cup {"unexpanded"} : phase' = [phase EXCEPT ![s] = p]
    /\ UNCHANGED <<order, policy>>

(* A policy that keeps nothing still keeps the last result.                *)
Complete(s) ==
    LET room == IF Len(order) = policy.max THEN Tail(order) ELSE order
        kept == IF Exact(policy) THEN ToSet(room) ELSE IF Keeps(policy) THEN Held ELSE {}
    IN  /\ phase[s] = "expanding"
        /\ \E p \in CompletedPhases : phase' = [Retaining(kept) EXCEPT ![s] = p]
        /\ order' = IF Exact(policy) THEN Append(room, s) ELSE order
        /\ UNCHANGED policy

Access(s) ==
    /\ Exact(policy)
    /\ \E m \in 1..Len(order) : order[m] = s /\ order' = Append(RemoveAt(order, m), s)
    /\ UNCHANGED <<phase, policy>>

Forget(s) ==
    /\ phase[s] # "expanding"
    /\ phase' = [phase EXCEPT ![s] = "unexpanded"]
    /\ IF s \in ToSet(order)
       THEN \E m \in 1..Len(order) : order[m] = s /\ order' = RemoveAt(order, m)
       ELSE UNCHANGED order
    /\ UNCHANGED policy

Invalidate ==
    /\ phase' = [s \in States |-> "unexpanded"]
    /\ order' = << >>
    /\ UNCHANGED policy

Listing(S) == {seq \in [1..Cardinality(S) -> S] :
                  \A j, k \in 1..Cardinality(S) : j < k => seq[j] < seq[k]}
LastOf(seq, n) == IF Len(seq) > n THEN SubSeq(seq, Len(seq) - n + 1, Len(seq)) ELSE seq

(* A change between policies that keep results drops what Lru has no room  *)
(* for; any other change drops every result.                               *)
SetPolicy(p) ==
    /\ policy' = p
    /\ IF Keeps(policy) /\ Exact(p)
       THEN /\ \E seq \in Listing(Held) : order' = LastOf(seq, p.max)
            /\ phase' = Retaining(ToSet(order'))
       ELSE /\ order' = << >>
            /\ phase' = Retaining(IF Keeps(policy) /\ Keeps(p) THEN Held ELSE {})

Next ==
    \/ \E s \in States : Begin(s) \/ Fail(s) \/ Complete(s) \/ Access(s) \/ Forget(s)
    \/ Invalidate
    \/ \E p \in Policies : SetPolicy(p)

Spec == Init /\ [][Next]_lifecycleVars
=============================================================================
