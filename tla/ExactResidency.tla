-------------------------- MODULE ExactResidency --------------------------
(***************************************************************************)
(* What SharedStateCache promises its callers, with no slots, links,       *)
(* snapshots or retries (src/src/wfst/shared_cache.rs and                  *)
(* docs/architecture/shared-state-cache.md):                               *)
(*                                                                         *)
(*  - every access that is recorded is recorded at one instant, as an      *)
(*    exact least-recently-used step: a resident id moves to the recent    *)
(*    end and the caller gets the resident value; an absent id is admitted *)
(*    there with the caller's own value, displacing the least recent id    *)
(*    exactly when the capacity is reached;                                *)
(*  - a call goes unrecorded only because its result was refused, it was   *)
(*    made under NoCache, or a flush replaced the generation meanwhile;    *)
(*  - a flush drops every resident at one instant.                         *)
(***************************************************************************)
EXTENDS Sequences, SequencesExt

CONSTANTS Workers,   \* the calling threads; also the identity of a computed value
          Ids,       \* state identifiers
          Policies,  \* the residency policies in use: [kind, capacity]
          NULL       \* no value

VARIABLES policy,    \* the residency policy
          value,     \* the resident ids and the value of each
          order,     \* under Lru, the residents from least to most recently used
          call       \* each worker's call: [phase, id, offer, lost]

abstractVars == <<policy, value, order, call>>

NoCall == [phase |-> "idle", id |-> NULL, offer |-> NULL, lost |-> FALSE]
Open(i, offer, lost) == [phase |-> "open", id |-> i, offer |-> offer, lost |-> lost]
Answered(i, answer) == [phase |-> "answered", id |-> i, offer |-> answer, lost |-> FALSE]

Resident(i) == i \in DOMAIN value
Exact == policy.kind = "Lru"

Init == /\ policy \in Policies
        /\ value = << >>
        /\ order = << >>
        /\ call = [w \in Workers |-> NoCall]

(* A hit that changes nothing is answered where it is made.                *)
Serve(w, i) ==
    /\ call[w].phase = "idle"
    /\ Resident(i)
    /\ Exact => Last(order) = i
    /\ call' = [call EXCEPT ![w] = Answered(i, value[i])]
    /\ UNCHANGED <<policy, value, order>>

(* Any other call starts with the resident value, if there is one.         *)
Begin(w, i) ==
    /\ call[w].phase = "idle"
    /\ Resident(i) => Exact /\ Last(order) # i
    /\ call' = [call EXCEPT ![w] =
                   Open(i, IF Resident(i) THEN value[i] ELSE NULL,
                        policy.kind = "NoCache")]
    /\ UNCHANGED <<policy, value, order>>

(* The computation of an absent id produces a value, is refused or fails,  *)
(* or unwinds.                                                             *)
Provide(w) ==
    /\ call[w].phase = "open" /\ call[w].offer = NULL
    /\ call' = [call EXCEPT ![w].offer = w]
    /\ UNCHANGED <<policy, value, order>>

Decline(w) ==
    /\ call[w].phase = "open" /\ call[w].offer = NULL
    /\ \E answer \in {w, NULL} : call' = [call EXCEPT ![w] = Answered(call[w].id, answer)]
    /\ UNCHANGED <<policy, value, order>>

Abandon(w) ==
    /\ call[w].phase = "open" /\ call[w].offer = NULL
    /\ call' = [call EXCEPT ![w] = NoCall]
    /\ UNCHANGED <<policy, value, order>>

Admit(i, v) ==
    LET kept == IF Exact /\ Len(order) = policy.capacity THEN Tail(order) ELSE order
        ids  == IF Exact THEN ToSet(kept) ELSE DOMAIN value
    IN  /\ value' = [j \in ids \cup {i} |-> IF j = i THEN v ELSE value[j]]
        /\ order' = IF Exact THEN Append(kept, i) ELSE order

(* A resident id moves to the recent end.                                  *)
Renew(i) ==
    IF Exact THEN \E m \in 1..Len(order) :
                     order[m] = i /\ order' = Append(RemoveAt(order, m), i)
             ELSE UNCHANGED order

(* The instant at which an open access takes effect.                       *)
Record(w) ==
    LET i == call[w].id IN
    /\ call[w].phase = "open" /\ call[w].offer # NULL /\ ~call[w].lost
    /\ IF Resident(i)
       THEN /\ Renew(i)
            /\ call' = [call EXCEPT ![w] = Answered(i, value[i])]
            /\ UNCHANGED value
       ELSE /\ Admit(i, call[w].offer)
            /\ call' = [call EXCEPT ![w] = Answered(i, call[w].offer)]
    /\ UNCHANGED policy

(* Only a call that a flush overtook is answered without being recorded.   *)
Forgo(w) ==
    /\ call[w].phase = "open" /\ call[w].offer # NULL /\ call[w].lost
    /\ call' = [call EXCEPT ![w] = Answered(call[w].id, call[w].offer)]
    /\ UNCHANGED <<policy, value, order>>

Finish(w) ==
    /\ call[w].phase = "answered"
    /\ call' = [call EXCEPT ![w] = NoCall]
    /\ UNCHANGED <<policy, value, order>>

Flush ==
    /\ policy' \in Policies
    /\ value' = << >>
    /\ order' = << >>
    /\ call' = [w \in Workers |->
                   IF call[w].phase = "open" THEN [call[w] EXCEPT !.lost = TRUE]
                                             ELSE call[w]]

Next == \/ Flush
        \/ \E w \in Workers :
              \/ \E i \in Ids : Serve(w, i) \/ Begin(w, i)
              \/ Provide(w) \/ Decline(w) \/ Abandon(w)
              \/ Record(w) \/ Forgo(w) \/ Finish(w)

Spec == Init /\ [][Next]_abstractVars
=============================================================================
