------------------------------ MODULE SerialGate ------------------------------
(***************************************************************************)
(* SerialProviderCallGate and ProviderCallLease (src/src/bindings.rs): the *)
(* turnstile in front of every provider that does not promise reentrant    *)
(* callbacks.  A callback runs customer code, which may call back into     *)
(* other gates, or into the same one, on the same thread.                  *)
(*                                                                         *)
(* A step is one atomic operation, one acquisition or release of the       *)
(* parking mutex, one wait or one notification.  All the atomics are       *)
(* SeqCst, so the steps interleave; the thread-local stack of active gates *)
(* changes together with the shared step next to it.  A gate with the      *)
(* parallel claim is never entered and has no counterpart here.            *)
(***************************************************************************)
EXTENDS Naturals, Sequences, FiniteSets

CONSTANTS Threads, Gates, NULL

ASSUME ThreadAssumption == NULL \notin Threads /\ IsFiniteSet(Threads)
ASSUME GateAssumption == NULL \notin Gates

VARIABLES active,    \* the admission bit of each gate
          waiters,   \* its count of announced contenders
          parking,   \* the owner of its parking mutex
          sleepers,  \* the wait set of its condition variable
          pc,        \* where each thread stands
          gate,      \* the gate whose code it is executing
          stack      \* ACTIVE_SERIAL_GATES: the gates it is inside of

vars == <<active, waiters, parking, sleepers, pc, gate, stack>>

Init ==
    /\ active = [g \in Gates |-> FALSE]
    /\ waiters = [g \in Gates |-> 0]
    /\ parking = [g \in Gates |-> NULL]
    /\ sleepers = [g \in Gates |-> {}]
    /\ pc = [t \in Threads |-> "customer"]
    /\ gate = [t \in Threads |-> NULL]
    /\ stack = [t \in Threads |-> << >>]

At(t, label) == pc[t] = label
Goto(t, label) == pc' = [pc EXCEPT ![t] = label]
Inside(t) == {stack[t][i] : i \in 1..Len(stack[t])}
Nested(t) == stack[t] # << >>

-----------------------------------------------------------------------------
(* enter                                                                   *)

(* Mutant of Refused: only recursion is.                                   *)
Refused_RecursionOnly(t, g) == g \in Inside(t)

(* Recursion, and a busy second provider, are refused without waiting.     *)
Refused(t, g) == g \in Inside(t) \/ (active[g] /\ Nested(t))

Refuse(t, g) ==
    /\ At(t, "customer") /\ Refused(t, g)
    /\ Goto(t, "refused")
    /\ UNCHANGED <<active, waiters, parking, sleepers, gate, stack>>

Handle(t) ==
    /\ At(t, "refused")
    /\ Goto(t, "customer")
    /\ UNCHANGED <<active, waiters, parking, sleepers, gate, stack>>

Enter(t, g) ==
    /\ At(t, "customer") /\ g \notin Inside(t)
    /\ ~active[g]
    /\ active' = [active EXCEPT ![g] = TRUE]
    /\ stack' = [stack EXCEPT ![t] = Append(@, g)]
    /\ UNCHANGED <<waiters, parking, sleepers, pc, gate>>

Contend(t, g) ==
    /\ At(t, "customer") /\ active[g] /\ ~Refused(t, g)
    /\ gate' = [gate EXCEPT ![t] = g]
    /\ Goto(t, "announce")
    /\ UNCHANGED <<active, waiters, parking, sleepers, stack>>

Announce(t) ==
    /\ At(t, "announce")
    /\ waiters' = [waiters EXCEPT ![gate[t]] = @ + 1]
    /\ Goto(t, "park")
    /\ UNCHANGED <<active, parking, sleepers, gate, stack>>

(* Also how a woken waiter takes the mutex again.                          *)
Park(t) ==
    /\ At(t, "park") /\ parking[gate[t]] = NULL
    /\ parking' = [parking EXCEPT ![gate[t]] = t]
    /\ Goto(t, "check")
    /\ UNCHANGED <<active, waiters, sleepers, gate, stack>>

(* Mutant of FoundFree: a load in place of the compare_exchange.           *)
FoundFree_LoadOnly(t) ==
    /\ At(t, "check") /\ ~active[gate[t]]
    /\ Goto(t, "admitted")
    /\ UNCHANGED <<active, waiters, parking, sleepers, gate, stack>>

FoundFree(t) ==
    /\ At(t, "check") /\ ~active[gate[t]]
    /\ active' = [active EXCEPT ![gate[t]] = TRUE]
    /\ Goto(t, "admitted")
    /\ UNCHANGED <<waiters, parking, sleepers, gate, stack>>

FoundBusy(t) ==
    /\ At(t, "check") /\ active[gate[t]]
    /\ Goto(t, "sleep")
    /\ UNCHANGED <<active, waiters, parking, sleepers, gate, stack>>

(* Condvar::wait releases the mutex and joins the wait set in one step.    *)
Sleep(t) ==
    /\ At(t, "sleep")
    /\ sleepers' = [sleepers EXCEPT ![gate[t]] = @ \cup {t}]
    /\ parking' = [parking EXCEPT ![gate[t]] = NULL]
    /\ Goto(t, "asleep")
    /\ UNCHANGED <<active, waiters, gate, stack>>

SpuriousWakeup(t) ==
    /\ At(t, "asleep")
    /\ sleepers' = [sleepers EXCEPT ![gate[t]] = @ \ {t}]
    /\ Goto(t, "park")
    /\ UNCHANGED <<active, waiters, parking, gate, stack>>

Withdraw(t) ==
    /\ At(t, "admitted")
    /\ waiters' = [waiters EXCEPT ![gate[t]] = @ - 1]
    /\ Goto(t, "register")
    /\ UNCHANGED <<active, parking, sleepers, gate, stack>>

Register(t) ==
    /\ At(t, "register")
    /\ parking' = [parking EXCEPT ![gate[t]] = NULL]
    /\ stack' = [stack EXCEPT ![t] = Append(@, gate[t])]
    /\ gate' = [gate EXCEPT ![t] = NULL]
    /\ Goto(t, "customer")
    /\ UNCHANGED <<active, waiters, sleepers>>

-----------------------------------------------------------------------------
(* Drop for ProviderCallLease: the callback returned or unwound.  Leases   *)
(* are locals of nested calls, so the innermost goes first.                *)
Leave(t) ==
    /\ At(t, "customer") /\ Nested(t)
    /\ gate' = [gate EXCEPT ![t] = stack[t][Len(stack[t])]]
    /\ stack' = [stack EXCEPT ![t] = SubSeq(@, 1, Len(@) - 1)]
    /\ active' = [active EXCEPT ![stack[t][Len(stack[t])]] = FALSE]
    /\ Goto(t, "released")
    /\ UNCHANGED <<waiters, parking, sleepers>>

(* Mutant of NobodyWaits: off by one.                                      *)
NobodyWaits_OffByOne(t) ==
    /\ At(t, "released") /\ waiters[gate[t]] < 2
    /\ gate' = [gate EXCEPT ![t] = NULL]
    /\ Goto(t, "customer")
    /\ UNCHANGED <<active, waiters, parking, sleepers, stack>>

NobodyWaits(t) ==
    /\ At(t, "released") /\ waiters[gate[t]] = 0
    /\ gate' = [gate EXCEPT ![t] = NULL]
    /\ Goto(t, "customer")
    /\ UNCHANGED <<active, waiters, parking, sleepers, stack>>

SomebodyWaits(t) ==
    /\ At(t, "released") /\ waiters[gate[t]] # 0
    /\ Goto(t, "lock")
    /\ UNCHANGED <<active, waiters, parking, sleepers, gate, stack>>

(* Mutant of LockParking: notify without the mutex.                        *)
LockParking_Skipped(t) ==
    /\ At(t, "lock")
    /\ Goto(t, "notify")
    /\ UNCHANGED <<active, waiters, parking, sleepers, gate, stack>>

LockParking(t) ==
    /\ At(t, "lock") /\ parking[gate[t]] = NULL
    /\ parking' = [parking EXCEPT ![gate[t]] = t]
    /\ Goto(t, "notify")
    /\ UNCHANGED <<active, waiters, sleepers, gate, stack>>

(* notify_one, and the release of the mutex the woken thread needs first.  *)
NotifyNobody(t) ==
    /\ At(t, "notify") /\ sleepers[gate[t]] = {}
    /\ parking' = [parking EXCEPT ![gate[t]] = NULL]
    /\ gate' = [gate EXCEPT ![t] = NULL]
    /\ Goto(t, "customer")
    /\ UNCHANGED <<active, waiters, sleepers, stack>>

NotifyOne(t, u) ==
    /\ At(t, "notify") /\ u \in sleepers[gate[t]]
    /\ sleepers' = [sleepers EXCEPT ![gate[t]] = @ \ {u}]
    /\ parking' = [parking EXCEPT ![gate[t]] = NULL]
    /\ gate' = [gate EXCEPT ![t] = NULL]
    /\ pc' = [pc EXCEPT ![t] = "customer", ![u] = "park"]
    /\ UNCHANGED <<active, waiters, stack>>

-----------------------------------------------------------------------------
Call(t) == \E g \in Gates : Enter(t, g) \/ Contend(t, g) \/ Refuse(t, g)

Proceed(t) ==
    \/ Handle(t) \/ Announce(t) \/ Park(t) \/ FoundFree(t) \/ FoundBusy(t)
    \/ Sleep(t) \/ Withdraw(t) \/ Register(t)
    \/ Leave(t) \/ NobodyWaits(t) \/ SomebodyWaits(t) \/ LockParking(t)
    \/ NotifyNobody(t) \/ \E u \in Threads : NotifyOne(t, u)

Next == \E t \in Threads : Call(t) \/ Proceed(t) \/ SpuriousWakeup(t)

Spec == Init /\ [][Next]_vars

(* Every thread keeps running and every callback returns; no call is ever  *)
(* obliged to start, and no sleeper may count on a spurious wakeup.        *)
FairSpec == Spec /\ \A t \in Threads : WF_vars(Proceed(t))

-----------------------------------------------------------------------------
(* Correctness                                                             *)

Labels == {"customer", "refused", "announce", "park", "check", "sleep", "asleep",
           "admitted", "register", "released", "lock", "notify"}
Announced == {"park", "check", "sleep", "asleep", "admitted"}
Parking == {"check", "sleep", "admitted", "register", "notify"}
Admitted == {"admitted", "register"}
Waiting == {"announce", "park", "check", "sleep", "asleep"}

(* The thread owns the admission bit of g.                                 *)
Owns(t, g) == g \in Inside(t) \/ (pc[t] \in Admitted /\ gate[t] = g)

(* Every variable stays in its type, and a thread names a gate exactly     *)
(* while it executes that gate's code.                                     *)
TypeOK ==
    /\ active \in [Gates -> BOOLEAN]
    /\ waiters \in [Gates -> Nat]
    /\ parking \in [Gates -> Threads \cup {NULL}]
    /\ sleepers \in [Gates -> SUBSET Threads]
    /\ pc \in [Threads -> Labels]
    /\ gate \in [Threads -> Gates \cup {NULL}]
    /\ stack \in [Threads -> Seq(Gates)]
    /\ \A t \in Threads : gate[t] = NULL <=> pc[t] \in {"customer", "refused"}

(* At most one thread is inside a serial provider's callback, and the      *)
(* admission bit says exactly whether one is.                              *)
MutualExclusion ==
    \A g \in Gates :
        /\ active[g] <=> \E t \in Threads : Owns(t, g)
        /\ \A t, u \in Threads : Owns(t, g) /\ Owns(u, g) => t = u

(* Only a thread outside every serial callback waits, so that callbacks    *)
(* that call each other's providers cannot wait in a cycle (enter's        *)
(* comment on A -> B -> A).                                                *)
WaitersHoldNothing ==
    \A t \in Threads : pc[t] \in Waiting => stack[t] = << >>

(* Whenever a thread sleeps, or has found the gate busy and is about to,   *)
(* somebody is bound to wake it: the gate is still held, or a leaver has   *)
(* yet to notify, or another contender is about to look at the admission   *)
(* bit (the comment in ProviderCallLease::drop on the lost-wakeup window). *)
NoLostWakeup ==
    \A t \in Threads :
        pc[t] \in {"sleep", "asleep"} =>
            \/ active[gate[t]]
            \/ \E u \in Threads : /\ gate[u] = gate[t]
                                  /\ pc[u] \in {"released", "lock", "notify", "park", "check"}

(* A gate never stays free for ever while somebody waits for it.           *)
GateIsTakenUp ==
    \A g \in Gates : []<>(active[g] \/ waiters[g] = 0)
=============================================================================
