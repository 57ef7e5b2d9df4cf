----------------------------- MODULE CallbackGate -----------------------------
(***************************************************************************)
(* CallbackGate and copy_provider_bytes (src/src/dynamic_abi.rs): threads  *)
(* copy a value out of a dynamically loaded provider.  A call is admitted  *)
(* through one atomic flag and refused when the flag is taken; it asks for *)
(* the size, fills a buffer of that size, and asks again while the value   *)
(* has outgrown the buffer.                                                *)
(*                                                                         *)
(* The provider's value may change at any time, and the provider may break *)
(* its contract.  A value is [text, size], and a callback sees one value.  *)
(* A callback that calls back meets the flag like another thread's call.   *)
(***************************************************************************)
EXTENDS Naturals, FiniteSets, Sequences

CONSTANTS Threads,
          Owner,       \* the thread that opened the capability
          Values,      \* what the provider may hold
          Largest,     \* MAX_PROVIDER_BYTES
          Attempts,    \* MAX_BUFFER_ATTEMPTS
          Absent

ASSUME ValuesAssumption ==
    \A v \in Values : v = [text |-> v.text, size |-> v.size] /\ v.size \in Nat

ASSUME LimitsAssumption == Largest \in Nat /\ Attempts \in Nat \ {0}

ASSUME AbsentAssumption == Absent \notin {"copied", "unstable"}

Policies == {"parallel", "serial", "threadBound"}

VARIABLES policy,     \* how callbacks are admitted
          inCall,     \* the atomic flag
          value,      \* what the provider holds
          pc,         \* where each thread is
          required,   \* the size it will ask a buffer of
          attempt,    \* the buffers it has filled in vain
          answer,     \* how its last call ended
          copied,     \* what it copied, Absent when it did not
          moved       \* history: changes of the value during the call, up to Attempts

gateVars == <<policy, inCall, value, pc, required, attempt, answer, copied, moved>>

(* from_flags: the parallel flag outweighs the thread-bound one.           *)
PolicyOf(parallelReentrant, threadBound) ==
    IF parallelReentrant THEN "parallel" ELSE IF threadBound THEN "threadBound" ELSE "serial"

(* The gate is made by from_flags.                                           *)
GateInit ==
    /\ \E parallelReentrant, threadBound \in BOOLEAN :
          policy = PolicyOf(parallelReentrant, threadBound)
    /\ inCall = FALSE
    /\ value \in Values
    /\ pc = [t \in Threads |-> "idle"]
    /\ required = [t \in Threads |-> 0]
    /\ attempt = [t \in Threads |-> 0]
    /\ answer = [t \in Threads |-> Absent]
    /\ copied = [t \in Threads |-> Absent]
    /\ moved = [t \in Threads |-> 0]

Inside(t) == pc[t] \in {"sizing", "filling"}

-----------------------------------------------------------------------------
(* Mutant of Admitted: the flag is read and set in two steps.              *)
Admitted_Unchecked(t) == policy # "threadBound" \/ t = Owner

(* enter: the flag is compared and set at once.                            *)
Admitted(t) ==
    \/ policy = "parallel"
    \/ (policy = "serial" \/ t = Owner) /\ ~inCall

Enter(t) ==
    /\ pc[t] = "idle"
    /\ IF Admitted(t)
       THEN /\ pc' = [pc EXCEPT ![t] = "sizing"]
            /\ inCall' = (policy # "parallel" \/ inCall)
            /\ attempt' = [attempt EXCEPT ![t] = 0] /\ moved' = [moved EXCEPT ![t] = 0]
            /\ answer' = [answer EXCEPT ![t] = Absent]
       ELSE /\ answer' = [answer EXCEPT ![t] = IF policy = "threadBound" /\ t # Owner
                                               THEN "wrongThread" ELSE "concurrent"]
            /\ UNCHANGED <<pc, inCall, attempt, moved>>
    /\ copied' = [copied EXCEPT ![t] = Absent]
    /\ UNCHANGED <<policy, value, required>>

(* The guard is dropped on every way out of invoke.                        *)
Leave(t, a, v) ==
    /\ pc' = [pc EXCEPT ![t] = "idle"]
    /\ inCall' = (policy = "parallel" /\ inCall)
    /\ answer' = [answer EXCEPT ![t] = a] /\ copied' = [copied EXCEPT ![t] = v]
    /\ UNCHANGED <<policy, value, attempt, moved>>
Refuse(t, a) == Leave(t, a, Absent)

-----------------------------------------------------------------------------
(* The callbacks                                                           *)

(* The size query, of a provider that keeps its contract.                  *)
AskSize(t) ==
    /\ pc[t] = "sizing"
    /\ required' = [required EXCEPT ![t] = value.size]
    /\ pc' = [pc EXCEPT ![t] = "filling"]
    /\ UNCHANGED <<policy, inCall, value, attempt, answer, copied, moved>>

(* An error, an unknown status, or bytes written where there is no room.   *)
SizeFails(t) ==
    /\ pc[t] = "sizing"
    /\ \E a \in {"provider", "invalid"} : Refuse(t, a)
    /\ UNCHANGED required

TooLarge(t) ==
    /\ pc[t] = "filling" /\ required[t] > Largest
    /\ Refuse(t, "limit")
    /\ UNCHANGED required

(* What a fill may report of a buffer with some room: how much was written *)
(* and how much is required.                                               *)
KeepsContract(room, written, needs) ==
    /\ needs = value.size
    /\ IF needs <= room THEN written = needs ELSE written <= room
Sizes == 0..(Largest + 1)

(* The checks of copy_provider_bytes on a report.                          *)
Impossible(room, written, needs) == written > room \/ written > needs
Short(room, written, needs) == needs <= room /\ written # needs

(* Mutant of Fits: what the provider wrote is taken for the whole.         *)
Fits_Written(room, written, needs) == written <= room

Fits(room, written, needs) == needs <= room

(* The value is copied whole when it fits; otherwise a larger buffer is    *)
(* tried, as often as there are attempts.                                  *)
Fill(t, written, needs) ==
    LET room == required[t] IN
    /\ pc[t] = "filling" /\ room <= Largest
    /\ KeepsContract(room, written, needs)
    /\ IF Fits(room, written, needs)
       THEN /\ Leave(t, "copied", [text |-> value.text, size |-> written])
            /\ UNCHANGED required
       ELSE IF attempt[t] + 1 = Attempts
       THEN Refuse(t, "unstable") /\ UNCHANGED required
       ELSE /\ attempt' = [attempt EXCEPT ![t] = @ + 1]
            /\ required' = [required EXCEPT ![t] = needs]
            /\ UNCHANGED <<policy, inCall, value, pc, answer, copied, moved>>

(* A report that cannot be true.                                           *)
FillFails(t) ==
    /\ pc[t] = "filling" /\ required[t] <= Largest
    /\ \/ Refuse(t, "provider")
       \/ /\ \E written, needs \in Sizes :
                \/ Impossible(required[t], written, needs)
                \/ Short(required[t], written, needs)
          /\ Refuse(t, "invalid")
    /\ UNCHANGED required

(* The provider's value changes.                                           *)
Change(v) ==
    /\ v # value /\ value' = v
    /\ moved' = [t \in Threads |-> IF Inside(t) /\ moved[t] < Attempts THEN moved[t] + 1 ELSE moved[t]]
    /\ UNCHANGED <<policy, inCall, pc, required, attempt, answer, copied>>

CopyStep(t) ==
    \/ Enter(t) \/ AskSize(t) \/ SizeFails(t) \/ TooLarge(t)
    \/ \E written, needs \in Sizes : Fill(t, written, needs)
    \/ FillFails(t)

GateNext == (\E t \in Threads : CopyStep(t)) \/ (\E v \in Values : Change(v))

GateSpec == GateInit /\ [][GateNext]_gateVars

-----------------------------------------------------------------------------
(* Outside the parallel policy at most one thread is in a callback, a      *)
(* thread-bound provider sees its own thread only, and the flag is set     *)
(* exactly while one is: no way out of a call, failed or refused, leaves   *)
(* it set or resets it under another call (CallGuard::drop).               *)
GateIsHeld ==
    policy # "parallel" =>
       /\ Cardinality({t \in Threads : Inside(t)}) <= 1
       /\ inCall <=> \E t \in Threads : Inside(t)
       /\ policy = "threadBound" => \A t \in Threads : Inside(t) => t = Owner

(* What is copied is a value the provider held, all of it and within the   *)
(* limit, though the value may change between the query and the copy; and  *)
(* only a value that keeps growing is given up.                            *)
CopyIsWhole ==
    \A t \in Threads :
       /\ answer[t] = "copied" => copied[t] \in Values /\ copied[t].size <= Largest
       /\ answer[t] = "unstable" => moved[t] = Attempts
=============================================================================
