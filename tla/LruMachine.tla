---------------------------- MODULE LruMachine ----------------------------
(***************************************************************************)
(* LruStorage driven by one caller (src/src/wfst/shared_cache/lru.rs), at  *)
(* capacities where a slot has two distinct inner neighbours: the list     *)
(* surgery beside the reference definition of recency, a plain sequence.   *)
(***************************************************************************)
EXTENDS LruStorage, Sequences, SequencesExt

CONSTANTS Ids,        \* state identifiers
          Capacities  \* the capacities to build storages with

ASSUME CapacityAssumption == Capacities \subseteq Nat \ {0}

VARIABLES storage,    \* the LruStorage
          recency     \* reference: the residents from least to most recent

lruVars == <<storage, recency>>

(* Values play no part in the list: every entry carries the same one.      *)
Payload == 0

LruInit ==
        /\ \E c \in Capacities : storage = EmptyStorage(c)
        /\ recency = << >>

(* A hit whose lookup found a slot to touch.                               *)
TouchResident(i) ==
    /\ i \in Residents(storage) /\ TouchOf(storage, i) # NoSlot
    /\ storage' = TouchSlot(storage, TouchOf(storage, i))
    /\ \E m \in 1..Len(recency) :
          recency[m] = i /\ recency' = Append(RemoveAt(recency, m), i)

InsertAbsent(i) ==
    /\ i \notin Residents(storage)
    /\ storage' = InsertId(storage, i, Payload)
    /\ recency' = Append(IF Len(recency) = storage.capacity THEN Tail(recency)
                                                            ELSE recency, i)

LruNext == \E i \in Ids : TouchResident(i) \/ InsertAbsent(i)

LruSpec == LruInit /\ [][LruNext]_lruVars

-----------------------------------------------------------------------------
(* Walking the links from head yields exactly the reference order, so the  *)
(* head that the next full insert displaces is the least recent id, and    *)
(* the storage passes checked_order after every call.                      *)
RecencyIsExact == CheckedOrder(storage) /\ RecencyOrder(storage) = recency
=============================================================================
