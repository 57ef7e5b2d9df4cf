---------------------------- MODULE LruStorage ----------------------------
(***************************************************************************)
(* The exact-recency storage behind SharedStateCache                       *)
(* (src/src/wfst/shared_cache/lru.rs): an index from external state ids to *)
(* compact slots, and a doubly linked list threaded through the slots from *)
(* the least (head) to the most (tail) recently used one.                  *)
(*                                                                         *)
(* A storage is a record                                                   *)
(*   capacity   the bound of the policy                                    *)
(*   entries    a function from the resident ids to [slot, value]          *)
(*   links      the rows 1..len, each [id, previous, next]                 *)
(*   len        LinkSlots::len, the number of occupied rows                *)
(*   head, tail slots, or NoSlot                                           *)
(* Slots are one-based as in the code, so NoSlot (Option::None) is 0.      *)
(* The operators return the storage a `&mut self` method leaves behind.    *)
(***************************************************************************)
EXTENDS Integers, FiniteSets

NoSlot == 0

EmptyStorage(capacity) ==
    [capacity |-> capacity, entries |-> << >>, links |-> << >>, len |-> 0,
     head |-> NoSlot, tail |-> NoSlot]

Residents(s) == DOMAIN s.entries

(* lookup's `touch`: the slot to move, or NoSlot when the entry is already *)
(* the most recent one and the access changes nothing.                     *)
TouchOf(s, id) ==
    IF s.tail = s.entries[id].slot THEN NoSlot ELSE s.entries[id].slot

SetPrevious(s, slot, to) == [s EXCEPT !.links[slot].previous = to]
SetNext(s, slot, to)     == [s EXCEPT !.links[slot].next = to]
SetHead(s, slot)         == [s EXCEPT !.head = slot]
SetTail(s, slot)         == [s EXCEPT !.tail = slot]

AppendSlot(s, slot) ==
    LET own == SetNext(SetPrevious(s, slot, s.tail), slot, NoSlot)
        linked == IF s.tail # NoSlot THEN SetNext(own, s.tail, slot)
                                     ELSE SetHead(own, slot)
    IN  SetTail(linked, slot)

(* The neighbours' fields are written one after the other: at capacity two *)
(* the successor is also the tail that AppendSlot writes again.            *)
Unlink(s, slot) ==
    LET previous == s.links[slot].previous
        next     == s.links[slot].next
        forward  == IF previous # NoSlot THEN SetNext(s, previous, next)
                                         ELSE SetHead(s, next)
    IN  IF next # NoSlot THEN SetPrevious(forward, next, previous) ELSE forward

(* Mutant of TouchSlot: the successor's row is copied before the append    *)
(* and written back after it.                                              *)
TouchSlot_RestoresNeighbour(s, slot) ==
    LET next == s.links[slot].next
        row  == [s.links[next] EXCEPT !.previous = s.links[slot].previous]
    IN  IF s.tail = slot THEN s
        ELSE [AppendSlot(Unlink(s, slot), slot) EXCEPT !.links[next] = row]

TouchSlot(s, slot) ==
    IF s.tail = slot THEN s ELSE AppendSlot(Unlink(s, slot), slot)

(* entries.len() = capacity: the next admission displaces the head.        *)
Full(s) == Cardinality(Residents(s)) = s.capacity

(* Mutant of WithEntry: the displaced id stays in the index.               *)
WithEntry_KeepsOld(entries, gone, id, slot, value) ==
    [i \in DOMAIN entries \cup {id} |->
        IF i = id THEN [slot |-> slot, value |-> value] ELSE entries[i]]

WithEntry(entries, gone, id, slot, value) ==
    [i \in (DOMAIN entries \ gone) \cup {id} |->
        IF i = id THEN [slot |-> slot, value |-> value] ELSE entries[i]]

(* Mutants of Replace: the reused row keeps the old id; the most recent    *)
(* slot is reused.                                                         *)
Replace_KeepsLabel(s, id, value) ==
    LET old == s.links[s.head].id
    IN  TouchSlot([s EXCEPT !.entries = WithEntry(s.entries, {old}, id, s.head, value)],
                  s.head)

Replace_MostRecent(s, id, value) ==
    LET old == s.links[s.tail].id
    IN  TouchSlot([s EXCEPT !.entries = WithEntry(s.entries, {old}, id, s.tail, value),
                            !.links[s.tail].id = id], s.tail)

Replace(s, id, value) ==
    LET slot == s.head
        old  == s.links[slot].id
    IN  TouchSlot([s EXCEPT !.entries = WithEntry(s.entries, {old}, id, slot, value),
                            !.links[slot].id = id], slot)

Grow(s, id, value) ==
    LET slot == s.len + 1
        row  == [id |-> id, previous |-> NoSlot, next |-> NoSlot]
    IN  AppendSlot([s EXCEPT !.entries = WithEntry(s.entries, {}, id, slot, value),
                             !.links = [k \in 1..slot |->
                                            IF k = slot THEN row ELSE s.links[k]],
                             !.len = slot], slot)

(* Admit an absent id; it evicts exactly when the storage is full.         *)
InsertId(s, id, value) ==
    IF Full(s) THEN Replace(s, id, value) ELSE Grow(s, id, value)

-----------------------------------------------------------------------------
(* What checked_order walks: the slots from head along `next`, and the ids *)
(* they hold, least recent first.  A broken link yields NoSlot.            *)
WalkSlots(s) ==
    LET at[n \in 1..s.len] ==
            IF n = 1 THEN s.head
            ELSE IF at[n-1] \in 1..s.len THEN s.links[at[n-1]].next ELSE NoSlot
    IN  [n \in 1..s.len |-> at[n]]

RecencyOrder(s) ==
    LET slots == WalkSlots(s) IN [n \in 1..s.len |-> s.links[slots[n]].id]

(* The local part of checked_order: ids and slots index each other, and    *)
(* the list's ends and neighbours agree.                                   *)
IndexCoherent(s) ==
    /\ \A i \in Residents(s) : /\ s.entries[i].slot \in 1..s.len
                               /\ s.links[s.entries[i].slot].id = i
    /\ \A k \in 1..s.len : /\ s.links[k].id \in Residents(s)
                           /\ s.entries[s.links[k].id].slot = k

LinksCoherent(s) ==
    /\ s.len = 0 => s.head = NoSlot /\ s.tail = NoSlot
    /\ s.len > 0 => /\ s.head \in 1..s.len /\ s.links[s.head].previous = NoSlot
                    /\ s.tail \in 1..s.len /\ s.links[s.tail].next = NoSlot
    /\ \A k \in 1..s.len :
          /\ IF k = s.tail THEN s.links[k].next = NoSlot
             ELSE /\ s.links[k].next \in 1..s.len
                  /\ s.links[s.links[k].next].previous = k
          /\ IF k = s.head THEN s.links[k].previous = NoSlot
             ELSE /\ s.links[k].previous \in 1..s.len
                  /\ s.links[s.links[k].previous].next = k

(* The whole of checked_order: the walk visits every slot once and ends at *)
(* the tail.                                                               *)
CheckedOrder(s) ==
    LET slots == WalkSlots(s) IN
    /\ Cardinality(Residents(s)) = s.len
    /\ s.len <= s.capacity
    /\ IndexCoherent(s)
    /\ LinksCoherent(s)
    /\ {slots[n] : n \in 1..s.len} = 1..s.len
    /\ s.len > 0 => slots[s.len] = s.tail

(* The shape of a storage over given ids and values.                       *)
IsStorage(s, ids, values) ==
    /\ s \in [capacity : Nat, entries : {s.entries}, links : {s.links},
              len : Nat, head : Nat, tail : Nat]
    /\ Residents(s) \subseteq ids
    /\ s.entries \in [Residents(s) -> [slot : Nat, value : values]]
    /\ s.links \in [1..s.len -> [id : ids, previous : Nat, next : Nat]]
=============================================================================
