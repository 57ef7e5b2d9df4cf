------------------------- MODULE LruStorage_proofs -------------------------
(***************************************************************************)
(* What the list surgery of LruStorage returns and preserves, for every    *)
(* capacity, id and value; and that the list, walked along its links, is a *)
(* sequence which a touch moves within and an insertion appends to.        *)
(***************************************************************************)
EXTENDS LruStorage, SequencesExt, FiniteSetTheorems, SequenceTheorems,
        WellFoundedInduction, TLAPS

(* The inductive invariant of an Lru storage: checked_order without its    *)
(* walk.                                                                   *)
LruInvariant(s, ids, values) ==
    /\ IsStorage(s, ids, values)
    /\ s.capacity > 0
    /\ s.len <= s.capacity
    /\ IndexCoherent(s)
    /\ LinksCoherent(s)

(* One link write changes one field of one row.                            *)
LEMMA SetNextFacts ==
    ASSUME NEW ids, NEW values, NEW s, IsStorage(s, ids, values),
           NEW slot \in 1..s.len, NEW to \in Nat
    PROVE  LET t == SetNext(s, slot, to) IN
           /\ IsStorage(t, ids, values)
           /\ t.capacity = s.capacity /\ t.entries = s.entries /\ t.len = s.len
           /\ t.head = s.head /\ t.tail = s.tail
           /\ \A k \in 1..s.len :
                 /\ t.links[k].id = s.links[k].id
                 /\ t.links[k].previous = s.links[k].previous
                 /\ t.links[k].next = IF k = slot THEN to ELSE s.links[k].next
  BY DEF SetNext, IsStorage, Residents

LEMMA SetPreviousFacts ==
    ASSUME NEW ids, NEW values, NEW s, IsStorage(s, ids, values),
           NEW slot \in 1..s.len, NEW to \in Nat
    PROVE  LET t == SetPrevious(s, slot, to) IN
           /\ IsStorage(t, ids, values)
           /\ t.capacity = s.capacity /\ t.entries = s.entries /\ t.len = s.len
           /\ t.head = s.head /\ t.tail = s.tail
           /\ \A k \in 1..s.len :
                 /\ t.links[k].id = s.links[k].id
                 /\ t.links[k].next = s.links[k].next
                 /\ t.links[k].previous = IF k = slot THEN to ELSE s.links[k].previous
  BY DEF SetPrevious, IsStorage, Residents

(* The rows after the tail received a new successor: `t` is s with slot    *)
(* appended.                                                               *)
LEMMA AppendSlotFacts ==
    ASSUME NEW ids, NEW values, NEW s, IsStorage(s, ids, values),
           NEW slot \in 1..s.len, s.tail \in 0..s.len
    PROVE  LET t == AppendSlot(s, slot) IN
           /\ IsStorage(t, ids, values)
           /\ t.capacity = s.capacity /\ t.entries = s.entries /\ t.len = s.len
           /\ t.head = IF s.tail = NoSlot THEN slot ELSE s.head
           /\ t.tail = slot
           /\ \A k \in 1..s.len :
                 /\ t.links[k].id = s.links[k].id
                 /\ t.links[k].previous = IF k = slot THEN s.tail ELSE s.links[k].previous
                 /\ t.links[k].next = IF k = s.tail THEN slot
                                      ELSE IF k = slot THEN NoSlot ELSE s.links[k].next
<1> DEFINE a == SetPrevious(s, slot, s.tail)
           own == SetNext(a, slot, NoSlot)
           linked == IF s.tail # NoSlot THEN SetNext(own, s.tail, slot)
                                        ELSE SetHead(own, slot)
           t == AppendSlot(s, slot)
<1>0. s.len \in Nat /\ s.tail \in Nat /\ slot \in Nat /\ NoSlot \in Nat
  BY DEF IsStorage, NoSlot
<1>1. /\ IsStorage(a, ids, values)
      /\ a.capacity = s.capacity /\ a.entries = s.entries /\ a.len = s.len
      /\ a.head = s.head /\ a.tail = s.tail
      /\ \A k \in 1..s.len :
            /\ a.links[k].id = s.links[k].id
            /\ a.links[k].next = s.links[k].next
            /\ a.links[k].previous = IF k = slot THEN s.tail ELSE s.links[k].previous
  BY <1>0, SetPreviousFacts
<1>2. /\ IsStorage(own, ids, values)
      /\ own.capacity = s.capacity /\ own.entries = s.entries /\ own.len = s.len
      /\ own.head = s.head /\ own.tail = s.tail
      /\ \A k \in 1..s.len :
            /\ own.links[k].id = s.links[k].id
            /\ own.links[k].next = IF k = slot THEN NoSlot ELSE s.links[k].next
            /\ own.links[k].previous = IF k = slot THEN s.tail ELSE s.links[k].previous
  <2> HIDE DEF a
  <2>1. slot \in 1..a.len /\ NoSlot \in Nat
    BY <1>1 DEF NoSlot
  <2> QED BY <1>1, <2>1, SetNextFacts
<1>3. /\ IsStorage(linked, ids, values)
      /\ linked.capacity = s.capacity /\ linked.entries = s.entries
      /\ linked.len = s.len
      /\ linked.head = IF s.tail = NoSlot THEN slot ELSE s.head
      /\ \A k \in 1..s.len :
            /\ linked.links[k].id = s.links[k].id
            /\ linked.links[k].previous = IF k = slot THEN s.tail ELSE s.links[k].previous
            /\ linked.links[k].next = IF k = s.tail THEN slot
                                      ELSE IF k = slot THEN NoSlot ELSE s.links[k].next
  <2>1. CASE s.tail = NoSlot
    <3> HIDE DEF own
    <3>1. linked = SetHead(own, slot)
      BY <2>1
    <3>2. \A k \in 1..s.len : k # s.tail
      BY <2>1 DEF NoSlot
    <3>3. IsStorage(own, ids, values) /\ slot \in Nat
      BY <1>0, <1>2
    <3> HIDE DEF linked
    <3>4. /\ IsStorage(linked, ids, values)
          /\ linked.capacity = own.capacity /\ linked.entries = own.entries
          /\ linked.len = own.len /\ linked.links = own.links /\ linked.head = slot
      BY <3>1, <3>3 DEF SetHead, IsStorage, Residents
    <3> QED BY <1>2, <2>1, <3>2, <3>4
  <2>2. CASE s.tail # NoSlot
    <3> HIDE DEF own
    <3>1. linked = SetNext(own, s.tail, slot)
      BY <2>2
    <3>2. s.tail \in 1..own.len /\ slot \in Nat
      BY <1>2, <2>2 DEF NoSlot
    <3> HIDE DEF linked
    <3> QED BY <1>2, <2>2, <3>1, <3>2, SetNextFacts
  <2> QED BY <2>1, <2>2
<1>4. t = SetTail(linked, slot)
  BY DEF AppendSlot
<1> HIDE DEF linked, t
<1>5. /\ IsStorage(t, ids, values)
      /\ t.capacity = linked.capacity /\ t.entries = linked.entries /\ t.len = linked.len
      /\ t.head = linked.head /\ t.tail = slot /\ t.links = linked.links
  <2>1. IsStorage(linked, ids, values) /\ slot \in Nat
    BY <1>0, <1>3
  <2> QED BY <2>1, <1>4 DEF SetTail, IsStorage, Residents
<1> QED BY <1>3, <1>5 DEF t

LEMMA UnlinkFacts ==
    ASSUME NEW ids, NEW values, NEW s, IsStorage(s, ids, values),
           NEW slot \in 1..s.len,
           s.links[slot].previous \in 0..s.len,
           s.links[slot].next \in 1..s.len
    PROVE  LET t == Unlink(s, slot) IN
           /\ IsStorage(t, ids, values)
           /\ t.capacity = s.capacity /\ t.entries = s.entries /\ t.len = s.len
           /\ t.tail = s.tail
           /\ t.head = IF s.links[slot].previous = NoSlot THEN s.links[slot].next ELSE s.head
           /\ \A k \in 1..s.len :
                 /\ t.links[k].id = s.links[k].id
                 /\ t.links[k].next =
                       IF k = s.links[slot].previous THEN s.links[slot].next
                                                     ELSE s.links[k].next
                 /\ t.links[k].previous =
                       IF k = s.links[slot].next THEN s.links[slot].previous
                                                 ELSE s.links[k].previous
<1> DEFINE previous == s.links[slot].previous
           next == s.links[slot].next
           forward == IF previous # NoSlot THEN SetNext(s, previous, next)
                                           ELSE SetHead(s, next)
           t == Unlink(s, slot)
<1>0. /\ s.len \in Nat /\ next \in Nat /\ previous \in Nat
      /\ previous # NoSlot => previous \in 1..s.len
  BY DEF IsStorage, NoSlot
<1>1. t = SetPrevious(forward, next, previous)
  BY DEF Unlink, NoSlot
<1>2. /\ IsStorage(forward, ids, values)
      /\ forward.capacity = s.capacity /\ forward.entries = s.entries
      /\ forward.len = s.len /\ forward.tail = s.tail
      /\ forward.head = IF previous = NoSlot THEN next ELSE s.head
      /\ \A k \in 1..s.len :
            /\ forward.links[k].id = s.links[k].id
            /\ forward.links[k].previous = s.links[k].previous
            /\ forward.links[k].next = IF k = previous THEN next ELSE s.links[k].next
  <2>1. CASE previous = NoSlot
    <3>1. forward = SetHead(s, next)
      BY <2>1
    <3>2. \A k \in 1..s.len : k # previous
      BY <2>1 DEF NoSlot
    <3> HIDE DEF forward
    <3>3. /\ IsStorage(forward, ids, values)
          /\ forward.capacity = s.capacity /\ forward.entries = s.entries
          /\ forward.len = s.len /\ forward.tail = s.tail
          /\ forward.links = s.links /\ forward.head = next
      BY <1>0, <3>1 DEF SetHead, IsStorage, Residents
    <3> QED BY <2>1, <3>2, <3>3
  <2>2. CASE previous # NoSlot
    <3>1. forward = SetNext(s, previous, next)
      BY <2>2
    <3>2. previous \in 1..s.len /\ next \in Nat
      BY <1>0, <2>2
    <3> HIDE DEF forward, previous, next
    <3> DEFINE linked == SetNext(s, previous, next)
    <3>3. /\ IsStorage(linked, ids, values)
          /\ linked.capacity = s.capacity /\ linked.entries = s.entries
          /\ linked.len = s.len /\ linked.tail = s.tail /\ linked.head = s.head
          /\ \A k \in 1..s.len :
                /\ linked.links[k].id = s.links[k].id
                /\ linked.links[k].previous = s.links[k].previous
                /\ linked.links[k].next = IF k = previous THEN next ELSE s.links[k].next
      BY <3>2, SetNextFacts
    <3> HIDE DEF linked
    <3>4. forward = linked
      BY <3>1 DEF linked
    <3> QED BY ONLY <2>2, <3>3, <3>4
  <2> QED BY <2>1, <2>2
<1>3. next \in 1..forward.len /\ previous \in Nat
  BY <1>0, <1>2
<1> HIDE DEF forward, t
<1>4. /\ IsStorage(t, ids, values)
      /\ t.capacity = s.capacity /\ t.entries = s.entries /\ t.len = s.len
      /\ t.tail = s.tail
      /\ t.head = IF previous = NoSlot THEN next ELSE s.head
      /\ \A k \in 1..s.len :
            /\ t.links[k].id = s.links[k].id
            /\ t.links[k].next = IF k = previous THEN next ELSE s.links[k].next
            /\ t.links[k].previous = IF k = next THEN previous ELSE s.links[k].previous
  <2>1. IsStorage(forward, ids, values)
    BY <1>2
  <2> HIDE DEF previous, next
  <2>2. /\ IsStorage(t, ids, values)
        /\ t.capacity = forward.capacity /\ t.entries = forward.entries
        /\ t.len = forward.len /\ t.tail = forward.tail /\ t.head = forward.head
        /\ \A k \in 1..forward.len :
              /\ t.links[k].id = forward.links[k].id
              /\ t.links[k].next = forward.links[k].next
              /\ t.links[k].previous = IF k = next THEN previous
                                                   ELSE forward.links[k].previous
    BY ONLY <1>1, <1>3, <2>1, SetPreviousFacts
  <2> QED BY ONLY <1>2, <2>2
<1> QED BY <1>4 DEF t

(* Moving a slot that is not the tail to the recent end.                   *)
LEMMA TouchSlotFacts ==
    ASSUME NEW ids, NEW values, NEW s, IsStorage(s, ids, values), LinksCoherent(s),
           NEW slot \in 1..s.len, slot # s.tail
    PROVE  LET t == TouchSlot(s, slot)
               previous == s.links[slot].previous
               next == s.links[slot].next
           IN
           /\ IsStorage(t, ids, values)
           /\ t.capacity = s.capacity /\ t.entries = s.entries /\ t.len = s.len
           /\ t.tail = slot
           /\ t.head = IF previous = NoSlot THEN next ELSE s.head
           /\ \A k \in 1..s.len :
                 /\ t.links[k].id = s.links[k].id
                 /\ t.links[k].next = IF k = s.tail THEN slot
                                      ELSE IF k = slot THEN NoSlot
                                      ELSE IF k = previous THEN next ELSE s.links[k].next
                 /\ t.links[k].previous = IF k = slot THEN s.tail
                                          ELSE IF k = next THEN previous
                                          ELSE s.links[k].previous
<1> DEFINE u == Unlink(s, slot)
           t == TouchSlot(s, slot)
           previous == s.links[slot].previous
           next == s.links[slot].next
<1>1. /\ s.len \in Nat /\ s.tail \in 1..s.len
      /\ previous \in 0..s.len /\ next \in 1..s.len /\ NoSlot = 0
  BY DEF IsStorage, LinksCoherent, NoSlot
<1>2. /\ IsStorage(u, ids, values)
      /\ u.capacity = s.capacity /\ u.entries = s.entries /\ u.len = s.len
      /\ u.tail = s.tail
      /\ u.head = IF previous = NoSlot THEN next ELSE s.head
      /\ \A k \in 1..s.len :
            /\ u.links[k].id = s.links[k].id
            /\ u.links[k].next = IF k = previous THEN next ELSE s.links[k].next
            /\ u.links[k].previous = IF k = next THEN previous ELSE s.links[k].previous
  BY <1>1, UnlinkFacts
<1>3. t = AppendSlot(u, slot)
  BY DEF TouchSlot
<1> HIDE DEF u, t
<1>4. slot \in 1..u.len /\ u.tail \in 0..u.len
  BY <1>1, <1>2
<1>5. IsStorage(u, ids, values)
  BY <1>2
<1>6. /\ IsStorage(t, ids, values)
      /\ t.capacity = u.capacity /\ t.entries = u.entries /\ t.len = u.len
      /\ t.head = IF u.tail = NoSlot THEN slot ELSE u.head
      /\ t.tail = slot
      /\ \A k \in 1..u.len :
            /\ t.links[k].id = u.links[k].id
            /\ t.links[k].previous = IF k = slot THEN u.tail ELSE u.links[k].previous
            /\ t.links[k].next = IF k = u.tail THEN slot
                                 ELSE IF k = slot THEN NoSlot ELSE u.links[k].next
  BY <1>3, <1>4, <1>5, AppendSlotFacts
<1>7. u.tail # NoSlot
  BY <1>1, <1>2
<1>8. /\ t.capacity = s.capacity /\ t.entries = s.entries /\ t.len = s.len
      /\ t.head = IF previous = NoSlot THEN next ELSE s.head
  BY <1>2, <1>6, <1>7
<1>9. ASSUME NEW k \in 1..s.len
      PROVE  /\ t.links[k].id = s.links[k].id
             /\ t.links[k].next = IF k = s.tail THEN slot
                                  ELSE IF k = slot THEN NoSlot
                                  ELSE IF k = previous THEN next ELSE s.links[k].next
             /\ t.links[k].previous = IF k = slot THEN s.tail
                                      ELSE IF k = next THEN previous
                                      ELSE s.links[k].previous
  BY <1>1, <1>2, <1>6
<1> QED BY <1>6, <1>8, <1>9 DEF t

(* A touch keeps the index and the links coherent.                         *)
LEMMA TouchKeepsInvariant ==
    ASSUME NEW ids, NEW values, NEW s, LruInvariant(s, ids, values),
           NEW slot \in 1..s.len
    PROVE  LET t == TouchSlot(s, slot) IN
           /\ LruInvariant(t, ids, values)
           /\ t.capacity = s.capacity /\ t.entries = s.entries /\ t.len = s.len
           /\ t.tail = slot
<1> DEFINE t == TouchSlot(s, slot)
           previous == s.links[slot].previous
           next == s.links[slot].next
<1>1. CASE slot = s.tail
  BY <1>1 DEF TouchSlot
<1>2. CASE slot # s.tail
  <2>1. /\ IsStorage(t, ids, values)
        /\ t.capacity = s.capacity /\ t.entries = s.entries /\ t.len = s.len
        /\ t.tail = slot
        /\ t.head = IF previous = NoSlot THEN next ELSE s.head
        /\ \A k \in 1..s.len :
              /\ t.links[k].id = s.links[k].id
              /\ t.links[k].next = IF k = s.tail THEN slot
                                   ELSE IF k = slot THEN NoSlot
                                   ELSE IF k = previous THEN next ELSE s.links[k].next
              /\ t.links[k].previous = IF k = slot THEN s.tail
                                       ELSE IF k = next THEN previous
                                       ELSE s.links[k].previous
    BY <1>2, TouchSlotFacts DEF LruInvariant
  <2> HIDE DEF t
  <2>2. IndexCoherent(t)
    <3>1. IndexCoherent(s)
      BY DEF LruInvariant
    <3> QED BY ONLY <2>1, <3>1 DEF IndexCoherent, Residents
  <2>3. LinksCoherent(t)
    <3>1. /\ s.len \in Nat /\ s.tail \in 1..s.len /\ s.head \in 1..s.len
          /\ next \in 1..s.len /\ s.links[next].previous = slot
          /\ s.links[s.head].previous = 0 /\ s.links[s.tail].next = 0
          /\ previous = 0 => slot = s.head
          /\ previous # 0 => previous \in 1..s.len /\ s.links[previous].next = slot
      <4>1. s.len \in Nat /\ LinksCoherent(s)
        BY DEF LruInvariant, IsStorage
      <4> QED BY ONLY <1>2, <4>1, slot \in 1..s.len DEF LinksCoherent, NoSlot
    <3>2. \A k \in 1..s.len :
             /\ k # s.tail => s.links[k].next \in 1..s.len
                              /\ s.links[s.links[k].next].previous = k
             /\ k # s.head => s.links[k].previous \in 1..s.len
                              /\ s.links[s.links[k].previous].next = k
      BY DEF LruInvariant, LinksCoherent
    <3>3. /\ t.head \in 1..t.len /\ t.links[t.head].previous = NoSlot
          /\ t.tail \in 1..t.len /\ t.links[t.tail].next = NoSlot
      BY <1>2, <2>1, <3>1, <3>2 DEF NoSlot
    <3>4. ASSUME NEW k \in 1..t.len
          PROVE  IF k = t.tail THEN t.links[k].next = NoSlot
                 ELSE /\ t.links[k].next \in 1..t.len
                      /\ t.links[t.links[k].next].previous = k
      BY <1>2, <2>1, <3>1, <3>2 DEF NoSlot
    <3>5. ASSUME NEW k \in 1..t.len
          PROVE  IF k = t.head THEN t.links[k].previous = NoSlot
                 ELSE /\ t.links[k].previous \in 1..t.len
                      /\ t.links[t.links[k].previous].next = k
      <4>1. k \in 1..s.len /\ slot \in 1..s.len /\ s.tail # slot
        BY ONLY <1>2, <2>1, k \in 1..t.len, slot \in 1..s.len
      <4>2. CASE k = slot
        <5>1. t.links[k].previous = s.tail /\ s.tail \in 1..t.len /\ k # t.head
          BY ONLY <2>1, <3>1, <3>2, <4>1, <4>2, <1>2 DEF NoSlot
        <5>2. t.links[s.tail].next = slot
          BY ONLY <2>1, <3>1
        <5> QED
          BY ONLY <4>2, <5>1, <5>2
      <4>3. CASE k # slot /\ k = next
        <5>1. t.links[k].previous = previous
          BY ONLY <2>1, <4>1, <4>3
        <5>2. CASE previous = NoSlot
          BY ONLY <2>1, <4>1, <4>3, <5>1, <5>2
        <5>3. CASE previous # NoSlot
          <6>1. previous \in 1..s.len /\ s.links[previous].next = slot /\ k # t.head
            BY ONLY <2>1, <3>1, <3>2, <4>1, <4>3, <5>3 DEF NoSlot
          <6>2. previous # s.tail /\ previous # slot
            BY ONLY <3>1, <3>2, <4>1, <4>3, <6>1, s.len \in Nat DEF NoSlot
          <6>3. t.links[previous].next = next
            BY ONLY <2>1, <6>1, <6>2
          <6> QED
            BY ONLY <2>1, <4>3, <5>1, <6>1, <6>3
        <5> QED
          BY <5>2, <5>3
      <4>4. CASE k # slot /\ k # next
        BY <1>2, <2>1, <3>1, <3>2, <4>1, <4>4 DEF NoSlot
      <4> QED BY <4>2, <4>3, <4>4
    <3>6. t.len # 0
      BY <3>1, <2>1
    <3> QED BY <3>3, <3>4, <3>5, <3>6 DEF LinksCoherent
  <2> QED BY <2>1, <2>2, <2>3 DEF LruInvariant, t
<1> QED BY <1>1, <1>2

(* Ids and slots index each other, so there are as many of either.         *)
LEMMA ResidentCount ==
    ASSUME NEW ids, NEW values, NEW s, IsStorage(s, ids, values), IndexCoherent(s)
    PROVE  IsFiniteSet(Residents(s)) /\ Cardinality(Residents(s)) = s.len
<1> DEFINE f == [k \in 1..s.len |-> s.links[k].id]
<1>1. s.len \in Nat
  BY DEF IsStorage
<1>2. f \in Bijection(1..s.len, Residents(s))
  <2>1. \A k \in 1..s.len : f[k] \in Residents(s) /\ s.entries[f[k]].slot = k
    BY DEF IndexCoherent
  <2>2. \A i \in Residents(s) : \E k \in 1..s.len : f[k] = i
    BY DEF IndexCoherent
  <2>3. \A j, k \in 1..s.len : f[j] = f[k] => j = k
    BY <2>1
  <2> QED BY <2>1, <2>2, <2>3 DEF Bijection, Injection, Surjection, IsInjective
<1>3. ExistsBijection(1..s.len, Residents(s))
  BY <1>2 DEF ExistsBijection
<1> QED BY <1>1, <1>3, FS_NatBijection, FS_CountingElements

(* Below the capacity, an absent id takes a new slot at the recent end.    *)
LEMMA GrowKeepsInvariant ==
    ASSUME NEW ids, NEW values, NEW s, LruInvariant(s, ids, values),
           NEW id \in ids, id \notin Residents(s), NEW value \in values,
           s.len < s.capacity
    PROVE  LET t == Grow(s, id, value) IN
           /\ LruInvariant(t, ids, values)
           /\ t.capacity = s.capacity
           /\ t.entries = WithEntry(s.entries, {}, id, s.len + 1, value)
           /\ t.tail = s.len + 1 /\ t.len = s.len + 1
           /\ t.head = IF s.tail = NoSlot THEN s.len + 1 ELSE s.head
           /\ t.links[s.len + 1].id = id
           /\ \A k \in 1..s.len :
                 /\ t.links[k].id = s.links[k].id
                 /\ t.links[k].next = IF k = s.tail THEN s.len + 1 ELSE s.links[k].next
<1> DEFINE slot == s.len + 1
           row == [id |-> id, previous |-> NoSlot, next |-> NoSlot]
           links == [k \in 1..slot |-> IF k = slot THEN row ELSE s.links[k]]
           entries == WithEntry(s.entries, {}, id, slot, value)
           u == [s EXCEPT !.entries = entries, !.links = links, !.len = slot]
           t == Grow(s, id, value)
<1>1. /\ s.len \in Nat /\ slot \in Nat /\ slot \in 1..slot /\ s.capacity \in Nat
      /\ 1..s.len = 1..slot \ {slot}
  BY DEF LruInvariant, IsStorage
<1>2. /\ u.entries = entries /\ u.links = links /\ u.len = slot
      /\ u.capacity = s.capacity /\ u.head = s.head /\ u.tail = s.tail
      /\ u \in [capacity : Nat, entries : {u.entries}, links : {u.links},
                len : Nat, head : Nat, tail : Nat]
  BY <1>1 DEF LruInvariant, IsStorage
<1>3. /\ DOMAIN entries = Residents(s) \cup {id}
      /\ entries[id] = [slot |-> slot, value |-> value]
      /\ \A i \in Residents(s) : entries[i] = s.entries[i]
  BY DEF WithEntry, Residents
<1>4. entries \in [DOMAIN entries -> [slot : Nat, value : values]]
  <2>1. s.entries \in [Residents(s) -> [slot : Nat, value : values]]
    BY DEF LruInvariant, IsStorage
  <2>2. \A i \in DOMAIN entries : entries[i] \in [slot : Nat, value : values]
    BY <1>1, <1>3, <2>1
  <2>3. entries = [i \in DOMAIN entries |-> entries[i]]
    BY DEF WithEntry
  <2> HIDE DEF entries
  <2> QED BY <2>2, <2>3
<1>5. links \in [1..slot -> [id : ids, previous : Nat, next : Nat]]
  BY <1>1 DEF LruInvariant, IsStorage, NoSlot
<1> HIDE DEF u, entries, links
<1>6. IsStorage(u, ids, values)
  BY <1>1, <1>2, <1>3, <1>4, <1>5 DEF LruInvariant, IsStorage, Residents
<1>7. t = AppendSlot(u, slot)
  BY DEF Grow, u, entries, links
<1> HIDE DEF t
<1>8. slot \in 1..u.len /\ u.tail \in 0..u.len
  BY <1>1, <1>2 DEF LruInvariant, LinksCoherent, NoSlot
<1>9. /\ IsStorage(t, ids, values)
      /\ t.capacity = s.capacity /\ t.entries = entries /\ t.len = slot
      /\ t.head = IF s.tail = NoSlot THEN slot ELSE s.head
      /\ t.tail = slot
      /\ \A k \in 1..slot :
            /\ t.links[k].id = links[k].id
            /\ t.links[k].previous = IF k = slot THEN s.tail ELSE links[k].previous
            /\ t.links[k].next = IF k = s.tail THEN slot
                                 ELSE IF k = slot THEN NoSlot ELSE links[k].next
  BY <1>2, <1>6, <1>7, <1>8, AppendSlotFacts
<1>10. /\ \A k \in 1..s.len : links[k] = s.links[k]
       /\ links[slot].id = id
  BY <1>1 DEF links
<1>11. IndexCoherent(t)
  <2>1. IndexCoherent(s)
    BY DEF LruInvariant
  <2> QED BY <1>1, <1>3, <1>9, <1>10, <2>1 DEF IndexCoherent, Residents
<1>12. LinksCoherent(t)
  <2>1. CASE s.len = 0
    BY <1>1, <1>9, <1>10, <2>1 DEF LruInvariant, LinksCoherent, NoSlot
  <2>2. CASE s.len # 0
    <3>1. /\ s.tail \in 1..s.len /\ s.head \in 1..s.len
          /\ s.links[s.head].previous = 0 /\ s.links[s.tail].next = 0
      BY <1>1, <2>2 DEF LruInvariant, LinksCoherent, NoSlot
    <3>2. \A k \in 1..s.len :
             /\ k # s.tail => s.links[k].next \in 1..s.len
                              /\ s.links[s.links[k].next].previous = k
             /\ k # s.head => s.links[k].previous \in 1..s.len
                              /\ s.links[s.links[k].previous].next = k
      BY DEF LruInvariant, LinksCoherent
    <3>3. \A k \in 1..s.len :
             /\ t.links[k].previous = s.links[k].previous
             /\ t.links[k].next = IF k = s.tail THEN slot ELSE s.links[k].next
      BY <1>1, <1>9, <1>10
    <3>4. /\ t.links[slot].previous = s.tail /\ t.links[slot].next = 0
          /\ t.head = s.head /\ t.tail = slot /\ t.len = slot
      BY <1>1, <1>9, <3>1 DEF NoSlot
    <3>5. /\ t.head \in 1..t.len /\ t.links[t.head].previous = NoSlot
          /\ t.tail \in 1..t.len /\ t.links[t.tail].next = NoSlot
      BY <1>1, <3>1, <3>3, <3>4 DEF NoSlot
    <3>6. ASSUME NEW k \in 1..t.len
          PROVE  IF k = t.tail THEN t.links[k].next = NoSlot
                 ELSE /\ t.links[k].next \in 1..t.len
                      /\ t.links[t.links[k].next].previous = k
      BY <1>1, <3>1, <3>2, <3>3, <3>4 DEF NoSlot
    <3>7. ASSUME NEW k \in 1..t.len
          PROVE  IF k = t.head THEN t.links[k].previous = NoSlot
                 ELSE /\ t.links[k].previous \in 1..t.len
                      /\ t.links[t.links[k].previous].next = k
      BY <1>1, <3>1, <3>2, <3>3, <3>4 DEF NoSlot
    <3> QED BY <1>1, <3>4, <3>5, <3>6, <3>7 DEF LinksCoherent
  <2> QED BY <2>1, <2>2
<1>13. t.len <= t.capacity /\ t.capacity > 0
  BY <1>1, <1>9 DEF LruInvariant
<1>14. /\ t.links[slot].id = id
       /\ \A k \in 1..s.len :
             /\ t.links[k].id = s.links[k].id
             /\ t.links[k].next = IF k = s.tail THEN slot ELSE s.links[k].next
  BY <1>1, <1>9, <1>10
<1>15. LruInvariant(t, ids, values)
  BY <1>9, <1>11, <1>12, <1>13 DEF LruInvariant
<1> QED BY <1>9, <1>14, <1>15 DEF t, entries

(* At the capacity, the absent id takes over the slot of the least recent  *)
(* one, which then moves to the recent end.                                *)
Displaced(s) == {s.links[s.head].id}
Relabelled(s, id, value) ==
    [s EXCEPT !.entries = WithEntry(s.entries, Displaced(s), id, s.head, value),
              !.links[s.head].id = id]

LEMMA RelabelFacts ==
    ASSUME NEW ids, NEW values, NEW s, IsStorage(s, ids, values), NEW id, NEW value,
           s.head \in 1..s.len
    PROVE  /\ Relabelled(s, id, value).len = s.len
           /\ Relabelled(s, id, value).head = s.head
           /\ Relabelled(s, id, value).tail = s.tail
           /\ Relabelled(s, id, value).capacity = s.capacity
<1> DEFINE entries == WithEntry(s.entries, Displaced(s), id, s.head, value)
<1> HIDE DEF entries
<1>1. Relabelled(s, id, value) = [s EXCEPT !.entries = entries, !.links[s.head].id = id]
  BY DEF Relabelled, entries
<1> QED BY <1>1 DEF IsStorage, entries

LEMMA RelabelEntries ==
    ASSUME NEW ids, NEW values, NEW s, IsStorage(s, ids, values), NEW id, NEW value,
           s.head \in 1..s.len
    PROVE  Relabelled(s, id, value).entries
              = WithEntry(s.entries, Displaced(s), id, s.head, value)
<1> DEFINE entries == WithEntry(s.entries, Displaced(s), id, s.head, value)
<1> HIDE DEF entries
<1>1. Relabelled(s, id, value) = [s EXCEPT !.entries = entries, !.links[s.head].id = id]
  BY DEF Relabelled, entries
<1> QED BY <1>1 DEF IsStorage, entries

LEMMA RelabelLinks ==
    ASSUME NEW ids, NEW values, NEW s, IsStorage(s, ids, values), NEW id, NEW value,
           s.head \in 1..s.len
    PROVE  \A k \in 1..s.len :
              /\ Relabelled(s, id, value).links[k].id = IF k = s.head THEN id
                                                        ELSE s.links[k].id
              /\ Relabelled(s, id, value).links[k].next = s.links[k].next
<1> DEFINE entries == WithEntry(s.entries, Displaced(s), id, s.head, value)
<1> HIDE DEF entries
<1>1. Relabelled(s, id, value) = [s EXCEPT !.entries = entries, !.links[s.head].id = id]
  BY DEF Relabelled, entries
<1> QED BY <1>1 DEF IsStorage

LEMMA RelabelKeepsInvariant ==
    ASSUME NEW ids, NEW values, NEW s, LruInvariant(s, ids, values),
           NEW id \in ids, id \notin Residents(s), NEW value \in values,
           s.head \in 1..s.len
    PROVE  LruInvariant(Relabelled(s, id, value), ids, values)
<1> DEFINE slot == s.head
           old == s.links[slot].id
           entries == WithEntry(s.entries, Displaced(s), id, slot, value)
           links == [s.links EXCEPT ![slot] = [@ EXCEPT !.id = id]]
           u == Relabelled(s, id, value)
<1>1. /\ s.len \in Nat /\ slot \in 1..s.len /\ s.capacity \in Nat /\ slot \in Nat
      /\ old \in Residents(s) /\ s.entries[old].slot = slot
  BY DEF LruInvariant, IsStorage, LinksCoherent, IndexCoherent
<1>2. /\ u.entries = entries /\ u.links = links /\ u.len = s.len
      /\ u.capacity = s.capacity /\ u.head = s.head /\ u.tail = s.tail
      /\ u \in [capacity : Nat, entries : {u.entries}, links : {u.links},
                len : Nat, head : Nat, tail : Nat]
  BY <1>1 DEF LruInvariant, IsStorage, Relabelled
<1>3. /\ DOMAIN entries = (Residents(s) \ {old}) \cup {id}
      /\ entries[id] = [slot |-> slot, value |-> value]
      /\ \A i \in Residents(s) \ {old} : entries[i] = s.entries[i]
  BY DEF WithEntry, Residents, Displaced
<1>4. entries \in [DOMAIN entries -> [slot : Nat, value : values]]
  <2>1. s.entries \in [Residents(s) -> [slot : Nat, value : values]]
    BY DEF LruInvariant, IsStorage
  <2>2. ASSUME NEW i \in DOMAIN entries
        PROVE  entries[i] \in [slot : Nat, value : values]
    <3> HIDE DEF entries
    <3>1. CASE i = id
      BY ONLY <1>1, <1>3, <3>1, value \in values
    <3>2. CASE i # id
      BY <1>3, <2>1, <3>2
    <3> QED BY <3>1, <3>2
  <2>3. entries = [i \in DOMAIN entries |-> entries[i]]
    BY DEF WithEntry
  <2> HIDE DEF entries
  <2> QED BY <2>2, <2>3
<1>5. /\ links \in [1..s.len -> [id : ids, previous : Nat, next : Nat]]
      /\ \A k \in 1..s.len :
            /\ links[k].id = IF k = slot THEN id ELSE s.links[k].id
            /\ links[k].previous = s.links[k].previous
            /\ links[k].next = s.links[k].next
  BY <1>1 DEF LruInvariant, IsStorage
<1> HIDE DEF u, entries, links
<1>7. IsStorage(u, ids, values)
  <2>2. /\ u.entries \in [Residents(u) -> [slot : Nat, value : values]]
        /\ u.links \in [1..u.len -> [id : ids, previous : Nat, next : Nat]]
    BY ONLY <1>2, <1>4, <1>5 DEF Residents
  <2>3. Residents(u) \subseteq ids
    BY <1>2, <1>3 DEF LruInvariant, IsStorage, Residents
  <2> QED BY ONLY <1>2, <2>2, <2>3 DEF IsStorage
<1>8. IndexCoherent(u)
  <2>1. \A k \in 1..s.len : /\ s.links[k].id \in Residents(s)
                            /\ s.entries[s.links[k].id].slot = k
    BY DEF LruInvariant, IndexCoherent
  <2>2. ASSUME NEW k \in 1..s.len
        PROVE  links[k].id \in DOMAIN entries /\ entries[links[k].id].slot = k
    <3>1. CASE k = slot
      <4>1. links[k].id = id
        BY ONLY <1>1, <1>5, <3>1
      <4>2. id \in DOMAIN entries /\ entries[id].slot = slot
        BY ONLY <1>3
      <4> QED BY ONLY <3>1, <4>1, <4>2
    <3>2. CASE k # slot
      <4>1. links[k].id = s.links[k].id /\ s.links[k].id \in Residents(s) \ {old}
        BY ONLY <3>2, <1>1, <1>5, <2>1, k \in 1..s.len
      <4> QED BY ONLY <4>1, <1>3, <2>1, k \in 1..s.len
    <3> QED BY <3>1, <3>2
  <2>3. ASSUME NEW i \in DOMAIN entries
        PROVE  entries[i].slot \in 1..s.len /\ links[entries[i].slot].id = i
    <3>1. CASE i = id
      <4>1. entries[i].slot = slot
        BY ONLY <1>3, <3>1
      <4>2. links[slot].id = id /\ slot \in 1..s.len
        BY ONLY <1>1, <1>5
      <4> QED BY ONLY <3>1, <4>1, <4>2
    <3>2. CASE i # id
      <4>1. i \in Residents(s) /\ i # old /\ entries[i] = s.entries[i]
        BY <1>3, <3>2
      <4>2. s.entries[i].slot \in 1..s.len /\ s.links[s.entries[i].slot].id = i
        BY <4>1 DEF LruInvariant, IndexCoherent
      <4>3. s.entries[i].slot # slot
        BY ONLY <4>1, <4>2, <1>1
      <4> QED BY ONLY <1>5, <4>1, <4>2, <4>3
    <3> QED BY <3>1, <3>2
  <2> QED BY <1>2, <2>2, <2>3 DEF IndexCoherent, Residents
<1>9. LinksCoherent(u)
  <2>1. LinksCoherent(s)
    BY DEF LruInvariant
  <2>2. /\ u.len = s.len /\ u.head = s.head /\ u.tail = s.tail
        /\ \A k \in 1..s.len : /\ u.links[k].previous = s.links[k].previous
                              /\ u.links[k].next = s.links[k].next
    BY <1>2, <1>5
  <2>3. /\ u.len = 0 => u.head = NoSlot /\ u.tail = NoSlot
        /\ u.len > 0 => /\ u.head \in 1..u.len /\ u.links[u.head].previous = NoSlot
                        /\ u.tail \in 1..u.len /\ u.links[u.tail].next = NoSlot
    BY ONLY <2>1, <2>2, <1>1 DEF LinksCoherent
  <2>4. ASSUME NEW k \in 1..u.len
        PROVE  /\ IF k = u.tail THEN u.links[k].next = NoSlot
                  ELSE /\ u.links[k].next \in 1..u.len
                       /\ u.links[u.links[k].next].previous = k
               /\ IF k = u.head THEN u.links[k].previous = NoSlot
                  ELSE /\ u.links[k].previous \in 1..u.len
                       /\ u.links[u.links[k].previous].next = k
    <3>1. k \in 1..s.len
      BY <2>2
    <3> QED BY ONLY <2>1, <2>2, <3>1 DEF LinksCoherent
  <2> QED BY ONLY <2>3, <2>4 DEF LinksCoherent
<1>10. LruInvariant(u, ids, values)
  BY <1>2, <1>7, <1>8, <1>9 DEF LruInvariant
<1> QED BY <1>10 DEF u

LEMMA ReplaceKeepsInvariant ==
    ASSUME NEW ids, NEW values, NEW s, LruInvariant(s, ids, values),
           NEW id \in ids, id \notin Residents(s), NEW value \in values,
           s.len = s.capacity
    PROVE  LET t == Replace(s, id, value) IN
           /\ LruInvariant(t, ids, values)
           /\ t.capacity = s.capacity
           /\ t.entries = WithEntry(s.entries, Displaced(s), id, s.head, value)
           /\ t.tail = s.head
           /\ s.head \in 1..s.len /\ t = TouchSlot(Relabelled(s, id, value), s.head)
<1> DEFINE u == Relabelled(s, id, value)
           t == Replace(s, id, value)
<1>1. s.head \in 1..s.len
  BY DEF LruInvariant, IsStorage, LinksCoherent
<1>2. t = TouchSlot(u, s.head)
  BY DEF Replace, Relabelled, Displaced
<1> HIDE DEF t, u
<1>3. LruInvariant(u, ids, values)
  BY <1>1, RelabelKeepsInvariant DEF u
<1>6. IsStorage(s, ids, values)
  BY DEF LruInvariant
<1>7. u.len = s.len /\ u.capacity = s.capacity
  BY <1>1, <1>6, RelabelFacts DEF u
<1>8. u.entries = WithEntry(s.entries, Displaced(s), id, s.head, value)
  BY <1>1, <1>6, RelabelEntries DEF u
<1>4. s.head \in 1..u.len
  BY <1>1, <1>7
<1>5. /\ LruInvariant(t, ids, values)
      /\ t.capacity = u.capacity /\ t.entries = u.entries /\ t.tail = s.head
  BY <1>2, <1>3, <1>4, TouchKeepsInvariant
<1> QED BY <1>1, <1>2, <1>5, <1>7, <1>8 DEF t, u

(* An absent id is admitted within the capacity as the most recent entry,  *)
(* with the caller's value, and no other resident changes.                 *)
LEMMA InsertKeepsInvariant ==
    ASSUME NEW ids, NEW values, NEW s, LruInvariant(s, ids, values),
           NEW id \in ids, id \notin Residents(s), NEW value \in values
    PROVE  LET t == InsertId(s, id, value) IN
           /\ LruInvariant(t, ids, values)
           /\ t.capacity = s.capacity
           /\ id \in Residents(t) /\ t.entries[id].value = value
           /\ t.entries[id].slot = t.tail
<1>1. s.len \in Nat /\ s.capacity \in Nat /\ s.len <= s.capacity
  BY DEF LruInvariant, IsStorage
<1>2. Full(s) <=> s.len = s.capacity
  BY ResidentCount DEF LruInvariant, Full
<1>3. ASSUME NEW gone, NEW slot
      PROVE  LET e == WithEntry(s.entries, gone, id, slot, value) IN
             id \in DOMAIN e /\ e[id] = [slot |-> slot, value |-> value]
  BY DEF WithEntry
<1>4. CASE Full(s)
  <2>1. InsertId(s, id, value) = Replace(s, id, value)
    BY <1>4 DEF InsertId
  <2> DEFINE t == Replace(s, id, value)
  <2>2. /\ LruInvariant(t, ids, values)
        /\ t.capacity = s.capacity /\ t.tail = s.head
        /\ t.entries = WithEntry(s.entries, Displaced(s), id, s.head, value)
    <3>1. s.len = s.capacity
      BY <1>2, <1>4
    <3> QED BY <3>1, ReplaceKeepsInvariant
  <2> HIDE DEF t
  <2>3. id \in DOMAIN t.entries /\ t.entries[id] = [slot |-> s.head, value |-> value]
    BY <1>3, <2>2
  <2> QED BY <2>1, <2>2, <2>3 DEF Residents, t
<1>5. CASE ~Full(s)
  <2>1. InsertId(s, id, value) = Grow(s, id, value)
    BY <1>5 DEF InsertId
  <2>2. s.len < s.capacity
    BY <1>1, <1>2, <1>5
  <2> DEFINE t == Grow(s, id, value)
  <2>3. /\ LruInvariant(t, ids, values)
        /\ t.capacity = s.capacity /\ t.tail = s.len + 1
        /\ t.entries = WithEntry(s.entries, {}, id, s.len + 1, value)
    BY <2>2, GrowKeepsInvariant
  <2> HIDE DEF t
  <2>4. id \in DOMAIN t.entries /\ t.entries[id] = [slot |-> s.len + 1, value |-> value]
    BY <1>3, <2>3
  <2> QED BY <2>1, <2>3, <2>4 DEF Residents, t
<1> QED BY <1>4, <1>5
(* The least-number principle, for sets.                                   *)
LEMMA LeastNumber ==
    ASSUME NEW T, T \subseteq Nat, T # {}
    PROVE  \E m \in T : \A n \in T : m <= n
<1> DEFINE R == OpToRel(<, Nat)
<1>1. IsWellFoundedOn(R, Nat)
  BY NatLessThanWellFounded
<1>2. \A m, n \in Nat : <<n, m>> \in R <=> n < m
  BY DEF OpToRel
<1> HIDE DEF R
<1>3. PICK m \in T : \A n \in T : ~ (<<n, m>> \in R)
  BY <1>1, WFMin
<1>4. ASSUME NEW n \in T PROVE m <= n
  <2>1. m \in Nat /\ n \in Nat /\ ~(n < m)
    BY <1>2, <1>3
  <2> QED BY <2>1
<1> QED BY <1>3, <1>4

-----------------------------------------------------------------------------
(* The list as a sequence of slots, and of the ids they hold               *)

(* `at` lists the slots from head to tail along the links, each once.      *)
Ordering(s, at) ==
    /\ at \in [1..s.len -> 1..s.len]
    /\ s.len > 0 => at[1] = s.head /\ at[s.len] = s.tail
    /\ \A n \in 2..s.len : s.links[at[n - 1]].next = at[n]
    /\ \A m, n \in 1..s.len : at[m] = at[n] => m = n
    /\ \A k \in 1..s.len : \E n \in 1..s.len : at[n] = k

(* The m-th element moved behind the others.                               *)
MovedToEnd(seq, len, m) ==
    [n \in 1..len |-> IF n < m THEN seq[n] ELSE IF n < len THEN seq[n + 1] ELSE seq[m]]

LEMMA MovedFrom ==
    ASSUME NEW len \in Nat, NEW seq, NEW m \in 1..len, NEW n \in 1..len
    PROVE  \E p \in 1..len : MovedToEnd(seq, len, m)[n] = seq[p]
<1>1. n < m => MovedToEnd(seq, len, m)[n] = seq[n]
  BY DEF MovedToEnd
<1>2. ~(n < m) /\ n < len => n + 1 \in 1..len /\ MovedToEnd(seq, len, m)[n] = seq[n + 1]
  BY DEF MovedToEnd
<1>3. ~(n < m) /\ ~(n < len) => MovedToEnd(seq, len, m)[n] = seq[m]
  BY DEF MovedToEnd
<1> QED BY <1>1, <1>2, <1>3

LEMMA MovedOnto ==
    ASSUME NEW len \in Nat, NEW seq, NEW m \in 1..len, NEW p \in 1..len
    PROVE  \E n \in 1..len : MovedToEnd(seq, len, m)[n] = seq[p]
<1>1. p < m => MovedToEnd(seq, len, m)[p] = seq[p]
  BY DEF MovedToEnd
<1>2. m < p => p - 1 \in 1..len /\ MovedToEnd(seq, len, m)[p - 1] = seq[p]
  BY DEF MovedToEnd
<1>3. p = m => len \in 1..len /\ MovedToEnd(seq, len, m)[len] = seq[p]
  BY DEF MovedToEnd
<1> QED BY <1>1, <1>2, <1>3

LEMMA MovedApart ==
    ASSUME NEW len \in Nat, NEW seq, NEW m \in 1..len, NEW i \in 1..len, NEW j \in 1..len,
           \A k, l \in 1..len : seq[k] = seq[l] => k = l,
           MovedToEnd(seq, len, m)[i] = MovedToEnd(seq, len, m)[j]
    PROVE  i = j
<1> DEFINE from(n) == IF n < m THEN n ELSE IF n < len THEN n + 1 ELSE m
<1>1. /\ MovedToEnd(seq, len, m)[i] = seq[from(i)] /\ from(i) \in 1..len
      /\ MovedToEnd(seq, len, m)[j] = seq[from(j)] /\ from(j) \in 1..len
  BY DEF MovedToEnd
<1>2. from(i) = from(j)
  BY <1>1
<1> QED BY <1>2

(* The walk follows the ordering: there is only one.                       *)
LEMMA WalkIsOrdering ==
    ASSUME NEW s, s.len \in Nat, NEW at, Ordering(s, at)
    PROVE  WalkSlots(s) = at
<1> DEFINE step(g) == [n \in 1..s.len |->
                          IF n = 1 THEN s.head
                          ELSE IF g[n-1] \in 1..s.len THEN s.links[g[n-1]].next ELSE NoSlot]
           f == CHOOSE g : g = step(g)
           differing == {n \in 1..s.len : f[n] # at[n]}
<1>0. /\ at \in [1..s.len -> 1..s.len]
      /\ s.len > 0 => at[1] = s.head
      /\ \A n \in 2..s.len : at[n] = s.links[at[n - 1]].next
  BY DEF Ordering
<1>1. at = step(at)
  BY <1>0
<1>2. f = step(f)
  BY <1>1
<1>3. WalkSlots(s) = [n \in 1..s.len |-> f[n]]
  BY DEF WalkSlots
<1>4. differing = {}
  <2>1. SUFFICES ASSUME differing # {} PROVE FALSE
    OBVIOUS
  <2>2. PICK m \in differing : \A n \in differing : m <= n
    <3>1. differing \subseteq Nat
      OBVIOUS
    <3> HIDE DEF differing
    <3> QED BY <2>1, <3>1, LeastNumber
  <2>3. m \in 1..s.len /\ f[m] # at[m]
    BY <2>2
  <2>4. m # 1 => m - 1 \in 1..s.len /\ m - 1 \notin differing
    <3>1. m \in 1..s.len
      BY <2>3
    <3> HIDE DEF f, differing
    <3>2. m \in Nat /\ ~(m <= m - 1) /\ (m # 1 => m - 1 \in 1..s.len)
      BY ONLY <3>1, s.len \in Nat
    <3> QED BY ONLY <2>2, <3>2
  <2>5. f[m] = IF m = 1 THEN s.head
               ELSE IF f[m-1] \in 1..s.len THEN s.links[f[m-1]].next ELSE NoSlot
    BY <1>2, <2>3
  <2>6. at[m] = IF m = 1 THEN s.head
                ELSE IF at[m-1] \in 1..s.len THEN s.links[at[m-1]].next ELSE NoSlot
    BY <1>1, <2>3
  <2> HIDE DEF f
  <2>7. m # 1 => f[m-1] = at[m-1]
    BY <2>4
  <2> QED BY <2>3, <2>5, <2>6, <2>7
<1> HIDE DEF f
<1>5. \A n \in 1..s.len : f[n] = at[n]
  BY <1>4
<1> QED BY <1>0, <1>3, <1>5

(* The neighbours of the m-th slot in the list.                            *)
LEMMA Neighbours ==
    ASSUME NEW ids, NEW values, NEW s, LruInvariant(s, ids, values),
           NEW at, Ordering(s, at), NEW m \in 1..s.len
    PROVE  /\ m # s.len => s.links[at[m]].next = at[m + 1]
           /\ s.links[at[m]].previous = IF m = 1 THEN NoSlot ELSE at[m - 1]
<1>0. s.len \in Nat
  BY DEF LruInvariant, IsStorage
<1>1. /\ s.len \in Nat /\ at \in [1..s.len -> 1..s.len]
      /\ at[1] = s.head /\ at[s.len] = s.tail
  <2>1. s.len > 0
    BY <1>0
  <2> QED BY <1>0, <2>1 DEF Ordering
<1>2. \A n \in 2..s.len : s.links[at[n - 1]].next = at[n]
  BY DEF Ordering
<1>3. \A i, j \in 1..s.len : at[i] = at[j] => i = j
  BY DEF Ordering
<1>4. s.links[s.head].previous = NoSlot
  BY <1>1 DEF LruInvariant, LinksCoherent
<1>5. \A k \in 1..s.len : k # s.tail => s.links[s.links[k].next].previous = k
  BY DEF LruInvariant, LinksCoherent
<1>6. m # s.len => s.links[at[m]].next = at[m + 1]
  <2>1. m # s.len => m + 1 \in 2..s.len /\ (m + 1) - 1 = m
    BY <1>1
  <2> QED BY <1>2, <2>1
<1>7. m # 1 => s.links[at[m]].previous = at[m - 1]
  <2>1. m # 1 => m \in 2..s.len /\ m - 1 \in 1..s.len /\ m - 1 # s.len /\ s.len \in 1..s.len
    BY <1>1
  <2>2. m # 1 => at[m - 1] \in 1..s.len /\ at[m - 1] # s.tail
    BY <1>1, <1>3, <2>1
  <2> QED BY <1>2, <1>5, <2>1, <2>2
<1> QED BY <1>1, <1>4, <1>6, <1>7

(* A touch moves the slot to the end and keeps the others in order.        *)
LEMMA TouchOrdering ==
    ASSUME NEW ids, NEW values, NEW s, LruInvariant(s, ids, values),
           NEW at, Ordering(s, at), NEW m \in 1..s.len
    PROVE  Ordering(TouchSlot(s, at[m]), MovedToEnd(at, s.len, m))
<1> DEFINE t == TouchSlot(s, at[m])
           b == MovedToEnd(at, s.len, m)
<1>0. s.len \in Nat /\ at \in [1..s.len -> 1..s.len]
  BY DEF LruInvariant, IsStorage, Ordering
<1>1. /\ s.len \in Nat /\ s.len \in 1..s.len /\ at \in [1..s.len -> 1..s.len]
      /\ at[1] = s.head /\ at[s.len] = s.tail /\ at[m] \in 1..s.len
  <2>1. s.len > 0 /\ s.len \in 1..s.len /\ at[m] \in 1..s.len
    BY <1>0
  <2>2. at[1] = s.head /\ at[s.len] = s.tail
    BY <2>1 DEF Ordering
  <2> QED BY <1>0, <2>1, <2>2
<1>2. /\ \A i, j \in 1..s.len : at[i] = at[j] => i = j
      /\ \A k \in 1..s.len : \E n \in 1..s.len : at[n] = k
  BY DEF Ordering
<1>3. /\ b = [n \in 1..s.len |-> b[n]]
      /\ m = s.len => b = at
  BY <1>0 DEF MovedToEnd
<1>len. s.len \in Nat
  BY <1>0
<1>4. /\ \A i, j \in 1..s.len : b[i] = b[j] => i = j
      /\ \A k \in 1..s.len : \E n \in 1..s.len : b[n] = k
      /\ b \in [1..s.len -> 1..s.len]
  <2>1. ASSUME NEW i \in 1..s.len, NEW j \in 1..s.len, b[i] = b[j] PROVE i = j
    BY <1>len, <1>2, <2>1, MovedApart
  <2>2. ASSUME NEW k \in 1..s.len PROVE \E n \in 1..s.len : b[n] = k
    <3>1. PICK p \in 1..s.len : at[p] = k
      BY <1>2
    <3>2. \E n \in 1..s.len : b[n] = at[p]
      BY <1>len, MovedOnto
    <3> QED BY <3>1, <3>2
  <2>3. ASSUME NEW n \in 1..s.len PROVE b[n] \in 1..s.len
    <3>1. PICK p \in 1..s.len : b[n] = at[p]
      BY <1>len, MovedFrom
    <3> QED BY <1>0, <3>1
  <2> HIDE DEF b
  <2>4. b \in [1..s.len -> 1..s.len]
    BY <1>3, <2>3
  <2> QED BY <2>1, <2>2, <2>4
<1>a. \A n \in 1..s.len : b[n] = IF n < m THEN at[n]
                                 ELSE IF n < s.len THEN at[n + 1] ELSE at[m]
  BY DEF MovedToEnd
<1>d. \A i \in 1..s.len :
         /\ i # s.len => at[i] # s.tail
         /\ i # m => at[i] # at[m]
         /\ m # 1 /\ i # m - 1 => at[i] # at[m - 1]
  <2>1. s.len \in 1..s.len /\ at[s.len] = s.tail /\ (m # 1 => m - 1 \in 1..s.len)
    BY <1>1
  <2> QED BY <1>2, <2>1
<1> HIDE DEF b
<1>5. CASE m = s.len
  <2>1. t = s
    BY <1>1, <1>5 DEF TouchSlot
  <2> HIDE DEF t
  <2>2. Ordering(t, b)
    BY <1>3, <1>5, <2>1
  <2> QED BY <2>2 DEF t, b
<1>6. CASE m # s.len
  <2>1. at[m] # s.tail
    BY <1>6, <1>d
  <2>2. /\ s.links[at[m]].next = at[m + 1]
        /\ s.links[at[m]].previous = IF m = 1 THEN NoSlot ELSE at[m - 1]
    BY <1>6, Neighbours
  <2>3. /\ t.len = s.len /\ t.tail = at[m]
        /\ t.head = IF s.links[at[m]].previous = NoSlot THEN s.links[at[m]].next ELSE s.head
        /\ \A k \in 1..s.len :
              t.links[k].next = IF k = s.tail THEN at[m]
                                ELSE IF k = at[m] THEN NoSlot
                                ELSE IF k = s.links[at[m]].previous THEN s.links[at[m]].next
                                ELSE s.links[k].next
    <3>1. IsStorage(s, ids, values) /\ LinksCoherent(s)
      BY DEF LruInvariant
    <3> QED BY <1>1, <2>1, <3>1, TouchSlotFacts
  <2> HIDE DEF t
  <2>4. t.head = b[1] /\ t.tail = b[s.len]
    <3>1. m # 1 => m - 1 \in 1..s.len /\ at[m - 1] \in 1..s.len /\ at[m - 1] # NoSlot
      BY <1>1 DEF NoSlot
    <3> QED BY <1>1, <1>a, <1>6, <2>2, <2>3, <3>1
  <2>5. ASSUME NEW n \in 2..s.len
        PROVE  t.links[b[n - 1]].next = b[n]
    <3>1. n - 1 \in 1..s.len /\ n \in 1..s.len /\ n - 1 < s.len /\ (n - 1) + 1 = n
      BY <1>1
    <3>2. \A k \in 2..s.len : s.links[at[k - 1]].next = at[k]
      BY DEF Ordering
    <3>3. CASE n < m
      <4>1. b[n - 1] = at[n - 1] /\ b[n] = at[n]
        BY <1>a, <3>1, <3>3
      <4>2. at[n - 1] # s.tail /\ at[n - 1] # at[m] /\ (m # 1 => at[n - 1] # at[m - 1])
        BY <1>d, <3>1, <3>3
      <4>3. at[n - 1] \in 1..s.len /\ at[n - 1] # NoSlot
        BY <1>1, <3>1 DEF NoSlot
      <4> QED BY <2>2, <2>3, <3>2, <4>1, <4>2, <4>3
    <3>4. CASE n = m
      <4>1. b[n - 1] = at[m - 1] /\ b[n] = at[m + 1] /\ m # 1
        BY <1>1, <1>a, <1>6, <3>1, <3>4
      <4>2. at[m - 1] # s.tail /\ at[m - 1] # at[m] /\ at[m - 1] \in 1..s.len
        BY <1>0, <1>d, <3>1, <3>4
      <4> QED BY <2>2, <2>3, <4>1, <4>2
    <3>5. CASE m < n /\ n < s.len
      <4>1. b[n - 1] = at[n] /\ b[n] = at[n + 1] /\ n + 1 \in 2..s.len /\ (n + 1) - 1 = n
        BY <1>1, <1>a, <3>1, <3>5
      <4>2. at[n] # s.tail /\ at[n] # at[m] /\ (m # 1 => at[n] # at[m - 1])
        BY <1>d, <3>1, <3>5
      <4>3. at[n] \in 1..s.len /\ at[n] # NoSlot
        BY <1>1, <3>1 DEF NoSlot
      <4> QED BY <2>2, <2>3, <3>2, <4>1, <4>2, <4>3
    <3>6. CASE m < n /\ n = s.len
      <4>1. b[n - 1] = s.tail /\ b[n] = at[m] /\ s.tail \in 1..s.len
        BY <1>1, <1>a, <3>1, <3>6
      <4> QED BY <2>3, <4>1
    <3> QED BY <1>1, <3>1, <3>3, <3>4, <3>5, <3>6
  <2>6. Ordering(t, b)
    <3>1. /\ b \in [1..t.len -> 1..t.len]
          /\ \A i, j \in 1..t.len : b[i] = b[j] => i = j
          /\ \A k \in 1..t.len : \E n \in 1..t.len : b[n] = k
      BY ONLY <1>4, <2>3
    <3>2. /\ t.len > 0 => b[1] = t.head /\ b[t.len] = t.tail
          /\ \A n \in 2..t.len : t.links[b[n - 1]].next = b[n]
      BY <2>3, <2>4, <2>5
    <3> QED BY <3>1, <3>2 DEF Ordering
  <2> QED BY <2>6 DEF t, b
<1> QED BY <1>5, <1>6

(* A touch relabels no slot.                                               *)
LEMMA TouchKeepsLabels ==
    ASSUME NEW ids, NEW values, NEW s, LruInvariant(s, ids, values),
           NEW slot \in 1..s.len
    PROVE  /\ TouchSlot(s, slot).len = s.len
           /\ \A k \in 1..s.len : TouchSlot(s, slot).links[k].id = s.links[k].id
<1>1. CASE slot = s.tail
  BY <1>1 DEF TouchSlot
<1>2. CASE slot # s.tail
  <2>1. IsStorage(s, ids, values) /\ LinksCoherent(s)
    BY DEF LruInvariant
  <2> QED BY <1>2, <2>1, TouchSlotFacts
<1> QED BY <1>1, <1>2

(* A new slot is the last one.                                             *)
LEMMA GrowOrdering ==
    ASSUME NEW ids, NEW values, NEW s, LruInvariant(s, ids, values),
           NEW at, Ordering(s, at), NEW id \in ids, id \notin Residents(s),
           NEW value \in values, s.len < s.capacity
    PROVE  Ordering(Grow(s, id, value),
                    [n \in 1..(s.len + 1) |-> IF n <= s.len THEN at[n] ELSE s.len + 1])
<1> DEFINE t == Grow(s, id, value)
           b == [n \in 1..(s.len + 1) |-> IF n <= s.len THEN at[n] ELSE s.len + 1]
<1>0. s.len \in Nat
  BY DEF LruInvariant, IsStorage
<1>r. at \in [1..s.len -> 1..s.len]
  BY DEF Ordering
<1>1. /\ s.len > 0 => at[1] = s.head /\ at[s.len] = s.tail
      /\ \A n \in 2..s.len : s.links[at[n - 1]].next = at[n]
      /\ \A i, j \in 1..s.len : at[i] = at[j] => i = j
      /\ \A k \in 1..s.len : \E n \in 1..s.len : at[n] = k
  BY DEF Ordering
<1>2. /\ t.tail = s.len + 1 /\ t.len = s.len + 1
      /\ t.head = IF s.tail = NoSlot THEN s.len + 1 ELSE s.head
      /\ \A k \in 1..s.len :
            t.links[k].next = IF k = s.tail THEN s.len + 1 ELSE s.links[k].next
  BY GrowKeepsInvariant
<1>3. /\ s.len = 0 => s.tail = NoSlot
      /\ s.len > 0 => s.tail \in 1..s.len /\ s.tail # NoSlot
  BY <1>0 DEF LruInvariant, LinksCoherent, NoSlot
<1> HIDE DEF t
<1>b. b \in [1..(s.len + 1) -> 1..(s.len + 1)]
  BY <1>0, <1>r
<1>4. /\ \A n \in 1..s.len : b[n] = at[n] /\ b[n] \in 1..s.len
      /\ b[s.len + 1] = s.len + 1
  BY <1>0, <1>r
<1> HIDE DEF b
<1>5. \A i, j \in 1..(s.len + 1) : b[i] = b[j] => i = j
  <2>1. \A i, j \in 1..s.len : at[i] = at[j] => i = j
    BY <1>1
  <2>2. \A n \in 1..(s.len + 1) : n \in 1..s.len \/ n = s.len + 1
    BY <1>0
  <2>3. s.len + 1 \notin 1..s.len
    BY <1>0
  <2> QED BY <2>1, <2>2, <2>3, <1>4
<1>6. ASSUME NEW k \in 1..(s.len + 1) PROVE \E n \in 1..(s.len + 1) : b[n] = k
  <2>1. CASE k = s.len + 1
    BY <1>0, <1>4, <2>1
  <2>2. CASE k \in 1..s.len
    <3>1. PICK n \in 1..s.len : at[n] = k
      BY <1>1, <2>2
    <3>2. n \in 1..(s.len + 1) /\ b[n] = k
      BY <1>0, <1>4, <3>1
    <3> QED BY <3>2
  <2> QED BY <1>0, <2>1, <2>2
<1>7. b[1] = t.head
  <2>1. CASE s.len = 0
    BY <1>2, <1>3, <1>4, <2>1
  <2>2. CASE s.len > 0
    <3>1. 1 \in 1..s.len
      BY <1>0, <2>2
    <3> QED BY <1>1, <1>2, <1>3, <1>4, <2>2, <3>1
  <2> QED BY <1>0, <2>1, <2>2
<1>8. ASSUME NEW n \in 2..(s.len + 1) PROVE t.links[b[n - 1]].next = b[n]
  <2>1. n - 1 \in 1..s.len /\ b[n - 1] = at[n - 1] /\ at[n - 1] \in 1..s.len
    <3>1. n - 1 \in 1..s.len
      BY <1>0
    <3> QED BY <3>1, <1>4
  <2>0. \A k \in 1..s.len :
            t.links[k].next = IF k = s.tail THEN s.len + 1 ELSE s.links[k].next
    BY <1>2
  <2>2. CASE n = s.len + 1
    <3>1. n - 1 = s.len /\ s.len > 0
      BY <1>0, <2>1, <2>2
    <3>2. b[n - 1] = s.tail /\ s.tail \in 1..s.len
      BY <1>1, <2>1, <3>1
    <3> QED BY <1>4, <2>0, <2>2, <3>2
  <2>3. CASE n <= s.len
    <3>1. n \in 2..s.len /\ n \in 1..s.len /\ n - 1 # s.len /\ s.len \in 1..s.len /\ s.len > 0
      BY <1>0, <2>3
    <3>2. at[n - 1] # s.tail
      BY <1>1, <2>1, <3>1
    <3>3. s.links[at[n - 1]].next = at[n] /\ b[n] = at[n]
      BY <1>1, <1>4, <3>1
    <3> QED BY <2>0, <2>1, <3>2, <3>3
  <2> QED BY <1>0, <2>2, <2>3
<1>9. /\ b \in [1..t.len -> 1..t.len]
      /\ \A i, j \in 1..t.len : b[i] = b[j] => i = j
      /\ \A k \in 1..t.len : \E n \in 1..t.len : b[n] = k
  BY ONLY <1>2, <1>b, <1>5, <1>6
<1>10. /\ t.len > 0 => b[1] = t.head /\ b[t.len] = t.tail
       /\ \A n \in 2..t.len : t.links[b[n - 1]].next = b[n]
  BY <1>2, <1>4, <1>7, <1>8
<1>11. Ordering(t, b)
  BY <1>9, <1>10 DEF Ordering
<1> QED BY <1>11 DEF t, b

(* A full storage reuses its first slot as the last one.                   *)
LEMMA ReplaceOrdering ==
    ASSUME NEW ids, NEW values, NEW s, LruInvariant(s, ids, values),
           NEW at, Ordering(s, at), NEW id \in ids, id \notin Residents(s),
           NEW value \in values, s.len = s.capacity
    PROVE  LET t == Replace(s, id, value) IN
           /\ Ordering(t, MovedToEnd(at, s.len, 1))
           /\ t.len = s.len
           /\ \A k \in 1..s.len : t.links[k].id = IF k = s.head THEN id ELSE s.links[k].id
<1> DEFINE t == Replace(s, id, value)
           u == Relabelled(s, id, value)
<1>0. s.len \in Nat /\ 1 \in 1..s.len
  BY DEF LruInvariant, IsStorage
<1>r. at \in [1..s.len -> 1..s.len]
  BY DEF Ordering
<1>1. at[1] = s.head /\ at[s.len] = s.tail
  <2>1. s.len > 0
    BY <1>0
  <2> QED BY <2>1 DEF Ordering
<1>s. s.head \in 1..s.len /\ IsStorage(s, ids, values)
  BY <1>0 DEF LruInvariant, LinksCoherent
<1>p. t = TouchSlot(u, s.head)
  BY DEF Replace, Relabelled, Displaced
<1>q. LruInvariant(u, ids, values)
  BY <1>s, RelabelKeepsInvariant
<1>2. /\ u.len = s.len /\ u.head = s.head /\ u.tail = s.tail
      /\ \A k \in 1..s.len :
            /\ u.links[k].id = IF k = s.head THEN id ELSE s.links[k].id
            /\ u.links[k].next = s.links[k].next
  <2>1. u.len = s.len /\ u.head = s.head /\ u.tail = s.tail
    BY <1>s, RelabelFacts
  <2>2. \A k \in 1..s.len :
            /\ u.links[k].id = IF k = s.head THEN id ELSE s.links[k].id
            /\ u.links[k].next = s.links[k].next
    BY <1>s, RelabelLinks
  <2> QED BY <2>1, <2>2
<1> HIDE DEF t, u
<1>3. Ordering(u, at)
  <2>1. \A n \in 2..s.len : s.links[at[n - 1]].next = at[n]
    BY DEF Ordering
  <2>2. \A n \in 2..s.len : n - 1 \in 1..s.len /\ at[n - 1] \in 1..s.len
    BY <1>0, <1>r
  <2>3. \A n \in 2..s.len : u.links[at[n - 1]].next = at[n]
    BY <1>2, <2>1, <2>2
  <2>4. /\ \A i, j \in 1..s.len : at[i] = at[j] => i = j
        /\ \A k \in 1..s.len : \E n \in 1..s.len : at[n] = k
    BY DEF Ordering
  <2> QED BY <1>r, <1>1, <1>2, <2>3, <2>4 DEF Ordering
<1>4. t = TouchSlot(u, at[1]) /\ LruInvariant(u, ids, values) /\ u.len = s.len
  BY <1>1, <1>2, <1>p, <1>q
<1>5. Ordering(TouchSlot(u, at[1]), MovedToEnd(at, u.len, 1))
  <2>1. 1 \in 1..u.len
    BY <1>0, <1>4
  <2> QED BY <1>3, <1>4, <2>1, TouchOrdering
<1>6. t.len = s.len /\ \A k \in 1..s.len : t.links[k].id = u.links[k].id
  <2>1. s.head \in 1..s.len
    BY <1>s
  <2> QED BY <1>2, <1>p, <1>q, <2>1, TouchKeepsLabels
<1>7. \A k \in 1..s.len : t.links[k].id = IF k = s.head THEN id ELSE s.links[k].id
  BY <1>2, <1>6
<1> QED BY <1>4, <1>5, <1>6, <1>7 DEF t

(* The list is a sequence of all the slots.                                *)
Threaded(s, ids, values) == LruInvariant(s, ids, values) /\ Ordering(s, WalkSlots(s))

LEMMA OrderingIsWalk ==
    ASSUME NEW s, s.len \in Nat, NEW at, Ordering(s, at)
    PROVE  Ordering(s, WalkSlots(s)) /\ RecencyOrder(s) = [n \in 1..s.len |-> s.links[at[n]].id]
<1>1. WalkSlots(s) = at
  BY WalkIsOrdering
<1> QED BY <1>1 DEF RecencyOrder

LEMMA ThreadedFacts ==
    ASSUME NEW ids, NEW values, NEW s, Threaded(s, ids, values)
    PROVE  /\ s.len \in Nat /\ LruInvariant(s, ids, values) /\ Ordering(s, WalkSlots(s))
           /\ IndexCoherent(s) /\ LinksCoherent(s) /\ IsStorage(s, ids, values)
  BY DEF Threaded, LruInvariant, IsStorage

(* Reading the ids off the list lists the residents, each once.            *)
LEMMA RecencyListsResidents ==
    ASSUME NEW ids, NEW values, NEW s, Threaded(s, ids, values)
    PROVE  /\ RecencyOrder(s) \in [1..s.len -> Residents(s)]
           /\ \A m, n \in 1..s.len : RecencyOrder(s)[m] = RecencyOrder(s)[n] => m = n
           /\ \A i \in Residents(s) : \E n \in 1..s.len : RecencyOrder(s)[n] = i
<1> DEFINE at == WalkSlots(s)
           order == RecencyOrder(s)
<1>1. order = [n \in 1..s.len |-> s.links[at[n]].id]
  BY DEF RecencyOrder
<1>2. Ordering(s, at) /\ IndexCoherent(s)
  BY ThreadedFacts
<1> HIDE DEF at, order
<1>3. \A n \in 1..s.len : order[n] = s.links[at[n]].id /\ at[n] \in 1..s.len
  <2>1. at \in [1..s.len -> 1..s.len]
    BY <1>2 DEF Ordering
  <2> QED BY <1>1, <2>1
<1>4. order \in [1..s.len -> Residents(s)]
  BY <1>1, <1>2, <1>3 DEF IndexCoherent
<1>5. ASSUME NEW m \in 1..s.len, NEW n \in 1..s.len, order[m] = order[n] PROVE m = n
  <2>1. at[m] = at[n]
    BY <1>2, <1>3, <1>5 DEF IndexCoherent
  <2>2. \A i, j \in 1..s.len : at[i] = at[j] => i = j
    BY <1>2 DEF Ordering
  <2> QED BY <2>1, <2>2
<1>6. ASSUME NEW i \in Residents(s) PROVE \E n \in 1..s.len : order[n] = i
  <2>1. s.entries[i].slot \in 1..s.len /\ s.links[s.entries[i].slot].id = i
    BY <1>2 DEF IndexCoherent
  <2>2. PICK n \in 1..s.len : at[n] = s.entries[i].slot
    BY <1>2, <2>1 DEF Ordering
  <2> QED BY <1>3, <2>1, <2>2
<1> QED BY <1>4, <1>5, <1>6 DEF order

LEMMA RecencyEnds ==
    ASSUME NEW ids, NEW values, NEW s, Threaded(s, ids, values), s.len > 0
    PROVE  /\ RecencyOrder(s)[1] = s.links[s.head].id
           /\ RecencyOrder(s)[s.len] = s.links[s.tail].id
<1> DEFINE at == WalkSlots(s)
<1>1. RecencyOrder(s) = [n \in 1..s.len |-> s.links[at[n]].id]
  BY DEF RecencyOrder
<1>2. Ordering(s, at) /\ s.len \in Nat
  BY ThreadedFacts
<1> HIDE DEF at
<1>3. at[1] = s.head /\ at[s.len] = s.tail /\ 1 \in 1..s.len /\ s.len \in 1..s.len
  BY <1>2 DEF Ordering
<1> QED BY <1>1, <1>3

(* The storage passes checked_order.                                       *)
LEMMA ThreadedIsChecked ==
    ASSUME NEW ids, NEW values, NEW s, Threaded(s, ids, values)
    PROVE  CheckedOrder(s)
<1> DEFINE at == WalkSlots(s)
<1>1. /\ s.len \in Nat /\ s.len <= s.capacity /\ IndexCoherent(s) /\ LinksCoherent(s)
      /\ IsStorage(s, ids, values) /\ Ordering(s, at)
  BY ThreadedFacts DEF LruInvariant
<1>2. Cardinality(Residents(s)) = s.len
  BY <1>1, ResidentCount
<1> HIDE DEF at
<1>3. {at[n] : n \in 1..s.len} = 1..s.len
  <2>1. at \in [1..s.len -> 1..s.len]
    BY <1>1 DEF Ordering
  <2>2. \A k \in 1..s.len : \E n \in 1..s.len : at[n] = k
    BY <1>1 DEF Ordering
  <2>3. ASSUME NEW k \in 1..s.len PROVE k \in {at[n] : n \in 1..s.len}
    BY <2>2
  <2>4. ASSUME NEW n \in 1..s.len PROVE at[n] \in 1..s.len
    BY <2>1
  <2> QED BY <2>3, <2>4
<1>4. s.len > 0 => at[s.len] = s.tail
  BY <1>1 DEF Ordering
<1> QED BY <1>1, <1>2, <1>3, <1>4 DEF CheckedOrder, at

(* A touch moves one id to the recent end of the order.                    *)
LEMMA TouchRecency ==
    ASSUME NEW ids, NEW values, NEW s, Threaded(s, ids, values), NEW i \in Residents(s)
    PROVE  LET t == TouchSlot(s, s.entries[i].slot) IN
           /\ Threaded(t, ids, values) /\ t.len = s.len
           /\ \E m \in 1..s.len :
                 /\ RecencyOrder(s)[m] = i
                 /\ RecencyOrder(t) = MovedToEnd(RecencyOrder(s), s.len, m)
<1> DEFINE slot == s.entries[i].slot
           t == TouchSlot(s, slot)
           at == WalkSlots(s)
<1>1. /\ s.len \in Nat /\ LruInvariant(s, ids, values) /\ Ordering(s, at)
      /\ IndexCoherent(s)
  BY ThreadedFacts
<1>2. slot \in 1..s.len /\ s.links[slot].id = i
  BY <1>1 DEF IndexCoherent
<1>3. RecencyOrder(s) = [n \in 1..s.len |-> s.links[at[n]].id]
  BY DEF RecencyOrder
<1> HIDE DEF at, slot
<1>4. PICK m \in 1..s.len : at[m] = slot
  BY <1>1, <1>2 DEF Ordering
<1>5. LruInvariant(t, ids, values)
  BY <1>1, <1>2, TouchKeepsInvariant
<1>6. t.len = s.len /\ \A k \in 1..s.len : t.links[k].id = s.links[k].id
  BY <1>1, <1>2, TouchKeepsLabels
<1> DEFINE b == MovedToEnd(at, s.len, m)
<1>7. Ordering(t, b)
  <2>1. Ordering(TouchSlot(s, at[m]), b)
    BY <1>1, TouchOrdering
  <2> QED BY <1>4, <2>1
<1> HIDE DEF t
<1>8. /\ Ordering(t, WalkSlots(t))
      /\ RecencyOrder(t) = [n \in 1..t.len |-> t.links[b[n]].id]
  BY <1>1, <1>6, <1>7, OrderingIsWalk
<1>9. RecencyOrder(s)[m] = i
  BY <1>2, <1>3, <1>4
<1>10. RecencyOrder(t) = MovedToEnd(RecencyOrder(s), s.len, m)
  <2>1. \A n \in 1..s.len : t.links[at[n]].id = s.links[at[n]].id
    <3>1. \A n \in 1..s.len : at[n] \in 1..s.len
      BY <1>1 DEF Ordering
    <3> QED BY <1>6, <3>1
  <2>2. \A n \in 1..s.len :
           b[n] = IF n < m THEN at[n] ELSE IF n < s.len THEN at[n + 1] ELSE at[m]
    BY DEF MovedToEnd
  <2>3. \A n \in 1..s.len : n < s.len => n + 1 \in 1..s.len
    BY <1>1
  <2> HIDE DEF b
  <2>4. ASSUME NEW n \in 1..s.len
        PROVE  t.links[b[n]].id = IF n < m THEN RecencyOrder(s)[n]
                                  ELSE IF n < s.len THEN RecencyOrder(s)[n + 1]
                                  ELSE RecencyOrder(s)[m]
    BY <1>3, <2>1, <2>2, <2>3
  <2> QED BY <1>6, <1>8, <2>4 DEF MovedToEnd
<1>11. Threaded(t, ids, values)
  BY <1>5, <1>8 DEF Threaded
<1> QED BY <1>6, <1>9, <1>10, <1>11 DEF t, slot

(* An absent id is appended; a full storage drops the first one.           *)
LEMMA GrowRecency ==
    ASSUME NEW ids, NEW values, NEW s, Threaded(s, ids, values),
           NEW id \in ids, id \notin Residents(s), NEW value \in values,
           s.len < s.capacity
    PROVE  LET t == Grow(s, id, value) IN
           /\ Threaded(t, ids, values) /\ t.len = s.len + 1
           /\ RecencyOrder(t) =
                 [n \in 1..(s.len + 1) |-> IF n <= s.len THEN RecencyOrder(s)[n] ELSE id]
<1> DEFINE t == Grow(s, id, value)
           at == WalkSlots(s)
           b == [n \in 1..(s.len + 1) |-> IF n <= s.len THEN at[n] ELSE s.len + 1]
<1>1. s.len \in Nat /\ LruInvariant(s, ids, values) /\ Ordering(s, at)
  BY ThreadedFacts
<1>3. RecencyOrder(s) = [n \in 1..s.len |-> s.links[at[n]].id]
  BY DEF RecencyOrder
<1> HIDE DEF at
<1>4. LruInvariant(t, ids, values) /\ t.len = s.len + 1
  BY <1>1, GrowKeepsInvariant
<1>5. t.links[s.len + 1].id = id /\ \A k \in 1..s.len : t.links[k].id = s.links[k].id
  BY <1>1, GrowKeepsInvariant
<1>6. Ordering(t, b)
  BY <1>1, GrowOrdering
<1>a. \A n \in 1..(s.len + 1) : b[n] = IF n <= s.len THEN at[n] ELSE s.len + 1
  OBVIOUS
<1> HIDE DEF t, b
<1>7. t.len \in Nat
  BY <1>1, <1>4
<1>8. /\ Ordering(t, WalkSlots(t))
      /\ RecencyOrder(t) = [n \in 1..t.len |-> t.links[b[n]].id]
  BY <1>6, <1>7, OrderingIsWalk
<1>9. ASSUME NEW n \in 1..(s.len + 1)
      PROVE  t.links[b[n]].id = IF n <= s.len THEN RecencyOrder(s)[n] ELSE id
  <2>1. CASE n <= s.len
    <3>1. n \in 1..s.len /\ b[n] = at[n]
      BY <1>1, <1>a, <2>1
    <3>2. at[n] \in 1..s.len
      BY <1>1, <3>1 DEF Ordering
    <3> QED BY <1>3, <1>5, <2>1, <3>1, <3>2
  <2>2. CASE ~(n <= s.len)
    <3>1. b[n] = s.len + 1
      BY <1>a, <2>2
    <3> QED BY <1>5, <2>2, <3>1
  <2> QED BY <2>1, <2>2
<1>10. Threaded(t, ids, values)
  BY <1>4, <1>8 DEF Threaded
<1> QED BY <1>4, <1>8, <1>9, <1>10 DEF t

LEMMA ReplaceRecency ==
    ASSUME NEW ids, NEW values, NEW s, Threaded(s, ids, values),
           NEW id \in ids, id \notin Residents(s), NEW value \in values,
           s.len = s.capacity
    PROVE  LET t == Replace(s, id, value) IN
           /\ Threaded(t, ids, values) /\ t.len = s.len
           /\ RecencyOrder(t) =
                 [n \in 1..s.len |-> IF n < s.len THEN RecencyOrder(s)[n + 1] ELSE id]
<1> DEFINE t == Replace(s, id, value)
           at == WalkSlots(s)
           b == MovedToEnd(at, s.len, 1)
<1>1. s.len \in Nat /\ LruInvariant(s, ids, values) /\ Ordering(s, at)
  BY ThreadedFacts
<1>2. 1 \in 1..s.len /\ s.len > 0
  BY <1>1 DEF LruInvariant
<1>3. RecencyOrder(s) = [n \in 1..s.len |-> s.links[at[n]].id]
  BY DEF RecencyOrder
<1> HIDE DEF at
<1>4. LruInvariant(t, ids, values)
  BY <1>1, ReplaceKeepsInvariant
<1>5. /\ t.len = s.len
      /\ \A k \in 1..s.len : t.links[k].id = IF k = s.head THEN id ELSE s.links[k].id
  BY <1>1, ReplaceOrdering
<1>6. Ordering(t, b)
  BY <1>1, ReplaceOrdering
<1> HIDE DEF t
<1>8. /\ Ordering(t, WalkSlots(t))
      /\ RecencyOrder(t) = [n \in 1..t.len |-> t.links[b[n]].id]
  BY <1>1, <1>5, <1>6, OrderingIsWalk
<1>7. /\ \A n \in 1..s.len : at[n] \in 1..s.len
      /\ at[1] = s.head
      /\ \A i, j \in 1..s.len : at[i] = at[j] => i = j
  BY <1>1, <1>2 DEF Ordering
<1>a. \A n \in 1..s.len : b[n] = IF n < 1 THEN at[n] ELSE IF n < s.len THEN at[n + 1] ELSE at[1]
  BY DEF MovedToEnd
<1> HIDE DEF b
<1>9. ASSUME NEW n \in 1..s.len
      PROVE  t.links[b[n]].id = IF n < s.len THEN RecencyOrder(s)[n + 1] ELSE id
  <2>1. CASE n < s.len
    <3>1. n + 1 \in 1..s.len /\ n + 1 # 1 /\ b[n] = at[n + 1]
      BY <1>1, <1>a, <2>1
    <3>2. at[n + 1] \in 1..s.len /\ at[n + 1] # s.head
      BY <1>2, <1>7, <3>1
    <3> QED BY <1>3, <1>5, <2>1, <3>1, <3>2
  <2>2. CASE ~(n < s.len)
    <3>1. b[n] = s.head /\ s.head \in 1..s.len
      BY <1>1, <1>2, <1>7, <1>a, <2>2
    <3> QED BY <1>5, <2>2, <3>1
  <2> QED BY <2>1, <2>2
<1>10. Threaded(t, ids, values)
  BY <1>4, <1>8 DEF Threaded
<1> QED BY <1>5, <1>8, <1>9, <1>10 DEF t

(* Functions on an initial segment are sequences.                          *)
LEMMA SegmentIsSeq ==
    ASSUME NEW S, NEW n \in Nat, NEW f \in [1..n -> S]
    PROVE  f \in Seq(S) /\ Len(f) = n
<1>1. f \in Seq(S)
  BY SeqDef
<1>2. Len(f) \in Nat /\ DOMAIN f = 1..Len(f)
  BY <1>1, LenProperties
<1>3. 1..Len(f) = 1..n
  BY <1>2
<1>4. Len(f) = n
  <2>1. (n > 0 => n \in 1..Len(f)) /\ (Len(f) > 0 => Len(f) \in 1..n)
    BY <1>2, <1>3
  <2> QED BY <1>2, <2>1
<1> QED BY <1>1, <1>4

(* Dropping the m-th element and appending it again.                       *)
LEMMA MovedIsAppended ==
    ASSUME NEW S, NEW q \in Seq(S), NEW m \in 1..Len(q)
    PROVE  Append(RemoveAt(q, m), q[m]) = MovedToEnd(q, Len(q), m)
<1> DEFINE len == Len(q)
           left == SubSeq(q, 1, m - 1)
           right == SubSeq(q, m + 1, len)
           rest == left \o right
           moved == MovedToEnd(q, len, m)
<1>1. len \in Nat /\ m \in 1..len /\ (\A n \in 1..len : q[n] \in S)
  BY LenProperties, ElementOfSeq
<1>2. left \in Seq(S) /\ Len(left) = m - 1 /\ \A n \in 1..(m - 1) : left[n] = q[n]
  <2>1. 1 \in Int /\ m - 1 \in Int /\ \A i \in 1..(m - 1) : q[i] \in S
    BY <1>1
  <2>2. /\ left \in Seq(S)
        /\ Len(left) = IF 1 <= m - 1 THEN (m - 1) - 1 + 1 ELSE 0
        /\ \A i \in 1..((m - 1) - 1 + 1) : left[i] = q[1 + i - 1]
    BY <2>1, SubSeqProperties
  <2> HIDE DEF left
  <2> QED BY <1>1, <2>2
<1>3. right \in Seq(S) /\ Len(right) = len - m /\ \A n \in 1..(len - m) : right[n] = q[m + n]
  <2>1. m + 1 \in Int /\ len \in Int /\ \A i \in (m + 1)..len : q[i] \in S
    BY <1>1
  <2>2. /\ right \in Seq(S)
        /\ Len(right) = IF m + 1 <= len THEN len - (m + 1) + 1 ELSE 0
        /\ \A i \in 1..(len - (m + 1) + 1) : right[i] = q[(m + 1) + i - 1]
    BY <2>1, SubSeqProperties
  <2> HIDE DEF right
  <2> QED BY <1>1, <2>2
<1> HIDE DEF left, right, len
<1>4. /\ rest \in Seq(S) /\ Len(rest) = len - 1
      /\ \A n \in 1..(len - 1) : rest[n] = IF n < m THEN q[n] ELSE q[n + 1]
  <2>1. /\ rest \in Seq(S) /\ Len(rest) = Len(left) + Len(right)
        /\ \A i \in 1..(Len(left) + Len(right)) :
              rest[i] = IF i <= Len(left) THEN left[i] ELSE right[i - Len(left)]
    BY <1>2, <1>3, ConcatProperties
  <2> HIDE DEF rest
  <2>2. ASSUME NEW n \in 1..(len - 1) PROVE rest[n] = IF n < m THEN q[n] ELSE q[n + 1]
    <3>1. CASE n < m
      BY <1>1, <1>2, <1>3, <2>1, <3>1
    <3>2. CASE ~(n < m)
      <4>1. n - (m - 1) \in 1..(len - m) /\ m + (n - (m - 1)) = n + 1
        BY <1>1, <3>2
      <4>2. rest[n] = right[n - (m - 1)]
        BY <1>1, <1>2, <1>3, <2>1, <3>2
      <4> QED BY <1>3, <3>2, <4>1, <4>2
    <3> QED BY <3>1, <3>2
  <2> QED BY <1>1, <1>2, <1>3, <2>1, <2>2
<1>5. RemoveAt(q, m) = rest
  BY DEF RemoveAt, rest, left, right, len
<1> DEFINE whole == Append(rest, q[m])
<1> HIDE DEF rest
<1>6. /\ whole \in Seq(S) /\ Len(whole) = len
      /\ \A n \in 1..(len - 1) : whole[n] = rest[n]
      /\ whole[len] = q[m]
  <2>1. q[m] \in S
    BY <1>1
  <2>2. /\ whole \in Seq(S) /\ Len(whole) = Len(rest) + 1
        /\ \A i \in 1..Len(rest) : whole[i] = rest[i]
        /\ whole[Len(rest) + 1] = q[m]
    BY <1>4, <2>1, AppendProperties
  <2> HIDE DEF whole
  <2> QED BY <1>1, <1>4, <2>2
<1> HIDE DEF whole
<1>7. whole = [n \in 1..len |-> whole[n]]
  BY <1>6, LenProperties
<1>8. \A n \in 1..len :
         whole[n] = IF n < m THEN q[n] ELSE IF n < len THEN q[n + 1] ELSE q[m]
  BY <1>1, <1>4, <1>6
<1>9. whole = moved
  BY <1>7, <1>8 DEF MovedToEnd
<1> QED BY <1>5, <1>9 DEF whole, len

LEMMA GrownIsAppended ==
    ASSUME NEW S, NEW q \in Seq(S), NEW x \in S
    PROVE  Append(q, x) = [n \in 1..(Len(q) + 1) |-> IF n <= Len(q) THEN q[n] ELSE x]
<1> DEFINE whole == Append(q, x)
<1>1. /\ whole \in Seq(S) /\ Len(whole) = Len(q) + 1
      /\ \A n \in 1..Len(q) : whole[n] = q[n]
      /\ whole[Len(q) + 1] = x
  BY AppendProperties
<1>2. Len(q) \in Nat
  BY LenProperties
<1> HIDE DEF whole
<1>3. whole = [n \in 1..(Len(q) + 1) |-> whole[n]]
  BY <1>1, LenProperties
<1>4. \A n \in 1..(Len(q) + 1) : whole[n] = IF n <= Len(q) THEN q[n] ELSE x
  BY <1>1, <1>2
<1> QED BY <1>3, <1>4 DEF whole

LEMMA ShiftedIsAppended ==
    ASSUME NEW S, NEW q \in Seq(S), NEW x \in S, Len(q) > 0
    PROVE  /\ Tail(q) \in Seq(S)
           /\ Append(Tail(q), x) = [n \in 1..Len(q) |-> IF n < Len(q) THEN q[n + 1] ELSE x]
<1> DEFINE rest == Tail(q)
           whole == Append(rest, x)
<1>1. Len(q) \in Nat /\ q # << >>
  BY LenProperties, EmptySeq
<1>2. /\ rest \in Seq(S) /\ Len(rest) = Len(q) - 1
      /\ \A n \in 1..(Len(q) - 1) : rest[n] = q[n + 1]
  BY <1>1, HeadTailProperties
<1> HIDE DEF rest
<1>3. /\ whole \in Seq(S) /\ Len(whole) = Len(q)
      /\ \A n \in 1..(Len(q) - 1) : whole[n] = q[n + 1]
      /\ whole[Len(q)] = x
  <2>1. /\ whole \in Seq(S) /\ Len(whole) = Len(rest) + 1
        /\ \A n \in 1..Len(rest) : whole[n] = rest[n]
        /\ whole[Len(rest) + 1] = x
    BY <1>2, AppendProperties
  <2> HIDE DEF whole
  <2> QED BY <1>1, <1>2, <2>1
<1> HIDE DEF whole
<1>4. whole = [n \in 1..Len(q) |-> whole[n]]
  BY <1>3, LenProperties
<1>5. \A n \in 1..Len(q) : whole[n] = IF n < Len(q) THEN q[n + 1] ELSE x
  BY <1>1, <1>3
<1> QED BY <1>2, <1>4, <1>5 DEF whole, rest

LEMMA OrderIsSequence ==
    ASSUME NEW ids, NEW values, NEW s, Threaded(s, ids, values)
    PROVE  /\ RecencyOrder(s) \in Seq(ids) /\ Len(RecencyOrder(s)) = s.len
           /\ ToSet(RecencyOrder(s)) = Residents(s)
<1> DEFINE order == RecencyOrder(s)
<1>1. s.len \in Nat /\ Residents(s) \subseteq ids
  BY ThreadedFacts DEF IsStorage
<1>2. /\ order \in [1..s.len -> Residents(s)]
      /\ \A i \in Residents(s) : \E n \in 1..s.len : order[n] = i
  BY RecencyListsResidents
<1> HIDE DEF order
<1>3. order \in [1..s.len -> ids]
  BY <1>1, <1>2
<1>4. order \in Seq(ids) /\ Len(order) = s.len
  BY <1>1, <1>3, SegmentIsSeq
<1>5. ToSet(order) = Residents(s)
  <2>1. ToSet(order) = {order[n] : n \in 1..s.len}
    BY <1>2 DEF ToSet
  <2>2. \A n \in 1..s.len : order[n] \in Residents(s)
    BY <1>2
  <2> QED BY <1>2, <2>1, <2>2
<1> QED BY <1>4, <1>5 DEF order

(* In terms of the order, a touch moves the id to the recent end ...       *)
LEMMA TouchIsMove ==
    ASSUME NEW ids, NEW values, NEW s, Threaded(s, ids, values), NEW i \in Residents(s)
    PROVE  LET t == TouchSlot(s, s.entries[i].slot) IN
           /\ Threaded(t, ids, values)
           /\ \E m \in 1..Len(RecencyOrder(s)) :
                 /\ RecencyOrder(s)[m] = i
                 /\ RecencyOrder(t) = Append(RemoveAt(RecencyOrder(s), m), i)
<1> DEFINE t == TouchSlot(s, s.entries[i].slot)
           order == RecencyOrder(s)
<1>1. Threaded(t, ids, values)
  BY TouchRecency
<1>2. PICK m \in 1..s.len : order[m] = i /\ RecencyOrder(t) = MovedToEnd(order, s.len, m)
  BY TouchRecency
<1>3. order \in Seq(ids) /\ Len(order) = s.len
  BY OrderIsSequence
<1> HIDE DEF t, order
<1>4. Append(RemoveAt(order, m), order[m]) = MovedToEnd(order, Len(order), m)
  <2>1. m \in 1..Len(order)
    BY <1>3
  <2> QED BY <1>3, <2>1, MovedIsAppended
<1> QED BY <1>1, <1>2, <1>3, <1>4 DEF t, order

(* ... and an insertion appends the id, in a full storage after dropping   *)
(* the first.                                                              *)
LEMMA InsertIsAppend ==
    ASSUME NEW ids, NEW values, NEW s, Threaded(s, ids, values),
           NEW id \in ids, id \notin Residents(s), NEW value \in values
    PROVE  LET t == InsertId(s, id, value)
               order == RecencyOrder(s)
           IN
           /\ Threaded(t, ids, values)
           /\ RecencyOrder(t) =
                 Append(IF Len(order) = s.capacity THEN Tail(order) ELSE order, id)
<1> DEFINE order == RecencyOrder(s)
           t == InsertId(s, id, value)
<1>1. /\ s.len \in Nat /\ s.capacity \in Nat /\ s.len <= s.capacity /\ s.capacity > 0
      /\ IsStorage(s, ids, values) /\ IndexCoherent(s)
  BY ThreadedFacts DEF LruInvariant, IsStorage
<1>2. Full(s) <=> s.len = s.capacity
  BY <1>1, ResidentCount DEF Full
<1>3. order \in Seq(ids) /\ Len(order) = s.len
  BY OrderIsSequence
<1>4. CASE Full(s)
  <2>1. t = Replace(s, id, value) /\ s.len = s.capacity
    BY <1>2, <1>4 DEF InsertId
  <2>2. Threaded(Replace(s, id, value), ids, values)
    BY <2>1, ReplaceRecency
  <2>3. RecencyOrder(Replace(s, id, value))
           = [n \in 1..s.len |-> IF n < s.len THEN order[n + 1] ELSE id]
    BY <2>1, ReplaceRecency
  <2> HIDE DEF order, t
  <2>4. Append(Tail(order), id)
           = [n \in 1..Len(order) |-> IF n < Len(order) THEN order[n + 1] ELSE id]
    <3>1. Len(order) > 0
      BY <1>1, <1>3, <2>1
    <3> QED BY <1>3, <3>1, ShiftedIsAppended
  <2> QED BY <1>3, <2>1, <2>2, <2>3, <2>4 DEF order, t
<1>5. CASE ~Full(s)
  <2>1. t = Grow(s, id, value) /\ s.len # s.capacity /\ s.len < s.capacity
    BY <1>1, <1>2, <1>5 DEF InsertId
  <2>2. Threaded(Grow(s, id, value), ids, values)
    BY <2>1, GrowRecency
  <2>3. RecencyOrder(Grow(s, id, value))
           = [n \in 1..(s.len + 1) |-> IF n <= s.len THEN order[n] ELSE id]
    BY <2>1, GrowRecency
  <2> HIDE DEF order, t
  <2>4. Append(order, id)
           = [n \in 1..(Len(order) + 1) |-> IF n <= Len(order) THEN order[n] ELSE id]
    BY <1>3, GrownIsAppended
  <2> QED BY <1>3, <2>1, <2>2, <2>3, <2>4 DEF order, t
<1> QED BY <1>4, <1>5

(* A new storage lists nothing.                                            *)
LEMMA EmptyIsStorage ==
    ASSUME NEW ids, NEW values, NEW c \in Nat
    PROVE  IsStorage(EmptyStorage(c), ids, values)
<1> DEFINE s == EmptyStorage(c)
<1>1. /\ s.len = 0 /\ s.entries = << >> /\ s.links = << >> /\ Residents(s) = {}
      /\ s \in [capacity : Nat, entries : {s.entries}, links : {s.links},
                len : Nat, head : Nat, tail : Nat]
  BY DEF EmptyStorage, Residents, NoSlot
<1> HIDE DEF s
<1>2. s.entries \in [{} -> [slot : Nat, value : values]]
  BY <1>1
<1>3. s.links \in [{} -> [id : ids, previous : Nat, next : Nat]]
  BY <1>1
<1>4. 1..s.len = {}
  BY <1>1
<1> QED BY <1>1, <1>2, <1>3, <1>4 DEF IsStorage, s

LEMMA EmptyIsThreaded ==
    ASSUME NEW ids, NEW values, NEW c \in Nat \ {0}
    PROVE  Threaded(EmptyStorage(c), ids, values) /\ RecencyOrder(EmptyStorage(c)) = << >>
<1> DEFINE s == EmptyStorage(c)
<1>1. /\ s.capacity = c /\ s.len = 0 /\ s.head = NoSlot /\ s.tail = NoSlot
      /\ Residents(s) = {}
  BY DEF EmptyStorage, Residents
<1>2. IsStorage(s, ids, values)
  BY EmptyIsStorage
<1> HIDE DEF s
<1>3. IndexCoherent(s) /\ LinksCoherent(s)
  BY <1>1 DEF IndexCoherent, LinksCoherent
<1>4. LruInvariant(s, ids, values)
  BY <1>1, <1>2, <1>3 DEF LruInvariant
<1>5. Ordering(s, [n \in 1..s.len |-> n]) /\ s.len \in Nat
  BY <1>1 DEF Ordering
<1>6. Threaded(s, ids, values)
  BY <1>4, <1>5, OrderingIsWalk DEF Threaded
<1>7. RecencyOrder(s) = << >>
  BY <1>1 DEF RecencyOrder
<1> QED BY <1>6, <1>7 DEF s

(* What an insertion does to the index: the least recent id goes when the  *)
(* storage is full, the new one comes, and no other value changes.         *)
LEMMA InsertEntries ==
    ASSUME NEW ids, NEW values, NEW s, Threaded(s, ids, values),
           NEW id \in ids, id \notin Residents(s), NEW value \in values
    PROVE  LET t == InsertId(s, id, value)
               order == RecencyOrder(s)
               kept == IF Len(order) = s.capacity THEN Tail(order) ELSE order
           IN
           /\ Residents(t) = ToSet(kept) \cup {id}
           /\ Residents(t) \subseteq Residents(s) \cup {id}
           /\ \A j \in Residents(t) :
                 t.entries[j].value = IF j = id THEN value ELSE s.entries[j].value
<1> DEFINE order == RecencyOrder(s)
           t == InsertId(s, id, value)
<1>1. /\ s.len \in Nat /\ s.capacity \in Nat /\ s.len <= s.capacity /\ s.capacity > 0
      /\ IsStorage(s, ids, values) /\ IndexCoherent(s) /\ LruInvariant(s, ids, values)
  BY ThreadedFacts DEF LruInvariant, IsStorage
<1>2. Full(s) <=> s.len = s.capacity
  BY <1>1, ResidentCount DEF Full
<1>3. order \in Seq(ids) /\ Len(order) = s.len /\ ToSet(order) = Residents(s)
  BY OrderIsSequence
<1>5. CASE Full(s)
  <2>1. t = Replace(s, id, value) /\ s.len = s.capacity
    BY <1>2, <1>5 DEF InsertId
  <2> DEFINE gone == Displaced(s)
             entries == WithEntry(s.entries, gone, id, s.head, value)
  <2>r. Replace(s, id, value).entries = entries
    <3>1. LruInvariant(s, ids, values) /\ s.len = s.capacity
      BY <1>1, <2>1
    <3> HIDE DEF t, order
    <3> QED BY <3>1, ReplaceKeepsInvariant DEF entries, gone
  <2>e. /\ DOMAIN entries = (Residents(s) \ gone) \cup {id}
        /\ \A j \in DOMAIN entries :
              entries[j].value = IF j = id THEN value ELSE s.entries[j].value
    BY DEF WithEntry, Residents
  <2> HIDE DEF entries, gone
  <2>2. t.entries = entries
    BY <2>1, <2>r
  <2>3. ToSet(Tail(order)) = Residents(s) \ gone
    <3>1. s.len > 0 /\ 1 \in 1..s.len
      BY <1>1, <2>1
    <3>2. order[1] = s.links[s.head].id
      BY <3>1, RecencyEnds
    <3>0. order \in [1..s.len -> Residents(s)]
      BY RecencyListsResidents
    <3>3. /\ \A n \in 1..s.len : order[n] \in Residents(s)
          /\ \A m, n \in 1..s.len : order[m] = order[n] => m = n
          /\ \A i \in Residents(s) : \E n \in 1..s.len : order[n] = i
      <4>1. \A n \in 1..s.len : order[n] \in Residents(s)
        BY <3>0
      <4>2. /\ \A m, n \in 1..s.len : order[m] = order[n] => m = n
            /\ \A i \in Residents(s) : \E n \in 1..s.len : order[n] = i
        BY RecencyListsResidents
      <4> QED BY <4>1, <4>2
    <3> HIDE DEF order, t
    <3>4. order # << >>
      BY <1>3, <3>1
    <3>5. /\ Tail(order) \in Seq(ids) /\ Len(Tail(order)) = s.len - 1
          /\ \A n \in 1..Len(Tail(order)) : Tail(order)[n] = order[n + 1]
      BY <1>3, <3>4, HeadTailProperties
    <3>6. ToSet(Tail(order)) = {Tail(order)[n] : n \in 1..(s.len - 1)}
      BY <3>5 DEF ToSet
    <3>7. \A n \in 1..(s.len - 1) : n + 1 \in 1..s.len /\ n + 1 # 1
      BY <1>1
    <3>8. ASSUME NEW n \in 1..(s.len - 1) PROVE Tail(order)[n] \in Residents(s) \ gone
      BY <3>1, <3>2, <3>3, <3>5, <3>7 DEF gone, Displaced
    <3>9. ASSUME NEW i \in Residents(s) \ gone
          PROVE  \E n \in 1..(s.len - 1) : Tail(order)[n] = i
      <4>1. PICK n \in 1..s.len : order[n] = i
        BY <3>3
      <4>2. n # 1
        BY <3>2, <4>1 DEF gone, Displaced
      <4>3. n - 1 \in 1..(s.len - 1) /\ (n - 1) + 1 = n
        BY <1>1, <4>2
      <4>4. Tail(order)[n - 1] = i
        BY <3>5, <4>1, <4>3
      <4> QED BY <4>3, <4>4
    <3> QED BY ONLY <3>6, <3>8, <3>9
  <2> HIDE DEF order, t
  <2>4. Residents(t) = (Residents(s) \ gone) \cup {id}
    BY <2>e, <2>2 DEF Residents
  <2>5. \A j \in Residents(t) :
           t.entries[j].value = IF j = id THEN value ELSE s.entries[j].value
    BY <2>e, <2>2 DEF Residents
  <2> QED BY <1>3, <2>1, <2>3, <2>4, <2>5 DEF order, t
<1>6. CASE ~Full(s)
  <2>1. t = Grow(s, id, value) /\ s.len # s.capacity /\ s.len < s.capacity
    BY <1>1, <1>2, <1>6 DEF InsertId
  <2> DEFINE entries == WithEntry(s.entries, {}, id, s.len + 1, value)
  <2>r. Grow(s, id, value).entries = entries
    BY <1>1, <2>1, GrowKeepsInvariant
  <2>e. /\ DOMAIN entries = Residents(s) \cup {id}
        /\ \A j \in DOMAIN entries :
              entries[j].value = IF j = id THEN value ELSE s.entries[j].value
    BY DEF WithEntry, Residents
  <2> HIDE DEF entries
  <2>2. t.entries = entries
    BY <2>1, <2>r
  <2> HIDE DEF order, t
  <2>4. Residents(t) = Residents(s) \cup {id}
    BY <2>e, <2>2 DEF Residents
  <2>5. \A j \in Residents(t) :
           t.entries[j].value = IF j = id THEN value ELSE s.entries[j].value
    BY <2>e, <2>2 DEF Residents
  <2> QED BY <1>3, <2>1, <2>4, <2>5 DEF order, t
<1> QED BY <1>5, <1>6

=============================================================================
