----------------------------- MODULE LazyCache -----------------------------
(***************************************************************************)
(* The persistent cache of LazyWfstWrapper (src/src/wfst/lazy.rs): a map   *)
(* from state ids to entries, and under Lru a doubly linked list threaded  *)
(* through the entries by id, from the least (head) to the most (tail)     *)
(* recently accessed one.  Unlike LruStorage there are no slots: a link is *)
(* the id of the neighbour.                                                *)
(*                                                                         *)
(* A cache is [entries, head, tail], an entry [record, previous, next].    *)
(* The operators return the cache a `&mut self` method leaves behind.      *)
(***************************************************************************)
EXTENDS Naturals, FiniteSets

CONSTANTS States,   \* state ids; rebuild_lru sorts them
          NULL      \* Option::None

ASSUME StatesAssumption == States \subseteq Nat /\ NULL \notin States

With(f, s, v) == [t \in DOMAIN f \cup {s} |-> IF t = s THEN v ELSE f[t]]
Without(f, s) == [t \in DOMAIN f \ {s} |-> f[t]]

Entry(record, previous, next) ==
    [record |-> record, previous |-> previous, next |-> next]

EmptyCache == [entries |-> << >>, head |-> NULL, tail |-> NULL]

Cached(c) == DOMAIN c.entries

SetPrevious(c, s, to) == [c EXCEPT !.entries[s].previous = to]
SetNext(c, s, to)     == [c EXCEPT !.entries[s].next = to]
SetHead(c, to)        == [c EXCEPT !.head = to]
SetTail(c, to)        == [c EXCEPT !.tail = to]

(* remove_cached: an end without a neighbour moves only if it is this one, *)
(* which an entry without links under CacheAll is not.                     *)
RemoveCached(c, s) ==
    LET e       == c.entries[s]
        without == [c EXCEPT !.entries = Without(c.entries, s)]
        forward == IF e.previous # NULL THEN SetNext(without, e.previous, e.next)
                   ELSE IF c.head = s THEN SetHead(without, e.next) ELSE without
    IN  IF s \notin Cached(c) THEN c
        ELSE IF e.next # NULL THEN SetPrevious(forward, e.next, e.previous)
        ELSE IF c.tail = s THEN SetTail(forward, e.previous) ELSE forward

EvictLru(c) == IF c.head = NULL THEN c ELSE RemoveCached(c, c.head)

(* Mutant of TouchLru: the predecessor keeps its link to the moved entry.  *)
TouchLru_KeepsForward(c, s) ==
    LET e       == c.entries[s]
        forward == IF e.previous # NULL THEN c ELSE SetHead(c, e.next)
        closed  == IF e.next # NULL THEN SetPrevious(forward, e.next, e.previous) ELSE forward
        own     == [closed EXCEPT !.entries[s] = Entry(e.record, c.tail, NULL)]
    IN  IF c.tail = s \/ s \notin Cached(c) THEN c
        ELSE SetTail(SetNext(own, c.tail, s), s)

(* touch_lru: unlink the entry, then append it behind the tail.            *)
TouchLru(c, s) ==
    LET e       == c.entries[s]
        forward == IF e.previous # NULL THEN SetNext(c, e.previous, e.next)
                                        ELSE SetHead(c, e.next)
        closed  == IF e.next # NULL THEN SetPrevious(forward, e.next, e.previous) ELSE forward
        own     == [closed EXCEPT !.entries[s] = Entry(e.record, c.tail, NULL)]
        linked  == IF c.tail # NULL THEN SetNext(own, c.tail, s) ELSE SetHead(own, s)
    IN  IF c.tail = s \/ s \notin Cached(c) THEN c ELSE SetTail(linked, s)

(* The CacheAll and the Lru arm of insert_completed.  The Lru arm's loop   *)
(* evicts at most once: the cache never exceeds its bound (LinksCoherent). *)
InsertUnlinked(c, s, record) ==
    LET base == RemoveCached(c, s)
    IN  [base EXCEPT !.entries = With(base.entries, s, Entry(record, NULL, NULL))]

InsertRecent(c, s, record, max) ==
    LET absent == RemoveCached(c, s)
        base   == IF Cardinality(Cached(absent)) >= max THEN EvictLru(absent) ELSE absent
        own    == [base EXCEPT !.entries = With(base.entries, s, Entry(record, base.tail, NULL))]
        linked == IF base.tail # NULL THEN SetNext(own, base.tail, s) ELSE SetHead(own, s)
    IN  SetTail(linked, s)

(* rebuild_lru: links in the order of the ids, over the entries `kept`.    *)
Before(S, s) == {t \in S : t < s}
After(S, s)  == {t \in S : t > s}
Least(S)    == IF S = {} THEN NULL ELSE CHOOSE s \in S : Before(S, s) = {}
Greatest(S) == IF S = {} THEN NULL ELSE CHOOSE s \in S : After(S, s) = {}

RebuildLru(c, kept) ==
    [entries |-> [s \in kept |-> Entry(c.entries[s].record, Greatest(Before(kept, s)),
                                       Least(After(kept, s)))],
     head |-> Least(kept), tail |-> Greatest(kept)]

(* set_cache_policy: evicting from the head of the list just sorted by id  *)
(* until `max` entries are left keeps the greatest ids.                    *)
Rebound(c, max) ==
    RebuildLru(c, {s \in Cached(c) : Cardinality(After(Cached(c), s)) < max})

Unlinked(c) ==
    [entries |-> [s \in Cached(c) |-> Entry(c.entries[s].record, NULL, NULL)],
     head |-> NULL, tail |-> NULL]

-----------------------------------------------------------------------------
(* The ids from the head along `next`; a broken or cyclic list repeats or  *)
(* misses one.                                                             *)
AccessOrder(c) ==
    LET n == Cardinality(Cached(c))
        at[k \in 1..n] == IF k = 1 THEN c.head
                          ELSE IF at[k-1] \in Cached(c) THEN c.entries[at[k-1]].next ELSE NULL
    IN  [k \in 1..n |-> at[k]]

(* Each entry's neighbours agree with it, and the ends with the rest: what *)
(* the expect calls of touch_lru rely on.                                  *)
Coherent(c) ==
    /\ (c.head = NULL) <=> (Cached(c) = {})
    /\ (c.tail = NULL) <=> (Cached(c) = {})
    /\ \A s \in Cached(c) :
          LET e == c.entries[s] IN
          /\ IF e.previous = NULL THEN c.head = s
             ELSE e.previous \in Cached(c) /\ c.entries[e.previous].next = s
          /\ IF e.next = NULL THEN c.tail = s
             ELSE e.next \in Cached(c) /\ c.entries[e.next].previous = s
    /\ {AccessOrder(c)[k] : k \in DOMAIN AccessOrder(c)} = Cached(c)
=============================================================================
